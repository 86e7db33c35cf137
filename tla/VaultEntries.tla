---------------------------- MODULE VaultEntries ----------------------------
(***************************************************************************)
(* The Entries table of the Vaulton API and the requests on it             *)
(* (VaultService.cs behind VaultController.cs).                            *)
(*                                                                         *)
(* A creation looks for the id and then inserts; an update reads the row   *)
(* of its account and then saves by primary key alone; deletion, get and   *)
(* list are one statement each.  Requests interleave between the round     *)
(* trips, and no column is a concurrency token.  An update that finds no   *)
(* row to save and an insert that meets the primary key throw, and the     *)
(* answer is 500.                                                          *)
(*                                                                         *)
(* Ids are GUIDs drawn by PreCreate; a client creates entries under the    *)
(* ids it was given, while it may ask for any.  A payload is opaque.       *)
(* A list is the first page of the account's entries, newest change first; *)
(* times of change are left out, so here it is any page.                   *)
(***************************************************************************)
EXTENDS Naturals

CONSTANTS
    Accounts,
    Ids,        \* the ids that PreCreate can draw (a bound)
    Payloads,
    Reqs,       \* concurrent request slots (a bound)
    PageSize,   \* take: the entries that one list shows, 200
    None        \* "no row", "no request"

VARIABLES
    rows,       \* rows[i]: the row with id i, None if there is none
    issued,     \* issued[i]: the account to which PreCreate gave i
    call,       \* call[r]: the request in slot r
    pc,         \* pc[r]: its next round trip
    result      \* result[r]: the answer, None until there is one

vars == <<rows, issued, call, pc, result>>

Store == INSTANCE EntryStore WITH entries <- rows

Steps == {"idle", "check", "insert", "read", "save", "single", "done"}

Entry == [owner : Accounts, payload : Payloads]

Results == [status : {"ok", "refused", "failed"},
            data : SUBSET [id : Ids, payload : Payloads]]

ASSUME ConstAssumption == None \notin Accounts \cup Entry \cup Store!Calls \cup Results

ASSUME PageAssumption == PageSize \in Nat \ {0}

Init ==
    /\ rows = [i \in Ids |-> None]
    /\ issued = [i \in Ids |-> None]
    /\ call = [r \in Reqs |-> None]
    /\ pc = [r \in Reqs |-> "idle"]
    /\ result = [r \in Reqs |-> None]

PreCreate(a, i) ==
    /\ issued[i] = None
    /\ rows[i] = None
    /\ issued' = [issued EXCEPT ![i] = a]
    /\ UNCHANGED <<rows, call, pc, result>>

First(kind) ==
    IF kind = "create" THEN "check" ELSE IF kind = "update" THEN "read" ELSE "single"

Arrive(r, c) ==
    /\ pc[r] = "idle"
    /\ c.kind = "create" => issued[c.id] = c.acct
    /\ call' = [call EXCEPT ![r] = c]
    /\ pc' = [pc EXCEPT ![r] = First(c.kind)]
    /\ UNCHANGED <<rows, issued, result>>

Finish(r, res) ==
    /\ pc' = [pc EXCEPT ![r] = "done"]
    /\ result' = [result EXCEPT ![r] = res]
    /\ UNCHANGED <<issued, call>>

Goto(r, step) ==
    /\ pc' = [pc EXCEPT ![r] = step]
    /\ UNCHANGED <<rows, issued, call, result>>

(* WHERE Id = c.id AND UserId = c.acct.                                    *)
Own(c) == rows[c.id] # None /\ rows[c.id].owner = c.acct

NewEntryWithoutOwner(c) == [owner |-> None, payload |-> c.payload]     \* mutant
NewEntry(c) == [owner |-> c.acct, payload |-> c.payload]

-----------------------------------------------------------------------------
(* CreateEntryAsync.                                                       *)

Check(r) ==
    /\ pc[r] = "check"
    /\ IF rows[call[r].id] # None
       THEN Finish(r, Store!Refusal) /\ UNCHANGED rows
       ELSE Goto(r, "insert")

Insert(r) ==
    /\ pc[r] = "insert"
    /\ LET c == call[r] IN
       IF rows[c.id] = None
       THEN rows' = [rows EXCEPT ![c.id] = NewEntry(c)] /\ Finish(r, Store!Ok({}))
       ELSE Finish(r, Store!Failure) /\ UNCHANGED rows

-----------------------------------------------------------------------------
(* UpdateEntryAsync.                                                       *)

Read(r) ==
    /\ pc[r] = "read"
    /\ IF Own(call[r]) THEN Goto(r, "save")
       ELSE Finish(r, Store!Refusal) /\ UNCHANGED rows

(* Mutant: a row that is gone is inserted again.                           *)
SaveOrInsert(r) ==
    /\ pc[r] = "save"
    /\ rows' = [rows EXCEPT ![call[r].id] = NewEntry(call[r])]
    /\ Finish(r, Store!Ok({}))

Save(r) ==
    /\ pc[r] = "save"
    /\ LET c == call[r] IN
       IF rows[c.id] # None
       THEN /\ rows' = [rows EXCEPT ![c.id] = [rows[c.id] EXCEPT !.payload = c.payload]]
            /\ Finish(r, Store!Ok({}))
       ELSE Finish(r, Store!Failure) /\ UNCHANGED rows

-----------------------------------------------------------------------------
(* DeleteEntryAsync, GetEntryAsync and ListEntriesAsync.                   *)

Missing(r) == ~Own(call[r]) /\ Finish(r, Store!Refusal) /\ UNCHANGED rows

Delete(r) ==
    /\ pc[r] = "single" /\ call[r].kind = "delete"
    /\ \/ Missing(r)
       \/ /\ Own(call[r])
          /\ rows' = [rows EXCEPT ![call[r].id] = None]
          /\ Finish(r, Store!Ok({}))

Get(r) ==
    /\ pc[r] = "single" /\ call[r].kind = "get"
    /\ \/ Missing(r)
       \/ /\ Own(call[r])
          /\ Finish(r, Store!Ok(Store!Shown({call[r].id})))
          /\ UNCHANGED rows

List(r) ==
    /\ pc[r] = "single" /\ call[r].kind = "list"
    /\ \E page \in Store!Pages({i \in Ids : Store!Owned(i, call[r].acct)}) :
          Finish(r, Store!Ok(Store!Shown(page)))
    /\ UNCHANGED rows

-----------------------------------------------------------------------------
(* The answer leaves; or a round trip throws before it has changed a row.  *)

Answer(r) ==
    /\ pc[r] = "done"
    /\ call' = [call EXCEPT ![r] = None]
    /\ pc' = [pc EXCEPT ![r] = "idle"]
    /\ result' = [result EXCEPT ![r] = None]
    /\ UNCHANGED <<rows, issued>>

Fail(r) ==
    /\ pc[r] \notin {"idle", "done"}
    /\ Finish(r, Store!Failure)
    /\ UNCHANGED rows

Next ==
    \/ \E a \in Accounts, i \in Ids : PreCreate(a, i)
    \/ \E r \in Reqs :
          \/ \E c \in Store!Calls : Arrive(r, c)
          \/ Check(r) \/ Insert(r) \/ Read(r) \/ Save(r)
          \/ Delete(r) \/ Get(r) \/ List(r)
          \/ Answer(r) \/ Fail(r)

Spec == Init /\ [][Next]_vars

-----------------------------------------------------------------------------
(* Properties.                                                             *)

(* Every variable holds a value of its kind.                               *)
TypeOK ==
    /\ rows \in [Ids -> Entry \cup {None}]
    /\ issued \in [Ids -> Accounts \cup {None}]
    /\ call \in [Reqs -> Store!Calls \cup {None}]
    /\ pc \in [Reqs -> Steps]
    /\ result \in [Reqs -> Results \cup {None}]

(* Whatever requests interleave, each takes effect at one moment: an       *)
(* update never revives a deleted entry or touches one of another account, *)
(* a 500 changed nothing, and get and list show one state of the vault.    *)
ImplementsEntryStore == Store!Spec
=============================================================================
