---------------------------- MODULE VaultRecords ----------------------------
(***************************************************************************)
(* The list of decrypted records of one tab (vault-data.service.ts), the   *)
(* dashboard that fills and changes it, and the server behind it, which    *)
(* EntryStore stands for.                                                  *)
(*                                                                         *)
(* Every operation is an async function that stops at each await: a call   *)
(* of the API, an encryption or a decryption by the worker.  Operations    *)
(* interleave there, and the vault can be locked there.  Only the worker   *)
(* of an unlocked vault has the key, so encryption and decryption fail     *)
(* while the vault is locked; a worker that crashes or is late fails too.  *)
(*                                                                         *)
(* A call can fail without having taken effect, and an answer can be lost  *)
(* after it has.  The tab is the only one that changes the entries.        *)
(***************************************************************************)
EXTENDS Integers, Sequences

CONSTANTS
    Tasks,      \* operations under way at a time (a bound)
    Ids,        \* the ids that PreCreate can draw (a bound)
    Payloads,
    PageSize,   \* take: the entries that one list shows, 200
    Account,    \* the account whose vault it is
    None

VARIABLES
    entries, call, result,  \* the server, see EntryStore
    issued,     \* the ids that PreCreate has drawn
    records,    \* the records signal, newest first
    unlocked,   \* isUnlocked; the worker holds the key while it is set
    loading,    \* isLoading: a spinner stands in place of the list
    pc,         \* pc[t]: what task t waits for
    job,        \* job[t]: its operation, as the call it makes
    rest,       \* rest[t]: the entries a load has still to decrypt
    kept,       \* kept[t]: decryptedRecords of a load, previous of a deletion
    doubt       \* history: something may have set list and server apart

server == <<entries, call, result>>
vars   == <<server, issued, records, unlocked, loading, pc, job, rest, kept, doubt>>

Store == INSTANCE EntryStore WITH Accounts <- {Account}, Reqs <- Tasks

Steps  == {"idle", "precreate", "encrypt", "api", "decrypt"}
Record == [id : Ids, payload : Payloads]

Entry  == [owner : {Account}, payload : Payloads]
Job    == [kind : {"create", "update", "delete", "list"}, acct : {Account},
           id : Ids \cup {None}, payload : Payloads \cup {None}]
Reply  == [status : {"ok", "refused", "failed"}, data : SUBSET Record]

ASSUME ConstAssumption ==
    None \notin Ids \cup Payloads \cup Entry \cup Job \cup Reply

ASSUME PageAssumption == PageSize \in Nat \ {0}

Shown == {records[n] : n \in 1..Len(records)}

Without(s, i) ==
    LET left[n \in 0..Len(s)] ==
          IF n = 0 THEN <<>>
          ELSE IF s[n].id = i THEN left[n - 1] ELSE Append(left[n - 1], s[n])
    IN  left[Len(s)]

Replaced(s, i, p) ==
    [n \in DOMAIN s |-> IF s[n].id = i THEN [s[n] EXCEPT !.payload = p] ELSE s[n]]

Call(kind, i, p) == [kind |-> kind, acct |-> Account, id |-> i, payload |-> p]

(* A list call has neither id nor payload.                                 *)
ListCall == Call("list", None, None)

Under(t)    == {o \in Tasks \ {t} : pc[o] # "idle"}
Changing(t) == {o \in Under(t) : job[o].kind # "list"}

Init ==
    /\ entries = [i \in Ids |-> None]
    /\ call = [t \in Tasks |-> None]
    /\ result = [t \in Tasks |-> None]
    /\ issued = {}
    /\ records = <<>>
    /\ unlocked = FALSE
    /\ loading = FALSE
    /\ pc = [t \in Tasks |-> "idle"]
    /\ job = [t \in Tasks |-> None]
    /\ rest = [t \in Tasks |-> {}]
    /\ kept = [t \in Tasks |-> <<>>]
    /\ doubt = FALSE

Goto(t, step, j) ==
    /\ pc' = [pc EXCEPT ![t] = step]
    /\ job' = [job EXCEPT ![t] = j]

Send(t, c) ==
    /\ call' = [call EXCEPT ![t] = c]
    /\ result' = [result EXCEPT ![t] = None]
    /\ UNCHANGED entries

Received(t) == Send(t, None)

Keep(t, todo, s) ==
    /\ rest' = [rest EXCEPT ![t] = todo]
    /\ kept' = [kept EXCEPT ![t] = s]

EndKeepsJob(t) == Goto(t, "idle", job[t]) /\ Keep(t, {}, <<>>)     \* mutant

End(t) == Goto(t, "idle", None) /\ Keep(t, {}, <<>>)

-----------------------------------------------------------------------------
(* Loads: loadRecords.                                                     *)

LoadRecords(t) ==
    /\ Send(t, ListCall)
    /\ Goto(t, "api", ListCall)
    /\ Keep(t, {}, <<>>)
    /\ loading' = TRUE
    /\ doubt' = (Under(t) # {} /\ (doubt \/ Changing(t) # {}))

(* The dashboard's effect runs when the vault is unlocked, and when the    *)
(* page is opened with an unlocked vault.                                  *)
Open(t) ==
    /\ pc[t] = "idle"
    /\ unlocked' = TRUE
    /\ LoadRecords(t)
    /\ UNCHANGED <<issued, records>>

Lock ==
    /\ unlocked
    /\ unlocked' = FALSE
    /\ records' = <<>>
    /\ UNCHANGED <<server, issued, loading, pc, job, rest, kept, doubt>>

Listed(t) ==
    /\ pc[t] = "api" /\ job[t].kind = "list"
    /\ result[t] # None /\ result[t].status = "ok"
    /\ Received(t)
    /\ Goto(t, "decrypt", job[t])
    /\ Keep(t, result[t].data, <<>>)
    /\ UNCHANGED <<issued, records, unlocked, loading, doubt>>

(* The list comes in the order of the last changes; here in any.           *)
DecryptEntry(t) ==
    /\ pc[t] = "decrypt"
    /\ \E e \in rest[t] :
          \/ unlocked /\ Keep(t, rest[t] \ {e}, Append(kept[t], e)) /\ UNCHANGED doubt
          \/ Keep(t, rest[t] \ {e}, kept[t]) /\ doubt' = TRUE
    /\ UNCHANGED <<server, issued, records, unlocked, loading, pc, job>>

Loaded(t) ==
    /\ pc[t] = "decrypt"
    /\ rest[t] = {}
    /\ records' = kept[t]
    /\ loading' = FALSE
    /\ End(t)
    /\ UNCHANGED <<server, issued, unlocked, doubt>>

LoadFailedSpins(t) ==   \* mutant: isLoading is not reset
    /\ pc[t] = "api" /\ job[t].kind = "list"
    /\ result[t] # None
    /\ Received(t)
    /\ doubt' = TRUE
    /\ End(t)
    /\ UNCHANGED <<issued, records, unlocked, loading>>

LoadFailed(t) ==
    /\ pc[t] = "api" /\ job[t].kind = "list"
    /\ result[t] # None
    /\ Received(t)
    /\ loading' = FALSE
    /\ doubt' = TRUE
    /\ End(t)
    /\ UNCHANGED <<issued, records, unlocked>>

-----------------------------------------------------------------------------
(* Saves: addRecord, updateRecord and handleSave around them.  The cards   *)
(* and the button for a new one are there while no load runs.              *)

(* History: a load, or another change of the same entry, is under way.     *)
Crosses(t, i) == \E o \in Under(t) : job[o].kind = "list" \/ job[o].id = i

AddRecord(t) ==
    /\ pc[t] = "idle" /\ unlocked /\ ~loading
    /\ \E p \in Payloads : Goto(t, "precreate", Call("create", None, p))
    /\ doubt' = (doubt \/ Crosses(t, None))
    /\ UNCHANGED <<server, issued, records, unlocked, loading, rest, kept>>

PreCreate(t) ==
    /\ pc[t] = "precreate"
    /\ \E i \in Ids \ issued :
          /\ issued' = issued \cup {i}
          /\ Goto(t, "encrypt", [job[t] EXCEPT !.id = i])
    /\ UNCHANGED <<server, records, unlocked, loading, rest, kept, doubt>>

UpdateRecord(t) ==
    /\ pc[t] = "idle" /\ unlocked /\ ~loading
    /\ \E x \in Shown, p \in Payloads :
          /\ Goto(t, "encrypt", Call("update", x.id, p))
          /\ doubt' = (doubt \/ Crosses(t, x.id))
    /\ UNCHANGED <<server, issued, records, unlocked, loading, rest, kept>>

Encrypt(t) ==
    /\ pc[t] = "encrypt"
    /\ unlocked
    /\ Send(t, job[t])
    /\ Goto(t, "api", job[t])
    /\ UNCHANGED <<issued, records, unlocked, loading, rest, kept, doubt>>

ShowSaved(t) ==
    records' = IF job[t].kind = "create"
               THEN <<[id |-> job[t].id, payload |-> job[t].payload]>> \o records
               ELSE Replaced(records, job[t].id, job[t].payload)

Saved(t) ==
    /\ pc[t] = "api" /\ job[t].kind \in {"create", "update"}
    /\ result[t] # None /\ result[t].status = "ok"
    /\ ShowSaved(t)
    /\ Received(t)
    /\ End(t)
    /\ UNCHANGED <<issued, unlocked, loading, doubt>>

(* Whatever failed, the dashboard loads the list again.                    *)
SaveFailed(t) ==
    /\ \/ pc[t] \in {"precreate", "encrypt"}
       \/ pc[t] = "api" /\ job[t].kind \in {"create", "update"} /\ result[t] # None
    /\ LoadRecords(t)
    /\ UNCHANGED <<issued, records, unlocked>>

-----------------------------------------------------------------------------
(* Deletion: deleteRecord removes the record first and asks then.          *)

DeleteRecord(t) ==
    /\ pc[t] = "idle" /\ unlocked /\ ~loading
    /\ \E x \in Shown :
          LET c == Call("delete", x.id, x.payload) IN
          /\ records' = Without(records, x.id)
          /\ Send(t, c)
          /\ Goto(t, "api", c)
          /\ doubt' = (doubt \/ Crosses(t, x.id))
    /\ Keep(t, {}, records)
    /\ UNCHANGED <<issued, unlocked, loading>>

Deleted(t) ==
    /\ pc[t] = "api" /\ job[t].kind = "delete"
    /\ result[t] # None /\ result[t].status = "ok"
    /\ Received(t)
    /\ End(t)
    /\ UNCHANGED <<issued, records, unlocked, loading, doubt>>

ForgetPrevious(t) == records' = records     \* mutant: no roll back

RollBack(t) == records' = kept[t]

(* The list comes back as it was before the deletion, with all that has    *)
(* changed since.                                                          *)
DeleteFailed(t) ==
    /\ pc[t] = "api" /\ job[t].kind = "delete"
    /\ result[t] # None
    /\ RollBack(t)
    /\ doubt' = (\/ doubt
                 \/ result[t].status = "ok"
                 \/ records # Without(kept[t], job[t].id))
    /\ Received(t)
    /\ End(t)
    /\ UNCHANGED <<issued, unlocked, loading>>

-----------------------------------------------------------------------------

(* History: the list that the call asks for does not fit on a page.        *)
CutOff(t) ==
    /\ job[t].kind = "list"
    /\ LET all == {i \in Ids : entries[i] # None} IN all \notin Store!Pages(all)

(* The server takes up a call, or it fails on the way.                     *)
Serve(t) ==
    /\ Store!Perform(t)
    /\ doubt' = (doubt \/ CutOff(t))
    /\ UNCHANGED <<issued, records, unlocked, loading, pc, job, rest, kept>>

Continue(t) ==
    \/ Serve(t)
    \/ Listed(t) \/ DecryptEntry(t) \/ Loaded(t) \/ LoadFailed(t)
    \/ PreCreate(t) \/ Encrypt(t) \/ Saved(t) \/ SaveFailed(t)
    \/ Deleted(t) \/ DeleteFailed(t)

Next ==
    \/ Lock
    \/ \E t \in Tasks :
          \/ Open(t) \/ AddRecord(t) \/ UpdateRecord(t) \/ DeleteRecord(t)
          \/ Continue(t)

Spec == Init /\ [][Next]_vars

-----------------------------------------------------------------------------
(* Properties.                                                             *)

(* Every variable holds a value of its kind.                               *)
TypeOK ==
    /\ entries \in [Ids -> Entry \cup {None}]
    /\ call = [t \in Tasks |-> IF pc[t] = "api" THEN job[t] ELSE None]
    /\ result \in [Tasks -> Reply \cup {None}]
    /\ issued \subseteq Ids
    /\ records \in Seq(Record)
    /\ unlocked \in BOOLEAN /\ loading \in BOOLEAN /\ doubt \in BOOLEAN
    /\ pc \in [Tasks -> Steps]
    /\ job \in [Tasks -> Job \cup {None}]
    /\ \A t \in Tasks : job[t] = None <=> pc[t] = "idle"
    /\ rest \in [Tasks -> SUBSET Record]
    /\ kept \in [Tasks -> Seq(Record)]

(* When all operations have ended, the list shows each entry of the server *)
(* once with its last payload.  It can be otherwise only after a load of   *)
(* more than a page of entries, of which api.list shows the first 200 and  *)
(* loadRecords asks no more; after a load that failed, in part or beside a *)
(* change; after two changes of one entry at a time; and after a deletion  *)
(* that failed when others had changed the list, or whose answer was lost. *)
(* All but the first are made right by opening the page again.             *)
ListMatchesStore ==
    unlocked /\ ~doubt /\ (\A t \in Tasks : pc[t] = "idle") =>
        /\ Shown = {[id |-> i, payload |-> entries[i].payload] :
                       i \in {i \in Ids : entries[i] # None}}
        /\ \A m, n \in 1..Len(records) : records[m].id = records[n].id => m = n

(* The spinner stands for a load that will end: one that fails, or ends    *)
(* after a lock or beside another load, never leaves it behind.            *)
SpinnerMeansLoad ==
    loading => \E t \in Tasks : pc[t] \in {"api", "decrypt"} /\ job[t].kind = "list"
=============================================================================
