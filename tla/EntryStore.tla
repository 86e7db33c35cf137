----------------------------- MODULE EntryStore -----------------------------
(***************************************************************************)
(* What the vault endpoints promise, with no database in sight: a request  *)
(* takes effect at one moment between its arrival and its answer, or not   *)
(* at all, and the answer tells what was true at that moment.  An entry    *)
(* belongs to one account; the requests of others find nothing.  A list is *)
(* cut off at one page; which entries a page shows is left open.           *)
(***************************************************************************)
EXTENDS Naturals, FiniteSets

CONSTANTS Accounts, Ids, Payloads, Reqs, PageSize, None

VARIABLES
    entries,    \* entries[i]: owner and payload of entry i, None if absent
    call,       \* call[r]: the request in slot r, None if there is none
    result      \* result[r]: its answer, None until it has taken effect

vars == <<entries, call, result>>

Kinds == {"create", "update", "delete", "get", "list"}

Calls == [kind : Kinds, acct : Accounts, id : Ids, payload : Payloads]

Ok(data) == [status |-> "ok", data |-> data]
Refusal  == [status |-> "refused", data |-> {}]
Failure  == [status |-> "failed", data |-> {}]

Init ==
    /\ entries = [i \in Ids |-> None]
    /\ call = [r \in Reqs |-> None]
    /\ result = [r \in Reqs |-> None]

Owned(i, a) == entries[i] # None /\ entries[i].owner = a

Shown(S) == {[id |-> i, payload |-> entries[i].payload] : i \in S}

Pages(S) ==
    IF Cardinality(S) > PageSize
    THEN {page \in SUBSET S : Cardinality(page) = PageSize} ELSE {S}

Arrive(r) ==
    /\ call[r] = None
    /\ \E c \in Calls : call' = [call EXCEPT ![r] = c]
    /\ UNCHANGED <<entries, result>>

Succeed(r, stored, data) ==
    /\ entries' = stored
    /\ result' = [result EXCEPT ![r] = Ok(data)]

Create(r, c) ==
    /\ c.kind = "create"
    /\ entries[c.id] = None
    /\ Succeed(r, [entries EXCEPT ![c.id] = [owner |-> c.acct, payload |-> c.payload]], {})

Update(r, c) ==
    /\ c.kind = "update"
    /\ Owned(c.id, c.acct)
    /\ Succeed(r, [entries EXCEPT ![c.id] = [owner |-> c.acct, payload |-> c.payload]], {})

Delete(r, c) ==
    /\ c.kind = "delete"
    /\ Owned(c.id, c.acct)
    /\ Succeed(r, [entries EXCEPT ![c.id] = None], {})

Get(r, c) ==
    /\ c.kind = "get"
    /\ Owned(c.id, c.acct)
    /\ Succeed(r, entries, Shown({c.id}))

List(r, c) ==
    /\ c.kind = "list"
    /\ \E page \in Pages({i \in Ids : Owned(i, c.acct)}) :
          Succeed(r, entries, Shown(page))

Refuse(r, c) ==
    /\ \/ c.kind = "create" /\ entries[c.id] # None
       \/ c.kind \in {"update", "delete", "get"} /\ ~Owned(c.id, c.acct)
    /\ result' = [result EXCEPT ![r] = Refusal]
    /\ UNCHANGED entries

(* An answer of 500 means that nothing was changed.                        *)
Fail(r) ==
    /\ result' = [result EXCEPT ![r] = Failure]
    /\ UNCHANGED entries

Perform(r) ==
    /\ call[r] # None
    /\ result[r] = None
    /\ LET c == call[r] IN
       \/ Create(r, c) \/ Update(r, c) \/ Delete(r, c) \/ Get(r, c) \/ List(r, c)
       \/ Refuse(r, c) \/ Fail(r)
    /\ UNCHANGED call

Answer(r) ==
    /\ result[r] # None
    /\ call' = [call EXCEPT ![r] = None]
    /\ result' = [result EXCEPT ![r] = None]
    /\ UNCHANGED entries

Next == \E r \in Reqs : Arrive(r) \/ Perform(r) \/ Answer(r)

Spec == Init /\ [][Next]_vars
=============================================================================
