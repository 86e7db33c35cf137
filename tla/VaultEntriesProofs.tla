------------------------- MODULE VaultEntriesProofs -------------------------
(***************************************************************************)
(* Proofs about VaultEntries for every set of accounts, ids, payloads and  *)
(* request slots: type correctness and the refinement of EntryStore.       *)
(*                                                                         *)
(* The refinement needs two facts that are not about types: a row belongs  *)
(* to the account to which its id was issued, and a request that is about  *)
(* to save an update was issued the id it writes.  Without them the save,  *)
(* which looks at the primary key alone, could reach a row of another      *)
(* account that was created between its read and its save.                 *)
(***************************************************************************)
EXTENDS VaultEntries, TLAPS

(* The round trip a slot is at agrees with its request and its answer.     *)
SlotOK(r) ==
    /\ pc[r] = "idle" <=> call[r] = None
    /\ pc[r] = "done" <=> result[r] # None
    /\ pc[r] \in {"check", "insert"} =>
          call[r].kind = "create" /\ issued[call[r].id] = call[r].acct
    /\ pc[r] \in {"read", "save"} => call[r].kind = "update"
    /\ pc[r] = "save" => issued[call[r].id] = call[r].acct
    /\ pc[r] = "single" => call[r].kind \in {"delete", "get", "list"}

RowOK(i) == rows[i] # None => issued[i] = rows[i].owner

Inv == TypeOK /\ (\A r \in Reqs : SlotOK(r)) /\ (\A i \in Ids : RowOK(i))

(* What the table shows of some ids has the type of an answer.             *)
LEMMA ShownType ==
    ASSUME TypeOK, NEW S \in SUBSET Ids, \A i \in S : rows[i] # None
    PROVE  Store!Ok(Store!Shown(S)) \in Results
<1>1. \A i \in S : rows[i] \in Entry
  BY DEF TypeOK
<1>2. Store!Shown(S) \in SUBSET [id : Ids, payload : Payloads]
  BY <1>1 DEF Store!Shown, Entry
<1> QED  BY <1>2 DEF Store!Ok, Results

(* The empty table without requests satisfies the invariant.               *)
LEMMA InitInv == Init => Inv
BY ConstAssumption DEF Init, Inv, TypeOK, SlotOK, RowOK, Steps

(* A request that answers keeps the invariant, whatever it did to rows of  *)
(* ids that were issued.                                                   *)
LEMMA FinishInv ==
    ASSUME Inv, NEW r \in Reqs, NEW res \in Results, pc[r] \notin {"idle", "done"},
           Finish(r, res), rows' \in [Ids -> Entry \cup {None}], \A i \in Ids : RowOK(i)'
    PROVE  Inv'
<1>1. TypeOK'
  BY DEF Inv, TypeOK, Finish, Steps
<1>2. ASSUME NEW q \in Reqs PROVE SlotOK(q)'
  BY <1>2, ConstAssumption DEF Inv, TypeOK, Finish, SlotOK
<1> QED  BY <1>1, <1>2 DEF Inv

(* Refusals and failures are answers.                                      *)
LEMMA ResultTypes ==
    Store!Refusal \in Results /\ Store!Failure \in Results /\ Store!Ok({}) \in Results
BY DEF Store!Refusal, Store!Failure, Store!Ok, Results

(* A request in progress has a call.                                       *)
LEMMA CallType ==
    ASSUME Inv, NEW r \in Reqs, pc[r] # "idle"
    PROVE  call[r] \in Store!Calls /\ call[r].id \in Ids /\ call[r].acct \in Accounts
           /\ call[r].payload \in Payloads
BY DEF Inv, TypeOK, SlotOK, Store!Calls

(* Every step preserves the invariant and is a step of EntryStore.         *)
LEMMA Step == Inv /\ [Next]_vars => Inv' /\ [Store!Next]_(Store!vars)
<1> SUFFICES ASSUME Inv, [Next]_vars PROVE Inv' /\ [Store!Next]_(Store!vars)
  OBVIOUS
<1> USE ConstAssumption
<1>t. TypeOK /\ (\A r \in Reqs : SlotOK(r)) /\ (\A i \in Ids : RowOK(i))
  BY DEF Inv
<1>1. ASSUME NEW a \in Accounts, NEW i \in Ids, PreCreate(a, i)
      PROVE  Inv' /\ [Store!Next]_(Store!vars)
  <2>1. Inv'
    BY <1>1, <1>t, CallType DEF PreCreate, Inv, TypeOK, SlotOK, RowOK
  <2> QED  BY <1>1, <2>1 DEF PreCreate, Store!vars
<1>2. ASSUME NEW r \in Reqs, NEW c \in Store!Calls, Arrive(r, c)
      PROVE  Inv' /\ [Store!Next]_(Store!vars)
  <2>1. c.kind \in {"create", "update", "delete", "get", "list"}
    BY DEF Store!Calls, Store!Kinds
  <2>2. TypeOK'
    BY <1>2, <1>t DEF Arrive, TypeOK, First, Steps
  <2>3. ASSUME NEW q \in Reqs PROVE SlotOK(q)'
    BY <1>2, <1>t, <2>1 DEF Arrive, TypeOK, SlotOK, First
  <2>4. \A i \in Ids : RowOK(i)'
    BY <1>2, <1>t DEF Arrive, RowOK
  <2>5. Store!Arrive(r)
    BY <1>2, <1>t DEF Arrive, SlotOK, Store!Arrive
  <2> QED  BY <2>2, <2>3, <2>4, <2>5 DEF Inv, Store!Next
<1>3. ASSUME NEW r \in Reqs, NEW step \in {"insert", "save"}, Goto(r, step),
             step = "insert" => pc[r] = "check",
             step = "save" => pc[r] = "read" /\ Own(call[r])
      PROVE  Inv' /\ [Store!Next]_(Store!vars)
  <2>1. TypeOK'
    BY <1>3, <1>t DEF Goto, TypeOK, Steps
  <2>2. step = "save" => issued[call[r].id] = call[r].acct
    BY <1>3, <1>t, CallType DEF Own, RowOK
  <2>3. ASSUME NEW q \in Reqs PROVE SlotOK(q)'
    BY <1>3, <1>t, <2>2 DEF Goto, TypeOK, SlotOK
  <2>4. \A i \in Ids : RowOK(i)'
    BY <1>3, <1>t DEF Goto, RowOK
  <2> QED  BY <1>3, <2>1, <2>3, <2>4 DEF Inv, Goto, Store!vars
<1>4. ASSUME NEW r \in Reqs, NEW res \in Results, pc[r] \notin {"idle", "done"},
             Finish(r, res), rows' \in [Ids -> Entry \cup {None}], \A i \in Ids : RowOK(i)',
             \/ Store!Create(r, call[r]) \/ Store!Update(r, call[r])
             \/ Store!Delete(r, call[r]) \/ Store!Get(r, call[r]) \/ Store!List(r, call[r])
             \/ Store!Refuse(r, call[r]) \/ Store!Fail(r)
      PROVE  Inv' /\ [Store!Next]_(Store!vars)
  <2>1. Inv'
    BY <1>4, FinishInv
  <2>2. call[r] # None /\ result[r] = None /\ call' = call
    BY <1>4, <1>t DEF Finish, SlotOK
  <2>3. Store!Perform(r)
    BY <1>4, <2>2 DEF Store!Perform
  <2> QED  BY <2>1, <2>3 DEF Store!Next
<1>5. ASSUME NEW r \in Reqs, Check(r) PROVE Inv' /\ [Store!Next]_(Store!vars)
  <2>1. CASE rows[call[r].id] = None
    BY <1>5, <2>1, <1>3 DEF Check
  <2>2. CASE rows[call[r].id] # None
    <3>1. Finish(r, Store!Refusal) /\ rows' = rows /\ issued' = issued
      BY <1>5, <2>2 DEF Check, Finish
    <3>2. Store!Refuse(r, call[r])
      BY <1>5, <1>t, <2>2, <3>1 DEF Check, SlotOK, Finish, Store!Refuse
    <3> QED  BY <1>5, <1>t, <1>4, <3>1, <3>2, ResultTypes DEF Check, TypeOK, RowOK
  <2> QED  BY <2>1, <2>2
<1>6. ASSUME NEW r \in Reqs, Insert(r) PROVE Inv' /\ [Store!Next]_(Store!vars)
  <2>0. /\ call[r].id \in Ids /\ call[r].acct \in Accounts /\ call[r].payload \in Payloads
        /\ call[r].kind = "create" /\ issued[call[r].id] = call[r].acct
    BY <1>6, <1>t, CallType DEF Insert, SlotOK
  <2>1. CASE rows[call[r].id] = None
    <3>1. /\ rows' = [rows EXCEPT ![call[r].id] = NewEntry(call[r])]
          /\ Finish(r, Store!Ok({})) /\ issued' = issued
      BY <1>6, <2>1 DEF Insert, Finish
    <3>2. NewEntry(call[r]) \in Entry /\ NewEntry(call[r]).owner = call[r].acct
      BY <2>0 DEF NewEntry, Entry
    <3>3. rows' \in [Ids -> Entry \cup {None}] /\ \A i \in Ids : RowOK(i)'
      BY <1>t, <2>0, <3>1, <3>2 DEF TypeOK, RowOK
    <3>4. Store!Create(r, call[r])
      BY <2>0, <2>1, <3>1 DEF NewEntry, Finish, Store!Create, Store!Succeed
    <3> QED  BY <1>6, <1>4, <3>1, <3>3, <3>4, ResultTypes DEF Insert
  <2>2. CASE rows[call[r].id] # None
    <3>1. Finish(r, Store!Failure) /\ rows' = rows /\ issued' = issued
      BY <1>6, <2>2 DEF Insert, Finish
    <3>2. Store!Fail(r)
      BY <3>1 DEF Finish, Store!Fail
    <3> QED  BY <1>6, <1>t, <1>4, <3>1, <3>2, ResultTypes DEF Insert, TypeOK, RowOK
  <2> QED  BY <2>1, <2>2
<1>7. ASSUME NEW r \in Reqs, Read(r) PROVE Inv' /\ [Store!Next]_(Store!vars)
  <2>1. CASE Own(call[r])
    BY <1>7, <2>1, <1>3 DEF Read
  <2>2. CASE ~Own(call[r])
    <3>1. Finish(r, Store!Refusal) /\ rows' = rows /\ issued' = issued
      BY <1>7, <2>2 DEF Read, Finish
    <3>2. Store!Refuse(r, call[r])
      BY <1>7, <1>t, <2>2, <3>1 DEF Read, SlotOK, Own, Finish, Store!Refuse, Store!Owned
    <3> QED  BY <1>7, <1>t, <1>4, <3>1, <3>2, ResultTypes DEF Read, TypeOK, RowOK
  <2> QED  BY <2>1, <2>2
<1>8. ASSUME NEW r \in Reqs, Save(r) PROVE Inv' /\ [Store!Next]_(Store!vars)
  <2>0. /\ call[r].id \in Ids /\ call[r].acct \in Accounts /\ call[r].payload \in Payloads
        /\ call[r].kind = "update" /\ issued[call[r].id] = call[r].acct
    BY <1>8, <1>t, CallType DEF Save, SlotOK
  <2>1. CASE rows[call[r].id] # None
    <3> DEFINE new == [rows[call[r].id] EXCEPT !.payload = call[r].payload]
    <3>1. rows[call[r].id] \in Entry /\ rows[call[r].id].owner = call[r].acct
      BY <1>t, <2>0, <2>1 DEF TypeOK, RowOK
    <3>2. new \in Entry /\ new = [owner |-> call[r].acct, payload |-> call[r].payload]
          /\ new.owner = call[r].acct
      BY <2>0, <3>1 DEF Entry
    <3>3. /\ rows' = [rows EXCEPT ![call[r].id] = new]
          /\ Finish(r, Store!Ok({})) /\ issued' = issued
      BY <1>8, <2>1 DEF Save, Finish
    <3>4. rows' \in [Ids -> Entry \cup {None}] /\ \A i \in Ids : RowOK(i)'
      BY <1>t, <2>0, <3>2, <3>3 DEF TypeOK, RowOK
    <3>5. Store!Update(r, call[r])
      BY <2>0, <2>1, <3>1, <3>2, <3>3
         DEF Finish, Store!Update, Store!Owned, Store!Succeed
    <3> QED  BY <1>8, <1>4, <3>3, <3>4, <3>5, ResultTypes DEF Save
  <2>2. CASE rows[call[r].id] = None
    <3>1. Finish(r, Store!Failure) /\ rows' = rows /\ issued' = issued
      BY <1>8, <2>2 DEF Save, Finish
    <3>2. Store!Fail(r)
      BY <3>1 DEF Finish, Store!Fail
    <3> QED  BY <1>8, <1>t, <1>4, <3>1, <3>2, ResultTypes DEF Save, TypeOK, RowOK
  <2> QED  BY <2>1, <2>2
<1>9. ASSUME NEW r \in Reqs, pc[r] = "single", call[r].kind \in {"delete", "get"}, Missing(r)
      PROVE  Inv' /\ [Store!Next]_(Store!vars)
  <2>1. Finish(r, Store!Refusal) /\ rows' = rows /\ issued' = issued /\ ~Own(call[r])
    BY <1>9 DEF Missing, Finish
  <2>2. Store!Refuse(r, call[r])
    BY <1>9, <2>1 DEF Own, Finish, Store!Refuse, Store!Owned
  <2> QED  BY <1>9, <1>t, <1>4, <2>1, <2>2, ResultTypes DEF TypeOK, RowOK
<1>10. ASSUME NEW r \in Reqs, Delete(r) PROVE Inv' /\ [Store!Next]_(Store!vars)
  <2>1. CASE Missing(r)
    BY <1>10, <2>1, <1>9 DEF Delete
  <2>2. CASE ~Missing(r)
    <3>1. /\ pc[r] = "single" /\ call[r].kind = "delete" /\ Own(call[r])
          /\ rows' = [rows EXCEPT ![call[r].id] = None]
          /\ Finish(r, Store!Ok({})) /\ issued' = issued
      BY <1>10, <2>2 DEF Delete, Finish
    <3>2. rows' \in [Ids -> Entry \cup {None}] /\ \A i \in Ids : RowOK(i)'
      BY <1>t, <3>1 DEF TypeOK, RowOK
    <3>3. Store!Delete(r, call[r])
      BY <3>1 DEF Own, Finish, Store!Delete, Store!Owned, Store!Succeed
    <3> QED  BY <1>4, <3>1, <3>2, <3>3, ResultTypes
  <2> QED  BY <2>1, <2>2
<1>11. ASSUME NEW r \in Reqs, Get(r) PROVE Inv' /\ [Store!Next]_(Store!vars)
  <2>1. CASE Missing(r)
    BY <1>11, <2>1, <1>9 DEF Get
  <2>2. CASE ~Missing(r)
    <3>1. /\ pc[r] = "single" /\ call[r].kind = "get" /\ Own(call[r]) /\ rows' = rows
          /\ Finish(r, Store!Ok(Store!Shown({call[r].id}))) /\ issued' = issued
      BY <1>11, <2>2 DEF Get, Finish
    <3>2. Store!Ok(Store!Shown({call[r].id})) \in Results
      BY <1>t, <3>1, ShownType, CallType DEF Own
    <3>3. Store!Get(r, call[r])
      BY <3>1 DEF Own, Finish, Store!Get, Store!Owned, Store!Succeed
    <3> QED  BY <1>t, <1>4, <3>1, <3>2, <3>3 DEF TypeOK, RowOK
  <2> QED  BY <2>1, <2>2
<1>12. ASSUME NEW r \in Reqs, List(r) PROVE Inv' /\ [Store!Next]_(Store!vars)
  <2> DEFINE S == {i \in Ids : Store!Owned(i, call[r].acct)}
  <2>1. PICK page \in Store!Pages(S) :
          /\ pc[r] = "single" /\ call[r].kind = "list" /\ rows' = rows
          /\ Finish(r, Store!Ok(Store!Shown(page))) /\ issued' = issued
    BY <1>12 DEF List, Finish
  <2>2. Store!Ok(Store!Shown(page)) \in Results
    <3>1. page \in SUBSET Ids /\ \A i \in page : rows[i] # None
      BY DEF Store!Pages, Store!Owned
    <3> QED  BY <1>t, <3>1, ShownType
  <2>3. Store!List(r, call[r])
    BY <2>1 DEF Finish, Store!List, Store!Succeed
  <2> QED  BY <1>t, <1>4, <2>1, <2>2, <2>3 DEF TypeOK, RowOK
<1>13. ASSUME NEW r \in Reqs, Answer(r) PROVE Inv' /\ [Store!Next]_(Store!vars)
  <2>1. TypeOK'
    BY <1>13, <1>t DEF Answer, TypeOK, Steps
  <2>2. ASSUME NEW q \in Reqs PROVE SlotOK(q)'
    BY <1>13, <1>t DEF Answer, TypeOK, SlotOK
  <2>3. \A i \in Ids : RowOK(i)'
    BY <1>13, <1>t DEF Answer, RowOK
  <2>4. Store!Answer(r)
    BY <1>13, <1>t DEF Answer, SlotOK, Store!Answer
  <2> QED  BY <2>1, <2>2, <2>3, <2>4 DEF Inv, Store!Next
<1>14. ASSUME NEW r \in Reqs, Fail(r) PROVE Inv' /\ [Store!Next]_(Store!vars)
  <2>1. Finish(r, Store!Failure) /\ rows' = rows /\ issued' = issued
    BY <1>14 DEF Fail, Finish
  <2>2. Store!Fail(r)
    BY <2>1 DEF Finish, Store!Fail
  <2> QED  BY <1>14, <1>t, <1>4, <2>1, <2>2, ResultTypes DEF Fail, TypeOK, RowOK
<1>15. CASE UNCHANGED vars
  BY <1>15, <1>t DEF vars, Inv, TypeOK, SlotOK, RowOK, Store!vars
<1> QED
  BY <1>1, <1>2, <1>5, <1>6, <1>7, <1>8, <1>10, <1>11, <1>12, <1>13, <1>14, <1>15 DEF Next

(* The initial table is an initial store.                                  *)
LEMMA InitMaps == Init => Store!Init
BY DEF Init, Store!Init

(* Types, the agreement of slots with their requests, and that a row       *)
(* belongs to the account its id was issued to, in every reachable state.  *)
THEOREM Invariance == Spec => []Inv
<1>1. Inv /\ [Next]_vars => Inv'
  BY Step
<1> QED  BY InitInv, <1>1, PTL DEF Spec

(* Every variable of the vault's table and its requests holds a value of   *)
(* its kind.                                                               *)
THEOREM TypeCorrect == Spec => []TypeOK
<1>1. Inv => TypeOK
  BY DEF Inv
<1> QED  BY Invariance, <1>1, PTL

(* VaultService.cs keeps the promise of EntryStore: every request takes    *)
(* effect at one moment or not at all.                                     *)
THEOREM StoreImplemented == Spec => ImplementsEntryStore
<1>1. Inv /\ [Next]_vars => [Store!Next]_(Store!vars)
  BY Step
<1> QED
  BY InitMaps, Invariance, <1>1, PTL DEF Spec, ImplementsEntryStore, Store!Spec
=============================================================================
