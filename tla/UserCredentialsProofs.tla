----------------------- MODULE UserCredentialsProofs -----------------------
(***************************************************************************)
(* Proofs about UserCredentials, for any number of concurrent requests,    *)
(* failure limit, lockout duration and time.                               *)
(*                                                                         *)
(* Inv adds to the types that a request about to save holds a copy of a    *)
(* row that exists, and that no stored bundle is newer than the last one   *)
(* made: that is why a new bundle differs from the one read, and is saved. *)
(***************************************************************************)
EXTENDS UserCredentials, TLAPS

Known(u) == u.pwd.id <= issued /\ u.rk <= issued

Inv ==
    /\ TypeOK
    /\ row # None => Known(row)
    /\ \A r \in Reqs : pc[r] = "save" =>
          /\ row # None
          /\ snap[r] # None /\ Known(snap[r])
          /\ op[r] \in Handlers

-----------------------------------------------------------------------------

(* The copy a request saves, and the row it saves it to.                   *)
LEMMA SavingFacts ==
    ASSUME Inv, NEW r \in Reqs, pc[r] = "save"
    PROVE  /\ row \in User /\ snap[r] \in User /\ at[r] \in Nat
           /\ row.pwd \in Bundle /\ row.pwd.id \in Nat /\ row.rk \in Nat
           /\ snap[r].pwd \in Bundle /\ snap[r].pwd.id \in Nat /\ snap[r].rk \in Nat
           /\ row.pwd.id <= issued /\ row.rk <= issued
           /\ snap[r].pwd.id <= issued /\ snap[r].rk <= issued
           /\ issued \in Nat
BY DEF Inv, TypeOK, Known, User, Bundle

(* A save of success writes a row of the right kind.                       *)
LEMMA SuccessRow ==
    ASSUME Inv, NEW r \in Reqs, NEW pwd \in Bundle, NEW rk \in Nat, NEW m \in Modes,
           SaveSuccess(r, pwd, rk, m)
    PROVE  /\ row' \in User
           /\ row'.pwd = (IF pwd = snap[r].pwd THEN row.pwd ELSE pwd)
           /\ row'.rk = (IF rk = snap[r].rk THEN row.rk ELSE rk)
<1> USE ConstAssumption
<1>1. row \in User /\ snap[r] \in User /\ pc[r] = "save"
  BY SavingFacts DEF SaveSuccess
<1>2. row' = [pwd |-> Put(row.pwd, snap[r].pwd, pwd),
              kdf |-> Put(row.kdf, snap[r].kdf, m),
              rk |-> Put(row.rk, snap[r].rk, rk),
              fails |-> Put(row.fails, snap[r].fails, 0),
              lockedUntil |-> Put(row.lockedUntil, snap[r].lockedUntil, None)]
  BY DEF SaveSuccess
<1>3. /\ Put(row.pwd, snap[r].pwd, pwd) \in Bundle
      /\ Put(row.kdf, snap[r].kdf, m) \in Modes
      /\ Put(row.rk, snap[r].rk, rk) \in Nat
      /\ Put(row.fails, snap[r].fails, 0) \in 0..(MaxFails - 1)
      /\ Put(row.lockedUntil, snap[r].lockedUntil, None) \in Nat \cup {None}
  BY <1>1 DEF Put, User
<1>4. row' \in User
  BY <1>2, <1>3 DEF User
<1> QED  BY <1>2, <1>4 DEF Put

(* What the slot of a finished request holds.                              *)
LEMMA FinishTypes ==
    ASSUME TypeOK, NEW r \in Reqs, Finish(r)
    PROVE  /\ pc' \in [Reqs -> {"idle", "create", "save"}]
           /\ op' \in [Reqs -> Handlers \cup {None}]
           /\ snap' \in [Reqs -> User \cup {None}]
           /\ at' \in [Reqs -> Nat]
           /\ good' \in [Reqs -> BOOLEAN]
           /\ pc'[r] = "idle"
           /\ \A q \in Reqs : q # r => /\ pc'[q] = pc[q] /\ op'[q] = op[q]
                                       /\ snap'[q] = snap[q]
BY DEF TypeOK, Finish

(* Every request but r keeps its part of Inv while r saves and ends.       *)
LEMMA Saved ==
    ASSUME Inv, NEW r \in Reqs, Finish(r),
           row' \in User \cup {None}, issued' \in Nat, issued <= issued',
           clock' \in Nat, failed' \in Nat, stale' \in BOOLEAN,
           row # None => row' # None, row' # None => Known(row)'
    PROVE  Inv'
<1> USE ConstAssumption
<1>1. TypeOK'
  BY FinishTypes DEF Inv, TypeOK
<1>2. ASSUME NEW q \in Reqs, pc'[q] = "save"
      PROVE  /\ row' # None
             /\ snap'[q] # None /\ Known(snap[q])'
             /\ op'[q] \in Handlers
  <2>1. /\ q # r /\ pc[q] = "save" /\ op'[q] = op[q] /\ snap'[q] = snap[q]
        /\ snap[q] \in User /\ snap[q] # None
    BY <1>2, FinishTypes DEF Inv, TypeOK
  <2>2. /\ snap[q].pwd.id \in Nat /\ snap[q].rk \in Nat /\ issued \in Nat
        /\ snap[q].pwd.id <= issued /\ snap[q].rk <= issued
    BY <2>1, SavingFacts
  <2>3. snap'[q].pwd.id <= issued' /\ snap'[q].rk <= issued'
    BY <2>1, <2>2
  <2> QED  BY <2>1, <2>3 DEF Inv, Known
<1> QED  BY <1>1, <1>2 DEF Inv

(* A handler that reads the row keeps the invariant.                       *)
LEMMA ReadStep ==
    ASSUME Inv, NEW r \in Reqs, NEW h \in Handlers, Read(r, h)
    PROVE  Inv'
<1>1. TypeOK'
  BY DEF Inv, TypeOK, Read, ghosts
<1>2. ASSUME NEW q \in Reqs, pc'[q] = "save"
      PROVE  /\ row' # None
             /\ snap'[q] # None /\ Known(snap[q])'
             /\ op'[q] \in Handlers
  <2>1. CASE q = r
    BY <2>1 DEF Inv, TypeOK, Read, Known
  <2>2. CASE q # r
    BY <1>2, <2>2 DEF Inv, TypeOK, Read, Known
  <2> QED  BY <2>1, <2>2
<1>3. row' # None => Known(row)'
  BY DEF Inv, Read, Known
<1> QED  BY <1>1, <1>2, <1>3 DEF Inv

(* What one save does to the bundles: it keeps them or puts newer ones.    *)
BundlesAdvance ==
    row # None =>
        /\ row' # None
        /\ row'.pwd # row.pwd => row'.pwd.id > row.pwd.id
        /\ row'.rk # row.rk => row'.rk > row.rk

(* Saving a failed attempt keeps the invariant and both bundles.           *)
LEMMA FailureStep ==
    ASSUME Inv, NEW r \in Reqs, SaveFailure(r)
    PROVE  Inv' /\ row' \in User /\ row'.pwd = row.pwd /\ row'.rk = row.rk
<1> USE ConstAssumption
<1>1. pc[r] = "save" /\ TypeOK
  BY DEF SaveFailure, Inv
<1>2. row \in User /\ snap[r] \in User /\ at[r] \in Nat
  BY <1>1, SavingFacts
<1>3. PICK fails \in 0..(MaxFails - 1), until \in Nat \cup {None} :
        row' = [row EXCEPT !.fails = fails, !.lockedUntil = until]
  <2> DEFINE f == IF Locks(r) THEN 0 ELSE Fails(r)
             u == IF Locks(r) THEN at[r] + LockFor ELSE snap[r].lockedUntil
  <2>1. Fails(r) \in Nat
    BY <1>2 DEF Fails, User
  <2>2. f \in 0..(MaxFails - 1) /\ u \in Nat \cup {None}
    BY <1>2, <2>1 DEF User, Locks
  <2>3. /\ Put(row.fails, snap[r].fails, f) \in 0..(MaxFails - 1)
        /\ Put(row.lockedUntil, snap[r].lockedUntil, u) \in Nat \cup {None}
    BY <1>2, <2>2 DEF Put, User
  <2>4. row' = [row EXCEPT !.fails = Put(row.fails, snap[r].fails, f),
                           !.lockedUntil = Put(row.lockedUntil, snap[r].lockedUntil, u)]
    BY <1>2 DEF SaveFailure, User
  <2> QED  BY <2>3, <2>4
<1>4. row' \in User /\ row'.pwd = row.pwd /\ row'.rk = row.rk
  BY <1>2, <1>3 DEF User
<1>5. failed' \in Nat /\ stale' \in BOOLEAN
  BY <1>1 DEF SaveFailure, Count, Note, TypeOK
<1>6. Finish(r) /\ issued' = issued /\ clock' = clock
  BY DEF SaveFailure
<1>7. Known(row)'
  BY <1>1, <1>2, <1>4, <1>6 DEF Inv, Known
<1>8. issued \in Nat /\ clock \in Nat /\ row' # None
  BY <1>1, <1>4 DEF TypeOK
<1>9. Inv'
  BY <1>4, <1>5, <1>6, <1>7, <1>8, Saved
<1> QED  BY <1>4, <1>9

(* A save of success with bundles that were read or are fresh.             *)
LEMMA SuccessStep ==
    ASSUME Inv, NEW r \in Reqs, NEW pwd \in Bundle, NEW rk \in Nat, NEW m \in Modes,
           SaveSuccess(r, pwd, rk, m),
           issued' \in Nat, issued <= issued',
           pwd = snap[r].pwd \/ (pwd.id = issued' /\ issued < issued'),
           rk = snap[r].rk \/ (rk = issued' /\ issued < issued')
    PROVE  Inv' /\ BundlesAdvance
<1> USE ConstAssumption
<1>1. pc[r] = "save" /\ TypeOK /\ Finish(r) /\ clock' = clock
      /\ failed' = 0 /\ stale' \in BOOLEAN
  BY DEF SaveSuccess, Note, Inv, TypeOK
<1>2. /\ row \in User /\ row.pwd.id \in Nat /\ row.rk \in Nat /\ issued \in Nat
      /\ row.pwd.id <= issued /\ row.rk <= issued
  BY <1>1, SavingFacts
<1>3. /\ row' \in User
      /\ row'.pwd = row.pwd \/ (row'.pwd.id = issued' /\ issued < issued')
      /\ row'.rk = row.rk \/ (row'.rk = issued' /\ issued < issued')
  BY SuccessRow
<1>4. row'.pwd.id <= issued' /\ row'.rk <= issued'
  BY <1>2, <1>3
<1>5. BundlesAdvance
  BY <1>2, <1>3 DEF BundlesAdvance
<1>6. Known(row)' /\ clock \in Nat
  BY <1>1, <1>4 DEF Known, TypeOK
<1>7. Inv'
  BY <1>1, <1>2, <1>3, <1>6, Saved
<1> QED  BY <1>5, <1>7

-----------------------------------------------------------------------------

(* Every step keeps Inv and lets bundles only advance.                     *)
LEMMA Step == Inv /\ [Next]_vars => Inv' /\ BundlesAdvance
<1> SUFFICES ASSUME Inv, [Next]_vars PROVE Inv' /\ BundlesAdvance
  OBVIOUS
<1> USE ConstAssumption
<1>t. TypeOK /\ issued \in Nat /\ clock \in Nat
  BY DEF Inv, TypeOK
<1>0. CASE row' = row /\ issued' = issued /\ UNCHANGED <<pc, op, snap, at, good, failed, stale>>
           /\ clock' \in Nat
  BY <1>0, <1>t DEF Inv, TypeOK, Known, BundlesAdvance
<1>1. ASSUME NEW r \in Reqs, Register(r) PROVE Inv' /\ BundlesAdvance
  BY <1>1, <1>t DEF Register, ghosts, Inv, TypeOK, Known, BundlesAdvance
<1>2. ASSUME NEW r \in Reqs, Create(r) PROVE Inv' /\ BundlesAdvance
  <2>1. Finish(r) /\ clock' = clock /\ failed' = failed /\ stale' = stale
    BY <1>2 DEF Create, ghosts
  <2>2. CASE row # None
    <3>1. row' = row /\ issued' = issued
      BY <1>2, <2>2 DEF Create
    <3> QED  BY <1>t, <2>1, <2>2, <3>1, Saved DEF Inv, TypeOK, Known, BundlesAdvance
  <2>3. CASE row = None
    <3>1. PICK m \in Modes :
            /\ row' = [pwd |-> [id |-> issued + 1, mode |-> m], kdf |-> m,
                       rk |-> issued + 1, fails |-> 0, lockedUntil |-> None]
            /\ issued' = issued + 1
      BY <1>2, <2>3 DEF Create
    <3>2. /\ row' \in User /\ Known(row)' /\ issued' \in Nat /\ issued <= issued'
      BY <1>t, <3>1 DEF User, Bundle, Known
    <3> QED  BY <1>t, <2>1, <2>3, <3>2, Saved DEF Inv, TypeOK, BundlesAdvance
  <2> QED  BY <2>2, <2>3
<1>3. ASSUME NEW r \in Reqs, NEW h \in Handlers, Read(r, h)
      PROVE  Inv' /\ BundlesAdvance
  <2>1. row' = row
    BY <1>3 DEF Read
  <2> QED  BY <1>3, <2>1, ReadStep DEF BundlesAdvance
<1>4. ASSUME NEW r \in Reqs, SaveFailure(r) PROVE Inv' /\ BundlesAdvance
  BY <1>4, FailureStep DEF BundlesAdvance
<1>5. ASSUME NEW r \in Reqs, SaveUnlock(r) PROVE Inv' /\ BundlesAdvance
  <2>1. /\ SaveSuccess(r, snap[r].pwd, snap[r].rk, snap[r].kdf)
        /\ pc[r] = "save" /\ issued' = issued
    BY <1>5 DEF SaveUnlock, SaveSuccess
  <2>2. snap[r].pwd \in Bundle /\ snap[r].rk \in Nat /\ snap[r].kdf \in Modes
    BY <2>1, SavingFacts DEF User
  <2>3. PICK pwd \in Bundle, rk \in Nat, m \in Modes :
          pwd = snap[r].pwd /\ rk = snap[r].rk /\ m = snap[r].kdf
    BY <2>2
  <2>4. SaveSuccess(r, pwd, rk, m)
    BY <2>1, <2>3
  <2> QED  BY <1>t, <2>1, <2>3, <2>4, SuccessStep
<1>6. ASSUME NEW r \in Reqs, SaveChange(r) PROVE Inv' /\ BundlesAdvance
  <2>1. PICK m \in Modes, rk \in {snap[r].rk, issued + 1} :
          SaveSuccess(r, [id |-> issued + 1, mode |-> m], rk, m)
    BY <1>6 DEF SaveChange
  <2>2. pc[r] = "save" /\ issued' = issued + 1
    BY <1>6, <2>1 DEF SaveChange, SaveSuccess
  <2>3. snap[r].rk \in Nat
    BY <2>2, SavingFacts
  <2>4. PICK pwd \in Bundle, k \in Nat :
          /\ pwd = [id |-> issued + 1, mode |-> m] /\ k = rk
          /\ pwd.id = issued + 1
    BY <1>t, <2>1, <2>3 DEF Bundle
  <2>5. SaveSuccess(r, pwd, k, m)
    BY <2>1, <2>4
  <2> QED  BY <1>t, <2>1, <2>2, <2>4, <2>5, SuccessStep
<1>7. ASSUME NEW r \in Reqs, SaveRecovery(r) PROVE Inv' /\ BundlesAdvance
  <2>1. PICK m \in Modes :
          SaveSuccess(r, [id |-> issued + 1, mode |-> m], issued + 1, m)
    BY <1>7 DEF SaveRecovery
  <2>2. issued' = issued + 1
    BY <1>7 DEF SaveRecovery
  <2>b. [id |-> issued + 1, mode |-> m] \in Bundle /\ issued + 1 \in Nat
    BY <1>t DEF Bundle
  <2>3. PICK pwd \in Bundle, k \in Nat :
          /\ pwd = [id |-> issued + 1, mode |-> m] /\ k = issued + 1
          /\ pwd.id = issued + 1
    BY <2>b
  <2>4. SaveSuccess(r, pwd, k, m)
    BY <2>1, <2>3
  <2> QED  BY <1>t, <2>2, <2>3, <2>4, SuccessStep
<1>8. ASSUME NEW r \in Reqs, Fail(r) PROVE Inv' /\ BundlesAdvance
  <2>1. /\ Finish(r) /\ clock' = clock /\ failed' = failed /\ stale' = stale
        /\ row' = row /\ issued' = issued
    BY <1>8 DEF Fail, ghosts
  <2> QED  BY <1>t, <2>1, Saved DEF Inv, TypeOK, Known, BundlesAdvance
<1>9. CASE Tick
  BY <1>9, <1>0, <1>t DEF Tick, reqVars, ghosts
<1>10. CASE UNCHANGED vars
  BY <1>10, <1>0, <1>t DEF vars
<1> QED
  BY <1>1, <1>2, <1>3, <1>4, <1>5, <1>6, <1>7, <1>8, <1>9, <1>10
     DEF Next, Login, GetWraps, ChangePassword, GetRecoveryWraps, Recover, Handlers

(* The account that was never registered satisfies the invariant.          *)
LEMMA InitInv == Init => Inv
<1> SUFFICES ASSUME Init PROVE Inv
  OBVIOUS
<1> USE ConstAssumption
<1>1. stale \in BOOLEAN
  BY DEF Init
<1>2. good \in [Reqs -> BOOLEAN]
  BY DEF Init
<1>3. TypeOK
  BY <1>1, <1>2 DEF Init, TypeOK
<1> QED  BY <1>3 DEF Init, Inv

(* Inv holds in every reachable state.                                     *)
THEOREM Invariance == Spec => []Inv
<1>1. Inv /\ [Next]_vars => Inv'
  BY Step
<1> QED  BY <1>1, InitInv, PTL DEF Spec

(* The User row and the requests on it hold values of their kinds.         *)
THEOREM TypeCorrect == Spec => []TypeOK
<1>1. Inv => TypeOK
  BY DEF Inv
<1> QED  BY <1>1, Invariance, PTL

(* However many requests hold stale copies of the row, no save brings      *)
(* replaced credentials back.                                              *)
THEOREM CredentialsAdvance == Spec => OldCredentialsNeverReturn
<1>1. Inv /\ [Next]_vars => [BundlesAdvance]_vars
  BY Step
<1>2. [BundlesAdvance]_vars =>
        [row # None =>
            /\ row' # None
            /\ row'.pwd # row.pwd => row'.pwd.id > row.pwd.id
            /\ row'.rk # row.rk => row'.rk > row.rk]_vars
  BY DEF BundlesAdvance
<1> QED  BY <1>1, <1>2, Invariance, PTL DEF Spec, OldCredentialsNeverReturn

-----------------------------------------------------------------------------
(* What holds as long as no stale copy was saved.                          *)

FreshRow ==
    /\ row = None => failed = 0
    /\ ~stale /\ row # None => row.kdf = row.pwd.mode /\ failed = row.fails

(* A lock ends at most LockFor after the failure that set it, and a        *)
(* request was read in the past.                                           *)
LockTimes ==
    /\ row # None /\ row.lockedUntil # None => row.lockedUntil <= clock + LockFor
    /\ \A r \in Reqs : pc[r] = "save" =>
          /\ at[r] <= clock
          /\ snap[r].lockedUntil # None => snap[r].lockedUntil <= at[r] + LockFor

SInv == Inv /\ FreshRow /\ LockTimes

(* No step but a stale save touches a lock that is running.                *)
KeepsLock ==
    ~stale' /\ row # None /\ Locked(row, clock) =>
        row'.lockedUntil # None /\ row'.lockedUntil >= row.lockedUntil

(* The columns a failed attempt writes.                                    *)
LEMMA FailureFields ==
    ASSUME Inv, NEW r \in Reqs, SaveFailure(r)
    PROVE  /\ row'.kdf = row.kdf
           /\ row'.fails = Put(row.fails, snap[r].fails,
                               IF Locks(r) THEN 0 ELSE Fails(r))
           /\ row'.lockedUntil = Put(row.lockedUntil, snap[r].lockedUntil,
                IF Locks(r) THEN at[r] + LockFor ELSE snap[r].lockedUntil)
<1>1. row \in User
  BY SavingFacts DEF SaveFailure
<1> QED  BY <1>1 DEF SaveFailure, User

(* The columns a success writes beside the bundles.                        *)
LEMMA SuccessFields ==
    ASSUME NEW r \in Reqs, NEW pwd, NEW rk, NEW m, SaveSuccess(r, pwd, rk, m)
    PROVE  /\ row'.kdf = Put(row.kdf, snap[r].kdf, m)
           /\ row'.fails = Put(row.fails, snap[r].fails, 0)
           /\ row'.lockedUntil = Put(row.lockedUntil, snap[r].lockedUntil, None)
BY DEF SaveSuccess

(* The request that ends leaves the times of the others as they were.      *)
LEMMA TimesAfterSave ==
    ASSUME SInv, NEW r \in Reqs, Finish(r), clock' = clock,
           row' # None /\ row'.lockedUntil # None => row'.lockedUntil <= clock + LockFor
    PROVE  LockTimes'
<1>1. ASSUME NEW q \in Reqs, pc'[q] = "save"
      PROVE  /\ at'[q] <= clock'
             /\ snap'[q].lockedUntil # None => snap'[q].lockedUntil <= at'[q] + LockFor
  <2>1. q # r
    BY <1>1, FinishTypes DEF SInv, Inv
  <2>2. pc[q] = "save" /\ snap'[q] = snap[q] /\ at'[q] = at[q]
    BY <1>1, <2>1 DEF SInv, Inv, TypeOK, Finish
  <2> QED  BY <2>2 DEF SInv, LockTimes
<1> QED  BY <1>1 DEF LockTimes

(* A failed attempt saved from a fresh copy counts one failure more, or    *)
(* locks; saved from any copy it sets no lock longer than LockFor.         *)
LEMMA FailureFresh ==
    ASSUME SInv, NEW r \in Reqs, SaveFailure(r)
    PROVE  FreshRow' /\ LockTimes' /\ KeepsLock
<1> USE ConstAssumption
<1>1. pc[r] = "save" /\ TypeOK /\ Inv
  BY DEF SaveFailure, SInv, Inv
<1>2. /\ row \in User /\ snap[r] \in User /\ at[r] \in Nat /\ clock \in Nat
      /\ row' \in User /\ row'.pwd = row.pwd /\ row # None /\ row' # None
  BY <1>1, SavingFacts, FailureStep DEF TypeOK
<1>3. Finish(r) /\ clock' = clock /\ (~stale' => ~stale /\ snap[r] = row)
  BY DEF SaveFailure, Note
<1>4. /\ snap[r].fails \in 0..(MaxFails - 1)
      /\ row.lockedUntil \in Nat \cup {None} /\ snap[r].lockedUntil \in Nat \cup {None}
  BY <1>2 DEF User
<1>5. at[r] <= clock /\ at[r] + LockFor \in Nat
  BY <1>1, <1>2 DEF SInv, LockTimes
<1>6. FreshRow'
  <2> SUFFICES ASSUME ~stale' PROVE row'.kdf = row'.pwd.mode /\ failed' = row'.fails
    BY <1>2 DEF FreshRow
  <2>1. snap[r] = row /\ row.kdf = row.pwd.mode /\ failed = row.fails
    BY <1>2, <1>3 DEF SInv, FreshRow
  <2>2. row'.fails = IF Locks(r) THEN 0 ELSE Fails(r)
    BY <1>1, <2>1, FailureFields DEF Put
  <2>3. failed' = IF Locks(r) THEN 0 ELSE Count(failed)
    BY DEF SaveFailure
  <2>4. ~Locks(r) => Fails(r) = Count(failed)
    BY <1>4, <2>1 DEF Locks, Fails, Count
  <2> QED  BY <1>1, <1>2, <2>1, <2>2, <2>3, <2>4, FailureFields
<1>7. \/ row'.lockedUntil = row.lockedUntil
      \/ row'.lockedUntil = at[r] + LockFor
  BY <1>1, FailureFields DEF Put
<1>8. LockTimes'
  <2>1. row'.lockedUntil # None => row'.lockedUntil <= clock + LockFor
    BY <1>2, <1>4, <1>5, <1>7 DEF SInv, LockTimes
  <2> QED  BY <1>3, <2>1, TimesAfterSave
<1>9. KeepsLock
  <2> SUFFICES ASSUME ~stale', Locked(row, clock)
               PROVE  row'.lockedUntil # None /\ row'.lockedUntil >= row.lockedUntil
    BY DEF KeepsLock
  <2>1. row.lockedUntil \in Nat /\ row.lockedUntil <= at[r] + LockFor
    BY <1>1, <1>3, <1>4 DEF Locked, SInv, LockTimes
  <2> QED  BY <1>5, <1>7, <2>1
<1> QED  BY <1>6, <1>8, <1>9

(* A success saved from a fresh copy leaves mode and verifiers together,   *)
(* and clears the counter; it never meets a lock that is running.          *)
LEMMA SuccessFresh ==
    ASSUME SInv, NEW r \in Reqs, NEW pwd \in Bundle, NEW rk \in Nat, NEW m \in Modes,
           SaveSuccess(r, pwd, rk, m),
           \/ pwd = snap[r].pwd /\ m = snap[r].kdf
           \/ pwd.mode = m
    PROVE  FreshRow' /\ LockTimes' /\ KeepsLock
<1> USE ConstAssumption
<1>1. pc[r] = "save" /\ TypeOK /\ Inv /\ Proven(r)
  BY DEF SaveSuccess, SInv, Inv
<1>2. /\ row \in User /\ snap[r] \in User /\ at[r] \in Nat /\ clock \in Nat
      /\ row' \in User /\ row # None /\ row' # None
  BY <1>1, SavingFacts, SuccessRow DEF TypeOK
<1>3. Finish(r) /\ clock' = clock /\ failed' = 0 /\ (~stale' => ~stale /\ snap[r] = row)
  BY DEF SaveSuccess, Note
<1>4. row'.pwd = (IF pwd = snap[r].pwd THEN row.pwd ELSE pwd)
  BY <1>1, SuccessRow
<1>5. FreshRow'
  <2> SUFFICES ASSUME ~stale' PROVE row'.kdf = row'.pwd.mode /\ failed' = row'.fails
    BY <1>2 DEF FreshRow
  <2>1. snap[r] = row /\ row.kdf = row.pwd.mode
    BY <1>2, <1>3 DEF SInv, FreshRow
  <2>2. row'.kdf = m /\ row'.fails = 0 /\ row'.pwd = pwd
    BY <1>4, <2>1, SuccessFields DEF Put
  <2> QED  BY <1>3, <2>1, <2>2
<1>6. \/ row'.lockedUntil = row.lockedUntil
      \/ row'.lockedUntil = None
  BY SuccessFields DEF Put
<1>7. LockTimes'
  <2>1. row'.lockedUntil # None => row'.lockedUntil <= clock + LockFor
    BY <1>2, <1>6 DEF SInv, LockTimes
  <2> QED  BY <1>3, <2>1, TimesAfterSave
<1>8. KeepsLock
  <2> SUFFICES ASSUME ~stale', Locked(row, clock) PROVE FALSE
    BY DEF KeepsLock
  <2>1. ~Locked(row, at[r]) /\ at[r] <= clock
    BY <1>1, <1>3 DEF Proven, SInv, LockTimes
  <2>2. row.lockedUntil \in Nat
    BY <1>2 DEF Locked, User
  <2> QED  BY <1>2, <2>1, <2>2 DEF Locked
<1> QED  BY <1>5, <1>7, <1>8

(* Every step keeps the strengthened invariant and a running lock.         *)
LEMMA FreshStep == SInv /\ [Next]_vars => SInv' /\ KeepsLock
<1> SUFFICES ASSUME SInv, [Next]_vars PROVE SInv' /\ KeepsLock
  OBVIOUS
<1> USE ConstAssumption
<1>i. Inv /\ TypeOK /\ Inv'
  BY Step DEF SInv, Inv
<1> SUFFICES FreshRow' /\ LockTimes' /\ KeepsLock
  BY <1>i DEF SInv
<1>t. issued \in Nat /\ clock \in Nat
  BY <1>i DEF TypeOK
<1>l. row # None => row.lockedUntil \in Nat \cup {None}
  BY <1>i DEF TypeOK, User
<1>k. ASSUME row' = row PROVE KeepsLock
  <2> SUFFICES ASSUME row # None, Locked(row, clock)
               PROVE  row'.lockedUntil # None /\ row'.lockedUntil >= row.lockedUntil
    BY DEF KeepsLock
  <2>1. row.lockedUntil \in Nat
    BY <1>l DEF Locked
  <2> QED  BY <1>k, <2>1 DEF Locked
<1>1. ASSUME NEW r \in Reqs, Register(r) PROVE FreshRow' /\ LockTimes' /\ KeepsLock
  <2>1. row' = row /\ UNCHANGED <<clock, snap, at, failed, stale>>
    BY <1>1 DEF Register, ghosts
  <2>2. \A q \in Reqs : pc'[q] = "save" => pc[q] = "save"
    BY <1>1, <1>i DEF Register, TypeOK
  <2> QED  BY <1>k, <2>1, <2>2 DEF SInv, FreshRow, LockTimes
<1>2. ASSUME NEW r \in Reqs, Create(r) PROVE FreshRow' /\ LockTimes' /\ KeepsLock
  <2>1. Finish(r) /\ clock' = clock /\ failed' = failed /\ stale' = stale
    BY <1>2 DEF Create, ghosts
  <2>2. CASE row # None
    <3>1. row' = row
      BY <1>2, <2>2 DEF Create
    <3> QED  BY <1>k, <2>1, <3>1, TimesAfterSave DEF SInv, FreshRow, LockTimes
  <2>3. CASE row = None
    <3>1. PICK m \in Modes :
            row' = [pwd |-> [id |-> issued + 1, mode |-> m], kdf |-> m,
                    rk |-> issued + 1, fails |-> 0, lockedUntil |-> None]
      BY <1>2, <2>3 DEF Create
    <3>2. /\ row'.lockedUntil = None /\ row'.fails = 0 /\ row'.kdf = row'.pwd.mode
      BY <3>1
    <3>3. failed' = 0
      BY <2>1, <2>3 DEF SInv, FreshRow
    <3>4. LockTimes'
      BY <2>1, <3>2, TimesAfterSave
    <3> QED  BY <2>3, <3>2, <3>3, <3>4 DEF FreshRow, KeepsLock
  <2> QED  BY <2>2, <2>3
<1>3. ASSUME NEW r \in Reqs, NEW h \in Handlers, Read(r, h)
      PROVE  FreshRow' /\ LockTimes' /\ KeepsLock
  <2>1. row' = row /\ row # None /\ UNCHANGED <<clock, failed, stale>>
    BY <1>3 DEF Read, ghosts
  <2>2. ASSUME NEW q \in Reqs, pc'[q] = "save"
        PROVE  /\ at'[q] <= clock'
               /\ snap'[q].lockedUntil # None =>
                    snap'[q].lockedUntil <= at'[q] + LockFor
    <3>1. CASE q = r
      BY <1>3, <1>i, <1>t, <1>l, <2>1, <3>1 DEF Read, TypeOK, SInv, LockTimes
    <3>2. CASE q # r
      <4>1. pc[q] = "save" /\ at'[q] = at[q] /\ snap'[q] = snap[q]
        BY <1>3, <1>i, <2>2, <3>2 DEF Read, TypeOK
      <4> QED  BY <2>1, <4>1 DEF SInv, LockTimes
    <3> QED  BY <3>1, <3>2
  <2> QED  BY <1>k, <2>1, <2>2 DEF SInv, FreshRow, LockTimes
<1>4. ASSUME NEW r \in Reqs, SaveFailure(r)
      PROVE  FreshRow' /\ LockTimes' /\ KeepsLock
  BY <1>4, FailureFresh
<1>5. ASSUME NEW r \in Reqs, SaveUnlock(r)
      PROVE  FreshRow' /\ LockTimes' /\ KeepsLock
  <2>1. /\ SaveSuccess(r, snap[r].pwd, snap[r].rk, snap[r].kdf)
        /\ pc[r] = "save"
    BY <1>5 DEF SaveUnlock, SaveSuccess
  <2>2. snap[r].pwd \in Bundle /\ snap[r].rk \in Nat /\ snap[r].kdf \in Modes
    BY <1>i, <2>1, SavingFacts DEF User
  <2>3. PICK pwd \in Bundle, rk \in Nat, m \in Modes :
          pwd = snap[r].pwd /\ rk = snap[r].rk /\ m = snap[r].kdf
    BY <2>2
  <2>4. SaveSuccess(r, pwd, rk, m)
    BY <2>1, <2>3
  <2> QED  BY <2>3, <2>4, SuccessFresh
<1>6. ASSUME NEW r \in Reqs, SaveChange(r)
      PROVE  FreshRow' /\ LockTimes' /\ KeepsLock
  <2>1. PICK m \in Modes, rk \in {snap[r].rk, issued + 1} :
          SaveSuccess(r, [id |-> issued + 1, mode |-> m], rk, m)
    BY <1>6 DEF SaveChange
  <2>2. pc[r] = "save"
    BY <2>1 DEF SaveSuccess
  <2>3. snap[r].rk \in Nat
    BY <1>i, <2>2, SavingFacts
  <2>4. PICK pwd \in Bundle, k \in Nat :
          /\ pwd = [id |-> issued + 1, mode |-> m] /\ k = rk /\ pwd.mode = m
    BY <1>t, <2>1, <2>3 DEF Bundle
  <2>5. SaveSuccess(r, pwd, k, m)
    BY <2>1, <2>4
  <2> QED  BY <2>4, <2>5, SuccessFresh
<1>7. ASSUME NEW r \in Reqs, SaveRecovery(r)
      PROVE  FreshRow' /\ LockTimes' /\ KeepsLock
  <2>1. PICK m \in Modes :
          SaveSuccess(r, [id |-> issued + 1, mode |-> m], issued + 1, m)
    BY <1>7 DEF SaveRecovery
  <2>b. [id |-> issued + 1, mode |-> m] \in Bundle /\ issued + 1 \in Nat
    BY <1>t DEF Bundle
  <2>2. PICK pwd \in Bundle, k \in Nat :
          pwd = [id |-> issued + 1, mode |-> m] /\ k = issued + 1 /\ pwd.mode = m
    BY <2>b
  <2>3. SaveSuccess(r, pwd, k, m)
    BY <2>1, <2>2
  <2> QED  BY <2>2, <2>3, SuccessFresh
<1>8. ASSUME NEW r \in Reqs, Fail(r) PROVE FreshRow' /\ LockTimes' /\ KeepsLock
  <2>1. /\ Finish(r) /\ clock' = clock /\ failed' = failed /\ stale' = stale
        /\ row' = row
    BY <1>8 DEF Fail, ghosts
  <2> QED  BY <1>k, <2>1, TimesAfterSave DEF SInv, FreshRow, LockTimes
<1>9. CASE Tick
  <2>1. clock' = clock + 1 /\ row' = row /\ UNCHANGED <<pc, snap, at, failed, stale>>
    BY <1>9 DEF Tick, reqVars, ghosts
  <2>2. row # None /\ row.lockedUntil # None => row.lockedUntil <= clock' + LockFor
    BY <1>l, <1>t, <2>1 DEF SInv, LockTimes
  <2>3. ASSUME NEW q \in Reqs, pc[q] = "save" PROVE at[q] <= clock'
    BY <1>i, <1>t, <2>1, <2>3 DEF SInv, LockTimes, TypeOK
  <2> QED  BY <1>k, <2>1, <2>2, <2>3 DEF SInv, FreshRow, LockTimes
<1>10. CASE UNCHANGED vars
  BY <1>10, <1>k DEF vars, SInv, FreshRow, LockTimes
<1> QED
  BY <1>1, <1>2, <1>3, <1>4, <1>5, <1>6, <1>7, <1>8, <1>9, <1>10
     DEF Next, Login, GetWraps, ChangePassword, GetRecoveryWraps, Recover, Handlers

(* The strengthened invariant holds in every reachable state.              *)
THEOREM FreshInvariance == Spec => []SInv
<1>1. Init => SInv
  <2>1. ASSUME Init PROVE FreshRow /\ LockTimes
    BY <2>1 DEF Init, FreshRow, LockTimes
  <2> QED  BY <2>1, InitInv DEF SInv
<1>2. SInv /\ [Next]_vars => SInv'
  BY FreshStep
<1> QED  BY <1>1, <1>2, PTL DEF Spec

(* The stored KDF mode is that of the stored verifiers as long as no copy  *)
(* was saved that another request had made stale.                          *)
THEOREM ModeKept == Spec => []FreshSavesKeepMode
<1>1. SInv => FreshSavesKeepMode
  BY DEF SInv, FreshRow, FreshSavesKeepMode, KdfMatchesSalt
<1> QED  BY <1>1, FreshInvariance, PTL

(* MaxFails failures in a row lock the account as long as no stale copy    *)
(* was saved, for every limit MaxFails.                                    *)
THEOREM FailuresLock == Spec => []FreshFailuresLock
<1>1. ASSUME SInv, ~stale PROVE failed < MaxFails
  <2>1. CASE row = None
    BY <1>1, <2>1, ConstAssumption DEF SInv, FreshRow
  <2>2. CASE row # None
    <3>1. row.fails \in 0..(MaxFails - 1)
      BY <1>1, <2>2 DEF SInv, Inv, TypeOK, User
    <3> QED  BY <1>1, <2>2, <3>1, ConstAssumption DEF SInv, FreshRow
  <2> QED  BY <2>1, <2>2
<1>2. SInv => FreshFailuresLock
  BY <1>1 DEF FreshFailuresLock
<1> QED  BY <1>2, FreshInvariance, PTL

(* A running lock is neither lifted nor shortened as long as no stale copy *)
(* was saved, for every duration LockFor.                                  *)
THEOREM LockHolds == Spec => LockIsNeverCutShort
<1>1. SInv /\ [Next]_vars => [KeepsLock]_vars
  BY FreshStep
<1>2. [KeepsLock]_vars =>
        [~stale' /\ row # None /\ Locked(row, clock) =>
            row'.lockedUntil # None /\ row'.lockedUntil >= row.lockedUntil]_vars
  BY DEF KeepsLock
<1> QED  BY <1>1, <1>2, FreshInvariance, PTL DEF Spec, LockIsNeverCutShort

-----------------------------------------------------------------------------
(* An existing account's bundle is replaced only by a proven request.      *)

ByProof ==
    row # None /\ row'.pwd # row.pwd =>
        \E r \in Reqs : /\ pc[r] = "save" /\ op[r] \in {"change", "recover"}
                        /\ good[r] /\ ~Locked(snap[r], at[r])
                        /\ pc'[r] = "idle"

(* The steps that save, and the ones that leave the row alone.             *)
LEMMA ProofStep == Inv /\ [Next]_vars => ByProof
<1> SUFFICES ASSUME Inv, [Next]_vars, row # None, row'.pwd # row.pwd
             PROVE  \E r \in Reqs :
                       /\ pc[r] = "save" /\ op[r] \in {"change", "recover"}
                       /\ good[r] /\ ~Locked(snap[r], at[r])
                       /\ pc'[r] = "idle"
  BY DEF ByProof
<1>1. ASSUME NEW r \in Reqs, NEW pwd, NEW rk, NEW m, SaveSuccess(r, pwd, rk, m)
      PROVE  /\ pc[r] = "save" /\ good[r] /\ ~Locked(snap[r], at[r]) /\ pc'[r] = "idle"
             /\ pwd = snap[r].pwd => row'.pwd = row.pwd
  <2>1. Finish(r) /\ pc[r] = "save" /\ Proven(r)
        /\ row'.pwd = Put(row.pwd, snap[r].pwd, pwd)
    BY <1>1 DEF SaveSuccess
  <2>2. pc'[r] = "idle"
    BY <2>1, FinishTypes DEF Inv
  <2> QED  BY <2>1, <2>2 DEF Proven, Put
<1>2. ASSUME NEW r \in Reqs, SaveUnlock(r) PROVE FALSE
  BY <1>1, <1>2 DEF SaveUnlock
<1>3. ASSUME NEW r \in Reqs, SaveFailure(r) PROVE FALSE
  BY <1>3, FailureStep
<1>4. ASSUME NEW r \in Reqs, SaveChange(r) \/ SaveRecovery(r)
      PROVE  /\ pc[r] = "save" /\ op[r] \in {"change", "recover"}
             /\ good[r] /\ ~Locked(snap[r], at[r])
             /\ pc'[r] = "idle"
  BY <1>1, <1>4 DEF SaveChange, SaveRecovery
<1>5. ASSUME NEW r \in Reqs, Create(r) PROVE FALSE
  BY <1>5 DEF Create
<1>6. ASSUME NEW r \in Reqs, NEW h, Read(r, h) PROVE FALSE
  BY <1>6 DEF Read
<1>7. ASSUME row' = row PROVE FALSE
  BY <1>7
<1> QED
  BY <1>2, <1>3, <1>4, <1>5, <1>6, <1>7
     DEF Next, Tick, Register, Fail, vars,
         Login, GetWraps, ChangePassword, GetRecoveryWraps, Recover

(* Whatever requests overlap, credentials of an existing account are       *)
(* replaced only by a matching proof outside a lock.                       *)
THEOREM ProofNeeded == Spec => OnlyProofReplacesCredentials
<1>1. Inv /\ [Next]_vars => [ByProof]_vars
  BY ProofStep
<1>2. [ByProof]_vars =>
        [row # None /\ row'.pwd # row.pwd =>
            \E r \in Reqs : /\ pc[r] = "save" /\ op[r] \in {"change", "recover"}
                            /\ good[r] /\ ~Locked(snap[r], at[r])
                            /\ pc'[r] = "idle"]_vars
  BY DEF ByProof
<1> QED  BY <1>1, <1>2, Invariance, PTL DEF Spec, OnlyProofReplacesCredentials
-----------------------------------------------------------------------------
(* Requests served one at a time.  The races with a stale copy are the     *)
(* only way in which the stored KDF mode and the salt come apart: in a     *)
(* behaviour without two requests under way at once, no stale copy is ever *)
(* saved, however many requests there are and whichever of them die.       *)

Sequential == \A r, s \in Reqs : pc[r] # "idle" /\ pc[s] # "idle" => r = s

CopyInv ==
    /\ TypeOK
    /\ ~stale
    /\ \A r \in Reqs : pc[r] = "save" => snap[r] = row

(* The request that moves finds its copy up to date, and no other request  *)
(* holds a copy that its save could make stale.                            *)
LEMMA CopyStep ==
    ASSUME CopyInv, TypeOK', Sequential, [Next]_vars
    PROVE  CopyInv'
<1>1. TypeOK
  BY DEF CopyInv
<1>2. CASE UNCHANGED <<row, pc, snap, stale>>
  BY <1>2 DEF CopyInv
<1>3. ASSUME NEW r \in Reqs, Finish(r), pc[r] # "idle",
             UNCHANGED stale \/ (pc[r] = "save" /\ Note(r))
      PROVE  CopyInv'
  <2>1. \A q \in Reqs : pc'[q] = "idle"
    BY <1>1, <1>3 DEF Sequential, Finish, TypeOK
  <2>2. stale' = FALSE
    BY <1>1, <1>3 DEF CopyInv, Note, TypeOK
  <2> QED  BY <2>1, <2>2 DEF CopyInv
<1>4. ASSUME NEW r \in Reqs, NEW h, Read(r, h)
      PROVE  CopyInv'
  <2>1. snap'[r] = row /\ row' = row /\ stale' = stale
    BY <1>1, <1>4 DEF Read, TypeOK, ghosts
  <2>2. \A q \in Reqs \ {r} : pc'[q] = pc[q] /\ snap'[q] = snap[q]
    BY <1>1, <1>4 DEF Read, TypeOK
  <2> QED  BY <2>1, <2>2 DEF CopyInv
<1>5. ASSUME NEW r \in Reqs, Register(r)
      PROVE  CopyInv'
  <2>1. pc'[r] = "create" /\ \A q \in Reqs \ {r} : pc'[q] = pc[q]
    BY <1>1, <1>5 DEF Register, TypeOK
  <2>2. UNCHANGED <<row, snap, stale>>
    BY <1>5 DEF Register, ghosts
  <2> QED  BY <2>1, <2>2 DEF CopyInv
<1>6. ASSUME NEW r \in Reqs, Create(r) \/ Fail(r)
      PROVE  CopyInv'
  BY <1>3, <1>6 DEF Create, Fail, ghosts
<1>7. ASSUME NEW r \in Reqs, SaveFailure(r)
      PROVE  CopyInv'
  BY <1>3, <1>7 DEF SaveFailure
<1>8. ASSUME NEW r \in Reqs, SaveUnlock(r) \/ SaveChange(r) \/ SaveRecovery(r)
      PROVE  CopyInv'
  <2>1. pc[r] = "save" /\ Note(r) /\ Finish(r)
    BY <1>8 DEF SaveUnlock, SaveChange, SaveRecovery, SaveSuccess
  <2> QED  BY <1>3, <2>1
<1>9. CASE Tick
  BY <1>2, <1>9 DEF Tick, reqVars, ghosts
<1>10. CASE UNCHANGED vars
  BY <1>2, <1>10 DEF vars
<1> QED
  BY <1>4, <1>5, <1>6, <1>7, <1>8, <1>9, <1>10
     DEF Next, Login, GetWraps, ChangePassword, GetRecoveryWraps, Recover

(* In a behaviour in which no two requests overlap no stale copy is saved. *)
THEOREM SequentialCopies == Spec /\ []Sequential => []~stale
<1>1. Init => CopyInv
  BY InitInv DEF Init, CopyInv, Inv
<1>2. CopyInv /\ TypeOK' /\ Sequential /\ [Next]_vars => CopyInv'
  BY CopyStep
<1>3. CopyInv => ~stale
  BY DEF CopyInv
<1> QED  BY <1>1, <1>2, <1>3, TypeCorrect, PTL DEF Spec

(* In such a behaviour the stored KDF mode always is the one under which   *)
(* the stored verifiers and wrap were derived.                             *)
THEOREM SequentialMode == Spec /\ []Sequential => []KdfMatchesSalt
<1>1. ~stale /\ FreshSavesKeepMode => KdfMatchesSalt
  BY DEF FreshSavesKeepMode
<1> QED  BY <1>1, SequentialCopies, ModeKept, PTL

(* In such a behaviour MaxFails failed attempts in a row lock the account. *)
THEOREM SequentialLock == Spec /\ []Sequential => [](failed < MaxFails)
<1>1. ~stale /\ FreshFailuresLock => failed < MaxFails
  BY DEF FreshFailuresLock
<1> QED  BY <1>1, SequentialCopies, FailuresLock, PTL
=============================================================================
