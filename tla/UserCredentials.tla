-------------------------- MODULE UserCredentials --------------------------
(***************************************************************************)
(* The User row of one account and the requests that read and write it:    *)
(* registration, the five handlers of AuthService.cs that check a          *)
(* verifier, and the lockout counter of LockoutPolicy.cs.                  *)
(*                                                                         *)
(* A handler reads the row once, decides on that copy, changes the copy    *)
(* and calls SaveChanges, which updates only the columns that differ from  *)
(* what was read.  No column is a concurrency token, so the save never     *)
(* looks at what other requests wrote in between.                          *)
(*                                                                         *)
(* The bytes that a client derives from one master password under one KDF  *)
(* mode and sends together (verifiers, S_Pwd, MkWrapPwd) are one bundle,   *)
(* as are the recovery-key bytes; a bundle has a fresh number because it   *)
(* holds fresh random salts.  The mode is a column of its own.             *)
(***************************************************************************)
EXTENDS Integers

CONSTANTS
    Reqs,       \* concurrent request slots (a bound)
    MaxFails,   \* MaxFailedLoginAttempts, 7
    LockFor,    \* LockoutDuration, 10 min
    MaxTime,    \* bound on the clock
    MaxIssued,  \* bound on the number of bundles
    None        \* SQL NULL, and "no row"

VARIABLES
    row,    \* the User row, None until the account is registered
    issued, \* number of bundles made so far
    clock,  \* DateTime.UtcNow
    pc,     \* pc[r]: what request r does next
    op,     \* op[r]: the handler that serves r
    snap,   \* snap[r]: the tracked copy, as read
    at,     \* at[r]: the local "now"
    good,   \* good[r]: whether the verifier sent matches the copy
    failed, \* history: failures saved since the last success or lock
    stale   \* history: a copy was saved that was no longer the row

reqVars == <<pc, op, snap, at, good>>
ghosts  == <<failed, stale>>
vars    == <<row, issued, clock, pc, op, snap, at, good, failed, stale>>

Modes    == {"Default", "Strong"}
Handlers == {"login", "wraps", "change", "recoveryWraps", "recover"}

Bundle == [id : Nat, mode : Modes]
User   == [pwd : Bundle, kdf : Modes, rk : Nat,
           fails : 0..(MaxFails - 1), lockedUntil : Nat \cup {None}]

ASSUME ConstAssumption ==
    /\ MaxFails \in Nat \ {0} /\ LockFor \in Nat \ {0}
    /\ MaxTime \in Nat /\ MaxIssued \in Nat
    /\ None \notin Nat \cup User \cup Handlers

Locked(u, now) == u.lockedUntil # None /\ u.lockedUntil > now

(* What SaveChanges leaves in a column that holds cur: read is the value   *)
(* it was loaded with, new the value of the changed copy.                  *)
PutAlways(cur, read, new) == new    \* mutant: the whole row is written

Put(cur, read, new) == IF new = read THEN cur ELSE new

Init ==
    /\ row = None
    /\ issued = 0
    /\ clock = 0
    /\ pc = [r \in Reqs |-> "idle"]
    /\ op = [r \in Reqs |-> None]
    /\ snap = [r \in Reqs |-> None]
    /\ at = [r \in Reqs |-> 0]
    /\ good = [r \in Reqs |-> FALSE]
    /\ failed = 0
    /\ stale = FALSE

Finish(r) ==
    /\ pc' = [pc EXCEPT ![r] = "idle"]
    /\ op' = [op EXCEPT ![r] = None]
    /\ snap' = [snap EXCEPT ![r] = None]
    /\ at' = [at EXCEPT ![r] = 0]
    /\ good' = [good EXCEPT ![r] = FALSE]

-----------------------------------------------------------------------------
(* RegisterAsync: AnyAsync finds no such row, then the row is inserted.  A *)
(* row inserted in between makes the primary key reject the insert.        *)

Register(r) ==
    /\ pc[r] = "idle"
    /\ row = None
    /\ pc' = [pc EXCEPT ![r] = "create"]
    /\ UNCHANGED <<row, issued, clock, op, snap, at, good, ghosts>>

Create(r) ==
    /\ pc[r] = "create"
    /\ IF row = None
       THEN \E m \in Modes :
              /\ row' = [pwd |-> [id |-> issued + 1, mode |-> m], kdf |-> m,
                         rk |-> issued + 1, fails |-> 0, lockedUntil |-> None]
              /\ issued' = issued + 1
       ELSE UNCHANGED <<row, issued>>
    /\ Finish(r)
    /\ UNCHANGED <<clock, ghosts>>

-----------------------------------------------------------------------------
(* The read of a handler.  Whether the verifier sent matches the stored    *)
(* one is the caller's input.                                              *)

Read(r, h) ==
    /\ pc[r] = "idle"
    /\ row # None
    /\ pc' = [pc EXCEPT ![r] = "save"]
    /\ op' = [op EXCEPT ![r] = h]
    /\ snap' = [snap EXCEPT ![r] = row]
    /\ at' = [at EXCEPT ![r] = clock]
    /\ \E ok \in BOOLEAN : good' = [good EXCEPT ![r] = ok]
    /\ UNCHANGED <<row, issued, clock, ghosts>>

(* These three answer a locked account 401 and save nothing.               *)
Login(r)          == Read(r, "login") /\ ~Locked(row, clock)
GetWraps(r)       == Read(r, "wraps") /\ ~Locked(row, clock)
ChangePassword(r) == Read(r, "change") /\ ~Locked(row, clock)

(* These two go on, and take the proof for a wrong one.                    *)
GetRecoveryWraps(r) == Read(r, "recoveryWraps")
Recover(r)          == Read(r, "recover")

ProvenWhileLocked(r) == good[r]     \* mutant: the lock is not looked at

Proven(r) == good[r] /\ ~Locked(snap[r], at[r])

-----------------------------------------------------------------------------
(* History: whether the copy that r saves is still the row.                *)
Note(r) == stale' = (stale \/ snap[r] # row)

(* RegisterFailedLogin on the copy, and SaveChanges.                       *)

(* Bound: the history counter stops at MaxFails.                           *)
Count(n) == IF n < MaxFails THEN n + 1 ELSE n

Fails(r) == IF snap[r].fails + 1 < MaxFails THEN snap[r].fails + 1 ELSE MaxFails

LocksLate(r) == Fails(r) > MaxFails \* mutant: off by one

Locks(r) == Fails(r) >= MaxFails

SaveFailure(r) ==
    /\ pc[r] = "save"
    /\ ~Proven(r)
    /\ LET fails == IF Locks(r) THEN 0 ELSE Fails(r)
           until == IF Locks(r) THEN at[r] + LockFor ELSE snap[r].lockedUntil
       IN
       row' = [row EXCEPT
                 !.fails = Put(@, snap[r].fails, fails),
                 !.lockedUntil = Put(@, snap[r].lockedUntil, until)]
    /\ failed' = IF Locks(r) THEN 0 ELSE Count(failed)
    /\ Note(r)
    /\ Finish(r)
    /\ UNCHANGED <<issued, clock>>

(* RegisterSuccessfulLogin on the copy; pwd, rk and m are the bundles and  *)
(* the mode the copy holds when it is saved.                               *)
SaveSuccess(r, pwd, rk, m) ==
    /\ pc[r] = "save"
    /\ Proven(r)
    /\ row' = [pwd |-> Put(row.pwd, snap[r].pwd, pwd),
               kdf |-> Put(row.kdf, snap[r].kdf, m),
               rk |-> Put(row.rk, snap[r].rk, rk),
               fails |-> Put(row.fails, snap[r].fails, 0),
               lockedUntil |-> Put(row.lockedUntil, snap[r].lockedUntil, None)]
    /\ failed' = 0
    /\ Note(r)
    /\ Finish(r)
    /\ UNCHANGED clock

(* LoginAsync (the save is MintAsync's), GetWrapsAsync and                 *)
(* GetRecoveryWrapsAsync change the counter alone.                         *)
SaveUnlock(r) ==
    /\ op[r] \in {"login", "wraps", "recoveryWraps"}
    /\ SaveSuccess(r, snap[r].pwd, snap[r].rk, snap[r].kdf)
    /\ UNCHANGED issued

(* ChangePasswordAsync replaces the password's bundle and may replace the  *)
(* recovery key's; RecoverAsync replaces both.  Bound: MaxIssued.          *)
(* Mutant: the KDF mode is left as it was.                                 *)
SaveChangeKeepsMode(r) ==
    /\ op[r] = "change"
    /\ issued < MaxIssued
    /\ \E m \in Modes, rk \in {snap[r].rk, issued + 1} :
          SaveSuccess(r, [id |-> issued + 1, mode |-> m], rk, snap[r].kdf)
    /\ issued' = issued + 1

SaveChange(r) ==
    /\ op[r] = "change"
    /\ issued < MaxIssued
    /\ \E m \in Modes, rk \in {snap[r].rk, issued + 1} :
          SaveSuccess(r, [id |-> issued + 1, mode |-> m], rk, m)
    /\ issued' = issued + 1

SaveRecovery(r) ==
    /\ op[r] = "recover"
    /\ issued < MaxIssued
    /\ \E m \in Modes :
          SaveSuccess(r, [id |-> issued + 1, mode |-> m], issued + 1, m)
    /\ issued' = issued + 1

-----------------------------------------------------------------------------
(* A request dies before it saves.                                         *)
Fail(r) ==
    /\ pc[r] # "idle"
    /\ Finish(r)
    /\ UNCHANGED <<row, issued, clock, ghosts>>

Tick ==
    /\ clock < MaxTime
    /\ clock' = clock + 1
    /\ UNCHANGED <<row, issued, reqVars, ghosts>>

Next ==
    \/ Tick
    \/ \E r \in Reqs :
          \/ Register(r) \/ Create(r)
          \/ Login(r) \/ GetWraps(r) \/ ChangePassword(r)
          \/ GetRecoveryWraps(r) \/ Recover(r)
          \/ SaveFailure(r) \/ SaveUnlock(r)
          \/ SaveChange(r) \/ SaveRecovery(r)
          \/ Fail(r)

Spec == Init /\ [][Next]_vars

-----------------------------------------------------------------------------
(* Properties.                                                             *)

(* Every variable holds a value of its kind.                               *)
TypeOK ==
    /\ row \in User \cup {None}
    /\ issued \in Nat
    /\ clock \in Nat
    /\ pc \in [Reqs -> {"idle", "create", "save"}]
    /\ op \in [Reqs -> Handlers \cup {None}]
    /\ snap \in [Reqs -> User \cup {None}]
    /\ at \in [Reqs -> Nat]
    /\ good \in [Reqs -> BOOLEAN]
    /\ failed \in Nat
    /\ stale \in BOOLEAN

(* No save brings replaced credentials back: a login, a fetch of the wraps *)
(* or a failed attempt that read the row before a change of password and   *)
(* saves it afterwards leaves the new verifiers, salts and wraps alone.    *)
OldCredentialsNeverReturn ==
    [][row # None =>
        /\ row' # None
        /\ row'.pwd # row.pwd => row'.pwd.id > row.pwd.id
        /\ row'.rk # row.rk => row'.rk > row.rk]_vars

(* The credentials of an account that exists are replaced only by a change *)
(* of password or a recovery whose proof matched while the account was not *)
(* locked; in particular never by a second registration of the same id.    *)
OnlyProofReplacesCredentials ==
    [][row # None /\ row'.pwd # row.pwd =>
        \E r \in Reqs : /\ pc[r] = "save" /\ op[r] \in {"change", "recover"}
                        /\ good[r] /\ ~Locked(snap[r], at[r])
                        /\ pc'[r] = "idle"]_vars

(* The stored KDF mode is the one under which the client derived the       *)
(* stored verifiers and wrap: pre-login returns S_Pwd and KdfMode, and a   *)
(* client that combines them wrongly cannot log in or unwrap MK again.     *)
KdfMatchesSalt == row # None => row.kdf = row.pwd.mode

(* It can break only after a stale copy was saved: a handler that replaces *)
(* the verifiers replaces the mode with them.                              *)
FreshSavesKeepMode == ~stale => KdfMatchesSalt

(* As long as no stale copy was saved, MaxFails failed attempts with no    *)
(* success among them lock the account: fewer than that are on record      *)
(* whenever it has not just been locked.                                   *)
FreshFailuresLock == ~stale => failed < MaxFails

(* As long as no stale copy was saved, a lock that is running is never     *)
(* lifted or shortened, whatever the clock did between read and save.      *)
LockIsNeverCutShort ==
    [][~stale' /\ row # None /\ Locked(row, clock) =>
        row'.lockedUntil # None /\ row'.lockedUntil >= row.lockedUntil]_vars
=============================================================================
