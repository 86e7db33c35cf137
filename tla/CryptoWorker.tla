---------------------------- MODULE CryptoWorker ----------------------------
(***************************************************************************)
(* One tab of the web client and its crypto worker: crypto.worker.ts, the  *)
(* promises of auth-crypto.service.ts, and the operations of               *)
(* session.service.ts that log in, unlock, lock and log out.               *)
(*                                                                         *)
(* The tab and the worker are two threads joined by two queues.  The       *)
(* worker takes messages in order, but its handlers are asynchronous: a    *)
(* handler runs to its next await on Web Crypto, and another handler may   *)
(* run before it goes on.  All handlers share vaultKey and                 *)
(* pendingLoginBaseKey.  On the other side every operation waits for one   *)
(* answer at a time, which may come, be replaced by a rejection when the   *)
(* worker is terminated, or by a time-out while the worker goes on.        *)
(*                                                                         *)
(* A vault key is named by the account whose master key it comes from, a   *)
(* base key by the account whose salt and by whether the right password    *)
(* went into it.  Unwrapping is authenticated: it succeeds for a base key  *)
(* of that account and the right password only.                            *)
(***************************************************************************)
EXTENDS Naturals, Sequences

CONSTANTS
    Accounts,
    Ops,            \* operations of the tab that can be under way (a bound)
    None,
    Scenes          \* the circumstances a tab may find itself in

VARIABLES
    unlocked,       \* AuthStateService.isUnlocked
    account,        \* AuthStateService.accountId (and accessToken)
    busy,           \* AuthCryptoService.isWorking
    form,           \* the operation the form on screen waits for
    op,             \* op[o]: operation o: what it waits for, for whom
    bundle,         \* IndexedDB: the account of the stored bundle
    lastId,         \* IndexedDB: the account that last logged in
    inbox, outbox,  \* postMessage, to the worker and back
    job,            \* job[o]: the handler that serves the message of o
    vaultKey, pendingLoginBaseKey,
    left,           \* history: logged out, and nothing begun since
    scene           \* the accounts and slots used here, and what may happen

tabVars    == <<unlocked, account, busy, form, op, left>>
diskVars   == <<bundle, lastId>>
workerVars == <<inbox, outbox, job, vaultKey, pendingLoginBaseKey>>
vars       == <<tabVars, diskVars, workerVars, scene>>

Trouble == {"remount",  \* a form is left while it waits
            "timeout",  \* the worker takes longer than 60 s
            "crash",    \* the worker crashes
            "fail",     \* a request, a write to disk or Argon2 fails
            "tabs"}     \* other tabs log in or change the password
Scene   == [accts : SUBSET Accounts, ops : SUBSET Ops, may : SUBSET Trouble]

May(what) == what \in scene.may

AccountOrNone == Accounts \cup {None}

BaseKey == [acct : Accounts, right : BOOLEAN]

Types == {"LOGIN", "FINALIZE_LOGIN", "UNLOCK", "UNLOCK_VIA_PASSCODE",
          "CLEAR_KEYS", "USE_ENTRY"}

(* What an operation waits for: a request or a read of IndexedDB before    *)
(* its first message to the worker, an answer of the worker, the login     *)
(* request, the bundle to be written, the page to be left.                 *)
Preparing == {"preLogin", "getBundle", "getAccountId", "getPasscodeId", "getPasscode"}
Awaiting  == {"login", "finalize", "unlock", "passcode", "lock", "logout", "use"}
Waits     == Preparing \cup Awaiting \cup {"idle", "api", "disk", "leave"}

Message == [op : Ops, type : Types]
Answer  == [op : Ops, ok : BOOLEAN]
Job     == [type : Types, at : {"derive", "prove", "unwrap"},
            base : BaseKey \cup {None}]

ASSUME ConstAssumption ==
    /\ Scenes \subseteq Scene
    /\ None \notin Accounts \cup Ops \cup BaseKey \cup Job

Idle == [wait |-> "idle", acct |-> None, right |-> FALSE]

Init ==
    /\ scene \in Scenes
    /\ unlocked = FALSE
    /\ account \in scene.accts \cup {None}
    /\ busy = FALSE
    /\ form = None
    /\ op = [o \in Ops |-> Idle]
    /\ bundle = account /\ lastId = account
    /\ inbox = <<>> /\ outbox = <<>>
    /\ job = [o \in Ops |-> None]
    /\ vaultKey = None /\ pendingLoginBaseKey = None
    /\ left = FALSE

Waiting(o) == op[o].wait \in Awaiting

(* Bound: an operation that was given up holds its slot for as long as the *)
(* worker still works on it.                                               *)
Unused(o) ==
    /\ o \in scene.ops
    /\ op[o].wait = "idle" /\ job[o] = None
    /\ \A i \in DOMAIN inbox : inbox[i].op # o
    /\ \A i \in DOMAIN outbox : outbox[i].op # o

-----------------------------------------------------------------------------
(* The tab: how operations begin.  postToWorker sends the message, to a    *)
(* fresh worker if the old one was terminated.  A first message has left   *)
(* behind it any logout that was before.                                   *)

Post(o, type, wait, acct, right) ==
    /\ inbox' = Append(inbox, [op |-> o, type |-> type])
    /\ op' = [op EXCEPT ![o] = [wait |-> wait, acct |-> acct, right |-> right]]
    /\ left' = FALSE
    /\ UNCHANGED <<outbox, job, vaultKey, pendingLoginBaseKey>>

(* Something other than the worker is asked first.                         *)
Await(o, wait, acct) ==
    /\ op' = [op EXCEPT ![o] = [wait |-> wait, acct |-> acct, right |-> FALSE]]
    /\ UNCHANGED <<unlocked, account, busy, left, diskVars, workerVars>>

(* Mutant: the form does not look whether it waits already.                *)
SubmitAgain(o, wait, acct) ==
    /\ Unused(o)
    /\ form' = o
    /\ Await(o, wait, acct)

(* login, unlock and passcode unlock are begun from a form, which waits    *)
(* for the end.                                                            *)
Submit(o, wait, acct) ==
    /\ Unused(o)
    /\ form = None
    /\ form' = o
    /\ Await(o, wait, acct)

(* login(), from the page that is shown while nobody is logged in.         *)
Login(o, a) == account = None /\ Submit(o, "preLogin", a)

(* The overlay is shown while the vault of somebody logged in is locked.   *)
OverlayShown == account # None /\ ~unlocked

Unlock(o) == OverlayShown /\ Submit(o, "getBundle", None)

UnlockViaPasscode(o) == OverlayShown /\ Submit(o, "getPasscodeId", None)

(* The button and the inactivity timer of an unlocked vault.  A busy       *)
(* worker is not asked to clear its keys.                                  *)
Lock(o) ==
    /\ unlocked
    /\ Unused(o)
    /\ IF busy
       THEN unlocked' = FALSE /\ UNCHANGED <<op, left, workerVars>>
       ELSE Post(o, "CLEAR_KEYS", "lock", account, TRUE) /\ UNCHANGED unlocked
    /\ UNCHANGED <<account, busy, form, diskVars>>

Logout(o) ==
    /\ account # None
    /\ Unused(o)
    /\ Post(o, "CLEAR_KEYS", "logout", account, TRUE)
    /\ UNCHANGED <<unlocked, account, busy, form, diskVars>>

(* encryptEntry and decryptEntry.                                          *)
UseEntry(o) ==
    /\ unlocked
    /\ Unused(o)
    /\ Post(o, "USE_ENTRY", "use", account, TRUE)
    /\ UNCHANGED <<unlocked, account, busy, form, diskVars>>

-----------------------------------------------------------------------------
(* The tab: how operations go on and end.                                  *)

(* The operations of S end without success; logout does not care.          *)
Reject(S) ==
    LET out == \E o \in S :
                 op[o].wait \in {"preLogin", "login", "finalize", "logout", "api", "disk"}
    IN
    /\ op' = [o \in Ops |->
                IF o \notin S THEN op[o]
                ELSE [op[o] EXCEPT !.wait = IF @ = "logout" THEN "leave" ELSE "idle"]]
    /\ account' = IF out THEN None ELSE account
    /\ unlocked' = (unlocked /\ ~out /\ \A o \in S : op[o].wait # "lock")
    /\ form' = IF form \in S THEN None ELSE form
    /\ left' = (left \/ \E o \in S : op[o].wait = "logout")

(* Mutant: a cleared worker goes on with the handlers under way.           *)
EndWorkerLate ==
    /\ inbox' = <<>> /\ outbox' = <<>>
    /\ vaultKey' = None /\ pendingLoginBaseKey' = None
    /\ UNCHANGED job

(* The worker is gone with its queues, its handlers and its variables.     *)
EndWorker ==
    /\ inbox' = <<>> /\ outbox' = <<>>
    /\ job' = [o \in Ops |-> None]
    /\ vaultKey' = None /\ pendingLoginBaseKey' = None

Release(o) == busy' = (busy /\ op[o].wait \notin {"login", "unlock"})

(* Mutant: the promises are forgotten.                                     *)
TerminateOnly ==
    /\ Reject({o \in Ops : op[o].wait = "logout"})
    /\ busy' = FALSE
    /\ EndWorker

(* terminate(): every promise is rejected.                                 *)
Terminate ==
    /\ Reject({o \in Ops : Waiting(o)})
    /\ busy' = FALSE
    /\ EndWorker

Succeed(o) ==
    /\ op' = [op EXCEPT ![o].wait = "idle"]
    /\ form' = IF form = o THEN None ELSE form
    /\ unlocked' = (op[o].wait \in {"unlock", "passcode"} \/ unlocked)
    /\ UNCHANGED <<account, left>>

(* What was asked before the worker comes to nothing.                      *)
Fail(o) == Reject({o}) /\ UNCHANGED <<busy, diskVars, workerVars>>

(* Mutant: two password operations may overlap.                            *)
ClaimWorkerUnchecked == busy' = TRUE
ClaimWorker == ~busy /\ busy' = TRUE

(* buildLogin and unlock of auth-crypto.service.ts refuse when the worker  *)
(* is busy.  Whether the secret is right shows when it is used.            *)
AskWorker(o, type, wait, acct) ==
    \/ /\ ClaimWorker
       /\ \E right \in BOOLEAN : Post(o, type, wait, acct, right)
       /\ UNCHANGED <<unlocked, account, form, diskVars>>
    \/ busy /\ Fail(o)

(* POST /auth/pre-login answers.                                           *)
PreLoginAnswered(o) ==
    /\ op[o].wait = "preLogin"
    /\ \/ AskWorker(o, "LOGIN", "login", op[o].acct)
       \/ May("fail") /\ Fail(o)

(* unlock(): without a bundle it is login() for the last account, whose    *)
(* catch logs the tab out.                                                 *)
BundleRead(o) ==
    /\ op[o].wait = "getBundle"
    /\ \/ bundle # None /\ AskWorker(o, "UNLOCK", "unlock", bundle)
       \/ bundle = None /\ Await(o, "getAccountId", None) /\ UNCHANGED form
       \/ May("fail") /\ Fail(o)

AccountIdRead(o) ==
    /\ \/ /\ op[o].wait = "getAccountId" /\ lastId # None
          /\ Await(o, "preLogin", lastId) /\ UNCHANGED form
       \/ /\ op[o].wait = "getPasscodeId" /\ lastId # None
          /\ Await(o, "getPasscode", lastId) /\ UNCHANGED form
       \/ /\ op[o].wait \in {"getAccountId", "getPasscodeId"}
          /\ lastId = None \/ May("fail")
          /\ Fail(o)

(* The account may have set up no passcode on this device.                 *)
PasscodeRead(o) ==
    /\ op[o].wait = "getPasscode"
    /\ \/ /\ \E right \in BOOLEAN :
                Post(o, "UNLOCK_VIA_PASSCODE", "passcode", op[o].acct, right)
          /\ UNCHANGED <<unlocked, account, busy, form, diskVars>>
       \/ Fail(o)

(* The promise of o, which is no logout, is settled by an answer or by the *)
(* time-out.                                                               *)
Settle(o, ok) ==
    \/ /\ op[o].wait = "login" /\ ok
       /\ op' = [op EXCEPT ![o].wait = "api"]
       /\ Release(o)
       /\ UNCHANGED <<unlocked, account, form, left>>
    \/ /\ op[o].wait = "finalize" /\ ok
       /\ op' = [op EXCEPT ![o].wait = "disk"]
       /\ UNCHANGED <<unlocked, account, busy, form, left>>
    \/ /\ op[o].wait \in {"unlock", "passcode", "use"} /\ ok
       /\ Succeed(o)
       /\ Release(o)
    \/ /\ op[o].wait = "lock" \/ (Waiting(o) /\ op[o].wait # "logout" /\ ~ok)
       /\ Reject({o})
       /\ Release(o)

LogsOut(o) == op[o].wait = "logout"

(* onmessage: an answer nobody waits for is dropped.  clearKeys(true) goes *)
(* on to terminate the worker, whatever the answer is.                     *)
Receive ==
    /\ outbox # <<>>
    /\ LET m == Head(outbox) IN
       \/ LogsOut(m.op) /\ Terminate
       \/ /\ ~LogsOut(m.op)
          /\ IF Waiting(m.op) THEN Settle(m.op, m.ok) ELSE UNCHANGED tabVars
          /\ outbox' = Tail(outbox)
          /\ UNCHANGED <<inbox, job, vaultKey, pendingLoginBaseKey>>
    /\ UNCHANGED diskVars

(* The worker is not told.                                                 *)
TimeOut(o) ==
    /\ May("timeout")
    /\ Waiting(o)
    /\ \/ LogsOut(o) /\ Terminate
       \/ ~LogsOut(o) /\ Settle(o, FALSE) /\ UNCHANGED workerVars
    /\ UNCHANGED diskVars

(* worker.onerror.                                                         *)
Crash ==
    /\ May("crash")
    /\ Terminate
    /\ UNCHANGED diskVars

(* POST /auth/login answers, and the login goes on to FINALIZE_LOGIN or to *)
(* the catch of login().                                                   *)
LoginAnswered(o) ==
    /\ op[o].wait = "api"
    /\ \/ /\ op[o].right
          /\ inbox' = Append(inbox, [op |-> o, type |-> "FINALIZE_LOGIN"])
          /\ op' = [op EXCEPT ![o].wait = "finalize"]
          /\ UNCHANGED <<unlocked, account, form, left>>
       \/ /\ ~op[o].right \/ May("fail")
          /\ Reject({o})
          /\ UNCHANGED inbox
    /\ UNCHANGED <<busy, diskVars, outbox, job, vaultKey, pendingLoginBaseKey>>

(* saveBundle and saveAccountId, then the state of the tab.                *)
BundleSaved(o) ==
    /\ op[o].wait = "disk"
    /\ \/ /\ bundle' = op[o].acct /\ lastId' = op[o].acct
          /\ account' = op[o].acct
          /\ unlocked' = TRUE
          /\ op' = [op EXCEPT ![o].wait = "idle"]
          /\ form' = IF form = o THEN None ELSE form
          /\ UNCHANGED left
       \/ /\ May("fail")
          /\ Reject({o})
          /\ bundle' \in {bundle, op[o].acct} /\ UNCHANGED lastId
    /\ UNCHANGED <<busy, workerVars>>

(* The page is loaded anew, by the end of logout() or by the user;         *)
(* tryRestore answers with the account of the refresh cookie, if any.      *)
Load ==
    /\ account' \in IF May("tabs") THEN scene.accts \cup {None} ELSE {lastId, None}
    /\ unlocked' = FALSE /\ busy' = FALSE /\ form' = None
    /\ op' = [o \in Ops |-> Idle]
    /\ EndWorker
    /\ left' = FALSE
    /\ UNCHANGED diskVars

Leave(o) == op[o].wait = "leave" /\ Load

(* Leaving the page or opening a confirmation destroys the form on screen; *)
(* the next one does not know of the operation under way.                  *)
Remount ==
    /\ May("remount")
    /\ form # None
    /\ form' = None
    /\ UNCHANGED <<unlocked, account, busy, op, left, diskVars, workerVars>>

(* Another tab logs in, changes the password or wipes the device.          *)
OtherTab ==
    /\ May("tabs")
    /\ bundle' \in scene.accts \cup {None}
    /\ lastId' \in {lastId, bundle'}
    /\ UNCHANGED <<tabVars, workerVars>>

-----------------------------------------------------------------------------
(* The worker.  Reply(o, ok) is postSuccess or postError.             *)

Reply(o, ok) ==
    /\ outbox' = Append(outbox, [op |-> o, ok |-> ok])
    /\ job' = [job EXCEPT ![o] = None]

(* Mutant: a base key that is gone is not noticed.                         *)
FinalizeUnchecked(o, type) ==
    /\ vaultKey' = None
    /\ job' = [job EXCEPT ![o] = [type |-> type, at |-> "unwrap",
                                  base |-> pendingLoginBaseKey]]
    /\ UNCHANGED outbox

(* handleFinalizeLogin up to its first await.                              *)
Finalize(o, type) ==
    IF pendingLoginBaseKey = None
    THEN Reply(o, FALSE) /\ UNCHANGED vaultKey
    ELSE /\ vaultKey' = None
         /\ job' = [job EXCEPT ![o] = [type |-> type, at |-> "unwrap",
                                       base |-> pendingLoginBaseKey]]
         /\ UNCHANGED outbox

(* handleClearKeys.  Mutant: the vault key is kept.                        *)
ClearPendingOnly == pendingLoginBaseKey' = None /\ UNCHANGED vaultKey
ClearKeys == pendingLoginBaseKey' = None /\ vaultKey' = None

(* The next message is taken and its handler runs to its first await.      *)
Take ==
    /\ inbox # <<>>
    /\ inbox' = Tail(inbox)
    /\ LET o == Head(inbox).op
           type == Head(inbox).type
       IN
       \/ /\ type \in {"LOGIN", "UNLOCK"}
          /\ pendingLoginBaseKey' = None
          /\ job' = [job EXCEPT ![o] = [type |-> type, at |-> "derive", base |-> None]]
          /\ UNCHANGED <<outbox, vaultKey>>
       \/ /\ type = "FINALIZE_LOGIN"
          /\ Finalize(o, type)
          /\ UNCHANGED pendingLoginBaseKey
       \/ /\ type = "UNLOCK_VIA_PASSCODE"
          /\ vaultKey' = None
          /\ job' = [job EXCEPT ![o] =
                       [type |-> type, at |-> "unwrap",
                        base |-> [acct |-> op[o].acct, right |-> op[o].right]]]
          /\ UNCHANGED <<outbox, pendingLoginBaseKey>>
       \/ /\ type = "CLEAR_KEYS"
          /\ ClearKeys
          /\ Reply(o, TRUE)
       \/ /\ type = "USE_ENTRY"
          /\ Reply(o, vaultKey # None)
          /\ UNCHANGED <<vaultKey, pendingLoginBaseKey>>
    /\ UNCHANGED <<tabVars, diskVars>>

(* handleLogin after deriveHkdfBaseKey.                                    *)
Derive(o) ==
    /\ job[o] # None /\ job[o].at = "derive"
    /\ \/ /\ pendingLoginBaseKey' = [acct |-> op[o].acct, right |-> op[o].right]
          /\ job' = [job EXCEPT ![o].at = "prove"]
          /\ UNCHANGED outbox
       \/ /\ May("fail")
          /\ pendingLoginBaseKey' = None
          /\ Reply(o, FALSE)
    /\ UNCHANGED <<tabVars, diskVars, inbox, vaultKey>>

(* handleLogin after hkdfVerifierB64: LOGIN ends, UNLOCK goes on.          *)
Prove(o) ==
    /\ job[o] # None /\ job[o].at = "prove"
    /\ IF job[o].type = "UNLOCK" THEN Finalize(o, "UNLOCK")
       ELSE Reply(o, TRUE) /\ UNCHANGED vaultKey
    /\ UNCHANGED <<tabVars, diskVars, inbox, pendingLoginBaseKey>>

Opens(o) == job[o].base = [acct |-> op[o].acct, right |-> TRUE]

(* The last await of handleFinalizeLogin and of handleUnlockViaPasscode.   *)
(* The two differ in pendingLoginBaseKey, which only the first clears.     *)
Unwrap(o) ==
    /\ job[o] # None /\ job[o].at = "unwrap"
    /\ vaultKey' = IF Opens(o) THEN op[o].acct ELSE None
    /\ pendingLoginBaseKey' =
          IF job[o].type = "UNLOCK_VIA_PASSCODE" THEN pendingLoginBaseKey ELSE None
    /\ Reply(o, Opens(o))
    /\ UNCHANGED <<tabVars, diskVars, inbox>>

-----------------------------------------------------------------------------
(* The whole.                                                              *)

Begin(o) ==
    \/ \E a \in scene.accts : Login(o, a)
    \/ Unlock(o) \/ UnlockViaPasscode(o) \/ Lock(o) \/ Logout(o) \/ UseEntry(o)

Continue(o) ==
    \/ PreLoginAnswered(o) \/ BundleRead(o) \/ AccountIdRead(o) \/ PasscodeRead(o)
    \/ LoginAnswered(o) \/ BundleSaved(o) \/ Leave(o)

Work(o) == Derive(o) \/ Prove(o) \/ Unwrap(o)

Next ==
    /\ \/ Receive \/ Take \/ Crash \/ Load \/ Remount \/ OtherTab
       \/ \E o \in Ops : Begin(o) \/ Continue(o) \/ Work(o) \/ TimeOut(o)
    /\ UNCHANGED scene

Spec == Init /\ [][Next]_vars

(* The event loops of the tab and of the worker run, requests are answered *)
(* and the disk responds.                                                  *)
FairSpec ==
    /\ Spec
    /\ WF_vars(Receive /\ UNCHANGED scene) /\ WF_vars(Take /\ UNCHANGED scene)
    /\ \A o \in Ops : /\ WF_vars(Continue(o) /\ UNCHANGED scene)
                      /\ WF_vars(Work(o) /\ UNCHANGED scene)

-----------------------------------------------------------------------------
(* Properties.                                                             *)

(* Every variable holds a value of its kind, and a handler that unwraps    *)
(* has a base key.                                                         *)
TypeOK ==
    /\ scene \in Scenes
    /\ unlocked \in BOOLEAN /\ busy \in BOOLEAN /\ left \in BOOLEAN
    /\ account \in AccountOrNone /\ bundle \in AccountOrNone /\ lastId \in AccountOrNone
    /\ form \in Ops \cup {None}
    /\ op \in [Ops -> [wait : Waits, acct : AccountOrNone, right : BOOLEAN]]
    /\ inbox \in Seq(Message) /\ outbox \in Seq(Answer)
    /\ job \in [Ops -> Job \cup {None}]
    /\ \A o \in Ops : job[o] # None /\ job[o].at = "unwrap" => job[o].base # None
    /\ vaultKey \in AccountOrNone
    /\ pendingLoginBaseKey \in BaseKey \cup {None}

Quiet == \A o \in scene.ops : Unused(o)
Calm == scene.may = {}

(* An unlocked vault can decrypt and encrypt: when nothing is under way,   *)
(* the worker of an unlocked tab holds the key of the account.  docs/auth  *)
(* defines the unlocked vault by it.  It takes forms that wait for their   *)
(* operations and a machine that does not fail.                            *)
UnlockedHasKey == Calm /\ Quiet /\ unlocked => vaultKey = account

(* When nothing is under way, the worker of a locked tab holds no key.     *)
LockedHoldsNoKey == Calm /\ Quiet /\ ~unlocked => vaultKey = None

(* A secret that is wrong opens nothing, though password operations share  *)
(* the slot of the pending base key: what unlocks the tab is an operation  *)
(* that was given the right secret.  Forms may be left, and the worker may *)
(* crash or fail, but it answers in time.                                  *)
OnlyRightSecretUnlocks ==
    [][~May("timeout") /\ ~May("tabs") /\ ~unlocked /\ unlocked' =>
          \E o \in Ops : /\ op[o].right
                         /\ op[o].wait \in {"unlock", "passcode", "disk"}
                         /\ op'[o].wait = "idle"]_vars

(* The busy flag is set exactly while one password operation waits for the *)
(* worker, after whatever answers, rejections and time-outs.               *)
BusyIsAccurate ==
    LET waiting == {o \in Ops : op[o].wait \in {"login", "unlock"}} IN
    /\ busy <=> waiting # {}
    /\ \A o, q \in waiting : o = q

(* From the end of a logout to the next first message of an operation      *)
(* there is no key: an operation whose first message went out before, a    *)
(* login that waits for the server included, does not bring one back.  One *)
(* that still waits for pre-login or for IndexedDB does: its first message *)
(* goes to a fresh worker, which may open the vault until the page is left.*)
LogoutForgets == left => vaultKey = None

(* Every operation ends.                                                   *)
OpsEnd == \A o \in Ops : op[o].wait # "idle" ~> op[o].wait = "idle"
=============================================================================
