----------------------------- MODULE KeyLadder ------------------------------
(***************************************************************************)
(* Which secret opens which key: the master key of an account, its wraps   *)
(* on the server, in the stored bundle and behind the passcode, and the    *)
(* operations that make, replace and delete them: registration, login,     *)
(* set-up of a passcode, change of password, recovery, logout and wipe of  *)
(* the device, in the tabs of one browser, each with the requests, worker  *)
(* messages and storage writes it awaits.                                  *)
(*                                                                         *)
(* Cryptography is symbolic.  A password key is named by what it was       *)
(* derived from, and a wrap by the key and the account (its additional     *)
(* data) that open it and the master key it holds.  The password, the      *)
(* salt, the recovery key and, at a registration, the master key that are  *)
(* chosen together share one number.  Verifiers are named by their keys.   *)
(* The server handles a request in one step here: overlapping requests on  *)
(* a user are the concern of UserCredentials.                              *)
(***************************************************************************)
EXTENDS Naturals

CONSTANTS
    Accounts, Tabs, Modes,  \* account ids, tabs, KDF grades
    MaxMinted,              \* choices of credentials (a bound)
    Scenes,                 \* what a behaviour is about: the accounts and grades, what
                            \* may happen in each tab, whether there is another
                            \* device, whether the user touches the form while it
                            \* works, and the bound on choices
    None

VARIABLES
    scene,
    row,            \* the User rows
    bundle, last,   \* vaulton_bundle, vaulton_last_id
    pin,            \* vaulton_local_passcode of each account
    cookie,         \* the account of the session in the cookie jar
    acc, token,     \* a tab's accountId, and the account of its access token
    flow,           \* the operation a tab is in
    leave,          \* a logout or wipe of the tab
    minted,
    \* history
    master,         \* the master key of each account
    rkSeen,         \* what became of the recovery key of each account: it is
                    \* "coming", was "shown" next to its id, or is "lost"
    mixed           \* accounts were used at once, or a login was torn

vars == <<scene, row, bundle, last, pin, cookie, acc, token, flow, leave,
          minted, master, rkSeen, mixed>>

device == <<bundle, last, pin>>
history == <<scene, minted, master, rkSeen, mixed>>

Key(pw, salt, mode) == [pw |-> pw, salt |-> salt, mode |-> mode]
Wrap(key, mk, a) == [key |-> key, mk |-> mk, of |-> a]
Opens(wrap, key, a) == wrap # None /\ wrap.key = key /\ wrap.of = a

Numbers == 1 .. MaxMinted
Keys == [pw : Numbers, salt : Numbers, mode : Modes]
Wraps(keys) == [key : keys, mk : Numbers, of : Accounts]

(* The User entity as far as keys go.                                      *)
Users == [salt : Numbers, mode : Modes, ver : Keys, wrap : Wraps(Keys),
          rk : Numbers, rkWrap : Wraps(Numbers)]

ASSUME LadderAssumption ==
    /\ None \notin Accounts \cup Users
    /\ MaxMinted \in Nat
    /\ \A s \in Scenes :
          /\ s.accts \subseteq Accounts /\ s.modes \subseteq Modes
          /\ s.max \in 0 .. MaxMinted

Idle == [op |-> "none", pc |-> "idle", a |-> None, pw |-> 0, seen |-> None,
         g |-> 0, sel |-> None, mode |-> None]
Staying == [pc |-> "no", of |-> None, calm |-> FALSE]

Init ==
    /\ scene \in Scenes
    /\ row = [a \in Accounts |-> None]
    /\ bundle = None /\ last = None /\ pin = [a \in Accounts |-> None]
    /\ cookie = None
    /\ acc = [t \in Tabs |-> None] /\ token = [t \in Tabs |-> None]
    /\ flow = [t \in Tabs |-> Idle] /\ leave = [t \in Tabs |-> Staying]
    /\ minted = 0
    /\ master = [a \in Accounts |-> 0]
    /\ rkSeen = [a \in Accounts |-> "shown"]
    /\ mixed = FALSE

At(t, pc) == flow[t].pc = pc
Goto(t, f, pc) == flow' = [flow EXCEPT ![t] = [f EXCEPT !.pc = pc]]
Fail(t) == flow' = [flow EXCEPT ![t] = Idle]

(* The key the user's password gives with the salt and grade at hand.      *)
Typed(f) == Key(f.pw, f.seen.salt, f.seen.mode)

(* What becomes of a recovery key made by f, if it is the one that counts. *)
Settle(f, how) ==
    rkSeen' = IF f.a # None /\ rkSeen[f.a] = "coming" /\ row[f.a].rk = f.g
              THEN [rkSeen EXCEPT ![f.a] = how] ELSE rkSeen

(* RevokeAllAsync for account a: cookie and access tokens are void.        *)
Revoke(a) ==
    /\ cookie' = IF cookie = a THEN None ELSE cookie
    /\ token' = [t \in Tabs |-> IF token[t] = a THEN None ELSE token[t]]

(* The accounts a request may be authorised for: that of the tab's access  *)
(* token, or after a 401 that of the cookie the interceptor refreshes with.*)
(* A token may outlive a logout here; that it does not is AuthSessions'.   *)
Authorised(t) == {token[t], cookie} \ {None}

OthersUse(t, a) ==
    \E u \in Tabs \ {t} : acc[u] \notin {None, a} \/ flow[u].a \notin {None, a}

(* A login has set the cookie or a registration the last id, and what is   *)
(* left to be stored still belongs to the account before.                  *)
Landing(t) ==
    \/ flow[t].pc \in {"final", "id"}
    \/ flow[t].op = "register" /\ flow[t].pc \in {"pre", "post"}

-----------------------------------------------------------------------------
(* An operation begins on a page that is not being left.                   *)

Begin(t, f) ==
    /\ f.op \in scene.may[t] /\ flow[t] = Idle /\ leave[t] = Staying
    /\ flow' = [flow EXCEPT ![t] = f]
    /\ leave' = [u \in Tabs |-> [leave[u] EXCEPT !.calm = FALSE]]
    /\ UNCHANGED <<row, device, cookie, acc, token>>

StartLogin(t) ==
    \E a \in scene.accts, pw \in 1 .. minted :
        /\ acc[t] = None
        /\ Begin(t, [Idle EXCEPT !.op = "login", !.pc = "pre", !.a = a, !.pw = pw])
        /\ UNCHANGED history

(* Unlocking the last account when no bundle is stored is a login.         *)
UnlockByLogin(t) ==
    \E pw \in 1 .. minted :
        /\ acc[t] # None /\ bundle = None /\ last # None
        /\ Begin(t, [Idle EXCEPT !.op = "login", !.pc = "pre", !.a = last, !.pw = pw])
        /\ UNCHANGED history

(* The grade a benchmark recommends, or the one the user prefers.          *)
Grades == scene.modes

Mint == minted < scene.max /\ minted' = minted + 1

(* The account id comes from the server, which has no such account yet.    *)
StartRegister(t) ==
    \E a \in scene.accts, mode \in Grades :
        /\ acc[t] = None /\ row[a] = None
        /\ Mint
        /\ Begin(t, [Idle EXCEPT !.op = "register", !.pc = "derive", !.a = a,
                        !.pw = minted', !.g = minted', !.sel = a, !.mode = mode])
        /\ UNCHANGED <<scene, master, rkSeen, mixed>>

(* Both read the bundle, derive the admin verifier and ask for the wraps.  *)
StartPinSetup(t) ==
    \E pw \in 1 .. minted :
        /\ acc[t] # None /\ bundle # None
        /\ Begin(t, [Idle EXCEPT !.op = "pinSetup", !.pc = "wraps", !.a = acc[t],
                        !.pw = pw, !.seen = bundle])
        /\ UNCHANGED history

StartRekey(t) ==
    \E pw \in 1 .. minted, mode \in Grades :
        /\ acc[t] # None /\ bundle # None
        /\ Begin(t, [Idle EXCEPT !.op = "rekey", !.pc = "wraps", !.a = acc[t],
                        !.pw = pw, !.seen = bundle, !.sel = mode])
        /\ UNCHANGED history

StartRecover(t) ==
    \E a \in scene.accts, key \in 1 .. minted, mode \in Grades :
        /\ acc[t] = None
        /\ Begin(t, [Idle EXCEPT !.op = "recover", !.pc = "rkWraps", !.a = a,
                        !.pw = key, !.sel = mode])
        /\ UNCHANGED history

(* While an operation is under way the page still lets the user select     *)
(* another grade, or run the benchmark that selects one,                   *)
Regrade(t) ==
    /\ scene.touch /\ flow[t].op = "rekey"
    /\ \E mode \in Grades : flow' = [flow EXCEPT ![t].sel = mode]
    /\ UNCHANGED <<row, device, cookie, acc, token, leave, history>>

(* and ask for another account id.                                         *)
NewAccountId(t) ==
    /\ scene.touch /\ flow[t].op = "register"
    /\ \E a \in scene.accts : row[a] = None /\ flow' = [flow EXCEPT ![t].sel = a]
    /\ UNCHANGED <<row, device, cookie, acc, token, leave, history>>

-----------------------------------------------------------------------------
(* SessionService.login.                                                   *)

PreLogin(t) ==
    /\ At(t, "pre")
    /\ LET f == flow[t]
           r == row[f.a]
           fake == [salt |-> 0, mode |-> 1, wrap |-> None, of |-> f.a]
           answer == IF r = None THEN fake
                     ELSE [salt |-> r.salt, mode |-> r.mode, wrap |-> None, of |-> f.a]
       IN  Goto(t, [f EXCEPT !.seen = answer], "post")
    /\ UNCHANGED <<row, device, cookie, acc, token, leave, history>>

(* The answer brings the cookie, the access token and the wrap.            *)
LoginAnswered(t) ==
    /\ At(t, "post")
    /\ LET f == flow[t] IN
          /\ row[f.a] # None /\ row[f.a].ver = Typed(f)
          /\ cookie' = f.a
          /\ token' = [token EXCEPT ![t] = f.a]
          /\ Goto(t, [f EXCEPT !.seen.wrap = row[f.a].wrap], "final")
          /\ mixed' = (mixed \/ OthersUse(t, f.a))
    /\ UNCHANGED <<row, device, acc, leave, scene, minted, master, rkSeen>>

(* Mutant: a bundle that is there already is kept.                         *)
KeepBundle(b) == bundle' = IF bundle = None THEN b ELSE bundle
(* Mutant: the bundle is stored without the wrap.                          *)
SaveBundleUnwrapped(b) == bundle' = [b EXCEPT !.wrap = None]
SaveBundle(b) == bundle' = b

Finalize(t) ==
    /\ At(t, "final")
    /\ Opens(flow[t].seen.wrap, Typed(flow[t]), flow[t].a)
    /\ SaveBundle(flow[t].seen)
    /\ Goto(t, flow[t], "id")
    /\ UNCHANGED <<row, last, pin, cookie, acc, token, leave, history>>

(* The recovery key of a registration appears once its login has ended,    *)
(* well or not, with the account id the form shows by then.                *)
Show(f) ==
    IF f.op = "register" THEN Settle(f, IF f.sel = f.a THEN "shown" ELSE "lost")
    ELSE rkSeen' = rkSeen

LoggedIn(t) ==
    /\ At(t, "id")
    /\ last' = flow[t].a
    /\ acc' = [acc EXCEPT ![t] = flow[t].a]
    /\ Show(flow[t])
    /\ Fail(t)
    /\ UNCHANGED <<row, bundle, pin, cookie, token, leave, scene, minted, master, mixed>>

(* Anything fails: the state is cleared, and POST /auth/logout revokes the *)
(* session in the cookie unless it fails, too.                             *)
LoginFails(t) ==
    /\ flow[t].pc \in {"pre", "post", "final"} /\ flow[t].op \in {"login", "register"}
    /\ acc' = [acc EXCEPT ![t] = None] /\ token' = [token EXCEPT ![t] = None]
    /\ cookie' \in {None, cookie}
    /\ mixed' = (mixed \/ (Landing(t) /\ (cookie' # None \/ OthersUse(t, None))))
    /\ Show(flow[t])
    /\ Fail(t)
    /\ UNCHANGED <<row, device, leave, scene, minted, master>>

-----------------------------------------------------------------------------
(* SessionService.register.                                                *)

BuildRegister(t) ==
    /\ At(t, "derive")
    /\ Goto(t, flow[t], "register")
    /\ UNCHANGED <<row, device, cookie, acc, token, leave, history>>

(* The master key and the recovery key are drawn, and the master key is    *)
(* wrapped under the password's key and the recovery key.                  *)
Registered(f, key) ==
    [salt |-> f.g, mode |-> f.mode, ver |-> key, wrap |-> Wrap(key, f.g, f.a),
     rk |-> f.g, rkWrap |-> Wrap(f.g, f.g, f.a)]

ServeRegister(t) ==
    /\ At(t, "register") /\ row[flow[t].a] = None
    /\ LET f == flow[t] IN
          /\ row' = [row EXCEPT ![f.a] = Registered(f, Key(f.pw, f.g, f.mode))]
          /\ master' = [master EXCEPT ![f.a] = f.g]
          /\ rkSeen' = [rkSeen EXCEPT ![f.a] = "coming"]
          /\ Goto(t, f, "registered")
    /\ UNCHANGED <<device, cookie, acc, token, leave, scene, minted, mixed>>

RegisterAnswered(t) ==
    /\ At(t, "registered")
    /\ last' = flow[t].a
    /\ mixed' = (mixed \/ OthersUse(t, flow[t].a) \/ cookie # None)
    /\ Goto(t, flow[t], "pre")
    /\ UNCHANGED <<row, bundle, pin, cookie, acc, token, leave,
                   scene, minted, master, rkSeen>>

-----------------------------------------------------------------------------
(* PasscodeSetupComponent.finishPasscodeSetup and                          *)
(* RekeyVaultComponent.updateMasterKey.                                    *)

GetWraps(t) ==
    /\ At(t, "wraps")
    /\ \E s \in Authorised(t) :
          /\ row[s] # None /\ row[s].ver = Typed(flow[t])
          /\ Goto(t, [flow[t] EXCEPT !.seen.wrap = row[s].wrap],
                  IF flow[t].op = "rekey" THEN "rekey" ELSE "activate")
    /\ UNCHANGED <<row, device, cookie, acc, token, leave, history>>

(* Mutant: the passcode is stored for the account of the tab.              *)
PinOfTab(f) == f.a
PinOwner(f) == f.seen.of

ActivatePasscode(t) ==
    /\ At(t, "activate")
    /\ LET f == flow[t] IN
          /\ Opens(f.seen.wrap, Typed(f), f.seen.of)
          /\ pin' = [pin EXCEPT ![PinOwner(f)] = Wrap("pin", f.seen.wrap.mk, f.seen.of)]
    /\ Fail(t)
    /\ UNCHANGED <<row, bundle, last, cookie, acc, token, leave, history>>

ExecuteRekey(t) ==
    /\ At(t, "rekey")
    /\ LET f == flow[t] IN
          /\ Opens(f.seen.wrap, Typed(f), f.seen.of)
          /\ Mint
          /\ Goto(t, [f EXCEPT !.g = minted', !.mode = f.sel], "change")
    /\ UNCHANGED <<row, device, cookie, acc, token, leave,
                   scene, master, rkSeen, mixed>>

(* The master key the fetched wrap holds, under the new key.               *)
Rewrapped(f, key) == Wrap(key, f.seen.wrap.mk, f.seen.of)

(* Mutant: the new wrap and verifiers are saved, the salt is not.          *)
ChangedKeepingSalt(r, f, key) ==
    [r EXCEPT !.mode = f.sel, !.ver = key, !.wrap = Rewrapped(f, key)]
Changed(r, f, key) ==
    [r EXCEPT !.salt = f.g, !.mode = f.sel, !.ver = key, !.wrap = Rewrapped(f, key)]

(* The keys were derived with the grade of the moment of the derivation,   *)
(* the grade that is sent is the one selected when it has ended.           *)
ChangePassword(t) ==
    /\ At(t, "change")
    /\ LET f == flow[t] IN
       \E s \in Authorised(t) :
          /\ row[s] # None /\ row[s].ver = Typed(f)
          /\ row' = [row EXCEPT ![s] = Changed(@, f, Key(f.g, f.g, f.mode))]
          /\ Revoke(s)
          /\ Goto(t, f, "changed")
    /\ UNCHANGED <<device, acc, leave, history>>

(* Two seconds after the answer the bundle, the passcode and the session   *)
(* are dropped.                                                            *)
ClearBundle(t) ==
    /\ At(t, "changed")
    /\ bundle' = None
    /\ Goto(t, flow[t], "clearPin")
    /\ UNCHANGED <<row, last, pin, cookie, acc, token, leave, history>>

ClearPin(t) ==
    /\ At(t, "clearPin")
    /\ pin' = [pin EXCEPT ![flow[t].seen.of] = None]
    /\ Fail(t)
    /\ leave' = [leave EXCEPT ![t] = IF @ = Staying THEN [@ EXCEPT !.pc = "logout"] ELSE @]
    /\ UNCHANGED <<row, bundle, last, cookie, acc, token, history>>

(* SecuritySettingsComponent.togglePasscode.                               *)
DisablePasscode(t) ==
    /\ "disable" \in scene.may[t] /\ acc[t] # None /\ leave[t] = Staying
    /\ pin[acc[t]] # None
    /\ pin' = [pin EXCEPT ![acc[t]] = None]
    /\ UNCHANGED <<row, bundle, last, cookie, acc, token, flow, leave, history>>

-----------------------------------------------------------------------------
(* SessionService.recover.                                                 *)

(* A wrong recovery key is answered with a wrap that nothing opens.        *)
GetRecoveryWraps(t) ==
    /\ At(t, "rkWraps")
    /\ LET f == flow[t]
           ok == row[f.a] # None /\ row[f.a].rk = f.pw
           wrap == IF ok THEN row[f.a].rkWrap ELSE None
       IN  Goto(t, [f EXCEPT !.seen = [salt |-> 0, mode |-> 1, wrap |-> wrap, of |-> f.a]],
                "rkDerive")
    /\ UNCHANGED <<row, device, cookie, acc, token, leave, history>>

DeriveRecovery(t) ==
    /\ At(t, "rkDerive")
    /\ LET f == flow[t] IN
          /\ Opens(f.seen.wrap, f.pw, f.a)
          /\ Mint
          /\ Goto(t, [f EXCEPT !.g = minted', !.mode = f.sel], "recover")
    /\ UNCHANGED <<row, device, cookie, acc, token, leave,
                   scene, master, rkSeen, mixed>>

(* Mutant: the wrap under the recovery key is not replaced.                *)
RecoveredKeepingWrap(r, f, key) ==
    [salt |-> f.g, mode |-> f.mode, ver |-> key, wrap |-> Wrap(key, f.seen.wrap.mk, f.a),
     rk |-> f.g, rkWrap |-> r.rkWrap]
Recovered(r, f, key) ==
    [salt |-> f.g, mode |-> f.mode, ver |-> key, wrap |-> Wrap(key, f.seen.wrap.mk, f.a),
     rk |-> f.g, rkWrap |-> Wrap(f.g, f.seen.wrap.mk, f.a)]

ServeRecover(t) ==
    /\ At(t, "recover")
    /\ LET f == flow[t] IN
          /\ row[f.a].rk = f.pw
          /\ row' = [row EXCEPT ![f.a] = Recovered(@, f, Key(f.g, f.g, f.mode))]
          /\ rkSeen' = [rkSeen EXCEPT ![f.a] = "coming"]
          /\ Revoke(f.a)
          /\ Goto(t, f, "recovered")
    /\ UNCHANGED <<device, acc, leave, scene, minted, master, mixed>>

RecoverAnswered(t) ==
    /\ At(t, "recovered")
    /\ last' = flow[t].a
    /\ Settle(flow[t], "shown")
    /\ mixed' = (mixed \/ OthersUse(t, flow[t].a) \/ cookie \notin {None, flow[t].a})
    /\ Fail(t)
    /\ UNCHANGED <<row, bundle, pin, cookie, acc, token, leave,
                   scene, minted, master>>

-----------------------------------------------------------------------------
(* Failures, and the end of a page.                                        *)

AwaitsWorker == {"derive", "final", "activate", "rekey", "rkDerive"}

(* A refusal, an answer that is lost, a worker that fails: the form shows  *)
(* an error.  A recovery key on its way is lost.                           *)
FlowFails(t) ==
    /\ flow[t].pc \in {"derive", "register", "registered", "wraps", "activate", "rekey", "change",
                       "changed", "rkWraps", "rkDerive", "recover", "recovered"}
    /\ Settle(flow[t], "lost")
    /\ Fail(t)
    /\ UNCHANGED <<row, device, cookie, acc, token, leave,
                   scene, minted, master, mixed>>

(* The page ends: its operation is forgotten where it stands, and the page *)
(* that is loaded next restores the session of the cookie, or fails to.    *)
NewPage(t, c) ==
    /\ Fail(t)
    /\ leave' = [leave EXCEPT ![t] = Staying]
    /\ Settle(flow[t], "lost")
    /\ acc' = [acc EXCEPT ![t] = c]
    /\ token' = [token EXCEPT ![t] = c]
    /\ mixed' = (mixed \/ Landing(t) \/ \E u \in Tabs \ {t} : acc[u] \notin {None, c})

Load(t) ==
    /\ "load" \in scene.may[t]
    /\ \E c \in {cookie, None} : NewPage(t, c)
    /\ UNCHANGED <<row, device, cookie, scene, minted, master>>

(* SessionService.logout and wipeDevice: clearKeys(true) ends the worker,  *)
(* and what awaited it fails; what awaits the server goes on.              *)
StartLogout(t) ==
    /\ "logout" \in scene.may[t] /\ acc[t] # None /\ leave[t] = Staying
    /\ leave' = [leave EXCEPT ![t].pc = "logout"]
    /\ UNCHANGED <<row, device, cookie, acc, token, flow, history>>

StartWipe(t) ==
    /\ "wipe" \in scene.may[t] /\ leave[t] = Staying
    /\ leave' = [leave EXCEPT ![t] = [pc |-> "wipe", calm |-> FALSE,
                    of |-> IF acc[t] # None THEN acc[t] ELSE last]]
    /\ UNCHANGED <<row, device, cookie, acc, token, flow, history>>

(* Mutant: the worker is asked to forget its keys, and not terminated.     *)
ClearKeysOnly(t) == flow' = flow /\ UNCHANGED <<rkSeen, mixed>>
EndWorker(t) ==
    IF flow[t].pc \in AwaitsWorker
    THEN /\ Fail(t)
         /\ Settle(flow[t], "lost")
         /\ mixed' = (mixed \/ Landing(t))
    ELSE flow' = flow /\ UNCHANGED <<rkSeen, mixed>>

(* Nothing that awaits the server or the storage is under way.             *)
Calm(t) ==
    \A u \in Tabs : flow[u] = Idle \/ (u = t /\ flow[u].pc \in AwaitsWorker)

ClearState(t) ==
    /\ leave[t].pc \in {"logout", "wipe"}
    /\ EndWorker(t)
    /\ acc' = [acc EXCEPT ![t] = None] /\ token' = [token EXCEPT ![t] = None]
    /\ leave' = [leave EXCEPT ![t] =
                   IF @.pc = "logout" THEN [@ EXCEPT !.pc = "leave"]
                   ELSE [@ EXCEPT !.pc = "wipe1", !.calm = Calm(t)]]
    /\ UNCHANGED <<row, device, cookie, scene, minted, master>>

(* AuthPersistenceService.clearUserData, one key after the other, or       *)
(* clearAll when no account is known.                                      *)
WipeBundle(t) ==
    /\ leave[t].pc = "wipe1"
    /\ bundle' = None
    /\ IF leave[t].of = None
       THEN /\ pin' = [a \in Accounts |-> None] /\ last' = None
            /\ leave' = [leave EXCEPT ![t].pc = "wiped"]
       ELSE /\ UNCHANGED <<pin, last>>
            /\ leave' = [leave EXCEPT ![t].pc = "wipe2"]
    /\ UNCHANGED <<row, cookie, acc, token, flow, history>>

WipePin(t) ==
    /\ leave[t].pc = "wipe2"
    /\ pin' = [pin EXCEPT ![leave[t].of] = None]
    /\ leave' = [leave EXCEPT ![t].pc = "wipe3"]
    /\ UNCHANGED <<row, bundle, last, cookie, acc, token, flow, history>>

WipeLastId(t) ==
    /\ leave[t].pc = "wipe3"
    /\ last' = IF last = leave[t].of THEN None ELSE last
    /\ leave' = [leave EXCEPT ![t].pc = "wiped"]
    /\ UNCHANGED <<row, bundle, pin, cookie, acc, token, flow, history>>

(* POST /auth/logout, and the page is loaded anew whether it failed or not.*)
Leave(t) ==
    /\ leave[t].pc \in {"leave", "wiped"}
    /\ cookie' \in {None, cookie}
    /\ \E c \in {cookie', None} : NewPage(t, c)
    /\ UNCHANGED <<row, device, scene, minted, master>>

(* On another device the user changes the password, or recovers.           *)
Elsewhere(a) ==
    /\ scene.elsewhere /\ row[a] # None
    /\ Mint
    /\ LET key == Key(minted', minted', row[a].mode)
           new == [row[a] EXCEPT !.salt = minted', !.ver = key,
                                 !.wrap = Wrap(key, row[a].wrap.mk, a)]
       IN  \/ row' = [row EXCEPT ![a] = new] /\ UNCHANGED rkSeen
           \/ /\ rkSeen[a] = "shown"
              /\ row' = [row EXCEPT ![a] =
                           [new EXCEPT !.rk = minted',
                                       !.rkWrap = Wrap(minted', row[a].rkWrap.mk, a)]]
              /\ UNCHANGED rkSeen
    /\ Revoke(a)
    /\ UNCHANGED <<device, acc, flow, leave, scene, master, mixed>>

-----------------------------------------------------------------------------

Start(t) ==
    \/ StartLogin(t) \/ UnlockByLogin(t) \/ StartRegister(t) \/ StartPinSetup(t)
    \/ StartRekey(t) \/ StartRecover(t)

Step(t) ==
    \/ PreLogin(t) \/ LoginAnswered(t) \/ Finalize(t) \/ LoggedIn(t) \/ LoginFails(t)
    \/ BuildRegister(t) \/ ServeRegister(t) \/ RegisterAnswered(t)
    \/ GetWraps(t) \/ ActivatePasscode(t) \/ ExecuteRekey(t) \/ ChangePassword(t)
    \/ ClearBundle(t) \/ ClearPin(t)
    \/ GetRecoveryWraps(t) \/ DeriveRecovery(t) \/ ServeRecover(t) \/ RecoverAnswered(t)
    \/ FlowFails(t) \/ Regrade(t) \/ NewAccountId(t)

Exit(t) ==
    \/ Load(t) \/ StartLogout(t) \/ StartWipe(t) \/ ClearState(t)
    \/ WipeBundle(t) \/ WipePin(t) \/ WipeLastId(t) \/ Leave(t)

Next ==
    \/ \E t \in Tabs : Start(t) \/ Step(t) \/ Exit(t) \/ DisablePasscode(t)
    \/ \E a \in Accounts : Elsewhere(a)

Spec == Init /\ [][Next]_vars

-----------------------------------------------------------------------------
(* Properties.                                                             *)

(* Every variable holds a value of its kind.                               *)
TypeOK ==
    /\ row \in [Accounts -> Users \cup {None}]
    /\ bundle # None => bundle.of \in Accounts /\ bundle.wrap \in Wraps(Keys)
    /\ {last, cookie} \subseteq Accounts \cup {None}
    /\ acc \in [Tabs -> Accounts \cup {None}] /\ token \in [Tabs -> Accounts \cup {None}]
    /\ \A t \in Tabs : flow[t] # Idle => flow[t].a \in Accounts
    /\ minted \in 0 .. MaxMinted

(* The password the server accepts for an account opens its master key:    *)
(* salt, grade, verifier and wrap are those of one derivation and hold the *)
(* key the account was registered with, through registrations that are     *)
(* repeated, changes and recoveries that overlap, and bundles that are out *)
(* of date.  As long as nobody touches the grade while the password is     *)
(* changed (KeysMode shows why).                                           *)
RowOpens(a) ==
    LET r == row[a] IN
        /\ r.ver = Key(r.ver.pw, r.salt, r.mode)
        /\ r.wrap = Wrap(r.ver, master[a], a)
PasswordOpensAccount == \A a \in Accounts : row[a] # None /\ ~scene.touch => RowOpens(a)
AcceptedPasswordOpens == \A a \in Accounts : row[a] # None => RowOpens(a)

(* So does the recovery key, and the user has seen it next to the id of    *)
(* its account, unless it is on its way or its answer was lost.            *)
RecoveryKeyOpens ==
    \A a \in Accounts : row[a] # None /\ ~scene.touch =>
        LET r == row[a] IN
        /\ r.rkWrap = Wrap(r.rk, master[a], a)
        /\ rkSeen[a] = "coming" =>
              \E t \in Tabs : flow[t].a = a /\ flow[t].g = r.rk

(* What the device keeps opens to the master key of the account it is kept *)
(* for, whatever accounts its tabs use and whatever changed elsewhere.     *)
StoredWrapsOpen ==
    /\ bundle # None =>
          \E pw \in 1 .. minted :
             bundle.wrap = Wrap(Key(pw, bundle.salt, bundle.mode), master[bundle.of], bundle.of)
    /\ \A a \in Accounts : pin[a] # None => pin[a] = Wrap("pin", master[a], a)

(* The device knows one account at a time: the bundle and the last id, by  *)
(* which a vault is unlocked, name the account of the session, unless two  *)
(* accounts were used at once, or a login was torn before it was stored.   *)
DeviceFollowsSession ==
    ~mixed /\ (\A t \in Tabs : ~Landing(t)) =>
        \A t \in Tabs : acc[t] # None =>
            /\ bundle # None => bundle.of = acc[t]
            /\ last \in {None, acc[t]}

(* A wipe leaves nothing of the account, whatever its own tab had begun,   *)
(* unless an operation that awaited the server overlapped it.              *)
WipeForgets ==
    \A t \in Tabs :
        leave[t].pc = "wiped" /\ leave[t].calm /\ flow[t] = Idle =>
            /\ bundle = None
            /\ last # leave[t].of \/ last = None
            /\ leave[t].of # None => pin[leave[t].of] = None
=============================================================================
