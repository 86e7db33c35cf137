# Vaulton: specifications, model checking and proofs

Vaulton is a zero-knowledge password manager: an ASP.NET Core API over
PostgreSQL (`backend/`) and an Angular client that does all cryptography in a
Web Worker (`frontend/vaulton-web/`). This directory holds TLA+ models of the
parts whose correctness depends on the order in which things happen, TLC
configurations that check them on small instances, and TLAPS proofs of what
must hold for every instance.

## 1. The system and its hard parts

| component | state | operations | why it is hard |
|---|---|---|---|
| Session store: `RefreshTokenStore.cs`, the session half of `AuthService.cs`, `OnTokenValidated` in `Program.cs` | the `RefreshTokens` rows | mint (login), rotate (refresh), revoke (logout), revoke all (logout-all, change of password, recovery, replay), access-token check | every request has its own `DbContext`; rows are read, decided on and saved with no lock and no concurrency token, so decisions are made on stale copies; requests die between two saves; a 5 s grace period and a 7 day expiry |
| User credentials: the rest of `AuthService.cs`, `LockoutPolicy.cs` | the `Users` row: verifiers, salts, wraps, KDF mode, failure counter, lock | register, login, fetch wraps, change password, fetch recovery wraps, recover | the same, and EF Core saves only the columns that differ from the stale copy |
| Vault entries: `VaultService.cs` | the `Entries` rows | create, list, get, update, delete | check-then-insert, read-then-save, set-based delete |
| Vault records: `vault-data.service.ts`, dashboard | the decrypted list of one tab | load, add, update, delete | optimistic removal and roll back, loads that end after a lock |
| Crypto worker: `crypto.worker.ts`, `auth-crypto.service.ts`, `session.service.ts` | `vaultKey`, `pendingLoginBaseKey`, pending requests, `isWorking`, `isUnlocked` | login, finalize, unlock, unlock via passcode, encrypt, decrypt, clear, terminate | message handlers interleave at every `await`; the caller times out while the worker goes on |
| Refresh across tabs: `auth-api.service.ts`, `auth.interceptor.ts`, cookie handling of `AuthController.cs` | `v_ref` in local storage, the cookie jar, access tokens of the tabs | refresh with lock and retries, repeat of a 401 request | check-then-set lock shared by tabs, answers that arrive out of order |
| Key hierarchy and persistence: `crypto.worker.ts`, `auth-persistence.service.ts`, rekey and passcode components | wraps on the server and on the device | register, rekey, recover, passcode setup, wipe | several steps of several stores, any of which may be the last |
| Inactivity timer: `session-timer.service.ts` | target time stamp | activity, tick, reset, lock | timers that outlive what they guard, a computer that sleeps |
| Dashboard: `vault-dashboard.component.ts`, `record-card.component.ts`, `record-editor.component.ts` | cards, revealed passwords, the open form, saves under way | reveal, edit, delete, search, memo, save, close | clicks that wait for the server, timers and saves that end after a lock |

The parts interact through HTTP requests (client to API), `postMessage`
(client to worker), the database rows (request to request), the cookie jar and
local storage (tab to tab). Correctness of the components, in a sentence each:
a session is exchanged along one line, ends when it is revoked and never lives
again; credentials are replaced only by a proof, completely, and never come
back; repeated failures lock the account; an entry is never lost or handed to
another account; no key is held while the tab shows a lock; tabs share one
session without ending it; the password and the recovery key the server accepts
open the account's master key; an idle vault locks, and a locked screen is
blank.

Not modelled, and why: hashing, key derivation, signing and length checks are
stateless functions whose results the models take as inputs; HTTP headers,
health check, start-up migration and the per-address rate limit are framework
configuration; routing, toasts, documentation pages and visuals are
presentation; copying to the clipboard, the password generator, the KDF
benchmark and the prompt that offers a passcode keep no state others read;
deployment files hold no program state. The browser extension that
`docs/extension.md` describes is not part of the repository.

## 2. Plan

1. `TokenLifecycle`, `AuthSessions` and proofs: done.
2. `UserCredentials` and proofs: done.
3. `CryptoWorker` and proofs of its safety properties: done for the messages that
   share the worker's keys; what the others store is in `KeyLadder`.
4. `EntryStore`, `VaultEntries` and proofs: done.
5. `VaultRecords`, composed with `EntryStore`, and proofs of all its properties:
   done.
6. `TabRefresh` and proofs of its safety properties: done.
7. `KeyLadder` and proofs of all its properties: done.
8. `InactivityTimer`, `VaultDashboard`, composed in `UnlockedTab`, and proofs of
   all their properties: done.
9. Proofs of the invariants that were only model-checked, in `CryptoWorker`,
   `VaultRecords`, `TabRefresh` and `AuthSessions`: done.
10. What the stores promise when requests do not overlap, for the properties that
   the violation runs refute (`AuthSessions`, `UserCredentials`), and the theorems of
   `TabRefresh` without a condition on its pool of names: done.

Worth modelling next: an abstract vault that is locked or
unlocked with one key, implemented by the calm scene of `CryptoWorker`, and the
composition of its lock with `UnlockedTab`.

## 3. The modules

### TokenLifecycle

The promise of the session store, with no request in sight: the `status`, the
`owner` and the `origin` of every token (the token it was exchanged for), and
the steps `Open`, `Rotate`, `Close`. With `Strict` only a living token can be
rotated.

### AuthSessions

The `RefreshTokens` table and the requests on it. A request slot `r` of `Reqs`
is a running request: `pc[r]` is its next database round trip, `snap[r]` the
row its `DbContext` tracks, `at[r]` its local `now`. A handler is one action
per round trip; the slots interleave between them.

| code | actions |
|---|---|
| `LoginAsync`, `MintAsync` | `Login` reads, `Mint` saves |
| `RefreshAsync`, `GetUserIdByTokenAsync`, `RotateAsync` | `Refresh` reads; `RotateExpired`, `RotateRecentlyRevoked`, `RotateRevoked`, `RotateLive` decide and save; a replay goes on to `RevokeAll` |
| `LogoutAsync`, `RevokeAsync` | `Logout` reads, `Revoke` saves |
| `LogoutAllAsync`, `RevokeAllAsync` | `LogoutAll` passes the access-token check, `RevokeAll` is the one `UPDATE` |
| `ChangePasswordAsync` | `ChangePassword` passes the access-token check, `Verify` reads the user row, `SaveCredentials` saves, `RevokeAll` |
| `RecoverAsync` | `Recover` reads and proves, `SaveCredentials`, `RevokeAll` |
| a failing round trip or process | `Fail` |

EF Core hands out one tracked object per row and context, so `RotateAsync`
decides on the copy that `GetUserIdByTokenAsync` loaded; the model has one
read. A save writes the columns the handler changed and nothing else, whatever
the row has become: `RotateLive` writes `revokedAt` and the reason into the
current row, the replay branch writes `revokedAt` alone and only if it differs
from what was read. An access token is accepted while the row minted with it
is unrevoked and unexpired; its own 20 minute life time would only remove
behaviours and is left out. `hist` and `seen` are history: they record from
where a token came and whether a `RevokeAll` of its account has run since the
read it descends from; no action reads them except `Verify`, for which
`seen[r].cred` is the password its caller knew.

### UserCredentials

The row of one account. `pwd` stands for everything derived from one password
and sent together (two verifiers, `S_Pwd`, `MkWrapPwd`), `rk` for what is
derived from one recovery key; each has a fresh number because it holds fresh
salts. The KDF mode is a column of its own because it has few values and may
therefore "not have changed". `Put` is the change tracker: a column is written
only if the copy differs from what was read. A handler reads once (`Login`,
`GetWraps`, `ChangePassword`, `GetRecoveryWraps`, `Recover`) and saves once
(`SaveFailure`, `SaveUnlock`, `SaveChange`, `SaveRecovery`). Whether the
verifier that was sent matches is an input. `failed` is history: the failures saved since
the last success or lock.

### CryptoWorker

One tab and its worker. `op[o]` is an operation of the tab: what it waits for
(a request or a read of IndexedDB before it asks the worker, an answer of the
worker, the login request, the disk, the page load that ends a logout), for which account, and whether the secret it was given is right.
`inbox` and `outbox` are the two directions of `postMessage`. `job[o]` is the
handler that serves the message of `o`, stopped at an `await`; the worker takes
messages in order, and its handlers interleave. A vault key is named by the
account whose master key it comes from, a base key by the account whose salt
went into it and by whether the password was right; unwrapping is
authenticated encryption and succeeds for the matching pair only.

| code | actions |
|---|---|
| `SessionService.login`, `buildLogin`, `finalizeLogin` | `Login`, `PreLoginAnswered`, `LoginAnswered`, `BundleSaved`; any rejection runs the `catch` that clears the state (`Reject`) |
| `unlock`, `unlockViaPasscode` | `Unlock`, `BundleRead`, `AccountIdRead`; `UnlockViaPasscode`, `AccountIdRead`, `PasscodeRead` |
| `lock`, `logout`, `clearKeys`, `terminate` | `Lock`, `Logout`, `Terminate`, `Leave` |
| `encryptEntry`, `decryptEntry` | `UseEntry` |
| `worker.onmessage`, the 60 s time-out, `worker.onerror` | `Receive`, `TimeOut`, `Crash` |
| message handlers of the worker | `Take` runs one to its first `await`; `Derive`, `Prove`, `Unwrap` go on |
| the shell's `*ngIf`, page loads, other tabs | `Remount`, `Load`, `OtherTab` |

`buildLogin` and `unlock` set `isWorking`, which the model calls `busy`;
passcode unlock and entries do not. A logout terminates the worker, and the next
message creates a fresh one. So an operation that had asked the worker before
brings no key back, while one that still waits for pre-login or IndexedDB
(`Preparing`) posts to the fresh worker, and there is a key until the page is
left: `left`, and with it `LogoutForgets`, lasts to the next first message.
`scene` is chosen at the start and says which accounts and operations there are
and what may happen to them (`scene.may`): forms that are left, crashes, requests
that fail, time-outs, other tabs.

### EntryStore and VaultEntries

`EntryStore` is what the vault's endpoints promise: a request takes effect at
one moment between its arrival and its answer, or not at all, on entries of
its own account. `VaultEntries` is `VaultService.cs` round trip by round trip:
`Check` and `Insert` of a creation, `Read` and `Save` of an update, `Delete`,
`Get` and `List` of one statement each, `Answer`, and `Fail` for a round trip
that throws. The save of an update names the primary key alone, and fails if
the row is gone. A list is cut off at `PageSize` entries (`take`, 200); the code
shows the entries changed last, the modules any that fill a page. Entry ids are GUIDs from `PreCreate`; a client creates an
entry under an id it was given, and may ask for any id.

### VaultRecords

The list of decrypted records of one tab over an `INSTANCE` of `EntryStore`,
which the API implements. A task `t` is an `async` function under way: `pc[t]`
is the `await` it stands at, `job[t]` the call it makes, `kept[t]` its local
`decryptedRecords` or `previous`.

| code | actions |
|---|---|
| `loadRecords`, from the dashboard's effect | `Open`, `Serve`, `Listed` or `LoadFailed`, `DecryptEntry`, `Loaded` |
| `addRecord`, `updateRecord` in `handleSave` | `AddRecord`, `PreCreate`, `UpdateRecord`, `Encrypt`, `Serve`, `Saved`; `SaveFailed` loads again |
| `deleteRecord` | `DeleteRecord` removes and asks, `Deleted`; `DeleteFailed` rolls back |
| `lock` | `Lock` |

`LoadFailed`, `SaveFailed` and `DeleteFailed` do not look at the answer, so
one that was lost after the call took effect is among their cases. A call
that its client gave up is not served later. The client lists once, so a vault
that does not fit on one page is shown in part; `CutOff` puts that into `doubt`. Logging out, and the lock that
leaves the key in a busy worker, belong to `CryptoWorker`.

### TabRefresh

The tabs of one browser, `v_ref` and the cookie. `pc[t]` is what the request or
the refresh of tab `t` waits for: the look at the lock (`check`), its setting
and the request (`post`), the answer (`posted`, `answered`), the delay before a
retry, the answer to a request (`sent`, repeated: `resent`) or to a login (`login`).
Living session rows
have names; of one that has ended a reference says only how.

| code | actions |
|---|---|
| `AuthApiService.refresh` | `CheckLock`, `Post`, `RefreshAnswered`, `Retry`; `RefreshFailed` ends in `finalize`, which is `Unlock` |
| `AuthController.Refresh`, `RotateAsync`, `OnTokenValidated` | `ServeRefresh`; `Refuse` for the access tokens of ended rows |
| `authInterceptor` | `RequestAnswered` (a first 401 starts a refresh, `MayRepeat`), `RefreshAnswered` repeats the request |
| `tryRestore`, `verifySession`, `logout` | `Open`, `Send`, `EndRequest`, `Logout`, `Leave` |
| `login` | `Login` is accepted and has a row, `LoginAnswered` brings the cookie, `LoginFails` is the `catch`, which sends a logout |
| `AuthController.Logout` | `RevokeCookie`, of the cookie of the moment |
| network, page, clock | `Lose`, `Close`, `Tick` |

`luck` is history: `good` until a logout begins or a login fails (`ended`), or until something
happens that the lock does not protect from (`bad`): two tabs read the lock
before either sets it; a tab's refresh ends, with whatever answer, and removes
the lock another tab holds; the lock runs out before the answer; the page is
closed during its refresh, or the answer is lost. Then tabs do harm one another: the
409 of one deletes the cookie another's rotation has just set, and the next
refresh ends in a logout. Other things the model shows and no document
denies: a refresh of one tab ends the access tokens of the others, which then
refresh in turn; an `/auth/me` that fails for any reason, also the network, logs
the tab out, and the logout revokes the cookie of all tabs; a login that
fails in one tab sends a logout, which revokes the session another tab has begun
meanwhile; a request refused for a wrong admin password is sent twice. A login may
be made and answered at any time; it sets `luck` right again if its row still lives
and no refresh and no logout is under way.

### KeyLadder

What opens what. A password key is named by the password, salt and grade it was
derived from, a wrap by the key and account that open it and the master key in
it, and what is chosen together shares one number. `row` is the user row of the
server, `bundle`, `last` and `pin` what the device stores, `cookie` the account
of the session, `acc[t]` and `token[t]` the account a tab believes in and the
one its access token is for. `flow[t]` is the operation of tab `t`, stopped at an
`await`.

| code | actions |
|---|---|
| `login`, `unlock` without a bundle | `StartLogin`, `UnlockByLogin`, `PreLogin`, `LoginAnswered`, `Finalize`, `LoggedIn`, `LoginFails` |
| `register` of session and auth page | `StartRegister`, `BuildRegister`, `ServeRegister`, `RegisterAnswered`, then the login; `NewAccountId` |
| `finishPasscodeSetup`, `togglePasscode` | `StartPinSetup`, `GetWraps`, `ActivatePasscode`, `DisablePasscode` |
| `updateMasterKey` | `StartRekey`, `GetWraps`, `ExecuteRekey`, `ChangePassword`, `ClearBundle`, `ClearPin`; `Regrade` |
| `onRecover`, `recover` | `StartRecover`, `GetRecoveryWraps`, `DeriveRecovery`, `ServeRecover`, `RecoverAnswered` |
| `logout`, `wipeDevice`, `clearUserData` | `StartLogout`, `StartWipe`, `ClearState`, `WipeBundle`, `WipePin`, `WipeLastId`, `Leave` |
| errors, page loads, another device | `FlowFails`, `Load`, `Elsewhere` |

A request is authorised for the account of the tab's token or, after the
interceptor's refresh, of the cookie. The properties name what they leave out:
`mixed` records that two accounts were used at once or a login was cut off
before bundle and last id were both stored, `calm` that a wipe met nothing that
awaited the server, `scene.touch` a user who changes the form while it works.
Two consequences are worth knowing. A user who selects another grade while the
password is being changed locks the account (run `KeysMode`). And after a
change of password made on another device the stored bundle still unlocks with
the old password and the passcode still works until the next login, as both
open to the same master key.

### InactivityTimer, VaultDashboard, UnlockedTab

`InactivityTimer` is `SessionTimerService` in whole seconds: `target`, the tick
that is off, on or due, and the vault that is locked, open or being locked.
`Use` is an input event, `Tick` the timer, `SetTimeout` the settings; `Unlock`
and `Register` differ in `reset()`. During `Sleep` time passes and nothing runs;
after `Wake` the overdue tick and the input that woke the computer come in any
order.

`VaultDashboard` extends it with what the dashboard shows. `Click` is a click on
a card that `verifySession` lets pass, `ClickAndWait` and `Verified` one that
waits for the server; `Reveal`, `Edit` and `Delete` are what follows. `form` is
the record the editor's fields were filled from. The list may change at any
time (`ListChanges`), since `VaultRecords` says how it does.

`UnlockedTab` composes the two: a lock or logout blanks the page (`Locked`), and
everything that was under way goes on. A scene lets the clock run or uses the
dashboard at one moment; the product would only repeat each.

`crossed` names the case in which a form is saved over another record: of two
edit clicks that passed `verifySession` at different times the second finds an
open editor, changes `editingRecord` and leaves the fields. A save under way has
a name (`SaveIds`), as a double click starts two that are alike. Other facts the
models contain: registration starts the tracker with the target of an earlier
session on the page and may lock at once; a double click on Save saves twice; a
save that fails closes whichever editor is open by then. None contradicts a
document of the repository.

## 4. What TLC checks

| run | instance | shows |
|---|---|---|
| `SessionsConcurrent` | 1 account, 3 tokens, 2 requests, failures | types; a predecessor is revoked, of the same account and was unexpired (`LineageIsSound`); the replay alarm is never false (`AlarmIsGenuine`); every step is a step of `TokenLifecycle` |
| `SessionsLive` | 1 account, 2 tokens, 2 requests, fairness | a session lives only under credentials that are current unless a request read older ones; a rotation is of a living token unless its copy was out of date (`StrictUnlessStale`); what a change, recovery or logout-all is about to revoke does end |
| `SessionsRenewed` | violation of `NoRenewalAcrossRevokeAll` | a refresh in flight survives a logout-all |
| `CredentialsConcurrent` | 2 requests, `MaxFails` 2 | types; replaced credentials never return; only a matching proof outside a lock replaces them; until a stale copy is saved, mode and verifiers belong together, the last allowed failure locks, and a lock is not cut short |
| `CredentialsMixed` | violation of `KdfMatchesSalt` | two concurrent changes mix their columns |
| `WorkerTab` | four scenes, fairness: 2 accounts, 3 operations, forms wait and nothing fails; 2 accounts, 2 operations with forms left and crashes; 1 account with these and failures; 1 account and everything | an unlocked tab has its account's key, a locked tab none, once everything under way has ended; only an operation with the right secret unlocks the tab; the busy flag is exact; from a logout to the next first message there is no key; every operation ends |
| `EntriesConcurrent` | 2 accounts, 3 ids, 2 payloads, 2 requests, pages of 2 | `VaultEntries` implements `EntryStore` |
| `RecordsTab` | 2 operations, 2 ids, 2 payloads, pages of 1, failures, locks | the list shows what the server has once all operations have ended, unless `doubt` says why not (`ListMatchesStore`); the spinner stands for a load |
| `TabsShare` | 2 tabs, 4 living rows, 2 retries, fairness | the lock keeps refreshes apart and the session survives, except where `luck` says why not; every refresh and request ends |
| `KeysDevice` | 6 scenes of 1 or 2 accounts in 1 or 2 tabs, up to 3 choices of credentials | password, recovery key, bundle and passcode open the account's master key; the device follows the session; a wipe leaves nothing |
| `KeysMode` | violation of `AcceptedPasswordOpens` | a grade selected while the password is being changed is stored with keys of another |
| `ScreenTab` | 2 scenes; 2 timeouts and 8 seconds; 2 records, 2 saves under way | an idle vault locks in time and no earlier; a locked screen is blank; a form is saved where it came from; a revealed password is hidden |

Bounds. Two requests are enough for every pairwise race of the code, three
tokens for a token, its successor and the successor of either; two accounts
for one to hit the other (in the sessions the theorems cover that). `Grace` 1 and `Ttl` 2 with a clock up to 2 or 3 put the
runs of the sessions before, at and after both limits; `LockFor` 2 with
`MaxTime` 3 lets a lock run out at the last tick. `MaxFails` 2 stands for 7: the
policy only compares with it. `MaxCred` and `MaxIssued` bound the changes of
credentials, `TokenLeft` and `ChangeLeft` keep a request from starting when the
pool has nothing left for it. Three operations of a tab let a login, an unlock
and a lock or logout overlap in the worker; an operation that was given up keeps
its slot while the worker works on it. Two operations of a tab are every pair of
load, save and deletion, two ids the entry of a deletion and another that
changes beside it. Two requests on entries are every pair of handlers, and the
theorem covers any number. With three ids and pages of two a list is cut off and
still shows more than one entry; `RecordsTab` has pages of one for its two ids. In `TabsShare` four names are enough for the rows that two tabs
refer to in the states it reaches: one is always unused (`Unused` is the bound on
the pool). Names are used again, so that run has no bound on the number of
refreshes and logins. In `KeysDevice` each scene bounds the choices of credentials (`max`); three are a registration and two changes, so that a copy
can be two changes old. In `ScreenTab` eight seconds hold two whole sessions
with the longest timeout, and two records a click on one while the other is
open. With the clock or the pools used up the system stops, so deadlock is not
checked in the runs of the sessions, credentials and keys: what runs there never
waits for another. It is checked in the others.

Fairness. `FairSpec` asks weak fairness of the next step of each running
request and of nothing else: ASP.NET runs an accepted request to its end. It
is used with `MayFail = FALSE`; with failures a request may end before its
`RevokeAllAsync` and the old sessions remain until they expire. `FairSpec` of
`CryptoWorker` asks it of the two event loops, of the handlers, and of the
answers of network and disk, which settle or fail. `FairSpec` of `TabRefresh`
asks it of the tabs' next steps, which include the server's answer, and of the
clock: a browser gives up a request, and a delay is a timer.

What holds only under a condition. Requests on one account that overlap lose
more than the two runs of violations show, and the properties that a stale copy
breaks say so. `SessionsMatchCredentials` leaves out sessions that descend from
a request which had read before a revocation and saved after it, and
`StrictUnlessStale` steps taken while a copy is out of date. For credentials
`stale` records that a request saved a copy another request had changed since,
after which a mode can stand beside the wrong verifiers, a failure can be lost
and a late success can lift a lock. `UnlockedHasKey` and `LockedHoldsNoKey` are
asked of the calm scene, in which forms wait for their operations: with
"remount" a second passcode, sent from an overlay that was created again, drops
the key the first one has just stored, and a lock is not sent to a worker that
is busy; with "crash" a tab whose worker crashed still shows an unlocked vault;
with "timeout" the worker may store a key after a lock. `LogoutForgets` ends with
the next first message, as section 3 says. `OnlyRightSecretUnlocks`
needs that no time-out happens: a right password whose operation was given up
may be the base key that a later attempt unwraps with. The conditions of
`TabRefresh`, `KeyLadder` and `UnlockedTab` are `luck`, `mixed`, `calm`, `touch`
and `crossed` (section 3).

`ListMatchesStore` carries the history variable `doubt`: a load beside a
change, two changes of one entry, a deletion that fails after the list has
changed, a lost answer of a deletion and a load that failed in part can leave
the list and the server apart, and a load that starts with nothing else under
way ends that; a load of more entries than fit on a page leaves them apart as well,
and another load does not help. Two loads overlap when the page is left and opened again; the
first to end takes the spinner away, and what the user changes then can be
overwritten by the second.

Disagreements between code and documents. Three runs end in a violation, described in
the table. A fourth concerns the replay alarm: `docs/auth.md:317` says of a refresh
token that is "found but already revoked" that the server revokes all other tokens of
the account, whatever revoked it. `RefreshAsync` does so for the reason `Regular`
alone, that is for a token which was exchanged, and `AlarmIsGenuine` states what the code
does; with the document's condition (the mutant `AnyRevoked`) it is violated. A token
revoked by a logout, a logout everywhere, a change of password or a replay is
refused without further consequence.

## 5. What is proved

`AuthSessionsProofs`, for all sets of accounts, tokens and request slots and
all values of `Grace` and `Ttl`:
`TypeCorrect`, `LineageSound`, `AlarmGenuine` and `LifecycleImplemented`
(`Spec => ImplementsLifecycle`). They rest on `Invariance`: the three
invariants alone are not inductive, because a slot that holds a stale copy can
write it at any time. `Inv` adds what every slot knows about the row it has
read (it belongs to the same account and has the same expiry; if the copy says
it was exchanged, a successor exists) and that rows only move forward
(`ForwardStep`). The refinement follows: the steps that leave every token's
liveness alone are stutters, the others are `Open`, `Rotate` and `Close`.
`OneTimeUse` (`Spec => StrictUnlessStale`) is the same argument with the copies
current: then the row that `RotateLive` saves is alive.

`SessionsMatch` (`Spec => []SessionsMatchCredentials`) has the hypothesis
`MayFail = FALSE` and needs it: a request that dies between saving new
credentials and revoking leaves the old sessions alive. `CredInv` adds to `Inv`
that a login about to mint knows the current credentials or is no longer fresh,
and a rotation those of its token. The property speaks of the line a token
descends by; `Unbroken` says that as the existence of a set of fresh tokens
closed under parents, which a new token extends and a `RevokeAll` can only
shrink, so no induction over the line is needed.

`SequentialLifecycle`, `SequentialRevocation` and `SequentialSessionsMatch` say
what overlap costs. In a behaviour in which no two requests are under way at once
(`[]Sequential`; there may be any number one after the other, and any of them may
die, except in the last theorem) the store implements `TokenLifecycle` with one-time
use, `NoRenewalAcrossRevokeAll`, the property that `SessionsRenewed` refutes, holds,
and every living session has the credentials of now, without the exception that
`SessionsMatchCredentials` makes. `SeqInv` says that then the one copy there is
is the row, and that no living token was read before a `RevokeAll`.

`UserCredentialsProofs`: every property of `CredentialsConcurrent`, for any
number of requests, failure limit and lockout duration. `TypeCorrect` (which
includes that the failure counter stays below `MaxFails`), `CredentialsAdvance`
and `ProofNeeded` rest on `Inv`: no copy holds a bundle newer than the row's and
no row one that was not issued. `ModeKept`, `FailuresLock` and `LockHolds` rest
on `SInv`, which adds what a history without stale saves leaves in the row, and
that a lock ends at most `LockFor` after the failure that set it: that is why
a later failure never shortens it. `SequentialCopies`: without overlap no stale
copy is ever saved, so that mode and verifiers always belong together
(`SequentialMode`, about the property that `CredentialsMixed` refutes) and
`MaxFails` failures in a row always lock (`SequentialLock`).

`VaultEntriesProofs`: `TypeCorrect` and `StoreImplemented`
(`Spec => ImplementsEntryStore`). The invariant adds to the types that each
slot's round trip agrees with its request, that a row belongs to the account
its id was issued to, and that a request about to save an update was issued
the id it writes; without the last two the save could reach a row of another
account.

`VaultRecordsProofs`: every property of `RecordsTab`, for any number of
operations, entries and payloads. `SpinnerEnds`: which load the spinner stands
for changes while loads overlap, so the invariant is the property with the
domains of `pc` and `job`; a task that is not loading cannot end the last load,
and each end of a load resets the spinner. `TypeCorrect` needs what each `await`
has in its hands (`Stages`). `ListMatches` rests on `SureInv`, which says what
the list is while operations are under way: as long as there is no doubt, loads
and changes do not overlap, a load holds parts of the server's list that add up
to it (`Loaders`), every change accounts for the difference of its own entry
(`Creates`, `Updates`, `Deletes`) and all other entries agree (`InStep`). `Without`,
the filter of `deleteRecord`, is a recursive function; what it returns is proved
for every list from the least number at which it could fail (`LeastNumber`).

`TabRefreshProofs`, for any number of tabs and retries and any life time of the
lock. `LockExcludes` (`Spec => []RefreshesExclude`): that at most one refresh is
under way is not inductive by itself; `LockInv` adds that its lock is then held
and that a tab which has found the lock free found no refresh under way. A step
either leaves the places that matter alone (`Quits`, with the lock removed only
when nobody else needs it) or is one of `CheckLock`, `Post`, `ServeRefresh` and
`Tick`. `SessionStays` (`Spec => []SessionSurvives`) adds where the living token is
during a refresh: the refresh that is posted has sent one, the cookie is one still,
the same or that of a login since, and once it is served its answer is the next
(`GoodInv`); and that the answer to a login names a row (`Logins`). No theorem needs a size for the pool of names. `PoolSuffices` says
when its bound is none: with finitely many tabs and more than 3 names per tab and
one there always is an unused one, so that no refresh or login waits for a name.

`CryptoWorkerProofs`, for all accounts, operations and scenes: every safety
property of `WorkerTab`. `Inv` says that an operation is at one place only, asked,
handled or answered (`Slots`), that it waits for what the worker does for it or
was given up (`Matching`), and which secrets can be where (`Secrets`); that gives
`TypeCorrect`, `BusyAccurate`, `Forgets` (`Forgotten`: after a logout the
worker has no key, no base key and no handler, and a login that waited for the server
finds its base key gone) and `RightSecretUnlocks`.
`UnlockedOpens`
and `LockedForgets` rest on `CalmInv`, for the calm scene: locks are ahead of the
form's operation in both queues (`CalmOrder`), and where the key is at each
moment between an unlock and the end of a lock (`CalmKey`).

`KeyLadderProofs`, for any number of accounts, tabs, grades and choices and any
scene: every property of `KeysDevice`. `Inv` collects every wrap there is, in the
rows, in the bundle and in the hands of operations. Each holds the master key
of its account (`WrapsSound`), wraps of two accounts never share a salt
(`SaltsApart`) and a choice the server does not know yet has a salt of its own
(`SaltsNew`): that is why the verifier of a stale bundle can match only a row
of its own account, and why a change of password overlapping a recovery,
another change or another account stores nothing wrong. From it come
`TypeCorrect`, `PasswordOpens`, `RecoveryOpens` and `StoredOpens`.
`WipeComplete` rests on `WipeInv` (a wipe that stayed calm found no operation
that could store something behind it, and has taken away what lies before it),
`DeviceFollows` on `FollowInv`: until accounts are mixed at most one is in use,
by a tab, by the cookie or by a login about to be stored, and the device names
it as soon as nothing is left to be stored.

`UnlockedTabProofs`: every property of `ScreenTab`, for all timeouts, margins,
sets of records and numbers of saves. `TabImplementsTimer` shows that the
composition takes only steps of `InactivityTimer`; `IdleLocked` and `LockDue`
follow from `TimerInv`: the target of an open vault is the deadline of its last
use, and a tick that has run since found it in the future. `RevealsBounded`
rests on `RevealInv`, `SavesRight` on `FormInv` (the open form is that of the
record it will update) and the types of what waits (`WaitInv`), `LockedIsBlank`
on `BlankInv`: at a lock not only is the page cleared, but what waits is
detached from it, so that its answer finds nothing to change.

Assumptions: `ConstAssumption` of each module, `PageAssumption`, `LadderAssumption`,
`TimerAssumption` and `DashboardAssumption`, evaluated by TLC on every run. They say
that constants are of their kinds and that `None` is none of the values it stands
beside. Hypotheses of single theorems are `MayFail = FALSE`,
`[]Sequential` and, for `PoolSuffices` alone, `Enough`, above.

Only model-checked: the liveness properties `RevocationCompletes`, `OpsEnd` and
`RequestsEnd`, as liveness under fairness is out of the prover's reach, and the
three violations, which are counterexamples. Every invariant and every other action
property a passing run checks is proved.
