---------------------------- MODULE AuthSessions ----------------------------
(***************************************************************************)
(* The refresh-token sessions of the Vaulton API: the RefreshTokens table  *)
(* and the requests that read and write it (RefreshTokenStore.cs, the      *)
(* session half of AuthService.cs, and the access-token check of           *)
(* Program.cs).                                                            *)
(*                                                                         *)
(* Every request is served by its own DbContext.  A handler reads a row,   *)
(* keeps the tracked copy, decides on it, and writes it back at the next   *)
(* SaveChanges; nothing locks the row in between and no column is a        *)
(* concurrency token.  A handler is therefore one action per database      *)
(* round trip, and requests interleave between those actions.  EF Core     *)
(* answers a second query for a tracked row with the tracked copy, so      *)
(* RotateAsync decides on the row GetUserIdByTokenAsync read.              *)
(*                                                                         *)
(* An access token carries a jti whose hash sits in the row minted with    *)
(* it, so a token of Tokens stands for a refresh token, its row and the    *)
(* access token handed out with it.                                        *)
(***************************************************************************)
EXTENDS Integers, FiniteSets

CONSTANTS
    Accounts,   \* account identifiers
    Tokens,     \* the pool of refresh tokens that can be minted (a bound)
    Reqs,       \* concurrent request slots (a bound)
    Grace,      \* the 5 s within which a replay is taken for a race
    Ttl,        \* RefreshTtl, 7 days
    MaxTime,    \* bound on the clock
    MaxCred,    \* bound on the number of credential changes
    MayFail,    \* whether a request may die between two round trips
    None        \* SQL NULL, and "no row"

VARIABLES
    rows,   \* rows[t]: the row of token t, None until it is minted
    cred,   \* cred[a]: version of the verifiers stored for account a
    clock,  \* DateTime.UtcNow
    pc,     \* pc[r]: the round trip request r performs next
    acct,   \* acct[r]: the account request r works for
    tok,    \* tok[r]: the token presented to request r
    snap,   \* snap[r]: the row tracked by the DbContext of r, as read
    at,     \* at[r]: the local "now" of r
    hist,   \* history: where token t came from
    seen    \* history: what the first read of request r found

dbVars  == <<rows, cred>>
reqVars == <<pc, acct, tok, snap, at>>
ghosts  == <<hist, seen>>
vars    == <<rows, cred, clock, pc, acct, tok, snap, at, hist, seen>>

Reasons == {"Regular", "Security"}

Row == [user : Accounts, expiresAt : Nat,
        revokedAt : Nat \cup {None}, reason : Reasons \cup {None}]

Steps == {"idle", "mint", "rotate", "revoke", "verify", "save", "revokeAll"}

(* parent: the token this one was exchanged for; cred: the credentials of  *)
(* the login it descends from; fresh: no RevokeAll of the account has run  *)
(* since the request that made it read the database.                       *)
History == [parent : Tokens \cup {None}, cred : Nat, fresh : BOOLEAN]
Seen    == [cred : Nat, fresh : BOOLEAN]

Unseen == [cred |-> 0, fresh |-> TRUE]

ASSUME ConstAssumption ==
    /\ Grace \in Nat /\ Ttl \in Nat /\ MaxTime \in Nat /\ MaxCred \in Nat
    /\ MayFail \in BOOLEAN
    /\ None \notin Nat \cup Tokens \cup Accounts \cup Reasons \cup Row \cup History

(* A row that RevokeAll and the jti check would match, expiry aside.       *)
Live(t) == rows[t] # None /\ rows[t].revokedAt = None

(* OnTokenValidated: the access token minted with t is accepted now.       *)
Accepted(t) == Live(t) /\ rows[t].expiresAt > clock

(* Mutant: the reason is set, the time is not.                             *)
RevokedInNameOnly(row, now, why) == [row EXCEPT !.reason = why]

Revoked(row, now, why) == [row EXCEPT !.revokedAt = now, !.reason = why]

(* Mutant: the expiry is left NULL.                                        *)
NewRowWithoutExpiry(a, now) ==
    [user |-> a, expiresAt |-> None, revokedAt |-> None, reason |-> None]

NewRow(a, now) ==
    [user |-> a, expiresAt |-> now + Ttl, revokedAt |-> None, reason |-> None]

Free == {t \in Tokens : rows[t] = None}

(* Bound: a request that may mint starts only if a token is left for it,   *)
(* and one that may change the credentials only if a change is left.       *)
TokenLeft == Cardinality({r \in Reqs : pc[r] \in {"mint", "rotate"}})
                < Cardinality(Free)

ChangeLeft(a) ==
    cred[a] + Cardinality({r \in Reqs : acct[r] = a /\ pc[r] \in {"verify", "save"}})
        < MaxCred

Init ==
    /\ rows = [t \in Tokens |-> None]
    /\ cred = [a \in Accounts |-> 0]
    /\ clock = 0
    /\ pc = [r \in Reqs |-> "idle"]
    /\ acct = [r \in Reqs |-> None]
    /\ tok = [r \in Reqs |-> None]
    /\ snap = [r \in Reqs |-> None]
    /\ at = [r \in Reqs |-> 0]
    /\ hist = [t \in Tokens |-> None]
    /\ seen = [r \in Reqs |-> Unseen]

-----------------------------------------------------------------------------
(* How a request slot starts, moves on and ends.                           *)

Begin(r, step, a, t, row, c) ==
    /\ pc' = [pc EXCEPT ![r] = step]
    /\ acct' = [acct EXCEPT ![r] = a]
    /\ tok' = [tok EXCEPT ![r] = t]
    /\ snap' = [snap EXCEPT ![r] = row]
    /\ at' = [at EXCEPT ![r] = clock]
    /\ seen' = [seen EXCEPT ![r] = [cred |-> c, fresh |-> TRUE]]

Goto(r, step) ==
    /\ pc' = [pc EXCEPT ![r] = step]
    /\ UNCHANGED <<acct, tok, snap, at, seen>>

(* The locals of a finished request are garbage; they are cleared so that  *)
(* equal futures are equal states.                                         *)
Clear(r) ==
    /\ pc' = [pc EXCEPT ![r] = "idle"]
    /\ acct' = [acct EXCEPT ![r] = None]
    /\ tok' = [tok EXCEPT ![r] = None]
    /\ snap' = [snap EXCEPT ![r] = None]
    /\ at' = [at EXCEPT ![r] = 0]

Finish(r) ==
    /\ Clear(r)
    /\ seen' = [seen EXCEPT ![r] = Unseen]

-----------------------------------------------------------------------------
(* LoginAsync: the user row is read and the verifier matches; MintAsync's  *)
(* SaveChanges then inserts the row.  Failed logins are UserCredentials'.  *)

Login(r, a) ==
    /\ pc[r] = "idle"
    /\ TokenLeft
    /\ Begin(r, "mint", a, None, None, cred[a])
    /\ UNCHANGED <<rows, cred, clock, hist>>

Mint(r) ==
    /\ pc[r] = "mint"
    /\ \E n \in Free :
          /\ rows' = [rows EXCEPT ![n] = NewRow(acct[r], at[r])]
          /\ hist' = [hist EXCEPT ![n] =
                        [parent |-> None, cred |-> seen[r].cred,
                         fresh |-> seen[r].fresh]]
    /\ Finish(r)
    /\ UNCHANGED <<cred, clock>>

-----------------------------------------------------------------------------
(* RefreshAsync: GetUserIdByTokenAsync reads (and tracks) the row;         *)
(* RotateAsync decides on the tracked copy and saves.  An unknown token is *)
(* answered 401 and changes nothing.                                       *)

Refresh(r, t) ==
    /\ pc[r] = "idle"
    /\ rows[t] # None
    /\ Live(t) => TokenLeft
    /\ Begin(r, "rotate", rows[t].user, t, rows[t], hist[t].cred)
    /\ UNCHANGED <<rows, cred, clock, hist>>

ExpiredLate(r) == snap[r].expiresAt < at[r]         \* mutant: off by one
Expired(r)     == snap[r].expiresAt <= at[r]

Recent(r) == at[r] - snap[r].revokedAt < Grace

AnyRevoked(r) == snap[r].revokedAt # None           \* mutant: any reason
Replayed(r)   == snap[r].reason = "Regular"

(* Mutant: a race within the grace period gets a token of its own.         *)
UnrevokedOrRecent(r) == snap[r].revokedAt # None => Recent(r)
Unrevoked(r)         == snap[r].revokedAt = None

RotateExpired(r) ==
    /\ pc[r] = "rotate"
    /\ Expired(r)
    /\ Finish(r)
    /\ UNCHANGED <<rows, cred, clock, hist>>

(* RecentlyRevoked: the replay moves RevokedAt to its own now.  EF writes  *)
(* the column only if that differs from the value that was read.           *)
RotateRecentlyRevoked(r) ==
    /\ pc[r] = "rotate"
    /\ ~Expired(r)
    /\ ~Unrevoked(r)
    /\ Recent(r)
    /\ rows' = IF at[r] = snap[r].revokedAt THEN rows
               ELSE [rows EXCEPT ![tok[r]] =
                        [rows[tok[r]] EXCEPT !.revokedAt = at[r]]]
    /\ Finish(r)
    /\ UNCHANGED <<cred, clock, hist>>

(* Revoked: RefreshAsync answers a replay of a rotated token with          *)
(* RevokeAllAsync, and any other revoked token with 401 alone.             *)
RotateRevoked(r) ==
    /\ pc[r] = "rotate"
    /\ ~Expired(r)
    /\ ~Unrevoked(r)
    /\ ~Recent(r)
    /\ IF Replayed(r) THEN Goto(r, "revokeAll") ELSE Finish(r)
    /\ UNCHANGED <<rows, cred, clock, hist>>

(* Rotated: the update of the old row and the insert of the new one are    *)
(* one transaction.                                                        *)
RotateLive(r) ==
    /\ pc[r] = "rotate"
    /\ ~Expired(r)
    /\ Unrevoked(r)
    /\ \E n \in Free :
          /\ rows' = [rows EXCEPT
                        ![tok[r]] = Revoked(rows[tok[r]], at[r], "Regular"),
                        ![n] = NewRow(snap[r].user, at[r])]
          /\ hist' = [hist EXCEPT ![n] =
                        [parent |-> tok[r], cred |-> seen[r].cred,
                         fresh |-> seen[r].fresh]]
    /\ Finish(r)
    /\ UNCHANGED <<cred, clock>>

-----------------------------------------------------------------------------
(* LogoutAsync: RevokeAsync finds the row unrevoked, then saves it.  It    *)
(* changes nothing when there is no such row.                              *)

Logout(r, t) ==
    /\ pc[r] = "idle"
    /\ Live(t)
    /\ Begin(r, "revoke", rows[t].user, t, rows[t], hist[t].cred)
    /\ UNCHANGED <<rows, cred, clock, hist>>

Revoke(r) ==
    /\ pc[r] = "revoke"
    /\ rows' = [rows EXCEPT ![tok[r]] = Revoked(rows[tok[r]], at[r], "Security")]
    /\ Finish(r)
    /\ UNCHANGED <<cred, clock, hist>>

(* LogoutAllAsync behind [Authorize]; the caller shows the access token    *)
(* minted with t.                                                          *)
LogoutAll(r, t) ==
    /\ pc[r] = "idle"
    /\ Accepted(t)
    /\ Begin(r, "revokeAll", rows[t].user, t, None, hist[t].cred)
    /\ UNCHANGED <<rows, cred, clock, hist>>

(* RevokeAllAsync is one UPDATE ... WHERE UserId = a AND RevokedAt IS NULL. *)
HitOthers(r, t)  == Live(t) /\ rows[t].user = acct[r] /\ t # tok[r]   \* mutant
Hit(r, t)        == Live(t) /\ rows[t].user = acct[r]

RevokeAll(r) ==
    /\ pc[r] = "revokeAll"
    /\ rows' = [t \in Tokens |->
                  IF Hit(r, t) THEN Revoked(rows[t], at[r], "Security")
                  ELSE rows[t]]
    /\ hist' = [t \in Tokens |->
                  IF rows[t] # None /\ rows[t].user = acct[r]
                  THEN [hist[t] EXCEPT !.fresh = FALSE] ELSE hist[t]]
    /\ seen' = [q \in Reqs |->
                  IF q = r THEN Unseen
                  ELSE IF acct[q] = acct[r]
                  THEN [seen[q] EXCEPT !.fresh = FALSE] ELSE seen[q]]
    /\ Clear(r)
    /\ UNCHANGED <<cred, clock>>

-----------------------------------------------------------------------------
(* ChangePasswordAsync behind [Authorize]: the access token is checked,    *)
(* then the user row is read and the admin verifier matches, then the new  *)
(* verifiers are saved, then every session is revoked.                     *)

ChangePassword(r, t) ==
    /\ pc[r] = "idle"
    /\ Accepted(t)
    /\ ChangeLeft(rows[t].user)
    /\ Begin(r, "verify", rows[t].user, t, None, cred[rows[t].user])
    /\ UNCHANGED <<rows, cred, clock, hist>>

(* The caller knows the password of the moment it asked; a change in       *)
(* between makes its admin verifier wrong and the request a 401.           *)
Verify(r) ==
    /\ pc[r] = "verify"
    /\ IF cred[acct[r]] = seen[r].cred THEN Goto(r, "save") ELSE Finish(r)
    /\ UNCHANGED <<rows, cred, clock, hist>>

(* RecoverAsync: no access token; the recovery verifier matched on read.   *)
Recover(r, a) ==
    /\ pc[r] = "idle"
    /\ ChangeLeft(a)
    /\ Begin(r, "save", a, None, None, cred[a])
    /\ UNCHANGED <<rows, cred, clock, hist>>

(* Mutant: the sessions are left alone.                                    *)
SaveCredentialsOnly(r) ==
    /\ pc[r] = "save"
    /\ cred' = [cred EXCEPT ![acct[r]] = @ + 1]
    /\ Finish(r)
    /\ UNCHANGED <<rows, clock, hist>>

SaveCredentials(r) ==
    /\ pc[r] = "save"
    /\ cred' = [cred EXCEPT ![acct[r]] = @ + 1]
    /\ Goto(r, "revokeAll")
    /\ UNCHANGED <<rows, clock, hist>>

-----------------------------------------------------------------------------
(* A round trip throws, or the process dies: what was saved stays saved.   *)
Fail(r) ==
    /\ MayFail
    /\ pc[r] # "idle"
    /\ Finish(r)
    /\ UNCHANGED <<rows, cred, clock, hist>>

Tick ==
    /\ clock < MaxTime
    /\ clock' = clock + 1
    /\ UNCHANGED <<rows, cred, reqVars, ghosts>>

(* What a request in progress does next.                                   *)
Advance(r) ==
    \/ Mint(r) \/ RotateExpired(r) \/ RotateRecentlyRevoked(r)
    \/ RotateRevoked(r) \/ RotateLive(r) \/ Revoke(r) \/ RevokeAll(r)
    \/ Verify(r) \/ SaveCredentials(r)

Next ==
    \/ Tick
    \/ \E r \in Reqs :
          \/ Advance(r) \/ Fail(r)
          \/ \E a \in Accounts : Login(r, a) \/ Recover(r, a)
          \/ \E t \in Tokens : \/ Refresh(r, t) \/ Logout(r, t)
                               \/ LogoutAll(r, t) \/ ChangePassword(r, t)

Spec == Init /\ [][Next]_vars

(* ASP.NET runs every accepted request to its end.                         *)
FairSpec == Spec /\ \A r \in Reqs : WF_vars(Advance(r))

-----------------------------------------------------------------------------
(* Properties.                                                             *)

(* Every variable holds a value of its kind.                               *)
TypeOK ==
    /\ rows \in [Tokens -> Row \cup {None}]
    /\ cred \in [Accounts -> Nat]
    /\ clock \in Nat
    /\ pc \in [Reqs -> Steps]
    /\ acct \in [Reqs -> Accounts \cup {None}]
    /\ tok \in [Reqs -> Tokens \cup {None}]
    /\ snap \in [Reqs -> Row \cup {None}]
    /\ at \in [Reqs -> Nat]
    /\ hist \in [Tokens -> History \cup {None}]
    /\ seen \in [Reqs -> Seen]

(* A session never forks from thin air: the predecessor of a rotated token *)
(* is revoked from the moment its successor exists, belongs to the same    *)
(* account, and had not expired when the successor was made.  RotateAsync  *)
(* promises it by deciding before it writes and by writing both rows in    *)
(* one SaveChanges, whatever else happened to the row since it was read.   *)
LineageIsSound ==
    \A n \in Tokens : hist[n] # None /\ hist[n].parent # None =>
        LET p == hist[n].parent IN
        /\ rows[p] # None /\ rows[p].revokedAt # None
        /\ rows[p].user = rows[n].user
        /\ rows[n].expiresAt < rows[p].expiresAt + Ttl

(* A request that is about to revoke every session because a token was     *)
(* replayed read a token that really had been exchanged for another, in    *)
(* spite of the writes that may have overwritten its row since.  A token   *)
(* that a logout, a change or a replay revoked raises none, although       *)
(* docs/auth.md:317 says that any revoked token does.                      *)
AlarmIsGenuine ==
    \A r \in Reqs : pc[r] = "revokeAll" /\ snap[r] # None =>
        \E n \in Tokens : hist[n] # None /\ hist[n].parent = tok[r]

(* A token that RevokeAll revoked, or that existed before it, is not       *)
(* exchanged for a living one afterwards: a renewed session was obtained   *)
(* from a read made after the last RevokeAll of its account.               *)
(* docs/auth.md claims it of logout-all.                                   *)
NoRenewalAcrossRevokeAll ==
    \A t \in Tokens : Live(t) /\ hist[t].parent # None => hist[t].fresh

Changing(a) == \E r \in Reqs : acct[r] = a /\ pc[r] = "revokeAll"

(* No RevokeAll of the account has run since the request that made t read  *)
(* the database, nor since the one that made the token t was exchanged     *)
(* for, and so on back to the login.                                       *)
Unbroken(t) ==
    \E line \in SUBSET Tokens :
        /\ t \in line
        /\ \A n \in line : /\ hist[n] # None
                           /\ hist[n].fresh
                           /\ hist[n].parent \in line \cup {None}

(* Once a change of password or a recovery has returned, every living      *)
(* session descends from a login with the credentials it set, unless a     *)
(* request it owes to was under way while the sessions were revoked.       *)
SessionsMatchCredentials ==
    \A t \in Tokens :
        Live(t) /\ ~Changing(rows[t].user) /\ Unbroken(t)
            => hist[t].cred = cred[rows[t].user]

(* Once a change of password, a recovery or a logout everywhere has got as *)
(* far as its first write, every session of that moment ends, provided the *)
(* request is served to its end.                                           *)
RevocationCompletes ==
    \A r \in Reqs, t \in Tokens :
        (pc[r] \in {"save", "revokeAll"} /\ Live(t) /\ rows[t].user = acct[r])
            ~> ~Live(t)

-----------------------------------------------------------------------------
(* The abstract lifecycle this module implements.                          *)

Status ==
    [t \in Tokens |-> IF rows[t] = None THEN "unborn"
                      ELSE IF rows[t].revokedAt = None THEN "live" ELSE "dead"]

Owner == [t \in Tokens |-> IF rows[t] = None THEN None ELSE rows[t].user]

Origin == [t \in Tokens |-> IF hist[t] = None THEN None ELSE hist[t].parent]

Lifecycle == INSTANCE TokenLifecycle
    WITH status <- Status, owner <- Owner, origin <- Origin, Strict <- FALSE

StrictLifecycle == INSTANCE TokenLifecycle
    WITH status <- Status, owner <- Owner, origin <- Origin, Strict <- TRUE

(* However requests interleave and fail, each step of the store opens one  *)
(* session, exchanges one token for another, or revokes living tokens of   *)
(* one account; in particular no token ever lives again.                   *)
ImplementsLifecycle == Lifecycle!Spec

CopiesAreCurrent ==
    \A r \in Reqs : snap[r] # None => snap[r] = rows[tok[r]]

(* A token is exchanged at most once, and no session comes from a token    *)
(* that is not alive, in every step that finds the copies of all requests  *)
(* up to date: the grace period and its 409 never fork a session, only two *)
(* refreshes that overlap do.                                              *)
StrictUnlessStale ==
    [][CopiesAreCurrent => [StrictLifecycle!Next]_<<Status, Owner, Origin>>]_vars
=============================================================================
