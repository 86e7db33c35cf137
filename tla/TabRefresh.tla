----------------------------- MODULE TabRefresh -----------------------------
(***************************************************************************)
(* The session of one browser, shared by its tabs: AuthApiService.refresh  *)
(* with its lock in local storage and its retries, the interceptor that    *)
(* refreshes and repeats a request answered 401, SessionService's restore, *)
(* verification, login and logout, and the cookie jar.                     *)
(*                                                                         *)
(* An access token is named by the session row minted with it, as is the   *)
(* refresh token of the cookie; the server accepts it while the row lives, *)
(* so a refresh by one tab ends the access tokens of the others.  Of a row *)
(* that no longer lives only how it ended matters: what referred to it     *)
(* reads "rotated" or "closed" from then on, the cookie also "closed" when *)
(* there is none.  Requests of one tab that wait for its refresh share it, *)
(* and one stands for all.                                                 *)
(* The server serves one refresh at a time here: what overlapping ones do  *)
(* in the store is the concern of AuthSessions.                            *)
(***************************************************************************)
EXTENDS Naturals, FiniteSets

CONSTANTS
    Tabs,
    Tokens,         \* living session rows at one time (a bound)
    Retries,        \* retries of a refresh that was answered 409
    LockLife,       \* ticks for which v_ref is honoured
    None

VARIABLES
    \* tabs
    page,           \* "closed", "loading", "in", "out" or "leaving"
    pc,             \* what the tab's request or refresh waits for
    kind,           \* what for: "restore", "me" or "call"
    acc,            \* AuthStateService.accessToken, None also when refused
    tries,          \* retries left
    sent, got,      \* the cookie a refresh was posted with, and the answer
                    \* to a refresh or a login
    \* the browser
    lockAge,        \* age of v_ref; LockLife when absent or out of date
    cookie,
    \* history
    luck            \* "good"; "ended" once a tab logs out or fails to log in;
                    \* or "bad" once something happened that the lock does
                    \* not protect from

tabVars == <<page, pc, kind, acc, tries, sent, got>>
vars == <<tabVars, lockAge, cookie, luck>>

ASSUME ConstAssumption ==
    /\ Tokens # {}
    /\ Tokens \cap {None, "rotated", "closed", "409", "401"} = {}
    /\ Retries \in Nat /\ LockLife \in Nat \ {0}

InFlight == {t \in Tabs : pc[t] \in {"posted", "answered"}}

Init ==
    /\ page = [t \in Tabs |-> "closed"]
    /\ pc = [t \in Tabs |-> "idle"]
    /\ kind = [t \in Tabs |-> "call"]
    /\ acc = [t \in Tabs |-> None]
    /\ tries = [t \in Tabs |-> 0]
    /\ sent = [t \in Tabs |-> None] /\ got = [t \in Tabs |-> None]
    /\ lockAge = LockLife
    /\ cookie = CHOOSE tok \in Tokens : TRUE
    /\ luck = "good"

(* A row that nobody refers to is forgotten, and its name is free for the  *)
(* next one that is minted.  Bound: a row is minted only while there is a  *)
(* free name.                                                              *)
Unused == {tok \in Tokens :
    tok # cookie /\ \A t \in Tabs : tok \notin {acc[t], sent[t], got[t]}}

Fresh == CHOOSE tok \in Unused : TRUE

(* What a reference to a row reads once the rows of S have ended.          *)
After(S, how, ref) == IF ref \in S THEN how ELSE ref

-----------------------------------------------------------------------------
(* AuthApiService.refresh.                                                 *)

(* The access token is not looked at before the refresh has replaced it;   *)
(* it is cleared so that equal futures are equal states.                   *)
StartRefresh(t) ==
    /\ pc' = [pc EXCEPT ![t] = "check"]
    /\ acc' = [acc EXCEPT ![t] = None]
    /\ tries' = [tries EXCEPT ![t] = Retries]

(* Mutant: a lock is honoured one tick less.                               *)
LockHeldBriefly == lockAge + 1 < LockLife
LockHeld == lockAge < LockLife

(* What the history keeps of a step.                                       *)
Note(bad, over) ==
    luck' = IF bad \/ luck = "bad" THEN "bad" ELSE IF over THEN "ended" ELSE luck

(* finalize removes v_ref when nothing is tried again, whoever set it.     *)
Unlock == lockAge' = LockLife
OthersInFlight(t) == InFlight \ {t} # {}

(* The refresh has failed.  tryRestore ends at the login page.  The        *)
(* interceptor forgets the access token, logs out if the server said so,   *)
(* and the request that waited fails.                                      *)
RefreshFailed(t, unauthorised, bad) ==
    /\ acc' = [acc EXCEPT ![t] = None]
    /\ pc' = [pc EXCEPT ![t] = "idle"]
    /\ page' = [page EXCEPT ![t] =
                  IF kind[t] = "restore" THEN "out"
                  ELSE IF unauthorised \/ (kind[t] = "me" /\ @ = "in") THEN "leaving"
                  ELSE IF @ = "loading" THEN "out" ELSE @]
    /\ kind' = [kind EXCEPT ![t] = "call"]
    /\ tries' = [tries EXCEPT ![t] = 0]
    /\ Unlock
    /\ Note(bad, page'[t] = "leaving")

(* Mutant: the last retry is counted one too late.                         *)
RetryOnceMore(t) ==
    \/ /\ tries[t] >= 0
       /\ tries' = [tries EXCEPT ![t] = @ - 1]
       /\ pc' = [pc EXCEPT ![t] = "delay"]
       /\ UNCHANGED <<page, kind, acc, lockAge, luck>>
    \/ tries[t] < 0 /\ RefreshFailed(t, FALSE, OthersInFlight(t))

(* What an answer 409, or a lock that is held, leads to.                   *)
Retry(t) ==
    \/ /\ tries[t] > 0
       /\ tries' = [tries EXCEPT ![t] = @ - 1]
       /\ pc' = [pc EXCEPT ![t] = "delay"]
       /\ UNCHANGED <<page, kind, acc, lockAge, luck>>
    \/ tries[t] = 0 /\ RefreshFailed(t, FALSE, OthersInFlight(t))

(* localStorage.getItem, then setItem and the request.                     *)
CheckLock(t) ==
    /\ pc[t] = "check"
    /\ \/ /\ LockHeld
          /\ Retry(t)
       \/ /\ ~LockHeld
          /\ pc' = [pc EXCEPT ![t] = "post"]
          /\ UNCHANGED <<page, kind, acc, tries, lockAge, luck>>
    /\ UNCHANGED <<sent, got, cookie>>

(* Another tab that has read the lock already will post as well.           *)
Post(t) ==
    /\ pc[t] = "post"
    /\ lockAge' = 0
    /\ pc' = [pc EXCEPT ![t] = "posted"]
    /\ sent' = [sent EXCEPT ![t] = cookie]
    /\ Note(\E u \in Tabs \ {t} : pc[u] = "post", FALSE)
    /\ UNCHANGED <<page, kind, acc, tries, got, cookie>>

(* The rows of S end: the server refuses their access tokens, and a tab    *)
(* with one is as good as a tab without.                                   *)
Refuse(S) == acc' = [u \in Tabs |-> After(S, None, acc[u])]

(* AuthController.Refresh: the outcomes of the session store.  A rotated   *)
(* token is answered 409 for five seconds, and raises the alarm later,     *)
(* which revokes every row that lives.                                     *)
Answer(t, answer, S, how) ==
    /\ got' = [u \in Tabs |-> IF u = t THEN answer ELSE After(S, how, got[u])]
    /\ sent' = [u \in Tabs |-> IF u = t THEN None ELSE After(S, how, sent[u])]
    /\ cookie' = After(S, how, cookie)
    /\ Refuse(S)

ServeRefresh(t) ==
    /\ pc[t] = "posted"
    /\ pc' = [pc EXCEPT ![t] = "answered"]
    /\ \/ /\ sent[t] \in Tokens /\ Unused # {}
          /\ Answer(t, Fresh, {sent[t]}, "rotated")
       \/ sent[t] = "rotated" /\ Answer(t, "409", {}, None)
       \/ sent[t] = "rotated" /\ Answer(t, "401", Tokens, "closed")
       \/ sent[t] = "closed" /\ Answer(t, "401", {}, None)
    /\ UNCHANGED <<page, kind, tries, lockAge, luck>>

(* The request or its answer is lost, or the server answers 429 or 5xx.    *)
Lose(t) ==
    /\ pc[t] \in {"posted", "answered"}
    /\ RefreshFailed(t, FALSE, OthersInFlight(t) \/ pc[t] = "answered")
    /\ sent' = [sent EXCEPT ![t] = None] /\ got' = [got EXCEPT ![t] = None]
    /\ UNCHANGED cookie

(* Mutant: an answer without a cookie.                                     *)
KeepCookie(t) == UNCHANGED cookie
SetCookie(t) == cookie' = got[t]

RefreshAnswered(t) ==
    /\ pc[t] = "answered"
    /\ \/ /\ got[t] \in Tokens \cup {"rotated", "closed"}
          /\ SetCookie(t)
          /\ acc' = [acc EXCEPT ![t] = IF got[t] \in Tokens THEN got[t] ELSE None]
          /\ Unlock
          /\ Note(OthersInFlight(t), FALSE)
          /\ pc' = [pc EXCEPT ![t] = IF kind[t] = "restore" THEN "sent" ELSE "resent"]
          /\ kind' = [kind EXCEPT ![t] = IF @ = "restore" THEN "me" ELSE @]
          /\ tries' = [tries EXCEPT ![t] = 0]
          /\ UNCHANGED page
       \/ /\ got[t] = "409"
          /\ cookie' = "closed"
          /\ Retry(t)
       \/ /\ got[t] = "401"
          /\ cookie' = "closed"
          /\ RefreshFailed(t, TRUE, OthersInFlight(t))
    /\ got' = [got EXCEPT ![t] = None]
    /\ UNCHANGED sent

-----------------------------------------------------------------------------
(* Pages and their requests.                                               *)

(* A page is loaded, and App calls tryRestore.                             *)
Open(t) ==
    /\ page[t] = "closed"
    /\ page' = [page EXCEPT ![t] = "loading"]
    /\ kind' = [kind EXCEPT ![t] = "restore"]
    /\ StartRefresh(t)
    /\ UNCHANGED <<sent, got, lockAge, cookie, luck>>

(* verifySession asks who the user is, for the heartbeat or an             *)
(* interaction; other requests do what they are for.                       *)
Send(t, k) ==
    /\ page[t] = "in" /\ pc[t] = "idle"
    /\ pc' = [pc EXCEPT ![t] = "sent"]
    /\ kind' = [kind EXCEPT ![t] = k]
    /\ UNCHANGED <<page, acc, tries, sent, got, lockAge, cookie, luck>>

(* The request has its answer, good or bad.  A failed /auth/me ends the    *)
(* restore at the login page and a verification with a logout.             *)
EndRequest(t, ok) ==
    /\ pc' = [pc EXCEPT ![t] = "idle"]
    /\ page' = [page EXCEPT ![t] =
                  CASE @ = "loading" /\ ok -> "in"
                    [] @ = "loading" /\ ~ok -> "out"
                    [] @ = "in" /\ kind[t] = "me" /\ ~ok -> "leaving"
                    [] OTHER -> @]
    /\ acc' = [acc EXCEPT ![t] = IF page'[t] = "out" THEN None ELSE @]
    /\ kind' = [kind EXCEPT ![t] = "call"]
    /\ Note(FALSE, page'[t] = "leaving")

(* Mutant: a request answered 401 again is refreshed and repeated again.   *)
RepeatAgain(t) == pc[t] \in {"sent", "resent"}
MayRepeat(t) == pc[t] = "sent"

(* The interceptor takes the first 401 for an access token that is over,   *)
(* though it may be about an admin password.  The second is passed on, as  *)
(* are other errors.                                                       *)
RequestAnswered(t) ==
    /\ pc[t] \in {"sent", "resent"}
    /\ \/ /\ acc[t] # None
          /\ EndRequest(t, TRUE)
          /\ UNCHANGED tries
       \/ /\ MayRepeat(t)                          \* 401
          /\ StartRefresh(t)
          /\ UNCHANGED <<page, kind, luck>>
       \/ /\ ~MayRepeat(t)                         \* 401
          /\ acc[t] = None \/ kind[t] = "call"
          /\ EndRequest(t, FALSE)
          /\ UNCHANGED tries
       \/ /\ EndRequest(t, FALSE)                  \* lost, 429 or 5xx
          /\ UNCHANGED tries
    /\ UNCHANGED <<sent, got, lockAge, cookie>>

Logout(t) ==
    /\ page[t] = "in" /\ pc[t] = "idle"
    /\ page' = [page EXCEPT ![t] = "leaving"]
    /\ Note(FALSE, TRUE)
    /\ UNCHANGED <<pc, kind, acc, tries, sent, got, lockAge, cookie>>

(* POST /auth/logout revokes the cookie of the moment, whoever obtained    *)
(* it; or it is lost.                                                      *)
RevokeCookie(t, ref) ==
    \/ /\ LET ends == Tokens \cap {ref} IN
             /\ acc' = [u \in Tabs |-> IF u = t THEN None ELSE After(ends, None, acc[u])]
             /\ sent' = [u \in Tabs |-> After(ends, "closed", sent[u])]
             /\ got' = [u \in Tabs |-> IF u = t THEN None ELSE After(ends, "closed", got[u])]
       /\ cookie' = "closed"
    \/ /\ acc' = [acc EXCEPT ![t] = None]
       /\ got' = [got EXCEPT ![t] = None]
       /\ cookie' = ref
       /\ UNCHANGED sent

(* Whatever becomes of the logout, the page is loaded anew.                *)
Leave(t) ==
    /\ page[t] = "leaving"
    /\ page' = [page EXCEPT ![t] = "closed"]
    /\ RevokeCookie(t, cookie)
    /\ UNCHANGED <<pc, kind, tries, lockAge, luck>>

(* The tab is closed or reloaded, without finalize.                        *)
Close(t) ==
    /\ page[t] \notin {"closed", "leaving"}
    /\ page' = [page EXCEPT ![t] = "closed"]
    /\ pc' = [pc EXCEPT ![t] = "idle"]
    /\ acc' = [acc EXCEPT ![t] = None]
    /\ sent' = [sent EXCEPT ![t] = None] /\ got' = [got EXCEPT ![t] = None]
    /\ kind' = [kind EXCEPT ![t] = "call"] /\ tries' = [tries EXCEPT ![t] = 0]
    /\ Note(t \in InFlight, FALSE)
    /\ UNCHANGED <<lockAge, cookie>>

(* A login is accepted: there is a row, and its cookie is on the way.      *)
Login(t) ==
    /\ page[t] = "out" /\ pc[t] = "idle"
    /\ Unused # {}
    /\ pc' = [pc EXCEPT ![t] = "login"]
    /\ got' = [got EXCEPT ![t] = Fresh]
    /\ UNCHANGED <<page, kind, acc, tries, sent, lockAge, cookie, luck>>

(* The cookie of a login takes the place of any other.  With a row that    *)
(* still lives, and no refresh and no logout under way, all is well again. *)
LoginAnswered(t) ==
    /\ pc[t] = "login"
    /\ cookie' = got[t]
    /\ acc' = [acc EXCEPT ![t] = IF got[t] \in Tokens THEN got[t] ELSE None]
    /\ page' = [page EXCEPT ![t] = "in"]
    /\ pc' = [pc EXCEPT ![t] = "idle"]
    /\ got' = [got EXCEPT ![t] = None]
    /\ \/ /\ got[t] \in Tokens
          /\ luck' = IF InFlight = {} /\ \A u \in Tabs : page[u] # "leaving"
                     THEN "good" ELSE luck
       \/ got[t] \notin Tokens /\ Note(FALSE, TRUE)
    /\ UNCHANGED <<kind, tries, sent, lockAge>>

(* A login that fails, also after its cookie was set, logs out.            *)
LoginFails(t) ==
    /\ page[t] = "out"
    /\ \E ref \in {cookie} \cup (IF pc[t] = "login" THEN {got[t]} ELSE {}) :
          RevokeCookie(t, ref)
    /\ pc' = [pc EXCEPT ![t] = "idle"]
    /\ Note(FALSE, TRUE)
    /\ UNCHANGED <<page, kind, tries, lockAge>>

(* Time passes: v_ref ages and delays end.  A refresh that has not been    *)
(* answered when its lock runs out is unprotected.                         *)
Tick ==
    /\ lockAge' = IF LockHeld THEN lockAge + 1 ELSE lockAge
    /\ pc' = [t \in Tabs |-> IF pc[t] = "delay" THEN "check" ELSE pc[t]]
    /\ Note(lockAge' = LockLife /\ InFlight # {}, FALSE)
    /\ UNCHANGED <<page, kind, acc, tries, sent, got, cookie>>

Progress(t) ==
    \/ CheckLock(t) \/ Post(t) \/ ServeRefresh(t) \/ RefreshAnswered(t)
    \/ RequestAnswered(t) \/ LoginAnswered(t) \/ Leave(t)

Next ==
    \/ \E t \in Tabs :
          \/ Progress(t) \/ Lose(t) \/ Open(t) \/ Logout(t) \/ Close(t)
          \/ Login(t) \/ LoginFails(t)
          \/ \E k \in {"me", "call"} : Send(t, k)
    \/ Tick

Spec == Init /\ [][Next]_vars

(* Tabs run, the server answers or the browser gives up, and time passes.  *)
FairSpec == Spec /\ WF_vars(Tick) /\ \A t \in Tabs : WF_vars(Progress(t))

-----------------------------------------------------------------------------
(* Properties.                                                             *)

(* Every variable holds a value of its kind.                               *)
TypeOK ==
    /\ page \in [Tabs -> {"closed", "loading", "in", "out", "leaving"}]
    /\ pc \in [Tabs -> {"idle", "check", "delay", "post", "posted", "answered",
                        "sent", "resent", "login"}]
    /\ kind \in [Tabs -> {"restore", "me", "call"}]
    /\ acc \in [Tabs -> Tokens \cup {None}]
    /\ tries \in [Tabs -> 0 .. Retries]
    /\ sent \in [Tabs -> Tokens \cup {"rotated", "closed", None}]
    /\ got \in [Tabs -> Tokens \cup {"rotated", "closed", "409", "401", None}]
    /\ lockAge \in 0 .. LockLife
    /\ cookie \in Tokens \cup {"rotated", "closed"}
    /\ luck \in {"good", "ended", "bad"}

(* The lock keeps the refreshes of the tabs apart, through retries, pages  *)
(* that are closed and refreshes that are given up, as long as no two tabs *)
(* read it before either sets it, no answer takes longer than the lock     *)
(* lives, and no tab ends its refresh while another is under way.          *)
RefreshesExclude == luck # "bad" => Cardinality(InFlight) <= 1

(* And then the tabs do not end their session: until one of them logs out  *)
(* or fails to log in, which sends a logout as well, the cookie between    *)
(* two refreshes is a living token, whenever and wherever else a login     *)
(* replaces it.                                                            *)
SessionSurvives == luck = "good" /\ InFlight = {} => cookie \in Tokens

(* No page waits for ever, neither for its session at the start (the       *)
(* router waits for isInitialized) nor for a request, whatever other tabs  *)
(* do: retries are counted and a request is repeated once.                 *)
RequestsEnd == \A t \in Tabs : pc[t] # "idle" ~> pc[t] = "idle"
=============================================================================
