-------------------------- MODULE TabRefreshProofs --------------------------
(***************************************************************************)
(* Proofs that the lock in local storage excludes and that the session     *)
(* survives, for any number of tabs, rows and retries and any life time of *)
(* the lock: what luck names is all that can bring two refreshes together  *)
(* or end the session.                                                     *)
(***************************************************************************)
EXTENDS TabRefresh, FiniteSetTheorems, TLAPS

(* While nothing happens that the lock does not protect from: one refresh  *)
(* at a time is under way, its lock is held, and a tab that has found the  *)
(* lock free found no refresh under way.                                   *)
AtMostOne == \A t, u \in InFlight : t = u
Protected == InFlight # {} => LockHeld
NoneWhilePosting == \A t \in Tabs : pc[t] = "post" => InFlight = {}
Places == {"idle", "check", "delay", "post", "posted", "answered", "sent", "resent",
           "login"}
LockInv ==
    /\ pc \in [Tabs -> Places]
    /\ lockAge \in Nat
    /\ luck # "bad" => AtMostOne /\ Protected /\ NoneWhilePosting

(* The step of a tab that is neither posting nor posted afterwards, and    *)
(* removes the lock only if nobody else needs it.                          *)
Quits(t) ==
    /\ t \in Tabs
    /\ \E next \in {"idle", "delay", "check", "sent", "resent", "login"} :
          pc' = [pc EXCEPT ![t] = next]

LEMMA QuitKeepsLock ==
    ASSUME LockInv, NEW t, Quits(t),
           \/ lockAge' = lockAge
           \/ lockAge' = LockLife /\ (luck' = "bad" \/ InFlight \subseteq {t}),
           luck' # "bad" => luck # "bad"
    PROVE  LockInv'
<1> USE ConstAssumption DEF ConstAssumption
<1>1. pc' \in [Tabs -> Places] /\ lockAge' \in Nat
  BY DEF LockInv, Quits, Places
<1>2. InFlight' = InFlight \ {t}
  BY DEF InFlight, Quits, LockInv
<1>3. ASSUME luck' # "bad"
      PROVE  AtMostOne' /\ Protected' /\ NoneWhilePosting'
  <2>1. AtMostOne /\ Protected /\ NoneWhilePosting
    BY <1>3 DEF LockInv
  <2>2. AtMostOne'
    BY <1>2, <2>1 DEF AtMostOne
  <2>3. Protected'
    BY <1>2, <1>3, <2>1 DEF Protected, LockHeld
  <2>4. NoneWhilePosting'
    BY <1>2, <2>1 DEF NoneWhilePosting, Quits, LockInv
  <2>. QED
    BY <2>2, <2>3, <2>4
<1>. QED
  BY <1>1, <1>3 DEF LockInv

(* A refresh that fails, also one that is not tried again.                 *)
LEMMA FailKeepsLock ==
    ASSUME LockInv, NEW t \in Tabs, NEW why \in BOOLEAN,
           \/ RefreshFailed(t, why, OthersInFlight(t))
           \/ RefreshFailed(t, why, OthersInFlight(t) \/ pc[t] = "answered")
    PROVE  LockInv'
<1>1. Quits(t) /\ lockAge' = LockLife
  BY DEF RefreshFailed, Quits, Unlock
<1>2. luck' = "bad" \/ InFlight \subseteq {t}
  BY DEF RefreshFailed, Note, OthersInFlight
<1>3. luck' # "bad" => luck # "bad"
  BY DEF RefreshFailed, Note
<1>. QED
  BY <1>1, <1>2, <1>3, QuitKeepsLock

LEMMA RetryKeepsLock ==
    ASSUME LockInv, NEW t \in Tabs, Retry(t)
    PROVE  LockInv'
<1>1. CASE tries[t] > 0 /\ pc' = [pc EXCEPT ![t] = "delay"] /\ UNCHANGED <<lockAge, luck>>
  <2>1. Quits(t)
    BY <1>1 DEF Quits
  <2>. QED
    BY <1>1, <2>1, QuitKeepsLock
<1>2. CASE RefreshFailed(t, FALSE, OthersInFlight(t))
  BY <1>2, FailKeepsLock
<1>. QED
  BY <1>1, <1>2 DEF Retry

-----------------------------------------------------------------------------
(* The steps of a tab.                                                     *)

LEMMA CheckKeepsLock ==
    ASSUME LockInv, NEW t \in Tabs, CheckLock(t)
    PROVE  LockInv'
<1>1. CASE Retry(t)
  BY <1>1, RetryKeepsLock
<1>2. CASE ~LockHeld /\ pc' = [pc EXCEPT ![t] = "post"] /\ UNCHANGED <<lockAge, luck>>
  <2>1. InFlight' = InFlight
    BY <1>2 DEF InFlight, LockInv, CheckLock
  <2>2. luck # "bad" => InFlight = {}
    BY <1>2 DEF LockInv, Protected
  <2>. QED
    BY <1>2, <2>1, <2>2 DEF Places, LockInv, AtMostOne, Protected, NoneWhilePosting, LockHeld
<1>. QED
  BY <1>1, <1>2 DEF CheckLock

LEMMA PostKeepsLock ==
    ASSUME LockInv, NEW t \in Tabs, Post(t)
    PROVE  LockInv'
<1> USE ConstAssumption DEF ConstAssumption
<1> DEFINE both == \E u \in Tabs \ {t} : pc[u] = "post"
<1>1. pc' = [pc EXCEPT ![t] = "posted"] /\ lockAge' = 0 /\ Note(both, FALSE)
  BY DEF Post
<1>2. pc' \in [Tabs -> Places] /\ lockAge' \in Nat /\ LockHeld'
  BY <1>1 DEF Places, LockInv, LockHeld
<1>3. InFlight' = InFlight \cup {t}
  BY <1>1 DEF InFlight, LockInv
<1>4. ASSUME luck' # "bad"
      PROVE  AtMostOne' /\ Protected' /\ NoneWhilePosting'
  <2>1. luck # "bad" /\ ~both
    BY <1>1, <1>4 DEF Note
  <2>2. InFlight = {}
    BY <2>1 DEF LockInv, NoneWhilePosting, Post
  <2>3. \A u \in Tabs : pc'[u] # "post"
    BY <1>1, <2>1 DEF LockInv
  <2>. QED
    BY <1>2, <1>3, <2>2, <2>3 DEF AtMostOne, Protected, NoneWhilePosting
<1>. QED
  BY <1>2, <1>4 DEF LockInv

LEMMA ServeKeepsLock ==
    ASSUME LockInv, NEW t \in Tabs, ServeRefresh(t)
    PROVE  LockInv'
<1>1. pc[t] = "posted" /\ pc' = [pc EXCEPT ![t] = "answered"] /\ UNCHANGED <<lockAge, luck>>
  BY DEF ServeRefresh
<1>2. InFlight' = InFlight /\ \A u \in Tabs : pc'[u] = "post" => pc[u] = "post"
  BY <1>1 DEF InFlight, LockInv
<1>. QED
  BY <1>1, <1>2 DEF Places, LockInv, AtMostOne, Protected, NoneWhilePosting, LockHeld

LEMMA AnswerKeepsLock ==
    ASSUME LockInv, NEW t \in Tabs, RefreshAnswered(t)
    PROVE  LockInv'
<1>1. CASE got[t] \in Tokens \cup {"rotated", "closed"} /\ Unlock /\
           Note(OthersInFlight(t), FALSE) /\
           pc' = [pc EXCEPT ![t] = IF kind[t] = "restore" THEN "sent" ELSE "resent"]
  <2>1. Quits(t)
    BY <1>1 DEF Quits
  <2>2. lockAge' = LockLife /\ (luck' = "bad" \/ InFlight \subseteq {t})
    BY <1>1 DEF Unlock, OthersInFlight, Note
  <2>3. luck' # "bad" => luck # "bad"
    BY <1>1 DEF Note
  <2>. QED
    BY <2>1, <2>2, <2>3, QuitKeepsLock
<1>2. CASE Retry(t)
  BY <1>2, RetryKeepsLock
<1>3. CASE RefreshFailed(t, TRUE, OthersInFlight(t))
  BY <1>3, FailKeepsLock
<1>. QED
  BY <1>1, <1>2, <1>3 DEF RefreshAnswered

(* Requests, and the other steps of a tab that end up outside a refresh.   *)
LEMMA OtherStepsKeepLock ==
    ASSUME LockInv, NEW t \in Tabs,
           \/ RequestAnswered(t) \/ Leave(t) \/ Open(t) \/ Logout(t)
           \/ Login(t) \/ LoginAnswered(t) \/ LoginFails(t)
           \/ \E k \in {"me", "call"} : Send(t, k)
    PROVE  LockInv'
<1>1. lockAge' = lockAge
  BY DEF RequestAnswered, Leave, Open, Logout, Login, LoginAnswered, LoginFails, Send
<1>3. CASE \/ RequestAnswered(t) \/ Open(t) \/ Login(t) \/ LoginFails(t)
           \/ \E k \in {"me", "call"} : Send(t, k)
  <2>1. Quits(t)
    BY <1>3 DEF Quits, RequestAnswered, EndRequest, StartRefresh, Open, Login, LoginFails, Send
  <2>2. luck' # "bad" => luck # "bad"
    BY <1>3 DEF RequestAnswered, EndRequest, Open, Login, LoginFails, Send, Note
  <2>. QED
    BY <1>1, <2>1, <2>2, QuitKeepsLock
<1>4. CASE Leave(t) \/ Logout(t)
  <2>1. pc' = pc /\ (luck' # "bad" => luck # "bad")
    BY <1>4 DEF Leave, Logout, Note
  <2>. QED
    BY <1>1, <2>1 DEF LockInv, InFlight, AtMostOne, Protected, NoneWhilePosting, LockHeld
<1>5. CASE LoginAnswered(t)
  <2>1. Quits(t)
    BY <1>5 DEF Quits, LoginAnswered
  <2>2. CASE InFlight = {}
    <3>1. InFlight' = {} /\ pc' \in [Tabs -> Places]
      BY <2>1, <2>2 DEF Quits, InFlight, LockInv, Places
    <3>2. AtMostOne' /\ Protected' /\ NoneWhilePosting'
      BY <3>1 DEF AtMostOne, Protected, NoneWhilePosting
    <3> QED  BY <1>1, <3>1, <3>2 DEF LockInv
  <2>3. CASE InFlight # {}
    <3>1. luck' # "bad" => luck # "bad"
      BY <1>5, <2>3 DEF LoginAnswered, Note
    <3> QED  BY <1>1, <2>1, <3>1, QuitKeepsLock
  <2>. QED
    BY <2>2, <2>3
<1>. QED
  BY <1>3, <1>4, <1>5

LEMMA CloseKeepsLock ==
    ASSUME LockInv, NEW t \in Tabs, Close(t)
    PROVE  LockInv'
<1>1. Quits(t) /\ lockAge' = lockAge /\ (luck' # "bad" => luck # "bad")
  BY DEF Close, Quits, Note
<1>. QED
  BY <1>1, QuitKeepsLock

LEMMA TickKeepsLock ==
    ASSUME LockInv, Tick
    PROVE  LockInv'
<1> USE ConstAssumption DEF ConstAssumption
<1>1. pc' = [t \in Tabs |-> IF pc[t] = "delay" THEN "check" ELSE pc[t]]
  BY DEF Tick
<1>2. pc' \in [Tabs -> Places]
  BY <1>1 DEF Places, LockInv
<1>3. lockAge' = IF LockHeld THEN lockAge + 1 ELSE lockAge
  BY DEF Tick
<1>4. InFlight' = InFlight /\ \A u \in Tabs : pc'[u] = "post" => pc[u] = "post"
  BY <1>1 DEF InFlight, LockInv
<1>5. luck' # "bad" => luck # "bad" /\ (lockAge' # LockLife \/ InFlight = {})
  BY DEF Tick, Note
<1>6. luck' # "bad" => Protected'
  BY <1>3, <1>4, <1>5 DEF LockInv, Protected, LockHeld
<1>. QED
  BY <1>2, <1>3, <1>4, <1>5, <1>6 DEF LockInv, AtMostOne, NoneWhilePosting

-----------------------------------------------------------------------------
LEMMA LockSteps == LockInv /\ [Next]_vars => LockInv'
<1> SUFFICES ASSUME LockInv, [Next]_vars
             PROVE  LockInv'
  OBVIOUS
<1>1. CASE \E t \in Tabs : Progress(t)
  BY <1>1, CheckKeepsLock, PostKeepsLock, ServeKeepsLock, AnswerKeepsLock,
     OtherStepsKeepLock DEF Progress
<1>2. CASE \E t \in Tabs : Lose(t)
  <2>. PICK t \in Tabs : Lose(t)
    BY <1>2
  <2>1. RefreshFailed(t, FALSE, OthersInFlight(t) \/ pc[t] = "answered")
    BY DEF Lose
  <2>. QED
    BY <2>1, FailKeepsLock
<1>3. CASE \E t \in Tabs : \/ Open(t) \/ Logout(t) \/ Login(t) \/ LoginFails(t)
                           \/ \E k \in {"me", "call"} : Send(t, k)
  BY <1>3, OtherStepsKeepLock
<1>4. CASE \E t \in Tabs : Close(t)
  BY <1>4, CloseKeepsLock
<1>5. CASE Tick
  BY <1>5, TickKeepsLock
<1>6. CASE UNCHANGED vars
  BY <1>6 DEF vars, tabVars, LockInv, InFlight, AtMostOne, Protected,
              NoneWhilePosting, LockHeld
<1>. QED
  BY <1>1, <1>2, <1>3, <1>4, <1>5, <1>6 DEF Next

LEMMA OneIsCounted ==
    ASSUME AtMostOne
    PROVE  Cardinality(InFlight) <= 1
<1>1. CASE InFlight = {}
  BY <1>1, FS_EmptySet
<1>2. CASE InFlight # {}
  <2>. PICK t : t \in InFlight
    BY <1>2
  <2>1. InFlight = {t}
    BY DEF AtMostOne
  <2>. QED
    BY <2>1, FS_Singleton
<1>. QED
  BY <1>1, <1>2

(* The lock keeps refreshes apart for any number of tabs and retries, as   *)
(* long as nothing happens that it does not protect from (refresh).        *)
THEOREM LockExcludes == Spec => []RefreshesExclude
<1>1. Init => LockInv
  BY ConstAssumption DEF Places, ConstAssumption, Init, LockInv, InFlight, AtMostOne,
     Protected, NoneWhilePosting
<1>2. LockInv => RefreshesExclude
  BY OneIsCounted DEF LockInv, RefreshesExclude
<1>. QED
  BY <1>1, <1>2, LockSteps, PTL DEF Spec

-----------------------------------------------------------------------------
(* Types.                                                                  *)

(* The name of a row that is minted is one that nobody refers to.          *)
LEMMA FreshIsFound ==
    ASSUME Unused # {}
    PROVE  Fresh \in Tokens /\ Fresh # cookie
BY DEF Fresh, Unused

LEMMA RetryTyped ==
    ASSUME TypeOK, NEW t \in Tabs, Retry(t)
    PROVE  /\ page' \in [Tabs -> {"closed", "loading", "in", "out", "leaving"}]
           /\ pc' \in [Tabs -> Places]
           /\ kind' \in [Tabs -> {"restore", "me", "call"}]
           /\ acc' \in [Tabs -> Tokens \cup {None}]
           /\ tries' \in [Tabs -> 0 .. Retries]
           /\ lockAge' \in 0 .. LockLife /\ luck' \in {"good", "ended", "bad"}
BY ConstAssumption
DEF ConstAssumption, TypeOK, Retry, RefreshFailed, Unlock, Note, Places

LEMMA FailTyped ==
    ASSUME TypeOK, NEW t \in Tabs, NEW unauthorised \in BOOLEAN, NEW bad,
           RefreshFailed(t, unauthorised, bad)
    PROVE  /\ page' \in [Tabs -> {"closed", "loading", "in", "out", "leaving"}]
           /\ pc' \in [Tabs -> Places]
           /\ kind' \in [Tabs -> {"restore", "me", "call"}]
           /\ acc' \in [Tabs -> Tokens \cup {None}]
           /\ tries' \in [Tabs -> 0 .. Retries]
           /\ lockAge' \in 0 .. LockLife /\ luck' \in {"good", "ended", "bad"}
BY ConstAssumption
DEF ConstAssumption, TypeOK, RefreshFailed, Unlock, Note, Places

LEMMA AnswerTyped ==
    ASSUME TypeOK, NEW t \in Tabs, NEW S, NEW how,
           how \in {"rotated", "closed"} \/ S = {},
           NEW answer \in Tokens \cup {"409", "401"},
           Answer(t, answer, S, how)
    PROVE  /\ acc' \in [Tabs -> Tokens \cup {None}]
           /\ sent' \in [Tabs -> Tokens \cup {"rotated", "closed", None}]
           /\ got' \in [Tabs -> Tokens \cup {"rotated", "closed", "409", "401", None}]
           /\ cookie' \in Tokens \cup {"rotated", "closed"}
<1>1. /\ acc \in [Tabs -> Tokens \cup {None}]
      /\ sent \in [Tabs -> Tokens \cup {"rotated", "closed", None}]
      /\ got \in [Tabs -> Tokens \cup {"rotated", "closed", "409", "401", None}]
      /\ cookie \in Tokens \cup {"rotated", "closed"}
  BY DEF TypeOK
<1>2. \A ref : After(S, how, ref) \in {ref, "rotated", "closed"}
  BY DEF After
<1>3. \A ref : After(S, None, ref) \in {ref, None}
  BY DEF After
<1>4. /\ got' = [u \in Tabs |-> IF u = t THEN answer ELSE After(S, how, got[u])]
      /\ sent' = [u \in Tabs |-> IF u = t THEN None ELSE After(S, how, sent[u])]
      /\ cookie' = After(S, how, cookie)
      /\ acc' = [u \in Tabs |-> After(S, None, acc[u])]
  BY DEF Answer, Refuse
<1>5. got' \in [Tabs -> Tokens \cup {"rotated", "closed", "409", "401", None}]
  BY <1>1, <1>2, <1>4
<1>6. sent' \in [Tabs -> Tokens \cup {"rotated", "closed", None}]
  BY <1>1, <1>2, <1>4
<1>7. acc' \in [Tabs -> Tokens \cup {None}]
  BY <1>1, <1>3, <1>4
<1>8. cookie' \in Tokens \cup {"rotated", "closed"}
  BY <1>1, <1>2, <1>4
<1> QED  BY <1>5, <1>6, <1>7, <1>8

LEMMA RevokeTyped ==
    ASSUME TypeOK, NEW t \in Tabs, NEW ref \in Tokens \cup {"rotated", "closed"},
           RevokeCookie(t, ref)
    PROVE  /\ acc' \in [Tabs -> Tokens \cup {None}]
           /\ sent' \in [Tabs -> Tokens \cup {"rotated", "closed", None}]
           /\ got' \in [Tabs -> Tokens \cup {"rotated", "closed", "409", "401", None}]
           /\ cookie' \in Tokens \cup {"rotated", "closed"}
<1> DEFINE ends == Tokens \cap {ref}
<1>1. CASE /\ acc' = [u \in Tabs |-> IF u = t THEN None ELSE After(ends, None, acc[u])]
           /\ sent' = [u \in Tabs |-> After(ends, "closed", sent[u])]
           /\ got' = [u \in Tabs |-> IF u = t THEN None ELSE After(ends, "closed", got[u])]
           /\ cookie' = "closed"
  <2>1. /\ \A r : After(ends, "closed", r) \in {r, "closed"}
        /\ \A r : After(ends, None, r) \in {r, None}
    BY DEF After
  <2> HIDE DEF ends
  <2>2. acc' \in [Tabs -> Tokens \cup {None}]
    BY <1>1, <2>1 DEF TypeOK
  <2>3. /\ sent' \in [Tabs -> Tokens \cup {"rotated", "closed", None}]
        /\ got' \in [Tabs -> Tokens \cup {"rotated", "closed", "409", "401", None}]
    BY <1>1, <2>1 DEF TypeOK
  <2> QED  BY <1>1, <2>2, <2>3
<1>2. CASE /\ acc' = [acc EXCEPT ![t] = None] /\ got' = [got EXCEPT ![t] = None]
           /\ cookie' = ref /\ UNCHANGED sent
  BY <1>2 DEF TypeOK
<1> QED  BY <1>1, <1>2 DEF RevokeCookie

(* A page that is not in use waits for nothing, save for a login.          *)
Away == \A t \in Tabs :
    /\ page[t] \in {"closed", "leaving"} => pc[t] = "idle"
    /\ page[t] = "out" => pc[t] \in {"idle", "login"}

(* The answer to a login names a row, which may have ended since.          *)
Logins == \A t \in Tabs : pc[t] = "login" => got[t] \in Tokens \cup {"rotated", "closed"}

LEMMA AwaySteps ==
    ASSUME TypeOK, Away, [Next]_vars
    PROVE  Away'
<1>1. CASE UNCHANGED vars
  BY <1>1 DEF vars, tabVars, Away
<1>2. CASE Tick
  BY <1>2 DEF Tick, Away, TypeOK
<1>3. ASSUME NEW t \in Tabs,
             \E next \in Places : pc' = [pc EXCEPT ![t] = next],
             pc[t] \notin {"idle", "login"} \/ page[t] = "in", page' = page
      PROVE  Away'
  BY <1>3 DEF Away, TypeOK
<1>4. ASSUME NEW t \in Tabs, pc' = [pc EXCEPT ![t] = "idle"],
             \A u \in Tabs \ {t} : page'[u] = page[u]
      PROVE  Away'
  BY <1>4 DEF Away, TypeOK
<1>5. ASSUME NEW t \in Tabs, NEW why \in BOOLEAN, NEW bad, RefreshFailed(t, why, bad)
      PROVE  Away'
  BY <1>4, <1>5 DEF RefreshFailed, TypeOK
<1>6. ASSUME NEW t \in Tabs, pc[t] \notin {"idle", "login"}, Retry(t)  PROVE Away'
  BY <1>3, <1>5, <1>6 DEF Retry, Places
<1>7. ASSUME NEW t \in Tabs, NEW ok \in BOOLEAN, EndRequest(t, ok)  PROVE Away'
  BY <1>4, <1>7 DEF EndRequest, TypeOK
<1>8. ASSUME NEW t \in Tabs, Progress(t)  PROVE Away'
  <2>1. CASE CheckLock(t)
    BY <1>3, <1>6, <2>1 DEF CheckLock, Places
  <2>2. CASE Post(t)
    BY <1>3, <2>2 DEF Post, Places
  <2>3. CASE ServeRefresh(t)
    BY <1>3, <2>3 DEF ServeRefresh, Places
  <2>4. CASE RefreshAnswered(t)
    <3>1. pc[t] \notin {"idle", "login"}
      BY <2>4 DEF RefreshAnswered
    <3>2. CASE Retry(t)
      BY <1>6, <3>1, <3>2
    <3>3. CASE RefreshFailed(t, TRUE, OthersInFlight(t))
      BY <1>5, <3>3
    <3>4. CASE /\ pc' = [pc EXCEPT ![t] = IF kind[t] = "restore" THEN "sent" ELSE "resent"]
               /\ UNCHANGED page
      BY <1>3, <3>1, <3>4 DEF Places
    <3> QED  BY <2>4, <3>2, <3>3, <3>4 DEF RefreshAnswered
  <2>5. CASE RequestAnswered(t)
    BY <1>3, <1>7, <2>5 DEF RequestAnswered, StartRefresh, Places
  <2>6. CASE Leave(t)
    BY <2>6 DEF Leave, Away, TypeOK
  <2>7. CASE LoginAnswered(t)
    BY <1>4, <2>7 DEF LoginAnswered, TypeOK
  <2> QED  BY <1>8, <2>1, <2>2, <2>3, <2>4, <2>5, <2>6, <2>7 DEF Progress
<1>9. ASSUME NEW t \in Tabs, Lose(t)  PROVE Away'
  BY <1>5, <1>9 DEF Lose
<1>10. ASSUME NEW t \in Tabs, Open(t) \/ Logout(t) \/ Login(t)  PROVE Away'
  BY <1>10 DEF Open, StartRefresh, Logout, Login, Away, TypeOK
<1>13. ASSUME NEW t \in Tabs, LoginFails(t)  PROVE Away'
  BY <1>4, <1>13 DEF LoginFails
<1>11. ASSUME NEW t \in Tabs, Close(t)  PROVE Away'
  BY <1>4, <1>11 DEF Close, TypeOK
<1>12. ASSUME NEW t \in Tabs, NEW k \in {"me", "call"}, Send(t, k)  PROVE Away'
  BY <1>3, <1>12 DEF Send, Places
<1> QED  BY <1>1, <1>2, <1>8, <1>9, <1>10, <1>11, <1>12, <1>13 DEF Next

LEMMA LoginsSteps ==
    ASSUME TypeOK, Away, Logins, [Next]_vars
    PROVE  Logins'
<1>1. ASSUME NEW t \in Tabs, \E next \in Places \ {"login"} : pc' = [pc EXCEPT ![t] = next],
             \A u \in Tabs \ {t} : got'[u] \in {got[u], "rotated", "closed"}
      PROVE  Logins'
  BY <1>1 DEF Logins, TypeOK
<1>2. ASSUME NEW t \in Tabs, \E next \in Places \ {"login"} : pc' = [pc EXCEPT ![t] = next],
             \E g : got' = [got EXCEPT ![t] = g]
      PROVE  Logins'
  BY <1>1, <1>2 DEF TypeOK
<1>3. ASSUME NEW t \in Tabs, \E next \in Places \ {"login"} : pc' = [pc EXCEPT ![t] = next],
             UNCHANGED got
      PROVE  Logins'
  BY <1>1, <1>3
<1>4. ASSUME NEW t \in Tabs, NEW ref, RevokeCookie(t, ref)
      PROVE  \A u \in Tabs \ {t} : got'[u] \in {got[u], "rotated", "closed"}
  BY <1>4 DEF RevokeCookie, After, TypeOK
<1>5. CASE Tick \/ (\E t \in Tabs : Logout(t)) \/ UNCHANGED vars
  <2>1. got' = got
    BY <1>5 DEF Tick, Logout, vars, tabVars
  <2>2. CASE Tick
    BY <2>1, <2>2 DEF Tick, Logins
  <2>3. CASE (\E t \in Tabs : Logout(t)) \/ UNCHANGED vars
    BY <2>1, <2>3 DEF Logout, vars, tabVars, Logins
  <2> QED  BY <1>5, <2>2, <2>3
<1>6. ASSUME NEW t \in Tabs, CheckLock(t) \/ Post(t) \/ RequestAnswered(t) \/ Open(t)
      PROVE  Logins'
  BY <1>3, <1>6 DEF CheckLock, Retry, RefreshFailed, Post, RequestAnswered, EndRequest,
                    StartRefresh, Open, Places
<1>7. ASSUME NEW t \in Tabs, NEW k \in {"me", "call"}, Send(t, k)  PROVE Logins'
  BY <1>3, <1>7 DEF Send, Places
<1>8. ASSUME NEW t \in Tabs, ServeRefresh(t)  PROVE Logins'
  <2>1. ASSUME NEW answer, NEW S, NEW how, Answer(t, answer, S, how),
               how \in {"rotated", "closed"} \/ S = {}
        PROVE  \A u \in Tabs \ {t} : got'[u] \in {got[u], "rotated", "closed"}
    BY <2>1 DEF Answer, After
  <2>2. \A u \in Tabs \ {t} : got'[u] \in {got[u], "rotated", "closed"}
    BY <1>8, <2>1 DEF ServeRefresh
  <2> QED  BY <1>1, <1>8, <2>2 DEF ServeRefresh, Places
<1>9. ASSUME NEW t \in Tabs, RefreshAnswered(t) \/ Lose(t) \/ Close(t) \/ LoginAnswered(t)
      PROVE  Logins'
  BY <1>2, <1>9 DEF RefreshAnswered, Retry, Lose, RefreshFailed, Close, LoginAnswered, Places
<1>10. ASSUME NEW t \in Tabs, Leave(t)  PROVE Logins'
  <2>1. pc' = pc /\ pc[t] = "idle" /\ RevokeCookie(t, cookie)
    BY <1>10 DEF Leave, Away
  <2> QED  BY <1>4, <2>1 DEF Logins
<1>11. ASSUME NEW t \in Tabs, LoginFails(t)  PROVE Logins'
  BY <1>1, <1>4, <1>11 DEF LoginFails, Places
<1>12. ASSUME NEW t \in Tabs, Login(t)  PROVE Logins'
  BY <1>12, FreshIsFound DEF Login, Logins, TypeOK
<1> QED  BY <1>5, <1>6, <1>7, <1>8, <1>9, <1>10, <1>11, <1>12 DEF Next, Progress

LEMMA TypeSteps ==
    ASSUME TypeOK, Logins, [Next]_vars
    PROVE  TypeOK'
<1> USE ConstAssumption DEF ConstAssumption
<1>1. CASE UNCHANGED vars
  BY <1>1 DEF vars, tabVars, TypeOK
<1>2. CASE Tick
  BY <1>2 DEF Tick, TypeOK, LockHeld, Note
<1>3. ASSUME NEW t \in Tabs, CheckLock(t)  PROVE TypeOK'
  <2>1. CASE Retry(t)
    BY <1>3, <2>1, RetryTyped DEF CheckLock, TypeOK, Places
  <2>2. CASE ~Retry(t)
    BY <1>3, <2>2 DEF CheckLock, TypeOK
  <2> QED  BY <2>1, <2>2
<1>4. ASSUME NEW t \in Tabs, Post(t)  PROVE TypeOK'
  BY <1>4 DEF Post, TypeOK, Note
<1>5. ASSUME NEW t \in Tabs, ServeRefresh(t)  PROVE TypeOK'
  <2>1. /\ pc' = [pc EXCEPT ![t] = "answered"]
        /\ UNCHANGED <<page, kind, tries, lockAge, luck>>
    BY <1>5 DEF ServeRefresh
  <2>2. /\ acc' \in [Tabs -> Tokens \cup {None}]
        /\ sent' \in [Tabs -> Tokens \cup {"rotated", "closed", None}]
        /\ got' \in [Tabs -> Tokens \cup {"rotated", "closed", "409", "401", None}]
        /\ cookie' \in Tokens \cup {"rotated", "closed"}
    <3>1. CASE Unused # {} /\ Answer(t, Fresh, {sent[t]}, "rotated")
      BY <3>1, FreshIsFound, AnswerTyped
    <3>2. CASE Answer(t, "409", {}, None)
      BY <3>2, AnswerTyped
    <3>3. CASE Answer(t, "401", Tokens, "closed")
      BY <3>3, AnswerTyped
    <3>4. CASE Answer(t, "401", {}, None)
      BY <3>4, AnswerTyped
    <3> QED  BY <1>5, <3>1, <3>2, <3>3, <3>4 DEF ServeRefresh
  <2> QED  BY <2>1, <2>2 DEF TypeOK
<1>6. ASSUME NEW t \in Tabs, Lose(t)  PROVE TypeOK'
  <2>1. RefreshFailed(t, FALSE, OthersInFlight(t) \/ pc[t] = "answered")
    BY <1>6 DEF Lose
  <2>2. /\ sent' \in [Tabs -> Tokens \cup {"rotated", "closed", None}]
        /\ got' \in [Tabs -> Tokens \cup {"rotated", "closed", "409", "401", None}]
        /\ cookie' \in Tokens \cup {"rotated", "closed"}
    BY <1>6 DEF Lose, TypeOK
  <2> QED  BY <2>1, <2>2, FailTyped DEF TypeOK, Places
<1>7. ASSUME NEW t \in Tabs, RefreshAnswered(t)  PROVE TypeOK'
  <2>1. /\ sent' \in [Tabs -> Tokens \cup {"rotated", "closed", None}]
        /\ got' \in [Tabs -> Tokens \cup {"rotated", "closed", "409", "401", None}]
    BY <1>7 DEF RefreshAnswered, TypeOK
  <2>2. CASE Retry(t) /\ cookie' = "closed"
    BY <2>1, <2>2, RetryTyped DEF TypeOK, Places
  <2>3. CASE RefreshFailed(t, TRUE, OthersInFlight(t)) /\ cookie' = "closed"
    BY <2>1, <2>3, FailTyped DEF TypeOK, Places
  <2>4. CASE /\ got[t] \in Tokens \cup {"rotated", "closed"}
             /\ SetCookie(t)
             /\ acc' = [acc EXCEPT ![t] = IF got[t] \in Tokens THEN got[t] ELSE None]
             /\ Unlock
             /\ Note(OthersInFlight(t), FALSE)
             /\ pc' = [pc EXCEPT ![t] = IF kind[t] = "restore" THEN "sent" ELSE "resent"]
             /\ kind' = [kind EXCEPT ![t] = IF @ = "restore" THEN "me" ELSE @]
             /\ tries' = [tries EXCEPT ![t] = 0]
             /\ UNCHANGED page
    BY <2>1, <2>4 DEF TypeOK, SetCookie, Unlock, Note
  <2> QED  BY <1>7, <2>2, <2>3, <2>4 DEF RefreshAnswered
<1>8. ASSUME NEW t \in Tabs, RequestAnswered(t)  PROVE TypeOK'
  <2>1. ASSUME NEW ok \in BOOLEAN, EndRequest(t, ok), UNCHANGED tries
        PROVE  TypeOK'
    <3>1. page' \in [Tabs -> {"closed", "loading", "in", "out", "leaving"}]
      <4> DEFINE p == CASE page[t] = "loading" /\ ok -> "in"
                       [] page[t] = "loading" /\ ~ok -> "out"
                       [] page[t] = "in" /\ kind[t] = "me" /\ ~ok -> "leaving"
                       [] OTHER -> page[t]
      <4>1. p \in {"closed", "loading", "in", "out", "leaving"}
        BY DEF TypeOK
      <4>2. page' = [page EXCEPT ![t] = p]
        BY <2>1 DEF EndRequest
      <4> HIDE DEF p
      <4> QED  BY <4>1, <4>2 DEF TypeOK
    <3>2. /\ pc' \in [Tabs -> Places] /\ kind' \in [Tabs -> {"restore", "me", "call"}]
          /\ acc' \in [Tabs -> Tokens \cup {None}] /\ luck' \in {"good", "ended", "bad"}
      BY <2>1 DEF EndRequest, TypeOK, Places, Note
    <3> QED  BY <1>8, <2>1, <3>1, <3>2 DEF RequestAnswered, TypeOK, Places
  <2>2. CASE StartRefresh(t) /\ UNCHANGED <<page, kind, luck>>
    BY <1>8, <2>2 DEF RequestAnswered, StartRefresh, TypeOK
  <2> QED  BY <1>8, <2>1, <2>2 DEF RequestAnswered
<1>9. ASSUME NEW t \in Tabs, Leave(t)  PROVE TypeOK'
  <2>1. /\ page' = [page EXCEPT ![t] = "closed"] /\ RevokeCookie(t, cookie)
        /\ UNCHANGED <<pc, kind, tries, lockAge, luck>>
    BY <1>9 DEF Leave
  <2>2. cookie \in Tokens \cup {"rotated", "closed"}
    BY DEF TypeOK
  <2> QED  BY <2>1, <2>2, RevokeTyped DEF TypeOK
<1>10. ASSUME NEW t \in Tabs, Open(t) \/ Logout(t) \/ Close(t)  PROVE TypeOK'
  BY <1>10 DEF Open, StartRefresh, Logout, Close, TypeOK, Note
<1>11. ASSUME NEW t \in Tabs, Login(t)  PROVE TypeOK'
  BY <1>11, FreshIsFound DEF Login, TypeOK
<1>13. ASSUME NEW t \in Tabs, LoginAnswered(t)  PROVE TypeOK'
  BY <1>13 DEF LoginAnswered, Logins, TypeOK, Note
<1>14. ASSUME NEW t \in Tabs, LoginFails(t)  PROVE TypeOK'
  <2>1. PICK ref \in {cookie} \cup (IF pc[t] = "login" THEN {got[t]} ELSE {}) :
          RevokeCookie(t, ref)
    BY <1>14 DEF LoginFails
  <2>2. ref \in Tokens \cup {"rotated", "closed"}
    BY <1>14, <2>1 DEF Logins, TypeOK
  <2>3. pc' = [pc EXCEPT ![t] = "idle"] /\ UNCHANGED <<page, kind, tries, lockAge>>
        /\ luck' \in {"good", "ended", "bad"}
    BY <1>14 DEF LoginFails, Note, TypeOK
  <2> QED  BY <2>1, <2>2, <2>3, RevokeTyped DEF TypeOK
<1>12. ASSUME NEW t \in Tabs, NEW k \in {"me", "call"}, Send(t, k)  PROVE TypeOK'
  BY <1>12 DEF Send, TypeOK
<1> QED  BY <1>1, <1>2, <1>3, <1>4, <1>5, <1>6, <1>7, <1>8, <1>9, <1>10, <1>11, <1>12,
            <1>13, <1>14
         DEF Next, Progress

(* Every variable holds a value of its kind.                               *)
THEOREM TypeCorrect == Spec => []TypeOK
<1>1. Init => TypeOK /\ Away /\ Logins
  BY ConstAssumption DEF Init, TypeOK, Away, Logins, ConstAssumption
<1>2. TypeOK /\ Away /\ Logins /\ [Next]_vars => (TypeOK /\ Away /\ Logins)'
  BY TypeSteps, AwaySteps, LoginsSteps
<1> QED  BY <1>1, <1>2, PTL DEF Spec

-----------------------------------------------------------------------------
(* The cookie.  As long as nothing has gone wrong, no page is logging out, *)
(* the refresh that is posted has a living token, which is the cookie      *)
(* unless a login has replaced that, and the answer under way has the next *)
(* one.                                                                    *)

GoodInv ==
    /\ InFlight = {} => cookie \in Tokens
    /\ \A t \in Tabs : pc[t] = "posted" => sent[t] \in Tokens /\ cookie \in Tokens
    /\ \A t \in Tabs : pc[t] = "answered" => got[t] \in Tokens
    /\ \A t \in Tabs : page[t] # "leaving"

SessionInv == luck = "good" => GoodInv

Inv == TypeOK /\ LockInv /\ Away /\ Logins /\ SessionInv

(* The step of a tab whose refresh is not under way afterwards.            *)
LEMMA QuitKeepsSession ==
    ASSUME Inv, NEW t, Quits(t), luck' = "good", luck = "good",
           pc[t] # "answered",
           cookie' = cookie,
           \A u \in Tabs \ {t} : sent'[u] = sent[u] /\ got'[u] = got[u],
           \A u \in Tabs : page'[u] # "leaving"
    PROVE  SessionInv'
<1>1. GoodInv /\ LockInv /\ t \in Tabs
  BY DEF Inv, SessionInv, Quits
<1>2. /\ \A u \in Tabs \ {t} : pc'[u] = pc[u]
      /\ pc'[t] \notin {"posted", "answered"}
      /\ InFlight' = InFlight \ {t}
  BY <1>1 DEF Quits, LockInv, InFlight
<1>3. InFlight' = {} => cookie \in Tokens
  <2>1. CASE InFlight = {}
    BY <1>1, <2>1 DEF GoodInv
  <2>2. CASE t \in InFlight
    BY <1>1, <2>2 DEF GoodInv, InFlight
  <2> QED  BY <1>2, <2>1, <2>2
<1>4. /\ \A u \in Tabs : pc'[u] = "posted" => sent'[u] \in Tokens /\ cookie' \in Tokens
      /\ \A u \in Tabs : pc'[u] = "answered" => got'[u] \in Tokens
  BY <1>1, <1>2 DEF GoodInv
<1> QED  BY <1>3, <1>4 DEF SessionInv, GoodInv

(* A refresh that fails in good luck was posted with the living token, or  *)
(* not yet posted.                                                         *)
LEMMA FailKeepsSession ==
    ASSUME Inv, NEW t \in Tabs, NEW why \in BOOLEAN, NEW bad,
           RefreshFailed(t, why, bad),
           pc[t] # "answered", cookie' = cookie,
           \A u \in Tabs \ {t} : sent'[u] = sent[u] /\ got'[u] = got[u]
    PROVE  SessionInv'
<1> SUFFICES ASSUME luck' = "good"  PROVE SessionInv'
  BY DEF SessionInv
<1>1. luck = "good" /\ page'[t] # "leaving"
  BY DEF RefreshFailed, Note
<1>2. \A u \in Tabs : page[u] # "leaving"
  BY <1>1 DEF Inv, SessionInv, GoodInv
<1>3. \A u \in Tabs \ {t} : page'[u] = page[u]
  BY DEF RefreshFailed, Inv, TypeOK
<1>4. Quits(t)
  BY DEF RefreshFailed, Quits
<1> QED  BY <1>1, <1>2, <1>3, <1>4, QuitKeepsSession

LEMMA CheckKeepsSession ==
    ASSUME Inv, NEW t \in Tabs, CheckLock(t)
    PROVE  SessionInv'
<1>1. pc[t] = "check" /\ UNCHANGED <<sent, got, cookie>>
  BY DEF CheckLock
<1>2. CASE RefreshFailed(t, FALSE, OthersInFlight(t))
  BY <1>1, <1>2, FailKeepsSession
<1>3. CASE /\ UNCHANGED <<page, luck>>
           /\ \E next \in {"delay", "post"} : pc' = [pc EXCEPT ![t] = next]
  <2>1. /\ \A u \in Tabs : pc'[u] = "posted" <=> pc[u] = "posted"
        /\ \A u \in Tabs : pc'[u] = "answered" <=> pc[u] = "answered"
    BY <1>1, <1>3 DEF Inv, LockInv
  <2>2. InFlight' = InFlight
    BY <2>1 DEF InFlight
  <2> QED  BY <1>1, <1>3, <2>1, <2>2 DEF Inv, SessionInv, GoodInv
<1> QED  BY <1>2, <1>3 DEF CheckLock, Retry

LEMMA PostKeepsSession ==
    ASSUME Inv, NEW t \in Tabs, Post(t)
    PROVE  SessionInv'
<1> SUFFICES ASSUME luck' = "good"  PROVE SessionInv'
  BY DEF SessionInv
<1>1. luck = "good"
  BY DEF Post, Note
<1>2. InFlight = {} /\ GoodInv
  BY <1>1 DEF Inv, LockInv, NoneWhilePosting, Post, SessionInv
<1>3. cookie \in Tokens /\ cookie' = cookie /\ page' = page
  BY <1>2 DEF GoodInv, Post
<1>4. pc'[t] = "posted" /\ sent'[t] = cookie /\ \A u \in Tabs \ {t} : pc'[u] = pc[u]
  BY DEF Post, Inv, TypeOK
<1>5. \A u \in Tabs \ {t} : pc'[u] \notin {"posted", "answered"}
  BY <1>2, <1>4 DEF InFlight
<1> QED  BY <1>2, <1>3, <1>4, <1>5 DEF SessionInv, GoodInv

LEMMA ServeKeepsSession ==
    ASSUME Inv, NEW t \in Tabs, ServeRefresh(t)
    PROVE  SessionInv'
<1> SUFFICES ASSUME luck = "good"  PROVE GoodInv'
  BY DEF SessionInv, ServeRefresh
<1>1. GoodInv /\ pc[t] = "posted" /\ page' = page
  BY DEF Inv, SessionInv, ServeRefresh
<1>2. sent[t] \in Tokens
  BY <1>1 DEF GoodInv
<1>3. Unused # {} /\ Answer(t, Fresh, {sent[t]}, "rotated")
  BY <1>2, ConstAssumption DEF ServeRefresh, ConstAssumption
<1>4. got'[t] = Fresh /\ Fresh \in Tokens
  BY <1>3, FreshIsFound DEF Answer
<1>5. pc'[t] = "answered" /\ \A u \in Tabs \ {t} : pc'[u] = pc[u]
  BY DEF ServeRefresh, Inv, TypeOK
<1>6. \A u \in Tabs \ {t} : pc[u] \notin {"posted", "answered"}
  BY <1>1 DEF Inv, LockInv, AtMostOne, InFlight
<1>7. InFlight' # {}
  BY <1>5 DEF InFlight
<1> QED  BY <1>1, <1>4, <1>5, <1>6, <1>7 DEF GoodInv

LEMMA AnswerKeepsSession ==
    ASSUME Inv, NEW t \in Tabs, RefreshAnswered(t)
    PROVE  SessionInv'
<1> SUFFICES ASSUME luck' = "good"  PROVE GoodInv'
  BY DEF SessionInv
<1>1. luck = "good"
  BY DEF RefreshAnswered, Note, Retry, RefreshFailed
<1>2. GoodInv /\ pc[t] = "answered" /\ got[t] \in Tokens
  BY <1>1 DEF Inv, SessionInv, GoodInv, RefreshAnswered
<1>3. /\ cookie' = got[t] /\ page' = page
      /\ pc' = [pc EXCEPT ![t] = IF kind[t] = "restore" THEN "sent" ELSE "resent"]
  BY <1>2, ConstAssumption DEF RefreshAnswered, SetCookie, ConstAssumption
<1>4. \A u \in Tabs \ {t} : pc[u] \notin {"posted", "answered"}
  BY <1>1, <1>2 DEF Inv, LockInv, AtMostOne, InFlight
<1>5. \A u \in Tabs : pc'[u] \notin {"posted", "answered"}
  BY <1>3, <1>4 DEF Inv, TypeOK
<1> QED  BY <1>2, <1>3, <1>5 DEF GoodInv

(* Steps that leave the refreshes and the cookie alone.                    *)
LEMMA AsideKeepsSession ==
    ASSUME Inv, luck' = "good" => luck = "good",
           luck' = "good" => \A t \in Tabs : page'[t] # "leaving",
           UNCHANGED <<sent, got, cookie>>,
           \A t \in Tabs : /\ pc'[t] = "posted" <=> pc[t] = "posted"
                           /\ pc'[t] = "answered" <=> pc[t] = "answered"
    PROVE  SessionInv'
<1>1. InFlight' = InFlight
  BY DEF InFlight
<1> QED  BY <1>1 DEF Inv, SessionInv, GoodInv

LEMMA RequestKeepsSession ==
    ASSUME Inv, NEW t \in Tabs, RequestAnswered(t)
    PROVE  SessionInv'
<1>1. pc[t] \in {"sent", "resent"} /\ UNCHANGED <<sent, got, cookie>>
  BY DEF RequestAnswered
<1>2. \E next \in {"idle", "check"} : pc' = [pc EXCEPT ![t] = next]
  BY DEF RequestAnswered, EndRequest, StartRefresh
<1>3. \A u \in Tabs : /\ pc'[u] = "posted" <=> pc[u] = "posted"
                      /\ pc'[u] = "answered" <=> pc[u] = "answered"
  BY <1>1, <1>2 DEF Inv, TypeOK
<1>4. luck' = "good" => luck = "good"
  BY DEF RequestAnswered, EndRequest, Note
<1>5. luck' = "good" => \A u \in Tabs : page'[u] # "leaving"
  <2> SUFFICES ASSUME luck' = "good", NEW u \in Tabs  PROVE page'[u] # "leaving"
    OBVIOUS
  <2>1. page[u] # "leaving"
    BY <1>4 DEF Inv, SessionInv, GoodInv
  <2>2. ASSUME NEW ok \in BOOLEAN, EndRequest(t, ok)  PROVE page'[u] # "leaving"
    <3>1. page'[t] # "leaving"
      BY <2>2 DEF EndRequest, Note
    <3>2. u # t => page'[u] = page[u]
      BY <2>2 DEF EndRequest, Inv, TypeOK
    <3> QED  BY <2>1, <3>1, <3>2
  <2>3. CASE UNCHANGED page
    BY <2>1, <2>3
  <2> QED  BY <2>2, <2>3 DEF RequestAnswered
<1> QED  BY <1>1, <1>3, <1>4, <1>5, AsideKeepsSession

LEMMA SessionSteps ==
    ASSUME Inv, [Next]_vars
    PROVE  SessionInv'
<1>1. TypeOK
  BY DEF Inv
<1>2. ASSUME NEW t \in Tabs, Lose(t)  PROVE SessionInv'
  <2>1. RefreshFailed(t, FALSE, OthersInFlight(t) \/ pc[t] = "answered") /\ cookie' = cookie
    BY <1>2 DEF Lose
  <2>2. \A u \in Tabs \ {t} : sent'[u] = sent[u] /\ got'[u] = got[u]
    BY <1>1, <1>2 DEF Lose, TypeOK
  <2>3. CASE pc[t] = "answered"
    <3>1. luck' = "bad"
      BY <2>1, <2>3 DEF RefreshFailed, Note
    <3> QED  BY <3>1 DEF SessionInv
  <2>4. CASE pc[t] # "answered"
    BY <2>1, <2>2, <2>4, FailKeepsSession
  <2> QED  BY <2>3, <2>4
<1>3. ASSUME NEW t \in Tabs, Leave(t)  PROVE SessionInv'
  <2>1. luck' = luck /\ page[t] = "leaving"
    BY <1>3 DEF Leave
  <2> QED  BY <2>1 DEF Inv, SessionInv, GoodInv
<1>4. ASSUME NEW t \in Tabs, LoginAnswered(t)  PROVE SessionInv'
  <2> SUFFICES ASSUME luck' = "good"  PROVE GoodInv'
    BY DEF SessionInv
  <2>1. /\ got[t] \in Tokens /\ cookie' = got[t] /\ UNCHANGED sent
        /\ \A u \in Tabs \ {t} : pc'[u] = pc[u] /\ got'[u] = got[u] /\ page'[u] = page[u]
        /\ pc'[t] = "idle" /\ page'[t] = "in"
        /\ (InFlight = {} /\ \A u \in Tabs : page[u] # "leaving") \/ luck = "good"
    BY <1>1, <1>4 DEF LoginAnswered, Note, TypeOK
  <2>2. CASE luck = "good"
    BY <2>1, <2>2 DEF Inv, SessionInv, GoodInv
  <2>3. CASE InFlight = {} /\ \A u \in Tabs : page[u] # "leaving"
    BY <2>1, <2>3 DEF GoodInv, InFlight
  <2> QED  BY <2>1, <2>2, <2>3
<1>11. ASSUME NEW t \in Tabs, Login(t)  PROVE SessionInv'
  <2> SUFFICES ASSUME luck' = "good"  PROVE SessionInv'
    BY DEF SessionInv
  <2>1. /\ luck = "good" /\ UNCHANGED <<cookie, page, sent>> /\ pc[t] = "idle"
        /\ \A u \in Tabs \ {t} : got'[u] = got[u]
    BY <1>1, <1>11 DEF Login, TypeOK
  <2>2. Quits(t) /\ \A u \in Tabs : page'[u] # "leaving"
    BY <1>11, <2>1 DEF Login, Quits, Inv, SessionInv, GoodInv
  <2> QED  BY <2>1, <2>2, QuitKeepsSession
<1>12. ASSUME NEW t \in Tabs, LoginFails(t)  PROVE SessionInv'
  BY <1>12 DEF LoginFails, Note, SessionInv
<1>5. ASSUME NEW t \in Tabs, Logout(t)  PROVE SessionInv'
  BY <1>5 DEF Logout, Note, SessionInv
<1>6. ASSUME NEW t \in Tabs, Close(t)  PROVE SessionInv'
  <2> SUFFICES ASSUME luck' = "good"  PROVE SessionInv'
    BY DEF SessionInv
  <2>1. luck = "good" /\ t \notin InFlight
    BY <1>6 DEF Close, Note
  <2>2. Quits(t) /\ cookie' = cookie
    BY <1>6 DEF Close, Quits
  <2>3. \A u \in Tabs \ {t} : sent'[u] = sent[u] /\ got'[u] = got[u]
    BY <1>1, <1>6 DEF Close, TypeOK
  <2>4. \A u \in Tabs : page'[u] # "leaving"
    BY <1>1, <1>6, <2>1 DEF Close, TypeOK, Inv, SessionInv, GoodInv
  <2>5. pc[t] # "answered"
    BY <2>1 DEF InFlight
  <2> QED  BY <2>1, <2>2, <2>3, <2>4, <2>5, QuitKeepsSession
<1>7. ASSUME NEW t \in Tabs, Open(t)  PROVE SessionInv'
  <2> SUFFICES ASSUME luck' = "good"  PROVE SessionInv'
    BY DEF SessionInv
  <2>1. luck = "good" /\ UNCHANGED <<sent, got, cookie>> /\ page[t] = "closed"
    BY <1>7 DEF Open
  <2>2. GoodInv /\ pc[t] # "answered"
    BY <2>1 DEF Inv, SessionInv, Away
  <2>3. Quits(t) /\ \A u \in Tabs : page'[u] # "leaving"
    BY <1>1, <1>7, <2>2 DEF Open, StartRefresh, Quits, TypeOK, GoodInv
  <2> QED  BY <2>1, <2>2, <2>3, QuitKeepsSession
<1>8. ASSUME NEW t \in Tabs, NEW k \in {"me", "call"}, Send(t, k)  PROVE SessionInv'
  <2>1. UNCHANGED <<page, sent, got, cookie, luck>>
    BY <1>8 DEF Send
  <2>2. \A u \in Tabs : /\ pc'[u] = "posted" <=> pc[u] = "posted"
                        /\ pc'[u] = "answered" <=> pc[u] = "answered"
    BY <1>1, <1>8 DEF Send, TypeOK
  <2>3. luck' = "good" => \A u \in Tabs : page'[u] # "leaving"
    BY <2>1 DEF Inv, SessionInv, GoodInv
  <2> QED  BY <2>1, <2>2, <2>3, AsideKeepsSession
<1>9. CASE Tick
  <2>1. UNCHANGED <<page, sent, got, cookie>> /\ (luck' = "good" => luck = "good")
    BY <1>9 DEF Tick, Note
  <2>2. \A u \in Tabs : /\ pc'[u] = "posted" <=> pc[u] = "posted"
                        /\ pc'[u] = "answered" <=> pc[u] = "answered"
    BY <1>1, <1>9 DEF Tick, TypeOK
  <2>3. luck' = "good" => \A u \in Tabs : page'[u] # "leaving"
    BY <2>1 DEF Inv, SessionInv, GoodInv
  <2> QED  BY <2>1, <2>2, <2>3, AsideKeepsSession
<1>10. CASE UNCHANGED vars
  BY <1>10 DEF vars, tabVars, Inv, SessionInv, GoodInv, InFlight
<1> QED  BY <1>2, <1>3, <1>4, <1>5, <1>6, <1>7, <1>8, <1>9, <1>10, <1>11,
            <1>12, CheckKeepsSession,
            PostKeepsSession, ServeKeepsSession, AnswerKeepsSession, RequestKeepsSession
         DEF Next, Progress

(* The tabs do not end their session: until one of them logs out, and as   *)
(* long as the lock could protect them, the cookie between two refreshes   *)
(* is the living token (refresh, the interceptor, restore).                *)
THEOREM SessionStays == Spec => []SessionSurvives
<1>1. Init => Inv
  BY ConstAssumption
  DEF ConstAssumption, Init, Inv, TypeOK, LockInv, Places, AtMostOne, Protected,
      NoneWhilePosting, Away, Logins, SessionInv, GoodInv, InFlight
<1>2. Inv /\ [Next]_vars => Inv'
  BY LockSteps, TypeSteps, AwaySteps, LoginsSteps, SessionSteps DEF Inv
<1>3. Inv => SessionSurvives
  BY DEF Inv, SessionInv, GoodInv, SessionSurvives
<1> QED  BY <1>1, <1>2, <1>3, PTL DEF Spec

-----------------------------------------------------------------------------
(* The bound on the pool.  Each tab refers to three rows at most, and the  *)
(* browser to one more.                                                    *)

Enough ==
    /\ IsFiniteSet(Tabs)
    /\ \A S \in SUBSET Tokens :
          IsFiniteSet(S) /\ Cardinality(S) <= 3 * Cardinality(Tabs) + 1 => S # Tokens

LEMMA ValuesFinite ==
    ASSUME NEW f, IsFiniteSet(Tabs)
    PROVE  LET V == {f[t] : t \in Tabs}
           IN  IsFiniteSet(V) /\ Cardinality(V) <= Cardinality(Tabs) /\ Cardinality(V) \in Nat
<1> DEFINE V == {f[t] : t \in Tabs}
           g == [t \in Tabs |-> f[t]]
<1>1. g \in Surjection(Tabs, V)
  BY DEF Surjection
<1> HIDE DEF g, V
<1>2. IsFiniteSet(V) /\ Cardinality(V) <= Cardinality(Tabs)
  BY <1>1, FS_Surjection
<1> QED  BY <1>2, FS_CardinalityType DEF V

(* With names enough the bound on the pool never holds a step up, whatever *)
(* the tabs refer to.                                                      *)
THEOREM PoolSuffices ==
    ASSUME Enough
    PROVE  Unused # {}
<1> DEFINE A == {acc[t] : t \in Tabs}
           B == {sent[t] : t \in Tabs}
           C == {got[t] : t \in Tabs}
           D == {cookie}
           n == Cardinality(Tabs)
<1>1. IsFiniteSet(Tabs) /\ n \in Nat
  BY FS_CardinalityType DEF Enough
<1>2. IsFiniteSet(A) /\ Cardinality(A) <= n /\ Cardinality(A) \in Nat
  BY <1>1, ValuesFinite
<1>3. IsFiniteSet(B) /\ Cardinality(B) <= n /\ Cardinality(B) \in Nat
  BY <1>1, ValuesFinite
<1>4. IsFiniteSet(C) /\ Cardinality(C) <= n /\ Cardinality(C) \in Nat
  BY <1>1, ValuesFinite
<1>5. IsFiniteSet(D) /\ Cardinality(D) = 1
  BY FS_Singleton
<1> HIDE DEF A, B, C, D, n
<1>6. /\ IsFiniteSet(A \cup B) /\ Cardinality(A \cup B) \in Nat
      /\ Cardinality(A \cup B) <= 2 * n
  <2>1. IsFiniteSet(A \cup B) /\ IsFiniteSet(A \cap B)
    BY <1>2, <1>3, FS_Union, FS_Intersection
  <2>2. Cardinality(A \cup B) \in Nat /\ Cardinality(A \cap B) \in Nat
    BY <2>1, FS_CardinalityType
  <2>3. Cardinality(A \cup B) = Cardinality(A) + Cardinality(B) - Cardinality(A \cap B)
    BY <1>2, <1>3, FS_Union
  <2> QED  BY <1>1, <1>2, <1>3, <2>1, <2>2, <2>3
<1>7. /\ IsFiniteSet(C \cup D) /\ Cardinality(C \cup D) \in Nat
      /\ Cardinality(C \cup D) <= n + 1
  <2>1. IsFiniteSet(C \cup D) /\ IsFiniteSet(C \cap D)
    BY <1>4, <1>5, FS_Union, FS_Intersection
  <2>2. Cardinality(C \cup D) \in Nat /\ Cardinality(C \cap D) \in Nat
    BY <2>1, FS_CardinalityType
  <2>3. Cardinality(C \cup D) = Cardinality(C) + Cardinality(D) - Cardinality(C \cap D)
    BY <1>4, <1>5, FS_Union
  <2> QED  BY <1>1, <1>4, <1>5, <2>1, <2>2, <2>3
<1> DEFINE E == (A \cup B) \cup (C \cup D)
           S == E \cap Tokens
<1>8. IsFiniteSet(E) /\ Cardinality(E) \in Nat /\ Cardinality(E) <= 3 * n + 1
  <2>1. IsFiniteSet(E) /\ IsFiniteSet((A \cup B) \cap (C \cup D))
    BY <1>6, <1>7, FS_Union, FS_Intersection
  <2>2. Cardinality(E) \in Nat /\ Cardinality((A \cup B) \cap (C \cup D)) \in Nat
    BY <2>1, FS_CardinalityType
  <2>3. Cardinality(E) = Cardinality(A \cup B) + Cardinality(C \cup D)
                            - Cardinality((A \cup B) \cap (C \cup D))
    BY <1>6, <1>7, FS_Union
  <2> QED  BY <1>1, <1>6, <1>7, <2>1, <2>2, <2>3
<1>9. IsFiniteSet(S) /\ Cardinality(S) \in Nat /\ Cardinality(S) <= Cardinality(E)
  BY <1>8, FS_Subset, FS_CardinalityType
<1>10. Cardinality(S) <= 3 * n + 1
  BY <1>1, <1>8, <1>9
<1>11. S # Tokens
  BY <1>9, <1>10 DEF Enough, n
<1>12. PICK tok \in Tokens : tok \notin E
  BY <1>11
<1>13. tok # cookie /\ \A t \in Tabs : tok \notin {acc[t], sent[t], got[t]}
  BY <1>12 DEF A, B, C, D
<1> QED  BY <1>13 DEF Unused
=============================================================================
