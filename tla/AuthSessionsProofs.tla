------------------------- MODULE AuthSessionsProofs -------------------------
(***************************************************************************)
(* Proofs about AuthSessions, for any accounts, tokens, number of          *)
(* concurrent requests and times, with and without failures.               *)
(*                                                                         *)
(* Inv is the inductive invariant.  Beside the types it says what a        *)
(* request in progress may rely on although the row it read is stale:      *)
(* owner and expiry never change, a revoked row stays revoked, and a row   *)
(* with reason Regular has a successor.                                    *)
(***************************************************************************)
EXTENDS AuthSessions, TLAPS

(* The conditions of the handlers are expanded in every step.              *)
USE DEF Unrevoked, Replayed, Hit

Exchanged(t) == \E n \in Tokens : hist[n] # None /\ hist[n].parent = t

(* The row that was read and the row as it is now are of one session.      *)
StillMatches(old, row) ==
    /\ row # None
    /\ row.user = old.user /\ row.expiresAt = old.expiresAt
    /\ old.revokedAt # None => row.revokedAt # None

SlotOK(r) ==
    /\ pc[r] # "idle" => acct[r] \in Accounts
    /\ pc[r] \in {"mint", "verify", "save"} => snap[r] = None
    /\ pc[r] \in {"rotate", "revoke"} => snap[r] # None
    /\ snap[r] # None =>
          /\ pc[r] # "idle"
          /\ tok[r] \in Tokens
          /\ acct[r] = snap[r].user
          /\ StillMatches(snap[r], rows[tok[r]])
          /\ snap[r].reason = "Regular" => Exchanged(tok[r])
          /\ pc[r] = "revokeAll" => snap[r].reason = "Regular"

RowOK(t) ==
    /\ rows[t] = None <=> hist[t] = None
    /\ rows[t] # None /\ rows[t].reason = "Regular" => Exchanged(t)

Inv ==
    /\ TypeOK
    /\ \A r \in Reqs : SlotOK(r)
    /\ \A t \in Tokens : RowOK(t)
    /\ LineageIsSound

(* A step leaves the session of a row, and its revocation, as they were.   *)
Forward(t) ==
    rows[t] # None =>
        /\ StillMatches(rows[t], rows'[t])
        /\ hist'[t] # None /\ hist'[t].parent = hist[t].parent

-----------------------------------------------------------------------------

(* What Begin needs to keep the types.                                     *)
LEMMA BeginTypes ==
    ASSUME NEW r \in Reqs, NEW step \in Steps, NEW a \in Accounts,
           NEW t \in Tokens \cup {None}, NEW row \in Row \cup {None},
           NEW c \in Nat, TypeOK, Begin(r, step, a, t, row, c)
    PROVE  /\ pc' \in [Reqs -> Steps]
           /\ acct' \in [Reqs -> Accounts \cup {None}]
           /\ tok' \in [Reqs -> Tokens \cup {None}]
           /\ snap' \in [Reqs -> Row \cup {None}]
           /\ at' \in [Reqs -> Nat]
           /\ seen' \in [Reqs -> Seen]
BY DEF TypeOK, Begin, Seen

(* What Finish and Clear need to keep the types.                           *)
LEMMA FinishTypes ==
    ASSUME NEW r \in Reqs, TypeOK, Clear(r)
    PROVE  /\ pc' \in [Reqs -> Steps]
           /\ acct' \in [Reqs -> Accounts \cup {None}]
           /\ tok' \in [Reqs -> Tokens \cup {None}]
           /\ snap' \in [Reqs -> Row \cup {None}]
           /\ at' \in [Reqs -> Nat]
           /\ Finish(r) => seen' \in [Reqs -> Seen]
<1>1. pc' \in [Reqs -> Steps] /\ at' \in [Reqs -> Nat]
  BY DEF TypeOK, Clear, Steps
<1>2. /\ acct' \in [Reqs -> Accounts \cup {None}]
      /\ tok' \in [Reqs -> Tokens \cup {None}]
      /\ snap' \in [Reqs -> Row \cup {None}]
  BY DEF TypeOK, Clear
<1>3. ASSUME Finish(r) PROVE seen' \in [Reqs -> Seen]
  <2>1. Unseen \in Seen
    BY DEF Unseen, Seen
  <2> QED  BY <1>3, <2>1 DEF TypeOK, Finish
<1> QED  BY <1>1, <1>2, <1>3

(* Every action keeps the types.                                           *)
LEMMA TypeStep == Inv /\ [Next]_vars => TypeOK'
<1> SUFFICES ASSUME Inv, [Next]_vars PROVE TypeOK'
  OBVIOUS
<1> USE ConstAssumption
<1>t. TypeOK
  BY DEF Inv
<1>r. \A t \in Tokens : Live(t) \/ rows[t] # None =>
        /\ rows[t] \in Row /\ rows[t].user \in Accounts
        /\ hist[t] \in History /\ hist[t].cred \in Nat
  BY DEF Inv, TypeOK, RowOK, Live, Row, History
<1>1. ASSUME NEW r \in Reqs, NEW a \in Accounts, Login(r, a) PROVE TypeOK'
  <2>1. "mint" \in Steps /\ cred[a] \in Nat
    BY <1>t DEF Steps, TypeOK
  <2> QED  BY <1>1, <1>t, <2>1, BeginTypes DEF Login, TypeOK
<1>2. ASSUME NEW r \in Reqs, Mint(r) PROVE TypeOK'
  <2>1. acct[r] \in Accounts /\ at[r] \in Nat /\ seen[r] \in Seen
    BY <1>2, <1>t DEF Mint, Inv, SlotOK, TypeOK
  <2>2. PICK n \in Free :
          /\ rows' = [rows EXCEPT ![n] = NewRow(acct[r], at[r])]
          /\ hist' = [hist EXCEPT ![n] =
                        [parent |-> None, cred |-> seen[r].cred,
                         fresh |-> seen[r].fresh]]
    BY <1>2 DEF Mint
  <2>3. NewRow(acct[r], at[r]) \in Row
    BY <2>1 DEF NewRow, Row
  <2>4. rows' \in [Tokens -> Row \cup {None}]
    BY <1>t, <2>2, <2>3 DEF TypeOK, Free
  <2>5. hist' \in [Tokens -> History \cup {None}]
    BY <1>t, <2>1, <2>2 DEF TypeOK, Free, History, Seen
  <2> QED  BY <1>2, <1>t, <2>4, <2>5, FinishTypes DEF Mint, Finish, TypeOK
<1>3. ASSUME NEW r \in Reqs, NEW t \in Tokens, Refresh(r, t) PROVE TypeOK'
  <2>1. "rotate" \in Steps /\ rows[t].user \in Accounts /\ rows[t] \in Row
        /\ hist[t].cred \in Nat
    BY <1>3, <1>r DEF Refresh, Steps
  <2> QED  BY <1>3, <1>t, <2>1, BeginTypes DEF Refresh, TypeOK
<1>4. ASSUME NEW r \in Reqs, RotateExpired(r) PROVE TypeOK'
  BY <1>4, <1>t, FinishTypes DEF RotateExpired, Finish, TypeOK
<1>5. ASSUME NEW r \in Reqs, RotateRecentlyRevoked(r) PROVE TypeOK'
  <2>1. tok[r] \in Tokens /\ rows[tok[r]] \in Row /\ at[r] \in Nat
    BY <1>5, <1>t DEF RotateRecentlyRevoked, Inv, SlotOK, StillMatches, TypeOK
  <2>2. [rows[tok[r]] EXCEPT !.revokedAt = at[r]] \in Row
    BY <2>1 DEF Row
  <2>3. rows' \in [Tokens -> Row \cup {None}]
    BY <1>5, <1>t, <2>2 DEF RotateRecentlyRevoked, TypeOK
  <2> QED  BY <1>5, <1>t, <2>3, FinishTypes DEF RotateRecentlyRevoked, Finish, TypeOK
<1>6. ASSUME NEW r \in Reqs, RotateRevoked(r) PROVE TypeOK'
  <2>1. CASE Goto(r, "revokeAll")
    BY <1>6, <1>t, <2>1 DEF RotateRevoked, Goto, TypeOK, Steps
  <2>2. CASE Finish(r)
    BY <1>6, <1>t, <2>2, FinishTypes DEF RotateRevoked, Finish, TypeOK
  <2> QED  BY <1>6, <2>1, <2>2 DEF RotateRevoked
<1>7. ASSUME NEW r \in Reqs, RotateLive(r) PROVE TypeOK'
  <2>1. /\ tok[r] \in Tokens /\ rows[tok[r]] \in Row /\ at[r] \in Nat
        /\ snap[r] \in Row /\ seen[r] \in Seen
    BY <1>7, <1>t DEF RotateLive, Inv, SlotOK, StillMatches, TypeOK
  <2>2. PICK n \in Free :
          /\ rows' = [rows EXCEPT
                        ![tok[r]] = Revoked(rows[tok[r]], at[r], "Regular"),
                        ![n] = NewRow(snap[r].user, at[r])]
          /\ hist' = [hist EXCEPT ![n] =
                        [parent |-> tok[r], cred |-> seen[r].cred,
                         fresh |-> seen[r].fresh]]
    BY <1>7 DEF RotateLive
  <2>3. NewRow(snap[r].user, at[r]) \in Row
    BY <2>1 DEF NewRow, Row
  <2>4. Revoked(rows[tok[r]], at[r], "Regular") \in Row
    BY <2>1 DEF Revoked, Row, Reasons
  <2>5. rows' \in [Tokens -> Row \cup {None}]
    BY <1>t, <2>2, <2>3, <2>4 DEF TypeOK, Free
  <2>6. hist' \in [Tokens -> History \cup {None}]
    BY <1>t, <2>1, <2>2 DEF TypeOK, Free, History, Seen
  <2> QED  BY <1>7, <1>t, <2>5, <2>6, FinishTypes DEF RotateLive, Finish, TypeOK
<1>8. ASSUME NEW r \in Reqs, NEW t \in Tokens, Logout(r, t) PROVE TypeOK'
  <2>1. "revoke" \in Steps /\ rows[t].user \in Accounts /\ rows[t] \in Row
        /\ hist[t].cred \in Nat
    BY <1>8, <1>r DEF Logout, Steps
  <2> QED  BY <1>8, <1>t, <2>1, BeginTypes DEF Logout, TypeOK
<1>9. ASSUME NEW r \in Reqs, Revoke(r) PROVE TypeOK'
  <2>1. tok[r] \in Tokens /\ rows[tok[r]] \in Row /\ at[r] \in Nat
    BY <1>9, <1>t DEF Revoke, Inv, SlotOK, StillMatches, TypeOK
  <2>2. Revoked(rows[tok[r]], at[r], "Security") \in Row
    BY <2>1 DEF Revoked, Row, Reasons
  <2>3. rows' \in [Tokens -> Row \cup {None}]
    BY <1>9, <1>t, <2>2 DEF Revoke, TypeOK
  <2> QED  BY <1>9, <1>t, <2>3, FinishTypes DEF Revoke, Finish, TypeOK
<1>10. ASSUME NEW r \in Reqs, NEW t \in Tokens, LogoutAll(r, t) PROVE TypeOK'
  <2>1. "revokeAll" \in Steps /\ rows[t].user \in Accounts /\ hist[t].cred \in Nat
    BY <1>10, <1>r DEF LogoutAll, Accepted, Steps
  <2> QED  BY <1>10, <1>t, <2>1, BeginTypes DEF LogoutAll, TypeOK
<1>11. ASSUME NEW r \in Reqs, RevokeAll(r) PROVE TypeOK'
  <2>1. ASSUME NEW t \in Tokens, Live(t)
        PROVE  Revoked(rows[t], at[r], "Security") \in Row
    <3>1. rows[t] \in Row /\ at[r] \in Nat
      BY <1>t, <2>1 DEF Live, TypeOK
    <3> QED  BY <3>1 DEF Revoked, Row, Reasons
  <2>2. rows' \in [Tokens -> Row \cup {None}]
    BY <1>11, <1>t, <2>1 DEF RevokeAll, TypeOK
  <2>3. \A t \in Tokens : rows[t] # None => [hist[t] EXCEPT !.fresh = FALSE] \in History
    BY <1>r DEF History
  <2>4. hist' \in [Tokens -> History \cup {None}]
    BY <1>11, <1>t, <2>3 DEF RevokeAll, TypeOK
  <2>5. seen' \in [Reqs -> Seen]
    BY <1>11, <1>t DEF RevokeAll, TypeOK, Seen, Unseen
  <2> QED  BY <1>11, <1>t, <2>2, <2>4, <2>5, FinishTypes DEF RevokeAll, TypeOK
<1>12. ASSUME NEW r \in Reqs, NEW t \in Tokens, ChangePassword(r, t) PROVE TypeOK'
  <2>1. "verify" \in Steps /\ rows[t].user \in Accounts
    BY <1>12, <1>r DEF ChangePassword, Accepted, Steps
  <2>2. cred[rows[t].user] \in Nat
    BY <2>1, <1>t DEF TypeOK
  <2> QED  BY <1>12, <1>t, <2>1, <2>2, BeginTypes DEF ChangePassword, TypeOK
<1>13. ASSUME NEW r \in Reqs, Verify(r) PROVE TypeOK'
  <2>1. CASE Goto(r, "save")
    BY <1>13, <1>t, <2>1 DEF Verify, Goto, TypeOK, Steps
  <2>2. CASE Finish(r)
    BY <1>13, <1>t, <2>2, FinishTypes DEF Verify, Finish, TypeOK
  <2> QED  BY <1>13, <2>1, <2>2 DEF Verify
<1>14. ASSUME NEW r \in Reqs, NEW a \in Accounts, Recover(r, a) PROVE TypeOK'
  <2>1. "save" \in Steps /\ cred[a] \in Nat
    BY <1>t DEF Steps, TypeOK
  <2> QED  BY <1>14, <1>t, <2>1, BeginTypes DEF Recover, TypeOK
<1>15. ASSUME NEW r \in Reqs, SaveCredentials(r) PROVE TypeOK'
  <2>1. acct[r] \in Accounts /\ cred[acct[r]] + 1 \in Nat
    BY <1>15, <1>t DEF SaveCredentials, Inv, SlotOK, TypeOK
  <2>2. cred' \in [Accounts -> Nat]
    BY <1>15, <1>t, <2>1 DEF SaveCredentials, TypeOK
  <2> QED  BY <1>15, <1>t, <2>2 DEF SaveCredentials, Goto, TypeOK, Steps
<1>16. ASSUME NEW r \in Reqs, Fail(r) PROVE TypeOK'
  BY <1>16, <1>t, FinishTypes DEF Fail, Finish, TypeOK
<1>17. CASE Tick
  BY <1>17, <1>t DEF Tick, TypeOK, reqVars, ghosts
<1>18. CASE UNCHANGED vars
  BY <1>18, <1>t DEF vars, TypeOK
<1>19. ASSUME NEW r \in Reqs, Advance(r) \/ Fail(r) PROVE TypeOK'
  BY <1>19, <1>2, <1>4, <1>5, <1>6, <1>7, <1>9, <1>11, <1>13, <1>15, <1>16
     DEF Advance
<1> QED
  BY <1>1, <1>3, <1>8, <1>10, <1>12, <1>14, <1>17, <1>18, <1>19 DEF Next

-----------------------------------------------------------------------------

(* Rows only move forward: none is deleted, changes hands or expiry, or is *)
(* un-revoked, whatever stale copies are written.                          *)
LEMMA ForwardStep == Inv /\ [Next]_vars => \A t \in Tokens : Forward(t)
<1> SUFFICES ASSUME Inv, [Next]_vars, NEW t \in Tokens, rows[t] # None
             PROVE  /\ StillMatches(rows[t], rows'[t])
                    /\ hist'[t] # None /\ hist'[t].parent = hist[t].parent
  BY DEF Forward
<1> USE ConstAssumption
<1>t. TypeOK /\ rows[t] \in Row /\ hist[t] # None /\ hist[t] \in History
  BY DEF Inv, TypeOK, RowOK
<1>n. \A x \in Nat \cup Row \cup History : x # None
  OBVIOUS
<1>w. \A now \in Nat, why \in Reasons, row \in Row :
        /\ Revoked(row, now, why) \in Row
        /\ StillMatches(row, Revoked(row, now, why))
  <2> SUFFICES ASSUME NEW now \in Nat, NEW why \in Reasons, NEW row \in Row
               PROVE  /\ Revoked(row, now, why) \in Row
                      /\ StillMatches(row, Revoked(row, now, why))
    OBVIOUS
  <2>1. Revoked(row, now, why) \in Row
    BY DEF Revoked, Row
  <2> QED  BY <2>1, <1>n DEF Revoked, Row, StillMatches
<1>0. CASE UNCHANGED <<rows, hist>>
  BY <1>0, <1>t DEF StillMatches
<1>1. ASSUME NEW r \in Reqs, Mint(r) PROVE Forward(t)
  BY <1>1, <1>t DEF Mint, Free, Forward, StillMatches, TypeOK
<1>2. ASSUME NEW r \in Reqs, RotateRecentlyRevoked(r) PROVE Forward(t)
  <2>1. at[r] \in Nat /\ tok[r] \in Tokens /\ rows[tok[r]] \in Row
    BY <1>2, <1>t DEF RotateRecentlyRevoked, Inv, SlotOK, StillMatches, TypeOK
  <2>2. CASE t = tok[r]
    BY <1>2, <1>t, <2>1, <2>2
       DEF RotateRecentlyRevoked, Forward, StillMatches, TypeOK, Row
  <2>3. CASE t # tok[r]
    BY <1>2, <1>t, <2>3 DEF RotateRecentlyRevoked, Forward, StillMatches, TypeOK
  <2> QED  BY <2>2, <2>3
<1>3. ASSUME NEW r \in Reqs, RotateLive(r) PROVE Forward(t)
  <2>1. at[r] \in Nat /\ tok[r] \in Tokens /\ rows[tok[r]] \in Row
    BY <1>3, <1>t DEF RotateLive, Inv, SlotOK, StillMatches, TypeOK
  <2>2. PICK n \in Free :
          /\ rows' = [rows EXCEPT
                        ![tok[r]] = Revoked(rows[tok[r]], at[r], "Regular"),
                        ![n] = NewRow(snap[r].user, at[r])]
          /\ hist' = [hist EXCEPT ![n] =
                        [parent |-> tok[r], cred |-> seen[r].cred,
                         fresh |-> seen[r].fresh]]
    BY <1>3 DEF RotateLive
  <2>3. n # t /\ hist'[t] = hist[t]
    BY <1>t, <2>2 DEF Free, TypeOK
  <2>4. CASE t = tok[r]
    <3>1. "Regular" \in Reasons
      BY DEF Reasons
    <3>2. rows'[t] = Revoked(rows[t], at[r], "Regular")
      BY <1>t, <2>2, <2>3, <2>4 DEF TypeOK
    <3> QED  BY <1>t, <1>w, <2>1, <2>3, <3>1, <3>2 DEF Forward
  <2>5. CASE t # tok[r]
    BY <1>t, <2>2, <2>3, <2>5 DEF Forward, StillMatches, TypeOK
  <2> QED  BY <2>4, <2>5
<1>4. ASSUME NEW r \in Reqs, Revoke(r) PROVE Forward(t)
  <2>1. at[r] \in Nat /\ tok[r] \in Tokens /\ rows[tok[r]] \in Row
    BY <1>4, <1>t DEF Revoke, Inv, SlotOK, StillMatches, TypeOK
  <2>2. CASE t = tok[r]
    <3>1. "Security" \in Reasons
      BY DEF Reasons
    <3>2. rows'[t] = Revoked(rows[t], at[r], "Security") /\ hist'[t] = hist[t]
      BY <1>4, <1>t, <2>2 DEF Revoke, TypeOK
    <3> QED  BY <1>t, <1>w, <2>1, <3>1, <3>2 DEF Forward
  <2>3. CASE t # tok[r]
    BY <1>4, <1>t, <2>3 DEF Revoke, Forward, StillMatches, TypeOK
  <2> QED  BY <2>2, <2>3
<1>5. ASSUME NEW r \in Reqs, RevokeAll(r) PROVE Forward(t)
  <2>1. at[r] \in Nat /\ "Security" \in Reasons
    BY <1>5, <1>t DEF TypeOK, Reasons
  <2>2. StillMatches(rows[t], rows'[t])
    <3>1. CASE rows'[t] = Revoked(rows[t], at[r], "Security")
      BY <1>t, <1>w, <2>1, <3>1
    <3>2. CASE rows'[t] = rows[t]
      BY <1>t, <3>2 DEF StillMatches
    <3> QED  BY <1>5, <3>1, <3>2 DEF RevokeAll
  <2>3. hist'[t] \in History /\ hist'[t].parent = hist[t].parent
    BY <1>5, <1>t DEF RevokeAll, History
  <2> QED  BY <2>2, <2>3, <1>n DEF Forward
<1>6. ASSUME NEW r \in Reqs, Advance(r) \/ Fail(r) PROVE Forward(t)
  BY <1>6, <1>0, <1>1, <1>2, <1>3, <1>4, <1>5
     DEF Advance, Forward, RotateExpired, RotateRevoked, Verify, SaveCredentials, Fail
<1>7. ASSUME NEW r \in Reqs,
             \/ \E a \in Accounts : Login(r, a) \/ Recover(r, a)
             \/ \E u \in Tokens : \/ Refresh(r, u) \/ Logout(r, u)
                                  \/ LogoutAll(r, u) \/ ChangePassword(r, u)
      PROVE  Forward(t)
  BY <1>7, <1>0 DEF Forward, Login, Recover, Refresh, Logout, LogoutAll, ChangePassword
<1> QED
  BY <1>0, <1>6, <1>7 DEF Next, Forward, Tick, ghosts, vars

(* A token that was exchanged once stays so.                               *)
LEMMA ExchangedStep ==
    ASSUME Inv, [Next]_vars, NEW t \in Tokens, Exchanged(t)
    PROVE  Exchanged(t)'
<1>1. PICK n \in Tokens : hist[n] # None /\ hist[n].parent = t
  BY DEF Exchanged
<1>2. rows[n] # None
  BY <1>1 DEF Inv, RowOK
<1>3. hist'[n] # None /\ hist'[n].parent = t
  BY <1>1, <1>2, ForwardStep DEF Forward
<1> QED  BY <1>3 DEF Exchanged

(* A slot keeps its invariant while other requests move.                   *)
LEMMA UnmovedSlot ==
    ASSUME Inv, [Next]_vars, NEW r \in Reqs,
           /\ pc'[r] = pc[r] /\ acct'[r] = acct[r]
           /\ tok'[r] = tok[r] /\ snap'[r] = snap[r]
    PROVE  SlotOK(r)'
<1>1. SlotOK(r)
  BY DEF Inv
<1>2. snap[r] # None => StillMatches(snap[r], rows'[tok[r]])
  BY <1>1, ForwardStep DEF SlotOK, Forward, StillMatches
<1>3. ASSUME snap[r] # None, snap[r].reason = "Regular"
      PROVE  \E n \in Tokens : hist'[n] # None /\ hist'[n].parent = tok[r]
  <2>1. PICK t \in Tokens : t = tok[r]
    BY <1>1, <1>3 DEF SlotOK
  <2>2. Exchanged(t)
    BY <1>1, <1>3, <2>1 DEF SlotOK, Exchanged
  <2>3. Exchanged(t)'
    BY <2>2, ExchangedStep
  <2> QED  BY <2>1, <2>3 DEF Exchanged
<1> QED  BY <1>1, <1>2, <1>3 DEF SlotOK, StillMatches, Exchanged

(* A request that ends leaves its slot in order.                           *)
LEMMA FinishedSlot ==
    ASSUME TypeOK, NEW r \in Reqs, Clear(r)
    PROVE  SlotOK(r)'
BY DEF SlotOK, Clear, TypeOK

(* Requests that hold no row.                                              *)
LEMMA SlotWithoutRow ==
    ASSUME TypeOK, NEW r \in Reqs, acct'[r] \in Accounts, snap'[r] = None,
           pc'[r] \notin {"rotate", "revoke"}
    PROVE  SlotOK(r)'
BY DEF SlotOK

(* Every slot keeps its invariant.                                         *)
LEMMA SlotStep == Inv /\ [Next]_vars => \A q \in Reqs : SlotOK(q)'
<1> SUFFICES ASSUME Inv, [Next]_vars, NEW q \in Reqs
             PROVE  SlotOK(q)'
  OBVIOUS
<1> USE ConstAssumption
<1>t. TypeOK /\ SlotOK(q)
  BY DEF Inv
<1>0. CASE UNCHANGED <<pc, acct, tok, snap>>
  BY <1>0, UnmovedSlot
(* What the three ways to move a slot do to q.                             *)
<1>b. ASSUME NEW r \in Reqs, NEW step, NEW a, NEW t, NEW row, NEW c,
             Begin(r, step, a, t, row, c)
      PROVE  IF q = r THEN /\ pc'[q] = step /\ acct'[q] = a
                           /\ tok'[q] = t /\ snap'[q] = row
                      ELSE SlotOK(q)'
  <2>1. CASE q = r
    BY <1>b, <1>t, <2>1 DEF Begin, TypeOK
  <2>2. CASE q # r
    BY <1>b, <1>t, <2>2, UnmovedSlot DEF Begin, TypeOK
  <2> QED  BY <2>1, <2>2
<1>c. ASSUME NEW r \in Reqs, Clear(r) PROVE SlotOK(q)'
  <2>1. CASE q = r
    BY <1>c, <1>t, <2>1, FinishedSlot
  <2>2. CASE q # r
    BY <1>c, <1>t, <2>2, UnmovedSlot DEF Clear, TypeOK
  <2> QED  BY <2>1, <2>2
<1>g. ASSUME NEW r \in Reqs, NEW step, Goto(r, step), q # r PROVE SlotOK(q)'
  BY <1>g, <1>t, UnmovedSlot DEF Goto, TypeOK
<1>1. ASSUME NEW r \in Reqs, NEW a \in Accounts, Login(r, a) \/ Recover(r, a)
      PROVE  SlotOK(q)'
  BY <1>1, <1>b, <1>t, SlotWithoutRow DEF Login, Recover
<1>2. ASSUME NEW r \in Reqs, NEW u \in Tokens, LogoutAll(r, u) \/ ChangePassword(r, u)
      PROVE  SlotOK(q)'
  <2>1. rows[u].user \in Accounts
    BY <1>2, <1>t DEF LogoutAll, ChangePassword, Accepted, Live, TypeOK, Row
  <2> QED  BY <1>2, <1>b, <1>t, <2>1, SlotWithoutRow DEF LogoutAll, ChangePassword
<1>3. ASSUME NEW r \in Reqs, NEW u \in Tokens, Refresh(r, u) \/ Logout(r, u)
      PROVE  SlotOK(q)'
  <2>1. rows[u] # None /\ rows[u].user \in Accounts /\ rows' = rows /\ hist' = hist
    BY <1>3, <1>t DEF Refresh, Logout, Live, TypeOK, Row
  <2>2. rows[u].reason = "Regular" => Exchanged(u)
    BY <2>1 DEF Inv, RowOK
  <2>3. CASE q = r
    <3>1. /\ pc'[q] \in {"rotate", "revoke"} /\ acct'[q] = rows[u].user
          /\ tok'[q] = u /\ snap'[q] = rows[u]
      BY <1>3, <1>b, <2>3 DEF Refresh, Logout
    <3> QED  BY <2>1, <2>2, <3>1 DEF SlotOK, StillMatches, Exchanged
  <2>4. CASE q # r
    BY <1>3, <1>b, <2>4 DEF Refresh, Logout
  <2> QED  BY <2>3, <2>4
<1>4. ASSUME NEW r \in Reqs, RotateRevoked(r) PROVE SlotOK(q)'
  <2>1. CASE Finish(r)
    BY <2>1, <1>c DEF Finish
  <2>2. CASE Goto(r, "revokeAll") /\ snap[r].reason = "Regular"
    <3>1. CASE q = r
      <4>1. /\ pc'[q] = "revokeAll" /\ acct'[q] = acct[q] /\ tok'[q] = tok[q]
            /\ snap'[q] = snap[q] /\ rows' = rows /\ hist' = hist
            /\ pc[q] = "rotate"
        BY <1>4, <1>t, <2>2, <3>1 DEF RotateRevoked, Goto, TypeOK
      <4> QED  BY <1>t, <2>2, <3>1, <4>1 DEF SlotOK, StillMatches, Exchanged
    <3>2. CASE q # r
      BY <2>2, <3>2, <1>g
    <3> QED  BY <3>1, <3>2
  <2> QED  BY <1>4, <2>1, <2>2 DEF RotateRevoked
<1>5. ASSUME NEW r \in Reqs, Verify(r) \/ SaveCredentials(r) PROVE SlotOK(q)'
  <2>1. CASE Finish(r)
    BY <2>1, <1>c DEF Finish
  <2>2. ASSUME NEW step \in {"save", "revokeAll"}, Goto(r, step)
        PROVE  SlotOK(q)'
    <3>1. CASE q = r
      <4>1. /\ pc'[q] = step /\ acct'[q] = acct[q] /\ snap'[q] = snap[q]
            /\ pc[q] \in {"verify", "save"}
        BY <1>5, <1>t, <2>2, <3>1 DEF Verify, SaveCredentials, Goto, TypeOK
      <4>2. acct[q] \in Accounts /\ snap[q] = None
        BY <1>t, <4>1 DEF SlotOK
      <4> QED  BY <1>t, <4>1, <4>2, SlotWithoutRow
    <3>2. CASE q # r
      BY <2>2, <3>2, <1>g
    <3> QED  BY <3>1, <3>2
  <2> QED  BY <1>5, <2>1, <2>2 DEF Verify, SaveCredentials
<1>6. ASSUME NEW r \in Reqs, Advance(r) \/ Fail(r) PROVE SlotOK(q)'
  BY <1>6, <1>c, <1>4, <1>5
     DEF Advance, Fail, Mint, RotateExpired, RotateRecentlyRevoked, RotateLive,
         Revoke, RevokeAll, Finish
<1> QED
  BY <1>0, <1>1, <1>2, <1>3, <1>6 DEF Next, Tick, reqVars, vars

-----------------------------------------------------------------------------

(* The rows a step writes keep RowOK.                                      *)
LEMMA RowStep == Inv /\ [Next]_vars => \A t \in Tokens : RowOK(t)'
<1> SUFFICES ASSUME Inv, [Next]_vars, NEW t \in Tokens
             PROVE  RowOK(t)'
  OBVIOUS
<1> USE ConstAssumption
<1>t. TypeOK /\ RowOK(t)
  BY DEF Inv
<1>n. "Regular" # None /\ (\A x \in Row \cup History : x # None)
  BY DEF Reasons
<1>0. CASE UNCHANGED <<rows, hist>>
  BY <1>0, <1>t DEF RowOK, Exchanged
<1>x. Exchanged(t) => Exchanged(t)'
  BY ExchangedStep
<1>y. TypeOK'
  BY TypeStep
<1>1. ASSUME NEW r \in Reqs, Mint(r) PROVE RowOK(t)'
  <2>1. PICK n \in Free :
          /\ rows' = [rows EXCEPT ![n] = NewRow(acct[r], at[r])]
          /\ hist' = [hist EXCEPT ![n] =
                        [parent |-> None, cred |-> seen[r].cred,
                         fresh |-> seen[r].fresh]]
    BY <1>1 DEF Mint
  <2>2. CASE t = n
    <3>1. rows'[t] = NewRow(acct[r], at[r]) /\ rows'[t].reason = None
      BY <1>t, <2>1, <2>2 DEF Free, TypeOK, NewRow
    <3>2. rows'[t] # None /\ hist'[t] # None
      <4>1. acct[r] \in Accounts /\ at[r] \in Nat /\ seen[r] \in Seen
        BY <1>1, <1>t DEF Mint, Inv, SlotOK, TypeOK
      <4>2. rows'[t] \in Row
        BY <3>1, <4>1 DEF NewRow, Row
      <4>3. hist'[t] \in History
        BY <1>t, <2>1, <2>2, <4>1 DEF TypeOK, Seen, History
      <4> QED  BY <1>n, <4>2, <4>3
    <3> QED  BY <1>n, <3>1, <3>2 DEF RowOK
  <2>3. CASE t # n
    <3>1. rows'[t] = rows[t] /\ hist'[t] = hist[t]
      BY <1>t, <2>1, <2>3 DEF Free, TypeOK
    <3> QED  BY <1>t, <1>x, <3>1 DEF RowOK
  <2> QED  BY <2>2, <2>3
<1>2. ASSUME NEW r \in Reqs, RotateRecentlyRevoked(r) PROVE RowOK(t)'
  <2>1. hist' = hist /\ tok[r] \in Tokens /\ rows[tok[r]] \in Row
    BY <1>2, <1>t DEF RotateRecentlyRevoked, Inv, SlotOK, StillMatches, TypeOK
  <2>2. rows[t] # None => rows'[t] # None /\ rows'[t].reason = rows[t].reason
    <3>1. rows[t] # None => rows'[t] # None
      BY ForwardStep DEF Forward, StillMatches
    <3>2. rows[t] # None => rows'[t].reason = rows[t].reason
      BY <1>2, <1>t, <2>1 DEF RotateRecentlyRevoked, TypeOK, Row
    <3> QED  BY <3>1, <3>2
  <2>3. rows[t] = None => rows'[t] = None
    BY <1>2, <1>t, <2>1, <1>n DEF RotateRecentlyRevoked, TypeOK
  <2> QED  BY <1>t, <1>x, <2>1, <2>2, <2>3 DEF RowOK
<1>3. ASSUME NEW r \in Reqs, RotateLive(r) PROVE RowOK(t)'
  <2>1. PICK n \in Free :
          /\ rows' = [rows EXCEPT
                        ![tok[r]] = Revoked(rows[tok[r]], at[r], "Regular"),
                        ![n] = NewRow(snap[r].user, at[r])]
          /\ hist' = [hist EXCEPT ![n] =
                        [parent |-> tok[r], cred |-> seen[r].cred,
                         fresh |-> seen[r].fresh]]
    BY <1>3 DEF RotateLive
  <2>2. /\ n \in Tokens /\ tok[r] \in Tokens /\ rows[tok[r]] # None /\ rows[n] = None
        /\ at[r] \in Nat /\ seen[r] \in Seen /\ snap[r] \in Row
    BY <1>3, <1>t, <2>1 DEF RotateLive, Inv, SlotOK, StillMatches, TypeOK, Free
  <2>3. [parent |-> tok[r], cred |-> seen[r].cred, fresh |-> seen[r].fresh] \in History
    BY <2>2 DEF History, Seen
  <2>4. hist'[n] \in History /\ hist'[n] # None /\ hist'[n].parent = tok[r]
    BY <1>t, <1>n, <2>1, <2>2, <2>3 DEF TypeOK
  <2>5. CASE t = n
    <3>1. rows'[t] = NewRow(snap[r].user, at[r]) /\ rows'[t].reason = None
      BY <1>t, <2>1, <2>2, <2>5 DEF TypeOK, NewRow
    <3>2. rows'[t] \in Row
      BY <2>2, <3>1 DEF NewRow, Row
    <3> QED  BY <1>n, <2>4, <2>5, <3>1, <3>2 DEF RowOK
  <2>6. CASE t = tok[r]
    <3>1. rows'[t] # None /\ hist'[t] # None
      BY <2>2, <2>6, ForwardStep DEF Forward, StillMatches
    <3>2. Exchanged(t)'
      BY <2>2, <2>4, <2>6 DEF Exchanged
    <3> QED  BY <3>1, <3>2 DEF RowOK
  <2>7. CASE t # n /\ t # tok[r]
    <3>1. rows'[t] = rows[t] /\ hist'[t] = hist[t]
      BY <1>t, <2>1, <2>2, <2>7 DEF TypeOK
    <3> QED  BY <1>t, <1>x, <3>1 DEF RowOK
  <2> QED  BY <2>5, <2>6, <2>7
<1>4. ASSUME NEW r \in Reqs, Revoke(r) PROVE RowOK(t)'
  <2>1. hist' = hist /\ tok[r] \in Tokens /\ rows[tok[r]] \in Row
    BY <1>4, <1>t DEF Revoke, Inv, SlotOK, StillMatches, TypeOK
  <2>2. CASE t = tok[r]
    <3>1. rows'[t].reason = "Security"
      BY <1>4, <1>t, <2>1, <2>2 DEF Revoke, Revoked, TypeOK, Row
    <3>2. rows'[t] # None /\ hist'[t] # None
      BY <1>n, <2>1, <2>2, ForwardStep DEF Forward, StillMatches
    <3> QED  BY <3>1, <3>2 DEF RowOK
  <2>3. CASE t # tok[r]
    <3>1. rows'[t] = rows[t]
      BY <1>4, <1>t, <2>3 DEF Revoke, TypeOK
    <3> QED  BY <1>t, <1>x, <2>1, <3>1 DEF RowOK
  <2> QED  BY <2>2, <2>3
<1>5. ASSUME NEW r \in Reqs, RevokeAll(r) PROVE RowOK(t)'
  <2>1. CASE rows[t] = None
    <3>1. rows'[t] = None /\ hist'[t] = None
      BY <1>5, <1>t, <2>1 DEF RevokeAll, Live, RowOK
    <3> QED  BY <3>1 DEF RowOK
  <2>2. CASE rows[t] # None
    <3>1. rows'[t] # None /\ hist'[t] # None
      BY <2>2, ForwardStep DEF Forward, StillMatches
    <3>2. rows'[t] = rows[t] \/ rows'[t].reason = "Security"
      <4>1. rows[t] \in Row
        BY <1>t, <2>2 DEF TypeOK
      <4>2. Revoked(rows[t], at[r], "Security").reason = "Security"
        BY <4>1 DEF Revoked, Row
      <4>3. rows'[t] = rows[t] \/ rows'[t] = Revoked(rows[t], at[r], "Security")
        BY <1>5 DEF RevokeAll
      <4> QED  BY <4>2, <4>3
    <3>3. rows'[t].reason = "Regular" => rows[t].reason = "Regular"
      BY <3>2
    <3>4. rows'[t].reason = "Regular" => Exchanged(t)'
      BY <1>t, <1>x, <2>2, <3>3 DEF RowOK
    <3> QED  BY <3>1, <3>4 DEF RowOK
  <2> QED  BY <2>1, <2>2
<1>6. ASSUME NEW r \in Reqs, Advance(r) \/ Fail(r) PROVE RowOK(t)'
  BY <1>6, <1>0, <1>1, <1>2, <1>3, <1>4, <1>5
     DEF Advance, RotateExpired, RotateRevoked, Verify, SaveCredentials, Fail
<1>7. ASSUME NEW r \in Reqs,
             \/ \E a \in Accounts : Login(r, a) \/ Recover(r, a)
             \/ \E u \in Tokens : \/ Refresh(r, u) \/ Logout(r, u)
                                  \/ LogoutAll(r, u) \/ ChangePassword(r, u)
      PROVE  RowOK(t)'
  BY <1>7, <1>0 DEF Login, Recover, Refresh, Logout, LogoutAll, ChangePassword
<1> QED
  BY <1>0, <1>6, <1>7 DEF Next, Tick, ghosts, vars

-----------------------------------------------------------------------------

(* A step that mints by rotation keeps LineageIsSound, and no other step   *)
(* can break it.                                                           *)
LEMMA LineageStep == Inv /\ [Next]_vars => LineageIsSound'
<1> SUFFICES ASSUME Inv, [Next]_vars, NEW n \in Tokens,
                    hist'[n] # None, hist'[n].parent # None
             PROVE  LET p == hist'[n].parent IN
                    /\ rows'[p] # None /\ rows'[p].revokedAt # None
                    /\ rows'[p].user = rows'[n].user
                    /\ rows'[n].expiresAt < rows'[p].expiresAt + Ttl
  BY DEF LineageIsSound
<1> USE ConstAssumption
<1>t. TypeOK
  BY DEF Inv
(* A token that was there before.                                          *)
<1>1. CASE hist[n] # None
  <2>1. rows[n] # None
    BY <1>1 DEF Inv, RowOK
  <2>2. hist'[n].parent = hist[n].parent /\ StillMatches(rows[n], rows'[n])
    BY <2>1, ForwardStep DEF Forward
  <2>3. PICK p \in Tokens : p = hist[n].parent
    BY <1>1, <1>t, <2>2 DEF TypeOK, History
  <2>4. /\ rows[p] # None /\ rows[p].revokedAt # None
        /\ rows[p].user = rows[n].user
        /\ rows[n].expiresAt < rows[p].expiresAt + Ttl
    BY <1>1, <2>2, <2>3 DEF Inv, LineageIsSound
  <2>5. StillMatches(rows[p], rows'[p])
    BY <2>3, <2>4, ForwardStep DEF Forward
  <2> QED  BY <2>2, <2>3, <2>4, <2>5 DEF StillMatches
(* A token minted in this step.                                            *)
<1>2. CASE hist[n] = None
  <2>1. PICK r \in Reqs : RotateLive(r)
    <3>1. ASSUME NEW r \in Reqs, Mint(r) PROVE FALSE
      <4>1. PICK m \in Free :
              hist' = [hist EXCEPT ![m] =
                        [parent |-> None, cred |-> seen[r].cred,
                         fresh |-> seen[r].fresh]]
        BY <3>1 DEF Mint
      <4> QED  BY <1>2, <1>t, <4>1 DEF TypeOK, Free
    <3>2. ASSUME NEW r \in Reqs, RevokeAll(r) PROVE FALSE
      <4>1. rows[n] = None
        BY <1>2 DEF Inv, RowOK
      <4> QED  BY <1>2, <3>2, <4>1 DEF RevokeAll
    <3>3. hist' # hist
      BY <1>2
    <3>4. ASSUME NEW r \in Reqs, Advance(r) \/ Fail(r)
          PROVE  \E q \in Reqs : RotateLive(q)
      BY <3>4, <3>1, <3>2, <3>3
         DEF Advance, Fail, RotateExpired, RotateRecentlyRevoked, RotateRevoked,
             Revoke, Verify, SaveCredentials
    <3>5. ASSUME NEW r \in Reqs,
                 \/ \E a \in Accounts : Login(r, a) \/ Recover(r, a)
                 \/ \E u \in Tokens : \/ Refresh(r, u) \/ Logout(r, u)
                                      \/ LogoutAll(r, u) \/ ChangePassword(r, u)
          PROVE  FALSE
      BY <3>5, <3>3 DEF Login, Recover, Refresh, Logout, LogoutAll, ChangePassword
    <3> QED  BY <3>3, <3>4, <3>5 DEF Next, Tick, ghosts, vars
  <2>2. PICK m \in Free :
          /\ rows' = [rows EXCEPT
                        ![tok[r]] = Revoked(rows[tok[r]], at[r], "Regular"),
                        ![m] = NewRow(snap[r].user, at[r])]
          /\ hist' = [hist EXCEPT ![m] =
                        [parent |-> tok[r], cred |-> seen[r].cred,
                         fresh |-> seen[r].fresh]]
    BY <2>1 DEF RotateLive
  <2>3. m = n /\ m \in Tokens /\ rows[m] = None
    BY <1>2, <1>t, <2>2 DEF TypeOK, Free
  <2>4. PICK p \in Tokens : p = tok[r]
    BY <2>1 DEF RotateLive, Inv, SlotOK
  <2>5. /\ rows[p] \in Row /\ rows[p] # None /\ at[r] \in Nat /\ snap[r] \in Row
        /\ rows[p].user = snap[r].user /\ rows[p].expiresAt = snap[r].expiresAt
    BY <2>1, <1>t, <2>4 DEF RotateLive, Inv, SlotOK, StillMatches, TypeOK
  <2>6. hist'[n].parent = p
    BY <1>t, <2>2, <2>3, <2>4 DEF TypeOK
  <2>7. rows'[n] = NewRow(snap[r].user, at[r])
    BY <1>t, <2>2, <2>3 DEF TypeOK
  <2>8. rows'[p] = Revoked(rows[p], at[r], "Regular") /\ rows'[p] # None
    <3>1. rows'[p] = Revoked(rows[p], at[r], "Regular")
      BY <1>t, <2>2, <2>3, <2>4, <2>5 DEF TypeOK
    <3>2. rows'[p] # None
      BY <2>4, <2>5, ForwardStep DEF Forward, StillMatches
    <3> QED  BY <3>1, <3>2
  <2>9. at[r] < snap[r].expiresAt
    BY <2>1, <2>5 DEF RotateLive, Expired, Row
  <2>10. /\ rows'[n].user = snap[r].user
         /\ rows'[n].expiresAt = at[r] + Ttl
    BY <2>7 DEF NewRow
  <2>11. /\ rows'[p].user = rows[p].user /\ rows'[p].expiresAt = rows[p].expiresAt
         /\ rows'[p].revokedAt # None
    BY <2>5, <2>8 DEF Revoked, Row
  <2> QED  BY <2>5, <2>6, <2>8, <2>9, <2>10, <2>11 DEF Row
<1> QED  BY <1>1, <1>2

-----------------------------------------------------------------------------

(* The empty store satisfies the inductive invariant.                      *)
LEMMA InitInv == Init => Inv
<1> SUFFICES ASSUME Init PROVE Inv
  OBVIOUS
<1> USE ConstAssumption
<1>1. TypeOK
  BY DEF Init, TypeOK, Steps, Seen, Unseen
<1>2. \A r \in Reqs : SlotOK(r)
  BY DEF Init, SlotOK
<1>3. \A t \in Tokens : RowOK(t)
  BY DEF Init, RowOK
<1>4. LineageIsSound
  BY DEF Init, LineageIsSound
<1> QED  BY <1>1, <1>2, <1>3, <1>4 DEF Inv

(* No step breaks it.                                                      *)
LEMMA InvStep == Inv /\ [Next]_vars => Inv'
<1> SUFFICES ASSUME Inv, [Next]_vars PROVE Inv'
  OBVIOUS
<1>1. TypeOK' /\ LineageIsSound'
  BY TypeStep, LineageStep
<1>2. (\A r \in Reqs : SlotOK(r))'
  BY SlotStep
<1>3. (\A t \in Tokens : RowOK(t))'
  BY RowStep
<1> QED  BY <1>1, <1>2, <1>3 DEF Inv

(* Inv holds in every reachable state.                                     *)
THEOREM Invariance == Spec => []Inv
BY InvStep, InitInv, PTL DEF Spec

(* The variables of the session store and of its requests hold values of   *)
(* their kinds.                                                            *)
THEOREM TypeCorrect == Spec => []TypeOK
<1>1. Inv => TypeOK
  BY DEF Inv
<1> QED  BY <1>1, Invariance, PTL

(* The predecessor of a rotated token is revoked, of the same account, and *)
(* had not expired at the rotation, however requests interleave and fail.  *)
THEOREM LineageSound == Spec => []LineageIsSound
<1>1. Inv => LineageIsSound
  BY DEF Inv
<1> QED  BY <1>1, Invariance, PTL

(* A replay ends every session of the account only if the token presented  *)
(* really had been exchanged.                                              *)
THEOREM AlarmGenuine == Spec => []AlarmIsGenuine
<1>1. Inv => AlarmIsGenuine
  BY DEF Inv, AlarmIsGenuine, SlotOK, Exchanged
<1> QED  BY <1>1, Invariance, PTL

-----------------------------------------------------------------------------
(* The refinement.                                                         *)

(* No step changes where an existing token came from, or gives a token an  *)
(* origin before its row exists.                                           *)
LEMMA OriginStep ==
    Inv /\ [Next]_vars =>
        \A t \in Tokens : rows[t] # None \/ rows'[t] = None => Origin'[t] = Origin[t]
<1> SUFFICES ASSUME Inv, [Next]_vars, NEW t \in Tokens, rows[t] # None \/ rows'[t] = None
             PROVE  Origin'[t] = Origin[t]
  OBVIOUS
<1>1. rows[t] = None <=> hist[t] = None
  BY DEF Inv, RowOK
<1>2. rows'[t] = None <=> hist'[t] = None
  BY RowStep DEF RowOK
<1>3. rows[t] # None => rows'[t] # None /\ hist'[t].parent = hist[t].parent
  BY ForwardStep DEF Forward, StillMatches
<1> QED  BY <1>1, <1>2, <1>3 DEF Origin

(* Steps that leave every token's liveness alone map to stuttering, the    *)
(* others to Open, Rotate or Close.                                        *)
LEMMA LifecycleStep == Inv /\ [Next]_vars => [Lifecycle!Next]_(Lifecycle!vars)
<1> SUFFICES ASSUME Inv, [Next]_vars
             PROVE  [Lifecycle!Next]_(Lifecycle!vars)
  OBVIOUS
<1> USE ConstAssumption
<1>t. TypeOK
  BY DEF Inv
<1>n. \A x \in Nat \cup Row : x # None
  OBVIOUS
(* A step that mints no row leaves the origins alone.                      *)
<1>o. ASSUME \A t \in Tokens : rows'[t] = None <=> rows[t] = None
      PROVE  Origin' = Origin
  <2>1. \A t \in Tokens : Origin'[t] = Origin[t]
    BY <1>o, OriginStep
  <2> QED  BY <2>1 DEF Origin
<1>0. ASSUME rows' = rows PROVE UNCHANGED Lifecycle!vars
  BY <1>0, <1>o DEF Lifecycle!vars, Status, Owner
<1>1. ASSUME NEW r \in Reqs, Mint(r) PROVE Lifecycle!Next
  <2>1. PICK n \in Free :
          /\ rows' = [rows EXCEPT ![n] = NewRow(acct[r], at[r])]
          /\ hist' = [hist EXCEPT ![n] = [parent |-> None, cred |-> seen[r].cred,
                                          fresh |-> seen[r].fresh]]
    BY <1>1 DEF Mint
  <2>2. acct[r] \in Accounts /\ at[r] \in Nat /\ n \in Tokens /\ rows[n] = None
    BY <1>1, <1>t, <2>1 DEF Mint, Inv, SlotOK, TypeOK, Free
  <2>3. /\ NewRow(acct[r], at[r]) \in Row
        /\ NewRow(acct[r], at[r]).user = acct[r]
        /\ NewRow(acct[r], at[r]).revokedAt = None
    BY <2>2 DEF NewRow, Row
  <2>4. Status' = [Status EXCEPT ![n] = "live"]
    BY <1>t, <1>n, <2>1, <2>2, <2>3 DEF Status, TypeOK
  <2>5. Owner' = [Owner EXCEPT ![n] = acct[r]]
    BY <1>t, <1>n, <2>1, <2>2, <2>3 DEF Owner, TypeOK
  <2>6. Status[n] = "unborn"
    BY <2>2 DEF Status
  <2>7. Origin'[n] = None
    BY <1>t, <2>1, <2>2 DEF Origin, TypeOK
  <2>8. Origin[n] = None
    BY <2>2 DEF Origin, Inv, RowOK
  <2>9. \A t \in Tokens : t # n => Origin'[t] = Origin[t]
    BY <1>t, <2>1, <2>2, OriginStep DEF TypeOK
  <2>10. Origin' = Origin
    BY <2>7, <2>8, <2>9 DEF Origin
  <2> QED  BY <2>2, <2>4, <2>5, <2>6, <2>10 DEF Lifecycle!Next, Lifecycle!Open
<1>2. ASSUME NEW r \in Reqs, RotateLive(r) PROVE Lifecycle!Next
  <2>1. PICK n \in Free :
          /\ rows' = [rows EXCEPT
                        ![tok[r]] = Revoked(rows[tok[r]], at[r], "Regular"),
                        ![n] = NewRow(snap[r].user, at[r])]
          /\ hist' = [hist EXCEPT ![n] = [parent |-> tok[r], cred |-> seen[r].cred,
                                          fresh |-> seen[r].fresh]]
    BY <1>2 DEF RotateLive
  <2>2. PICK p \in Tokens : p = tok[r]
    BY <1>2 DEF RotateLive, Inv, SlotOK
  <2>3. /\ rows[p] \in Row /\ at[r] \in Nat /\ snap[r] \in Row
        /\ rows[p].user = snap[r].user /\ n \in Tokens /\ rows[n] = None /\ n # p
    BY <1>2, <1>t, <2>1, <2>2, <1>n
       DEF RotateLive, Inv, SlotOK, StillMatches, TypeOK, Free
  <2>4. /\ NewRow(snap[r].user, at[r]) \in Row
        /\ NewRow(snap[r].user, at[r]).user = rows[p].user
        /\ NewRow(snap[r].user, at[r]).revokedAt = None
    BY <2>3 DEF NewRow, Row
  <2>5. /\ Revoked(rows[p], at[r], "Regular") \in Row
        /\ Revoked(rows[p], at[r], "Regular").user = rows[p].user
        /\ Revoked(rows[p], at[r], "Regular").revokedAt = at[r]
    BY <2>3 DEF Revoked, Row, Reasons
  <2>6. rows' = [rows EXCEPT ![p] = Revoked(rows[p], at[r], "Regular"),
                             ![n] = NewRow(snap[r].user, at[r])]
    BY <2>1, <2>2
  <2>7. /\ rows'[p] = Revoked(rows[p], at[r], "Regular")
        /\ rows'[n] = NewRow(snap[r].user, at[r])
        /\ \A t \in Tokens : t # p /\ t # n => rows'[t] = rows[t]
    BY <1>t, <2>3, <2>6 DEF TypeOK
  <2>8. \A t \in Tokens :
          Status'[t] = IF t = n THEN "live" ELSE IF t = p THEN "dead" ELSE Status[t]
    BY <1>n, <2>3, <2>4, <2>5, <2>7 DEF Status
  <2>9. Status' = [Status EXCEPT ![p] = "dead", ![n] = "live"]
    BY <2>3, <2>8 DEF Status
  <2>10. \A t \in Tokens : Owner'[t] = IF t = n THEN rows[p].user ELSE Owner[t]
    BY <1>n, <2>3, <2>4, <2>5, <2>7 DEF Owner
  <2>11. Owner' = [Owner EXCEPT ![n] = Owner[p]]
    BY <1>n, <2>3, <2>10 DEF Owner
  <2>12. Status[p] # "unborn" /\ Status[n] = "unborn"
    BY <1>n, <2>3 DEF Status
  <2>13. Origin'[n] = p
    <3>1. hist'[n] = [parent |-> p, cred |-> seen[r].cred, fresh |-> seen[r].fresh]
      BY <1>t, <2>1, <2>2, <2>3 DEF TypeOK
    <3>2. hist'[n] \in History
      BY <1>t, <3>1 DEF TypeOK, History, Seen
    <3>3. hist'[n] # None
      BY <3>2
    <3> QED  BY <2>3, <3>1, <3>3 DEF Origin
  <2>14. \A t \in Tokens : t # n => Origin'[t] = Origin[t]
    <3>1. \A t \in Tokens : t # n => (rows[t] # None \/ rows'[t] = None)
      BY <1>n, <2>3, <2>7
    <3> QED  BY <3>1, OriginStep
  <2>15. Origin' = [Origin EXCEPT ![n] = p]
    BY <2>3, <2>13, <2>14 DEF Origin
  <2> QED  BY <2>3, <2>9, <2>11, <2>12, <2>15 DEF Lifecycle!Next, Lifecycle!Rotate
(* Only the time of the revocation moves.                                  *)
<1>3. ASSUME NEW r \in Reqs, RotateRecentlyRevoked(r)
      PROVE  UNCHANGED Lifecycle!vars
  <2>1. PICK p \in Tokens : p = tok[r]
    BY <1>3 DEF RotateRecentlyRevoked, Inv, SlotOK
  <2>2. rows[p] \in Row /\ rows[p].revokedAt # None /\ at[r] \in Nat
    BY <1>3, <1>t, <2>1 DEF RotateRecentlyRevoked, Inv, SlotOK, StillMatches, TypeOK
  <2>3. /\ [rows[p] EXCEPT !.revokedAt = at[r]] \in Row
        /\ [rows[p] EXCEPT !.revokedAt = at[r]].user = rows[p].user
        /\ [rows[p] EXCEPT !.revokedAt = at[r]].revokedAt = at[r]
    BY <2>2 DEF Row
  <2>4. \A t \in Tokens :
          \/ rows'[t] = rows[t]
          \/ t = p /\ rows'[t] = [rows[p] EXCEPT !.revokedAt = at[r]]
    BY <1>3, <1>t, <2>1 DEF RotateRecentlyRevoked, TypeOK
  <2>5. \A t \in Tokens : Status'[t] = Status[t] /\ Owner'[t] = Owner[t]
    BY <1>n, <2>2, <2>3, <2>4 DEF Status, Owner
  <2>6. Status' = Status /\ Owner' = Owner
    BY <2>5 DEF Status, Owner
  <2>7. \A t \in Tokens : rows'[t] = None <=> rows[t] = None
    BY <1>n, <2>2, <2>3, <2>4
  <2> QED  BY <2>6, <2>7, <1>o DEF Lifecycle!vars
<1>4. ASSUME NEW a \in Accounts, NEW now \in Nat, NEW S \in SUBSET Tokens,
             \A t \in S : rows[t] # None /\ rows[t].user = a,
             \A t \in Tokens :
                rows'[t] = IF t \in S THEN Revoked(rows[t], now, "Security")
                           ELSE rows[t]
      PROVE  Lifecycle!Next
  <2> DEFINE L == {t \in S : Live(t)}
  <2>1. \A t \in S : /\ Revoked(rows[t], now, "Security") \in Row
                     /\ Revoked(rows[t], now, "Security").user = rows[t].user
                     /\ Revoked(rows[t], now, "Security").revokedAt = now
    <3>1. \A t \in S : rows[t] \in Row
      BY <1>4, <1>t DEF TypeOK
    <3>2. ASSUME NEW row \in Row
          PROVE  /\ Revoked(row, now, "Security") \in Row
                 /\ Revoked(row, now, "Security").user = row.user
                 /\ Revoked(row, now, "Security").revokedAt = now
      BY DEF Revoked, Row, Reasons
    <3> QED  BY <3>1, <3>2
  <2>2. \A t \in Tokens : Status'[t] = IF t \in L THEN "dead" ELSE Status[t]
    BY <1>4, <1>n, <2>1 DEF Status, Live
  <2>3. Status' = [t \in Tokens |-> IF t \in L THEN "dead" ELSE Status[t]]
    BY <2>2 DEF Status
  <2>4. \A t \in Tokens : Owner'[t] = Owner[t]
    BY <1>4, <1>n, <2>1 DEF Owner
  <2>5. Owner' = Owner
    BY <2>4 DEF Owner
  <2>6. \A t \in L : Status[t] = "live" /\ Owner[t] = a
    BY <1>4 DEF Status, Owner, Live
  <2>7. L \in SUBSET Tokens
    OBVIOUS
  <2>8. \A t \in Tokens : rows'[t] = None <=> rows[t] = None
    BY <1>4, <1>n, <2>1
  <2>9. Origin' = Origin
    BY <2>8, <1>o
  <2> HIDE DEF L
  <2>10. Lifecycle!Close(a, L)
    BY <2>3, <2>5, <2>6, <2>9 DEF Lifecycle!Close
  <2> QED  BY <2>7, <2>10 DEF Lifecycle!Next
<1>5. ASSUME NEW r \in Reqs, Revoke(r) PROVE Lifecycle!Next
  <2>1. PICK p \in Tokens : p = tok[r]
    BY <1>5 DEF Revoke, Inv, SlotOK
  <2>2. PICK a \in Accounts : a = rows[p].user
    BY <1>5, <1>t, <2>1 DEF Revoke, Inv, SlotOK, StillMatches, TypeOK, Row
  <2>3. PICK now \in Nat : now = at[r]
    BY <1>t DEF TypeOK
  <2>4. rows[p] # None
    BY <1>5, <2>1 DEF Revoke, Inv, SlotOK, StillMatches
  <2>5. PICK S \in SUBSET Tokens : S = {p}
    OBVIOUS
  <2>6. \A t \in Tokens :
          rows'[t] = IF t \in S THEN Revoked(rows[t], now, "Security") ELSE rows[t]
    BY <1>5, <1>t, <2>1, <2>3, <2>5 DEF Revoke, TypeOK
  <2>7. \A t \in S : rows[t] # None /\ rows[t].user = a
    BY <2>2, <2>4, <2>5
  <2> QED  BY <1>4, <2>6, <2>7
<1>6. ASSUME NEW r \in Reqs, RevokeAll(r) PROVE Lifecycle!Next
  <2>1. PICK a \in Accounts : a = acct[r]
    BY <1>6 DEF RevokeAll, Inv, SlotOK
  <2>2. PICK now \in Nat : now = at[r]
    BY <1>t DEF TypeOK
  <2>3. PICK S \in SUBSET Tokens :
          S = {t \in Tokens : Live(t) /\ rows[t].user = acct[r]}
    OBVIOUS
  <2>4. \A t \in Tokens :
          rows'[t] = IF t \in S THEN Revoked(rows[t], now, "Security") ELSE rows[t]
    BY <1>6, <2>2, <2>3 DEF RevokeAll
  <2>5. \A t \in S : rows[t] # None /\ rows[t].user = a
    BY <2>1, <2>3 DEF Live
  <2> QED  BY <1>4, <2>4, <2>5
<1>7. ASSUME NEW r \in Reqs, Advance(r) \/ Fail(r)
      PROVE  [Lifecycle!Next]_(Lifecycle!vars)
  BY <1>7, <1>0, <1>1, <1>2, <1>3, <1>5, <1>6
     DEF Advance, RotateExpired, RotateRevoked, Verify, SaveCredentials, Fail
<1>8. ASSUME NEW r \in Reqs,
             \/ \E a \in Accounts : Login(r, a) \/ Recover(r, a)
             \/ \E u \in Tokens : \/ Refresh(r, u) \/ Logout(r, u)
                                  \/ LogoutAll(r, u) \/ ChangePassword(r, u)
      PROVE  rows' = rows
  BY <1>8 DEF Login, Recover, Refresh, Logout, LogoutAll, ChangePassword
<1> QED
  BY <1>0, <1>7, <1>8 DEF Next, Tick, vars

(* Whatever requests run at the same time and fail, the store implements   *)
(* TokenLifecycle: tokens are born once, stay with their account and never *)
(* live again, and a rotation kills the old token as it creates the new.   *)
THEOREM LifecycleImplemented == Spec => ImplementsLifecycle
<1>1. Init => Lifecycle!Init
  BY DEF Init, Lifecycle!Init, Status, Owner, Origin
<1> QED
  BY <1>1, Invariance, LifecycleStep, PTL
     DEF Spec, ImplementsLifecycle, Lifecycle!Spec

-----------------------------------------------------------------------------
(* The credentials.  A RevokeAll ends what was read before it, so that a   *)
(* token, or a login under way, of which none has run since carries the    *)
(* credentials of now, unless another change has yet to revoke.            *)

TokenCurrent(t) ==
    rows[t] # None /\ ~Changing(rows[t].user) /\ Unbroken(t)
        => hist[t].cred = cred[rows[t].user]

SlotCurrent(r) ==
    /\ pc[r] = "mint" /\ seen[r].fresh /\ ~Changing(acct[r])
          => seen[r].cred = cred[acct[r]]
    /\ pc[r] = "rotate" => seen[r].cred = hist[tok[r]].cred

CredInv ==
    /\ Inv
    /\ \A t \in Tokens : TokenCurrent(t)
    /\ \A r \in Reqs : SlotCurrent(r)

(* The credentials of a token do not change, and it is not fresh again.    *)
LEMMA HistoryStep ==
    ASSUME Inv, [Next]_vars, NEW t \in Tokens, rows[t] # None
    PROVE  hist'[t].cred = hist[t].cred /\ (hist'[t].fresh => hist[t].fresh)
<1>0. CASE hist' = hist
  BY <1>0
<1>1. CASE \E n \in Free : \E h : hist' = [hist EXCEPT ![n] = h]
  BY <1>1 DEF Free, Inv, TypeOK
<1>2. ASSUME NEW r \in Reqs, RevokeAll(r)
      PROVE  hist'[t].cred = hist[t].cred /\ (hist'[t].fresh => hist[t].fresh)
  <2>1. hist[t] \in History
    BY DEF Inv, TypeOK, RowOK
  <2>2. hist'[t] = hist[t] \/ hist'[t] = [hist[t] EXCEPT !.fresh = FALSE]
    BY <1>2 DEF RevokeAll
  <2> QED  BY <2>1, <2>2 DEF History
<1>3. ASSUME NEW r \in Reqs, Mint(r) \/ RotateLive(r)
      PROVE  \E n \in Free : \E h : hist' = [hist EXCEPT ![n] = h]
  BY <1>3 DEF Mint, RotateLive
<1>4. ASSUME NEW r \in Reqs, Advance(r) \/ Fail(r)
      PROVE  hist'[t].cred = hist[t].cred /\ (hist'[t].fresh => hist[t].fresh)
  BY <1>0, <1>1, <1>2, <1>3, <1>4
     DEF Advance, Fail, RotateExpired, RotateRecentlyRevoked, RotateRevoked, Revoke,
         Verify, SaveCredentials
<1>5. ASSUME NEW r \in Reqs,
             \/ \E a \in Accounts : Login(r, a) \/ Recover(r, a)
             \/ \E u \in Tokens : \/ Refresh(r, u) \/ Logout(r, u)
                                  \/ LogoutAll(r, u) \/ ChangePassword(r, u)
      PROVE  hist' = hist
  BY <1>5 DEF Login, Recover, Refresh, Logout, LogoutAll, ChangePassword
<1> QED
  BY <1>0, <1>4, <1>5 DEF Next, Tick, ghosts, vars

(* The tokens of an unbroken line that were there before the step.         *)
LEMMA UnbrokenBefore ==
    ASSUME Inv, [Next]_vars, NEW t \in Tokens, rows[t] # None, Unbroken(t)'
    PROVE  Unbroken(t)
<1>1. PICK line \in SUBSET Tokens :
        /\ t \in line
        /\ \A n \in line : /\ hist'[n] # None
                           /\ hist'[n].fresh
                           /\ hist'[n].parent \in line \cup {None}
  BY DEF Unbroken
<1> DEFINE before == {n \in line : rows[n] # None}
<1>2. t \in before /\ before \in SUBSET Tokens
  BY <1>1
<1>3. ASSUME NEW n \in before
      PROVE  hist[n] # None /\ hist[n].fresh /\ hist[n].parent \in before \cup {None}
  <2>1. n \in Tokens /\ n \in line /\ rows[n] # None
    BY <1>3
  <2>2. hist[n] # None /\ hist'[n].parent = hist[n].parent
    BY <2>1, ForwardStep DEF Forward, Inv, RowOK
  <2>3. hist[n].fresh
    BY <1>1, <2>1, HistoryStep
  <2>4. hist[n].parent \in line \cup {None}
    BY <1>1, <2>1, <2>2
  <2>5. hist[n].parent # None => rows[hist[n].parent] # None
    BY <2>1, <2>2 DEF Inv, LineageIsSound
  <2> QED  BY <2>2, <2>3, <2>4, <2>5
<1> QED  BY <1>2, <1>3 DEF Unbroken

(* A token that was there keeps its credentials in any step that leaves    *)
(* those of its account alone and does not end a change of them.           *)
LEMMA TokenKept ==
    ASSUME CredInv, [Next]_vars, NEW t \in Tokens, rows[t] # None,
           NEW a, a = rows[t].user,
           Changing(a) => Changing(a)',
           Changing(a)' \/ cred'[a] = cred[a]
    PROVE  TokenCurrent(t)'
<1>1. Inv /\ TokenCurrent(t)
  BY DEF CredInv
<1>2. rows'[t].user = a
  BY <1>1, ForwardStep DEF Forward, StillMatches
<1>3. hist'[t].cred = hist[t].cred
  BY <1>1, HistoryStep
<1>4. Unbroken(t)' => Unbroken(t)
  BY <1>1, UnbrokenBefore
<1>5. ~Changing(a)' /\ Unbroken(t)' => hist'[t].cred = cred'[a]
  BY <1>1, <1>3, <1>4 DEF TokenCurrent
<1> HIDE DEF Unbroken
<1> QED  BY <1>2, <1>5 DEF TokenCurrent, Changing

(* The same of a request that does not move.                               *)
LEMMA SlotKept ==
    ASSUME CredInv, [Next]_vars, NEW r \in Reqs,
           pc'[r] = pc[r], acct'[r] = acct[r], tok'[r] = tok[r],
           seen'[r].cred = seen[r].cred, seen'[r].fresh => seen[r].fresh,
           NEW a, a = acct[r],
           pc[r] = "mint" /\ seen'[r].fresh =>
               /\ Changing(a) => Changing(a)'
               /\ Changing(a)' \/ cred'[a] = cred[a]
    PROVE  SlotCurrent(r)'
<1>1. Inv /\ SlotCurrent(r)
  BY DEF CredInv
<1>2. ASSUME pc[r] = "rotate"  PROVE hist'[tok[r]].cred = hist[tok[r]].cred
  <2>1. SlotOK(r)
    BY <1>1 DEF Inv
  <2>2. tok[r] \in Tokens /\ rows[tok[r]] # None
    BY <1>2, <2>1 DEF SlotOK, StillMatches
  <2> QED  BY <1>1, <2>2, HistoryStep
<1>3. pc[r] = "mint" /\ seen'[r].fresh /\ ~Changing(a)' => seen'[r].cred = cred'[a]
  BY <1>1 DEF SlotCurrent
<1> QED  BY <1>1, <1>2, <1>3 DEF SlotCurrent, Changing

(* The token that a request mints: a login that is fresh was verified      *)
(* against the credentials of now, and a rotation passes on what the old   *)
(* token carries.                                                          *)
LEMMA TokenMinted ==
    ASSUME CredInv, [Next]_vars, NEW r \in Reqs, NEW n \in Tokens,
           rows[n] = None, Mint(r) \/ RotateLive(r), rows'[n] # None
    PROVE  TokenCurrent(n)'
<1> USE ConstAssumption
<1>1. Inv /\ TypeOK /\ SlotOK(r) /\ SlotCurrent(r)
  BY DEF CredInv, Inv
<1>2. cred' = cred
  BY DEF Mint, RotateLive
<1>3. ASSUME NEW a  PROVE Changing(a)' <=> Changing(a)
  <2>1. \A q \in Reqs : pc'[q] = "revokeAll" /\ acct'[q] = a
                          <=> pc[q] = "revokeAll" /\ acct[q] = a
    BY <1>1 DEF Mint, RotateLive, Finish, Clear, TypeOK
  <2> QED  BY <2>1 DEF Changing
<1>4. CASE Mint(r)
  <2>1. PICK a \in Accounts : a = acct[r]
    BY <1>1, <1>4 DEF SlotOK, Mint
  <2>2. rows'[n] = NewRow(a, at[r]) /\ hist'[n].cred = seen[r].cred
        /\ hist'[n].fresh = seen[r].fresh
    BY <1>1, <1>4, <2>1 DEF Mint, TypeOK, Free
  <2>3. rows'[n].user = a
    BY <2>2 DEF NewRow
  <2>4. Unbroken(n)' => seen[r].fresh
    BY <2>2 DEF Unbroken
  <2>5. Unbroken(n)' /\ ~Changing(a)' => hist'[n].cred = cred'[a]
    BY <1>1, <1>2, <1>3, <1>4, <2>1, <2>2, <2>4 DEF SlotCurrent, Mint
  <2> HIDE DEF Unbroken
  <2> QED  BY <2>3, <2>5 DEF TokenCurrent, Changing
<1>5. CASE RotateLive(r)
  <2>1. PICK p \in Tokens : p = tok[r]
    BY <1>1, <1>5 DEF RotateLive, SlotOK
  <2>2. rows[p] # None /\ rows[p].user = snap[r].user /\ p # n
    BY <1>1, <1>5, <2>1 DEF RotateLive, SlotOK, StillMatches
  <2>3. PICK a : a = rows[p].user
    OBVIOUS
  <2>4. PICK m \in Free :
          /\ rows' = [rows EXCEPT ![p] = Revoked(rows[p], at[r], "Regular"),
                                  ![m] = NewRow(snap[r].user, at[r])]
          /\ hist' = [hist EXCEPT ![m] = [parent |-> p, cred |-> seen[r].cred,
                                          fresh |-> seen[r].fresh]]
    BY <1>5, <2>1 DEF RotateLive
  <2>5. m = n
    BY <1>1, <2>4, <2>2 DEF Free, TypeOK
  <2>6. /\ rows'[n].user = a
        /\ hist'[n].parent = p /\ hist'[n].cred = seen[r].cred
    BY <1>1, <2>2, <2>3, <2>4, <2>5 DEF NewRow, TypeOK, Free
  <2>7. Unbroken(n)' => Unbroken(p)'
    BY <2>1, <2>6 DEF Unbroken
  <2>8. Unbroken(p)' => Unbroken(p)
    BY <1>1, <2>2, UnbrokenBefore
  <2>9. seen[r].cred = hist[p].cred
    BY <1>1, <1>5, <2>1 DEF SlotCurrent, RotateLive
  <2>10. Unbroken(p) /\ ~Changing(a) => hist[p].cred = cred[a]
    BY <2>2, <2>3 DEF CredInv, TokenCurrent
  <2>11. Unbroken(n)' /\ ~Changing(a)' => hist'[n].cred = cred'[a]
    BY <1>2, <1>3, <2>6, <2>7, <2>8, <2>9, <2>10
  <2> HIDE DEF Unbroken
  <2> QED  BY <2>6, <2>11 DEF TokenCurrent, Changing
<1> QED  BY <1>4, <1>5

(* Steps that neither change credentials nor end a change of them.         *)
LEMMA QuietStep ==
    ASSUME CredInv, [Next]_vars, cred' = cred,
           NEW r \in Reqs,
           \A q \in Reqs \ {r} : /\ pc'[q] = pc[q] /\ acct'[q] = acct[q]
                                 /\ tok'[q] = tok[q] /\ seen'[q] = seen[q],
           pc[r] # "revokeAll" \/ (pc'[r] = pc[r] /\ acct'[r] = acct[r]),
           SlotCurrent(r)',
           \/ \A t \in Tokens : rows'[t] = None <=> rows[t] = None
           \/ Mint(r) \/ RotateLive(r)
    PROVE  CredInv'
<1>1. Inv
  BY DEF CredInv
<1>2. Inv'
  BY <1>1, InvStep
<1>3. ASSUME NEW a, Changing(a)  PROVE Changing(a)'
  BY <1>3 DEF Changing
<1>4. ASSUME NEW t \in Tokens  PROVE TokenCurrent(t)'
  <2>1. CASE rows[t] # None
    <3>1. PICK a : a = rows[t].user
      OBVIOUS
    <3> QED  BY <1>3, <2>1, <3>1, TokenKept
  <2>2. CASE rows'[t] = None
    BY <2>2 DEF TokenCurrent
  <2>3. CASE rows[t] = None /\ rows'[t] # None
    BY <2>3, TokenMinted
  <2> QED  BY <2>1, <2>2, <2>3
<1>5. ASSUME NEW q \in Reqs  PROVE SlotCurrent(q)'
  <2>1. CASE q # r
    <3>1. PICK a : a = acct[q]
      OBVIOUS
    <3> QED  BY <1>3, <2>1, <3>1, SlotKept
  <2> QED  BY <2>1
<1> QED  BY <1>2, <1>4, <1>5 DEF CredInv

(* RevokeAll: what the account has is not fresh any more.                  *)
LEMMA RevokeAllStep ==
    ASSUME CredInv, [Next]_vars, NEW r \in Reqs, RevokeAll(r)
    PROVE  CredInv'
<1> USE ConstAssumption
<1>1. Inv /\ TypeOK /\ cred' = cred
  BY DEF CredInv, Inv, RevokeAll
<1>2. Inv'
  BY <1>1, InvStep
<1>3. PICK b : b = acct[r]
  OBVIOUS
<1>4. \A q \in Reqs \ {r} : pc'[q] = pc[q] /\ acct'[q] = acct[q] /\ tok'[q] = tok[q]
  BY <1>1 DEF RevokeAll, Clear, TypeOK
<1>5. ASSUME NEW a, a # b, Changing(a)  PROVE Changing(a)'
  BY <1>3, <1>4, <1>5 DEF Changing
<1>6. ASSUME NEW t \in Tokens  PROVE TokenCurrent(t)'
  <2>1. CASE rows[t] = None
    <3>1. rows'[t] = None
      BY <2>1 DEF RevokeAll, Live
    <3> QED  BY <3>1 DEF TokenCurrent
  <2>2. CASE rows[t] # None /\ rows[t].user = b
    <3>1. hist[t] \in History
      BY <1>1, <2>2 DEF Inv, TypeOK, RowOK
    <3>2. ~hist'[t].fresh
      BY <1>3, <2>2, <3>1 DEF RevokeAll, History
    <3>3. ~Unbroken(t)'
      BY <3>2 DEF Unbroken
    <3> QED  BY <3>3 DEF TokenCurrent
  <2>3. CASE rows[t] # None /\ rows[t].user # b
    <3>1. PICK a : a = rows[t].user
      OBVIOUS
    <3> QED  BY <1>1, <1>5, <2>3, <3>1, TokenKept
  <2> QED  BY <2>1, <2>2, <2>3
<1>7. ASSUME NEW q \in Reqs  PROVE SlotCurrent(q)'
  <2>1. CASE q = r
    BY <1>1, <2>1 DEF RevokeAll, Clear, TypeOK, SlotCurrent
  <2>2. CASE q # r
    <3>1. seen[q] \in Seen
      BY <1>1 DEF TypeOK
    <3>2. seen'[q] = IF acct[q] = b THEN [seen[q] EXCEPT !.fresh = FALSE] ELSE seen[q]
      BY <1>3, <2>2 DEF RevokeAll
    <3>3. /\ seen'[q].cred = seen[q].cred /\ (seen'[q].fresh => seen[q].fresh)
          /\ acct[q] = b => ~seen'[q].fresh
      BY <3>1, <3>2 DEF Seen
    <3>4. PICK a : a = acct[q]
      OBVIOUS
    <3>5. pc[q] = "mint" /\ seen'[q].fresh => (Changing(a) => Changing(a)')
      BY <1>5, <3>3, <3>4
    <3> QED  BY <1>1, <1>4, <2>2, <3>3, <3>4, <3>5, SlotKept
  <2> QED  BY <2>1, <2>2
<1> QED  BY <1>2, <1>6, <1>7 DEF CredInv

(* A change of credentials goes on to revoke.                              *)
LEMMA SaveStep ==
    ASSUME CredInv, [Next]_vars, NEW r \in Reqs, SaveCredentials(r)
    PROVE  CredInv'
<1>1. Inv /\ TypeOK /\ SlotOK(r)
  BY DEF CredInv, Inv
<1>2. Inv'
  BY <1>1, InvStep
<1>3. PICK b \in Accounts : b = acct[r]
  BY <1>1 DEF SlotOK, SaveCredentials
<1>4. /\ pc' = [pc EXCEPT ![r] = "revokeAll"] /\ pc[r] = "save"
      /\ UNCHANGED <<acct, tok, seen, rows>>
  BY DEF SaveCredentials, Goto
<1>5. \A a : a # b => cred'[a] = cred[a]
  BY <1>1, <1>3 DEF SaveCredentials, TypeOK
<1>6. Changing(b)'
  BY <1>1, <1>3, <1>4 DEF Changing, TypeOK
<1>7. ASSUME NEW a, Changing(a)  PROVE Changing(a)'
  BY <1>1, <1>4, <1>7 DEF Changing, TypeOK
<1>8. ASSUME NEW t \in Tokens  PROVE TokenCurrent(t)'
  <2>1. CASE rows[t] # None
    <3>1. PICK a : a = rows[t].user
      OBVIOUS
    <3>2. Changing(a)' \/ cred'[a] = cred[a]
      BY <1>5, <1>6
    <3> QED  BY <1>7, <2>1, <3>1, <3>2, TokenKept
  <2>2. CASE rows[t] = None
    BY <1>4, <2>2 DEF TokenCurrent
  <2> QED  BY <2>1, <2>2
<1>9. ASSUME NEW q \in Reqs  PROVE SlotCurrent(q)'
  <2>1. CASE q = r
    BY <1>1, <1>4, <2>1 DEF TypeOK, SlotCurrent
  <2>2. CASE q # r
    <3>1. pc'[q] = pc[q]
      BY <1>1, <1>4, <2>2 DEF TypeOK
    <3>2. PICK a : a = acct[q]
      OBVIOUS
    <3>3. Changing(a)' \/ cred'[a] = cred[a]
      BY <1>5, <1>6
    <3> QED  BY <1>4, <1>7, <3>1, <3>2, <3>3, SlotKept
  <2> QED  BY <2>1, <2>2
<1> QED  BY <1>2, <1>8, <1>9 DEF CredInv

LEMMA CredStep ==
    ASSUME MayFail = FALSE, CredInv, [Next]_vars
    PROVE  CredInv'
<1> USE ConstAssumption
<1>1. Inv /\ TypeOK
  BY DEF CredInv, Inv
<1>2. CASE UNCHANGED <<rows, cred, reqVars, ghosts>>
  <2>1. Inv'
    BY <1>1, InvStep
  <2>2. UNCHANGED <<rows, cred, pc, acct, tok, hist, seen>>
    BY <1>2 DEF reqVars, ghosts
  <2> QED
    BY <2>1, <2>2 DEF CredInv, TokenCurrent, SlotCurrent, Changing, Unbroken
<1>3. ASSUME NEW r \in Reqs, NEW step, NEW a, NEW t, NEW row, NEW c,
             pc[r] = "idle", Begin(r, step, a, t, row, c),
             UNCHANGED <<rows, cred, hist>>,
             step = "mint" => c = cred[a],
             step = "rotate" => c = hist[t].cred
      PROVE  CredInv'
  <2>1. \A q \in Reqs \ {r} : /\ pc'[q] = pc[q] /\ acct'[q] = acct[q]
                              /\ tok'[q] = tok[q] /\ seen'[q] = seen[q]
    BY <1>1, <1>3 DEF Begin, TypeOK
  <2>2. pc'[r] = step /\ acct'[r] = a /\ tok'[r] = t /\ seen'[r] = [cred |-> c, fresh |-> TRUE]
    BY <1>1, <1>3 DEF Begin, TypeOK
  <2>3. SlotCurrent(r)'
    BY <1>3, <2>2 DEF SlotCurrent
  <2> QED  BY <1>3, <2>1, <2>3, QuietStep
<1>4. ASSUME NEW r \in Reqs,
             \/ \E a \in Accounts : Login(r, a) \/ Recover(r, a)
             \/ \E u \in Tokens : \/ Refresh(r, u) \/ Logout(r, u)
                                  \/ LogoutAll(r, u) \/ ChangePassword(r, u)
      PROVE  CredInv'
  <2>1. ASSUME NEW a \in Accounts, Login(r, a) \/ Recover(r, a)  PROVE CredInv'
    BY <1>3, <2>1 DEF Login, Recover
  <2>2. ASSUME NEW u \in Tokens, Refresh(r, u) \/ Logout(r, u)  PROVE CredInv'
    BY <1>3, <2>2 DEF Refresh, Logout
  <2>3. ASSUME NEW u \in Tokens, LogoutAll(r, u) \/ ChangePassword(r, u)  PROVE CredInv'
    BY <1>3, <2>3 DEF LogoutAll, ChangePassword
  <2> QED  BY <1>4, <2>1, <2>2, <2>3
<1>5. ASSUME NEW r \in Reqs, Finish(r), pc[r] # "revokeAll", cred' = cred,
             \/ \A t \in Tokens : rows'[t] = None <=> rows[t] = None
             \/ Mint(r) \/ RotateLive(r)
      PROVE  CredInv'
  <2>1. \A q \in Reqs \ {r} : /\ pc'[q] = pc[q] /\ acct'[q] = acct[q]
                              /\ tok'[q] = tok[q] /\ seen'[q] = seen[q]
    BY <1>1, <1>5 DEF Finish, Clear, TypeOK
  <2>2. pc'[r] = "idle"
    BY <1>1, <1>5 DEF Finish, Clear, TypeOK
  <2>3. SlotCurrent(r)'
    BY <2>2 DEF SlotCurrent
  <2> QED  BY <1>5, <2>1, <2>3, QuietStep
<1>6. ASSUME NEW r \in Reqs, NEW step \in {"save", "revokeAll"}, Goto(r, step),
             pc[r] # "revokeAll", UNCHANGED <<rows, cred, hist>>
      PROVE  CredInv'
  <2>1. \A q \in Reqs \ {r} : /\ pc'[q] = pc[q] /\ acct'[q] = acct[q]
                              /\ tok'[q] = tok[q] /\ seen'[q] = seen[q]
    BY <1>1, <1>6 DEF Goto, TypeOK
  <2>2. pc'[r] = step
    BY <1>1, <1>6 DEF Goto, TypeOK
  <2>3. SlotCurrent(r)'
    BY <2>2 DEF SlotCurrent
  <2> QED  BY <1>6, <2>1, <2>3, QuietStep
<1>7. ASSUME NEW r \in Reqs, RotateRecentlyRevoked(r) \/ Revoke(r)  PROVE CredInv'
  <2>1. PICK p \in Tokens : p = tok[r]
    BY <1>1, <1>7 DEF Inv, SlotOK, RotateRecentlyRevoked, Revoke
  <2>2. rows[p] # None
    BY <1>1, <1>7, <2>1 DEF Inv, SlotOK, StillMatches, RotateRecentlyRevoked, Revoke
  <2>3. \A t \in Tokens \ {p} : rows'[t] = rows[t]
    BY <1>1, <1>7, <2>1 DEF RotateRecentlyRevoked, Revoke, TypeOK
  <2>4. rows'[p] # None
    BY <1>1, <2>2, ForwardStep DEF Forward, StillMatches
  <2> QED  BY <1>5, <1>7, <2>2, <2>3, <2>4 DEF RotateRecentlyRevoked, Revoke
<1>8. ASSUME NEW r \in Reqs, Advance(r)  PROVE CredInv'
  <2>1. CASE Mint(r) \/ RotateLive(r)
    BY <1>5, <2>1 DEF Mint, RotateLive
  <2>2. CASE RotateExpired(r)
    BY <1>5, <2>2 DEF RotateExpired
  <2>3. CASE RotateRevoked(r)
    BY <1>5, <1>6, <2>3 DEF RotateRevoked
  <2>4. CASE Verify(r)
    BY <1>5, <1>6, <2>4 DEF Verify
  <2> QED  BY <1>7, <1>8, <2>1, <2>2, <2>3, <2>4, RevokeAllStep, SaveStep DEF Advance
<1>9. CASE Tick
  BY <1>2, <1>9 DEF Tick
<1>10. CASE UNCHANGED vars
  BY <1>2, <1>10 DEF vars, reqVars, ghosts
<1> QED  BY <1>4, <1>8, <1>9, <1>10 DEF Next, Fail

(* CredInv holds in every reachable state when no request dies.            *)
LEMMA CredInvariance ==
    ASSUME MayFail = FALSE
    PROVE  Spec => []CredInv
<1>1. Init => CredInv
  <2> SUFFICES ASSUME Init  PROVE CredInv
    OBVIOUS
  <2>1. Inv
    BY InitInv
  <2> QED  BY <2>1 DEF Init, CredInv, TokenCurrent, SlotCurrent
<1>2. CredInv /\ [Next]_vars => CredInv'
  BY CredStep
<1> QED  BY <1>1, <1>2, PTL DEF Spec

(* When requests are served to their ends, every living session whose line *)
(* no revocation overlapped descends from a login with the credentials of  *)
(* now, once the change that set them has returned.                        *)
THEOREM SessionsMatch ==
    ASSUME MayFail = FALSE
    PROVE  Spec => []SessionsMatchCredentials
<1>1. CredInv => SessionsMatchCredentials
  BY DEF CredInv, TokenCurrent, SessionsMatchCredentials, Live
<1> QED  BY <1>1, CredInvariance, PTL

-----------------------------------------------------------------------------
(* One-time use.                                                           *)

(* A token is exchanged by a request that found it alive when it read it.  *)
LEMMA ExchangedAlive ==
    ASSUME Inv, [Next]_vars, CopiesAreCurrent, NEW n \in Tokens,
           rows[n] = None, rows'[n] # None, hist'[n].parent # None
    PROVE  hist'[n].parent \in Tokens /\ Live(hist'[n].parent)
<1> USE ConstAssumption
<1>1. TypeOK
  BY DEF Inv
<1>2. ASSUME NEW r \in Reqs, RotateLive(r)
      PROVE  hist'[n].parent \in Tokens /\ Live(hist'[n].parent)
  <2>1. PICK p \in Tokens : p = tok[r]
    BY <1>2 DEF Inv, SlotOK, RotateLive
  <2>2. rows[p] # None /\ snap[r] = rows[p] /\ snap[r].revokedAt = None
    BY <1>2, <2>1 DEF Inv, SlotOK, StillMatches, RotateLive, CopiesAreCurrent
  <2>3. hist'[n].parent = p
    <3>1. PICK m \in Free :
            /\ rows' = [rows EXCEPT ![p] = Revoked(rows[p], at[r], "Regular"),
                                    ![m] = NewRow(snap[r].user, at[r])]
            /\ hist' = [hist EXCEPT ![m] = [parent |-> p, cred |-> seen[r].cred,
                                            fresh |-> seen[r].fresh]]
      BY <1>2, <2>1 DEF RotateLive
    <3>2. m = n
      BY <1>1, <2>2, <3>1 DEF Free, TypeOK
    <3> QED  BY <1>1, <3>1, <3>2 DEF TypeOK
  <2> QED  BY <2>2, <2>3 DEF Live
<1>3. ASSUME NEW r \in Reqs, Mint(r)  PROVE FALSE
  BY <1>1, <1>3 DEF Mint, Free, TypeOK
<1>4. ASSUME NEW r \in Reqs, RotateRecentlyRevoked(r) \/ Revoke(r)  PROVE FALSE
  <2>1. PICK p \in Tokens : p = tok[r]
    BY <1>4 DEF Inv, SlotOK, RotateRecentlyRevoked, Revoke
  <2>2. rows[p] # None
    BY <1>4, <2>1 DEF Inv, SlotOK, StillMatches, RotateRecentlyRevoked, Revoke
  <2>3. \A t \in Tokens \ {p} : rows'[t] = rows[t]
    BY <1>1, <1>4, <2>1 DEF RotateRecentlyRevoked, Revoke, TypeOK
  <2> QED  BY <2>2, <2>3
<1>5. ASSUME NEW r \in Reqs, RevokeAll(r)  PROVE FALSE
  BY <1>5 DEF RevokeAll, Live
<1>6. ASSUME NEW r \in Reqs, Advance(r) \/ Fail(r)
      PROVE  hist'[n].parent \in Tokens /\ Live(hist'[n].parent)
  BY <1>2, <1>3, <1>4, <1>5, <1>6
     DEF Advance, RotateExpired, RotateRevoked, Verify, SaveCredentials, Fail
<1>7. ASSUME NEW r \in Reqs,
             \/ \E a \in Accounts : Login(r, a) \/ Recover(r, a)
             \/ \E u \in Tokens : \/ Refresh(r, u) \/ Logout(r, u)
                                  \/ LogoutAll(r, u) \/ ChangePassword(r, u)
      PROVE  FALSE
  BY <1>7 DEF Login, Recover, Refresh, Logout, LogoutAll, ChangePassword
<1> QED
  BY <1>6, <1>7 DEF Next, Tick, vars

(* Every step that finds the copies of all requests up to date opens,      *)
(* closes or exchanges a session under the promise of one-time use         *)
(* (RotateAsync): only refreshes that overlap fork a session.              *)
THEOREM OneTimeUse == Spec => StrictUnlessStale
<1>1. ASSUME Inv, [Next]_vars, CopiesAreCurrent
      PROVE  [StrictLifecycle!Next]_<<Status, Owner, Origin>>
  <2> USE ConstAssumption
  <2>1. [Lifecycle!Next]_(Lifecycle!vars)
    BY <1>1, LifecycleStep
  <2>2. ASSUME NEW p \in Tokens, NEW t \in Tokens, Lifecycle!Rotate(p, t)
        PROVE  StrictLifecycle!Rotate(p, t)
    <3>1. rows[t] = None
      BY <2>2 DEF Lifecycle!Rotate, Status
    <3>2. Origin'[t] = p /\ Status'[t] = "live"
      BY <2>2, <3>1 DEF Lifecycle!Rotate, Origin, Status
    <3>3. rows'[t] # None
      BY <3>2 DEF Status
    <3>4. hist'[t].parent = p /\ p # None
      BY <3>2 DEF Origin
    <3>5. rows[p] # None /\ rows[p].revokedAt = None
      BY <1>1, <3>1, <3>3, <3>4, ExchangedAlive DEF Live
    <3>6. Status[p] = "live"
      BY <3>5 DEF Status
    <3> QED  BY <2>2, <3>6 DEF Lifecycle!Rotate, StrictLifecycle!Rotate
  <2>3. ASSUME NEW t \in Tokens, NEW a \in Accounts, Lifecycle!Open(t, a)
        PROVE  StrictLifecycle!Open(t, a)
    BY <2>3 DEF Lifecycle!Open, StrictLifecycle!Open
  <2>4. ASSUME NEW a \in Accounts, NEW S \in SUBSET Tokens, Lifecycle!Close(a, S)
        PROVE  StrictLifecycle!Close(a, S)
    BY <2>4 DEF Lifecycle!Close, StrictLifecycle!Close
  <2> QED
    BY <2>1, <2>2, <2>3, <2>4 DEF Lifecycle!Next, StrictLifecycle!Next, Lifecycle!vars
<1>2. Inv /\ [Next]_vars
        => [CopiesAreCurrent => [StrictLifecycle!Next]_<<Status, Owner, Origin>>]_vars
  BY <1>1
<1> QED
  BY <1>2, Invariance, PTL DEF Spec, StrictUnlessStale
-----------------------------------------------------------------------------
(* Requests served one at a time.  In a behaviour without two requests     *)
(* under way at once the store keeps, without any exception, the promises  *)
(* that overlapping requests break: one-time use, no session that outlives *)
(* a RevokeAll, and sessions that match the credentials.                   *)

Sequential == \A r, s \in Reqs : pc[r] # "idle" /\ pc[s] # "idle" => r = s

SeqInv ==
    /\ CopiesAreCurrent
    /\ \A t \in Tokens : Live(t) => hist[t].fresh
    /\ \A r \in Reqs : pc[r] # "idle" => seen[r].fresh

(* A request that starts copies a row as it is.                            *)
LEMMA SeqBegin ==
    ASSUME Inv, SeqInv, NEW r \in Reqs, NEW step, NEW a, NEW t, NEW row, NEW c,
           Begin(r, step, a, t, row, c), UNCHANGED <<rows, hist>>,
           row # None => row = rows[t]
    PROVE  SeqInv'
<1>1. TypeOK
  BY DEF Inv
<1>2. /\ pc'[r] = step /\ tok'[r] = t /\ snap'[r] = row /\ seen'[r].fresh
      /\ \A q \in Reqs \ {r} : /\ pc'[q] = pc[q] /\ tok'[q] = tok[q]
                               /\ snap'[q] = snap[q] /\ seen'[q] = seen[q]
  BY <1>1 DEF Begin, TypeOK
<1>3. CopiesAreCurrent'
  BY <1>2 DEF SeqInv, CopiesAreCurrent
<1>4. \A q \in Reqs : pc'[q] # "idle" => seen'[q].fresh
  BY <1>2 DEF SeqInv
<1>5. (\A u \in Tokens : Live(u) => hist[u].fresh)'
  BY DEF SeqInv, Live
<1> QED  BY <1>3, <1>4, <1>5 DEF SeqInv

(* When the one request under way ends, no copy is left.                   *)
LEMMA SeqFinish ==
    ASSUME Inv, SeqInv, Sequential, NEW r \in Reqs, pc[r] # "idle", Clear(r),
           \A t \in Tokens : Live(t)' => hist'[t].fresh
    PROVE  SeqInv'
<1>1. TypeOK
  BY DEF Inv
<1>2. /\ pc'[r] = "idle" /\ snap'[r] = None
      /\ \A q \in Reqs \ {r} : pc'[q] = pc[q] /\ snap'[q] = snap[q]
  BY <1>1 DEF Clear, TypeOK
<1>3. \A q \in Reqs \ {r} : pc[q] = "idle" /\ snap[q] = None
  BY DEF Sequential, Inv, SlotOK
<1>4. \A q \in Reqs : pc'[q] = "idle" /\ snap'[q] = None
  BY <1>2, <1>3
<1> QED  BY <1>4 DEF SeqInv, CopiesAreCurrent

LEMMA SeqStep ==
    ASSUME Inv, SeqInv, Sequential, [Next]_vars
    PROVE  SeqInv'
<1> USE ConstAssumption
<1>1. TypeOK
  BY DEF Inv
<1>2. ASSUME NEW r \in Reqs, Mint(r)
      PROVE  SeqInv'
  <2>1. PICK n \in Free :
          /\ rows' = [rows EXCEPT ![n] = NewRow(acct[r], at[r])]
          /\ hist' = [hist EXCEPT ![n] = [parent |-> None, cred |-> seen[r].cred,
                                          fresh |-> seen[r].fresh]]
    BY <1>2 DEF Mint
  <2>2. hist'[n].fresh
    BY <1>1, <1>2, <2>1 DEF SeqInv, Mint, Free, TypeOK
  <2>3. \A t \in Tokens \ {n} : rows'[t] = rows[t] /\ hist'[t] = hist[t]
    BY <1>1, <2>1 DEF TypeOK
  <2>4. \A t \in Tokens : Live(t)' => hist'[t].fresh
    BY <2>2, <2>3 DEF SeqInv, Live
  <2> QED  BY <1>2, <2>4, SeqFinish DEF Mint, Finish
<1>3. ASSUME NEW r \in Reqs, RotateLive(r)
      PROVE  SeqInv'
  <2>1. PICK p \in Tokens : p = tok[r]
    BY <1>3 DEF Inv, SlotOK, RotateLive
  <2>2. PICK n \in Free :
          /\ rows' = [rows EXCEPT ![p] = Revoked(rows[p], at[r], "Regular"),
                                  ![n] = NewRow(snap[r].user, at[r])]
          /\ hist' = [hist EXCEPT ![n] = [parent |-> p, cred |-> seen[r].cred,
                                          fresh |-> seen[r].fresh]]
    BY <1>3, <2>1 DEF RotateLive
  <2>3. rows[p] # None
    BY <1>3, <2>1 DEF Inv, SlotOK, StillMatches, RotateLive
  <2>4. hist'[n].fresh
    BY <1>1, <1>3, <2>2 DEF SeqInv, RotateLive, Free, TypeOK
  <2>5. \A t \in Tokens \ {p, n} : rows'[t] = rows[t] /\ hist'[t] = hist[t]
    BY <1>1, <2>2 DEF TypeOK
  <2>6. ~Live(p)'
    <3>1. rows'[p] = Revoked(rows[p], at[r], "Regular")
      BY <1>1, <2>2, <2>3 DEF Free, TypeOK
    <3>2. rows[p] \in Row /\ at[r] \in Nat
      BY <1>1, <2>3 DEF TypeOK
    <3> QED  BY <3>1, <3>2 DEF Revoked, Row, Live
  <2>7. \A t \in Tokens : Live(t)' => hist'[t].fresh
    BY <2>4, <2>5, <2>6 DEF SeqInv, Live
  <2> QED  BY <1>3, <2>7, SeqFinish DEF RotateLive, Finish
<1>4. ASSUME NEW r \in Reqs, RotateRecentlyRevoked(r) \/ Revoke(r)
      PROVE  SeqInv'
  <2>1. PICK p \in Tokens : p = tok[r]
    BY <1>4 DEF Inv, SlotOK, RotateRecentlyRevoked, Revoke
  <2>2. rows[p] \in Row /\ at[r] \in Nat
    BY <1>1, <1>4, <2>1 DEF Inv, SlotOK, StillMatches, RotateRecentlyRevoked, Revoke, TypeOK
  <2>3. \A t \in Tokens \ {p} : rows'[t] = rows[t]
    BY <1>1, <1>4, <2>1 DEF RotateRecentlyRevoked, Revoke, TypeOK
  <2>4. rows' = rows \/ rows'[p].revokedAt = at[r]
    <3>1. CASE RotateRecentlyRevoked(r)
      <4>1. rows' = rows \/ rows' = [rows EXCEPT ![p] = [rows[p] EXCEPT !.revokedAt = at[r]]]
        BY <2>1, <3>1 DEF RotateRecentlyRevoked
      <4> QED  BY <1>1, <2>2, <4>1 DEF Row, TypeOK
    <3>2. CASE Revoke(r)
      <4>1. rows' = [rows EXCEPT ![p] = Revoked(rows[p], at[r], "Security")]
        BY <2>1, <3>2 DEF Revoke
      <4> QED  BY <1>1, <2>2, <4>1 DEF Revoked, Row, TypeOK
    <3> QED  BY <1>4, <3>1, <3>2
  <2>5. \A t \in Tokens : Live(t)' => Live(t)
    BY <2>2, <2>3, <2>4 DEF Live
  <2>6. \A t \in Tokens : Live(t)' => hist'[t].fresh
    BY <1>4, <2>5 DEF SeqInv, RotateRecentlyRevoked, Revoke
  <2> QED  BY <1>4, <2>6, SeqFinish DEF RotateRecentlyRevoked, Revoke, Finish
<1>5. ASSUME NEW r \in Reqs, RevokeAll(r)
      PROVE  SeqInv'
  <2>1. ASSUME NEW t \in Tokens, Live(t)'
        PROVE  Live(t) /\ hist'[t] = hist[t]
    <3>1. CASE Live(t) /\ rows[t].user = acct[r]
      <4>1. rows'[t] = Revoked(rows[t], at[r], "Security")
        BY <1>5, <3>1 DEF RevokeAll
      <4>2. rows[t] \in Row /\ at[r] \in Nat
        BY <1>1, <3>1 DEF Live, TypeOK
      <4> QED  BY <2>1, <4>1, <4>2 DEF Revoked, Row, Live
    <3>2. CASE ~(Live(t) /\ rows[t].user = acct[r])
      <4>1. rows'[t] = rows[t]
        BY <1>5, <3>2 DEF RevokeAll
      <4>2. Live(t) /\ rows[t].user # acct[r]
        BY <2>1, <3>2, <4>1 DEF Live
      <4> QED  BY <1>5, <4>2 DEF RevokeAll
    <3> QED  BY <3>1, <3>2
  <2>2. \A t \in Tokens : Live(t)' => hist'[t].fresh
    BY <2>1 DEF SeqInv
  <2> QED  BY <1>5, <2>2, SeqFinish DEF RevokeAll
<1>6. ASSUME NEW r \in Reqs, pc[r] # "idle", Finish(r), UNCHANGED <<rows, hist>>
      PROVE  SeqInv'
  <2>1. \A t \in Tokens : Live(t)' => hist'[t].fresh
    BY <1>6 DEF SeqInv, Live
  <2> QED  BY <1>6, <2>1, SeqFinish DEF Finish
<1>7. ASSUME NEW r \in Reqs, NEW step, pc[r] # "idle", Goto(r, step),
             UNCHANGED <<rows, hist>>
      PROVE  SeqInv'
  <2>1. \A q \in Reqs : pc'[q] # "idle" => pc[q] # "idle"
    BY <1>1, <1>7 DEF Goto, TypeOK
  <2> QED  BY <1>7, <2>1 DEF Goto, SeqInv, CopiesAreCurrent, Live
<1>8. ASSUME NEW r \in Reqs, Advance(r) \/ Fail(r)
      PROVE  SeqInv'
  <2>1. CASE RotateRevoked(r)
    BY <1>6, <1>7, <2>1 DEF RotateRevoked
  <2>2. CASE Verify(r) \/ SaveCredentials(r)
    BY <1>6, <1>7, <2>2 DEF Verify, SaveCredentials
  <2>3. CASE RotateExpired(r) \/ Fail(r)
    BY <1>6, <2>3 DEF RotateExpired, Fail
  <2> QED  BY <1>2, <1>3, <1>4, <1>5, <1>8, <2>1, <2>2, <2>3 DEF Advance
<1>9. ASSUME NEW r \in Reqs, NEW a \in Accounts, Login(r, a) \/ Recover(r, a)
      PROVE  SeqInv'
  BY <1>9, SeqBegin DEF Login, Recover
<1>10. ASSUME NEW r \in Reqs, NEW t \in Tokens, Refresh(r, t) \/ Logout(r, t)
       PROVE  SeqInv'
  BY <1>10, SeqBegin DEF Refresh, Logout
<1>11. ASSUME NEW r \in Reqs, NEW t \in Tokens, LogoutAll(r, t) \/ ChangePassword(r, t)
       PROVE  SeqInv'
  BY <1>11, SeqBegin DEF LogoutAll, ChangePassword
<1>12. CASE UNCHANGED <<rows, reqVars, ghosts>>
  BY <1>12 DEF SeqInv, CopiesAreCurrent, Live, reqVars, ghosts
<1>13. CASE Tick \/ UNCHANGED vars
  BY <1>12, <1>13 DEF Tick, vars, reqVars, ghosts
<1> QED  BY <1>8, <1>9, <1>10, <1>11, <1>13 DEF Next

(* Without overlap every copy a request decides on is up to date.          *)
THEOREM SequentialInvariance == Spec /\ []Sequential => []SeqInv
<1>1. Init => SeqInv
  BY DEF Init, SeqInv, CopiesAreCurrent, Live
<1>2. Inv /\ SeqInv /\ Sequential /\ [Next]_vars => SeqInv'
  BY SeqStep
<1> QED  BY <1>1, <1>2, Invariance, PTL DEF Spec

(* Without overlap a token is exchanged at most once, and only while it is *)
(* alive: the store implements the lifecycle under one-time use.           *)
THEOREM SequentialLifecycle == Spec /\ []Sequential => StrictLifecycle!Spec
<1>1. Init => StrictLifecycle!Init
  BY DEF Init, StrictLifecycle!Init, Status, Owner, Origin
<1>2. SeqInv => CopiesAreCurrent
  BY DEF SeqInv
<1>3. CopiesAreCurrent /\ [CopiesAreCurrent
                              => [StrictLifecycle!Next]_<<Status, Owner, Origin>>]_vars
        => [StrictLifecycle!Next]_(StrictLifecycle!vars)
  BY DEF vars, StrictLifecycle!vars, Status, Owner, Origin
<1> QED
  BY <1>1, <1>2, <1>3, OneTimeUse, SequentialInvariance, PTL
     DEF Spec, StrictUnlessStale, StrictLifecycle!Spec

(* Without overlap no session renewed from a read made before a RevokeAll  *)
(* of its account is alive after it.                                       *)
THEOREM SequentialRevocation == Spec /\ []Sequential => []NoRenewalAcrossRevokeAll
<1>1. SeqInv => NoRenewalAcrossRevokeAll
  BY DEF SeqInv, NoRenewalAcrossRevokeAll
<1> QED  BY <1>1, SequentialInvariance, PTL
-----------------------------------------------------------------------------
(* The credentials, without overlap.  A token that is exchanged is alive,  *)
(* so that the new one has the credentials of now as well, and a change in *)
(* progress is the only request under way until it has revoked.            *)

MatchInv ==
    /\ \A t \in Tokens :
          Live(t) /\ ~Changing(rows[t].user) => hist[t].cred = cred[rows[t].user]
    /\ \A r \in Reqs : pc[r] = "mint" => seen[r].cred = cred[acct[r]]

(* A token that was there before the step and lives after it.              *)
LEMMA MatchKept ==
    ASSUME Inv, MatchInv, [Next]_vars, NEW t \in Tokens, rows[t] # None, Live(t)',
           ~Changing(rows[t].user), cred'[rows[t].user] = cred[rows[t].user]
    PROVE  hist'[t].cred = cred'[rows'[t].user]
<1>1. rows'[t].user = rows[t].user /\ Live(t)
  BY ForwardStep DEF Forward, StillMatches, Live
<1>2. hist'[t].cred = hist[t].cred
  BY HistoryStep
<1> QED  BY <1>1, <1>2 DEF MatchInv

(* The one request under way moves on to step, or ends, and changes no     *)
(* credentials unless it is about to revoke.                               *)
LEMMA MatchMove ==
    ASSUME Inv, MatchInv, Sequential, [Next]_vars,
           NEW r \in Reqs, pc[r] \notin {"idle", "revokeAll"},
           NEW step, step # "mint", pc' = [pc EXCEPT ![r] = step],
           cred' = cred \/ (/\ step = "revokeAll" /\ acct' = acct /\ rows' = rows
                            /\ \A a : a # acct[r] => cred'[a] = cred[a]),
           \A t \in Tokens : rows[t] = None /\ Live(t)'
                                => hist'[t].cred = cred'[rows'[t].user]
    PROVE  MatchInv'
<1>1. TypeOK
  BY DEF Inv
<1>2. pc'[r] = step /\ \A q \in Reqs \ {r} : pc'[q] = "idle" /\ pc[q] = "idle"
  BY <1>1 DEF Sequential, TypeOK
<1>3. \A a : ~Changing(a)
  BY <1>2 DEF Changing
<1>4. ASSUME NEW t \in Tokens, Live(t)', ~Changing(rows[t].user)'
      PROVE  hist'[t].cred = cred'[rows'[t].user]
  <2>1. CASE rows[t] = None
    BY <1>4, <2>1
  <2>2. CASE rows[t] # None /\ cred' = cred
    BY <1>3, <1>4, <2>2, MatchKept
  <2>3. CASE rows[t] # None /\ cred' # cred
    <3>1. rows' = rows /\ acct' = acct /\ step = "revokeAll"
      BY <2>3
    <3>2. rows[t].user # acct[r]
      BY <1>2, <1>4, <3>1 DEF Changing
    <3>3. cred'[rows[t].user] = cred[rows[t].user]
      BY <2>3, <3>2
    <3> QED  BY <1>3, <1>4, <2>3, <3>3, MatchKept
  <2> QED  BY <2>1, <2>2, <2>3
<1>5. \A q \in Reqs : pc'[q] # "mint"
  BY <1>2
<1> QED  BY <1>4, <1>5 DEF MatchInv

LEMMA MatchStep ==
    ASSUME MayFail = FALSE, CredInv, SeqInv, MatchInv, Sequential, [Next]_vars
    PROVE  MatchInv'
<1> USE ConstAssumption
<1>1. Inv /\ TypeOK
  BY DEF CredInv, Inv
<1>2. ASSUME NEW r \in Reqs, NEW step, NEW a, NEW t, NEW row, NEW c,
             pc[r] = "idle", Begin(r, step, a, t, row, c),
             UNCHANGED <<rows, cred, hist>>, step = "mint" => c = cred[a]
      PROVE  MatchInv'
  <2>1. /\ pc'[r] = step /\ acct'[r] = a /\ seen'[r].cred = c
        /\ \A q \in Reqs \ {r} : /\ pc'[q] = pc[q] /\ acct'[q] = acct[q]
                                 /\ seen'[q] = seen[q]
    BY <1>1, <1>2 DEF Begin, TypeOK
  <2>2. ASSUME NEW b, Changing(b)  PROVE Changing(b)'
    BY <1>2, <2>1, <2>2 DEF Changing
  <2>3. (\A u \in Tokens : Live(u) /\ ~Changing(rows[u].user)
                              => hist[u].cred = cred[rows[u].user])'
    BY <1>2, <2>2 DEF MatchInv, Live
  <2>4. \A q \in Reqs : pc'[q] = "mint" => seen'[q].cred = cred'[acct'[q]]
    BY <1>2, <2>1 DEF MatchInv
  <2> QED  BY <2>3, <2>4 DEF MatchInv
<1>3. ASSUME NEW r \in Reqs, Mint(r)
      PROVE  MatchInv'
  <2>1. PICK n \in Free :
          /\ rows' = [rows EXCEPT ![n] = NewRow(acct[r], at[r])]
          /\ hist' = [hist EXCEPT ![n] = [parent |-> None, cred |-> seen[r].cred,
                                          fresh |-> seen[r].fresh]]
    BY <1>3 DEF Mint
  <2>2. rows'[n].user = acct[r] /\ hist'[n].cred = seen[r].cred
    BY <1>1, <2>1 DEF NewRow, Free, TypeOK
  <2>3. \A t \in Tokens \ {n} : rows'[t] = rows[t]
    BY <1>1, <2>1 DEF TypeOK
  <2>4. seen[r].cred = cred[acct[r]] /\ cred' = cred /\ pc[r] = "mint"
    BY <1>3 DEF MatchInv, Mint
  <2>5. \A t \in Tokens : rows[t] = None /\ Live(t)'
                             => hist'[t].cred = cred'[rows'[t].user]
    BY <2>2, <2>3, <2>4 DEF Live
  <2> QED  BY <1>1, <1>3, <2>4, <2>5, MatchMove DEF Mint, Finish, Clear
<1>4. ASSUME NEW r \in Reqs, RotateLive(r)
      PROVE  MatchInv'
  <2>1. PICK p \in Tokens : p = tok[r]
    BY <1>1, <1>4 DEF Inv, SlotOK, RotateLive
  <2>2. rows[p] # None /\ snap[r] = rows[p] /\ Live(p)
    BY <1>1, <1>4, <2>1
       DEF Inv, SlotOK, StillMatches, RotateLive, SeqInv, CopiesAreCurrent, Live
  <2>3. PICK n \in Free :
          /\ rows' = [rows EXCEPT ![p] = Revoked(rows[p], at[r], "Regular"),
                                  ![n] = NewRow(rows[p].user, at[r])]
          /\ hist' = [hist EXCEPT ![n] = [parent |-> p, cred |-> seen[r].cred,
                                          fresh |-> seen[r].fresh]]
    BY <1>4, <2>1, <2>2 DEF RotateLive
  <2>4. rows'[n].user = rows[p].user /\ hist'[n].cred = seen[r].cred
    BY <1>1, <2>2, <2>3 DEF NewRow, Free, TypeOK
  <2>5. \A t \in Tokens \ {n, p} : rows'[t] = rows[t]
    BY <1>1, <2>3 DEF TypeOK
  <2>6. seen[r].cred = hist[p].cred
    BY <1>4, <2>1 DEF CredInv, SlotCurrent, RotateLive
  <2>7. \A q \in Reqs : pc[q] # "revokeAll"
    BY <1>4 DEF Sequential, RotateLive
  <2>8. hist[p].cred = cred[rows[p].user]
    BY <2>2, <2>7 DEF MatchInv, Changing
  <2>9. cred' = cred
    BY <1>4 DEF RotateLive
  <2>10. \A t \in Tokens : rows[t] = None /\ Live(t)'
                              => hist'[t].cred = cred'[rows'[t].user]
    BY <2>2, <2>4, <2>5, <2>6, <2>8, <2>9 DEF Live
  <2>11. pc[r] = "rotate"
    BY <1>4 DEF RotateLive
  <2> QED  BY <1>1, <1>4, <2>9, <2>10, <2>11, MatchMove DEF RotateLive, Finish, Clear
<1>5. ASSUME NEW r \in Reqs, RevokeAll(r)
      PROVE  MatchInv'
  <2>1. pc'[r] = "idle" /\ \A q \in Reqs \ {r} : pc'[q] = "idle" /\ pc[q] = "idle"
    BY <1>1, <1>5 DEF Sequential, RevokeAll, Clear, TypeOK
  <2>2. \A a : a # acct[r] => ~Changing(a)
    BY <2>1 DEF Changing
  <2>3. ASSUME NEW t \in Tokens, Live(t)'
        PROVE  hist'[t].cred = cred'[rows'[t].user]
    <3>1. CASE Live(t) /\ rows[t].user = acct[r]
      <4>1. rows'[t] = Revoked(rows[t], at[r], "Security")
        BY <1>5, <3>1 DEF RevokeAll
      <4>2. rows[t] \in Row /\ at[r] \in Nat
        BY <1>1, <3>1 DEF Live, TypeOK
      <4> QED  BY <2>3, <4>1, <4>2 DEF Revoked, Row, Live
    <3>2. CASE ~(Live(t) /\ rows[t].user = acct[r])
      <4>1. rows'[t] = rows[t]
        BY <1>5, <3>2 DEF RevokeAll
      <4>2. rows[t] # None /\ rows[t].user # acct[r]
        BY <2>3, <3>2, <4>1 DEF Live
      <4>3. cred' = cred
        BY <1>5 DEF RevokeAll
      <4> QED  BY <1>1, <2>2, <2>3, <4>2, <4>3, MatchKept
    <3> QED  BY <3>1, <3>2
  <2>4. \A q \in Reqs : pc'[q] # "mint"
    BY <2>1
  <2> QED  BY <2>3, <2>4 DEF MatchInv
<1>6. ASSUME NEW r \in Reqs, SaveCredentials(r)
      PROVE  MatchInv'
  <2>1. \A a : a # acct[r] => cred'[a] = cred[a]
    BY <1>1, <1>6 DEF SaveCredentials, TypeOK
  <2>2. /\ pc[r] = "save" /\ pc' = [pc EXCEPT ![r] = "revokeAll"]
        /\ acct' = acct /\ rows' = rows
    BY <1>6 DEF SaveCredentials, Goto
  <2>3. \A t \in Tokens : ~(rows[t] = None /\ Live(t)')
    BY <2>2 DEF Live
  <2> QED  BY <1>1, <2>1, <2>2, <2>3, MatchMove
<1>7. ASSUME NEW r \in Reqs, RotateRecentlyRevoked(r) \/ Revoke(r)
      PROVE  MatchInv'
  <2>1. PICK p \in Tokens : p = tok[r]
    BY <1>1, <1>7 DEF Inv, SlotOK, RotateRecentlyRevoked, Revoke
  <2>2. rows[p] # None
    BY <1>1, <1>7, <2>1 DEF Inv, SlotOK, StillMatches, RotateRecentlyRevoked, Revoke
  <2>3. \A t \in Tokens \ {p} : rows'[t] = rows[t]
    BY <1>1, <1>7, <2>1 DEF RotateRecentlyRevoked, Revoke, TypeOK
  <2>4. \A t \in Tokens : ~(rows[t] = None /\ Live(t)')
    BY <2>2, <2>3 DEF Live
  <2>5. pc[r] \in {"rotate", "revoke"} /\ cred' = cred /\ pc' = [pc EXCEPT ![r] = "idle"]
    BY <1>7 DEF RotateRecentlyRevoked, Revoke, Finish, Clear
  <2> QED  BY <1>1, <2>4, <2>5, MatchMove
<1>8. ASSUME NEW r \in Reqs, RotateExpired(r) \/ RotateRevoked(r) \/ Verify(r)
      PROVE  MatchInv'
  <2>1. pc[r] \in {"rotate", "verify"} /\ UNCHANGED <<rows, cred>>
    BY <1>8 DEF RotateExpired, RotateRevoked, Verify
  <2>2. \A t \in Tokens : ~(rows[t] = None /\ Live(t)')
    BY <2>1 DEF Live
  <2>3. PICK step \in {"idle", "revokeAll", "save"} : pc' = [pc EXCEPT ![r] = step]
    BY <1>8 DEF RotateExpired, RotateRevoked, Verify, Finish, Clear, Goto
  <2> QED  BY <1>1, <2>1, <2>2, <2>3, MatchMove
<1>9. ASSUME NEW r \in Reqs, NEW a \in Accounts, Login(r, a) \/ Recover(r, a)
      PROVE  MatchInv'
  BY <1>2, <1>9 DEF Login, Recover
<1>10. ASSUME NEW r \in Reqs, NEW t \in Tokens, Refresh(r, t) \/ Logout(r, t)
       PROVE  MatchInv'
  BY <1>2, <1>10 DEF Refresh, Logout
<1>11. ASSUME NEW r \in Reqs, NEW t \in Tokens, LogoutAll(r, t) \/ ChangePassword(r, t)
       PROVE  MatchInv'
  BY <1>2, <1>11 DEF LogoutAll, ChangePassword
<1>12. CASE UNCHANGED <<rows, cred, reqVars, ghosts>>
  BY <1>12 DEF MatchInv, Changing, Live, reqVars, ghosts
<1>13. CASE Tick \/ UNCHANGED vars
  BY <1>12, <1>13 DEF Tick, vars, reqVars, ghosts
<1> QED
  BY <1>3, <1>4, <1>5, <1>6, <1>7, <1>8, <1>9, <1>10, <1>11, <1>13
     DEF Next, Advance, Fail

(* Without overlap, and when no request dies, every living session         *)
(* descends from a login with the credentials of now as soon as the change *)
(* that set them has returned.                                             *)
THEOREM SequentialSessionsMatch ==
    ASSUME MayFail = FALSE
    PROVE  Spec /\ []Sequential =>
             [](\A t \in Tokens : Live(t) /\ ~Changing(rows[t].user)
                                    => hist[t].cred = cred[rows[t].user])
<1>1. Init => MatchInv
  BY DEF Init, MatchInv, Live
<1>2. CredInv /\ SeqInv /\ MatchInv /\ Sequential /\ [Next]_vars => MatchInv'
  BY MatchStep
<1>3. MatchInv => \A t \in Tokens : Live(t) /\ ~Changing(rows[t].user)
                                      => hist[t].cred = cred[rows[t].user]
  BY DEF MatchInv
<1> QED
  BY <1>1, <1>2, <1>3, CredInvariance, SequentialInvariance, PTL DEF Spec
=============================================================================
