--------------------------- MODULE TokenLifecycle ---------------------------
(***************************************************************************)
(* What the refresh-token store promises about a token, whatever requests  *)
(* run at the same time: a token is born once, belongs to one account for  *)
(* ever, and never lives again after its death; a token that was given in  *)
(* exchange for another is born in a step that leaves that other dead, and *)
(* any other death touches the tokens of one account only.                 *)
(*                                                                         *)
(* Strict adds the promise of one-time use: only a living token rotates.   *)
(***************************************************************************)
EXTENDS FiniteSets

CONSTANTS
    Accounts,
    Tokens,
    None,
    Strict      \* whether a dead token may be rotated again

VARIABLES
    status,     \* status[t]: "unborn", "live" or "dead"
    owner,      \* owner[t]: the account of t, None before its birth
    origin      \* origin[t]: the token t was exchanged for, if any

vars == <<status, owner, origin>>

Init ==
    /\ status = [t \in Tokens |-> "unborn"]
    /\ owner = [t \in Tokens |-> None]
    /\ origin = [t \in Tokens |-> None]

(* A login opens a session.                                                *)
Open(t, a) ==
    /\ status[t] = "unborn"
    /\ status' = [status EXCEPT ![t] = "live"]
    /\ owner' = [owner EXCEPT ![t] = a]
    /\ UNCHANGED origin

(* Token p is exchanged for token t.                                       *)
Rotate(p, t) ==
    /\ status[p] # "unborn"
    /\ Strict => status[p] = "live"
    /\ status[t] = "unborn"
    /\ status' = [status EXCEPT ![p] = "dead", ![t] = "live"]
    /\ owner' = [owner EXCEPT ![t] = owner[p]]
    /\ origin' = [origin EXCEPT ![t] = p]

(* Some living tokens of account a are revoked.                            *)
Close(a, S) ==
    /\ \A t \in S : status[t] = "live" /\ owner[t] = a
    /\ status' = [t \in Tokens |-> IF t \in S THEN "dead" ELSE status[t]]
    /\ UNCHANGED <<owner, origin>>

Next ==
    \/ \E t \in Tokens, a \in Accounts : Open(t, a)
    \/ \E p, t \in Tokens : Rotate(p, t)
    \/ \E a \in Accounts, S \in SUBSET Tokens : Close(a, S)

Spec == Init /\ [][Next]_vars
=============================================================================
