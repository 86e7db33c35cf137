---------------------------- MODULE MCKeyLadder -----------------------------
(* Small instances of KeyLadder.                                           *)
EXTENDS KeyLadder, TLC

CONSTANTS a1, a2, t1, t2

Scene(accts, one, two, modes, elsewhere, touch, max) ==
    [accts |-> accts, may |-> (t1 :> one @@ t2 :> two), modes |-> modes,
     elsewhere |-> elsewhere, touch |-> touch, max |-> max]

All == {"login", "register", "pinSetup", "rekey", "recover", "disable", "logout",
        "wipe", "load"}

(* One tab and another device.                                             *)
Alone == Scene({a1}, All, {}, {1, 2}, TRUE, FALSE, 3)
(* Two tabs of one account change credentials.                             *)
Twice == Scene({a1}, All \ {"wipe", "pinSetup", "disable"}, {"login", "rekey", "pinSetup"},
               {1}, FALSE, FALSE, 3)
(* Two tabs of one account, of which both may wipe the device.             *)
Wipes == Scene({a1}, {"register", "login", "pinSetup", "wipe"},
               {"login", "pinSetup", "wipe"}, {1}, FALSE, FALSE, 1)
(* Two accounts, one after the other.                                      *)
Turns == Scene({a1, a2}, All \ {"pinSetup", "disable", "recover"}, {}, {1}, FALSE, FALSE, 3)
(* Two accounts in two tabs at once.                                       *)
Both == Scene({a1, a2}, {"register", "login", "logout", "load"},
              {"register", "login", "pinSetup"}, {1}, FALSE, FALSE, 2)
(* A user who touches the form while it works.                             *)
Touched == Scene({a1, a2}, {"register", "login", "rekey", "load"}, {}, {1, 2}, FALSE, TRUE, 2)

MCScenes == {Alone, Twice, Wipes, Turns, Both, Touched}
MCTouch == {Touched}
=============================================================================
