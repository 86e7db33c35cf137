------------------------- MODULE KeyLadderProofs --------------------------
(***************************************************************************)
(* Proofs about the key hierarchy, for every set of accounts, tabs and     *)
(* scenes and every number of choices: the password and the recovery key   *)
(* the server accepts open the account's master key, and so does what the  *)
(* device stores.                                                          *)
(***************************************************************************)
EXTENDS KeyLadder, TLAPS

-----------------------------------------------------------------------------
(* The invariant.                                                          *)

(* A pre-login answer, and with the wrap of the login a bundle.            *)
Seens == [salt : 0 .. MaxMinted, mode : Modes \cup {1},
          wrap : Wraps(Keys) \cup Wraps(Numbers) \cup {None}, of : Accounts]

Pcs == {"idle", "pre", "post", "final", "id", "derive", "register", "registered",
        "wraps", "activate", "rekey", "change", "changed", "clearPin",
        "rkWraps", "rkDerive", "recover", "recovered"}
Flows == [op : {"none", "login", "register", "pinSetup", "rekey", "recover"}, pc : Pcs,
          a : Accounts \cup {None}, pw : 0 .. MaxMinted, seen : Seens \cup {None},
          g : 0 .. MaxMinted, sel : Accounts \cup Modes \cup {None},
          mode : Modes \cup {None}]

RowType ==
    /\ scene \in Scenes /\ minted \in 0 .. scene.max
    /\ row \in [Accounts -> Users \cup {None}]
    /\ master \in [Accounts -> 0 .. MaxMinted]
StoreType ==
    /\ bundle \in Seens \cup {None}
    /\ pin \in [Accounts -> Wraps({"pin"}) \cup {None}]
SessionType ==
    /\ last \in Accounts \cup {None} /\ cookie \in Accounts \cup {None}
    /\ acc \in [Tabs -> Accounts \cup {None}] /\ token \in [Tabs -> Accounts \cup {None}]
    /\ rkSeen \in [Accounts -> {"coming", "shown", "lost"}]
TypeInv == RowType /\ StoreType /\ SessionType /\ flow \in [Tabs -> Flows]

(* The operations that hold a wrap of a password key, and those that hold  *)
(* a choice of credentials the server does not know yet.                   *)
Holding == {t \in Tabs : flow[t].pc \in {"final", "activate", "rekey", "change"}}
Pending == {t \in Tabs : flow[t].pc \in {"derive", "register", "change", "recover"}}
Known == {a \in Accounts : row[a] # None}

(* The wraps of password keys there are: of the rows, in the bundle, and   *)
(* in the hands of an operation.                                           *)
PwWraps ==
    {row[a].wrap : a \in Known} \cup {flow[t].seen.wrap : t \in Holding}
      \cup (IF bundle = None THEN {} ELSE {bundle.wrap})

(* Each holds the master key of its account, and a salt belongs to wraps   *)
(* of one account.                                                         *)
Sound(w) ==
    /\ w \in Wraps(Keys)
    /\ w.of \in Known /\ w.mk = master[w.of]
    /\ w.key.salt <= minted /\ w.key.pw <= minted
WrapsSound == \A w \in PwWraps : Sound(w)
SaltsApart == \A v, w \in PwWraps : v.key.salt = w.key.salt => v.of = w.of

(* A choice is made by one operation, and its salt is new to the server    *)
(* until it is sent.                                                       *)
ChoicesApart ==
    /\ \A t \in Tabs : flow[t].g <= minted
    /\ \A t, u \in Tabs : flow[t].g = flow[u].g /\ flow[t].g # 0 => t = u
SaltsNew ==
    \A t \in Pending : flow[t].g # 0 /\ \A w \in PwWraps : w.key.salt # flow[t].g
WrapInv == WrapsSound /\ SaltsApart /\ ChoicesApart /\ SaltsNew

(* A row is of one derivation.                                             *)
RowInv ==
    \A a \in Known :
        LET r == row[a] IN
        /\ r.ver = r.wrap.key /\ r.salt = r.ver.salt
        /\ ~scene.touch => r.mode = r.ver.mode
        /\ r.wrap.of = a
        /\ r.rkWrap = Wrap(r.rk, master[a], a)
        /\ r.rk <= minted

StoreInv ==
    /\ bundle # None =>
          /\ bundle.wrap.of = bundle.of
          /\ bundle.wrap.key.salt = bundle.salt /\ bundle.wrap.key.mode = bundle.mode
    /\ \A a \in Accounts : pin[a] # None => a \in Known /\ pin[a] = Wrap("pin", master[a], a)

(* What an operation knows where it stands.                                *)
Places(f) ==
    \/ f.op = "none" /\ f.pc = "idle"
    \/ f.op \in {"login", "register"} /\ f.pc \in {"pre", "post", "final", "id"}
    \/ f.op = "register" /\ f.pc \in {"derive", "register", "registered"}
    \/ f.op = "pinSetup" /\ f.pc \in {"wraps", "activate"}
    \/ f.op = "rekey" /\ f.pc \in {"wraps", "rekey", "change", "changed", "clearPin"}
    \/ f.op = "recover" /\ f.pc \in {"rkWraps", "rkDerive", "recover", "recovered"}

Stage(f) ==
    /\ Places(f)
    /\ IF f.op = "none" THEN f = Idle ELSE f.a \in Accounts
    /\ f.pw <= minted /\ (f.op # "none" => f.pw # 0)
    /\ f.op \in {"login", "pinSetup"} \/ f.pc \in {"wraps", "rekey", "rkWraps", "rkDerive"}
          => f.g = 0
    /\ f.op \in {"rekey", "recover"} => f.sel \in Modes
    /\ f.pc \in {"derive", "register", "change", "recover"} => f.mode \in Modes
    /\ f.op \in {"pinSetup", "rekey"} \/ f.pc \in {"post", "final", "id", "rkDerive", "recover"}
          => f.seen \in Seens
    /\ f.pc \in {"post", "final", "id"} => f.seen.of = f.a
    /\ f.pc = "change" =>
          /\ Opens(f.seen.wrap, Typed(f), f.seen.of)
          /\ ~scene.touch => f.sel = f.mode
    /\ f.pc \in {"rkDerive", "recover"} /\ f.seen.wrap # None =>
          f.a \in Known /\ f.seen.wrap.mk = master[f.a]
    /\ f.pc = "recover" => f.seen.wrap # None
    /\ f.op = "rekey" /\ f.g # 0 => \A a \in Known : row[a].rk # f.g

FlowInv == \A t \in Tabs : Stage(flow[t])

(* A recovery key on its way is in the hands of the operation that made it.*)
ComingInv ==
    \A a \in Known : rkSeen[a] = "coming" =>
        \E t \in Tabs : flow[t].a = a /\ flow[t].g = row[a].rk

Inv == TypeInv /\ WrapInv /\ RowInv /\ StoreInv /\ FlowInv /\ ComingInv
-----------------------------------------------------------------------------
(* Helpers.                                                                *)

LEMMA Bounds ==
    ASSUME RowType
    PROVE  /\ MaxMinted \in Nat /\ minted \in 0 .. MaxMinted
           /\ scene.max \in 0 .. MaxMinted
           /\ scene.accts \subseteq Accounts /\ scene.modes \subseteq Modes
BY LadderAssumption DEF LadderAssumption, RowType

LEMMA IdleFits ==
    /\ Idle \in Flows
    /\ RowType => Stage(Idle)
<1>1. Idle \in Flows
  BY LadderAssumption DEF LadderAssumption, Idle, Flows, Pcs
<1>2. ASSUME RowType PROVE Stage(Idle)
  BY <1>2, Bounds DEF Idle, Stage, Places, Opens
<1> QED  BY <1>1, <1>2

(* Where an operation stands and what it is agree.                         *)
LEMMA Placed ==
    ASSUME NEW f, f \in Flows, Stage(f)
    PROVE  /\ f.op = "none" <=> f.pc = "idle"
           /\ f.pc \in {"register", "derive", "registered"} => f.op = "register"
           /\ f.pc \in {"change", "rekey", "changed", "clearPin"} => f.op = "rekey"
           /\ f.pc \in {"rkWraps", "rkDerive", "recover", "recovered"} => f.op = "recover"
           /\ f.pc = "activate" => f.op = "pinSetup"
           /\ f.pc = "wraps" => f.op \in {"pinSetup", "rekey"}
           /\ f.pc \in {"pre", "post", "final", "id"} => f.op \in {"login", "register"}
           /\ f.op # "none" => f.a \in Accounts
BY DEF Flows, Pcs, Stage, Places, Idle

LEMMA KeyFacts ==
    /\ \A pw, salt, mode : Key(pw, salt, mode).pw = pw /\ Key(pw, salt, mode).salt = salt
                             /\ Key(pw, salt, mode).mode = mode
    /\ \A key, mk, a : Wrap(key, mk, a).key = key /\ Wrap(key, mk, a).mk = mk
                         /\ Wrap(key, mk, a).of = a
    /\ \A pw, salt \in Numbers, mode \in Modes : Key(pw, salt, mode) \in Keys
    /\ \A K : \A key \in K, mk \in Numbers, a \in Accounts : Wrap(key, mk, a) \in Wraps(K)
BY DEF Key, Wrap, Keys, Wraps

(* What the wraps are, row by row.                                         *)
LEMMA WrapOf ==
    /\ \A a \in Known : row[a].wrap \in PwWraps
    /\ \A t \in Holding : flow[t].seen.wrap \in PwWraps
    /\ bundle # None => bundle.wrap \in PwWraps
    /\ \A w \in PwWraps : \/ \E a \in Known : w = row[a].wrap
                          \/ \E t \in Holding : w = flow[t].seen.wrap
                          \/ bundle # None /\ w = bundle.wrap
BY DEF PwWraps

LEMMA KnownRows ==
    ASSUME RowType
    PROVE  /\ Known \subseteq Accounts
           /\ \A a \in Known : row[a] \in Users
           /\ \A a \in Accounts : row[a] \in Users => a \in Known
BY LadderAssumption DEF RowType, Known, LadderAssumption

-----------------------------------------------------------------------------
(* Steps that leave the rows alone and move one operation.                 *)

RowsKept == UNCHANGED <<scene, row, master, minted>>

(* What is stored is dropped, or was in somebody's hands.                  *)
StoreMoves ==
    /\ StoreType' /\ StoreInv'
    /\ bundle' # None => bundle'.wrap \in PwWraps

(* The operation of t goes on with a wrap there was, and its own choice,   *)
(* or ends.                                                                *)
Moves(t) ==
    /\ RowsKept
    /\ flow' = [flow EXCEPT ![t] = flow'[t]]
    /\ flow'[t] \in Flows /\ Stage(flow'[t])
    /\ flow'[t].g \in {0, flow[t].g}
    /\ t \in Pending' => t \in Pending /\ flow'[t].g = flow[t].g
    /\ t \in Holding' => flow'[t].seen.wrap \in PwWraps

(* A recovery key on its way stays in the hands of t, is not in its hands, *)
(* or has ceased to be on its way.                                         *)
Carries(t) ==
    \A a \in Known : rkSeen'[a] = "coming" =>
        /\ rkSeen[a] = "coming"
        /\ flow[t].a = a /\ flow[t].g = row[a].rk =>
              flow'[t].a = a /\ flow'[t].g = flow[t].g

LEMMA KeptWraps ==
    ASSUME NEW t \in Tabs, Inv, Moves(t), StoreMoves
    PROVE  WrapInv'
<1> USE DEF Moves, RowsKept
<1>1. flow \in [Tabs -> Flows]
  BY DEF Inv, TypeInv
<1>2. \A u \in Tabs : u # t => flow'[u] = flow[u]
  BY <1>1
<1>3. Known' = Known
  BY DEF Known
<1>4. \A u \in Holding' : flow'[u].seen.wrap \in PwWraps
  BY <1>2, WrapOf DEF Holding
<1>5. PwWraps' \subseteq PwWraps
  BY <1>3, <1>4, WrapOf DEF PwWraps, StoreMoves
<1>6. \A w \in PwWraps : Sound(w) => Sound(w)'
  BY <1>3 DEF Sound
<1>7. WrapsSound'
  BY <1>5, <1>6 DEF WrapsSound, Inv, WrapInv
<1>8. SaltsApart'
  BY <1>5 DEF SaltsApart, Inv, WrapInv
<1>9. \A u \in Tabs : flow'[u].g \in {0, flow[u].g}
  BY <1>2
<1>10. minted \in Nat /\ \A u \in Tabs : flow[u].g \in Nat
  BY <1>1, LadderAssumption DEF Inv, TypeInv, RowType, LadderAssumption, Flows
<1>11. ChoicesApart'
  BY <1>9, <1>10 DEF ChoicesApart, Inv, WrapInv
<1>12. \A u \in Pending' : u \in Pending /\ flow'[u].g = flow[u].g
  BY <1>2 DEF Pending
<1>13. SaltsNew'
  BY <1>5, <1>12 DEF SaltsNew, Inv, WrapInv
<1> QED  BY <1>7, <1>8, <1>11, <1>13 DEF WrapInv

(* What an operation knows stays true as long as the rows stay.            *)
LEMMA KeptStage ==
    ASSUME RowsKept
    PROVE  \A f : Stage(f) => Stage(f)'
BY DEF RowsKept, Stage, Places, Idle, Opens, Typed, Key, Known

LEMMA MoveKeeps ==
    ASSUME NEW t \in Tabs, Inv, Moves(t), StoreMoves, Carries(t), SessionType'
    PROVE  Inv'
<1>1. flow \in [Tabs -> Flows] /\ flow' \in [Tabs -> Flows]
  BY DEF Inv, TypeInv, Moves
<1>2. \A u \in Tabs : u # t => flow'[u] = flow[u]
  BY <1>1 DEF Moves
<1>3. TypeInv'
  BY <1>1 DEF Inv, TypeInv, RowType, Moves, RowsKept, StoreMoves
<1>4. WrapInv'
  BY KeptWraps
<1>5. RowInv'
  BY DEF Inv, RowInv, Moves, RowsKept, Known, Wrap
<1>6. FlowInv'
  <2>1. \A u \in Tabs : Stage(flow'[u])
    BY <1>2 DEF Inv, FlowInv, Moves
  <2> QED  BY <2>1, KeptStage DEF FlowInv, Moves
<1>7. ComingInv'
  <2> SUFFICES ASSUME NEW a \in Known', rkSeen'[a] = "coming"
               PROVE  \E u \in Tabs : flow'[u].a = a /\ flow'[u].g = row'[a].rk
    BY DEF ComingInv
  <2>1. a \in Known /\ row'[a] = row[a] /\ rkSeen[a] = "coming"
    BY DEF Known, Moves, RowsKept, Carries
  <2>2. PICK u \in Tabs : flow[u].a = a /\ flow[u].g = row[a].rk
    BY <2>1 DEF Inv, ComingInv
  <2>3. flow'[u].a = a /\ flow'[u].g = flow[u].g
    BY <1>2, <2>1, <2>2 DEF Carries
  <2> QED  BY <2>1, <2>2, <2>3
<1> QED  BY <1>3, <1>4, <1>5, <1>6, <1>7 DEF Inv, StoreMoves

-----------------------------------------------------------------------------
(* What is stored.                                                         *)

LEMMA StoreKept ==
    ASSUME Inv, RowsKept, bundle' \in {bundle, None},
           pin' \in [Accounts -> Wraps({"pin"}) \cup {None}],
           \A a \in Accounts : pin'[a] \in {pin[a], None}
    PROVE  StoreMoves
<1>1. StoreType'
  BY DEF Inv, TypeInv, StoreType
<1>2. StoreInv'
  BY DEF Inv, StoreInv, RowsKept, Known, Wrap
<1>3. bundle' # None => bundle'.wrap \in PwWraps
  BY WrapOf
<1> QED  BY <1>1, <1>2, <1>3 DEF StoreMoves

LEMMA DeviceKept ==
    ASSUME Inv, RowsKept, UNCHANGED <<bundle, pin>>
    PROVE  StoreMoves
<1>1. pin' \in [Accounts -> Wraps({"pin"}) \cup {None}]
  BY DEF Inv, TypeInv, StoreType
<1> QED  BY <1>1, StoreKept

-----------------------------------------------------------------------------
(* An operation ends.                                                      *)

LEMMA QuitMoves ==
    ASSUME NEW t \in Tabs, Inv, RowsKept, Fail(t)
    PROVE  Moves(t) /\ flow'[t] = Idle
<1>1. flow' = [flow EXCEPT ![t] = flow'[t]] /\ flow'[t] = Idle
  BY DEF Fail, Inv, TypeInv
<1>2. Idle \in Flows /\ Stage(Idle) /\ Idle.g = 0 /\ Idle.pc = "idle"
  BY IdleFits DEF Inv, TypeInv, Idle
<1> QED  BY <1>1, <1>2 DEF Moves, Pending, Holding

(* The key that was on its way is shown or lost.                           *)
LEMMA SettledCarries ==
    ASSUME NEW t \in Tabs, Inv,
           Settle(flow[t], "shown") \/ Settle(flow[t], "lost")
    PROVE  Carries(t) /\ rkSeen' \in [Accounts -> {"coming", "shown", "lost"}]
<1>1. rkSeen \in [Accounts -> {"coming", "shown", "lost"}] /\ flow[t].a \in Accounts \cup {None}
  BY DEF Inv, TypeInv, SessionType, Flows
<1>2. Known \subseteq Accounts /\ None \notin Accounts
  BY KnownRows, LadderAssumption DEF LadderAssumption, Inv, TypeInv
<1>3. CASE Settle(flow[t], "shown")
  BY <1>1, <1>2, <1>3 DEF Settle, Carries
<1>4. CASE Settle(flow[t], "lost")
  BY <1>1, <1>2, <1>4 DEF Settle, Carries
<1> QED  BY <1>3, <1>4

(* It is in the hands of a registration or recovery.                       *)
LEMMA OthersCarry ==
    ASSUME NEW t \in Tabs, Inv, rkSeen' = rkSeen,
           flow[t].g = 0 \/ flow[t].op = "rekey"
    PROVE  Carries(t)
<1>1. \A a \in Known : row[a].rk # flow[t].g
  <2>1. \A a \in Known : row[a].rk # 0
    BY KnownRows, Bounds DEF Inv, TypeInv, Users, Numbers
  <2> QED  BY <2>1 DEF Inv, FlowInv, Stage
<1> QED  BY <1>1 DEF Carries

LEMMA HandsCarry ==
    ASSUME NEW t \in Tabs, rkSeen' = rkSeen,
           flow'[t].a = flow[t].a, flow'[t].g = flow[t].g
    PROVE  Carries(t)
BY DEF Carries

LEMMA SessionKept ==
    ASSUME Inv, last' \in Accounts \cup {None}, cookie' \in Accounts \cup {None},
           acc' \in [Tabs -> Accounts \cup {None}], token' \in [Tabs -> Accounts \cup {None}],
           rkSeen' = rkSeen \/ rkSeen' \in [Accounts -> {"coming", "shown", "lost"}]
    PROVE  SessionType'
BY DEF SessionType, Inv, TypeInv

LEMMA SessionFacts ==
    ASSUME Inv
    PROVE  /\ last \in Accounts \cup {None} /\ cookie \in Accounts \cup {None}
           /\ acc \in [Tabs -> Accounts \cup {None}]
           /\ token \in [Tabs -> Accounts \cup {None}]
           /\ flow \in [Tabs -> Flows]
           /\ None \notin Accounts
BY LadderAssumption DEF SessionType, Inv, TypeInv, LadderAssumption

LEMMA LoggedInKeeps ==
    ASSUME NEW t \in Tabs, Inv, LoggedIn(t)
    PROVE  Inv'
<1> USE DEF LoggedIn, history
<1>1. RowsKept
  BY DEF RowsKept
<1>2. Moves(t) /\ flow'[t] = Idle
  BY <1>1, QuitMoves
<1>3. StoreMoves
  BY <1>1, DeviceKept
<1>4. flow[t] \in Flows /\ Stage(flow[t])
  BY SessionFacts DEF Inv, FlowInv
<1>5. flow[t].op \in {"login", "register"} /\ flow[t].a \in Accounts
  BY <1>4, Placed DEF At
<1>6. Carries(t) /\ (rkSeen' = rkSeen \/ rkSeen' \in [Accounts -> {"coming", "shown", "lost"}])
  <2>1. CASE flow[t].op = "register"
    BY <2>1, SettledCarries DEF Show
  <2>2. CASE flow[t].op = "login"
    <3>1. flow[t].g = 0 /\ rkSeen' = rkSeen
      BY <1>4, <2>2 DEF Stage, Show
    <3> QED  BY <3>1, OthersCarry
  <2> QED  BY <1>5, <2>1, <2>2
<1>7. SessionType'
  <2>1. last' \in Accounts \cup {None} /\ acc' \in [Tabs -> Accounts \cup {None}]
    BY <1>5, SessionFacts
  <2>2. cookie' \in Accounts \cup {None} /\ token' \in [Tabs -> Accounts \cup {None}]
    BY SessionFacts
  <2> QED  BY <1>6, <2>1, <2>2, SessionKept
<1> QED  BY <1>2, <1>3, <1>6, <1>7, MoveKeeps

LEMMA LoginFailsKeeps ==
    ASSUME NEW t \in Tabs, Inv, LoginFails(t)
    PROVE  Inv'
<1> USE DEF LoginFails, device
<1>1. RowsKept
  BY DEF RowsKept
<1>2. Moves(t) /\ flow'[t] = Idle
  BY <1>1, QuitMoves
<1>3. StoreMoves
  BY <1>1, DeviceKept
<1>4. flow[t] \in Flows /\ Stage(flow[t])
  BY SessionFacts DEF Inv, FlowInv
<1>6. Carries(t) /\ (rkSeen' = rkSeen \/ rkSeen' \in [Accounts -> {"coming", "shown", "lost"}])
  <2>1. CASE flow[t].op = "register"
    BY <2>1, SettledCarries DEF Show
  <2>2. CASE flow[t].op = "login"
    <3>1. flow[t].g = 0 /\ rkSeen' = rkSeen
      BY <1>4, <2>2 DEF Stage, Show
    <3> QED  BY <3>1, OthersCarry
  <2> QED  BY <2>1, <2>2
<1>7. SessionType'
  <2>1. last' \in Accounts \cup {None} /\ acc' \in [Tabs -> Accounts \cup {None}]
    BY SessionFacts
  <2>2. cookie' \in Accounts \cup {None} /\ token' \in [Tabs -> Accounts \cup {None}]
    BY SessionFacts
  <2> QED  BY <1>6, <2>1, <2>2, SessionKept
<1> QED  BY <1>2, <1>3, <1>6, <1>7, MoveKeeps

(* Any other end of an operation: refused, forgotten, or answered.         *)
LEMMA FlowFailsKeeps ==
    ASSUME NEW t \in Tabs, Inv, FlowFails(t)
    PROVE  Inv'
<1> USE DEF FlowFails, device
<1>1. RowsKept
  BY DEF RowsKept
<1>2. Moves(t) /\ flow'[t] = Idle
  BY <1>1, QuitMoves
<1>3. StoreMoves
  BY <1>1, DeviceKept
<1>4. Carries(t) /\ rkSeen' \in [Accounts -> {"coming", "shown", "lost"}]
  BY SettledCarries
<1>5. SessionType'
  BY <1>4, SessionFacts, SessionKept
<1> QED  BY <1>2, <1>3, <1>4, <1>5, MoveKeeps

LEMMA RecoverAnsweredKeeps ==
    ASSUME NEW t \in Tabs, Inv, RecoverAnswered(t)
    PROVE  Inv'
<1> USE DEF RecoverAnswered
<1>1. RowsKept
  BY DEF RowsKept
<1>2. Moves(t) /\ flow'[t] = Idle
  BY <1>1, QuitMoves
<1>3. StoreMoves
  BY <1>1, DeviceKept
<1>4. Carries(t) /\ rkSeen' \in [Accounts -> {"coming", "shown", "lost"}]
  BY SettledCarries
<1>5. last' \in Accounts \cup {None}
  BY SessionFacts DEF Flows
<1>6. SessionType'
  BY <1>4, <1>5, SessionFacts, SessionKept
<1> QED  BY <1>2, <1>3, <1>4, <1>6, MoveKeeps

LEMMA NewPageKeeps ==
    ASSUME NEW t \in Tabs, Inv, RowsKept, UNCHANGED device,
           cookie' \in {cookie, None}, \E c \in {cookie, cookie', None} : NewPage(t, c)
    PROVE  Inv'
<1>1. Fail(t) /\ Settle(flow[t], "lost")
  BY DEF NewPage
<1>2. Moves(t) /\ flow'[t] = Idle
  BY <1>1, QuitMoves
<1>3. StoreMoves
  BY DeviceKept DEF device
<1>4. Carries(t) /\ rkSeen' \in [Accounts -> {"coming", "shown", "lost"}]
  BY <1>1, SettledCarries
<1>5. acc' \in [Tabs -> Accounts \cup {None}] /\ token' \in [Tabs -> Accounts \cup {None}]
  BY SessionFacts DEF NewPage
<1>6. SessionType'
  BY <1>4, <1>5, SessionFacts, SessionKept DEF device
<1> QED  BY <1>2, <1>3, <1>4, <1>6, MoveKeeps

-----------------------------------------------------------------------------
(* An operation begins.                                                    *)

(* The last step of the actions that leave what is stored and the session  *)
(* alone.                                                                  *)
LEMMA MoveOnly ==
    ASSUME NEW t \in Tabs, Inv, Moves(t), Carries(t),
           UNCHANGED <<device, cookie, acc, token, rkSeen>>
    PROVE  Inv'
<1>1. StoreMoves
  BY DeviceKept DEF Moves, device
<1>2. SessionType'
  BY SessionFacts, SessionKept DEF device
<1> QED  BY <1>1, <1>2, MoveKeeps

LEMMA BeginKeeps ==
    ASSUME NEW t \in Tabs, Inv, RowsKept, rkSeen' = rkSeen,
           \E f \in Flows : Begin(t, f) /\ Stage(f) /\ f.g = 0
                              /\ f.pc \in {"pre", "wraps", "rkWraps"}
    PROVE  Inv'
<1>1. PICK f \in Flows : Begin(t, f) /\ Stage(f) /\ f.g = 0
                           /\ f.pc \in {"pre", "wraps", "rkWraps"}
  OBVIOUS
<1>2. flow' = [flow EXCEPT ![t] = flow'[t]] /\ flow'[t] = f /\ flow[t] = Idle
  BY <1>1, SessionFacts DEF Begin
<1>3. Moves(t)
  BY <1>1, <1>2 DEF Moves, Pending, Holding
<1>4. Carries(t)
  BY <1>2, OthersCarry DEF Idle
<1> QED  BY <1>1, <1>3, <1>4, MoveOnly DEF Begin

LEMMA StartLoginKeeps ==
    ASSUME NEW t \in Tabs, Inv, StartLogin(t) \/ UnlockByLogin(t)
    PROVE  Inv'
<1>1. PICK a \in Accounts, pw \in 1 .. minted :
         Begin(t, [Idle EXCEPT !.op = "login", !.pc = "pre", !.a = a, !.pw = pw])
           /\ UNCHANGED history
  BY Bounds, SessionFacts DEF StartLogin, UnlockByLogin, Inv, TypeInv
<1> DEFINE f == [Idle EXCEPT !.op = "login", !.pc = "pre", !.a = a, !.pw = pw]
<1>2. f \in Flows
  <2>1. pw \in 0 .. MaxMinted
    BY Bounds DEF Inv, TypeInv
  <2> QED  BY <2>1, IdleFits DEF Flows, Pcs, Idle
<1>3. Stage(f) /\ f.g = 0 /\ f.pc = "pre"
  BY Bounds DEF Stage, Places, Idle, Inv, TypeInv
<1>4. RowsKept /\ rkSeen' = rkSeen
  BY <1>1 DEF RowsKept, history, Begin
<1> QED  BY <1>1, <1>2, <1>3, <1>4, BeginKeeps

LEMMA StartPinSetupKeeps ==
    ASSUME NEW t \in Tabs, Inv, StartPinSetup(t)
    PROVE  Inv'
<1>1. PICK pw \in 1 .. minted :
         Begin(t, [Idle EXCEPT !.op = "pinSetup", !.pc = "wraps", !.a = acc[t],
                        !.pw = pw, !.seen = bundle])
  BY DEF StartPinSetup
<1> DEFINE f == [Idle EXCEPT !.op = "pinSetup", !.pc = "wraps", !.a = acc[t],
                        !.pw = pw, !.seen = bundle]
<1>2. acc[t] \in Accounts /\ bundle \in Seens
  BY SessionFacts DEF Inv, TypeInv, StoreType, StartPinSetup
<1>3. pw \in 0 .. MaxMinted
  BY Bounds DEF Inv, TypeInv
<1>4. f \in Flows
  BY <1>2, <1>3, IdleFits DEF Flows, Pcs, Idle
<1>5. Stage(f) /\ f.g = 0 /\ f.pc = "wraps"
  BY <1>2, Bounds DEF Stage, Places, Idle, Inv, TypeInv
<1>6. RowsKept /\ rkSeen' = rkSeen
  BY <1>1 DEF RowsKept, history, Begin, StartPinSetup
<1> QED  BY <1>1, <1>4, <1>5, <1>6, BeginKeeps

LEMMA StartRekeyKeeps ==
    ASSUME NEW t \in Tabs, Inv, StartRekey(t)
    PROVE  Inv'
<1>1. PICK pw \in 1 .. minted, mode \in Modes :
         Begin(t, [Idle EXCEPT !.op = "rekey", !.pc = "wraps", !.a = acc[t],
                        !.pw = pw, !.seen = bundle, !.sel = mode])
  BY Bounds DEF StartRekey, Grades, Inv, TypeInv
<1> DEFINE f == [Idle EXCEPT !.op = "rekey", !.pc = "wraps", !.a = acc[t],
                        !.pw = pw, !.seen = bundle, !.sel = mode]
<1>2. acc[t] \in Accounts /\ bundle \in Seens
  BY SessionFacts DEF Inv, TypeInv, StoreType, StartRekey
<1>3. pw \in 0 .. MaxMinted
  BY Bounds DEF Inv, TypeInv
<1>4. f \in Flows
  BY <1>2, <1>3, IdleFits DEF Flows, Pcs, Idle
<1>5. Stage(f) /\ f.g = 0 /\ f.pc = "wraps"
  BY <1>2, Bounds DEF Stage, Places, Idle, Inv, TypeInv
<1>6. RowsKept /\ rkSeen' = rkSeen
  BY <1>1 DEF RowsKept, history, Begin, StartRekey
<1> QED  BY <1>1, <1>4, <1>5, <1>6, BeginKeeps

LEMMA StartRecoverKeeps ==
    ASSUME NEW t \in Tabs, Inv, StartRecover(t)
    PROVE  Inv'
<1>1. PICK a \in Accounts, key \in 1 .. minted, mode \in Modes :
         /\ Begin(t, [Idle EXCEPT !.op = "recover", !.pc = "rkWraps", !.a = a,
                        !.pw = key, !.sel = mode])
         /\ UNCHANGED history
  BY Bounds DEF StartRecover, Grades, Inv, TypeInv
<1> DEFINE f == [Idle EXCEPT !.op = "recover", !.pc = "rkWraps", !.a = a,
                        !.pw = key, !.sel = mode]
<1>2. f \in Flows
  <2>1. key \in 0 .. MaxMinted
    BY Bounds DEF Inv, TypeInv
  <2> QED  BY <2>1, IdleFits DEF Flows, Pcs, Idle
<1>3. Stage(f) /\ f.g = 0 /\ f.pc = "rkWraps"
  BY Bounds DEF Stage, Places, Idle, Inv, TypeInv
<1>4. RowsKept /\ rkSeen' = rkSeen
  BY <1>1 DEF RowsKept, history, Begin
<1> QED  BY <1>1, <1>2, <1>3, <1>4, BeginKeeps

-----------------------------------------------------------------------------
(* An operation goes on.                                                   *)

LEMMA GoesOn ==
    ASSUME NEW t \in Tabs, Inv, RowsKept,
           \E n \in Flows :
              /\ flow' = [flow EXCEPT ![t] = n]
              /\ n.a = flow[t].a /\ n.g = flow[t].g
              /\ Stage(n)
              /\ n.pc \in {"derive", "register", "change", "recover"} =>
                    flow[t].pc \in {"derive", "register", "change", "recover"}
              /\ n.pc \in {"final", "activate", "rekey", "change"} => n.seen.wrap \in PwWraps
    PROVE  /\ Moves(t)
           /\ rkSeen' = rkSeen => Carries(t)
<1>1. flow \in [Tabs -> Flows]
  BY SessionFacts
<1> QED  BY <1>1 DEF Moves, Carries, Pending, Holding

(* What the operation of t knows before the step.                          *)
LEMMA Here ==
    ASSUME NEW t \in Tabs, Inv
    PROVE  /\ flow[t] \in Flows /\ Stage(flow[t])
           /\ flow[t].op # "none" => flow[t].a \in Accounts
           /\ MaxMinted \in Nat /\ minted \in 0 .. MaxMinted
BY SessionFacts, Bounds, Placed DEF Inv, FlowInv, TypeInv

LEMMA RegradeKeeps ==
    ASSUME NEW t \in Tabs, Inv, Regrade(t) \/ NewAccountId(t)
    PROVE  Inv'
<1>1. PICK sel \in Accounts \cup Modes :
         /\ flow' = [flow EXCEPT ![t].sel = sel]
         /\ (flow[t].op = "rekey" /\ sel \in Modes) \/ flow[t].op = "register"
         /\ scene.touch
         /\ UNCHANGED <<row, device, cookie, acc, token, leave, history>>
  BY Bounds DEF Regrade, NewAccountId, Grades, Inv, TypeInv
<1> DEFINE n == [flow[t] EXCEPT !.sel = sel]
<1>2. flow' = [flow EXCEPT ![t] = n]
  BY <1>1
<1>3. flow[t] \in Flows /\ Stage(flow[t])
  BY Here
<1>4. n \in Flows
  BY <1>3 DEF Flows
<1>5. n.a = flow[t].a /\ n.g = flow[t].g /\ n.pc = flow[t].pc /\ n.seen = flow[t].seen
  BY <1>3 DEF Flows
<1>6. Stage(n)
  <2>1. n.op = flow[t].op /\ n.pw = flow[t].pw /\ n.mode = flow[t].mode /\ n.sel = sel
    BY <1>3 DEF Flows
  <2> HIDE DEF n
  <2>2. Places(n) /\ n.op # "none" /\ Typed(n) = Typed(flow[t])
    BY <1>1, <1>3, <1>5, <2>1 DEF Stage, Places, Typed
  <2> QED  BY <1>1, <1>3, <1>5, <2>1, <2>2 DEF Stage, Places
<1>7. n.pc \in {"final", "activate", "rekey", "change"} => n.seen.wrap \in PwWraps
  BY <1>5, WrapOf DEF Holding
<1>8. RowsKept /\ rkSeen' = rkSeen
  BY <1>1 DEF RowsKept, history
<1>9. Moves(t) /\ Carries(t)
  BY <1>2, <1>4, <1>5, <1>6, <1>7, <1>8, GoesOn
<1> QED  BY <1>1, <1>8, <1>9, MoveOnly

-----------------------------------------------------------------------------
(* The steps of an operation that leave the rows alone.                    *)

(* An operation at another place, with another answer in its hands.        *)
GoneTo(f, pc) == [f EXCEPT !.pc = pc]
Given(f, seen, pc) == [[f EXCEPT !.seen = seen] EXCEPT !.pc = pc]

LEMMA GoneToFacts ==
    \A f \in Flows, pc \in Pcs :
        LET n == GoneTo(f, pc) IN
            /\ n \in Flows /\ n.pc = pc
            /\ n.op = f.op /\ n.a = f.a /\ n.pw = f.pw /\ n.g = f.g /\ n.sel = f.sel
            /\ n.mode = f.mode /\ n.seen = f.seen
BY DEF Flows, GoneTo

LEMMA GivenFacts ==
    \A f \in Flows, seen \in Seens, pc \in Pcs :
        LET n == Given(f, seen, pc) IN
            /\ n \in Flows /\ n.seen = seen /\ n.pc = pc
            /\ n.op = f.op /\ n.a = f.a /\ n.pw = f.pw /\ n.g = f.g /\ n.sel = f.sel
            /\ n.mode = f.mode
<1> TAKE f \in Flows, seen \in Seens, pc \in Pcs
<1> DEFINE m == [f EXCEPT !.seen = seen]
<1>1. /\ m \in Flows /\ m.seen = seen
      /\ m.op = f.op /\ m.a = f.a /\ m.pw = f.pw /\ m.g = f.g /\ m.sel = f.sel
      /\ m.mode = f.mode
  BY DEF Flows
<1>2. Given(f, seen, pc) = GoneTo(m, pc)
  BY DEF Given, GoneTo
<1> HIDE DEF m
<1> QED  BY <1>1, <1>2, GoneToFacts

LEMMA SeenWith ==
    \A s \in Seens, w \in Wraps(Keys) \cup Wraps(Numbers) \cup {None} :
        LET n == [s EXCEPT !.wrap = w] IN
            n \in Seens /\ n.wrap = w /\ n.salt = s.salt /\ n.mode = s.mode /\ n.of = s.of
BY DEF Seens

LEMMA PreLoginKeeps ==
    ASSUME NEW t \in Tabs, Inv, PreLogin(t)
    PROVE  Inv'
<1> DEFINE r == row[flow[t].a]
           answer == IF r = None
                     THEN [salt |-> 0, mode |-> 1, wrap |-> None, of |-> flow[t].a]
                     ELSE [salt |-> r.salt, mode |-> r.mode, wrap |-> None, of |-> flow[t].a]
           n == Given(flow[t], answer, "post")
<1>1. flow' = [flow EXCEPT ![t] = n] /\ flow[t].pc = "pre"
  BY DEF PreLogin, Goto, At, Given
<1>2. /\ flow[t] \in Flows /\ Stage(flow[t]) /\ flow[t].a \in Accounts
      /\ flow[t].op \in {"login", "register"} /\ MaxMinted \in Nat
  BY <1>1, Here, Placed
<1>3. answer \in Seens /\ answer.of = flow[t].a
  <2>1. r \in Users \cup {None}
    BY <1>2 DEF Inv, TypeInv, RowType
  <2> QED  BY <1>2, <2>1 DEF Seens, Users, Numbers
<1> HIDE DEF answer
<1>4. /\ n \in Flows /\ n.seen = answer /\ n.pc = "post"
      /\ n.op = flow[t].op /\ n.a = flow[t].a /\ n.pw = flow[t].pw /\ n.g = flow[t].g
      /\ n.sel = flow[t].sel /\ n.mode = flow[t].mode
  <2>1. "post" \in Pcs
    BY DEF Pcs
  <2>2. flow[t] \in Flows /\ answer \in Seens
    BY <1>2, <1>3
  <2> QED  BY <2>1, <2>2, GivenFacts
<1> HIDE DEF n
<1>5. Stage(n)
  BY <1>1, <1>2, <1>3, <1>4 DEF Stage, Places
<1>6. RowsKept /\ rkSeen' = rkSeen
  BY DEF RowsKept, history, PreLogin
<1>7. Moves(t) /\ Carries(t)
  BY <1>1, <1>4, <1>5, <1>6, GoesOn
<1> QED  BY <1>6, <1>7, MoveOnly DEF PreLogin

LEMMA LoginAnsweredKeeps ==
    ASSUME NEW t \in Tabs, Inv, LoginAnswered(t)
    PROVE  Inv'
<1> DEFINE s == [flow[t].seen EXCEPT !.wrap = row[flow[t].a].wrap]
           n == Given(flow[t], s, "final")
<1>1. flow[t].pc = "post"
  BY DEF LoginAnswered, At
<1>2. /\ flow[t] \in Flows /\ Stage(flow[t]) /\ flow[t].a \in Accounts
      /\ flow[t].op \in {"login", "register"}
      /\ flow[t].seen \in Seens /\ flow[t].seen.of = flow[t].a
  BY <1>1, Here, Placed DEF Stage
<1>3. flow' = [flow EXCEPT ![t] = n]
  BY <1>2 DEF LoginAnswered, Goto, Flows, Given
<1>4. flow[t].a \in Known
  BY <1>2 DEF LoginAnswered, Known
<1>5. row[flow[t].a].wrap \in Wraps(Keys) /\ row[flow[t].a].wrap \in PwWraps
  BY <1>4, KnownRows, WrapOf DEF Users, Inv, TypeInv
<1>6. s \in Seens /\ s.of = flow[t].a /\ s.wrap = row[flow[t].a].wrap
  BY <1>2, <1>5, SeenWith
<1> HIDE DEF s
<1>7. /\ n \in Flows /\ n.seen = s /\ n.pc = "final"
      /\ n.op = flow[t].op /\ n.a = flow[t].a /\ n.pw = flow[t].pw /\ n.g = flow[t].g
      /\ n.sel = flow[t].sel /\ n.mode = flow[t].mode
  <2>1. "final" \in Pcs
    BY DEF Pcs
  <2>2. flow[t] \in Flows /\ s \in Seens
    BY <1>2, <1>6
  <2> QED  BY <2>1, <2>2, GivenFacts
<1> HIDE DEF n
<1>8. Stage(n)
  BY <1>1, <1>2, <1>6, <1>7 DEF Stage, Places
<1>9. RowsKept /\ rkSeen' = rkSeen
  BY DEF RowsKept, LoginAnswered
<1>10. Moves(t) /\ Carries(t)
  BY <1>3, <1>5, <1>6, <1>7, <1>8, <1>9, GoesOn
<1>11. StoreMoves
  BY <1>9, DeviceKept DEF LoginAnswered, device
<1>12. SessionType'
  <2>1. last' \in Accounts \cup {None} /\ acc' \in [Tabs -> Accounts \cup {None}]
    BY SessionFacts DEF LoginAnswered, device
  <2>2. cookie' \in Accounts \cup {None} /\ token' \in [Tabs -> Accounts \cup {None}]
    BY <1>2, SessionFacts DEF LoginAnswered
  <2> QED  BY <1>9, <2>1, <2>2, SessionKept
<1> QED  BY <1>10, <1>11, <1>12, MoveKeeps

LEMMA FinalizeKeeps ==
    ASSUME NEW t \in Tabs, Inv, Finalize(t)
    PROVE  Inv'
<1> DEFINE n == GoneTo(flow[t], "id")
<1>1. flow' = [flow EXCEPT ![t] = n] /\ flow[t].pc = "final"
  BY DEF Finalize, Goto, At, GoneTo
<1>2. /\ flow[t] \in Flows /\ Stage(flow[t]) /\ flow[t].a \in Accounts
      /\ flow[t].op \in {"login", "register"}
      /\ flow[t].seen \in Seens /\ flow[t].seen.of = flow[t].a
  BY <1>1, Here, Placed DEF Stage
<1>3. /\ n \in Flows /\ n.pc = "id"
      /\ n.op = flow[t].op /\ n.a = flow[t].a /\ n.pw = flow[t].pw /\ n.g = flow[t].g
      /\ n.sel = flow[t].sel /\ n.mode = flow[t].mode /\ n.seen = flow[t].seen
  BY <1>2, GoneToFacts DEF Pcs
<1> HIDE DEF n
<1>4. Stage(n)
  BY <1>1, <1>2, <1>3 DEF Stage, Places
<1>5. RowsKept /\ rkSeen' = rkSeen
  BY DEF RowsKept, history, Finalize
<1>6. Moves(t) /\ Carries(t)
  BY <1>1, <1>3, <1>4, <1>5, GoesOn
<1>7. flow[t].seen.wrap \in PwWraps
  BY <1>1, WrapOf DEF Holding
<1>8. bundle' = flow[t].seen /\ pin' = pin
  BY DEF Finalize, SaveBundle
<1>9. StoreMoves
  <2>1. StoreType'
    BY <1>2, <1>8 DEF StoreType, Inv, TypeInv
  <2>2. /\ flow[t].seen.wrap.of = flow[t].seen.of
        /\ flow[t].seen.wrap.key = Key(flow[t].pw, flow[t].seen.salt, flow[t].seen.mode)
    BY <1>2 DEF Finalize, Opens, Typed
  <2>3. StoreInv'
    BY <1>5, <1>8, <2>2 DEF StoreInv, Inv, RowsKept, Known, Wrap, Key
  <2> QED  BY <1>7, <1>8, <2>1, <2>3 DEF StoreMoves
<1>10. SessionType'
  BY <1>5, SessionFacts, SessionKept DEF Finalize
<1> QED  BY <1>6, <1>9, <1>10, MoveKeeps

LEMMA BuildRegisterKeeps ==
    ASSUME NEW t \in Tabs, Inv, BuildRegister(t)
    PROVE  Inv'
<1> DEFINE n == GoneTo(flow[t], "register")
<1>1. flow' = [flow EXCEPT ![t] = n] /\ flow[t].pc = "derive"
  BY DEF BuildRegister, Goto, At, GoneTo
<1>2. flow[t] \in Flows /\ Stage(flow[t]) /\ flow[t].op = "register"
  BY <1>1, Here, Placed
<1>3. /\ n \in Flows /\ n.pc = "register"
      /\ n.op = flow[t].op /\ n.a = flow[t].a /\ n.pw = flow[t].pw /\ n.g = flow[t].g
      /\ n.sel = flow[t].sel /\ n.mode = flow[t].mode /\ n.seen = flow[t].seen
  BY <1>2, GoneToFacts DEF Pcs
<1> HIDE DEF n
<1>4. Stage(n)
  BY <1>1, <1>2, <1>3 DEF Stage, Places
<1>5. RowsKept /\ rkSeen' = rkSeen
  BY DEF RowsKept, history, BuildRegister
<1>6. Moves(t) /\ Carries(t)
  BY <1>1, <1>3, <1>4, <1>5, GoesOn
<1> QED  BY <1>5, <1>6, MoveOnly DEF BuildRegister

LEMMA RegisterAnsweredKeeps ==
    ASSUME NEW t \in Tabs, Inv, RegisterAnswered(t)
    PROVE  Inv'
<1> DEFINE n == GoneTo(flow[t], "pre")
<1>1. flow' = [flow EXCEPT ![t] = n] /\ flow[t].pc = "registered"
  BY DEF RegisterAnswered, Goto, At, GoneTo
<1>2. /\ flow[t] \in Flows /\ Stage(flow[t]) /\ flow[t].op = "register"
      /\ flow[t].a \in Accounts
  BY <1>1, Here, Placed
<1>3. /\ n \in Flows /\ n.pc = "pre"
      /\ n.op = flow[t].op /\ n.a = flow[t].a /\ n.pw = flow[t].pw /\ n.g = flow[t].g
      /\ n.sel = flow[t].sel /\ n.mode = flow[t].mode /\ n.seen = flow[t].seen
  BY <1>2, GoneToFacts DEF Pcs
<1> HIDE DEF n
<1>4. Stage(n)
  BY <1>1, <1>2, <1>3 DEF Stage, Places
<1>5. RowsKept /\ rkSeen' = rkSeen
  BY DEF RowsKept, RegisterAnswered
<1>6. Moves(t) /\ Carries(t)
  BY <1>1, <1>3, <1>4, <1>5, GoesOn
<1>7. StoreMoves
  BY <1>5, DeviceKept DEF RegisterAnswered
<1>8. SessionType'
  BY <1>2, <1>5, SessionFacts, SessionKept DEF RegisterAnswered
<1> QED  BY <1>6, <1>7, <1>8, MoveKeeps

LEMMA GetWrapsKeeps ==
    ASSUME NEW t \in Tabs, Inv, GetWraps(t)
    PROVE  Inv'
<1>1. flow[t].pc = "wraps"
  BY DEF GetWraps, At
<1>2. /\ flow[t] \in Flows /\ Stage(flow[t]) /\ flow[t].a \in Accounts
      /\ flow[t].op \in {"pinSetup", "rekey"} /\ flow[t].seen \in Seens
  BY <1>1, Here, Placed DEF Stage
<1>3. PICK a \in Authorised(t) :
         /\ row[a] # None
         /\ Goto(t, [flow[t] EXCEPT !.seen.wrap = row[a].wrap],
                 IF flow[t].op = "rekey" THEN "rekey" ELSE "activate")
  BY DEF GetWraps
<1>4. a \in Known
  BY <1>3, SessionFacts DEF Authorised, Known
<1>5. row[a].wrap \in Wraps(Keys) /\ row[a].wrap \in PwWraps
  BY <1>4, KnownRows, WrapOf DEF Users, Inv, TypeInv
<1> DEFINE s == [flow[t].seen EXCEPT !.wrap = row[a].wrap]
           pc == IF flow[t].op = "rekey" THEN "rekey" ELSE "activate"
           n == Given(flow[t], s, pc)
<1>6. flow' = [flow EXCEPT ![t] = n]
  BY <1>2, <1>3 DEF Goto, Flows, Given
<1>7. s \in Seens /\ s.wrap = row[a].wrap
  BY <1>2, <1>5, SeenWith
<1> HIDE DEF s
<1>8. pc \in Pcs
  BY DEF Pcs
<1>9. \/ flow[t].op = "rekey" /\ pc = "rekey"
      \/ flow[t].op = "pinSetup" /\ pc = "activate"
  BY <1>2
<1> HIDE DEF pc
<1>10. /\ n \in Flows /\ n.seen = s /\ n.pc = pc
       /\ n.op = flow[t].op /\ n.a = flow[t].a /\ n.pw = flow[t].pw /\ n.g = flow[t].g
       /\ n.sel = flow[t].sel /\ n.mode = flow[t].mode
  BY <1>2, <1>7, <1>8, GivenFacts
<1> HIDE DEF n
<1>11. Stage(n)
  BY <1>1, <1>2, <1>7, <1>9, <1>10 DEF Stage, Places
<1>12. RowsKept /\ rkSeen' = rkSeen
  BY DEF RowsKept, history, GetWraps
<1>13. Moves(t) /\ Carries(t)
  BY <1>5, <1>6, <1>7, <1>9, <1>10, <1>11, <1>12, GoesOn
<1> QED  BY <1>12, <1>13, MoveOnly DEF GetWraps

LEMMA GetRecoveryWrapsKeeps ==
    ASSUME NEW t \in Tabs, Inv, GetRecoveryWraps(t)
    PROVE  Inv'
<1> DEFINE ok == row[flow[t].a] # None /\ row[flow[t].a].rk = flow[t].pw
           wrap == IF ok THEN row[flow[t].a].rkWrap ELSE None
           s == [salt |-> 0, mode |-> 1, wrap |-> wrap, of |-> flow[t].a]
           n == Given(flow[t], s, "rkDerive")
<1>1. flow[t].pc = "rkWraps" /\ flow' = [flow EXCEPT ![t] = n]
  BY DEF GetRecoveryWraps, At, Goto, Given
<1>2. /\ flow[t] \in Flows /\ Stage(flow[t]) /\ flow[t].a \in Accounts
      /\ flow[t].op = "recover"
  BY <1>1, Here, Placed
<1>3. /\ wrap \in Wraps(Numbers) \cup {None}
      /\ wrap # None => flow[t].a \in Known /\ wrap.mk = master[flow[t].a]
  <2>1. CASE wrap = None
    BY <2>1
  <2>2. CASE wrap # None
    <3>1. flow[t].a \in Known /\ wrap = row[flow[t].a].rkWrap
      BY <1>2, <2>2 DEF Known
    <3>2. row[flow[t].a] \in Users
      BY <3>1, KnownRows DEF Inv, TypeInv
    <3>3. row[flow[t].a].rkWrap.mk = master[flow[t].a]
      BY <3>1, KeyFacts DEF Inv, RowInv
    <3> QED  BY <3>1, <3>2, <3>3 DEF Users
  <2> QED  BY <2>1, <2>2
<1> HIDE DEF wrap
<1>4. s \in Seens /\ s.wrap = wrap
  BY <1>2, <1>3, Here DEF Seens
<1> HIDE DEF s
<1>5. "rkDerive" \in Pcs
  BY DEF Pcs
<1>6. /\ n \in Flows /\ n.seen = s /\ n.pc = "rkDerive"
      /\ n.op = flow[t].op /\ n.a = flow[t].a /\ n.pw = flow[t].pw /\ n.g = flow[t].g
      /\ n.sel = flow[t].sel /\ n.mode = flow[t].mode
  BY <1>2, <1>4, <1>5, GivenFacts
<1> HIDE DEF n
<1>7. Stage(n)
  BY <1>1, <1>2, <1>3, <1>4, <1>6 DEF Stage, Places
<1>8. RowsKept /\ rkSeen' = rkSeen
  BY DEF RowsKept, history, GetRecoveryWraps
<1>9. Moves(t) /\ Carries(t)
  BY <1>1, <1>6, <1>7, <1>8, GoesOn
<1> QED  BY <1>8, <1>9, MoveOnly DEF GetRecoveryWraps

(* The wrap the passcode is put around holds the key of its account.       *)
LEMMA ActivatePasscodeKeeps ==
    ASSUME NEW t \in Tabs, Inv, ActivatePasscode(t)
    PROVE  Inv'
<1> DEFINE seen == flow[t].seen
<1>1. flow[t].pc = "activate" /\ Fail(t)
  BY DEF ActivatePasscode, At
<1>2. /\ flow[t] \in Flows /\ Stage(flow[t])
      /\ flow[t].op = "pinSetup" /\ seen \in Seens /\ flow[t].g = 0
  BY <1>1, Here, Placed DEF Stage
<1>3. RowsKept /\ rkSeen' = rkSeen
  BY DEF RowsKept, history, ActivatePasscode
<1>4. Moves(t) /\ flow'[t] = Idle
  BY <1>1, <1>3, QuitMoves
<1>5. Carries(t)
  BY <1>2, <1>3, OthersCarry
<1>6. seen.wrap \in PwWraps
  BY <1>1, WrapOf DEF Holding
<1>7. seen.wrap.of = seen.of /\ seen.of \in Accounts
  BY <1>2 DEF ActivatePasscode, Opens, Seens
<1>8. seen.of \in Known /\ seen.wrap.mk = master[seen.of] /\ seen.wrap.mk \in Numbers
  BY <1>6, <1>7 DEF Inv, WrapInv, WrapsSound, Sound, Wraps
<1>9. /\ pin' = [pin EXCEPT ![seen.of] = Wrap("pin", seen.wrap.mk, seen.of)]
      /\ bundle' = bundle
  BY DEF ActivatePasscode, PinOwner
<1>10. Wrap("pin", seen.wrap.mk, seen.of) \in Wraps({"pin"})
  BY <1>7, <1>8, KeyFacts
<1>11. StoreMoves
  <2> HIDE DEF seen
  <2>1. pin \in [Accounts -> Wraps({"pin"}) \cup {None}]
    BY DEF Inv, TypeInv, StoreType
  <2>2. StoreType'
    BY <1>7, <1>9, <1>10, <2>1 DEF StoreType, Inv, TypeInv
  <2>3. \A a \in Accounts : pin'[a] # None => a \in Known /\ pin'[a] = Wrap("pin", master[a], a)
    BY <1>7, <1>8, <1>9, <2>1 DEF Inv, StoreInv
  <2>4. StoreInv'
    BY <1>3, <1>9, <2>3 DEF StoreInv, Inv, RowsKept, Known, Wrap
  <2>5. bundle' # None => bundle'.wrap \in PwWraps
    BY <1>9, WrapOf
  <2> QED  BY <2>2, <2>4, <2>5 DEF StoreMoves
<1>12. SessionType'
  BY <1>3, SessionFacts, SessionKept DEF ActivatePasscode
<1> QED  BY <1>4, <1>5, <1>11, <1>12, MoveKeeps

LEMMA ClearBundleKeeps ==
    ASSUME NEW t \in Tabs, Inv, ClearBundle(t)
    PROVE  Inv'
<1> DEFINE n == GoneTo(flow[t], "clearPin")
<1>1. flow' = [flow EXCEPT ![t] = n] /\ flow[t].pc = "changed"
  BY DEF ClearBundle, Goto, At, GoneTo
<1>2. flow[t] \in Flows /\ Stage(flow[t]) /\ flow[t].op = "rekey"
  BY <1>1, Here, Placed
<1>3. /\ n \in Flows /\ n.pc = "clearPin"
      /\ n.op = flow[t].op /\ n.a = flow[t].a /\ n.pw = flow[t].pw /\ n.g = flow[t].g
      /\ n.sel = flow[t].sel /\ n.mode = flow[t].mode /\ n.seen = flow[t].seen
  BY <1>2, GoneToFacts DEF Pcs
<1> HIDE DEF n
<1>4. Stage(n)
  BY <1>1, <1>2, <1>3 DEF Stage, Places
<1>5. RowsKept /\ rkSeen' = rkSeen
  BY DEF RowsKept, history, ClearBundle
<1>6. Moves(t) /\ Carries(t)
  BY <1>1, <1>3, <1>4, <1>5, GoesOn
<1>7. StoreMoves
  BY <1>5, StoreKept DEF ClearBundle, Inv, TypeInv, StoreType
<1>8. SessionType'
  BY <1>5, SessionFacts, SessionKept DEF ClearBundle
<1> QED  BY <1>6, <1>7, <1>8, MoveKeeps

LEMMA ClearPinKeeps ==
    ASSUME NEW t \in Tabs, Inv, ClearPin(t)
    PROVE  Inv'
<1>1. flow[t].pc = "clearPin" /\ Fail(t)
  BY DEF ClearPin, At
<1>2. flow[t].op = "rekey"
  BY <1>1, Here, Placed
<1>3. RowsKept /\ rkSeen' = rkSeen
  BY DEF RowsKept, history, ClearPin
<1>4. Moves(t) /\ flow'[t] = Idle
  BY <1>1, <1>3, QuitMoves
<1>5. Carries(t)
  BY <1>2, <1>3, OthersCarry
<1>6. StoreMoves
  BY <1>3, StoreKept DEF ClearPin, Inv, TypeInv, StoreType
<1>7. SessionType'
  BY <1>3, SessionFacts, SessionKept DEF ClearPin
<1> QED  BY <1>4, <1>5, <1>6, <1>7, MoveKeeps

(* Steps that leave the operations alone.                                  *)
LEMMA StillKeeps ==
    ASSUME NEW t \in Tabs, Inv, RowsKept, UNCHANGED <<flow, rkSeen>>,
           bundle' \in {bundle, None},
           pin' \in [Accounts -> Wraps({"pin"}) \cup {None}],
           \A a \in Accounts : pin'[a] \in {pin[a], None},
           last' \in {last, None}, cookie' = cookie,
           \A u \in Tabs : acc'[u] \in {acc[u], None} /\ token'[u] \in {token[u], None},
           acc' = acc \/ acc' = [acc EXCEPT ![t] = None],
           token' = token \/ token' = [token EXCEPT ![t] = None]
    PROVE  Inv'
<1>1. flow' = [flow EXCEPT ![t] = flow'[t]] /\ flow'[t] = flow[t]
  BY SessionFacts
<1>2. flow[t] \in Flows /\ Stage(flow[t])
  BY Here
<1>3. t \in Holding => flow[t].seen.wrap \in PwWraps
  BY WrapOf
<1>4. Moves(t)
  BY <1>1, <1>2, <1>3 DEF Moves, Pending, Holding
<1>5. Carries(t)
  BY HandsCarry
<1>6. StoreMoves
  BY StoreKept
<1>7. SessionType'
  BY SessionFacts, SessionKept
<1> QED  BY <1>4, <1>5, <1>6, <1>7, MoveKeeps

LEMMA StoresDropKeeps ==
    ASSUME NEW t \in Tabs, Inv,
           \/ DisablePasscode(t) \/ StartLogout(t) \/ StartWipe(t)
           \/ WipeBundle(t) \/ WipePin(t) \/ WipeLastId(t)
    PROVE  Inv'
<1>1. pin \in [Accounts -> Wraps({"pin"}) \cup {None}]
  BY DEF Inv, TypeInv, StoreType
<1> USE DEF history, device, RowsKept
<1>2. CASE DisablePasscode(t)
  BY <1>1, <1>2, StillKeeps DEF DisablePasscode
<1>3. CASE StartLogout(t) \/ StartWipe(t)
  BY <1>1, <1>3, StillKeeps DEF StartLogout, StartWipe
<1>4. CASE WipeBundle(t)
  BY <1>1, <1>4, StillKeeps DEF WipeBundle
<1>5. CASE WipePin(t)
  BY <1>1, <1>5, StillKeeps DEF WipePin
<1>6. CASE WipeLastId(t)
  BY <1>1, <1>6, StillKeeps DEF WipeLastId
<1> QED  BY <1>2, <1>3, <1>4, <1>5, <1>6

LEMMA ClearStateKeeps ==
    ASSUME NEW t \in Tabs, Inv, ClearState(t)
    PROVE  Inv'
<1>1. RowsKept
  BY DEF ClearState, RowsKept
<1>2. CASE flow[t].pc \in AwaitsWorker
  <2>1. Fail(t) /\ Settle(flow[t], "lost")
    BY <1>2 DEF ClearState, EndWorker
  <2>2. Moves(t) /\ flow'[t] = Idle
    BY <1>1, <2>1, QuitMoves
  <2>3. Carries(t) /\ rkSeen' \in [Accounts -> {"coming", "shown", "lost"}]
    BY <2>1, SettledCarries
  <2>4. StoreMoves
    BY <1>1, DeviceKept DEF ClearState, device
  <2>5. SessionType'
    BY <2>3, SessionFacts, SessionKept DEF ClearState, device
  <2> QED  BY <2>2, <2>3, <2>4, <2>5, MoveKeeps
<1>3. CASE flow[t].pc \notin AwaitsWorker
  <2>1. UNCHANGED <<flow, rkSeen>>
    BY <1>3 DEF ClearState, EndWorker
  <2>2. pin \in [Accounts -> Wraps({"pin"}) \cup {None}]
    BY DEF Inv, TypeInv, StoreType
  <2> QED  BY <1>1, <2>1, <2>2, SessionFacts, StillKeeps DEF ClearState, device
<1> QED  BY <1>2, <1>3

LEMMA PagesKeep ==
    ASSUME NEW t \in Tabs, Inv, Load(t) \/ Leave(t)
    PROVE  Inv'
<1>1. RowsKept /\ UNCHANGED device
  BY DEF Load, Leave, RowsKept
<1>2. cookie' \in {cookie, None} /\ \E c \in {cookie, cookie', None} : NewPage(t, c)
  BY DEF Load, Leave
<1>3. CASE cookie' = cookie
  BY <1>1, <1>2, <1>3, NewPageKeeps
<1>4. CASE cookie' = None
  BY <1>1, <1>2, <1>4, NewPageKeeps
<1> QED  BY <1>2, <1>3, <1>4

-----------------------------------------------------------------------------
(* Steps that make a choice of credentials.                                *)

(* What an operation knows stays true as rows are added and replaced.      *)
LEMMA StageGrows ==
    ASSUME scene' = scene, minted \in Nat, minted' \in Nat, minted <= minted',
           Known \subseteq Known', \A a \in Known : master'[a] = master[a]
    PROVE  \A f \in Flows :
              Stage(f) /\ (f.op = "rekey" /\ f.g # 0 => \A a \in Known' : row'[a].rk # f.g)
                => Stage(f)'
<1> SUFFICES ASSUME NEW f \in Flows, Stage(f),
                    f.op = "rekey" /\ f.g # 0 => \A a \in Known' : row'[a].rk # f.g
             PROVE  Stage(f)'
  OBVIOUS
<1>1. Places(f)' /\ Typed(f)' = Typed(f) /\ Idle' = Idle
  BY DEF Stage, Places, Typed, Key, Idle
<1>2. f.pw \in Nat /\ f.pw <= minted => f.pw <= minted'
  BY DEF Flows
<1>3. f.pw \in Nat
  BY LadderAssumption DEF Flows, LadderAssumption
<1> HIDE DEF Known
<1>4. f.pc \in {"rkDerive", "recover"} /\ f.seen.wrap # None =>
         f.a \in Known' /\ f.seen.wrap.mk = master'[f.a]
  BY DEF Stage
<1>5. f.pc = "change" =>
          /\ Opens(f.seen.wrap, Typed(f), f.seen.of)
          /\ ~scene.touch => f.sel = f.mode
  BY DEF Stage
<1> QED  BY <1>1, <1>2, <1>3, <1>4, <1>5 DEF Stage, Opens

LEMMA MintKeeps ==
    ASSUME NEW t \in Tabs, Inv, Mint, UNCHANGED <<scene, row, master, rkSeen>>,
           UNCHANGED <<device, cookie, acc, token>>,
           flow[t].g = 0,
           \E n \in Flows :
              /\ flow' = [flow EXCEPT ![t] = n]
              /\ n.g = minted' /\ Stage(n)'
              /\ n.pc \in {"derive", "change", "recover"}
              /\ n.pc = "change" => n.seen.wrap \in PwWraps
    PROVE  Inv'
<1>1. PICK n \in Flows :
              /\ flow' = [flow EXCEPT ![t] = n]
              /\ n.g = minted' /\ Stage(n)'
              /\ n.pc \in {"derive", "change", "recover"}
              /\ n.pc = "change" => n.seen.wrap \in PwWraps
  OBVIOUS
<1>2. /\ flow \in [Tabs -> Flows] /\ flow' \in [Tabs -> Flows] /\ flow'[t] = n
      /\ \A u \in Tabs : u # t => flow'[u] = flow[u]
  BY <1>1, SessionFacts
<1>3. /\ minted \in Nat /\ minted' = minted + 1 /\ minted' \in 0 .. scene.max
      /\ \A u \in Tabs : flow[u].g \in Nat /\ flow[u].g <= minted
  <2>1. minted \in 0 .. MaxMinted /\ scene.max \in 0 .. MaxMinted /\ MaxMinted \in Nat
    BY Bounds DEF Inv, TypeInv
  <2>2. \A u \in Tabs : flow[u].g \in Nat
    BY <1>2, <2>1 DEF Flows
  <2> QED  BY <2>1, <2>2 DEF Mint, Inv, WrapInv, ChoicesApart
<1>4. Known' = Known
  BY DEF Known
<1>5. TypeInv'
  <2>1. RowType'
    BY <1>3 DEF Inv, TypeInv, RowType
  <2>2. StoreType' /\ SessionType'
    BY DEF Inv, TypeInv, StoreType, SessionType, device
  <2> QED  BY <1>2, <2>1, <2>2 DEF TypeInv
<1>6. PwWraps' \subseteq PwWraps
  <2>1. \A u \in Holding' : flow'[u].seen.wrap \in PwWraps
    BY <1>1, <1>2, WrapOf DEF Holding
  <2> QED  BY <1>4, <2>1, WrapOf DEF PwWraps, device
<1>7. \A w \in PwWraps : Sound(w) /\ w.key.salt \in Nat
  <2>1. \A w \in PwWraps : Sound(w)
    BY DEF Inv, WrapInv, WrapsSound
  <2> QED  BY <2>1 DEF Sound, Wraps, Keys, Numbers
<1>8. WrapsSound'
  <2>1. \A w \in PwWraps : w.key.pw \in Nat
    BY <1>7 DEF Sound, Wraps, Keys, Numbers
  <2> QED  BY <1>3, <1>4, <1>6, <1>7, <2>1 DEF WrapsSound, Sound
<1>9. SaltsApart'
  BY <1>6 DEF SaltsApart, Inv, WrapInv
<1>10. ChoicesApart'
  <2>1. \A u \in Tabs : flow'[u].g <= minted'
    BY <1>1, <1>2, <1>3
  <2>2. \A u \in Tabs \ {t} : flow'[u].g # flow'[t].g
    BY <1>1, <1>2, <1>3
  <2>3. \A u, v \in Tabs \ {t} : flow'[u].g = flow'[v].g /\ flow'[u].g # 0 => u = v
    BY <1>2 DEF Inv, WrapInv, ChoicesApart
  <2> QED  BY <2>1, <2>2, <2>3 DEF ChoicesApart
<1>11. SaltsNew'
  <2>1. ASSUME NEW u \in Pending'
        PROVE  flow'[u].g # 0 /\ \A w \in PwWraps : w.key.salt # flow'[u].g
    <3>1. CASE u = t
      BY <1>1, <1>2, <1>3, <1>7, <3>1 DEF Sound
    <3>2. CASE u # t
      BY <1>2, <2>1, <3>2 DEF Pending, Inv, WrapInv, SaltsNew
    <3> QED  BY <3>1, <3>2
  <2> QED  BY <1>6, <2>1 DEF SaltsNew
<1>12. RowInv'
  <2>1. \A a \in Known : row[a].rk \in Nat
    BY KnownRows DEF Inv, TypeInv, Users, Numbers
  <2> QED  BY <1>3, <1>4, <2>1 DEF RowInv, Inv, Wrap
<1>13. StoreInv'
  BY <1>4 DEF StoreInv, Inv, Wrap, device
<1>14. FlowInv'
  <2>1. \A u \in Tabs : u # t => Stage(flow[u])'
    <3>1. \A u \in Tabs : Stage(flow[u]) /\ flow[u] \in Flows
      BY <1>2 DEF Inv, FlowInv
    <3>2. \A u \in Tabs : flow[u].op = "rekey" /\ flow[u].g # 0
                            => \A a \in Known' : row'[a].rk # flow[u].g
      BY <1>4, <3>1 DEF Stage
    <3>3. \A f \in Flows :
              Stage(f) /\ (f.op = "rekey" /\ f.g # 0 => \A a \in Known' : row'[a].rk # f.g)
                => Stage(f)'
      BY <1>3, <1>4, StageGrows
    <3> QED  BY <1>2, <3>1, <3>2, <3>3
  <2> QED  BY <1>1, <1>2, <2>1 DEF FlowInv
<1>15. ComingInv'
  <2> SUFFICES ASSUME NEW a \in Known, rkSeen[a] = "coming"
               PROVE  \E u \in Tabs : flow'[u].a = a /\ flow'[u].g = row[a].rk
    BY <1>4 DEF ComingInv
  <2>1. PICK u \in Tabs : flow[u].a = a /\ flow[u].g = row[a].rk
    BY DEF Inv, ComingInv
  <2>2. row[a].rk # 0
    BY KnownRows, Bounds DEF Inv, TypeInv, Users, Numbers
  <2> QED  BY <1>2, <2>1, <2>2
<1> QED  BY <1>5, <1>8, <1>9, <1>10, <1>11, <1>12, <1>13, <1>14, <1>15 DEF Inv, WrapInv

LEMMA MintFacts ==
    ASSUME Inv, Mint
    PROVE  /\ minted \in Nat /\ minted' = minted + 1 /\ minted' \in 1 .. MaxMinted
           /\ MaxMinted \in Nat
<1>1. minted \in 0 .. MaxMinted /\ scene.max \in 0 .. MaxMinted /\ MaxMinted \in Nat
  BY Bounds DEF Inv, TypeInv
<1> QED  BY <1>1 DEF Mint

LEMMA StartRegisterKeeps ==
    ASSUME NEW t \in Tabs, Inv, StartRegister(t)
    PROVE  Inv'
<1>1. PICK a \in Accounts, mode \in Modes :
         /\ Mint
         /\ Begin(t, [Idle EXCEPT !.op = "register", !.pc = "derive", !.a = a,
                         !.pw = minted', !.g = minted', !.sel = a, !.mode = mode])
         /\ UNCHANGED <<scene, master, rkSeen, mixed>>
  BY Bounds DEF StartRegister, Grades, Inv, TypeInv
<1>2. PICK g \in 1 .. MaxMinted : g = minted' /\ MaxMinted \in Nat
  BY <1>1, MintFacts
<1> DEFINE n == [Idle EXCEPT !.op = "register", !.pc = "derive", !.a = a,
                         !.pw = g, !.g = g, !.sel = a, !.mode = mode]
<1>3. n \in Flows
  <2>1. g \in 0 .. MaxMinted
    BY <1>2
  <2> QED  BY <2>1, IdleFits DEF Flows, Pcs, Idle
<1>4. n.g = g /\ n.pc = "derive" /\ n.op = "register" /\ n.a = a /\ n.pw = g
        /\ n.mode = mode
  BY DEF Idle
<1>5. flow' = [flow EXCEPT ![t] = n] /\ flow[t].g = 0
  BY <1>1, <1>2 DEF Begin, Idle
<1>6. UNCHANGED <<scene, row, master, rkSeen>> /\ UNCHANGED <<device, cookie, acc, token>>
  BY <1>1 DEF Begin
<1> HIDE DEF n
<1>7. Stage(n)'
  BY <1>2, <1>4 DEF Stage, Places
<1> QED  BY <1>1, <1>2, <1>3, <1>4, <1>5, <1>6, <1>7, MintKeeps

(* An operation that has chosen credentials and a grade.                   *)
Chosen(f, g, pc) == [[f EXCEPT !.g = g, !.mode = f.sel] EXCEPT !.pc = pc]

LEMMA ChosenFacts ==
    \A f \in Flows, g \in 0 .. MaxMinted, pc \in Pcs :
        f.sel \in Modes =>
            LET n == Chosen(f, g, pc) IN
                /\ n \in Flows /\ n.pc = pc /\ n.g = g /\ n.mode = f.sel
                /\ n.op = f.op /\ n.a = f.a /\ n.pw = f.pw /\ n.sel = f.sel /\ n.seen = f.seen
<1> TAKE f \in Flows, g \in 0 .. MaxMinted, pc \in Pcs
<1> HAVE f.sel \in Modes
<1> DEFINE m == [f EXCEPT !.g = g, !.mode = f.sel]
<1>1. /\ m \in Flows /\ m.g = g /\ m.mode = f.sel
      /\ m.op = f.op /\ m.a = f.a /\ m.pw = f.pw /\ m.sel = f.sel /\ m.seen = f.seen
  BY DEF Flows
<1>2. Chosen(f, g, pc) = GoneTo(m, pc)
  BY DEF Chosen, GoneTo
<1> HIDE DEF m
<1> QED  BY <1>1, <1>2, GoneToFacts

LEMMA ExecuteRekeyKeeps ==
    ASSUME NEW t \in Tabs, Inv, ExecuteRekey(t)
    PROVE  Inv'
<1>1. flow[t].pc = "rekey" /\ Mint /\ Opens(flow[t].seen.wrap, Typed(flow[t]), flow[t].seen.of)
        /\ flow' = [flow EXCEPT ![t] = Chosen(flow[t], minted', "change")]
  BY DEF ExecuteRekey, At, Goto, Chosen
<1>2. minted \in Nat /\ minted' = minted + 1 /\ minted' \in 1 .. MaxMinted /\ MaxMinted \in Nat
  BY <1>1, MintFacts
<1>3. /\ flow[t] \in Flows /\ Stage(flow[t]) /\ flow[t].a \in Accounts
      /\ flow[t].op = "rekey" /\ flow[t].seen \in Seens /\ flow[t].g = 0
      /\ flow[t].sel \in Modes /\ flow[t].pw <= minted /\ flow[t].pw \in Nat /\ flow[t].pw # 0
  <2>1. flow[t] \in Flows /\ Stage(flow[t]) /\ flow[t].op = "rekey" /\ flow[t].a \in Accounts
    BY <1>1, Here, Placed
  <2> QED  BY <1>1, <1>2, <2>1 DEF Stage, Flows
<1>4. "change" \in Pcs /\ minted' \in 0 .. MaxMinted
  BY <1>2 DEF Pcs
<1>5. PICK n \in Flows :
      /\ n = Chosen(flow[t], minted', "change")
      /\ n.pc = "change" /\ n.g = minted' /\ n.mode = flow[t].sel
      /\ n.op = flow[t].op /\ n.a = flow[t].a /\ n.pw = flow[t].pw
      /\ n.sel = flow[t].sel /\ n.seen = flow[t].seen
  BY <1>3, <1>4, ChosenFacts
<1>6. UNCHANGED <<scene, row, master, rkSeen>> /\ UNCHANGED <<device, cookie, acc, token>>
  BY DEF ExecuteRekey
<1>7. \A a \in Known : row[a].rk # minted'
  <2>1. \A a \in Known : row[a].rk \in Nat
    BY <1>2, KnownRows DEF Inv, TypeInv, Users, Numbers
  <2>2. \A a \in Known : row[a].rk <= minted
    BY DEF Inv, RowInv
  <2> QED  BY <1>2, <2>1, <2>2
<1>8. Stage(n)'
  <2>1. Typed(n)' = Typed(flow[t]) /\ Known' = Known
    BY <1>5, <1>6 DEF Typed, Known
  <2> HIDE DEF Known
  <2>2. \A a \in Known' : row'[a].rk # n.g
    BY <1>5, <1>6, <1>7, <2>1
  <2>3. flow[t].pw <= minted'
    BY <1>2, <1>3
  <2> QED  BY <1>1, <1>3, <1>5, <2>1, <2>2, <2>3 DEF Stage, Places, Opens
<1>9. n.seen.wrap \in PwWraps
  BY <1>1, <1>5, WrapOf DEF Holding
<1> QED  BY <1>1, <1>3, <1>5, <1>6, <1>8, <1>9, MintKeeps

LEMMA DeriveRecoveryKeeps ==
    ASSUME NEW t \in Tabs, Inv, DeriveRecovery(t)
    PROVE  Inv'
<1>1. flow[t].pc = "rkDerive" /\ Mint /\ Opens(flow[t].seen.wrap, flow[t].pw, flow[t].a)
        /\ flow' = [flow EXCEPT ![t] = Chosen(flow[t], minted', "recover")]
  BY DEF DeriveRecovery, At, Goto, Chosen
<1>2. minted \in Nat /\ minted' = minted + 1 /\ minted' \in 1 .. MaxMinted /\ MaxMinted \in Nat
  BY <1>1, MintFacts
<1>3. /\ flow[t] \in Flows /\ Stage(flow[t]) /\ flow[t].a \in Accounts
      /\ flow[t].op = "recover" /\ flow[t].seen \in Seens /\ flow[t].g = 0
      /\ flow[t].sel \in Modes /\ flow[t].pw <= minted /\ flow[t].pw \in Nat /\ flow[t].pw # 0
  <2>1. flow[t] \in Flows /\ Stage(flow[t]) /\ flow[t].op = "recover" /\ flow[t].a \in Accounts
    BY <1>1, Here, Placed
  <2> QED  BY <1>1, <1>2, <2>1 DEF Stage, Flows
<1>4. "recover" \in Pcs /\ minted' \in 0 .. MaxMinted
  BY <1>2 DEF Pcs
<1>5. PICK n \in Flows :
      /\ n = Chosen(flow[t], minted', "recover")
      /\ n.pc = "recover" /\ n.g = minted' /\ n.mode = flow[t].sel
      /\ n.op = flow[t].op /\ n.a = flow[t].a /\ n.pw = flow[t].pw
      /\ n.sel = flow[t].sel /\ n.seen = flow[t].seen
  BY <1>3, <1>4, ChosenFacts
<1>6. UNCHANGED <<scene, row, master, rkSeen>> /\ UNCHANGED <<device, cookie, acc, token>>
  BY DEF DeriveRecovery
<1>7. /\ flow[t].seen.wrap # None
      /\ flow[t].a \in Known /\ flow[t].seen.wrap.mk = master[flow[t].a]
  BY <1>1, <1>3 DEF Opens, Stage
<1>8. Stage(n)'
  <2>1. Known' = Known
    BY <1>6 DEF Known
  <2> HIDE DEF Known
  <2>2. flow[t].pw <= minted'
    BY <1>2, <1>3
  <2> QED  BY <1>3, <1>5, <1>6, <1>7, <2>1, <2>2 DEF Stage, Places
<1> QED  BY <1>1, <1>3, <1>5, <1>6, <1>8, MintKeeps

-----------------------------------------------------------------------------
(* Steps that add or replace a row.                                        *)

(* A row of one derivation, whose wraps hold the master key mk of s.       *)
GoodRow(s, n, mk) ==
    /\ n.ver = n.wrap.key /\ n.salt = n.ver.salt
    /\ ~scene.touch => n.mode = n.ver.mode
    /\ n.wrap.of = s /\ n.wrap.mk = mk
    /\ n.rkWrap = Wrap(n.rk, mk, s)

LEMMA RowKeeps ==
    ASSUME NEW s \in Accounts, NEW n \in Users, Inv,
           row' = [row EXCEPT ![s] = n], UNCHANGED <<scene, bundle, pin>>,
           minted' \in Nat, minted <= minted', minted' <= scene.max,
           n.rk <= minted', n.ver.pw <= minted', n.salt <= minted',
           master' \in [Accounts -> 0 .. MaxMinted],
           \A a \in Known : master'[a] = master[a],
           GoodRow(s, n, master'[s]),
           SessionType', flow' \in [Tabs -> Flows],
           \A u \in Tabs : flow'[u].a = flow[u].a /\ flow'[u].g = flow[u].g
                             /\ flow'[u].seen = flow[u].seen,
           Holding' \subseteq Holding,
           \A u \in Pending' : u \in Pending /\ flow[u].g # n.salt,
           \A w \in PwWraps : w.key.salt # n.salt,
           FlowInv',
           \A a \in Known' : rkSeen'[a] = "coming" =>
               \/ a \in Known /\ rkSeen[a] = "coming" /\ row'[a].rk = row[a].rk
               \/ \E u \in Tabs : flow'[u].a = a /\ flow'[u].g = row'[a].rk
    PROVE  Inv'
<1>1. /\ RowType /\ row \in [Accounts -> Users \cup {None}] /\ None \notin Users
      /\ flow \in [Tabs -> Flows] /\ minted \in Nat /\ MaxMinted \in Nat
      /\ scene.max \in Nat
  BY SessionFacts, Bounds, LadderAssumption DEF Inv, TypeInv, RowType, LadderAssumption
<1>2. /\ row'[s] = n /\ s \in Known'
      /\ \A a \in Accounts : a # s => row'[a] = row[a]
      /\ Known' = Known \cup {s}
  BY <1>1 DEF Known
<1>3. TypeInv'
  <2>1. RowType'
    BY <1>1 DEF RowType
  <2>2. StoreType'
    BY DEF Inv, TypeInv, StoreType
  <2> QED  BY <2>1, <2>2 DEF TypeInv
<1>4. ASSUME NEW w \in PwWraps'
      PROVE  w \in PwWraps \/ w = n.wrap
  <2>1. \A a \in Known' : row'[a].wrap \in PwWraps \/ row'[a].wrap = n.wrap
    BY <1>2, KnownRows, WrapOf DEF Known
  <2>2. \A u \in Holding' : flow'[u].seen.wrap \in PwWraps
    BY WrapOf DEF Holding
  <2>3. bundle' # None => bundle'.wrap \in PwWraps
    BY WrapOf
  <2>4. \/ \E a \in Known' : w = row'[a].wrap
        \/ \E u \in Holding' : w = flow'[u].seen.wrap
        \/ bundle' # None /\ w = bundle'.wrap
    BY DEF PwWraps
  <2> QED  BY <2>1, <2>2, <2>3, <2>4
<1>5. n.wrap \in Wraps(Keys) /\ n.wrap.key.salt = n.salt /\ n.wrap.key.pw = n.ver.pw
  BY DEF Users, GoodRow
<1>6. \A w \in PwWraps : Sound(w)
  BY DEF Inv, WrapInv, WrapsSound
<1> HIDE DEF Known
<1>7. WrapsSound'
  <2> SUFFICES ASSUME NEW w \in PwWraps'
               PROVE  Sound(w)'
    BY DEF WrapsSound
  <2>1. CASE w \in PwWraps
    <3>1. w.key.pw \in Nat /\ w.key.salt \in Nat
      BY <1>6, <2>1 DEF Sound, Wraps, Keys, Numbers
    <3> QED  BY <1>1, <1>2, <1>6, <2>1, <3>1 DEF Sound
  <2>2. CASE w = n.wrap
    BY <1>2, <1>5, <2>2 DEF Sound, GoodRow
  <2> QED  BY <1>4, <2>1, <2>2
<1>8. SaltsApart'
  <2> SUFFICES ASSUME NEW v \in PwWraps', NEW w \in PwWraps', v.key.salt = w.key.salt
               PROVE  v.of = w.of
    BY DEF SaltsApart
  <2>1. (v \in PwWraps /\ w \in PwWraps) \/ (v = n.wrap /\ w = n.wrap)
    BY <1>4, <1>5
  <2> QED  BY <2>1 DEF Inv, WrapInv, SaltsApart
<1>9. ChoicesApart'
  <2>1. \A u \in Tabs : flow[u].g \in Nat /\ flow[u].g <= minted
    BY <1>1 DEF Inv, WrapInv, ChoicesApart, Flows
  <2>2. \A u \in Tabs : flow'[u].g <= minted'
    BY <1>1, <2>1
  <2> QED  BY <2>2 DEF ChoicesApart, Inv, WrapInv
<1>10. SaltsNew'
  <2> SUFFICES ASSUME NEW u \in Pending'
               PROVE  flow'[u].g # 0 /\ \A w \in PwWraps' : w.key.salt # flow'[u].g
    BY DEF SaltsNew
  <2>1. u \in Pending /\ u \in Tabs /\ flow'[u].g = flow[u].g
    BY DEF Pending
  <2>2. flow[u].g # 0 /\ \A w \in PwWraps : w.key.salt # flow[u].g
    BY <2>1 DEF Inv, WrapInv, SaltsNew
  <2> QED  BY <1>4, <1>5, <2>1, <2>2
<1>11. RowInv'
  <2> SUFFICES ASSUME NEW a \in Known'
               PROVE  /\ GoodRow(a, row'[a], master'[a])
                      /\ row'[a].rk <= minted'
    BY DEF RowInv, GoodRow, Wrap
  <2>1. CASE a = s
    BY <1>2, <2>1
  <2>2. CASE a # s
    <3>1. a \in Known /\ row'[a] = row[a] /\ master'[a] = master[a]
      BY <1>1, <1>2, <2>2, KnownRows
    <3>2. row[a].rk \in Nat
      BY <1>1, <3>1, KnownRows DEF Users, Numbers
    <3>3. row[a].wrap.mk = master[a]
      BY <1>6, <3>1, WrapOf DEF Sound, Inv, RowInv
    <3>4. GoodRow(a, row[a], master[a]) /\ row[a].rk <= minted
      BY <3>1, <3>3 DEF Inv, RowInv, GoodRow
    <3> QED  BY <1>1, <3>1, <3>2, <3>4
  <2> QED  BY <2>1, <2>2
<1>12. StoreInv'
  BY <1>2 DEF StoreInv, Inv, Wrap
<1>13. ComingInv'
  <2> SUFFICES ASSUME NEW a \in Known', rkSeen'[a] = "coming"
               PROVE  \E u \in Tabs : flow'[u].a = a /\ flow'[u].g = row'[a].rk
    BY DEF ComingInv
  <2>1. CASE a \in Known /\ rkSeen[a] = "coming" /\ row'[a].rk = row[a].rk
    BY <2>1 DEF Inv, ComingInv
  <2> QED  BY <2>1
<1> QED  BY <1>3, <1>7, <1>8, <1>9, <1>10, <1>11, <1>12, <1>13 DEF Inv, WrapInv

(* The operation of t sends its choice: the row of s is n, and t is m.     *)
LEMMA SendKeeps ==
    ASSUME NEW t \in Tabs, NEW s \in Accounts, NEW n \in Users, NEW m \in Flows, Inv,
           row' = [row EXCEPT ![s] = n], UNCHANGED <<scene, bundle, pin, minted>>,
           flow' = [flow EXCEPT ![t] = m], t \in Pending,
           m.pc \in {"registered", "changed", "recovered"}, Stage(m),
           m.op = flow[t].op, m.a = flow[t].a, m.g = flow[t].g, m.seen = flow[t].seen,
           n.salt = flow[t].g, n.ver.pw <= minted,
           master' \in [Accounts -> 0 .. MaxMinted],
           \A a \in Known : master'[a] = master[a],
           GoodRow(s, n, master'[s]),
           last' \in Accounts \cup {None}, cookie' \in Accounts \cup {None},
           acc' \in [Tabs -> Accounts \cup {None}], token' \in [Tabs -> Accounts \cup {None}],
           \/ rkSeen' = rkSeen /\ s \in Known /\ n.rk = row[s].rk
           \/ /\ rkSeen' = [rkSeen EXCEPT ![s] = "coming"] /\ m.op # "rekey"
              /\ m.a = s /\ n.rk = m.g
    PROVE  Inv'
<1>1. /\ RowType /\ row \in [Accounts -> Users \cup {None}] /\ None \notin Users
      /\ flow \in [Tabs -> Flows] /\ minted \in Nat /\ MaxMinted \in Nat
      /\ minted <= scene.max
      /\ rkSeen \in [Accounts -> {"coming", "shown", "lost"}]
  BY SessionFacts, Bounds, LadderAssumption
     DEF Inv, TypeInv, RowType, SessionType, LadderAssumption
<1>2. /\ row'[s] = n
      /\ \A a \in Accounts : a # s => row'[a] = row[a]
      /\ Known' = Known \cup {s} /\ Known \subseteq Accounts
  BY <1>1, KnownRows DEF Known
<1>3. flow' \in [Tabs -> Flows] /\ flow'[t] = m /\ \A u \in Tabs : u # t => flow'[u] = flow[u]
  BY <1>1
<1>4. \A u \in Tabs : flow'[u].a = flow[u].a /\ flow'[u].g = flow[u].g
                        /\ flow'[u].seen = flow[u].seen
  BY <1>3
<1>5. Holding' \subseteq Holding
  BY <1>3 DEF Holding
<1>6. flow[t].g # 0 /\ flow[t].g <= minted /\ \A w \in PwWraps : w.key.salt # n.salt
  BY DEF Inv, WrapInv, SaltsNew, ChoicesApart
<1>7. \A u \in Tabs : u # t => flow[u].g # flow[t].g
  BY <1>6 DEF Inv, WrapInv, ChoicesApart
<1>8. \A u \in Pending' : u \in Pending /\ flow[u].g # n.salt
  BY <1>3, <1>7 DEF Pending
<1>9. SessionType'
  <2>1. rkSeen' \in [Accounts -> {"coming", "shown", "lost"}]
    BY <1>1
  <2> QED  BY <2>1, SessionKept
<1> HIDE DEF Known
<1>10. n.rk <= minted
  <2>1. s \in Known => row[s].rk <= minted
    BY DEF Inv, RowInv
  <2> QED  BY <2>1, <1>6
<1>11. FlowInv'
  <2>1. \A u \in Tabs : Stage(flow[u]) /\ flow[u] \in Flows
    BY <1>1 DEF Inv, FlowInv
  <2>2. \A f \in Flows :
          Stage(f) /\ (f.op = "rekey" /\ f.g # 0 => \A a \in Known' : row'[a].rk # f.g)
            => Stage(f)'
    BY <1>1, <1>2, StageGrows
  <2>3. \A u \in Tabs : u # t /\ flow[u].op = "rekey" /\ flow[u].g # 0
                          => \A a \in Known' : row'[a].rk # flow[u].g
    BY <1>2, <1>7, <2>1 DEF Stage
  <2>4. m.op = "rekey" /\ m.g # 0 => \A a \in Known' : row'[a].rk # m.g
    BY <1>2 DEF Stage
  <2>5. Stage(m)'
    BY <2>2, <2>4
  <2>6. \A u \in Tabs : u # t => Stage(flow[u])'
    BY <2>1, <2>2, <2>3
  <2> QED  BY <1>3, <2>5, <2>6 DEF FlowInv
<1>12. \A a \in Known' : rkSeen'[a] = "coming" =>
           \/ a \in Known /\ rkSeen[a] = "coming" /\ row'[a].rk = row[a].rk
           \/ \E u \in Tabs : flow'[u].a = a /\ flow'[u].g = row'[a].rk
  BY <1>1, <1>2, <1>3
<1>13. n.salt <= minted' /\ minted' \in Nat /\ minted <= minted' /\ minted' <= scene.max
  BY <1>1, <1>6
<1> QED
  BY <1>3, <1>4, <1>5, <1>6, <1>8, <1>9, <1>10, <1>11, <1>12, <1>13, RowKeeps

(* The operation of t where it sends.                                      *)
LEMMA Sending ==
    ASSUME NEW t \in Tabs, Inv, t \in Pending, flow[t].pc # "derive"
    PROVE  /\ flow[t] \in Flows /\ Stage(flow[t]) /\ flow[t].a \in Accounts
           /\ flow[t].g \in Numbers /\ flow[t].g <= minted /\ flow[t].mode \in Modes
           /\ flow[t].pw \in Numbers /\ flow[t].pw <= minted
           /\ MaxMinted \in Nat /\ minted \in 0 .. MaxMinted
<1>1. flow[t].pc \in {"register", "change", "recover"}
  BY DEF Pending
<1>2. /\ flow[t] \in Flows /\ Stage(flow[t]) /\ flow[t].op # "none"
      /\ flow[t].a \in Accounts /\ MaxMinted \in Nat /\ minted \in 0 .. MaxMinted
  BY <1>1, Here, Placed
<1>3. flow[t].g # 0 /\ flow[t].g <= minted
  BY DEF Inv, WrapInv, SaltsNew, ChoicesApart
<1>4. flow[t].mode \in Modes /\ flow[t].pw <= minted /\ flow[t].pw # 0
  BY <1>1, <1>2 DEF Stage
<1> QED  BY <1>2, <1>3, <1>4 DEF Flows, Numbers

LEMMA ServeRegisterKeeps ==
    ASSUME NEW t \in Tabs, Inv, ServeRegister(t)
    PROVE  Inv'
<1>1. /\ flow[t].pc = "register" /\ t \in Pending /\ row[flow[t].a] = None
      /\ flow' = [flow EXCEPT ![t] = GoneTo(flow[t], "registered")]
  BY DEF ServeRegister, At, Pending, Goto, GoneTo
<1>2. /\ flow[t] \in Flows /\ Stage(flow[t]) /\ flow[t].a \in Accounts
      /\ flow[t].g \in Numbers /\ flow[t].g <= minted /\ flow[t].mode \in Modes
      /\ flow[t].pw \in Numbers /\ flow[t].pw <= minted
      /\ MaxMinted \in Nat /\ minted \in 0 .. MaxMinted
      /\ flow[t].op = "register"
  BY <1>1, Sending, Placed
<1>3. PICK s \in Accounts : s = flow[t].a
  BY <1>2
<1>4. PICK m \in Flows :
        /\ m = GoneTo(flow[t], "registered") /\ m.pc = "registered"
        /\ m.op = flow[t].op /\ m.a = flow[t].a /\ m.pw = flow[t].pw /\ m.g = flow[t].g
        /\ m.sel = flow[t].sel /\ m.mode = flow[t].mode /\ m.seen = flow[t].seen
  BY <1>2, GoneToFacts DEF Pcs
<1>5. Stage(m)
  BY <1>1, <1>2, <1>4 DEF Stage, Places
<1> DEFINE key == Key(flow[t].pw, flow[t].g, flow[t].mode)
           r == Registered(flow[t], key)
<1>6. key \in Keys /\ key.salt = flow[t].g /\ key.mode = flow[t].mode /\ key.pw = flow[t].pw
  BY <1>2 DEF Key, Keys
<1> HIDE DEF key
<1>7. /\ r \in Users /\ r.salt = flow[t].g /\ r.mode = flow[t].mode /\ r.ver = key
      /\ r.wrap = Wrap(key, flow[t].g, s) /\ r.rk = flow[t].g
      /\ r.rkWrap = Wrap(flow[t].g, flow[t].g, s)
  <2>1. /\ Wrap(key, flow[t].g, s) \in Wraps(Keys)
        /\ Wrap(flow[t].g, flow[t].g, s) \in Wraps(Numbers)
    BY <1>2, <1>6, KeyFacts
  <2> QED  BY <1>2, <1>3, <1>6, <2>1 DEF Registered, Users
<1> HIDE DEF r
<1>8. PICK n \in Users : n = r
  BY <1>7
<1>9. row' = [row EXCEPT ![s] = n]
  BY <1>3, <1>8 DEF ServeRegister, r, key
<1>10. /\ master' = [master EXCEPT ![s] = flow[t].g]
       /\ rkSeen' = [rkSeen EXCEPT ![s] = "coming"]
       /\ UNCHANGED <<scene, bundle, pin, minted, last, cookie, acc, token>>
  BY <1>3 DEF ServeRegister, device
<1>11. /\ master' \in [Accounts -> 0 .. MaxMinted] /\ master'[s] = flow[t].g
       /\ \A a \in Known : master'[a] = master[a]
  BY <1>1, <1>2, <1>3, <1>10 DEF Inv, TypeInv, RowType, Known, Numbers
<1>12. GoodRow(s, n, master'[s])
  BY <1>6, <1>7, <1>8, <1>11, KeyFacts DEF GoodRow
<1>13. flow' = [flow EXCEPT ![t] = m] /\ t \in Pending /\ m.op # "rekey"
  BY <1>1, <1>2, <1>4
<1>14. n.salt = flow[t].g /\ n.ver.pw <= minted /\ m.a = s /\ n.rk = m.g
  BY <1>2, <1>3, <1>4, <1>6, <1>7, <1>8
<1>15. /\ last' \in Accounts \cup {None} /\ cookie' \in Accounts \cup {None}
       /\ acc' \in [Tabs -> Accounts \cup {None}] /\ token' \in [Tabs -> Accounts \cup {None}]
  BY <1>10, SessionFacts
<1> QED
  BY <1>4, <1>5, <1>9, <1>10, <1>11, <1>12, <1>13, <1>14, <1>15, SendKeeps

(* The wrap that is replaced and the wrap in the operation's hands are     *)
(* under one key, so they are of one account: that of the row.             *)
LEMMA ChangePasswordKeeps ==
    ASSUME NEW t \in Tabs, Inv, ChangePassword(t)
    PROVE  Inv'
<1>1. /\ flow[t].pc = "change" /\ t \in Pending /\ t \in Holding
      /\ flow' = [flow EXCEPT ![t] = GoneTo(flow[t], "changed")]
  BY DEF ChangePassword, At, Pending, Holding, Goto, GoneTo
<1>2. /\ flow[t] \in Flows /\ Stage(flow[t]) /\ flow[t].a \in Accounts
      /\ flow[t].g \in Numbers /\ flow[t].g <= minted /\ flow[t].mode \in Modes
      /\ MaxMinted \in Nat /\ minted \in 0 .. MaxMinted
      /\ flow[t].op = "rekey"
  BY <1>1, Sending, Placed
<1>3. /\ flow[t].seen \in Seens /\ flow[t].sel \in Modes
      /\ ~scene.touch => flow[t].sel = flow[t].mode
      /\ flow[t].seen.wrap.key = Typed(flow[t])
      /\ flow[t].seen.wrap.of = flow[t].seen.of
  BY <1>1, <1>2 DEF Stage, Opens
<1> DEFINE key == Key(flow[t].g, flow[t].g, flow[t].mode)
<1>4. PICK s \in Authorised(t) :
         /\ row[s] # None /\ row[s].ver = Typed(flow[t])
         /\ row' = [row EXCEPT ![s] = Changed(row[s], flow[t], key)]
         /\ Revoke(s)
  BY DEF ChangePassword
<1>5. s \in Accounts /\ s \in Known
  BY <1>4, SessionFacts DEF Authorised, Known
<1>6. row[s] \in Users /\ row[s].wrap \in PwWraps /\ row[s].ver = row[s].wrap.key
        /\ row[s].wrap.of = s /\ row[s].rkWrap = Wrap(row[s].rk, master[s], s)
  BY <1>5, KnownRows, WrapOf DEF Inv, TypeInv, RowInv
<1>7. flow[t].seen.wrap \in PwWraps
  BY <1>1, WrapOf
<1>8. flow[t].seen.of = s
  <2>1. flow[t].seen.wrap.of = row[s].wrap.of
    BY <1>3, <1>4, <1>6, <1>7 DEF Inv, WrapInv, SaltsApart
  <2> QED  BY <1>3, <1>6, <2>1
<1>9. flow[t].seen.wrap.mk = master[s] /\ flow[t].seen.wrap.mk \in Numbers
  BY <1>3, <1>7, <1>8 DEF Inv, WrapInv, WrapsSound, Sound, Wraps
<1>10. PICK m \in Flows :
        /\ m = GoneTo(flow[t], "changed") /\ m.pc = "changed"
        /\ m.op = flow[t].op /\ m.a = flow[t].a /\ m.pw = flow[t].pw /\ m.g = flow[t].g
        /\ m.sel = flow[t].sel /\ m.mode = flow[t].mode /\ m.seen = flow[t].seen
  BY <1>2, GoneToFacts DEF Pcs
<1>11. Stage(m)
  BY <1>1, <1>2, <1>10 DEF Stage, Places
<1>12. key \in Keys /\ key.salt = flow[t].g /\ key.mode = flow[t].mode /\ key.pw = flow[t].g
  BY <1>2 DEF Key, Keys
<1> HIDE DEF key
<1> DEFINE w == Wrap(key, flow[t].seen.wrap.mk, s)
           r == [row[s] EXCEPT !.salt = flow[t].g, !.mode = flow[t].sel, !.ver = key,
                                !.wrap = w]
<1>13. w \in Wraps(Keys) /\ w.key = key /\ w.mk = master[s] /\ w.of = s
  BY <1>5, <1>9, <1>12 DEF Wrap, Wraps
<1>14. row' = [row EXCEPT ![s] = r]
  BY <1>4, <1>8 DEF Changed, Rewrapped
<1> HIDE DEF w
<1>15. /\ r \in Users /\ r.salt = flow[t].g /\ r.mode = flow[t].sel /\ r.ver = key
       /\ r.wrap = w /\ r.rk = row[s].rk /\ r.rkWrap = row[s].rkWrap
  BY <1>2, <1>3, <1>6, <1>12, <1>13 DEF Users
<1> HIDE DEF r
<1>16. PICK n \in Users : n = r
  BY <1>15
<1>17. UNCHANGED <<scene, bundle, pin, minted, last, acc, master, rkSeen>>
  BY DEF ChangePassword, device, history
<1>18. /\ master' \in [Accounts -> 0 .. MaxMinted] /\ master'[s] = master[s]
       /\ \A a \in Known : master'[a] = master[a]
  BY <1>17 DEF Inv, TypeInv, RowType
<1>19. GoodRow(s, n, master'[s])
  BY <1>3, <1>6, <1>12, <1>13, <1>15, <1>16, <1>18 DEF GoodRow
<1>20. /\ last' \in Accounts \cup {None} /\ cookie' \in Accounts \cup {None}
       /\ acc' \in [Tabs -> Accounts \cup {None}] /\ token' \in [Tabs -> Accounts \cup {None}]
  BY <1>4, <1>17, SessionFacts DEF Revoke
<1>21. row' = [row EXCEPT ![s] = n] /\ n.salt = flow[t].g /\ n.ver.pw <= minted
         /\ n.rk = row[s].rk
  BY <1>2, <1>12, <1>14, <1>15, <1>16
<1>22. flow' = [flow EXCEPT ![t] = m]
  BY <1>1, <1>10
<1> QED
  BY <1>1, <1>5, <1>10, <1>11, <1>17, <1>18, <1>19, <1>20, <1>21, <1>22, SendKeeps

LEMMA ServeRecoverKeeps ==
    ASSUME NEW t \in Tabs, Inv, ServeRecover(t)
    PROVE  Inv'
<1>1. /\ flow[t].pc = "recover" /\ t \in Pending
      /\ flow' = [flow EXCEPT ![t] = GoneTo(flow[t], "recovered")]
  BY DEF ServeRecover, At, Pending, Goto, GoneTo
<1>2. /\ flow[t] \in Flows /\ Stage(flow[t]) /\ flow[t].a \in Accounts
      /\ flow[t].g \in Numbers /\ flow[t].g <= minted /\ flow[t].mode \in Modes
      /\ MaxMinted \in Nat /\ minted \in 0 .. MaxMinted
      /\ flow[t].op = "recover"
  BY <1>1, Sending, Placed
<1>3. PICK s \in Accounts : s = flow[t].a
  BY <1>2
<1>4. /\ flow[t].seen \in Seens /\ flow[t].seen.wrap # None
      /\ s \in Known /\ flow[t].seen.wrap.mk = master[s]
  BY <1>1, <1>2, <1>3 DEF Stage
<1>5. flow[t].seen.wrap.mk \in Numbers
  BY <1>4 DEF Seens, Wraps
<1>6. PICK m \in Flows :
        /\ m = GoneTo(flow[t], "recovered") /\ m.pc = "recovered"
        /\ m.op = flow[t].op /\ m.a = flow[t].a /\ m.pw = flow[t].pw /\ m.g = flow[t].g
        /\ m.sel = flow[t].sel /\ m.mode = flow[t].mode /\ m.seen = flow[t].seen
  BY <1>2, GoneToFacts DEF Pcs
<1>7. Stage(m)
  BY <1>1, <1>2, <1>6 DEF Stage, Places
<1> DEFINE key == Key(flow[t].g, flow[t].g, flow[t].mode)
           r == Recovered(row[s], flow[t], key)
<1>8. row' = [row EXCEPT ![s] = r]
  BY <1>3 DEF ServeRecover
<1>9. key \in Keys /\ key.salt = flow[t].g /\ key.mode = flow[t].mode /\ key.pw = flow[t].g
  BY <1>2 DEF Key, Keys
<1> HIDE DEF key
<1>10. /\ r \in Users /\ r.salt = flow[t].g /\ r.mode = flow[t].mode /\ r.ver = key
       /\ r.wrap = Wrap(key, master[s], s) /\ r.rk = flow[t].g
       /\ r.rkWrap = Wrap(flow[t].g, master[s], s)
  <2>1. /\ Wrap(key, master[s], s) \in Wraps(Keys)
        /\ Wrap(flow[t].g, master[s], s) \in Wraps(Numbers)
    BY <1>2, <1>4, <1>5, <1>9 DEF Wrap, Wraps
  <2> QED  BY <1>2, <1>3, <1>4, <1>9, <2>1 DEF Recovered, Users
<1> HIDE DEF r
<1>11. PICK n \in Users : n = r
  BY <1>10
<1>12. /\ rkSeen' = [rkSeen EXCEPT ![s] = "coming"] /\ Revoke(s)
       /\ UNCHANGED <<scene, bundle, pin, minted, last, acc, master>>
  BY <1>3 DEF ServeRecover, device
<1>13. /\ master' \in [Accounts -> 0 .. MaxMinted] /\ master'[s] = master[s]
       /\ \A a \in Known : master'[a] = master[a]
  BY <1>12 DEF Inv, TypeInv, RowType
<1>14. GoodRow(s, n, master'[s])
  BY <1>9, <1>10, <1>11, <1>13 DEF GoodRow, Wrap
<1>15. /\ last' \in Accounts \cup {None} /\ cookie' \in Accounts \cup {None}
       /\ acc' \in [Tabs -> Accounts \cup {None}] /\ token' \in [Tabs -> Accounts \cup {None}]
  BY <1>12, SessionFacts DEF Revoke
<1>16. row' = [row EXCEPT ![s] = n] /\ n.salt = flow[t].g /\ n.ver.pw <= minted
         /\ m.a = s /\ n.rk = m.g /\ m.op # "rekey"
  BY <1>2, <1>3, <1>6, <1>8, <1>9, <1>10, <1>11
<1>17. flow' = [flow EXCEPT ![t] = m]
  BY <1>1, <1>6
<1> QED
  BY <1>1, <1>6, <1>7, <1>12, <1>13, <1>14, <1>15, <1>16, <1>17, SendKeeps

LEMMA ElsewhereKeeps ==
    ASSUME NEW s \in Accounts, Inv, Elsewhere(s)
    PROVE  Inv'
<1>1. /\ s \in Known /\ Mint /\ Revoke(s)
      /\ UNCHANGED <<scene, bundle, pin, last, acc, flow, master, rkSeen>>
  BY DEF Elsewhere, Known, device
<1>2. minted \in Nat /\ minted' = minted + 1 /\ minted' \in 1 .. MaxMinted
        /\ MaxMinted \in Nat /\ minted' <= scene.max
  <2>1. minted \in 0 .. MaxMinted /\ scene.max \in 0 .. MaxMinted /\ MaxMinted \in Nat
    BY Bounds DEF Inv, TypeInv
  <2> QED  BY <1>1, <2>1, MintFacts DEF Mint
<1>3. PICK g \in Numbers : g = minted'
  BY <1>2 DEF Numbers
<1>4. /\ row[s] \in Users /\ row[s].wrap \in PwWraps /\ row[s].ver = row[s].wrap.key
      /\ row[s].wrap.of = s /\ row[s].rkWrap = Wrap(row[s].rk, master[s], s)
      /\ row[s].rk <= minted /\ row[s].rk \in Nat
      /\ ~scene.touch => row[s].mode = row[s].ver.mode
  BY <1>1, <1>2, KnownRows, WrapOf DEF Inv, TypeInv, RowInv, Users, Numbers
<1>5. row[s].wrap.mk = master[s] /\ master[s] \in Numbers /\ row[s].rkWrap.mk = master[s]
  <2>1. row[s].wrap.mk = master[s]
    BY <1>4 DEF Inv, WrapInv, WrapsSound, Sound
  <2> QED  BY <1>4, <2>1 DEF Users, Wraps, Wrap
<1> DEFINE key == Key(g, g, row[s].mode)
           w == Wrap(key, master[s], s)
           v == Wrap(g, master[s], s)
           r1 == [row[s] EXCEPT !.salt = g, !.ver = key, !.wrap = w]
           r2 == [r1 EXCEPT !.rk = g, !.rkWrap = v]
<1>6. \/ row' = [row EXCEPT ![s] = r1]
      \/ row' = [row EXCEPT ![s] = r2] /\ rkSeen[s] = "shown"
  BY <1>3, <1>5 DEF Elsewhere
<1>7. key \in Keys /\ key.salt = g /\ key.mode = row[s].mode /\ key.pw = g
  BY <1>4 DEF Key, Keys, Users
<1>8. /\ w \in Wraps(Keys) /\ w.key = key /\ w.mk = master[s] /\ w.of = s
      /\ v \in Wraps(Numbers) /\ v = Wrap(g, master[s], s)
  BY <1>5, <1>7 DEF Wrap, Wraps
<1> HIDE DEF key, w, v
<1>9. /\ r1 \in Users /\ r1.salt = g /\ r1.mode = row[s].mode /\ r1.ver = key
      /\ r1.wrap = w /\ r1.rk = row[s].rk /\ r1.rkWrap = row[s].rkWrap
  BY <1>4, <1>7, <1>8 DEF Users
<1> HIDE DEF r1
<1>10. /\ r2 \in Users /\ r2.salt = g /\ r2.mode = row[s].mode /\ r2.ver = key
       /\ r2.wrap = w /\ r2.rk = g /\ r2.rkWrap = v
  BY <1>8, <1>9 DEF Users
<1> HIDE DEF r2
<1>11. PICK n \in Users : row' = [row EXCEPT ![s] = n] /\ n \in {r1, r2}
                            /\ (n.rk = row[s].rk \/ rkSeen[s] = "shown")
  BY <1>6, <1>9, <1>10
<1>12. /\ master' \in [Accounts -> 0 .. MaxMinted] /\ master'[s] = master[s]
       /\ \A a \in Known : master'[a] = master[a]
  BY <1>1 DEF Inv, TypeInv, RowType
<1>13. GoodRow(s, n, master'[s]) /\ n.salt = g /\ n.ver.pw = g /\ n.rk \in {row[s].rk, g}
  BY <1>4, <1>7, <1>8, <1>9, <1>10, <1>11, <1>12 DEF GoodRow
<1>14. SessionType'
  BY <1>1, SessionFacts, SessionKept DEF Revoke
<1>15. /\ flow' \in [Tabs -> Flows]
       /\ \A u \in Tabs : flow[u] \in Flows /\ flow[u].g \in Nat /\ flow[u].g <= minted
  BY <1>1, <1>2, SessionFacts DEF Inv, WrapInv, ChoicesApart, Flows
<1>16. Holding' \subseteq Holding /\ \A u \in Pending' : u \in Pending /\ flow[u].g # n.salt
  BY <1>1, <1>2, <1>3, <1>13, <1>15 DEF Holding, Pending
<1>17. \A x \in PwWraps : x.key.salt # n.salt
  <2>1. \A x \in PwWraps : x.key.salt <= minted /\ x.key.salt \in Nat
    BY DEF Inv, WrapInv, WrapsSound, Sound, Wraps, Keys, Numbers
  <2> QED  BY <1>2, <1>3, <1>13, <2>1
<1>18. /\ row \in [Accounts -> Users \cup {None}] /\ None \notin Users
       /\ Known \subseteq Accounts
  BY LadderAssumption, KnownRows DEF Inv, TypeInv, RowType, LadderAssumption
<1>19. Known' = Known /\ row'[s] = n /\ \A a \in Accounts : a # s => row'[a] = row[a]
  BY <1>1, <1>11, <1>18 DEF Known
<1> HIDE DEF Known
<1>20. FlowInv'
  <2>1. \A u \in Tabs : Stage(flow[u])
    BY DEF Inv, FlowInv
  <2>2. \A f \in Flows :
          Stage(f) /\ (f.op = "rekey" /\ f.g # 0 => \A a \in Known' : row'[a].rk # f.g)
            => Stage(f)'
    BY <1>1, <1>2, <1>12, <1>19, StageGrows
  <2>3. \A u \in Tabs : flow[u].op = "rekey" /\ flow[u].g # 0
                          => \A a \in Known' : row'[a].rk # flow[u].g
    <3>1. \A u \in Tabs : flow[u].op = "rekey" /\ flow[u].g # 0
                            => \A a \in Known : row[a].rk # flow[u].g
      BY <2>1 DEF Stage
    <3>2. \A u \in Tabs : flow[u].g # g
      BY <1>2, <1>3, <1>15
    <3> QED  BY <1>1, <1>13, <1>18, <1>19, <3>1, <3>2
  <2> QED  BY <1>1, <1>15, <2>1, <2>2, <2>3 DEF FlowInv
<1>21. \A a \in Known' : rkSeen'[a] = "coming" =>
           a \in Known /\ rkSeen[a] = "coming" /\ row'[a].rk = row[a].rk
  BY <1>1, <1>11, <1>18, <1>19
<1>22. /\ n.rk <= minted' /\ n.ver.pw <= minted' /\ n.salt <= minted'
       /\ minted' \in Nat /\ minted <= minted'
  BY <1>2, <1>3, <1>4, <1>13
<1> QED
  BY <1>1, <1>2, <1>11, <1>12, <1>13, <1>14, <1>15, <1>16, <1>17, <1>20, <1>21, <1>22, RowKeeps

-----------------------------------------------------------------------------
(* The theorems.                                                           *)

LEMMA InitInv ==
    ASSUME Init
    PROVE  Inv
<1>1. TypeInv
  <2>1. RowType
    BY LadderAssumption DEF Init, RowType, LadderAssumption
  <2>2. StoreType /\ SessionType
    BY DEF Init, StoreType, SessionType
  <2> QED  BY <2>1, <2>2, IdleFits DEF Init, TypeInv
<1>2. Known = {} /\ bundle = None /\ \A t \in Tabs : flow[t] = Idle
  BY DEF Init, Known
<1>3. PwWraps = {} /\ Pending = {}
  BY <1>2 DEF PwWraps, Holding, Pending, Idle
<1>4. WrapInv
  BY <1>2, <1>3 DEF Init, WrapInv, WrapsSound, SaltsApart, ChoicesApart, SaltsNew, Idle
<1>5. RowInv /\ ComingInv
  BY <1>2 DEF RowInv, ComingInv
<1>6. StoreInv
  BY DEF Init, StoreInv
<1>7. FlowInv
  BY <1>1, <1>2, IdleFits DEF FlowInv, TypeInv
<1> QED  BY <1>1, <1>4, <1>5, <1>6, <1>7 DEF Inv

LEMMA StutterKeeps ==
    ASSUME Inv, UNCHANGED vars
    PROVE  Inv'
<1> USE DEF vars
<1>1. TypeInv'
  BY DEF Inv, TypeInv, RowType, StoreType, SessionType
<1>2. Known' = Known /\ PwWraps' = PwWraps /\ Pending' = Pending
  BY DEF Known, PwWraps, Holding, Pending
<1>3. WrapInv'
  BY <1>2 DEF Inv, WrapInv, WrapsSound, Sound, SaltsApart, ChoicesApart, SaltsNew
<1>4. RowInv' /\ StoreInv' /\ ComingInv'
  BY <1>2 DEF Inv, RowInv, StoreInv, ComingInv, Wrap
<1>5. FlowInv'
  <2>1. \A f : Stage(f) => Stage(f)'
    BY KeptStage DEF RowsKept
  <2> QED  BY <2>1 DEF Inv, FlowInv
<1> QED  BY <1>1, <1>3, <1>4, <1>5 DEF Inv

LEMMA NextInv ==
    ASSUME Inv, [Next]_vars
    PROVE  Inv'
<1>1. CASE UNCHANGED vars
  BY <1>1, StutterKeeps
<1>2. ASSUME NEW t \in Tabs, Start(t)
      PROVE  Inv'
  BY <1>2, StartLoginKeeps, StartRegisterKeeps, StartPinSetupKeeps, StartRekeyKeeps,
     StartRecoverKeeps
     DEF Start
<1>3. ASSUME NEW t \in Tabs, Step(t)
      PROVE  Inv'
  BY <1>3, PreLoginKeeps, LoginAnsweredKeeps, FinalizeKeeps, LoggedInKeeps, LoginFailsKeeps,
     BuildRegisterKeeps, ServeRegisterKeeps, RegisterAnsweredKeeps, GetWrapsKeeps,
     ActivatePasscodeKeeps, ExecuteRekeyKeeps, ChangePasswordKeeps, ClearBundleKeeps,
     ClearPinKeeps, GetRecoveryWrapsKeeps, DeriveRecoveryKeeps, ServeRecoverKeeps,
     RecoverAnsweredKeeps, FlowFailsKeeps, RegradeKeeps
     DEF Step
<1>4. ASSUME NEW t \in Tabs, Exit(t) \/ DisablePasscode(t)
      PROVE  Inv'
  BY <1>4, PagesKeep, ClearStateKeeps, StoresDropKeeps DEF Exit
<1> QED  BY <1>1, <1>2, <1>3, <1>4, ElsewhereKeeps DEF Next

(* The invariant, for every set of accounts, tabs and scenes.              *)
THEOREM Invariance == Spec => []Inv
<1>1. Init => Inv
  BY InitInv
<1>2. Inv /\ [Next]_vars => Inv'
  BY NextInv
<1> QED  BY <1>1, <1>2, PTL DEF Spec

(* Every variable holds a value of its kind.                               *)
THEOREM TypeCorrect == Spec => []TypeOK
<1>1. Inv => TypeOK
  <2> SUFFICES ASSUME Inv
               PROVE  TypeOK
    OBVIOUS
  <2>1. bundle # None => bundle.of \in Accounts /\ bundle.wrap \in Wraps(Keys)
    <3>1. bundle # None => bundle.wrap \in Wraps(Keys)
      BY WrapOf DEF Inv, WrapInv, WrapsSound, Sound
    <3> QED  BY <3>1 DEF Inv, TypeInv, StoreType, Seens
  <2>2. \A t \in Tabs : flow[t] # Idle => flow[t].a \in Accounts
    BY DEF Inv, FlowInv, Stage
  <2>3. minted \in 0 .. MaxMinted
    BY Bounds DEF Inv, TypeInv
  <2> QED  BY <2>1, <2>2, <2>3, SessionFacts DEF TypeOK, Inv, TypeInv, RowType
<1> QED  BY <1>1, Invariance, PTL

(* The password the server accepts for an account opens the master key the *)
(* account was registered with, however registrations, changes of password *)
(* and recoveries of any number of tabs and another device interleave, as  *)
(* long as nobody touches the grade while the password is changed.         *)
THEOREM PasswordOpens == Spec => []PasswordOpensAccount
<1>1. Inv => PasswordOpensAccount
  <2> SUFFICES ASSUME Inv, NEW a \in Known, ~scene.touch
               PROVE  RowOpens(a)
    BY DEF PasswordOpensAccount, Known
  <2> DEFINE r == row[a]
  <2>1. /\ r \in Users /\ r.ver = r.wrap.key /\ r.salt = r.ver.salt /\ r.mode = r.ver.mode
        /\ r.wrap.of = a /\ r.wrap \in PwWraps
    BY KnownRows, WrapOf DEF Inv, TypeInv, RowInv
  <2>2. r.wrap.mk = master[a]
    BY <2>1 DEF Inv, WrapInv, WrapsSound, Sound
  <2>3. r.ver \in Keys /\ r.wrap \in Wraps(Keys)
    BY <2>1 DEF Users
  <2>4. r.ver = Key(r.ver.pw, r.salt, r.mode)
    BY <2>1, <2>3 DEF Key, Keys
  <2>5. r.wrap = Wrap(r.ver, master[a], a)
    BY <2>1, <2>2, <2>3 DEF Wrap, Wraps
  <2> QED  BY <2>4, <2>5 DEF RowOpens
<1> QED  BY <1>1, Invariance, PTL

(* So does the recovery key, and one that is on its way to the user is in  *)
(* the hands of the operation that made it.                                *)
THEOREM RecoveryOpens == Spec => []RecoveryKeyOpens
<1>1. Inv => RecoveryKeyOpens
  BY DEF Inv, RowInv, ComingInv, RecoveryKeyOpens, Known
<1> QED  BY <1>1, Invariance, PTL

(* What the device keeps, the bundle and the passcode's wraps, opens to    *)
(* the master key of the account it is kept for.                           *)
THEOREM StoredOpens == Spec => []StoredWrapsOpen
<1>1. Inv => StoredWrapsOpen
  <2> SUFFICES ASSUME Inv
               PROVE  StoredWrapsOpen
    OBVIOUS
  <2>1. ASSUME bundle # None
        PROVE  \E pw \in 1 .. minted :
                 bundle.wrap = Wrap(Key(pw, bundle.salt, bundle.mode),
                                    master[bundle.of], bundle.of)
    <3> DEFINE w == bundle.wrap
    <3>1. /\ w \in Wraps(Keys) /\ w.mk = master[w.of] /\ w.key.pw <= minted
          /\ w.of = bundle.of /\ w.key.salt = bundle.salt /\ w.key.mode = bundle.mode
      BY <2>1, WrapOf DEF Inv, WrapInv, WrapsSound, Sound, StoreInv
    <3> HIDE DEF w
    <3>2. w.key \in Keys /\ minted \in 0 .. MaxMinted /\ MaxMinted \in Nat
      BY <3>1, Bounds DEF Wraps, Inv, TypeInv
    <3>3. w.key.pw \in 1 .. minted
      BY <3>1, <3>2 DEF Keys, Numbers
    <3>4. w.key = Key(w.key.pw, bundle.salt, bundle.mode)
      BY <3>1, <3>2 DEF Keys, Key
    <3>5. w = Wrap(w.key, master[bundle.of], bundle.of)
      BY <3>1 DEF Wraps, Wrap
    <3> QED  BY <3>3, <3>4, <3>5 DEF w
  <2> QED  BY <2>1 DEF StoredWrapsOpen, Inv, StoreInv
<1> QED  BY <1>1, Invariance, PTL

-----------------------------------------------------------------------------
(* A wipe.  One that stayed calm finds no operation that could store       *)
(* something behind it, and has taken away what lies before it.            *)

Leaves == [pc : {"no", "logout", "leave", "wipe", "wipe1", "wipe2", "wipe3", "wiped"},
           of : Accounts \cup {None}, calm : BOOLEAN]

Wiping(l) ==
    l.calm =>
        /\ \A u \in Tabs : flow[u] = Idle
        /\ l.pc \in {"wipe1", "wipe2", "wipe3", "wiped"}
        /\ l.pc # "wipe1" => bundle = None
        /\ l.pc \in {"wipe2", "wipe3"} => l.of # None
        /\ l.pc \in {"wipe3", "wiped"} /\ l.of # None => pin[l.of] = None
        /\ l.pc = "wiped" => last # l.of \/ last = None

WipeInv ==
    /\ leave \in [Tabs -> Leaves]
    /\ \A t \in Tabs : \A l \in Leaves : leave[t] = l => Wiping(l)

(* Nothing is stored while no operation is under way.                      *)
LEMMA WipingStays ==
    ASSUME Inv, NEW l \in Leaves, Wiping(l),
           (\A u \in Tabs : flow[u] = Idle) => \A u \in Tabs : flow'[u] = Idle,
           bundle' \in {bundle, None}, last' \in {last, None},
           \A a \in Accounts : pin'[a] \in {pin[a], None}
    PROVE  Wiping(l)'
BY SessionFacts DEF Wiping, Leaves

LEMMA StayingFits == Staying \in Leaves /\ ~Staying.calm /\ Staying.pc = "no"
BY DEF Staying, Leaves

(* A step of an operation ends the calm, or finds none.                    *)
LEMMA OperationWipes ==
    ASSUME Inv, WipeInv, NEW t \in Tabs, Start(t) \/ Step(t)
    PROVE  WipeInv'
<1>1. leave \in [Tabs -> Leaves]
  BY DEF WipeInv
<1>2. CASE Start(t)
  <2>1. leave' = [u \in Tabs |-> [leave[u] EXCEPT !.calm = FALSE]]
    BY <1>2 DEF Start, StartLogin, UnlockByLogin, StartRegister, StartPinSetup, StartRekey,
                StartRecover, Begin
  <2>2. \A l \in Leaves : [l EXCEPT !.calm = FALSE] \in Leaves /\ ~[l EXCEPT !.calm = FALSE].calm
    BY DEF Leaves
  <2>3. \A u \in Tabs : leave'[u] \in Leaves /\ ~leave'[u].calm
    BY <1>1, <2>1, <2>2
  <2> QED  BY <2>1, <2>3 DEF WipeInv, Wiping
<1>3. CASE Step(t)
  <2>1. flow[t] # Idle
    <3>1. \/ PreLogin(t) \/ LoginAnswered(t) \/ Finalize(t) \/ LoggedIn(t)
          \/ BuildRegister(t) \/ ServeRegister(t) \/ RegisterAnswered(t)
          => flow[t].pc # "idle"
      BY DEF PreLogin, LoginAnswered, Finalize, LoggedIn, BuildRegister, ServeRegister,
             RegisterAnswered, At
    <3>2. \/ GetWraps(t) \/ ActivatePasscode(t) \/ ExecuteRekey(t) \/ ChangePassword(t)
          \/ ClearBundle(t) \/ ClearPin(t)
          => flow[t].pc # "idle"
      BY DEF GetWraps, ActivatePasscode, ExecuteRekey, ChangePassword, ClearBundle, ClearPin, At
    <3>3. \/ GetRecoveryWraps(t) \/ DeriveRecovery(t) \/ ServeRecover(t) \/ RecoverAnswered(t)
          => flow[t].pc # "idle"
      BY DEF GetRecoveryWraps, DeriveRecovery, ServeRecover, RecoverAnswered, At
    <3>4. LoginFails(t) \/ FlowFails(t) => flow[t].pc # "idle"
      BY DEF LoginFails, FlowFails
    <3>5. Regrade(t) \/ NewAccountId(t) => flow[t].op # "none"
      BY DEF Regrade, NewAccountId
    <3>6. Idle.pc = "idle" /\ Idle.op = "none"
      BY DEF Idle
    <3> QED  BY <1>3, <3>1, <3>2, <3>3, <3>4, <3>5, <3>6 DEF Step
  <2>2. \A u \in Tabs : ~leave[u].calm
    BY <2>1 DEF WipeInv, Wiping
  <2>3. leave' \in [Tabs -> Leaves] /\ \A u \in Tabs : ~leave'[u].calm
    <3>1. CASE ClearPin(t)
      <4>1. leave' = [leave EXCEPT ![t] = IF @ = Staying THEN [@ EXCEPT !.pc = "logout"] ELSE @]
        BY <3>1 DEF ClearPin
      <4>2. [Staying EXCEPT !.pc = "logout"] \in Leaves
              /\ ~[Staying EXCEPT !.pc = "logout"].calm
        BY DEF Staying, Leaves
      <4> QED  BY <1>1, <2>2, <4>1, <4>2
    <3>2. CASE ~ClearPin(t)
      <4>1. leave' = leave
        BY <1>3, <3>2 DEF Step, PreLogin, LoginAnswered, Finalize, LoggedIn, LoginFails,
                BuildRegister, ServeRegister, RegisterAnswered, GetWraps, ActivatePasscode,
                ExecuteRekey, ChangePassword, ClearBundle, GetRecoveryWraps, DeriveRecovery,
                ServeRecover, RecoverAnswered, FlowFails, Regrade, NewAccountId
      <4> QED  BY <1>1, <2>2, <4>1
    <3> QED  BY <3>1, <3>2
  <2> QED  BY <2>3 DEF WipeInv, Wiping
<1> QED  BY <1>2, <1>3

(* The tab that leaves, and the others.                                    *)
LEMMA LeavesMove ==
    ASSUME Inv, WipeInv, NEW t \in Tabs, NEW l \in Leaves,
           leave' = [leave EXCEPT ![t] = l], Wiping(l)',
           \A k \in Leaves : Wiping(k) => Wiping(k)'
    PROVE  WipeInv'
<1>1. leave' \in [Tabs -> Leaves]
  BY DEF WipeInv
<1>2. ASSUME NEW u \in Tabs, NEW k \in Leaves, leave'[u] = k  PROVE Wiping(k)'
  <2>1. CASE u = t
    BY <1>2, <2>1 DEF WipeInv
  <2>2. CASE u # t
    <3>1. leave[u] = k
      BY <1>2, <2>2 DEF WipeInv
    <3> QED  BY <3>1 DEF WipeInv
  <2> QED  BY <2>1, <2>2
<1> QED  BY <1>1, <1>2 DEF WipeInv

LEMMA ClearStateWipes ==
    ASSUME Inv, WipeInv, NEW t \in Tabs, ClearState(t)
    PROVE  WipeInv'
<1>1. leave[t] \in Leaves /\ Wiping(leave[t]) /\ leave[t].pc \in {"logout", "wipe"}
  BY DEF WipeInv, ClearState
<1>2. flow \in [Tabs -> Flows] /\ "idle" \notin AwaitsWorker /\ Idle.pc = "idle"
  BY SessionFacts DEF AwaitsWorker, Idle
<1>3. \A u \in Tabs : flow'[u] = IF u = t /\ flow[t].pc \in AwaitsWorker THEN Idle ELSE flow[u]
  BY <1>2 DEF ClearState, EndWorker, Fail
<1>4. UNCHANGED <<bundle, last, pin>>
  BY DEF ClearState, device
<1>5. \A k \in Leaves : Wiping(k) => Wiping(k)'
  BY <1>2, <1>3, <1>4, WipingStays
<1>6. CASE leave[t].pc = "logout"
  <2>1. PICK l : l = [leave[t] EXCEPT !.pc = "leave"]
    OBVIOUS
  <2>2. l \in Leaves /\ ~l.calm
    BY <1>1, <1>6, <2>1 DEF Leaves, Wiping
  <2>3. leave' = [leave EXCEPT ![t] = l] /\ Wiping(l)'
    BY <1>6, <2>1, <2>2 DEF ClearState, Wiping
  <2> QED  BY <1>5, <2>2, <2>3, LeavesMove
<1>7. CASE leave[t].pc = "wipe"
  <2>1. PICK calm : calm = Calm(t)
    OBVIOUS
  <2>2. PICK l : l = [leave[t] EXCEPT !.pc = "wipe1", !.calm = calm]
    OBVIOUS
  <2>3. calm \in BOOLEAN /\ (calm => \A u \in Tabs : flow'[u] = Idle)
    BY <1>3, <2>1 DEF Calm
  <2>4. l \in Leaves /\ l.pc = "wipe1" /\ l.calm = calm
    BY <1>1, <2>2, <2>3 DEF Leaves
  <2>5. leave' = [leave EXCEPT ![t] = l] /\ Wiping(l)'
    BY <1>7, <2>1, <2>2, <2>3, <2>4 DEF ClearState, Wiping
  <2> QED  BY <1>5, <2>4, <2>5, LeavesMove
<1> QED  BY <1>1, <1>6, <1>7

LEMMA StoresWipe ==
    ASSUME Inv, WipeInv, NEW t \in Tabs, WipeBundle(t) \/ WipePin(t) \/ WipeLastId(t)
    PROVE  WipeInv'
<1>1. leave[t] \in Leaves /\ Wiping(leave[t])
  BY DEF WipeInv
<1>2. flow' = flow /\ pin \in [Accounts -> Wraps({"pin"}) \cup {None}]
  BY DEF WipeBundle, WipePin, WipeLastId, Inv, TypeInv, StoreType
<1>3. /\ bundle' \in {bundle, None} /\ last' \in {last, None}
      /\ \A a \in Accounts : pin'[a] \in {pin[a], None}
  BY <1>2 DEF WipeBundle, WipePin, WipeLastId
<1>4. \A k \in Leaves : Wiping(k) => Wiping(k)'
  BY <1>2, <1>3, WipingStays
<1>5. PICK pc \in {"wipe2", "wipe3", "wiped"} :
        /\ leave' = [leave EXCEPT ![t] = [leave[t] EXCEPT !.pc = pc]]
        /\ pc = "wipe2" => leave[t].of # None
        /\ bundle' = None \/ (leave[t].pc # "wipe1" /\ bundle' = bundle)
        /\ pc \in {"wipe3", "wiped"} /\ leave[t].of # None =>
              \/ leave[t].pc = "wipe2" /\ pin'[leave[t].of] = None
              \/ leave[t].pc = "wipe3" /\ pin' = pin
        /\ pc = "wiped" => last' # leave[t].of \/ last' = None
        /\ pc = "wipe3" => leave[t].pc = "wipe2"
        /\ leave[t].pc \in {"wipe1", "wipe2", "wipe3"}
  <2>1. CASE WipeBundle(t)
    BY <2>1 DEF WipeBundle
  <2>2. CASE WipePin(t)
    BY <1>1, <1>2, <2>2 DEF WipePin, Leaves
  <2>3. CASE WipeLastId(t)
    BY <2>3 DEF WipeLastId
  <2> QED  BY <2>1, <2>2, <2>3
<1>6. PICK l : l = [leave[t] EXCEPT !.pc = pc]
  OBVIOUS
<1>7. l \in Leaves /\ l.pc = pc /\ l.of = leave[t].of /\ l.calm = leave[t].calm
  BY <1>1, <1>6 DEF Leaves
<1>8. Wiping(l)'
  BY <1>1, <1>2, <1>5, <1>7 DEF Wiping
<1>9. leave' = [leave EXCEPT ![t] = l]
  BY <1>5, <1>6
<1> QED  BY <1>4, <1>7, <1>8, <1>9, LeavesMove

LEMMA ExitWipes ==
    ASSUME Inv, WipeInv, NEW t \in Tabs, Exit(t)
    PROVE  WipeInv'
<1>1. leave[t] \in Leaves
  BY DEF WipeInv
<1>2. CASE Load(t) \/ Leave(t)
  <2>1. Fail(t) /\ leave' = [leave EXCEPT ![t] = Staying] /\ UNCHANGED <<bundle, last, pin>>
    BY <1>2 DEF Load, Leave, NewPage, device
  <2>2. \A u \in Tabs : flow[u] = Idle => flow'[u] = Idle
    BY <2>1, SessionFacts DEF Fail
  <2>3. \A k \in Leaves : Wiping(k) => Wiping(k)'
    BY <2>1, <2>2, WipingStays
  <2>4. PICK l \in Leaves : l = Staying
    BY StayingFits
  <2>5. leave' = [leave EXCEPT ![t] = l] /\ Wiping(l)'
    BY <2>1, <2>4, StayingFits DEF Wiping
  <2> QED  BY <2>3, <2>5, LeavesMove
<1>3. CASE StartLogout(t) \/ StartWipe(t)
  <2>1. /\ UNCHANGED <<bundle, last, pin, flow>> /\ leave[t] = Staying
        /\ \/ leave' = [leave EXCEPT ![t] = [leave[t] EXCEPT !.pc = "logout"]]
           \/ leave' = [leave EXCEPT ![t] = [pc |-> "wipe", calm |-> FALSE,
                            of |-> IF acc[t] # None THEN acc[t] ELSE last]]
    BY <1>3 DEF StartLogout, StartWipe, device
  <2>2. \A k \in Leaves : Wiping(k) => Wiping(k)'
    BY <2>1, WipingStays
  <2>3. PICK l \in Leaves : leave' = [leave EXCEPT ![t] = l] /\ ~l.calm
    <3>1. [leave[t] EXCEPT !.pc = "logout"] \in Leaves
            /\ ~[leave[t] EXCEPT !.pc = "logout"].calm
      BY <1>1, <2>1, StayingFits DEF Leaves
    <3>2. \A a \in Accounts \cup {None} : [pc |-> "wipe", calm |-> FALSE, of |-> a] \in Leaves
      BY DEF Leaves
    <3>3. PICK a \in Accounts \cup {None} : a = IF acc[t] # None THEN acc[t] ELSE last
      BY SessionFacts
    <3> QED  BY <2>1, <3>1, <3>2, <3>3
  <2>4. Wiping(l)'
    BY <2>3 DEF Wiping
  <2> QED  BY <2>2, <2>3, <2>4, LeavesMove
<1> QED  BY <1>2, <1>3, ClearStateWipes, StoresWipe DEF Exit

LEMMA NextWipes ==
    ASSUME Inv, WipeInv, [Next]_vars
    PROVE  WipeInv'
<1>1. ASSUME UNCHANGED <<leave, flow, bundle, last>>,
             \A a \in Accounts : pin'[a] \in {pin[a], None}
      PROVE  WipeInv'
  <2>1. \A k \in Leaves : Wiping(k) => Wiping(k)'
    BY <1>1, WipingStays
  <2> QED  BY <1>1, <2>1 DEF WipeInv
<1>2. pin \in [Accounts -> Wraps({"pin"}) \cup {None}]
  BY DEF Inv, TypeInv, StoreType
<1>3. ASSUME NEW t \in Tabs, DisablePasscode(t)  PROVE WipeInv'
  BY <1>1, <1>2, <1>3 DEF DisablePasscode
<1>4. ASSUME NEW a \in Accounts, Elsewhere(a)  PROVE WipeInv'
  BY <1>1, <1>4 DEF Elsewhere, device
<1>5. CASE UNCHANGED vars
  BY <1>1, <1>5 DEF vars
<1> QED  BY <1>3, <1>4, <1>5, OperationWipes, ExitWipes DEF Next

(* A wipe leaves nothing of its account on the device, unless an operation *)
(* that awaited the server or the storage overlapped it.                   *)
THEOREM WipeComplete == Spec => []WipeForgets
<1>1. Init => WipeInv
  BY StayingFits DEF Init, WipeInv, Wiping
<1>2. Inv /\ WipeInv => WipeForgets
  <2> SUFFICES ASSUME Inv, WipeInv, NEW t \in Tabs, leave[t].pc = "wiped", leave[t].calm
               PROVE  /\ bundle = None
                      /\ last # leave[t].of \/ last = None
                      /\ leave[t].of # None => pin[leave[t].of] = None
    BY DEF WipeForgets
  <2> QED  BY DEF WipeInv, Wiping
<1>3. Inv /\ WipeInv /\ [Next]_vars => WipeInv'
  BY NextWipes
<1> QED  BY <1>1, <1>2, <1>3, Invariance, PTL DEF Spec

-----------------------------------------------------------------------------
(* One account at a time.                                                  *)

(* An account is in use: a tab has it, the cookie is its session's, or a   *)
(* login or registration of it is about to be stored.                      *)
InUse(a) ==
    /\ a # None
    /\ \/ cookie = a
       \/ \E t \in Tabs : ~Landing(t) /\ acc[t] = a
       \/ \E t \in Tabs : Landing(t) /\ flow[t].a = a

Names(a) == (bundle # None => bundle.of = a) /\ last \in {None, a}

Settled == \A t \in Tabs : ~Landing(t)

(* Until accounts are mixed, one is in use, and the device names it as     *)
(* soon as nothing is left to be stored.                                   *)
OneAccount ==
    /\ \A a, b \in Accounts : InUse(a) /\ InUse(b) => a = b
    /\ Settled => \A a \in Accounts : InUse(a) => Names(a)
    /\ \A t \in Tabs : flow[t].pc = "id" /\ bundle # None => bundle.of = flow[t].a

FollowInv ==
    /\ \A t \in Tabs : flow[t].op = "recover" => acc[t] = None
    /\ ~mixed => OneAccount

(* What most steps do to a tab: nothing new is about to be stored, and an  *)
(* account comes from the cookie.                                          *)
Tame(u) ==
    /\ Landing(u)' <=> Landing(u)
    /\ Landing(u) => flow'[u].a = flow[u].a
    /\ flow'[u].pc = "id" => flow[u].pc = "id"
    /\ ~Landing(u) => acc'[u] \in {acc[u], cookie, None}

LEMMA TameKeeps ==
    ASSUME Inv, FollowInv,
           \A u \in Tabs : flow'[u].op = "recover" => acc'[u] = None,
           ~mixed' => ~mixed /\ \A u \in Tabs : Tame(u),
           bundle' \in {bundle, None}, last' \in {last, None}, cookie' \in {cookie, None}
    PROVE  FollowInv'
<1>1. SUFFICES ASSUME ~mixed'  PROVE OneAccount'
  BY DEF FollowInv
<1>2. OneAccount /\ \A u \in Tabs : Tame(u)
  BY <1>1 DEF FollowInv
<1>3. None \notin Accounts
  BY SessionFacts
<1>4. \A a \in Accounts : InUse(a)' => InUse(a)
  BY <1>2, <1>3 DEF Tame, InUse
<1>5. Settled' => Settled
  BY <1>2 DEF Settled, Tame
<1>6. \A a \in Accounts : Names(a) => Names(a)'
  BY DEF Names
<1>7. ASSUME NEW u \in Tabs, flow'[u].pc = "id", bundle' # None
      PROVE  bundle'.of = flow'[u].a
  <2>1. flow[u].pc = "id" /\ Landing(u)
    BY <1>2, <1>7 DEF Tame, Landing
  <2> QED  BY <1>2, <1>7, <2>1 DEF Tame, OneAccount
<1> QED  BY <1>2, <1>4, <1>5, <1>6, <1>7 DEF OneAccount

(* The ends of a page, and of the operation it was in.                     *)
Quits(t) == flow' = [flow EXCEPT ![t] = Idle]

LEMMA QuitFacts ==
    ASSUME Inv, NEW t \in Tabs, Quits(t)
    PROVE  /\ \A u \in Tabs : u # t => flow'[u] = flow[u]
           /\ flow'[t] = Idle /\ Idle.pc = "idle" /\ Idle.op = "none"
           /\ ~Landing(t)'
           /\ \A u \in Tabs : u # t => (Landing(u)' <=> Landing(u))
BY SessionFacts DEF Quits, Idle, Landing

LEMMA QuitKeeps ==
    ASSUME Inv, FollowInv, NEW t \in Tabs, Quits(t),
           \A u \in Tabs : u # t => acc'[u] = acc[u],
           ~mixed' => ~mixed /\ ~Landing(t) /\ acc'[t] \in {acc[t], cookie, None},
           bundle' \in {bundle, None}, last' \in {last, None}, cookie' \in {cookie, None}
    PROVE  FollowInv'
<1>1. \A u \in Tabs : flow'[u].op = "recover" => acc'[u] = None
  BY QuitFacts DEF FollowInv
<1>2. ~mixed' => \A u \in Tabs : Tame(u)
  BY QuitFacts DEF Tame
<1> QED  BY <1>1, <1>2, TameKeeps

(* An operation goes on, or begins.                                        *)
LEMMA WalkKeeps ==
    ASSUME Inv, FollowInv, NEW t \in Tabs, NEW n,
           flow' = [flow EXCEPT ![t] = n], n.pc = "id" => flow[t].pc = "id",
           n.op = "recover" => flow[t].op = "recover" \/ acc[t] = None,
           \/ n.op = flow[t].op /\ n.a = flow[t].a
           \/ flow[t].pc = "idle",
           LET lands(f) == \/ f.pc \in {"final", "id"}
                           \/ f.op = "register" /\ f.pc \in {"pre", "post"}
           IN  lands(n) <=> lands(flow[t]),
           acc' = acc, mixed' = mixed,
           bundle' \in {bundle, None}, last' \in {last, None}, cookie' \in {cookie, None}
    PROVE  FollowInv'
<1>1. flow'[t] = n /\ \A u \in Tabs : u # t => flow'[u] = flow[u]
  BY SessionFacts
<1>2. \A u \in Tabs : flow'[u].op = "recover" => acc'[u] = None
  BY <1>1 DEF FollowInv
<1>3. \A u \in Tabs : Tame(u)
  BY <1>1 DEF Tame, Landing
<1> QED  BY <1>2, <1>3, TameKeeps

-----------------------------------------------------------------------------
(* The operations that go on without a login that lands.                   *)

LEMMA BeginFollows ==
    ASSUME Inv, FollowInv, NEW t \in Tabs, Start(t)
    PROVE  FollowInv'
<1>1. ASSUME NEW f, Begin(t, f), mixed' = mixed,
             f.pc \in {"pre", "wraps", "rkWraps", "derive"},
             f.pc = "pre" => f.op = "login",
             f.op = "recover" => acc[t] = None
      PROVE  FollowInv'
  <2>1. /\ flow' = [flow EXCEPT ![t] = f] /\ flow[t].pc = "idle"
        /\ acc' = acc /\ bundle' = bundle /\ last' = last /\ cookie' = cookie
    BY <1>1 DEF Begin, device, Idle
  <2> QED  BY <1>1, <2>1, WalkKeeps
<1>2. CASE StartLogin(t)
  <2>1. PICK a \in scene.accts, pw \in 1 .. minted :
           Begin(t, [Idle EXCEPT !.op = "login", !.pc = "pre", !.a = a, !.pw = pw])
    BY <1>2 DEF StartLogin
  <2> QED  BY <1>1, <1>2, <2>1 DEF StartLogin, history, Idle
<1>3. CASE UnlockByLogin(t)
  <2>1. PICK pw \in 1 .. minted :
           Begin(t, [Idle EXCEPT !.op = "login", !.pc = "pre", !.a = last, !.pw = pw])
    BY <1>3 DEF UnlockByLogin
  <2> QED  BY <1>1, <1>3, <2>1 DEF UnlockByLogin, history, Idle
<1>4. CASE StartRegister(t)
  <2>1. PICK a \in scene.accts, mode \in Grades :
           Begin(t, [Idle EXCEPT !.op = "register", !.pc = "derive", !.a = a,
                        !.pw = minted', !.g = minted', !.sel = a, !.mode = mode])
    BY <1>4 DEF StartRegister
  <2> QED  BY <1>1, <1>4, <2>1 DEF StartRegister, Idle
<1>5. CASE StartPinSetup(t)
  <2>1. PICK pw \in 1 .. minted :
           Begin(t, [Idle EXCEPT !.op = "pinSetup", !.pc = "wraps", !.a = acc[t],
                        !.pw = pw, !.seen = bundle])
    BY <1>5 DEF StartPinSetup
  <2> QED  BY <1>1, <1>5, <2>1 DEF StartPinSetup, history, Idle
<1>6. CASE StartRekey(t)
  <2>1. PICK pw \in 1 .. minted, mode \in Grades :
           Begin(t, [Idle EXCEPT !.op = "rekey", !.pc = "wraps", !.a = acc[t],
                        !.pw = pw, !.seen = bundle, !.sel = mode])
    BY <1>6 DEF StartRekey
  <2> QED  BY <1>1, <1>6, <2>1 DEF StartRekey, history, Idle
<1>7. CASE StartRecover(t)
  <2>1. PICK a \in scene.accts, key \in 1 .. minted, mode \in Grades :
           Begin(t, [Idle EXCEPT !.op = "recover", !.pc = "rkWraps", !.a = a,
                        !.pw = key, !.sel = mode])
    BY <1>7 DEF StartRecover
  <2> QED  BY <1>1, <1>7, <2>1 DEF StartRecover, history, Idle
<1> QED  BY <1>2, <1>3, <1>4, <1>5, <1>6, <1>7 DEF Start

WalkingStep(t) ==
    \/ PreLogin(t) \/ BuildRegister(t) \/ ServeRegister(t) \/ GetWraps(t)
    \/ ExecuteRekey(t) \/ ChangePassword(t) \/ ClearBundle(t) \/ GetRecoveryWraps(t)
    \/ DeriveRecovery(t) \/ ServeRecover(t) \/ Regrade(t) \/ NewAccountId(t)

LEMMA StepFollows ==
    ASSUME Inv, FollowInv, NEW t \in Tabs, WalkingStep(t)
    PROVE  FollowInv'
<1> DEFINE f == flow[t]
<1>1. f \in Flows /\ Stage(f)
  BY Here
<1>2. ASSUME NEW n, flow' = [flow EXCEPT ![t] = n], n.op = f.op, n.a = f.a,
             \/ n.pc = f.pc
             \/ f.pc = "pre" /\ n.pc = "post"
             \/ /\ f.pc \in {"derive", "register", "wraps", "rekey", "change", "changed",
                             "rkWraps", "rkDerive", "recover"}
                /\ n.pc \in {"register", "registered", "rekey", "activate", "change",
                             "changed", "clearPin", "rkDerive", "recover", "recovered"}
      PROVE  FollowInv'
  <2>1. /\ acc' = acc /\ mixed' = mixed /\ last' = last
        /\ bundle' \in {bundle, None} /\ cookie' \in {cookie, None}
    BY DEF WalkingStep, PreLogin, BuildRegister, ServeRegister, GetWraps, ExecuteRekey,
           ChangePassword, ClearBundle, GetRecoveryWraps, DeriveRecovery, ServeRecover,
           Regrade, NewAccountId, device, history, Revoke
  <2> QED  BY <1>2, <2>1, WalkKeeps
<1> DEFINE Kept(n) == n.op = f.op /\ n.a = f.a
<1>3. \A pc : Kept([f EXCEPT !.pc = pc]) /\ [f EXCEPT !.pc = pc].pc = pc
  BY <1>1 DEF Flows
<1>4. \A s, pc : /\ Kept([[f EXCEPT !.seen = s] EXCEPT !.pc = pc])
                 /\ [[f EXCEPT !.seen = s] EXCEPT !.pc = pc].pc = pc
  BY <1>1 DEF Flows
<1>5. \A g, m, pc : /\ Kept([[f EXCEPT !.g = g, !.mode = m] EXCEPT !.pc = pc])
                    /\ [[f EXCEPT !.g = g, !.mode = m] EXCEPT !.pc = pc].pc = pc
  BY <1>1 DEF Flows
<1>6. CASE PreLogin(t)
  <2>1. PICK s : flow' = [flow EXCEPT ![t] = [[f EXCEPT !.seen = s] EXCEPT !.pc = "post"]]
    BY <1>6 DEF PreLogin, Goto
  <2>2. f.pc = "pre"
    BY <1>6 DEF PreLogin, At
  <2> DEFINE n == [[f EXCEPT !.seen = s] EXCEPT !.pc = "post"]
  <2>3. flow' = [flow EXCEPT ![t] = n] /\ Kept(n) /\ n.pc = "post"
    BY <1>4, <2>1
  <2> HIDE DEF n
  <2> QED  BY <1>2, <2>2, <2>3
<1>7. CASE BuildRegister(t) \/ ServeRegister(t) \/ ChangePassword(t) \/ ClearBundle(t)
             \/ ServeRecover(t)
  BY <1>2, <1>3, <1>7 DEF BuildRegister, ServeRegister, ChangePassword, ClearBundle,
                          ServeRecover, Goto, At
<1>8. CASE GetWraps(t)
  <2>1. PICK w : flow' = [flow EXCEPT ![t] =
                      [[f EXCEPT !.seen = w] EXCEPT
                          !.pc = IF f.op = "rekey" THEN "rekey" ELSE "activate"]]
    <3>1. PICK s \in Authorised(t) :
             Goto(t, [f EXCEPT !.seen.wrap = row[s].wrap],
                     IF f.op = "rekey" THEN "rekey" ELSE "activate")
      BY <1>8 DEF GetWraps
    <3> QED  BY <3>1 DEF Goto
  <2>2. f.pc = "wraps"
    BY <1>8 DEF GetWraps, At
  <2>3. PICK pc \in {"rekey", "activate"} :
           flow' = [flow EXCEPT ![t] = [[f EXCEPT !.seen = w] EXCEPT !.pc = pc]]
    BY <2>1
  <2> DEFINE n == [[f EXCEPT !.seen = w] EXCEPT !.pc = pc]
  <2>4. flow' = [flow EXCEPT ![t] = n] /\ Kept(n) /\ n.pc = pc
    BY <1>4, <2>3
  <2> HIDE DEF n
  <2> QED  BY <1>2, <2>2, <2>4
<1>9. CASE ExecuteRekey(t) \/ DeriveRecovery(t)
  <2>1. PICK g, m, pc :
           /\ flow' = [flow EXCEPT ![t] = [[f EXCEPT !.g = g, !.mode = m] EXCEPT !.pc = pc]]
           /\ pc \in {"change", "recover"}
    BY <1>9 DEF ExecuteRekey, DeriveRecovery, Goto
  <2>2. f.pc \in {"rekey", "rkDerive"}
    BY <1>9 DEF ExecuteRekey, DeriveRecovery, At
  <2> DEFINE n == [[f EXCEPT !.g = g, !.mode = m] EXCEPT !.pc = pc]
  <2>3. flow' = [flow EXCEPT ![t] = n] /\ Kept(n) /\ n.pc \in {"change", "recover"}
    BY <1>5, <2>1
  <2> HIDE DEF n
  <2> QED  BY <1>2, <2>2, <2>3
<1>10. CASE GetRecoveryWraps(t)
  <2>1. PICK s : flow' = [flow EXCEPT ![t] = [[f EXCEPT !.seen = s] EXCEPT !.pc = "rkDerive"]]
    BY <1>10 DEF GetRecoveryWraps, Goto
  <2>2. f.pc = "rkWraps"
    BY <1>10 DEF GetRecoveryWraps, At
  <2> DEFINE n == [[f EXCEPT !.seen = s] EXCEPT !.pc = "rkDerive"]
  <2>3. flow' = [flow EXCEPT ![t] = n] /\ Kept(n) /\ n.pc = "rkDerive"
    BY <1>4, <2>1
  <2> HIDE DEF n
  <2> QED  BY <1>2, <2>2, <2>3
<1>11. CASE Regrade(t) \/ NewAccountId(t)
  <2>1. PICK x : flow' = [flow EXCEPT ![t] = [f EXCEPT !.sel = x]]
    BY <1>11 DEF Regrade, NewAccountId
  <2>2. Kept([f EXCEPT !.sel = x]) /\ [f EXCEPT !.sel = x].pc = f.pc
    BY <1>1 DEF Flows
  <2> QED  BY <1>2, <2>1, <2>2
<1> QED  BY <1>6, <1>7, <1>8, <1>9, <1>10, <1>11 DEF WalkingStep

-----------------------------------------------------------------------------
(* A login.                                                                *)

LEMMA LoginAnsweredFollows ==
    ASSUME Inv, FollowInv, NEW t \in Tabs, LoginAnswered(t)
    PROVE  FollowInv'
<1> DEFINE a == flow[t].a
           w == row[a].wrap
           n == [[flow[t] EXCEPT !.seen.wrap = w] EXCEPT !.pc = "final"]
<1>1. /\ flow' = [flow EXCEPT ![t] = n] /\ flow[t].pc = "post" /\ cookie' = a
      /\ mixed' = (mixed \/ OthersUse(t, a))
      /\ acc' = acc /\ bundle' = bundle
  BY DEF LoginAnswered, Goto, At, device
<1>2. flow[t] \in Flows /\ a \in Accounts /\ flow[t].op \in {"login", "register"}
  BY <1>1, Here, Placed
<1>3. n.op = flow[t].op /\ n.a = a /\ n.pc = "final"
  BY <1>2 DEF Flows
<1> HIDE DEF n
<1>4. flow'[t] = n /\ \A u \in Tabs : u # t => flow'[u] = flow[u]
  BY <1>1, SessionFacts
<1>5. Landing(t)'
  BY <1>3, <1>4 DEF Landing
<1>6. ASSUME ~mixed'  PROVE OneAccount'
  <2>1. OneAccount /\ ~OthersUse(t, a)
    BY <1>1, <1>6 DEF FollowInv
  <2>2. \A b \in Accounts : InUse(b)' => b = a
    BY <1>1, <1>3, <1>4, <1>5, <2>1, SessionFacts DEF InUse, OthersUse
  <2>3. \A u \in Tabs : flow'[u].pc = "id" /\ bundle' # None => bundle'.of = flow'[u].a
    BY <1>1, <1>3, <1>4, <2>1 DEF OneAccount
  <2> QED  BY <1>5, <2>2, <2>3 DEF OneAccount, Settled
<1>7. \A u \in Tabs : flow'[u].op = "recover" => acc'[u] = None
  BY <1>1, <1>2, <1>3, <1>4 DEF FollowInv
<1> QED  BY <1>6, <1>7 DEF FollowInv

LEMMA FinalizeFollows ==
    ASSUME Inv, FollowInv, NEW t \in Tabs, Finalize(t)
    PROVE  FollowInv'
<1> DEFINE a == flow[t].a
           n == [flow[t] EXCEPT !.pc = "id"]
<1>1. /\ flow' = [flow EXCEPT ![t] = n] /\ flow[t].pc = "final" /\ cookie' = cookie
      /\ mixed' = mixed /\ acc' = acc /\ bundle' = flow[t].seen
  BY DEF Finalize, Goto, At, SaveBundle, history
<1>2. /\ flow[t] \in Flows /\ a \in Accounts /\ flow[t].op \in {"login", "register"}
      /\ flow[t].seen.of = a
  BY <1>1, Here, Placed DEF Stage
<1>3. n.op = flow[t].op /\ n.a = a /\ n.pc = "id"
  BY <1>2 DEF Flows
<1> HIDE DEF n
<1>4. flow'[t] = n /\ \A u \in Tabs : u # t => flow'[u] = flow[u]
  BY <1>1, SessionFacts
<1>5. \A u \in Tabs : (Landing(u)' <=> Landing(u)) /\ flow'[u].a = flow[u].a
  BY <1>1, <1>3, <1>4 DEF Landing
<1>6. Landing(t)
  BY <1>1 DEF Landing
<1>7. ASSUME ~mixed'  PROVE OneAccount'
  <2>1. OneAccount
    BY <1>1, <1>7 DEF FollowInv
  <2>2. \A b \in Accounts : InUse(b)' <=> InUse(b)
    BY <1>1, <1>5 DEF InUse
  <2>3. InUse(a)
    BY <1>2, <1>6, SessionFacts DEF InUse
  <2>4. ASSUME NEW u \in Tabs, flow'[u].pc = "id"  PROVE bundle'.of = flow'[u].a
    <3>1. CASE u = t
      BY <1>1, <1>2, <1>3, <1>4, <3>1
    <3>2. CASE u # t
      <4>1. flow[u].pc = "id" /\ flow'[u].a = flow[u].a
        BY <1>4, <2>4, <3>2
      <4>2. flow[u].a \in Accounts /\ Landing(u)
        BY <4>1, Here, Placed DEF Landing
      <4>3. flow[u].a = a
        BY <1>2, <2>1, <2>3, <4>2, SessionFacts DEF OneAccount, InUse
      <4> QED  BY <1>1, <1>2, <4>1, <4>3
    <3> QED  BY <3>1, <3>2
  <2> QED  BY <1>5, <1>6, <2>1, <2>2, <2>4 DEF OneAccount, Settled
<1>8. \A u \in Tabs : flow'[u].op = "recover" => acc'[u] = None
  BY <1>1, <1>2, <1>3, <1>4 DEF FollowInv
<1> QED  BY <1>7, <1>8 DEF FollowInv

LEMMA LoggedInFollows ==
    ASSUME Inv, FollowInv, NEW t \in Tabs, LoggedIn(t)
    PROVE  FollowInv'
<1>0. PICK a \in Accounts : a = flow[t].a
  BY Here, Placed DEF LoggedIn, At
<1>1. /\ Quits(t) /\ flow[t].pc = "id" /\ cookie' = cookie /\ mixed' = mixed
      /\ acc' = [acc EXCEPT ![t] = a] /\ bundle' = bundle /\ last' = a
  BY <1>0 DEF LoggedIn, Fail, Quits, At
<1>2. a \in Accounts /\ Landing(t) /\ None \notin Accounts
  BY <1>1, SessionFacts DEF Landing
<1>3. acc'[t] = a /\ \A u \in Tabs : u # t => acc'[u] = acc[u]
  BY <1>1, SessionFacts
<1>4. ASSUME ~mixed'  PROVE OneAccount'
  <2>1. OneAccount
    BY <1>1, <1>4 DEF FollowInv
  <2>2. InUse(a)
    BY <1>0, <1>2 DEF InUse
  <2>3. \A b \in Accounts : InUse(b)' => b = a
    <3>1. \A b \in Accounts : InUse(b)' => InUse(b) \/ b = a
      BY <1>1, <1>3, QuitFacts DEF InUse
    <3> QED  BY <1>2, <2>1, <2>2, <3>1 DEF OneAccount
  <2>4. Names(a)'
    BY <1>0, <1>1, <2>1 DEF Names, OneAccount
  <2>5. \A u \in Tabs : flow'[u].pc = "id" /\ bundle' # None => bundle'.of = flow'[u].a
    BY <1>1, <2>1, QuitFacts DEF OneAccount
  <2> QED  BY <2>3, <2>4, <2>5 DEF OneAccount
<1>5. \A u \in Tabs : flow'[u].op = "recover" => acc'[u] = None
  BY <1>1, <1>3, QuitFacts DEF FollowInv
<1> QED  BY <1>4, <1>5 DEF FollowInv

(* A login that had landed leaves nothing in use, or the accounts mixed.   *)
LEMMA LoginFailsFollows ==
    ASSUME Inv, FollowInv, NEW t \in Tabs, LoginFails(t)
    PROVE  FollowInv'
<1>1. /\ Quits(t) /\ cookie' \in {None, cookie} /\ bundle' = bundle /\ last' = last
      /\ acc' = [acc EXCEPT ![t] = None]
      /\ mixed' = (mixed \/ (Landing(t) /\ (cookie' # None \/ OthersUse(t, None))))
  BY DEF LoginFails, Fail, Quits, device
<1>2. acc'[t] = None /\ \A u \in Tabs : u # t => acc'[u] = acc[u]
  BY <1>1, SessionFacts
<1>3. CASE ~Landing(t)
  BY <1>1, <1>2, <1>3, QuitKeeps
<1>4. CASE Landing(t)
  <2>1. ASSUME ~mixed'  PROVE OneAccount'
    <3>1. OneAccount /\ cookie' = None /\ ~OthersUse(t, None)
      BY <1>1, <1>4, <2>1 DEF FollowInv
    <3>2. \A b \in Accounts : ~InUse(b)'
      BY <1>1, <1>2, <3>1, QuitFacts DEF InUse, OthersUse
    <3>3. \A u \in Tabs : flow'[u].pc = "id" /\ bundle' # None => bundle'.of = flow'[u].a
      BY <1>1, <3>1, QuitFacts DEF OneAccount
    <3> QED  BY <3>2, <3>3 DEF OneAccount
  <2>2. \A u \in Tabs : flow'[u].op = "recover" => acc'[u] = None
    BY <1>1, <1>2, QuitFacts DEF FollowInv
  <2> QED  BY <2>1, <2>2 DEF FollowInv
<1> QED  BY <1>3, <1>4

LEMMA RegisterAnsweredFollows ==
    ASSUME Inv, FollowInv, NEW t \in Tabs, RegisterAnswered(t)
    PROVE  FollowInv'
<1> DEFINE a == flow[t].a
           n == [flow[t] EXCEPT !.pc = "pre"]
<1>1. /\ flow' = [flow EXCEPT ![t] = n] /\ flow[t].pc = "registered" /\ cookie' = cookie
      /\ mixed' = (mixed \/ OthersUse(t, a) \/ cookie # None)
      /\ acc' = acc /\ bundle' = bundle
  BY DEF RegisterAnswered, Goto, At
<1>2. flow[t] \in Flows /\ a \in Accounts /\ flow[t].op = "register"
  BY <1>1, Here, Placed
<1>3. n.op = "register" /\ n.a = a /\ n.pc = "pre"
  BY <1>2 DEF Flows
<1> HIDE DEF n
<1>4. flow'[t] = n /\ \A u \in Tabs : u # t => flow'[u] = flow[u]
  BY <1>1, SessionFacts
<1>5. Landing(t)'
  BY <1>3, <1>4 DEF Landing
<1>6. ASSUME ~mixed'  PROVE OneAccount'
  <2>1. OneAccount /\ ~OthersUse(t, a) /\ cookie = None
    BY <1>1, <1>6 DEF FollowInv
  <2>2. \A b \in Accounts : InUse(b)' => b = a
    BY <1>1, <1>3, <1>4, <1>5, <2>1, SessionFacts DEF InUse, OthersUse
  <2>3. \A u \in Tabs : flow'[u].pc = "id" /\ bundle' # None => bundle'.of = flow'[u].a
    BY <1>1, <1>3, <1>4, <2>1 DEF OneAccount
  <2> QED  BY <1>5, <2>2, <2>3 DEF OneAccount, Settled
<1>7. \A u \in Tabs : flow'[u].op = "recover" => acc'[u] = None
  BY <1>1, <1>3, <1>4 DEF FollowInv
<1> QED  BY <1>6, <1>7 DEF FollowInv

(* A recovery ends where nobody is logged in.                              *)
LEMMA RecoverAnsweredFollows ==
    ASSUME Inv, FollowInv, NEW t \in Tabs, RecoverAnswered(t)
    PROVE  FollowInv'
<1>0. PICK a \in Accounts : a = flow[t].a
  BY Here, Placed DEF RecoverAnswered, At
<1>1. /\ Quits(t) /\ flow[t].pc = "recovered" /\ cookie' = cookie /\ acc' = acc
      /\ bundle' = bundle /\ last' = a
      /\ mixed' = (mixed \/ OthersUse(t, a) \/ cookie \notin {None, a})
  BY <1>0 DEF RecoverAnswered, Fail, Quits, At
<1>2. flow[t].op = "recover" /\ acc[t] = None /\ ~Landing(t)
  BY <1>1, Here, Placed DEF Landing, FollowInv
<1>3. ASSUME ~mixed'  PROVE OneAccount'
  <2>1. OneAccount /\ ~OthersUse(t, a) /\ cookie \in {None, a}
    BY <1>1, <1>3 DEF FollowInv
  <2>2. \A b \in Accounts : InUse(b)' => b = a
    BY <1>1, <1>2, <2>1, QuitFacts, SessionFacts DEF InUse, OthersUse
  <2>3. ASSUME Settled', InUse(a)'  PROVE Names(a)'
    <3>1. Settled /\ InUse(a)
      BY <1>1, <1>2, <2>3, QuitFacts, SessionFacts DEF Settled, InUse
    <3> QED  BY <1>1, <1>2, <2>1, <3>1 DEF OneAccount, Names
  <2>4. \A u \in Tabs : flow'[u].pc = "id" /\ bundle' # None => bundle'.of = flow'[u].a
    BY <1>1, <2>1, QuitFacts DEF OneAccount
  <2> QED  BY <2>2, <2>3, <2>4 DEF OneAccount
<1>4. \A u \in Tabs : flow'[u].op = "recover" => acc'[u] = None
  BY <1>1, QuitFacts DEF FollowInv
<1> QED  BY <1>3, <1>4 DEF FollowInv

-----------------------------------------------------------------------------
(* Ends, and steps outside the operations.                                 *)

LEMMA EndFollows ==
    ASSUME Inv, FollowInv, NEW t \in Tabs,
           FlowFails(t) \/ ClearPin(t) \/ ActivatePasscode(t)
    PROVE  FollowInv'
<1>1. /\ Quits(t) /\ acc' = acc /\ mixed' = mixed /\ bundle' = bundle /\ last' = last
      /\ cookie' = cookie
  BY DEF FlowFails, ClearPin, ActivatePasscode, Fail, Quits, device, history
<1>2. ~Landing(t)
  <2>1. flow[t].pc \in {"derive", "register", "registered", "wraps", "activate", "rekey",
                        "change", "changed", "rkWraps", "rkDerive", "recover", "recovered",
                        "clearPin"}
    BY DEF FlowFails, ClearPin, ActivatePasscode, At
  <2> QED  BY <2>1 DEF Landing
<1>3. acc'[t] = acc[t] /\ \A u \in Tabs : acc'[u] = acc[u]
  BY <1>1
<1> QED  BY <1>1, <1>2, <1>3, QuitKeeps

LEMMA PageFollows ==
    ASSUME Inv, FollowInv, NEW t \in Tabs, Load(t) \/ Leave(t)
    PROVE  FollowInv'
<1>1. PICK c \in {cookie, None} : NewPage(t, c)
  BY DEF Load, Leave
<1>2. /\ Quits(t) /\ acc' = [acc EXCEPT ![t] = c]
      /\ mixed' = (mixed \/ Landing(t) \/ \E u \in Tabs \ {t} : acc[u] \notin {None, c})
  BY <1>1 DEF NewPage, Fail, Quits
<1>3. bundle' = bundle /\ last' = last /\ cookie' \in {cookie, None}
  BY DEF Load, Leave, device
<1>4. acc'[t] = c /\ \A u \in Tabs : u # t => acc'[u] = acc[u]
  BY <1>2, SessionFacts
<1>5. ~mixed' => ~mixed /\ ~Landing(t) /\ acc'[t] \in {acc[t], cookie, None}
  BY <1>2, <1>4
<1> QED  BY <1>2, <1>3, <1>4, <1>5, QuitKeeps

LEMMA ClearStateFollows ==
    ASSUME Inv, FollowInv, NEW t \in Tabs, ClearState(t)
    PROVE  FollowInv'
<1>1. /\ acc' = [acc EXCEPT ![t] = None] /\ bundle' = bundle /\ last' = last
      /\ cookie' = cookie /\ EndWorker(t)
  BY DEF ClearState, device
<1>2. acc'[t] = None /\ \A u \in Tabs : u # t => acc'[u] = acc[u]
  BY <1>1, SessionFacts
<1>3. CASE flow[t].pc \in AwaitsWorker
  <2>1. Quits(t) /\ mixed' = (mixed \/ Landing(t))
    BY <1>1, <1>3 DEF EndWorker, Fail, Quits
  <2>2. ~mixed' => ~mixed /\ ~Landing(t) /\ acc'[t] \in {acc[t], cookie, None}
    BY <1>2, <2>1
  <2> QED  BY <1>1, <1>2, <2>1, <2>2, QuitKeeps
<1>4. CASE flow[t].pc \notin AwaitsWorker
  <2>1. flow' = flow /\ mixed' = mixed
    BY <1>1, <1>4 DEF EndWorker
  <2>2. \A u \in Tabs : Tame(u)
    BY <1>2, <2>1 DEF Tame, Landing
  <2>3. \A u \in Tabs : flow'[u].op = "recover" => acc'[u] = None
    BY <1>2, <2>1 DEF FollowInv
  <2> QED  BY <1>1, <2>1, <2>2, <2>3, TameKeeps
<1> QED  BY <1>3, <1>4

(* What leaves the operations and the accounts of the tabs alone.          *)
LEMMA StillFollows ==
    ASSUME Inv, FollowInv, UNCHANGED <<flow, acc, mixed>>,
           bundle' \in {bundle, None}, last' \in {last, None}, cookie' \in {cookie, None}
    PROVE  FollowInv'
<1>1. \A u \in Tabs : Tame(u)
  BY DEF Tame, Landing
<1>2. \A u \in Tabs : flow'[u].op = "recover" => acc'[u] = None
  BY DEF FollowInv
<1> QED  BY <1>1, <1>2, TameKeeps

LEMMA NextFollows ==
    ASSUME Inv, FollowInv, [Next]_vars
    PROVE  FollowInv'
<1>1. ASSUME NEW t \in Tabs, Step(t)  PROVE FollowInv'
  <2>1. \/ WalkingStep(t) \/ LoginAnswered(t) \/ Finalize(t) \/ LoggedIn(t)
        \/ LoginFails(t) \/ RegisterAnswered(t) \/ RecoverAnswered(t)
        \/ FlowFails(t) \/ ClearPin(t) \/ ActivatePasscode(t)
    BY <1>1 DEF Step, WalkingStep
  <2> QED  BY <2>1, StepFollows, LoginAnsweredFollows, FinalizeFollows, LoggedInFollows,
              LoginFailsFollows, RegisterAnsweredFollows, RecoverAnsweredFollows, EndFollows
<1>2. ASSUME NEW t \in Tabs, Exit(t)  PROVE FollowInv'
  <2>1. CASE Load(t) \/ Leave(t)
    BY <2>1, PageFollows
  <2>2. CASE ClearState(t)
    BY <2>2, ClearStateFollows
  <2>3. CASE StartLogout(t) \/ StartWipe(t) \/ WipeBundle(t) \/ WipePin(t) \/ WipeLastId(t)
    <3>1. /\ UNCHANGED <<flow, acc, mixed>>
          /\ bundle' \in {bundle, None} /\ last' \in {last, None} /\ cookie' = cookie
      BY <2>3 DEF StartLogout, StartWipe, WipeBundle, WipePin, WipeLastId, device, history
    <3> QED  BY <3>1, StillFollows
  <2> QED  BY <1>2, <2>1, <2>2, <2>3 DEF Exit
<1>3. ASSUME NEW t \in Tabs, DisablePasscode(t)  PROVE FollowInv'
  BY <1>3, StillFollows DEF DisablePasscode, history
<1>4. ASSUME NEW a \in Accounts, Elsewhere(a)  PROVE FollowInv'
  <2>1. /\ UNCHANGED <<flow, acc, mixed>>
        /\ bundle' = bundle /\ last' = last /\ cookie' \in {cookie, None}
    BY <1>4 DEF Elsewhere, Revoke, device
  <2> QED  BY <2>1, StillFollows
<1>5. CASE UNCHANGED vars
  BY <1>5, StillFollows DEF vars
<1> QED  BY <1>1, <1>2, <1>3, <1>4, <1>5, BeginFollows DEF Next

(* The bundle and the last id name the account of the session, in every    *)
(* tab that has one, unless two accounts were used at once or a login was  *)
(* torn before it was stored.                                              *)
THEOREM DeviceFollows == Spec => []DeviceFollowsSession
<1>1. Init => FollowInv
  <2> SUFFICES ASSUME Init  PROVE FollowInv
    OBVIOUS
  <2>1. \A t \in Tabs : flow[t].op = "none" /\ flow[t].pc = "idle" /\ acc[t] = None
    BY DEF Init, Idle
  <2>2. \A a \in Accounts : ~InUse(a)
    BY <2>1 DEF Init, InUse, Landing
  <2> QED  BY <2>1, <2>2 DEF FollowInv, OneAccount
<1>2. Inv /\ FollowInv => DeviceFollowsSession
  <2> SUFFICES ASSUME Inv, FollowInv, ~mixed, \A t \in Tabs : ~Landing(t),
                      NEW t \in Tabs, acc[t] # None
               PROVE  Names(acc[t])
    BY DEF DeviceFollowsSession, Names
  <2>1. acc[t] \in Accounts /\ InUse(acc[t])
    BY SessionFacts DEF InUse
  <2> QED  BY <2>1 DEF FollowInv, OneAccount, Settled
<1>3. Inv /\ FollowInv /\ [Next]_vars => FollowInv'
  BY NextFollows
<1> QED  BY <1>1, <1>2, <1>3, Invariance, PTL DEF Spec
=============================================================================
