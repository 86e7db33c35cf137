------------------------ MODULE CryptoWorkerProofs -------------------------
(***************************************************************************)
(* Proofs about the crypto worker and its tab, for every set of accounts,  *)
(* operations and scenes: the busy flag is accurate, a logout leaves no    *)
(* key behind, only the right secret unlocks, and in a tab where nothing   *)
(* fails the worker holds the vault key exactly while the vault is         *)
(* unlocked.                                                               *)
(***************************************************************************)
EXTENDS CryptoWorker, SequenceTheorems, TLAPS

-----------------------------------------------------------------------------
(* The invariant.                                                          *)

(* Whose message, handler or answer there is.                              *)
Owners(queue) == {queue[i].op : i \in DOMAIN queue}
Asked == Owners(inbox)
Answered == Owners(outbox)
Handled == {o \in Ops : job[o] # None}

Ordered(queue) ==
    \A i, j \in DOMAIN queue : queue[i].op = queue[j].op => i = j

(* An operation is asked once, handled, and answered once.                 *)
Slots ==
    /\ Ordered(inbox) /\ Ordered(outbox)
    /\ Asked \cap Answered = {} /\ Asked \cap Handled = {} /\ Answered \cap Handled = {}
    /\ \A o \in Asked \cup Answered \cup Handled : op[o].wait \in Awaiting \cup {"idle"}
    /\ \A o \in Ops : op[o].wait # "idle" => o \in scene.ops

(* What an operation waits for while the worker has a message of this type.*)
Serves(type) ==
    IF type = "LOGIN" THEN {"login"}
    ELSE IF type = "FINALIZE_LOGIN" THEN {"finalize"}
    ELSE IF type = "UNLOCK" THEN {"unlock"}
    ELSE IF type = "UNLOCK_VIA_PASSCODE" THEN {"passcode"}
    ELSE IF type = "CLEAR_KEYS" THEN {"lock", "logout"}
    ELSE {"use"}

GivenUp == IF May("timeout") THEN {"idle"} ELSE {}

Matching ==
    /\ \A i \in DOMAIN inbox : op[inbox[i].op].wait \in Serves(inbox[i].type) \cup GivenUp
    /\ \A o \in Handled : op[o].wait \in Serves(job[o].type) \cup GivenUp

Stages ==
    \A o \in Handled :
        IF job[o].at \in {"derive", "prove"} THEN job[o].type \in {"LOGIN", "UNLOCK"}
        ELSE /\ job[o].type \in {"UNLOCK", "UNLOCK_VIA_PASSCODE", "FINALIZE_LOGIN"}
             /\ job[o].base # None

(* Operations of forms, from when they know for whom they are, and those   *)
(* whose secret the worker has, have an account.                           *)
OwnedWaits == {"preLogin", "getPasscode",
               "login", "api", "finalize", "disk", "unlock", "passcode"}
Owned ==
    /\ \A o \in Ops : op[o].wait \in OwnedWaits \/ o \in Handled => op[o].acct \in Accounts
    /\ \A i \in DOMAIN inbox :
          inbox[i].type \notin {"CLEAR_KEYS", "USE_ENTRY"} => op[inbox[i].op].acct \in Accounts

(* The base key of an operation.                                           *)
Own(o) == [acct |-> op[o].acct, right |-> op[o].right]

(* Without time-outs a password operation finds its own base key, or none. *)
Secrets ==
    /\ \A o \in Ops : op[o].wait \in {"finalize", "disk"} => op[o].right
    /\ ~May("timeout") =>
          /\ \A o \in Handled :
                /\ job[o].at = "prove" => pendingLoginBaseKey \in {None, Own(o)}
                /\ job[o].at = "unwrap" /\ job[o].type # "FINALIZE_LOGIN" => job[o].base = Own(o)
          /\ \A i \in DOMAIN outbox :
                outbox[i].ok /\ op[outbox[i].op].wait \in {"unlock", "passcode"}
                  => op[outbox[i].op].right

(* After a logout there is nothing a key could come from.                  *)
Forgotten ==
    left =>
            /\ vaultKey = None /\ pendingLoginBaseKey = None /\ Handled = {}
            /\ \A i \in DOMAIN inbox : inbox[i].type = "FINALIZE_LOGIN"

(* In calm: a tab that logs out ends with a new page.                      *)
Ending == \E o \in Ops : op[o].wait \in {"logout", "leave"}
Locking == {o \in Ops : op[o].wait = "lock"}

(* The device knows one account, and the form its operation.               *)
FormWaits == {"preLogin", "getBundle", "getAccountId", "getPasscodeId", "getPasscode",
              "login", "api", "finalize", "disk", "unlock", "passcode"}
EarlyWaits == {"getBundle", "getAccountId", "getPasscodeId"}
CalmTab ==
    /\ account \in {None, lastId}
    /\ unlocked => account # None /\ form = None
    /\ \A o \in Ops : op[o].wait \in FormWaits <=> form = o
    /\ form # None =>
          /\ IF op[form].wait \in EarlyWaits THEN account # None ELSE op[form].acct # None
          /\ op[form].wait \in {"getPasscode", "unlock", "passcode"} => account = op[form].acct

(* Locks are ahead of the form's operation.                                *)
CalmOrder ==
    /\ \A o \in Ops : Waiting(o) => o \in Asked \cup Handled \cup Answered
    /\ Locking \cap Handled = {}
    /\ \A i, j \in DOMAIN inbox : inbox[i].op = form /\ inbox[j].op \in Locking => j < i
    /\ \A i, j \in DOMAIN outbox : outbox[i].op = form /\ outbox[j].op \in Locking => j < i
    /\ form \in Handled \cup Answered => Locking \cap Asked = {}
    /\ form # None /\ op[form].wait \in {"api", "finalize", "disk"} => Locking = {}

(* The worker holds the key of an unlocked vault until it is cleared, and  *)
(* of a locked one from the end of the handler that unwraps it.            *)
CalmKey ==
    IF unlocked THEN vaultKey = IF Locking \cap Answered = {} THEN account ELSE None
    ELSE /\ form = None => vaultKey = None
         /\ form # None =>
               /\ op[form].wait \in Preparing => vaultKey = None
               /\ op[form].wait = "login" \/ op[form].wait = "api" => vaultKey = None
               /\ op[form].wait = "disk" => vaultKey = op[form].acct
               /\ op[form].wait \in {"finalize", "unlock", "passcode"} =>
                     /\ form \notin Answered => vaultKey = None
                     /\ \A i \in DOMAIN outbox : outbox[i].op = form =>
                           vaultKey = IF outbox[i].ok THEN op[form].acct ELSE None

CalmInv ==
    Calm => /\ bundle = lastId
            /\ ~Ending => CalmTab /\ CalmOrder /\ CalmKey

Core == Slots /\ Matching /\ Stages /\ Owned /\ Secrets
Inv == TypeOK /\ Core /\ BusyIsAccurate /\ Forgotten

-----------------------------------------------------------------------------
(* Queues of messages.                                                     *)

LEMMA QueueTail ==
    ASSUME NEW S, NEW q \in Seq(S), q # <<>>
    PROVE  /\ Head(q) \in S /\ Tail(q) \in Seq(S)
           /\ 1 \in DOMAIN q /\ Head(q) = q[1]
           /\ \A i \in DOMAIN q : i \in Nat /\ i >= 1
           /\ \A i \in DOMAIN Tail(q) :
                 i \in Nat /\ i >= 1 /\ i + 1 \in DOMAIN q /\ Tail(q)[i] = q[i + 1]
           /\ \A i \in DOMAIN q : i = 1 \/ (i - 1 \in DOMAIN Tail(q) /\ q[i] = Tail(q)[i - 1])
<1>1. /\ Len(q) \in Nat \ {0} /\ DOMAIN q = 1 .. Len(q)
      /\ Tail(q) \in Seq(S) /\ Head(q) \in S /\ Len(Tail(q)) = Len(q) - 1
      /\ \A i \in 1 .. Len(Tail(q)) : Tail(q)[i] = q[i + 1]
  BY EmptySeq, LenProperties, HeadTailProperties
<1>2. DOMAIN Tail(q) = 1 .. Len(q) - 1
  BY <1>1, LenProperties
<1>3. Head(q) = q[1]
  BY <1>1
<1> QED  BY <1>1, <1>2, <1>3

LEMMA QueueAppend ==
    ASSUME NEW S, NEW q \in Seq(S), NEW e \in S
    PROVE  /\ Append(q, e) \in Seq(S)
           /\ \A i \in DOMAIN q : i \in DOMAIN Append(q, e) /\ Append(q, e)[i] = q[i] /\ i \in Nat
           /\ \A i \in DOMAIN Append(q, e) :
                 \/ i \in DOMAIN q /\ Append(q, e)[i] = q[i]
                 \/ i = Len(q) + 1 /\ Append(q, e)[i] = e
           /\ Len(q) + 1 \in DOMAIN Append(q, e) /\ Append(q, e)[Len(q) + 1] = e
           /\ \A i \in DOMAIN q : i < Len(q) + 1
<1>1. /\ Len(q) \in Nat /\ DOMAIN q = 1 .. Len(q)
      /\ Append(q, e) \in Seq(S) /\ Len(Append(q, e)) = Len(q) + 1
      /\ \A i \in 1 .. Len(q) : Append(q, e)[i] = q[i]
      /\ Append(q, e)[Len(q) + 1] = e
  BY LenProperties, AppendProperties
<1>2. DOMAIN Append(q, e) = 1 .. Len(q) + 1
  BY <1>1, LenProperties
<1> QED  BY <1>1, <1>2

LEMMA QueueElements ==
    ASSUME NEW S, NEW q \in Seq(S)
    PROVE  \A i \in DOMAIN q : q[i] \in S /\ i \in Nat
BY LenProperties, ElementOfSeq

LEMMA TailOwners ==
    ASSUME NEW S, NEW q \in Seq(S), q # <<>>, Ordered(q)
    PROVE  /\ Ordered(Tail(q)) /\ Owners(Tail(q)) = Owners(q) \ {Head(q).op}
           /\ Head(q).op \in Owners(q)
<1>1. Ordered(Tail(q))
  BY QueueTail DEF Ordered
<1>2. Owners(Tail(q)) \subseteq Owners(q) \ {Head(q).op}
  BY QueueTail DEF Ordered, Owners
<1>3. Owners(q) \ {Head(q).op} \subseteq Owners(Tail(q))
  <2> SUFFICES ASSUME NEW i \in DOMAIN q, q[i].op # Head(q).op
               PROVE  q[i].op \in Owners(Tail(q))
    BY DEF Owners
  <2>1. i # 1 /\ i - 1 \in DOMAIN Tail(q) /\ q[i] = Tail(q)[i - 1]
    BY QueueTail
  <2> QED  BY <2>1 DEF Owners
<1>4. 1 \in DOMAIN q /\ Head(q) = q[1]
  BY QueueTail
<1>5. Head(q).op \in Owners(q)
  BY <1>4 DEF Owners
<1> QED  BY <1>1, <1>2, <1>3, <1>5

LEMMA AppendOwners ==
    ASSUME NEW S, NEW q \in Seq(S), NEW e \in S
    PROVE  /\ Owners(Append(q, e)) = Owners(q) \cup {e.op}
           /\ Ordered(q) /\ e.op \notin Owners(q) => Ordered(Append(q, e))
<1>1. Owners(Append(q, e)) \subseteq Owners(q) \cup {e.op}
  BY QueueAppend DEF Owners
<1>2. Owners(q) \cup {e.op} \subseteq Owners(Append(q, e))
  BY QueueAppend DEF Owners
<1>3. ASSUME Ordered(q), e.op \notin Owners(q)
      PROVE  Ordered(Append(q, e))
  BY <1>3, QueueAppend DEF Owners, Ordered
<1> QED  BY <1>1, <1>2, <1>3

LEMMA NoQueue ==
    /\ Ordered(<<>>) /\ Owners(<<>>) = {} /\ DOMAIN <<>> = {}
    /\ \A S : <<>> \in Seq(S)
BY DEF Ordered, Owners

-----------------------------------------------------------------------------
(* The tab's steps, as far as messages go.                                 *)

LEMMA OpFacts ==
    ASSUME TypeOK
    PROVE  /\ \A o \in Ops : /\ op[o].wait \in Waits /\ op[o].acct \in AccountOrNone
                             /\ op[o].right \in BOOLEAN
                             /\ op[o] = [wait |-> op[o].wait, acct |-> op[o].acct,
                                         right |-> op[o].right]
           /\ op \in [Ops -> [wait : Waits, acct : AccountOrNone, right : BOOLEAN]]
           /\ Asked \subseteq Ops /\ Answered \subseteq Ops /\ Handled \subseteq Ops
           /\ \A i \in DOMAIN inbox : inbox[i].op \in Ops /\ inbox[i].op \in Asked
                                        /\ inbox[i].type \in Types
           /\ \A i \in DOMAIN outbox : outbox[i].op \in Ops /\ outbox[i].op \in Answered
                                         /\ outbox[i].ok \in BOOLEAN
           /\ inbox \in Seq(Message) /\ outbox \in Seq(Answer)
<1>1. op \in [Ops -> [wait : Waits, acct : AccountOrNone, right : BOOLEAN]]
  BY DEF TypeOK
<1>2. inbox \in Seq(Message) /\ outbox \in Seq(Answer)
  BY DEF TypeOK
<1>3. \A i \in DOMAIN inbox : inbox[i] \in Message
  BY <1>2, QueueElements
<1>4. \A i \in DOMAIN outbox : outbox[i] \in Answer
  BY <1>2, QueueElements
<1> QED  BY <1>1, <1>2, <1>3, <1>4 DEF Asked, Answered, Owners, Handled, Message, Answer

(* An operation o that the worker does not work for, or that is given up,  *)
(* waits for something else.                                               *)
LEMMA TurnCore ==
    ASSUME NEW o \in Ops, NEW w \in {"idle", "api", "disk"}, TypeOK, Core,
           op' = [op EXCEPT ![o].wait = w],
           UNCHANGED <<inbox, job, pendingLoginBaseKey, scene>>,
           Ordered(outbox'), Answered' \subseteq Answered,
           \A i \in DOMAIN outbox' : outbox'[i].op \in Answered' /\
               \E j \in DOMAIN outbox : outbox'[i] = outbox[j],
           \/ o \notin Asked \cup Handled \cup Answered'
           \/ w = "idle" /\ May("timeout"),
           w # "idle" => o \in scene.ops /\ op[o].acct \in Accounts,
           w = "disk" => op[o].right
    PROVE  Core'
<1>1. /\ op'[o].wait = w /\ op'[o].acct = op[o].acct /\ op'[o].right = op[o].right
      /\ \A q \in Ops : q # o => op'[q] = op[q]
      /\ \A q \in Ops : op'[q].acct = op[q].acct /\ op'[q].right = op[q].right
  BY OpFacts
<1>2. Asked' = Asked /\ Handled' = Handled /\ May("timeout")' = May("timeout")
        /\ GivenUp' = GivenUp
  BY DEF Asked, Handled, May, GivenUp
<1>3. \A q \in Asked \cup Handled \cup Answered' :
         (q # o /\ op'[q] = op[q]) \/ (op'[q].wait = "idle" /\ May("timeout"))
  BY <1>1, OpFacts
<1> HIDE DEF Asked, Answered, Handled, GivenUp, May
<1>4. Slots'
  <2>1. \A q \in Asked' \cup Answered' \cup Handled' : op'[q].wait \in Awaiting \cup {"idle"}
    BY <1>2, <1>3 DEF Core, Slots
  <2>2. \A q \in Ops : op'[q].wait # "idle" => q \in scene.ops
    BY <1>1 DEF Core, Slots
  <2> QED  BY <1>2, <2>1, <2>2 DEF Core, Slots
<1>5. Matching'
  <2>1. "idle" \in GivenUp <=> May("timeout")
    BY DEF GivenUp
  <2> QED  BY <1>2, <1>3, <2>1, OpFacts DEF Core, Matching
<1>6. Stages'
  BY <1>2 DEF Core, Stages
<1>7. Owned'
  <2>1. \A q \in Ops : op'[q].wait \in OwnedWaits \/ q \in Handled => op'[q].acct \in Accounts
    BY <1>1, OpFacts DEF Core, Owned, OwnedWaits
  <2> QED  BY <1>1, <1>2, <2>1, OpFacts DEF Core, Owned
<1>8. Secrets'
  <2>1. \A q \in Ops : op'[q].wait \in {"finalize", "disk"} => op'[q].right
    BY <1>1 DEF Core, Secrets
  <2>2. \A q \in Ops : Own(q)' = Own(q)
    BY <1>1 DEF Own
  <2>3. ASSUME ~May("timeout"), NEW i \in DOMAIN outbox', outbox'[i].ok,
               op'[outbox'[i].op].wait \in {"unlock", "passcode"}
        PROVE  op'[outbox'[i].op].right
    <3>1. PICK j \in DOMAIN outbox : outbox'[i] = outbox[j]
      OBVIOUS
    <3>2. outbox'[i].op \in Ops
      BY <3>1, OpFacts
    <3>3. op'[outbox'[i].op] = op[outbox'[i].op]
      BY <1>3, <2>3
    <3> QED  BY <2>3, <3>1, <3>3 DEF Core, Secrets
  <2>4. ~May("timeout") =>
           \A q \in Handled :
             /\ job[q].at = "prove" => pendingLoginBaseKey \in {None, Own(q)}
             /\ job[q].at = "unwrap" /\ job[q].type # "FINALIZE_LOGIN" => job[q].base = Own(q)
    BY DEF Core, Secrets
  <2> HIDE DEF Own
  <2> QED  BY <1>2, <2>1, <2>2, <2>3, <2>4, OpFacts DEF Secrets
<1> QED  BY <1>4, <1>5, <1>6, <1>7, <1>8 DEF Core


LEMMA SameCore ==
    ASSUME TypeOK, Core,
           UNCHANGED <<op, inbox, job, pendingLoginBaseKey, scene>>,
           Ordered(outbox'), Answered' \subseteq Answered,
           \A i \in DOMAIN outbox' : \E j \in DOMAIN outbox : outbox'[i] = outbox[j]
    PROVE  Core'
<1>1. Asked' = Asked /\ Handled' = Handled /\ GivenUp' = GivenUp /\ May("timeout")' = May("timeout")
  BY DEF Asked, Handled, May, GivenUp
<1>2. \A o \in Ops : Own(o)' = Own(o)
  BY DEF Own
<1> HIDE DEF Asked, Answered, Handled, GivenUp, May, Own
<1>3. Slots'
  BY <1>1 DEF Core, Slots
<1>4. Matching' /\ Stages' /\ Owned'
  BY <1>1 DEF Core, Matching, Stages, Owned
<1>5. Secrets'
  BY <1>1, <1>2, OpFacts DEF Core, Secrets
<1> QED  BY <1>3, <1>4, <1>5 DEF Core

(* The worker is gone.                                                     *)
LEMMA GoneCore ==
    ASSUME EndWorker, scene' = scene,
           \A o \in Ops :
               /\ op'[o].wait # "idle" => o \in scene.ops
               /\ op'[o].wait \in OwnedWaits => op'[o].acct \in Accounts
               /\ op'[o].wait \in {"finalize", "disk"} => op'[o].right
    PROVE  Core'
<1>1. /\ Asked' = {} /\ Answered' = {} /\ Handled' = {}
      /\ Ordered(inbox') /\ Ordered(outbox')
      /\ DOMAIN inbox' = {} /\ DOMAIN outbox' = {}
  BY NoQueue DEF EndWorker, Asked, Answered, Handled
<1> HIDE DEF Asked, Answered, Handled
<1>2. Slots'
  BY <1>1 DEF Slots
<1>3. Matching' /\ Stages'
  BY <1>1 DEF Matching, Stages
<1>4. Owned'
  BY <1>1 DEF Owned
<1>5. Secrets'
  BY <1>1 DEF Secrets
<1> QED  BY <1>2, <1>3, <1>4, <1>5 DEF Core

(* An operation that the worker does not know asks it.                     *)
LEMMA PostCore ==
    ASSUME NEW o \in Ops, NEW type \in Types,
           NEW r \in [wait : Waits, acct : AccountOrNone, right : BOOLEAN],
           TypeOK, Core,
           op' = [op EXCEPT ![o] = r],
           inbox' = Append(inbox, [op |-> o, type |-> type]),
           UNCHANGED <<outbox, job, pendingLoginBaseKey, scene>>,
           o \in scene.ops, o \notin Asked \cup Handled \cup Answered,
           r.wait \in Serves(type) \cap Awaiting,
           r.wait \in OwnedWaits \/ type \notin {"CLEAR_KEYS", "USE_ENTRY"} => r.acct \in Accounts,
           r.wait \in {"finalize", "disk"} => r.right
    PROVE  Core'
<1> DEFINE m == [op |-> o, type |-> type]
<1>1. op'[o] = r /\ \A q \in Ops : q # o => op'[q] = op[q]
  BY OpFacts
<1>2. m \in Message /\ m.op = o /\ m.type = type
  BY DEF Message
<1>3. Asked' = Asked \cup {o} /\ Handled' = Handled /\ Answered' = Answered
      /\ GivenUp' = GivenUp /\ May("timeout")' = May("timeout")
  BY <1>2, AppendOwners, OpFacts DEF Asked, Handled, Answered, GivenUp, May
<1>4. Ordered(inbox')
  BY <1>2, AppendOwners, OpFacts DEF Asked, Core, Slots
<1>5. \A i \in DOMAIN inbox' : inbox'[i] = m \/ (i \in DOMAIN inbox /\ inbox'[i] = inbox[i])
  BY <1>2, QueueAppend, OpFacts
<1>6. \A q \in Asked \cup Handled \cup Answered : q \in Ops /\ op'[q] = op[q]
  BY <1>1, OpFacts
<1>7. \A i \in DOMAIN inbox : op'[inbox[i].op] = op[inbox[i].op] /\ inbox[i].op \in Ops
  BY <1>6, OpFacts
<1> HIDE DEF Asked, Answered, Handled, GivenUp, May, m
<1>8. Slots'
  <2>1. \A q \in Asked' \cup Answered' \cup Handled' : op'[q].wait \in Awaiting \cup {"idle"}
    BY <1>1, <1>3, <1>6 DEF Core, Slots
  <2>2. \A q \in Ops : op'[q].wait # "idle" => q \in scene.ops
    BY <1>1 DEF Core, Slots
  <2> QED  BY <1>3, <1>4, <2>1, <2>2 DEF Core, Slots
<1>9. Matching'
  <2>1. \A i \in DOMAIN inbox' : op'[inbox'[i].op].wait \in Serves(inbox'[i].type) \cup GivenUp
    BY <1>1, <1>2, <1>5, <1>7 DEF Core, Matching
  <2> QED  BY <1>3, <1>6, <2>1 DEF Core, Matching
<1>10. Stages'
  BY <1>3 DEF Core, Stages
<1>11. Owned'
  <2>1. \A q \in Ops : op'[q].wait \in OwnedWaits \/ q \in Handled => op'[q].acct \in Accounts
    BY <1>1 DEF Core, Owned
  <2>2. \A i \in DOMAIN inbox' :
          inbox'[i].type \notin {"CLEAR_KEYS", "USE_ENTRY"} => op'[inbox'[i].op].acct \in Accounts
    BY <1>1, <1>2, <1>5, <1>7 DEF Core, Owned
  <2> QED  BY <1>3, <2>1, <2>2 DEF Owned
<1>12. Secrets'
  <2>1. \A q \in Ops : op'[q].wait \in {"finalize", "disk"} => op'[q].right
    BY <1>1 DEF Core, Secrets
  <2>2. \A q \in Handled : Own(q)' = Own(q)
    BY <1>6 DEF Own
  <2>3. \A i \in DOMAIN outbox : op'[outbox[i].op] = op[outbox[i].op]
    BY <1>6, OpFacts
  <2> HIDE DEF Own
  <2> QED  BY <1>3, <2>1, <2>2, <2>3 DEF Core, Secrets
<1> QED  BY <1>8, <1>9, <1>10, <1>11, <1>12 DEF Core

-----------------------------------------------------------------------------
(* The worker's steps.                                                     *)

(* Only one password operation at a time is with the worker.               *)
LEMMA OnePassword ==
    ASSUME TypeOK, Core, BusyIsAccurate, ~May("timeout"),
           NEW o \in Handled, NEW q \in Handled,
           job[o].at \in {"derive", "prove"}, job[q].at \in {"derive", "prove"}
    PROVE  o = q
<1>1. op[o].wait \in {"login", "unlock"} /\ op[q].wait \in {"login", "unlock"}
  BY DEF Core, Stages, Matching, Serves, GivenUp
<1> QED  BY <1>1 DEF BusyIsAccurate, Handled

LEMMA JobFacts ==
    ASSUME TypeOK, NEW o \in Handled
    PROVE  o \in Ops /\ job[o] \in Job /\ job[o] # None
BY DEF TypeOK, Handled

(* The worker answers o, whose message it has just taken or which it has   *)
(* handled.                                                                *)
LEMMA ReplyCore ==
    ASSUME NEW o \in Ops, NEW ok \in BOOLEAN, TypeOK, Core,
           Reply(o, ok), UNCHANGED <<op, scene>>,
           \/ o \in Handled /\ inbox' = inbox
           \/ inbox # <<>> /\ o = Head(inbox).op /\ inbox' = Tail(inbox),
           pendingLoginBaseKey' \in {pendingLoginBaseKey, None},
           ~May("timeout") /\ ok /\ op[o].wait \in {"unlock", "passcode"} => op[o].right
    PROVE  Core'
<1> DEFINE m == [op |-> o, ok |-> ok]
<1>1. m \in Answer /\ m.op = o /\ m.ok = ok
  BY DEF Answer
<1>2. /\ Ordered(inbox')
      /\ \A i \in DOMAIN inbox' : \E j \in DOMAIN inbox : inbox'[i] = inbox[j]
      /\ Asked' = Asked \ {o} /\ o \in Asked \cup Handled
  <2>1. CASE o \in Handled /\ inbox' = inbox
    BY <2>1 DEF Core, Slots, Asked
  <2>2. CASE inbox # <<>> /\ o = Head(inbox).op /\ inbox' = Tail(inbox)
    BY <2>2, QueueTail, TailOwners, OpFacts DEF Core, Slots, Asked
  <2> QED  BY <2>1, <2>2
<1>3. Handled' = Handled \ {o} /\ \A q \in Handled' : job'[q] = job[q]
  BY DEF Reply, Handled, TypeOK
<1>4. o \notin Answered
  BY <1>2 DEF Core, Slots
<1>5. Answered' = Answered \cup {o} /\ Ordered(outbox')
  BY <1>1, <1>4, AppendOwners, OpFacts DEF Reply, Answered, Core, Slots
<1>6. \A i \in DOMAIN outbox' : outbox'[i] = m \/ (i \in DOMAIN outbox /\ outbox'[i] = outbox[i])
  BY <1>1, QueueAppend, OpFacts DEF Reply
<1>7. GivenUp' = GivenUp /\ May("timeout")' = May("timeout")
  BY DEF GivenUp, May
<1>8. \A q \in Ops : Own(q)' = Own(q)
  BY DEF Own
<1>9. Handled \subseteq Ops
  BY OpFacts
<1> HIDE DEF Asked, Answered, Handled, GivenUp, May, m, Own
<1>10. Slots'
  BY <1>2, <1>3, <1>5 DEF Core, Slots
<1>11. Matching' /\ Stages' /\ Owned'
  <2>1. Matching'
    BY <1>2, <1>3, <1>7 DEF Core, Matching
  <2>2. Stages'
    BY <1>3 DEF Core, Stages
  <2>3. Owned'
    BY <1>2, <1>3 DEF Core, Owned
  <2> QED  BY <2>1, <2>2, <2>3
<1>12. Secrets'
  <2>1. \A q \in Ops : op'[q].wait \in {"finalize", "disk"} => op'[q].right
    BY DEF Core, Secrets
  <2>2. ASSUME ~May("timeout"), NEW q \in Handled'
        PROVE  /\ job'[q].at = "prove" => pendingLoginBaseKey' \in {None, Own(q)'}
               /\ job'[q].at = "unwrap" /\ job'[q].type # "FINALIZE_LOGIN" => job'[q].base = Own(q)'
    BY <2>2, <1>3, <1>8, <1>9 DEF Core, Secrets
  <2>3. ~May("timeout") => \A i \in DOMAIN outbox' :
            outbox'[i].ok /\ op'[outbox'[i].op].wait \in {"unlock", "passcode"}
              => op'[outbox'[i].op].right
    BY <1>1, <1>6 DEF Core, Secrets
  <2> QED  BY <1>7, <2>1, <2>2, <2>3 DEF Secrets
<1> QED  BY <1>10, <1>11, <1>12 DEF Core

(* The worker begins with the message of o, or goes on with it.            *)
LEMMA JobCore ==
    ASSUME NEW o \in Ops, NEW r \in Job, TypeOK, Core, BusyIsAccurate,
           job' = [job EXCEPT ![o] = r], UNCHANGED <<op, scene, outbox>>,
           \/ o \in Handled /\ inbox' = inbox /\ r.type = job[o].type
           \/ /\ inbox # <<>> /\ o = Head(inbox).op /\ inbox' = Tail(inbox)
              /\ r.type = Head(inbox).type,
           r.type \notin {"CLEAR_KEYS", "USE_ENTRY"},
           r.at \in {"derive", "prove"} => r.type \in {"LOGIN", "UNLOCK"},
           r.at = "unwrap" => r.type # "LOGIN" /\ r.base # None,
           \/ pendingLoginBaseKey' \in {pendingLoginBaseKey, None}
           \/ o \in Handled /\ job[o].at = "derive" /\ pendingLoginBaseKey' = Own(o),
           ~May("timeout") =>
              /\ r.at = "prove" => pendingLoginBaseKey' \in {None, Own(o)}
              /\ r.at = "unwrap" /\ r.type # "FINALIZE_LOGIN" => r.base = Own(o)
    PROVE  Core'
<1>1. /\ Ordered(inbox')
      /\ \A i \in DOMAIN inbox' : \E j \in DOMAIN inbox : inbox'[i] = inbox[j]
      /\ Asked' = Asked \ {o} /\ o \in Asked \cup Handled
      /\ op[o].wait \in Serves(r.type) \cup GivenUp /\ op[o].acct \in Accounts
  <2>1. CASE o \in Handled /\ inbox' = inbox /\ r.type = job[o].type
    BY <2>1 DEF Core, Slots, Asked, Matching, Owned
  <2>2. CASE inbox # <<>> /\ o = Head(inbox).op /\ inbox' = Tail(inbox) /\ r.type = Head(inbox).type
    <3>1. 1 \in DOMAIN inbox /\ Head(inbox) = inbox[1]
      BY <2>2, QueueTail, OpFacts
    <3>2. op[o].wait \in Serves(r.type) \cup GivenUp /\ op[o].acct \in Accounts
      BY <2>2, <3>1 DEF Core, Matching, Owned
    <3>3. Ordered(inbox') /\ Asked' = Asked \ {o} /\ o \in Asked
      BY <2>2, TailOwners, OpFacts DEF Core, Slots, Asked
    <3>4. \A i \in DOMAIN inbox' : \E j \in DOMAIN inbox : inbox'[i] = inbox[j]
      BY <2>2, QueueTail, OpFacts
    <3> QED  BY <3>2, <3>3, <3>4
  <2> QED  BY <2>1, <2>2
<1>2. r # None
  BY ConstAssumption DEF ConstAssumption
<1>3. /\ Handled' = Handled \cup {o} /\ job'[o] = r
      /\ \A q \in Handled' : q # o => q \in Handled /\ job'[q] = job[q]
  BY <1>2 DEF Handled, TypeOK
<1>4. o \notin Answered /\ Answered' = Answered
  BY <1>1 DEF Core, Slots, Answered
<1>5. GivenUp' = GivenUp /\ May("timeout")' = May("timeout")
  BY DEF GivenUp, May
<1>6. \A q \in Ops : Own(q)' = Own(q)
  BY DEF Own
<1>7. Handled \subseteq Ops
  BY OpFacts
<1>8. ASSUME ~May("timeout"), NEW q \in Handled, q # o, job[q].at = "prove"
      PROVE  pendingLoginBaseKey' \in {pendingLoginBaseKey, None}
  BY <1>8, OnePassword
<1> HIDE DEF Asked, Answered, Handled, GivenUp, May, Own
<1>9. Slots'
  <2>1. \A q \in Asked' \cup Answered' \cup Handled' : op'[q].wait \in Awaiting \cup {"idle"}
    BY <1>1, <1>3, <1>4 DEF Core, Slots
  <2>2. Asked' \cap Answered' = {} /\ Asked' \cap Handled' = {} /\ Answered' \cap Handled' = {}
    BY <1>1, <1>3, <1>4 DEF Core, Slots
  <2> QED  BY <1>1, <2>1, <2>2 DEF Core, Slots
<1>10. Matching'
  <2>1. \A i \in DOMAIN inbox' : op'[inbox'[i].op].wait \in Serves(inbox'[i].type) \cup GivenUp
    BY <1>1 DEF Core, Matching
  <2>2. \A q \in Handled' : op'[q].wait \in Serves(job'[q].type) \cup GivenUp
    BY <1>1, <1>3 DEF Core, Matching
  <2> QED  BY <1>5, <2>1, <2>2 DEF Matching
<1>11. Stages'
  <2>1. r.at \in {"derive", "prove", "unwrap"} /\ r.type \in Types
    BY DEF Job
  <2> QED  BY <1>3, <2>1 DEF Core, Stages, Types
<1>12. Owned'
  BY <1>1, <1>3 DEF Core, Owned
<1>13. Secrets'
  <2>1. \A q \in Ops : op'[q].wait \in {"finalize", "disk"} => op'[q].right
    BY DEF Core, Secrets
  <2>2. ASSUME ~May("timeout"), NEW q \in Handled'
        PROVE  /\ job'[q].at = "prove" => pendingLoginBaseKey' \in {None, Own(q)'}
               /\ job'[q].at = "unwrap" /\ job'[q].type # "FINALIZE_LOGIN" => job'[q].base = Own(q)'
    <3>1. CASE q = o
      BY <2>2, <3>1, <1>3, <1>6
    <3>2. CASE q # o
      BY <2>2, <3>2, <1>3, <1>6, <1>7, <1>8 DEF Core, Secrets
    <3> QED  BY <3>1, <3>2
  <2>3. ~May("timeout") => \A i \in DOMAIN outbox' :
            outbox'[i].ok /\ op'[outbox'[i].op].wait \in {"unlock", "passcode"}
              => op'[outbox'[i].op].right
    BY DEF Core, Secrets
  <2> QED  BY <1>5, <2>1, <2>2, <2>3 DEF Secrets
<1> QED  BY <1>9, <1>10, <1>11, <1>12, <1>13 DEF Core

-----------------------------------------------------------------------------
(* How operations begin, go on and end in the tab.                         *)

PasswordWaits == {"login", "unlock"}

LEMMA OpTyped ==
    ASSUME TypeOK, NEW o \in Ops, NEW w \in Waits, op' = [op EXCEPT ![o].wait = w]
    PROVE  /\ op' \in [Ops -> [wait : Waits, acct : AccountOrNone, right : BOOLEAN]]
           /\ op'[o].wait = w /\ op'[o].acct = op[o].acct /\ op'[o].right = op[o].right
           /\ \A q \in Ops : q # o => op'[q] = op[q]
BY OpFacts

(* An operation that no longer waits for the worker's password work frees  *)
(* the flag that it held.                                                  *)
LEMMA BusyFreed ==
    ASSUME BusyIsAccurate, NEW o \in Ops,
           \A q \in Ops : q # o => op'[q] = op[q],
           op'[o].wait \notin PasswordWaits,
           busy' = (busy /\ op[o].wait \notin PasswordWaits)
    PROVE  BusyIsAccurate'
<1>1. CASE op[o].wait \in PasswordWaits
  <2>1. \A q \in Ops : op[q].wait \in PasswordWaits => q = o
    BY <1>1 DEF BusyIsAccurate, PasswordWaits
  <2>2. \A q \in Ops : op'[q].wait \notin PasswordWaits
    BY <2>1
  <2>3. ~busy'
    BY <1>1
  <2> QED  BY <2>2, <2>3 DEF BusyIsAccurate, PasswordWaits
<1>2. CASE op[o].wait \notin PasswordWaits
  <2>1. \A q \in Ops : op'[q].wait \in PasswordWaits <=> op[q].wait \in PasswordWaits
    BY <1>2
  <2>2. busy' <=> busy
    BY <1>2
  <2> QED  BY <2>1, <2>2 DEF BusyIsAccurate, PasswordWaits
<1> QED  BY <1>1, <1>2

LEMMA BusyClaimed ==
    ASSUME BusyIsAccurate, NEW o \in Ops, ~busy, busy' = TRUE,
           \A q \in Ops : q # o => op'[q] = op[q],
           op'[o].wait \in PasswordWaits
    PROVE  BusyIsAccurate'
<1>1. \A q \in Ops : op[q].wait \notin PasswordWaits
  BY DEF BusyIsAccurate, PasswordWaits
<1>2. \A q \in Ops : op'[q].wait \in PasswordWaits <=> q = o
  BY <1>1
<1> QED  BY <1>2 DEF BusyIsAccurate, PasswordWaits

LEMMA NobodyBusy ==
    ASSUME busy' = FALSE, \A o \in Ops : op'[o].wait \notin PasswordWaits
    PROVE  BusyIsAccurate'
BY DEF BusyIsAccurate, PasswordWaits

LEMMA RejectOne ==
    ASSUME TypeOK, NEW o \in Ops, op[o].wait # "logout", Reject({o})
    PROVE  /\ op' = [op EXCEPT ![o].wait = "idle"]
           /\ account' \in AccountOrNone /\ unlocked' \in BOOLEAN
           /\ form' \in Ops \cup {None} /\ left' = left
           /\ unlocked' => unlocked
<1>1. op' = [op EXCEPT ![o].wait = "idle"]
  BY OpFacts DEF Reject
<1>2. account' \in AccountOrNone /\ form' \in Ops \cup {None}
  BY DEF Reject, TypeOK, AccountOrNone
<1>3. unlocked' \in BOOLEAN /\ (unlocked' => unlocked)
  BY DEF Reject, TypeOK
<1>4. left' = left
  BY DEF Reject, TypeOK
<1> QED  BY <1>1, <1>2, <1>3, <1>4

(* What settling a promise does to its operation.                          *)
LEMMA SettleStep ==
    ASSUME TypeOK, BusyIsAccurate, NEW o \in Ops, NEW ok \in BOOLEAN,
           Waiting(o), op[o].wait # "logout", Settle(o, ok)
    PROVE  /\ \E w \in {"idle", "api", "disk"} :
                 /\ op' = [op EXCEPT ![o].wait = w]
                 /\ w = "api" => op[o].wait = "login"
                 /\ w = "disk" => op[o].wait = "finalize"
           /\ account' \in AccountOrNone /\ unlocked' \in BOOLEAN /\ busy' \in BOOLEAN
           /\ form' \in Ops \cup {None} /\ left' = left
           /\ BusyIsAccurate'
           /\ unlocked' /\ ~unlocked => ok /\ op[o].wait \in {"unlock", "passcode", "use"}
<1> DEFINE Turn(w) == op' = [op EXCEPT ![o].wait = w]
           Tab == /\ account' \in AccountOrNone /\ unlocked' \in BOOLEAN /\ busy' \in BOOLEAN
                  /\ form' \in Ops \cup {None} /\ left' = left
           Freed == busy' = (busy /\ op[o].wait \notin PasswordWaits)
           Opened == unlocked' /\ ~unlocked => ok /\ op[o].wait \in {"unlock", "passcode", "use"}
<1>a. account \in AccountOrNone /\ unlocked \in BOOLEAN /\ form \in Ops \cup {None}
  BY DEF TypeOK
<1>b. busy \in BOOLEAN
  BY DEF TypeOK
<1>1. CASE op[o].wait = "login" /\ ok /\ Turn("api") /\ Release(o)
             /\ UNCHANGED <<unlocked, account, form, left>>
  <2>1. Freed
    BY <1>1 DEF Release, PasswordWaits
  <2>2. busy' \in BOOLEAN
    BY <2>1, Zenon
  <2>3. account' = account /\ unlocked' = unlocked /\ form' = form /\ left' = left
    BY <1>1
  <2>t. Tab
    BY <1>a, <2>2, <2>3
  <2>4. Opened
    BY <2>3
  <2>w. "api" \in Waits /\ "api" \notin PasswordWaits
    BY DEF PasswordWaits, Waits
  <2>v. op'[o].wait = "api" /\ \A q \in Ops : q # o => op'[q] = op[q]
    BY <1>1, <2>w, OpTyped
  <2>5. BusyIsAccurate'
    BY <2>1, <2>w, <2>v, BusyFreed
  <2> QED  BY <1>1, <2>t, <2>4, <2>5
<1>2. CASE op[o].wait = "finalize" /\ ok /\ Turn("disk")
             /\ UNCHANGED <<unlocked, account, busy, form, left>>
  <2>0. account' = account /\ unlocked' = unlocked /\ form' = form /\ left' = left
        /\ busy' = busy
    BY <1>2
  <2>t. Tab
    BY <1>a, <1>b, <2>0
  <2>1. Opened
    BY <2>0
  <2>2. op[o].wait \notin PasswordWaits /\ busy \in BOOLEAN
    BY <1>2 DEF PasswordWaits, TypeOK
  <2>3. Freed
    BY <1>2, <2>2
  <2>w. "disk" \in Waits /\ "disk" \notin PasswordWaits
    BY DEF PasswordWaits, Waits
  <2>v. op'[o].wait = "disk" /\ \A q \in Ops : q # o => op'[q] = op[q]
    BY <1>2, <2>w, OpTyped
  <2>4. BusyIsAccurate'
    BY <2>3, <2>w, <2>v, BusyFreed
  <2> QED  BY <1>2, <2>t, <2>1, <2>4
<1>3. CASE op[o].wait \in {"unlock", "passcode", "use"} /\ ok /\ Succeed(o) /\ Release(o)
  <2>1. Turn("idle")
    BY <1>3 DEF Succeed
  <2>2. Tab /\ Opened
    BY <1>3 DEF Succeed, Release, TypeOK
  <2>3. Freed
    BY <1>3 DEF Release, PasswordWaits
  <2>4. op'[o].wait = "idle" /\ \A q \in Ops : q # o => op'[q] = op[q]
    BY <2>1, OpFacts
  <2>5. BusyIsAccurate'
    BY <2>3, <2>4, BusyFreed DEF PasswordWaits
  <2> QED  BY <2>1, <2>2, <2>5
<1>4. CASE Reject({o}) /\ Release(o)
  <2>1. Turn("idle")
    BY <1>4, RejectOne
  <2>2. busy' \in BOOLEAN
    BY <1>4 DEF Release
  <2>3. Tab /\ Opened
    BY <1>4, <2>2, RejectOne
  <2>4. Freed
    BY <1>4 DEF Release, PasswordWaits
  <2>5. op'[o].wait = "idle" /\ \A q \in Ops : q # o => op'[q] = op[q]
    BY <2>1, OpFacts
  <2>6. BusyIsAccurate'
    BY <2>4, <2>5, BusyFreed DEF PasswordWaits
  <2> QED  BY <2>1, <2>3, <2>6
<1> QED  BY <1>1, <1>2, <1>3, <1>4 DEF Settle

(* terminate() preserves the invariant: nothing waits for the worker, and  *)
(* the worker has nothing left to do.                                      *)
LEMMA TerminateInv ==
    ASSUME Inv, Terminate, UNCHANGED diskVars, UNCHANGED scene
    PROVE  Inv'
<1> USE DEF Inv
<1>1. \A o \in Ops : op'[o] = [op[o] EXCEPT !.wait =
                        IF ~Waiting(o) THEN @ ELSE IF @ = "logout" THEN "leave" ELSE "idle"]
  BY OpFacts DEF Terminate, Reject
<1>2. \A o \in Ops : /\ op'[o].acct = op[o].acct /\ op'[o].right = op[o].right
                     /\ op'[o].wait \in {op[o].wait, "leave", "idle"}
                     /\ op'[o].wait \notin Awaiting
                     /\ op'[o].wait = "leave" => op[o].wait \in {"leave", "logout"}
  BY <1>1, OpFacts DEF Waiting, Awaiting
<1>3. op' \in [Ops -> [wait : Waits, acct : AccountOrNone, right : BOOLEAN]]
  <2>1. op' = [o \in Ops |-> op'[o]]
    BY DEF Terminate, Reject
  <2>2. \A o \in Ops : op'[o] \in [wait : Waits, acct : AccountOrNone, right : BOOLEAN]
    BY <1>1, OpFacts DEF Waits
  <2> QED  BY <2>1, <2>2
<1>4. TypeOK'
  <2>1. account' \in AccountOrNone /\ form' \in Ops \cup {None}
    BY DEF Terminate, Reject, TypeOK, AccountOrNone
  <2>2. unlocked' \in BOOLEAN /\ left' \in BOOLEAN /\ busy' \in BOOLEAN
    BY DEF Terminate, Reject, TypeOK
  <2>3. inbox' \in Seq(Message) /\ outbox' \in Seq(Answer)
    BY NoQueue DEF Terminate, EndWorker
  <2>4. /\ job' \in [Ops -> Job \cup {None}]
        /\ \A o \in Ops : job'[o] # None /\ job'[o].at = "unwrap" => job'[o].base # None
    BY DEF Terminate, EndWorker
  <2>5. vaultKey' \in AccountOrNone /\ pendingLoginBaseKey' \in BaseKey \cup {None}
    BY DEF Terminate, EndWorker, AccountOrNone
  <2> QED  BY <1>3, <2>1, <2>2, <2>3, <2>4, <2>5 DEF TypeOK, diskVars
<1>5. Core'
  <2>1. \A o \in Ops : op'[o].wait # "idle" => o \in scene.ops
    BY <1>2 DEF Core, Slots
  <2>2. \A o \in Ops : /\ op'[o].wait \in OwnedWaits => op'[o].acct \in Accounts
                       /\ op'[o].wait \in {"finalize", "disk"} => op'[o].right
    BY <1>2 DEF Core, Owned, Secrets, OwnedWaits
  <2> QED  BY <2>1, <2>2, GoneCore DEF Terminate
<1>6. BusyIsAccurate'
  BY <1>2, NobodyBusy DEF Terminate, Awaiting, PasswordWaits
<1>7. Forgotten'
  <2>1. Handled' = {} /\ DOMAIN inbox' = {}
    BY NoQueue DEF Terminate, EndWorker, Handled
  <2> QED  BY <2>1 DEF Forgotten, Terminate, EndWorker
<1> QED  BY <1>4, <1>5, <1>6, <1>7

-----------------------------------------------------------------------------
(* The invariant holds and every step preserves it.                        *)

LEMMA InitInv ==
    ASSUME Init
    PROVE  Inv
<1>1. scene \in Scene
  BY ConstAssumption DEF Init, ConstAssumption
<1>2. scene.accts \subseteq Accounts
  BY <1>1 DEF Scene
<1>3. \A o \in Ops : op[o].wait = "idle" /\ job[o] = None
  BY DEF Init, Idle
<1>4. TypeOK
  <2>1. op \in [Ops -> [wait : Waits, acct : AccountOrNone, right : BOOLEAN]]
    BY DEF Init, Idle, Waits, AccountOrNone
  <2>2. account \in AccountOrNone /\ bundle \in AccountOrNone /\ lastId \in AccountOrNone
    BY <1>2 DEF Init, AccountOrNone
  <2>3. inbox \in Seq(Message) /\ outbox \in Seq(Answer)
    BY NoQueue DEF Init
  <2>4. job \in [Ops -> Job \cup {None}]
    BY DEF Init
  <2> QED  BY <1>3, <2>1, <2>2, <2>3, <2>4 DEF Init, TypeOK, AccountOrNone
<1>5. /\ Asked = {} /\ Answered = {} /\ Handled = {}
      /\ Ordered(inbox) /\ Ordered(outbox)
      /\ DOMAIN inbox = {} /\ DOMAIN outbox = {}
  BY <1>3, NoQueue DEF Init, Asked, Answered, Handled
<1> HIDE DEF Asked, Answered, Handled
<1>6. Slots
  BY <1>3, <1>5 DEF Slots
<1>7. Matching /\ Stages
  BY <1>5 DEF Matching, Stages
<1>8. Owned
  BY <1>3, <1>5 DEF Owned, OwnedWaits
<1>9. Secrets
  BY <1>3, <1>5 DEF Secrets
<1>10. BusyIsAccurate
  BY <1>3 DEF BusyIsAccurate, Init
<1>11. Forgotten
  BY DEF Forgotten, Init
<1> QED  BY <1>4, <1>6, <1>7, <1>8, <1>9, <1>10, <1>11 DEF Inv, Core

(* An operation sends its first message to the worker.                     *)
LEMMA PostInv ==
    ASSUME NEW o \in Ops, NEW type \in Types \ {"FINALIZE_LOGIN"}, NEW wait \in Awaiting,
           NEW a \in AccountOrNone, NEW right \in BOOLEAN,
           Inv, op[o].wait \in Preparing \cup {"idle"}, o \in scene.ops,
           o \notin Asked \cup Handled \cup Answered, wait \in Serves(type),
           wait \in OwnedWaits \/ type \notin {"CLEAR_KEYS", "USE_ENTRY"} => a \in Accounts,
           inbox' = Append(inbox, [op |-> o, type |-> type]),
           op' = [op EXCEPT ![o] = [wait |-> wait, acct |-> a, right |-> right]],
           left' = FALSE,
           UNCHANGED <<outbox, job, vaultKey, pendingLoginBaseKey, unlocked, account>>,
           UNCHANGED <<diskVars, scene>>,
           form' \in Ops \cup {None}, busy' \in BOOLEAN,
           \/ wait \in PasswordWaits /\ ~busy /\ busy' = TRUE
           \/ wait \notin PasswordWaits /\ busy' = busy
    PROVE  Inv'
<1> USE DEF Inv
<1> DEFINE r == [wait |-> wait, acct |-> a, right |-> right]
<1>1. r \in [wait : Waits, acct : AccountOrNone, right : BOOLEAN]
  BY DEF Waits
<1>2. op'[o] = r /\ \A q \in Ops : q # o => op'[q] = op[q]
  BY OpFacts
<1>3. op[o].wait \notin PasswordWaits
  BY DEF Preparing, PasswordWaits
<1>4. Core'
  <2>1. wait \notin {"finalize", "disk"}
    BY DEF Serves, Types, Awaiting
  <2>2. r.wait \in Serves(type) \cap Awaiting
    BY DEF Awaiting
  <2>3. r.wait \in OwnedWaits \/ type \notin {"CLEAR_KEYS", "USE_ENTRY"} => r.acct \in Accounts
    OBVIOUS
  <2>4. r.wait \notin {"finalize", "disk"}
    BY <2>1
  <2> HIDE DEF r
  <2>5. op' = [op EXCEPT ![o] = r]
    BY DEF r
  <2> QED  BY <1>1, <2>2, <2>3, <2>4, <2>5, PostCore
<1>5. TypeOK'
  <2>1. op' \in [Ops -> [wait : Waits, acct : AccountOrNone, right : BOOLEAN]]
    BY <1>1, OpFacts
  <2>2. inbox' \in Seq(Message)
    BY OpFacts, QueueAppend DEF Message
  <2> QED  BY <2>1, <2>2 DEF TypeOK, diskVars
<1>6. BusyIsAccurate'
  <2>1. CASE wait \in PasswordWaits /\ ~busy /\ busy' = TRUE
    BY <1>2, <2>1, BusyClaimed
  <2>2. CASE wait \notin PasswordWaits /\ busy' = busy
    <3>1. busy' = (busy /\ op[o].wait \notin PasswordWaits)
      BY <1>3, <2>2 DEF TypeOK, PasswordWaits
    <3>2. op'[o].wait \notin PasswordWaits
      BY <1>2, <2>2
    <3> QED  BY <1>2, <3>1, <3>2, BusyFreed
  <2> QED  BY <2>1, <2>2
<1>7. Forgotten'
  BY DEF Forgotten
<1> QED  BY <1>4, <1>5, <1>6, <1>7

(* An operation asks something else than the worker.                       *)
LEMMA AwaitInv ==
    ASSUME NEW o \in Ops, NEW wait \in Preparing, NEW a \in AccountOrNone,
           Inv, op[o].wait \in Preparing \cup {"idle"}, o \in scene.ops,
           o \notin Asked \cup Handled \cup Answered,
           wait \in OwnedWaits => a \in Accounts,
           Await(o, wait, a), form' \in Ops \cup {None}, UNCHANGED scene
    PROVE  Inv'
<1> USE DEF Inv
<1> DEFINE r == [wait |-> wait, acct |-> a, right |-> FALSE]
<1>1. /\ op' = [op EXCEPT ![o] = r]
      /\ UNCHANGED <<unlocked, account, busy, left, bundle, lastId>>
      /\ UNCHANGED <<inbox, outbox, job, vaultKey, pendingLoginBaseKey>>
  BY DEF Await, diskVars, workerVars
<1>2. r \in [wait : Waits, acct : AccountOrNone, right : BOOLEAN]
  BY DEF Waits
<1>3. op' \in [Ops -> [wait : Waits, acct : AccountOrNone, right : BOOLEAN]]
      /\ op'[o] = r /\ \A q \in Ops : q # o => op'[q] = op[q]
  BY <1>1, <1>2, OpFacts
<1>4. TypeOK'
  BY <1>1, <1>3 DEF TypeOK
<1>5. wait \notin Awaiting /\ wait \notin {"finalize", "disk"} /\ wait \notin PasswordWaits
      /\ op[o].wait \notin PasswordWaits
  BY DEF Preparing, Awaiting, PasswordWaits
<1>6. Core'
  <2>1. Asked' = Asked /\ Handled' = Handled /\ Answered' = Answered
        /\ May("timeout")' = May("timeout") /\ GivenUp' = GivenUp
    BY <1>1 DEF Asked, Handled, Answered, May, GivenUp
  <2>2. \A q \in Asked \cup Handled \cup Answered : q \in Ops /\ op'[q] = op[q]
    BY <1>3, OpFacts
  <2>3. /\ \A i \in DOMAIN inbox : inbox[i].op \in Asked
        /\ \A i \in DOMAIN outbox : outbox[i].op \in Answered
    BY OpFacts
  <2> HIDE DEF Asked, Answered, Handled, GivenUp, May
  <2>4. Slots'
    <3>1. \A q \in Asked' \cup Answered' \cup Handled' : op'[q].wait \in Awaiting \cup {"idle"}
      BY <2>1, <2>2 DEF Core, Slots
    <3>2. \A q \in Ops : op'[q].wait # "idle" => q \in scene.ops
      BY <1>3 DEF Core, Slots
    <3> QED  BY <1>1, <2>1, <3>1, <3>2 DEF Core, Slots
  <2>5. Matching' /\ Stages'
    BY <1>1, <2>1, <2>2, <2>3 DEF Core, Matching, Stages
  <2>6. Owned'
    <3>1. \A q \in Ops : op'[q].wait \in OwnedWaits \/ q \in Handled => op'[q].acct \in Accounts
      BY <1>3 DEF Core, Owned
    <3> QED  BY <1>1, <2>1, <2>2, <2>3, <3>1 DEF Core, Owned
  <2>7. Secrets'
    <3>1. \A q \in Ops : op'[q].wait \in {"finalize", "disk"} => op'[q].right
      BY <1>3, <1>5 DEF Core, Secrets
    <3>2. \A q \in Handled : Own(q)' = Own(q)
      BY <2>2 DEF Own
    <3> HIDE DEF Own
    <3> QED  BY <1>1, <2>1, <2>2, <2>3, <3>1, <3>2 DEF Core, Secrets
  <2> QED  BY <2>4, <2>5, <2>6, <2>7 DEF Core
<1>7. BusyIsAccurate'
  <2>1. busy' = (busy /\ op[o].wait \notin PasswordWaits)
    BY <1>1, <1>5 DEF TypeOK
  <2>2. op'[o].wait \notin PasswordWaits
    BY <1>3, <1>5
  <2> QED  BY <1>3, <2>1, <2>2, BusyFreed
<1>8. Forgotten'
  BY <1>1 DEF Forgotten, Handled
<1> QED  BY <1>4, <1>6, <1>7, <1>8

LEMMA BeginInv ==
    ASSUME NEW o \in Ops, Inv, Begin(o), UNCHANGED scene
    PROVE  Inv'
<1>1. scene.accts \subseteq Accounts
  BY ConstAssumption DEF Inv, TypeOK, Scene, ConstAssumption
<1>2. /\ account \in AccountOrNone /\ bundle \in AccountOrNone /\ lastId \in AccountOrNone
      /\ busy \in BOOLEAN /\ form \in Ops \cup {None}
      /\ \A a \in AccountOrNone : a # None => a \in Accounts
  BY DEF Inv, TypeOK, AccountOrNone
<1>0. Unused(o)
  BY DEF Begin, Login, Unlock, UnlockViaPasscode, Lock, Logout, UseEntry, Submit
<1>u. op[o].wait = "idle" /\ o \in scene.ops /\ o \notin Asked \cup Handled \cup Answered
  BY <1>0 DEF Unused, Asked, Handled, Answered, Owners
<1>3. ASSUME NEW a \in AccountOrNone, NEW wait \in Preparing,
             wait \in OwnedWaits => a \in Accounts, Submit(o, wait, a)
      PROVE  Inv'
  <2>1. Await(o, wait, a) /\ form' \in Ops \cup {None}
    BY <1>3 DEF Submit
  <2> QED  BY <1>u, <1>3, <2>1, AwaitInv
<1>4. ASSUME NEW type \in {"CLEAR_KEYS", "USE_ENTRY"}, NEW wait \in {"lock", "logout", "use"},
             wait \in Serves(type), Post(o, type, wait, account, TRUE),
             UNCHANGED <<unlocked, account, busy, form, diskVars>>
      PROVE  Inv'
  <2>1. type \in Types \ {"FINALIZE_LOGIN"} /\ wait \in Awaiting
        /\ wait \notin PasswordWaits /\ wait \notin OwnedWaits
    BY DEF Types, Awaiting, PasswordWaits, OwnedWaits
  <2>2. busy' = busy /\ busy' \in BOOLEAN /\ form' \in Ops \cup {None}
    BY <1>2, <1>4
  <2>3. op[o].wait \in Preparing \cup {"idle"}
    BY <1>u
  <2> QED  BY <1>2, <1>u, <1>4, <2>1, <2>2, <2>3, PostInv DEF Post
<1>5. ASSUME NEW a \in scene.accts, Login(o, a)  PROVE Inv'
  <2>1. a \in Accounts /\ a \in AccountOrNone /\ "preLogin" \in Preparing
    BY <1>1 DEF AccountOrNone, Preparing
  <2> QED  BY <1>3, <1>5, <2>1 DEF Login
<1>6. CASE Unlock(o)
  <2>1. None \in AccountOrNone /\ "getBundle" \in Preparing /\ "getBundle" \notin OwnedWaits
    BY DEF AccountOrNone, Preparing, OwnedWaits
  <2> QED  BY <1>3, <1>6, <2>1 DEF Unlock
<1>7. CASE UnlockViaPasscode(o)
  <2>1. /\ None \in AccountOrNone
        /\ "getPasscodeId" \in Preparing /\ "getPasscodeId" \notin OwnedWaits
    BY DEF AccountOrNone, Preparing, OwnedWaits
  <2> QED  BY <1>3, <1>7, <2>1 DEF UnlockViaPasscode
<1>8. CASE Lock(o)
  <2>1. CASE busy
    <3> USE DEF Inv
    <3>1. UNCHANGED <<op, inbox, outbox, job, vaultKey, pendingLoginBaseKey, left, scene>>
          /\ UNCHANGED <<account, busy, form, bundle, lastId>> /\ unlocked' = FALSE
      BY <1>8, <2>1 DEF Lock, workerVars, diskVars
    <3>2. TypeOK'
      BY <3>1 DEF TypeOK
    <3>3. Ordered(outbox') /\ Answered' \subseteq Answered
      BY <3>1 DEF Inv, Core, Slots, Answered
    <3>4. Core'
      BY <3>1, <3>3, SameCore
    <3>5. BusyIsAccurate'
      BY <3>1 DEF BusyIsAccurate
    <3>6. Forgotten'
      BY <3>1 DEF Forgotten, Handled
    <3> QED  BY <3>2, <3>4, <3>5, <3>6
  <2>2. CASE ~busy
    <3>1. "lock" \in Serves("CLEAR_KEYS")
      BY DEF Serves
    <3> QED  BY <1>4, <1>8, <2>2, <3>1 DEF Lock
  <2> QED  BY <2>1, <2>2
<1>9. CASE Logout(o)
  <2>1. "logout" \in Serves("CLEAR_KEYS")
    BY DEF Serves
  <2> QED  BY <1>4, <1>9, <2>1 DEF Logout
<1>10. CASE UseEntry(o)
  <2>1. "use" \in Serves("USE_ENTRY")
    BY DEF Serves
  <2> QED  BY <1>4, <1>10, <2>1 DEF UseEntry
<1> QED  BY <1>5, <1>6, <1>7, <1>8, <1>9, <1>10 DEF Begin

(* A turn that the worker has no part in.                                  *)
LEMMA TurnInv ==
    ASSUME NEW o \in Ops, NEW w \in {"idle", "api", "disk"}, Inv,
           op' = [op EXCEPT ![o].wait = w],
           UNCHANGED <<inbox, job, vaultKey, pendingLoginBaseKey, scene>>,
           \/ outbox' = outbox /\ o \notin Asked \cup Handled \cup Answered
           \/ outbox' = outbox /\ w = "idle" /\ May("timeout")
           \/ outbox # <<>> /\ o = Head(outbox).op /\ outbox' = Tail(outbox),
           w # "idle" => op[o].wait # "idle" /\ op[o].acct \in Accounts,
           w = "disk" => op[o].right,
           account' \in AccountOrNone /\ bundle' \in AccountOrNone /\ lastId' \in AccountOrNone,
           unlocked' \in BOOLEAN, busy' \in BOOLEAN, form' \in Ops \cup {None},
           left' = left, BusyIsAccurate'
    PROVE  Inv'
<1> USE DEF Inv
<1>1. /\ Ordered(outbox') /\ Answered' \subseteq Answered /\ outbox' \in Seq(Answer)
      /\ \A i \in DOMAIN outbox' : \E j \in DOMAIN outbox : outbox'[i] = outbox[j]
      /\ \/ o \notin Asked \cup Handled \cup Answered'
         \/ w = "idle" /\ May("timeout")
  <2>1. CASE \/ outbox' = outbox /\ o \notin Asked \cup Handled \cup Answered
             \/ outbox' = outbox /\ w = "idle" /\ May("timeout")
    BY <2>1 DEF Core, Slots, Answered, TypeOK
  <2>2. CASE outbox # <<>> /\ o = Head(outbox).op /\ outbox' = Tail(outbox)
    <3>1. Ordered(outbox') /\ Answered' = Answered \ {o} /\ o \in Answered
      BY <2>2, TailOwners, OpFacts DEF Core, Slots, Answered
    <3>2. o \notin Asked \cup Handled
      BY <3>1 DEF Core, Slots
    <3>3. outbox' \in Seq(Answer)
      BY <2>2, QueueTail, OpFacts
    <3>4. \A i \in DOMAIN outbox' : \E j \in DOMAIN outbox : outbox'[i] = outbox[j]
      BY <2>2, QueueTail, OpFacts
    <3>5. o \notin Asked \cup Handled \cup Answered'
      BY <3>1, <3>2
    <3>6. Ordered(outbox') /\ Answered' \subseteq Answered
      BY <3>1
    <3> HIDE DEF Asked, Answered, Handled, Inv, Ordered
    <3> QED  BY <3>3, <3>4, <3>5, <3>6
  <2> QED  BY <2>1, <2>2
<1>2. \A i \in DOMAIN outbox' : outbox'[i].op \in Answered'
  BY DEF Answered, Owners
<1>3. w # "idle" => o \in scene.ops
  BY DEF Core, Slots
<1>4. Core'
  BY <1>1, <1>2, <1>3, TurnCore
<1>5. op' \in [Ops -> [wait : Waits, acct : AccountOrNone, right : BOOLEAN]]
  BY OpTyped DEF Waits
<1>6. TypeOK'
  BY <1>1, <1>5 DEF TypeOK
<1>7. Forgotten'
  BY DEF Forgotten, Handled
<1> QED  BY <1>4, <1>6, <1>7

LEMMA DoneInv ==
    ASSUME NEW o \in Ops, Inv,
           op' = [op EXCEPT ![o].wait = "idle"],
           UNCHANGED <<inbox, outbox, job, vaultKey, pendingLoginBaseKey, scene>>,
           o \notin Asked \cup Handled \cup Answered \/ May("timeout"),
           account' \in AccountOrNone /\ bundle' \in AccountOrNone /\ lastId' \in AccountOrNone,
           unlocked' \in BOOLEAN, busy' \in BOOLEAN, form' \in Ops \cup {None},
           left' = left, BusyIsAccurate'
    PROVE  Inv'
<1>1. PICK w \in {"idle", "api", "disk"} : w = "idle"
  OBVIOUS
<1>2. op' = [op EXCEPT ![o].wait = w]
  BY <1>1
<1>3. \/ outbox' = outbox /\ o \notin Asked \cup Handled \cup Answered
      \/ outbox' = outbox /\ w = "idle" /\ May("timeout")
  BY <1>1
<1>4. UNCHANGED <<inbox, job, vaultKey, pendingLoginBaseKey, scene>>
  OBVIOUS
<1> QED  BY <1>1, <1>2, <1>3, <1>4, TurnInv

LEMMA ReceiveInv ==
    ASSUME Inv, Receive, UNCHANGED scene
    PROVE  Inv'
<1> USE DEF Inv
<1> DEFINE m == Head(outbox)
<1>1. m \in Answer /\ m.op \in Ops /\ m.ok \in BOOLEAN /\ outbox # <<>>
  BY OpFacts, QueueTail DEF Receive, Answer
<1>2. CASE LogsOut(m.op)
  BY <1>2, TerminateInv DEF Receive
<1>3. CASE ~LogsOut(m.op)
  <2>1. /\ outbox' = Tail(outbox) /\ UNCHANGED <<inbox, job, vaultKey, pendingLoginBaseKey>>
        /\ UNCHANGED diskVars
    BY <1>3 DEF Receive
  <2>2. bundle' \in AccountOrNone /\ lastId' \in AccountOrNone
    BY <2>1 DEF TypeOK, diskVars
  <2>3. CASE Waiting(m.op)
    <3>1. Settle(m.op, m.ok) /\ op[m.op].wait # "logout"
      BY <1>3, <2>3 DEF Receive, LogsOut
    <3> HIDE DEF m
    <3>2. /\ account' \in AccountOrNone /\ unlocked' \in BOOLEAN /\ busy' \in BOOLEAN
          /\ form' \in Ops \cup {None} /\ left' = left /\ BusyIsAccurate'
      BY <1>1, <2>3, <3>1, SettleStep
    <3>3. PICK w \in {"idle", "api", "disk"} :
             /\ op' = [op EXCEPT ![m.op].wait = w]
             /\ w = "api" => op[m.op].wait = "login"
             /\ w = "disk" => op[m.op].wait = "finalize"
      BY <1>1, <2>3, <3>1, SettleStep
    <3>4. w # "idle" => op[m.op].wait # "idle" /\ op[m.op].acct \in Accounts
      BY <1>1, <3>3 DEF Core, Owned, OwnedWaits
    <3>5. w = "disk" => op[m.op].right
      BY <1>1, <3>3 DEF Core, Secrets
    <3> QED  BY <1>1, <2>1, <2>2, <3>2, <3>3, <3>4, <3>5, TurnInv DEF m
  <2>4. CASE ~Waiting(m.op)
    <3>1. UNCHANGED tabVars
      BY <1>3, <2>4 DEF Receive
    <3>2. Ordered(outbox') /\ Answered' \subseteq Answered /\ outbox' \in Seq(Answer)
      BY <1>1, <2>1, QueueTail, TailOwners, OpFacts DEF Core, Slots, Answered
    <3>3. \A i \in DOMAIN outbox' : \E j \in DOMAIN outbox : outbox'[i] = outbox[j]
      BY <1>1, <2>1, QueueTail, OpFacts
    <3>4. Core'
      BY <2>1, <3>1, <3>2, <3>3, SameCore DEF tabVars
    <3>5. TypeOK'
      BY <2>1, <3>1, <3>2 DEF TypeOK, tabVars, diskVars
    <3>6. BusyIsAccurate' /\ Forgotten'
      BY <2>1, <3>1 DEF BusyIsAccurate, Forgotten, Handled, tabVars
    <3> QED  BY <3>4, <3>5, <3>6
  <2> QED  BY <2>3, <2>4
<1> QED  BY <1>2, <1>3

LEMMA TimeOutInv ==
    ASSUME NEW o \in Ops, Inv, TimeOut(o), UNCHANGED scene
    PROVE  Inv'
<1> USE DEF Inv
<1>1. CASE LogsOut(o) /\ Terminate
  BY <1>1, TerminateInv DEF TimeOut
<1>2. CASE ~LogsOut(o) /\ Settle(o, FALSE) /\ UNCHANGED workerVars
  <2>1. /\ account' \in AccountOrNone /\ unlocked' \in BOOLEAN /\ busy' \in BOOLEAN
        /\ form' \in Ops \cup {None} /\ left' = left /\ BusyIsAccurate'
    BY <1>2, SettleStep DEF TimeOut, LogsOut
  <2>2. op' = [op EXCEPT ![o].wait = "idle"]
    BY <1>2, RejectOne DEF Settle, LogsOut, TimeOut
  <2>3. bundle' \in AccountOrNone /\ lastId' \in AccountOrNone /\ May("timeout")
    BY DEF TypeOK, diskVars, TimeOut
  <2>4. UNCHANGED <<inbox, outbox, job, vaultKey, pendingLoginBaseKey, scene>>
    BY <1>2 DEF workerVars
  <2> HIDE DEF Inv
  <2> QED  BY <2>1, <2>2, <2>3, <2>4, DoneInv
<1> QED  BY <1>1, <1>2 DEF TimeOut

(* An operation that has sent nothing comes to nothing.                    *)
LEMMA FailInv ==
    ASSUME NEW o \in Ops, Inv, op[o].wait \in Preparing, Fail(o), UNCHANGED scene
    PROVE  Inv'
<1> USE DEF Inv
<1>1. op[o].wait \notin Awaiting \cup {"idle", "logout"} /\ op[o].wait \notin PasswordWaits
  BY DEF Preparing, Awaiting, PasswordWaits
<1>2. o \notin Asked \cup Handled \cup Answered
  BY <1>1 DEF Core, Slots
<1>3. /\ op' = [op EXCEPT ![o].wait = "idle"] /\ left' = left
      /\ account' \in AccountOrNone /\ unlocked' \in BOOLEAN /\ form' \in Ops \cup {None}
  BY <1>1, RejectOne DEF Fail
<1>4. UNCHANGED <<busy, bundle, lastId>>
      /\ UNCHANGED <<inbox, outbox, job, vaultKey, pendingLoginBaseKey, scene>>
  BY DEF Fail, diskVars, workerVars
<1>5. op'[o].wait = "idle" /\ \A q \in Ops : q # o => op'[q] = op[q]
  BY <1>3, OpFacts
<1>6. BusyIsAccurate'
  <2>1. busy' = (busy /\ op[o].wait \notin PasswordWaits)
    BY <1>1, <1>4 DEF TypeOK
  <2> QED  BY <1>5, <2>1, BusyFreed DEF PasswordWaits
<1>7. busy' \in BOOLEAN /\ bundle' \in AccountOrNone /\ lastId' \in AccountOrNone
  BY <1>4 DEF TypeOK
<1> HIDE DEF Inv
<1> QED  BY <1>2, <1>3, <1>4, <1>6, <1>7, DoneInv

(* What an operation asked before the worker answers.                      *)
LEMMA PrepareInv ==
    ASSUME NEW o \in Ops, Inv, UNCHANGED scene,
           PreLoginAnswered(o) \/ BundleRead(o) \/ AccountIdRead(o) \/ PasscodeRead(o)
    PROVE  Inv'
<1>1. op[o].wait \in Preparing
  BY DEF PreLoginAnswered, BundleRead, AccountIdRead, PasscodeRead, Preparing
<1>2. o \in scene.ops /\ o \notin Asked \cup Handled \cup Answered
  BY <1>1 DEF Inv, Core, Slots, Preparing, Awaiting
<1>3. /\ bundle \in AccountOrNone /\ lastId \in AccountOrNone /\ form \in Ops \cup {None}
      /\ busy \in BOOLEAN /\ \A a \in AccountOrNone : a # None => a \in Accounts
      /\ \A a \in Accounts : a \in AccountOrNone
      /\ op[o].wait \in {"preLogin", "getPasscode"} => op[o].acct \in Accounts
  BY DEF Inv, TypeOK, AccountOrNone, Core, Owned, OwnedWaits
<1>4. CASE Fail(o)
  BY <1>1, <1>4, FailInv
<1>5. ASSUME NEW type \in {"LOGIN", "UNLOCK", "UNLOCK_VIA_PASSCODE"},
             NEW wait \in {"login", "unlock", "passcode"}, wait \in Serves(type),
             NEW a \in Accounts, NEW right \in BOOLEAN, Post(o, type, wait, a, right),
             UNCHANGED <<unlocked, account, form, diskVars>>,
             \/ wait \in PasswordWaits /\ ~busy /\ busy' = TRUE
             \/ wait \notin PasswordWaits /\ busy' = busy
      PROVE  Inv'
  <2>1. type \in Types \ {"FINALIZE_LOGIN"} /\ wait \in Awaiting /\ a \in AccountOrNone
    BY <1>3 DEF Types, Awaiting
  <2>2. op[o].wait \in Preparing \cup {"idle"}
    BY <1>1
  <2>3. form' \in Ops \cup {None} /\ busy' \in BOOLEAN
    BY <1>3, <1>5
  <2> QED  BY <1>2, <1>5, <2>1, <2>2, <2>3, PostInv DEF Post
<1>6. ASSUME NEW type \in {"LOGIN", "UNLOCK"}, NEW wait \in {"login", "unlock"},
             wait \in Serves(type), NEW a \in Accounts, AskWorker(o, type, wait, a), ~Fail(o)
      PROVE  Inv'
  <2>1. ~busy /\ busy' = TRUE /\ wait \in PasswordWaits
    BY <1>6 DEF AskWorker, ClaimWorker, PasswordWaits
  <2>2. PICK right \in BOOLEAN : Post(o, type, wait, a, right)
    BY <1>6 DEF AskWorker
  <2>3. UNCHANGED <<unlocked, account, form, diskVars>>
    BY <1>6 DEF AskWorker
  <2> QED  BY <1>5, <1>6, <2>1, <2>2, <2>3
<1>7. ASSUME NEW wait \in Preparing, NEW a \in AccountOrNone,
             wait \in OwnedWaits => a \in Accounts, Await(o, wait, a), UNCHANGED form
      PROVE  Inv'
  <2>1. op[o].wait \in Preparing \cup {"idle"} /\ form' \in Ops \cup {None}
    BY <1>1, <1>3, <1>7
  <2> QED  BY <1>2, <1>7, <2>1, AwaitInv
<1>8. CASE PreLoginAnswered(o) /\ ~Fail(o)
  <2>1. AskWorker(o, "LOGIN", "login", op[o].acct) /\ op[o].acct \in Accounts
        /\ "login" \in Serves("LOGIN")
    BY <1>3, <1>8 DEF PreLoginAnswered, Serves
  <2> QED  BY <1>6, <1>8, <2>1
<1>9. CASE BundleRead(o) /\ ~Fail(o)
  <2>1. CASE bundle # None /\ AskWorker(o, "UNLOCK", "unlock", bundle)
    <3>1. bundle \in Accounts /\ "unlock" \in Serves("UNLOCK")
      BY <1>3, <2>1 DEF Serves
    <3> QED  BY <1>6, <1>9, <2>1, <3>1
  <2>2. CASE Await(o, "getAccountId", None) /\ UNCHANGED form
    <3>1. "getAccountId" \in Preparing /\ "getAccountId" \notin OwnedWaits
          /\ None \in AccountOrNone
      BY DEF Preparing, OwnedWaits, AccountOrNone
    <3> QED  BY <1>7, <2>2, <3>1
  <2> QED  BY <1>9, <2>1, <2>2 DEF BundleRead
<1>10. CASE AccountIdRead(o) /\ ~Fail(o)
  <2>1. lastId \in Accounts /\ "preLogin" \in Preparing /\ "getPasscode" \in Preparing
    BY <1>3, <1>10 DEF AccountIdRead, Preparing
  <2>2. CASE Await(o, "preLogin", lastId) /\ UNCHANGED form
    BY <1>3, <1>7, <2>1, <2>2
  <2>3. CASE Await(o, "getPasscode", lastId) /\ UNCHANGED form
    BY <1>3, <1>7, <2>1, <2>3
  <2> QED  BY <1>10, <2>2, <2>3 DEF AccountIdRead
<1>11. CASE PasscodeRead(o) /\ ~Fail(o)
  <2>1. PICK right \in BOOLEAN : Post(o, "UNLOCK_VIA_PASSCODE", "passcode", op[o].acct, right)
    BY <1>11 DEF PasscodeRead
  <2>2. UNCHANGED <<unlocked, account, busy, form, diskVars>> /\ op[o].acct \in Accounts
    BY <1>3, <1>11 DEF PasscodeRead
  <2>3. "passcode" \in Serves("UNLOCK_VIA_PASSCODE") /\ "passcode" \notin PasswordWaits
    BY DEF Serves, PasswordWaits
  <2> QED  BY <1>5, <2>1, <2>2, <2>3
<1> QED  BY <1>4, <1>8, <1>9, <1>10, <1>11

LEMMA LoginAnsweredInv ==
    ASSUME NEW o \in Ops, Inv, LoginAnswered(o), UNCHANGED scene
    PROVE  Inv'
<1> USE DEF Inv
<1>1. op[o].wait = "api" /\ o \in scene.ops /\ op[o].acct \in Accounts
  BY DEF LoginAnswered, Core, Slots, Owned, OwnedWaits
<1>2. o \notin Asked \cup Handled \cup Answered
  BY <1>1 DEF Core, Slots, Awaiting
<1>3. UNCHANGED <<busy, bundle, lastId, outbox, job, vaultKey, pendingLoginBaseKey>>
  BY DEF LoginAnswered, diskVars
<1>4. busy' = (busy /\ op[o].wait \notin PasswordWaits)
  BY <1>1, <1>3 DEF PasswordWaits, TypeOK
<1>5. CASE /\ op[o].right
           /\ inbox' = Append(inbox, [op |-> o, type |-> "FINALIZE_LOGIN"])
           /\ op' = [op EXCEPT ![o].wait = "finalize"]
           /\ UNCHANGED <<unlocked, account, form, left>>
  <2> DEFINE r == [wait |-> "finalize", acct |-> op[o].acct, right |-> op[o].right]
  <2>1. r \in [wait : Waits, acct : AccountOrNone, right : BOOLEAN]
    BY OpFacts DEF Waits, Awaiting
  <2>2. op' = [op EXCEPT ![o] = r]
    <3>1. [op[o] EXCEPT !.wait = "finalize"] = r
      BY OpFacts
    <3> HIDE DEF r
    <3> QED  BY <1>5, <3>1
  <2>3. /\ r.wait = "finalize" /\ r.acct \in Accounts /\ r.right
        /\ "finalize" \in Serves("FINALIZE_LOGIN") \cap Awaiting /\ "FINALIZE_LOGIN" \in Types
    BY <1>1, <1>5 DEF Serves, Awaiting, Types
  <2> HIDE DEF r
  <2>4. op' \in [Ops -> [wait : Waits, acct : AccountOrNone, right : BOOLEAN]]
        /\ op'[o] = r /\ \A q \in Ops : q # o => op'[q] = op[q]
    BY <2>1, <2>2, OpFacts
  <2>5. Core'
    <3>1. UNCHANGED <<outbox, job, pendingLoginBaseKey, scene>>
      BY <1>3
    <3>2. r.wait \in Serves("FINALIZE_LOGIN") \cap Awaiting
      BY <2>3
    <3> QED  BY <1>1, <1>2, <1>5, <2>1, <2>2, <2>3, <3>1, <3>2, PostCore
  <2>6. inbox' \in Seq(Message)
    BY <1>5, <2>3, OpFacts, QueueAppend DEF Message
  <2>7. TypeOK'
    BY <1>3, <1>5, <2>4, <2>6 DEF TypeOK
  <2>8. op'[o].wait \notin PasswordWaits
    BY <2>3, <2>4 DEF PasswordWaits
  <2>9. BusyIsAccurate'
    BY <1>4, <2>4, <2>8, BusyFreed
  <2>10. Forgotten'
    <3>1. \A i \in DOMAIN inbox' : inbox'[i].type = "FINALIZE_LOGIN"
            \/ (i \in DOMAIN inbox /\ inbox'[i] = inbox[i])
      BY <1>5, <2>3, OpFacts, QueueAppend DEF Message
    <3> QED  BY <1>3, <1>5, <3>1 DEF Forgotten, Handled
  <2> QED  BY <2>5, <2>7, <2>9, <2>10
<1>6. CASE Reject({o}) /\ UNCHANGED inbox
  <2>1. /\ op' = [op EXCEPT ![o].wait = "idle"] /\ left' = left
        /\ account' \in AccountOrNone /\ unlocked' \in BOOLEAN /\ form' \in Ops \cup {None}
    BY <1>1, <1>6, RejectOne
  <2>2. op'[o].wait = "idle" /\ \A q \in Ops : q # o => op'[q] = op[q]
    BY <2>1, OpFacts
  <2>3. BusyIsAccurate'
    BY <1>4, <2>2, BusyFreed DEF PasswordWaits
  <2>4. busy' \in BOOLEAN /\ bundle' \in AccountOrNone /\ lastId' \in AccountOrNone
    BY <1>3 DEF TypeOK
  <2>5. UNCHANGED <<inbox, outbox, job, vaultKey, pendingLoginBaseKey, scene>>
    BY <1>3, <1>6
  <2> HIDE DEF Inv
  <2> QED  BY <1>2, <2>1, <2>3, <2>4, <2>5, DoneInv
<1> QED  BY <1>5, <1>6 DEF LoginAnswered

LEMMA BundleSavedInv ==
    ASSUME NEW o \in Ops, Inv, BundleSaved(o), UNCHANGED scene
    PROVE  Inv'
<1> USE DEF Inv
<1>1. op[o].wait = "disk" /\ o \in scene.ops /\ op[o].acct \in Accounts
  BY DEF BundleSaved, Core, Slots, Owned, OwnedWaits
<1>2. o \notin Asked \cup Handled \cup Answered
  BY <1>1 DEF Core, Slots, Awaiting
<1>3. UNCHANGED <<busy, inbox, outbox, job, vaultKey, pendingLoginBaseKey>>
  BY DEF BundleSaved, workerVars
<1>4. busy' = (busy /\ op[o].wait \notin PasswordWaits)
  BY <1>1, <1>3 DEF PasswordWaits, TypeOK
<1>5. /\ op' = [op EXCEPT ![o].wait = "idle"] /\ left' = left
      /\ account' \in AccountOrNone /\ unlocked' \in BOOLEAN /\ form' \in Ops \cup {None}
      /\ bundle' \in AccountOrNone /\ lastId' \in AccountOrNone
  <2>1. CASE Reject({o}) /\ bundle' \in {bundle, op[o].acct} /\ UNCHANGED lastId
    BY <1>1, <2>1, RejectOne DEF TypeOK, AccountOrNone
  <2>2. CASE ~Reject({o})
    BY <1>1, <2>2 DEF BundleSaved, TypeOK, AccountOrNone
  <2>3. CASE Reject({o}) /\ ~(bundle' \in {bundle, op[o].acct} /\ UNCHANGED lastId)
    BY <1>1, <2>3 DEF BundleSaved, TypeOK, AccountOrNone
  <2> QED  BY <2>1, <2>2, <2>3
<1>6. op'[o].wait = "idle" /\ \A q \in Ops : q # o => op'[q] = op[q]
  BY <1>5, OpFacts
<1>7. BusyIsAccurate'
  BY <1>4, <1>6, BusyFreed DEF PasswordWaits
<1>8. busy' \in BOOLEAN
  BY <1>3 DEF TypeOK
<1>9. UNCHANGED <<inbox, outbox, job, vaultKey, pendingLoginBaseKey, scene>>
  BY <1>3
<1> HIDE DEF Inv
<1> QED  BY <1>2, <1>5, <1>7, <1>8, <1>9, DoneInv

LEMMA LoadInv ==
    ASSUME Inv, Load, UNCHANGED scene
    PROVE  Inv'
<1> USE DEF Inv
<1>1. \A o \in Ops : op'[o].wait = "idle"
  BY DEF Load, Idle
<1>2. scene.accts \subseteq Accounts
  BY ConstAssumption DEF TypeOK, Scene, ConstAssumption
<1>3. TypeOK'
  <2>1. op' \in [Ops -> [wait : Waits, acct : AccountOrNone, right : BOOLEAN]]
    BY DEF Load, Idle, Waits, AccountOrNone
  <2>2. account' \in AccountOrNone
    BY <1>2 DEF Load, AccountOrNone, TypeOK
  <2>3. /\ inbox' \in Seq(Message) /\ outbox' \in Seq(Answer)
        /\ job' \in [Ops -> Job \cup {None}] /\ \A o \in Ops : job'[o] = None
        /\ vaultKey' \in AccountOrNone /\ pendingLoginBaseKey' \in BaseKey \cup {None}
    BY NoQueue DEF Load, EndWorker, AccountOrNone
  <2> QED  BY <2>1, <2>2, <2>3 DEF Load, TypeOK, diskVars
<1>4. Core'
  BY <1>1, GoneCore DEF Load, OwnedWaits
<1>5. BusyIsAccurate'
  BY <1>1, NobodyBusy DEF Load, PasswordWaits
<1>6. Forgotten'
  BY DEF Forgotten, Load
<1> QED  BY <1>3, <1>4, <1>5, <1>6

(* Nothing that the worker or an operation knows of changes.               *)
LEMMA OutsideInv ==
    ASSUME Inv, UNCHANGED <<op, busy, left, scene>>, UNCHANGED workerVars,
           account' \in AccountOrNone, unlocked' \in BOOLEAN, form' \in Ops \cup {None},
           bundle' \in AccountOrNone, lastId' \in AccountOrNone
    PROVE  Inv'
<1> USE DEF Inv
<1>1. UNCHANGED <<inbox, outbox, job, vaultKey, pendingLoginBaseKey>>
  BY DEF workerVars
<1>2. Ordered(outbox') /\ Answered' \subseteq Answered
  BY <1>1 DEF Core, Slots, Answered
<1>3. Core'
  BY <1>1, <1>2, SameCore
<1>4. TypeOK'
  BY <1>1 DEF TypeOK
<1>5. BusyIsAccurate' /\ Forgotten'
  BY <1>1 DEF BusyIsAccurate, Forgotten, Handled
<1> QED  BY <1>3, <1>4, <1>5

LEMMA TailOfInbox ==
    ASSUME TypeOK, inbox' = inbox \/ (inbox # <<>> /\ inbox' = Tail(inbox))
    PROVE  /\ inbox' \in Seq(Message)
           /\ \A i \in DOMAIN inbox' : \E j \in DOMAIN inbox : inbox'[i] = inbox[j]
<1>1. inbox \in Seq(Message)
  BY OpFacts
<1>2. CASE inbox' = inbox
  BY <1>1, <1>2
<1>3. CASE inbox # <<>> /\ inbox' = Tail(inbox)
  BY <1>1, <1>3, QueueTail
<1> QED  BY <1>2, <1>3

(* A step of the worker leaves the tab alone.                              *)
LEMMA ReplyInv ==
    ASSUME NEW o \in Ops, NEW ok \in BOOLEAN, Inv, Reply(o, ok),
           UNCHANGED tabVars, UNCHANGED diskVars, UNCHANGED scene,
           \/ o \in Handled /\ inbox' = inbox
           \/ inbox # <<>> /\ o = Head(inbox).op /\ inbox' = Tail(inbox),
           pendingLoginBaseKey' \in {pendingLoginBaseKey, None},
           vaultKey' \in AccountOrNone,
           left => vaultKey' = None,
           ~May("timeout") /\ ok /\ op[o].wait \in {"unlock", "passcode"} => op[o].right
    PROVE  Inv'
<1>1. /\ UNCHANGED <<unlocked, account, busy, form, op, left, bundle, lastId, scene>>
      /\ TypeOK /\ Core /\ BusyIsAccurate /\ Forgotten
  BY DEF tabVars, diskVars, Inv
<1>2. Core'
  BY <1>1, ReplyCore
<1>3. /\ inbox' \in Seq(Message)
      /\ \A i \in DOMAIN inbox' : \E j \in DOMAIN inbox : inbox'[i] = inbox[j]
  BY <1>1, TailOfInbox
<1>4. outbox' \in Seq(Answer)
  BY <1>1, QueueAppend, OpFacts DEF Reply, Answer
<1>5. /\ job' \in [Ops -> Job \cup {None}]
      /\ \A q \in Ops : job'[q] # None /\ job'[q].at = "unwrap" => job'[q].base # None
      /\ Handled' \subseteq Handled
  <2>1. /\ job \in [Ops -> Job \cup {None}]
        /\ \A q \in Ops : job[q] # None /\ job[q].at = "unwrap" => job[q].base # None
    BY <1>1 DEF TypeOK
  <2>2. job' = [job EXCEPT ![o] = None]
    BY DEF Reply
  <2>3. job'[o] = None /\ \A q \in Ops : q # o => job'[q] = job[q]
    BY <2>1, <2>2
  <2>4. job' \in [Ops -> Job \cup {None}]
    BY <2>1, <2>2
  <2>5. \A q \in Ops : job'[q] # None /\ job'[q].at = "unwrap" => job'[q].base # None
    BY <2>1, <2>3
  <2>6. Handled' \subseteq Handled
    BY <2>3 DEF Handled
  <2> QED  BY <2>4, <2>5, <2>6
<1>6. TypeOK'
  BY <1>1, <1>3, <1>4, <1>5 DEF TypeOK
<1>7. BusyIsAccurate'
  BY <1>1 DEF BusyIsAccurate
<1>8. Forgotten'
  BY <1>1, <1>3, <1>5 DEF Forgotten
<1> QED  BY <1>2, <1>6, <1>7, <1>8 DEF Inv

LEMMA JobInv ==
    ASSUME NEW o \in Ops, NEW r \in Job, Inv,
           job' = [job EXCEPT ![o] = r], UNCHANGED outbox,
           UNCHANGED tabVars, UNCHANGED diskVars, UNCHANGED scene,
           \/ o \in Handled /\ inbox' = inbox /\ r.type = job[o].type
           \/ /\ inbox # <<>> /\ o = Head(inbox).op /\ inbox' = Tail(inbox)
              /\ r.type = Head(inbox).type,
           r.type \notin {"CLEAR_KEYS", "USE_ENTRY"},
           r.at \in {"derive", "prove"} => r.type \in {"LOGIN", "UNLOCK"},
           r.at = "unwrap" => r.type # "LOGIN" /\ r.base # None,
           \/ pendingLoginBaseKey' \in {pendingLoginBaseKey, None}
           \/ o \in Handled /\ job[o].at = "derive" /\ pendingLoginBaseKey' = Own(o),
           ~May("timeout") =>
              /\ r.at = "prove" => pendingLoginBaseKey' \in {None, Own(o)}
              /\ r.at = "unwrap" /\ r.type # "FINALIZE_LOGIN" => r.base = Own(o),
           vaultKey' \in {vaultKey, None}, ~left
    PROVE  Inv'
<1>1. /\ UNCHANGED <<unlocked, account, busy, form, op, left, bundle, lastId, scene>>
      /\ TypeOK /\ Core /\ BusyIsAccurate /\ Forgotten
  BY DEF tabVars, diskVars, Inv
<1>2. Core'
  <2>1. UNCHANGED <<op, scene, outbox>>
    BY <1>1
  <2> QED  BY <1>1, <2>1, JobCore
<1>3. inbox' \in Seq(Message)
  BY <1>1, TailOfInbox
<1>4. Own(o) \in BaseKey \/ o \notin Handled
  BY <1>1, OpFacts DEF Own, BaseKey, Core, Owned
<1>5. pendingLoginBaseKey' \in BaseKey \cup {None}
  BY <1>1, <1>4 DEF TypeOK
<1>6. /\ job' \in [Ops -> Job \cup {None}]
      /\ \A q \in Ops : job'[q] # None /\ job'[q].at = "unwrap" => job'[q].base # None
  <2>1. /\ job \in [Ops -> Job \cup {None}]
        /\ \A q \in Ops : job[q] # None /\ job[q].at = "unwrap" => job[q].base # None
    BY <1>1 DEF TypeOK
  <2>2. job'[o] = r /\ \A q \in Ops : q # o => job'[q] = job[q]
    BY <2>1
  <2>3. job' \in [Ops -> Job \cup {None}]
    BY <2>1
  <2>4. \A q \in Ops : job'[q] # None /\ job'[q].at = "unwrap" => job'[q].base # None
    BY <2>1, <2>2
  <2> QED  BY <2>3, <2>4
<1>7. TypeOK'
  BY <1>1, <1>3, <1>5, <1>6 DEF TypeOK, AccountOrNone
<1>8. BusyIsAccurate'
  BY <1>1 DEF BusyIsAccurate
<1>9. Forgotten'
  BY <1>1 DEF Forgotten
<1> QED  BY <1>2, <1>7, <1>8, <1>9 DEF Inv

LEMMA TakeInv ==
    ASSUME Inv, Take, UNCHANGED scene
    PROVE  Inv'
<1> DEFINE o == Head(inbox).op
           type == Head(inbox).type
<1>1. TypeOK /\ Core /\ BusyIsAccurate /\ Forgotten
  BY DEF Inv
<1>2. /\ inbox # <<>> /\ inbox' = Tail(inbox) /\ o \in Ops /\ type \in Types
      /\ 1 \in DOMAIN inbox /\ Head(inbox) = inbox[1] /\ o \in Asked
  BY <1>1, QueueTail, OpFacts DEF Take
<1>3. UNCHANGED tabVars /\ UNCHANGED diskVars
  BY DEF Take
<1>4. op[o].wait \in Serves(type) \cup GivenUp
  BY <1>1, <1>2 DEF Core, Matching
<1>5. type \notin {"CLEAR_KEYS", "USE_ENTRY"} => op[o].acct \in Accounts
  BY <1>1, <1>2 DEF Core, Owned
<1>6. left => type = "FINALIZE_LOGIN" /\ vaultKey = None /\ pendingLoginBaseKey = None
  BY <1>1, <1>2 DEF Forgotten
<1>7. /\ vaultKey \in AccountOrNone /\ None \in AccountOrNone
      /\ pendingLoginBaseKey \in BaseKey \cup {None}
  BY <1>1 DEF TypeOK, AccountOrNone
<1>8. ~May("timeout") => GivenUp = {}
  BY DEF GivenUp
<1>9. CASE /\ type \in {"LOGIN", "UNLOCK"}
           /\ pendingLoginBaseKey' = None
           /\ job' = [job EXCEPT ![o] = [type |-> type, at |-> "derive", base |-> None]]
           /\ UNCHANGED <<outbox, vaultKey>>
  <2> DEFINE r == [type |-> type, at |-> "derive", base |-> None]
  <2>1. r \in Job /\ r.type = type /\ r.at = "derive"
    BY <1>2 DEF Job
  <2>2. job' = [job EXCEPT ![o] = r] /\ UNCHANGED outbox
    BY <1>9
  <2>3. ~left /\ vaultKey' \in {vaultKey, None}
    BY <1>6, <1>9
  <2>4. pendingLoginBaseKey' \in {pendingLoginBaseKey, None}
    BY <1>9
  <2> HIDE DEF r, o, type
  <2>5. inbox # <<>> /\ o = Head(inbox).op /\ inbox' = Tail(inbox) /\ r.type = Head(inbox).type
    BY <1>2, <2>1 DEF o, type
  <2>6. /\ r.type \notin {"CLEAR_KEYS", "USE_ENTRY"}
        /\ r.type \in {"LOGIN", "UNLOCK"}
        /\ r.at # "unwrap" /\ r.at # "prove"
    BY <1>9, <2>1
  <2> QED  BY <1>2, <1>3, <2>1, <2>2, <2>3, <2>4, <2>5, <2>6, JobInv
<1>10. CASE type = "FINALIZE_LOGIN" /\ Finalize(o, type) /\ UNCHANGED pendingLoginBaseKey
  <2>1. CASE pendingLoginBaseKey = None
    <3>1. Reply(o, FALSE) /\ vaultKey' = vaultKey /\ pendingLoginBaseKey' = pendingLoginBaseKey
      BY <1>10, <2>1 DEF Finalize
    <3> HIDE DEF o, type
    <3>2. inbox # <<>> /\ o = Head(inbox).op /\ inbox' = Tail(inbox)
      BY <1>2 DEF o
    <3>3. vaultKey' \in AccountOrNone /\ (left => vaultKey' = None)
      BY <1>6, <1>7, <3>1
    <3>4. pendingLoginBaseKey' \in {pendingLoginBaseKey, None} /\ FALSE \in BOOLEAN
      BY <3>1
    <3> QED  BY <1>2, <1>3, <3>1, <3>2, <3>3, <3>4, ReplyInv
  <2>2. CASE pendingLoginBaseKey # None
    <3> DEFINE r == [type |-> type, at |-> "unwrap", base |-> pendingLoginBaseKey]
    <3>1. r \in Job /\ r.type = type /\ r.at = "unwrap" /\ r.base # None
      BY <1>2, <1>7, <2>2 DEF Job
    <3>2. job' = [job EXCEPT ![o] = r] /\ UNCHANGED outbox
      BY <1>10, <2>2 DEF Finalize
    <3>3. ~left /\ vaultKey' \in {vaultKey, None}
      BY <1>6, <1>10, <2>2 DEF Finalize
    <3>4. pendingLoginBaseKey' \in {pendingLoginBaseKey, None}
      BY <1>10
    <3> HIDE DEF r, o, type
    <3>5. inbox # <<>> /\ o = Head(inbox).op /\ inbox' = Tail(inbox) /\ r.type = Head(inbox).type
      BY <1>2, <3>1 DEF o, type
    <3>6. r.type = "FINALIZE_LOGIN"
      BY <1>10, <3>1
    <3> QED  BY <1>2, <1>3, <3>1, <3>2, <3>3, <3>4, <3>5, <3>6, JobInv
  <2> QED  BY <2>1, <2>2
<1>11. CASE /\ type = "UNLOCK_VIA_PASSCODE"
            /\ vaultKey' = None
            /\ job' = [job EXCEPT ![o] =
                         [type |-> type, at |-> "unwrap",
                          base |-> [acct |-> op[o].acct, right |-> op[o].right]]]
            /\ UNCHANGED <<outbox, pendingLoginBaseKey>>
  <2> DEFINE r == [type |-> type, at |-> "unwrap", base |-> Own(o)]
  <2>1. Own(o) \in BaseKey /\ Own(o) # None
    BY <1>1, <1>2, <1>5, <1>11, OpFacts, ConstAssumption DEF Own, BaseKey, ConstAssumption
  <2>2. r \in Job /\ r.type = type /\ r.at = "unwrap" /\ r.base = Own(o)
    BY <1>2, <2>1 DEF Job
  <2>3. job' = [job EXCEPT ![o] = r] /\ UNCHANGED outbox
    BY <1>11 DEF Own
  <2>4. ~left /\ vaultKey' \in {vaultKey, None}
    BY <1>6, <1>11
  <2>5. pendingLoginBaseKey' \in {pendingLoginBaseKey, None}
    BY <1>11
  <2> HIDE DEF r, o, type
  <2>6. inbox # <<>> /\ o = Head(inbox).op /\ inbox' = Tail(inbox) /\ r.type = Head(inbox).type
    BY <1>2, <2>2 DEF o, type
  <2>7. r.type = "UNLOCK_VIA_PASSCODE"
    BY <1>11, <2>2
  <2> QED  BY <1>2, <1>3, <2>1, <2>2, <2>3, <2>4, <2>5, <2>6, <2>7, JobInv
<1>12. CASE type = "CLEAR_KEYS" /\ ClearKeys /\ Reply(o, TRUE)
  <2> HIDE DEF o, type
  <2>1. inbox # <<>> /\ o = Head(inbox).op /\ inbox' = Tail(inbox)
    BY <1>2 DEF o
  <2>2. /\ vaultKey' \in AccountOrNone /\ (left => vaultKey' = None)
        /\ pendingLoginBaseKey' \in {pendingLoginBaseKey, None}
    BY <1>7, <1>12 DEF ClearKeys
  <2>3. ~May("timeout") => op[o].wait \notin {"unlock", "passcode"}
    BY <1>4, <1>8, <1>12 DEF Serves
  <2> QED  BY <1>2, <1>3, <1>12, <2>1, <2>2, <2>3, ReplyInv
<1>13. CASE /\ type = "USE_ENTRY" /\ Reply(o, vaultKey # None)
            /\ UNCHANGED <<vaultKey, pendingLoginBaseKey>>
  <2> HIDE DEF o, type
  <2>1. inbox # <<>> /\ o = Head(inbox).op /\ inbox' = Tail(inbox)
    BY <1>2 DEF o
  <2>2. /\ vaultKey' \in AccountOrNone /\ (left => vaultKey' = None)
        /\ pendingLoginBaseKey' \in {pendingLoginBaseKey, None}
    BY <1>6, <1>7, <1>13
  <2>3. ~May("timeout") => op[o].wait \notin {"unlock", "passcode"}
    BY <1>4, <1>8, <1>13 DEF Serves
  <2>4. PICK ok \in BOOLEAN : ok = (vaultKey # None)
    OBVIOUS
  <2>5. Reply(o, ok)
    BY <1>13, <2>4
  <2> QED  BY <1>2, <1>3, <2>1, <2>2, <2>3, <2>5, ReplyInv
<1> QED  BY <1>9, <1>10, <1>11, <1>12, <1>13 DEF Take

LEMMA DeriveInv ==
    ASSUME NEW o \in Ops, Inv, Derive(o), UNCHANGED scene
    PROVE  Inv'
<1>1. TypeOK /\ Core /\ BusyIsAccurate /\ Forgotten
  BY DEF Inv
<1>2. o \in Handled /\ job[o] \in Job /\ job[o] # None /\ job[o].at = "derive"
  BY <1>1 DEF Derive, TypeOK, Handled
<1>3. ~left /\ job[o].type \in {"LOGIN", "UNLOCK"}
  BY <1>1, <1>2 DEF Forgotten, Core, Stages
<1>4. /\ UNCHANGED tabVars /\ UNCHANGED diskVars /\ inbox' = inbox /\ vaultKey' = vaultKey
      /\ vaultKey \in AccountOrNone
  BY <1>1 DEF Derive, TypeOK
<1>5. CASE /\ pendingLoginBaseKey' = [acct |-> op[o].acct, right |-> op[o].right]
           /\ job' = [job EXCEPT ![o].at = "prove"]
           /\ UNCHANGED outbox
  <2> DEFINE r == [job[o] EXCEPT !.at = "prove"]
  <2>1. r \in Job /\ r.type = job[o].type /\ r.at = "prove"
    BY <1>2 DEF Job
  <2>2. job' = [job EXCEPT ![o] = r] /\ UNCHANGED outbox
    BY <1>5
  <2>3. pendingLoginBaseKey' = Own(o)
    BY <1>5 DEF Own
  <2> HIDE DEF r
  <2> QED  BY <1>2, <1>3, <1>4, <2>1, <2>2, <2>3, JobInv
<1>6. CASE pendingLoginBaseKey' = None /\ Reply(o, FALSE)
  <2>1. pendingLoginBaseKey' \in {pendingLoginBaseKey, None} /\ FALSE \in BOOLEAN
    BY <1>6
  <2>2. vaultKey' \in AccountOrNone
    BY <1>4
  <2> QED  BY <1>2, <1>3, <1>4, <1>6, <2>1, <2>2, ReplyInv
<1> QED  BY <1>5, <1>6 DEF Derive

LEMMA ProveInv ==
    ASSUME NEW o \in Ops, Inv, Prove(o), UNCHANGED scene
    PROVE  Inv'
<1>1. TypeOK /\ Core /\ BusyIsAccurate /\ Forgotten
  BY DEF Inv
<1>2. o \in Handled /\ job[o] \in Job /\ job[o] # None /\ job[o].at = "prove"
  BY <1>1 DEF Prove, TypeOK, Handled
<1>3. ~left /\ job[o].type \in {"LOGIN", "UNLOCK"}
  BY <1>1, <1>2 DEF Forgotten, Core, Stages
<1>4. /\ UNCHANGED tabVars /\ UNCHANGED diskVars /\ inbox' = inbox
      /\ pendingLoginBaseKey' = pendingLoginBaseKey
      /\ vaultKey \in AccountOrNone /\ pendingLoginBaseKey \in BaseKey \cup {None}
  BY <1>1 DEF Prove, TypeOK
<1>5. ~May("timeout") => pendingLoginBaseKey \in {None, Own(o)}
  BY <1>1, <1>2 DEF Core, Secrets
<1>6. ~May("timeout") => op[o].wait \in Serves(job[o].type)
  BY <1>1, <1>2 DEF Core, Matching, GivenUp
<1>7. pendingLoginBaseKey' \in {pendingLoginBaseKey, None} /\ TRUE \in BOOLEAN /\ FALSE \in BOOLEAN
  BY <1>4
<1>8. CASE job[o].type = "UNLOCK" /\ pendingLoginBaseKey # None
  <2> DEFINE r == [type |-> "UNLOCK", at |-> "unwrap", base |-> pendingLoginBaseKey]
  <2>1. r \in Job /\ r.type = "UNLOCK" /\ r.at = "unwrap" /\ r.base = pendingLoginBaseKey
    BY <1>4, <1>8 DEF Job, Types
  <2>2. job' = [job EXCEPT ![o] = r] /\ UNCHANGED outbox /\ vaultKey' \in {vaultKey, None}
    BY <1>8 DEF Prove, Finalize
  <2> HIDE DEF r
  <2>3. ~May("timeout") => r.base = Own(o)
    BY <1>5, <1>8, <2>1
  <2>4. r.type = job[o].type /\ r.base # None
    BY <1>8, <2>1
  <2> QED  BY <1>2, <1>3, <1>4, <1>7, <2>1, <2>2, <2>3, <2>4, JobInv
<1>9. CASE job[o].type = "UNLOCK" /\ pendingLoginBaseKey = None
  <2>1. Reply(o, FALSE) /\ vaultKey' \in AccountOrNone
    BY <1>4, <1>9 DEF Prove, Finalize
  <2> QED  BY <1>2, <1>3, <1>4, <1>7, <2>1, ReplyInv
<1>10. CASE job[o].type = "LOGIN"
  <2>1. Reply(o, TRUE) /\ vaultKey' \in AccountOrNone
    BY <1>4, <1>10 DEF Prove
  <2>2. ~May("timeout") => op[o].wait \notin {"unlock", "passcode"}
    BY <1>6, <1>10 DEF Serves
  <2> QED  BY <1>2, <1>3, <1>4, <1>7, <2>1, <2>2, ReplyInv
<1> QED  BY <1>3, <1>8, <1>9, <1>10

LEMMA UnwrapInv ==
    ASSUME NEW o \in Ops, Inv, Unwrap(o), UNCHANGED scene
    PROVE  Inv'
<1>1. TypeOK /\ Core /\ BusyIsAccurate /\ Forgotten
  BY DEF Inv
<1>2. o \in Handled /\ job[o] \in Job /\ job[o].at = "unwrap"
  BY <1>1 DEF Unwrap, TypeOK, Handled
<1>3. ~left /\ op[o].acct \in Accounts
  BY <1>1, <1>2 DEF Forgotten, Core, Owned
<1>4. UNCHANGED tabVars /\ UNCHANGED diskVars /\ inbox' = inbox
  BY DEF Unwrap
<1>5. vaultKey' \in AccountOrNone /\ pendingLoginBaseKey' \in {pendingLoginBaseKey, None}
  BY <1>3 DEF Unwrap, AccountOrNone
<1>6. ASSUME ~May("timeout"), Opens(o), op[o].wait \in {"unlock", "passcode"}
      PROVE  op[o].right
  <2>1. job[o].type # "FINALIZE_LOGIN"
    BY <1>1, <1>2, <1>6 DEF Core, Matching, Serves, GivenUp
  <2>2. job[o].base = Own(o)
    BY <1>1, <1>2, <1>6, <2>1 DEF Core, Secrets
  <2>3. Own(o).right = op[o].right
    BY DEF Own
  <2>4. job[o].base.right = TRUE
    BY <1>6 DEF Opens
  <2> QED  BY <2>2, <2>3, <2>4
<1>7. PICK ok \in BOOLEAN : ok = Opens(o)
  BY DEF Opens
<1>8. Reply(o, ok)
  BY <1>7 DEF Unwrap
<1>9. ~May("timeout") /\ ok /\ op[o].wait \in {"unlock", "passcode"} => op[o].right
  BY <1>6, <1>7
<1> QED  BY <1>2, <1>3, <1>4, <1>5, <1>8, <1>9, ReplyInv

(* The secrets, the messages and the busy flag are in order in every       *)
(* state.                                                                  *)
THEOREM Invariance == Spec => []Inv
<1>1. Init => Inv
  BY InitInv
<1>2. Inv /\ [Next]_vars => Inv'
  <2>1. ASSUME Inv, Next  PROVE Inv'
    <3>1. UNCHANGED scene
      BY <2>1 DEF Next
    <3>2. ASSUME NEW o \in Ops, Begin(o) \/ Continue(o) \/ Work(o) \/ TimeOut(o)
          PROVE  Inv'
      <4>1. CASE Begin(o)
        BY <2>1, <3>1, <4>1, BeginInv
      <4>2. CASE Continue(o)
        BY <2>1, <3>1, <4>2, PrepareInv, LoginAnsweredInv, BundleSavedInv, LoadInv
           DEF Continue, Leave
      <4>3. CASE Work(o)
        BY <2>1, <3>1, <4>3, DeriveInv, ProveInv, UnwrapInv DEF Work
      <4>4. CASE TimeOut(o)
        BY <2>1, <3>1, <4>4, TimeOutInv
      <4> QED  BY <3>2, <4>1, <4>2, <4>3, <4>4
    <3>3. CASE Receive \/ Take \/ Load
      BY <2>1, <3>1, <3>3, ReceiveInv, TakeInv, LoadInv
    <3>4. CASE Crash
      BY <2>1, <3>1, <3>4, TerminateInv DEF Crash
    <3>5. TypeOK
      BY <2>1 DEF Inv
    <3>6. CASE Remount
      <4>1. /\ UNCHANGED <<op, busy, left, scene>> /\ UNCHANGED workerVars
            /\ account' \in AccountOrNone /\ unlocked' \in BOOLEAN /\ form' \in Ops \cup {None}
            /\ bundle' \in AccountOrNone /\ lastId' \in AccountOrNone
        BY <3>1, <3>5, <3>6 DEF Remount, diskVars, TypeOK
      <4> QED  BY <2>1, <4>1, OutsideInv
    <3>7. CASE OtherTab
      <4>1. scene.accts \subseteq Accounts
        BY <3>5, ConstAssumption DEF TypeOK, Scene, ConstAssumption
      <4>2. bundle' \in AccountOrNone /\ lastId' \in AccountOrNone
        BY <3>5, <3>7, <4>1 DEF OtherTab, AccountOrNone, TypeOK
      <4>3. /\ UNCHANGED <<op, busy, left, scene>> /\ UNCHANGED workerVars
            /\ account' \in AccountOrNone /\ unlocked' \in BOOLEAN /\ form' \in Ops \cup {None}
        BY <3>1, <3>5, <3>7 DEF OtherTab, tabVars, TypeOK
      <4> QED  BY <2>1, <4>2, <4>3, OutsideInv
    <3> QED  BY <2>1, <3>2, <3>3, <3>4, <3>6, <3>7 DEF Next
  <2>2. ASSUME Inv, UNCHANGED vars  PROVE Inv'
    <3>1. TypeOK
      BY <2>2 DEF Inv
    <3>2. /\ UNCHANGED <<op, busy, left, scene>> /\ UNCHANGED workerVars
          /\ account' \in AccountOrNone /\ unlocked' \in BOOLEAN /\ form' \in Ops \cup {None}
          /\ bundle' \in AccountOrNone /\ lastId' \in AccountOrNone
      BY <2>2, <3>1 DEF vars, tabVars, diskVars, TypeOK
    <3> QED  BY <2>2, <3>2, OutsideInv
  <2> QED  BY <2>1, <2>2
<1> QED  BY <1>1, <1>2, PTL DEF Spec

-----------------------------------------------------------------------------
(* What follows from the invariant.                                        *)

(* TypeOK holds in every state: in particular a handler that unwraps never *)
(* lacks a base key, though other handlers drop the pending one.           *)
THEOREM TypeCorrect == Spec => []TypeOK
<1>1. Inv => TypeOK
  BY DEF Inv
<1> QED  BY <1>1, Invariance, PTL

(* After any answers, rejections, time-outs and crashes the busy flag is   *)
(* set exactly while one password operation waits for the worker.          *)
THEOREM BusyAccurate == Spec => []BusyIsAccurate
<1>1. Inv => BusyIsAccurate
  BY DEF Inv
<1> QED  BY <1>1, Invariance, PTL

(* Between the end of a logout and the next first message of an operation  *)
(* the worker holds no vault key, and of what it was asked before nothing  *)
(* is left that could bring one back.                                      *)
THEOREM Forgets == Spec => []LogoutForgets
<1>1. Inv => LogoutForgets
  BY DEF Inv, Forgotten, LogoutForgets
<1> QED  BY <1>1, Invariance, PTL

(* The step that unlocks is the end of an operation given the right secret.*)
Unlocks ==
    ~May("timeout") /\ ~May("tabs") /\ ~unlocked /\ unlocked' =>
        \E o \in Ops : /\ op[o].right
                       /\ op[o].wait \in {"unlock", "passcode", "disk"}
                       /\ op'[o].wait = "idle"

(* While the worker answers in time and no other tab interferes, only an   *)
(* operation that was given the right password or passcode unlocks the tab,*)
(* though password operations share the slot of the pending base key.      *)
THEOREM RightSecretUnlocks == Spec => OnlyRightSecretUnlocks
<1>1. ASSUME Inv, Next, ~May("timeout"), ~unlocked, unlocked'
      PROVE  \E o \in Ops : /\ op[o].right
                            /\ op[o].wait \in {"unlock", "passcode", "disk"}
                            /\ op'[o].wait = "idle"
  <2>1. TypeOK /\ Core /\ BusyIsAccurate
    BY <1>1 DEF Inv
  <2>2. CASE Receive
    <3> DEFINE m == Head(outbox)
    <3>1. m \in Answer /\ m.op \in Ops /\ m.ok \in BOOLEAN /\ outbox # <<>>
          /\ 1 \in DOMAIN outbox /\ m = outbox[1]
      BY <2>1, <2>2, OpFacts, QueueTail DEF Receive, Answer
    <3>2. ~Terminate
      BY <1>1 DEF Terminate, Reject
    <3>3. Waiting(m.op) /\ Settle(m.op, m.ok) /\ op[m.op].wait # "logout"
      BY <1>1, <2>2, <3>2 DEF Receive, LogsOut, tabVars
    <3>4. op'[m.op].wait = "idle" /\ m.ok /\ op[m.op].wait \in {"unlock", "passcode"}
      <4>1. ~Reject({m.op})
        BY <1>1 DEF Reject
      <4>2. m.ok /\ Succeed(m.op)
        BY <1>1, <3>3, <4>1 DEF Settle
      <4>3. op[m.op].wait \in {"unlock", "passcode"}
        BY <1>1, <4>2 DEF Succeed
      <4>4. op'[m.op].wait = "idle"
        BY <2>1, <3>1, <4>2, OpFacts DEF Succeed
      <4> QED  BY <4>2, <4>3, <4>4
    <3>5. op[m.op].right
      BY <1>1, <2>1, <3>1, <3>4 DEF Core, Secrets
    <3> QED  BY <3>1, <3>4, <3>5
  <2>3. ASSUME NEW o \in Ops, TimeOut(o)  PROVE FALSE
    BY <1>1, <2>3 DEF TimeOut
  <2>4. ASSUME NEW o \in Ops, BundleSaved(o)
        PROVE  op[o].right /\ op[o].wait = "disk" /\ op'[o].wait = "idle"
    <3>1. ~Reject({o}) /\ op[o].wait = "disk"
      BY <1>1, <2>4 DEF Reject, BundleSaved
    <3>2. op' = [op EXCEPT ![o].wait = "idle"]
      BY <2>4, <3>1 DEF BundleSaved
    <3>3. op'[o].wait = "idle"
      BY <2>1, <3>2, OpFacts
    <3>4. op[o].right
      BY <2>1, <3>1 DEF Core, Secrets
    <3> QED  BY <3>1, <3>3, <3>4
  <2>5. ~(Take \/ Crash \/ Load \/ Remount \/ OtherTab)
    BY <1>1 DEF Take, Crash, Terminate, Reject, Load, Remount, OtherTab, tabVars
  <2>6. ASSUME NEW o \in Ops  PROVE ~Begin(o)
    BY <1>1 DEF Begin, Login, Unlock, UnlockViaPasscode, Lock, Logout, UseEntry, Submit, Await
  <2>7. ASSUME NEW o \in Ops  PROVE ~Work(o) /\ ~Leave(o) /\ ~LoginAnswered(o)
    BY <1>1 DEF Work, Derive, Prove, Unwrap, Leave, Load, LoginAnswered, Reject, tabVars
  <2>8. ASSUME NEW o \in Ops
        PROVE  ~(PreLoginAnswered(o) \/ BundleRead(o) \/ AccountIdRead(o) \/ PasscodeRead(o))
    <3>1. ~Fail(o) /\ \A wait, a : ~Await(o, wait, a)
      BY <1>1 DEF Fail, Reject, Await
    <3>2. \A type, wait, a : ~AskWorker(o, type, wait, a)
      BY <1>1, <3>1 DEF AskWorker
    <3> QED  BY <1>1, <3>1, <3>2
             DEF PreLoginAnswered, BundleRead, AccountIdRead, PasscodeRead
  <2> QED  BY <1>1, <2>2, <2>3, <2>4, <2>5, <2>6, <2>7, <2>8 DEF Next, Continue
<1>2. Inv /\ [Next]_vars => [Unlocks]_vars
  <2>1. ASSUME Inv, Next  PROVE Unlocks
    BY <1>1, <2>1 DEF Unlocks
  <2> QED  BY <2>1
<1>3. [][Unlocks]_vars => OnlyRightSecretUnlocks
  BY DEF OnlyRightSecretUnlocks, Unlocks
<1> QED  BY <1>2, <1>3, Invariance, PTL DEF Spec

-----------------------------------------------------------------------------
(* A tab where nothing fails.                                              *)

(* A tab in calm that does not log out.                                    *)
CalmState ==
    Inv /\ Calm /\ bundle = lastId /\ ~Ending /\ CalmTab /\ CalmOrder /\ CalmKey

LEMMA CalmFacts ==
    ASSUME CalmState
    PROVE  /\ \A what : ~May(what)
           /\ None \notin Ops /\ None \notin Accounts
           /\ \A o \in Ops : op[o].wait \notin {"logout", "leave"}
           /\ \A i \in DOMAIN inbox : op[inbox[i].op].wait \in Serves(inbox[i].type)
           /\ \A o \in Handled : op[o].wait \in Serves(job[o].type)
           /\ \A o \in Handled : o = form
           /\ \A i \in DOMAIN inbox :
                 inbox[i].type \notin {"CLEAR_KEYS", "USE_ENTRY"} => inbox[i].op = form
           /\ form # None => form \in Ops /\ ~unlocked /\ op[form].wait \in FormWaits
           /\ form = None => \A o \in Ops : op[o].wait \notin FormWaits
<1> USE DEF CalmState
<1>1. \A what : ~May(what)
  BY DEF Calm, May
<1>2. None \notin Ops /\ None \notin Accounts
  BY ConstAssumption DEF ConstAssumption
<1>3. \A o \in Ops : op[o].wait \notin {"logout", "leave"}
  BY DEF Ending
<1>4. GivenUp = {}
  BY <1>1 DEF GivenUp
<1>5. /\ \A i \in DOMAIN inbox : op[inbox[i].op].wait \in Serves(inbox[i].type)
      /\ \A o \in Handled : op[o].wait \in Serves(job[o].type)
  BY <1>4 DEF Inv, Core, Matching
<1>6. TypeOK
  BY DEF Inv
<1>7. \A o \in Ops : op[o].wait \in FormWaits <=> form = o
  BY DEF CalmTab
<1>8. \A o \in Handled : o = form
  <2>1. ASSUME NEW o \in Handled  PROVE op[o].wait \in FormWaits
    <3>1. job[o].type \in {"LOGIN", "UNLOCK", "UNLOCK_VIA_PASSCODE", "FINALIZE_LOGIN"}
      BY DEF Inv, Core, Stages
    <3> QED  BY <1>5, <3>1 DEF Serves, FormWaits
  <2> QED  BY <1>6, <1>7, <2>1, OpFacts
<1>9. \A i \in DOMAIN inbox : inbox[i].type \notin {"CLEAR_KEYS", "USE_ENTRY"} => inbox[i].op = form
  <2>1. ASSUME NEW i \in DOMAIN inbox, inbox[i].type \notin {"CLEAR_KEYS", "USE_ENTRY"}
        PROVE  op[inbox[i].op].wait \in FormWaits
    BY <1>5, <1>6, <2>1, OpFacts DEF Serves, FormWaits, Types
  <2> QED  BY <1>6, <1>7, <2>1, OpFacts
<1>10. form # None => form \in Ops /\ ~unlocked
  BY <1>6 DEF CalmTab, TypeOK
<1> QED  BY <1>1, <1>2, <1>3, <1>5, <1>7, <1>8, <1>9, <1>10

(* Locks do not wait behind the operation of the form.                     *)
LEMMA LocksAhead ==
    ASSUME CalmState, form # None
    PROVE  /\ inbox # <<>> /\ Head(inbox).op = form => Locking \cap Asked = {}
           /\ outbox # <<>> /\ Head(outbox).op = form => Locking = {}
           /\ form \in Asked \cup Handled => vaultKey = None
<1> USE DEF CalmState
<1>1. TypeOK
  BY DEF Inv
<1>2. ASSUME inbox # <<>>, Head(inbox).op = form  PROVE Locking \cap Asked = {}
  <2>1. 1 \in DOMAIN inbox /\ inbox[1].op = form /\ \A j \in DOMAIN inbox : j \in Nat /\ j >= 1
    BY <1>1, <1>2, QueueTail, OpFacts
  <2>2. \A j \in DOMAIN inbox : inbox[j].op \in Locking => j < 1
    BY <2>1 DEF CalmOrder
  <2> QED  BY <2>1, <2>2 DEF Asked, Owners
<1>3. ASSUME outbox # <<>>, Head(outbox).op = form  PROVE Locking = {}
  <2>1. 1 \in DOMAIN outbox /\ outbox[1].op = form /\ \A j \in DOMAIN outbox : j \in Nat /\ j >= 1
    BY <1>1, <1>3, QueueTail, OpFacts
  <2>2. \A j \in DOMAIN outbox : outbox[j].op \in Locking => j < 1
    BY <2>1 DEF CalmOrder
  <2>3. Locking \cap Answered = {}
    BY <2>1, <2>2 DEF Answered, Owners
  <2>4. form \in Answered
    BY <2>1 DEF Answered, Owners
  <2>5. Locking \cap Asked = {} /\ Locking \cap Handled = {}
    BY <2>4 DEF CalmOrder
  <2>6. Locking \subseteq Asked \cup Handled \cup Answered
    BY DEF CalmOrder, Locking, Waiting, Awaiting
  <2> QED  BY <2>3, <2>5, <2>6
<1>4. ASSUME form \in Asked \cup Handled  PROVE vaultKey = None
  <2>1. form \notin Answered /\ op[form].wait \in Awaiting \cup {"idle"}
    BY <1>4 DEF Inv, Core, Slots
  <2>2. op[form].wait \in FormWaits
    BY CalmFacts
  <2>3. op[form].wait \in {"login", "finalize", "unlock", "passcode"}
    BY <2>1, <2>2 DEF Awaiting, FormWaits
  <2>4. ~unlocked
    BY CalmFacts
  <2> QED  BY <2>1, <2>3, <2>4 DEF CalmKey
<1> QED  BY <1>2, <1>3, <1>4

(* The worker answers o.                                                   *)
LEMMA CalmReply ==
    ASSUME NEW o \in Ops, NEW ok \in BOOLEAN, CalmState, Reply(o, ok),
           UNCHANGED tabVars, UNCHANGED diskVars, UNCHANGED scene,
           \/ o \in Handled /\ inbox' = inbox
           \/ inbox # <<>> /\ o = Head(inbox).op /\ inbox' = Tail(inbox),
           o # form => \/ op[o].wait = "lock" /\ vaultKey' = None
                       \/ op[o].wait = "use" /\ vaultKey' = vaultKey,
           o = form /\ op[o].wait # "login" => vaultKey' = IF ok THEN op[o].acct ELSE None,
           o = form /\ op[o].wait = "login" => vaultKey' = None
    PROVE  CalmTab' /\ CalmOrder' /\ CalmKey'
<1> USE DEF CalmState
<1>1. TypeOK /\ Core
  BY DEF Inv
<1>2. UNCHANGED <<unlocked, account, form, op, bundle, lastId>>
  BY DEF tabVars, diskVars
<1>3. CalmTab'
  BY <1>2 DEF CalmTab
<1>4. Locking' = Locking
  BY <1>2 DEF Locking
<1> DEFINE m == [op |-> o, ok |-> ok]
<1>5. m \in Answer /\ m.op = o /\ m.ok = ok
  BY DEF Answer
<1>6. /\ Asked' = Asked \ {o} /\ o \in Asked \cup Handled
      /\ \A i \in DOMAIN inbox' :
            \/ inbox' = inbox
            \/ i + 1 \in DOMAIN inbox /\ inbox'[i] = inbox[i + 1] /\ i \in Nat
  <2>1. CASE o \in Handled /\ inbox' = inbox
    BY <1>1, <2>1 DEF Core, Slots, Asked
  <2>2. CASE inbox # <<>> /\ o = Head(inbox).op /\ inbox' = Tail(inbox)
    BY <1>1, <2>2, QueueTail, TailOwners, OpFacts DEF Core, Slots, Asked
  <2> QED  BY <2>1, <2>2
<1>7. Handled' = Handled \ {o}
  BY <1>1 DEF Reply, Handled, TypeOK
<1>8. o \notin Answered
  BY <1>1, <1>6 DEF Core, Slots
<1>9. Answered' = Answered \cup {o}
  BY <1>1, <1>5, <1>8, AppendOwners, OpFacts DEF Reply, Answered
<1>10. /\ \A i \in DOMAIN outbox' : i \in DOMAIN outbox \/ i = Len(outbox) + 1
       /\ \A i \in DOMAIN outbox : /\ outbox'[i] = outbox[i] /\ i < Len(outbox) + 1 /\ i \in Nat
                                   /\ outbox[i].op \in Answered
       /\ outbox'[Len(outbox) + 1] = m
  BY <1>1, <1>5, QueueAppend, OpFacts DEF Reply
<1>11. o \in Locking => op[o].wait = "lock" /\ o # form
  BY <1>1, CalmFacts DEF Locking, FormWaits
<1>12. o = form => Locking \cap Asked = {} /\ vaultKey = None /\ form # None
  <2>1. CASE o \in Handled
    BY <2>1, CalmFacts, LocksAhead DEF CalmOrder
  <2>2. CASE inbox # <<>> /\ o = Head(inbox).op
    BY <1>6, <2>2, CalmFacts, LocksAhead
  <2> QED  BY <2>1, <2>2
<1>13. form # None => op[form].wait \in FormWaits /\ ~unlocked
  BY CalmFacts
<1>14. o \in Locking => o \in Asked
  BY <1>6 DEF CalmOrder
<1> HIDE DEF Asked, Answered, Handled, m, Locking
<1>15. CalmOrder'
  <2>1. \A q \in Ops : Waiting(q)' => q \in Asked' \cup Handled' \cup Answered'
    BY <1>2, <1>6, <1>7, <1>9 DEF CalmOrder, Waiting
  <2>2. Locking' \cap Handled' = {}
    BY <1>4, <1>7 DEF CalmOrder
  <2>3. \A i, j \in DOMAIN inbox' : inbox'[i].op = form /\ inbox'[j].op \in Locking => j < i
    BY <1>6, QueueElements, OpFacts, <1>1 DEF CalmOrder
  <2>4. ASSUME NEW i \in DOMAIN outbox', NEW j \in DOMAIN outbox',
               outbox'[i].op = form, outbox'[j].op \in Locking
        PROVE  j < i
    <3>1. CASE i \in DOMAIN outbox /\ j \in DOMAIN outbox
      BY <1>10, <2>4, <3>1 DEF CalmOrder
    <3>2. CASE i = Len(outbox) + 1 /\ j \in DOMAIN outbox
      BY <1>10, <3>2
    <3>3. CASE j = Len(outbox) + 1
      <4>1. o \in Locking /\ o \in Asked /\ o # form
        BY <1>5, <1>10, <1>11, <1>14, <2>4, <3>3
      <4>2. form \in Answered
        <5>1. i \in DOMAIN outbox
          BY <1>5, <1>10, <2>4, <4>1
        <5> QED  BY <1>10, <2>4, <5>1
      <4> QED  BY <4>1, <4>2 DEF CalmOrder
    <3> QED  BY <1>10, <3>1, <3>2, <3>3
  <2>5. form \in Handled' \cup Answered' => Locking \cap Asked' = {}
    BY <1>6, <1>7, <1>9, <1>12 DEF CalmOrder
  <2>6. form # None /\ op[form].wait \in {"api", "finalize", "disk"} => Locking = {}
    BY DEF CalmOrder
  <2> QED  BY <1>2, <1>4, <2>1, <2>2, <2>3, <2>4, <2>5, <2>6 DEF CalmOrder
<1>16. CalmKey'
  <2>1. CASE o = form
    <3>1. form # None /\ ~unlocked /\ op[form].wait \in FormWaits /\ form \in Answered'
      BY <1>9, <1>12, <1>13, <2>1
    <3>2. op[form].wait \in Awaiting \cup {"idle"}
      BY <1>1, <1>6, <2>1 DEF Core, Slots
    <3>3. \A i \in DOMAIN outbox' : outbox'[i].op = form => outbox'[i].ok = ok
      BY <1>5, <1>8, <1>10, <2>1
    <3>4. op[form].wait \in {"login", "finalize", "unlock", "passcode"}
      BY <3>1, <3>2 DEF FormWaits, Awaiting
    <3>p. op[form].wait \notin Preparing
      BY <3>4 DEF Preparing
    <3>5. CASE op[form].wait = "login"
      BY <1>2, <2>1, <3>1, <3>p, <3>5 DEF CalmKey
    <3>6. CASE op[form].wait \in {"finalize", "unlock", "passcode"}
      BY <1>2, <2>1, <3>1, <3>3, <3>p, <3>6 DEF CalmKey
    <3> QED  BY <3>4, <3>5, <3>6
  <2>2. CASE o # form /\ op[o].wait = "lock" /\ vaultKey' = None
    <3>1. o \in Locking /\ o \in Asked
      BY <1>14, <2>2 DEF Locking
    <3>2. Locking # {} /\ form \notin Answered /\ Locking' \cap Answered' # {}
      BY <1>4, <1>9, <3>1 DEF CalmOrder
    <3>3. form \notin Answered'
      BY <1>9, <2>2, <3>2
    <3>4. \A i \in DOMAIN outbox' : outbox'[i].op # form
      BY <1>5, <1>10, <2>2, <3>2
    <3>5. form # None => op[form].wait # "disk"
      BY <3>2 DEF CalmOrder
    <3> QED  BY <1>2, <2>2, <3>2, <3>3, <3>4, <3>5 DEF CalmKey
  <2>3. CASE o # form /\ op[o].wait = "use" /\ vaultKey' = vaultKey
    <3>1. o \notin Locking
      BY <2>3 DEF Locking
    <3>2. Locking' \cap Answered' = Locking \cap Answered
      BY <1>4, <1>9, <3>1
    <3>3. form \in Answered' <=> form \in Answered
      BY <1>9, <2>3
    <3>4. ASSUME NEW i \in DOMAIN outbox', outbox'[i].op = form
          PROVE  i \in DOMAIN outbox /\ outbox'[i] = outbox[i]
      BY <1>5, <1>10, <2>3, <3>4
    <3> QED  BY <1>2, <2>3, <3>2, <3>3, <3>4 DEF CalmKey
  <2> QED  BY <2>1, <2>2, <2>3
<1> QED  BY <1>3, <1>15, <1>16

(* The worker begins or goes on with the operation of the form.            *)
LEMMA CalmJob ==
    ASSUME NEW o \in Ops, NEW r \in Job, CalmState,
           job' = [job EXCEPT ![o] = r], UNCHANGED outbox,
           UNCHANGED tabVars, UNCHANGED diskVars, UNCHANGED scene,
           \/ o \in Handled /\ inbox' = inbox
           \/ inbox # <<>> /\ o = Head(inbox).op /\ inbox' = Tail(inbox),
           vaultKey' \in {vaultKey, None},
           o = form
    PROVE  CalmTab' /\ CalmOrder' /\ CalmKey'
<1> USE DEF CalmState
<1>1. TypeOK /\ Core /\ form # None
  BY CalmFacts DEF Inv
<1>2. UNCHANGED <<unlocked, account, form, op, bundle, lastId>>
  BY DEF tabVars, diskVars
<1>3. CalmTab'
  BY <1>2 DEF CalmTab
<1>4. Locking' = Locking /\ Answered' = Answered
  BY <1>2 DEF Locking, Answered
<1>5. /\ Asked' = Asked \ {o} /\ o \in Asked \cup Handled
      /\ \A i \in DOMAIN inbox' :
            \/ inbox' = inbox
            \/ i + 1 \in DOMAIN inbox /\ inbox'[i] = inbox[i + 1] /\ i \in Nat
  <2>1. CASE o \in Handled /\ inbox' = inbox
    BY <1>1, <2>1 DEF Core, Slots, Asked
  <2>2. CASE inbox # <<>> /\ o = Head(inbox).op /\ inbox' = Tail(inbox)
    BY <1>1, <2>2, QueueTail, TailOwners, OpFacts DEF Core, Slots, Asked
  <2> QED  BY <2>1, <2>2
<1>6. r # None
  BY ConstAssumption DEF ConstAssumption
<1>7. Handled' = Handled \cup {o}
  BY <1>1, <1>6 DEF Handled, TypeOK
<1>8. o \notin Answered
  BY <1>1, <1>5 DEF Core, Slots
<1>9. Locking \cap Asked = {} /\ vaultKey = None
  <2>1. CASE o \in Handled
    BY <1>1, <2>1, LocksAhead DEF CalmOrder
  <2>2. CASE inbox # <<>> /\ o = Head(inbox).op
    BY <1>1, <1>5, <2>2, LocksAhead
  <2> QED  BY <2>1, <2>2
<1>10. op[form].wait \in FormWaits /\ ~unlocked /\ op[form].wait \in Awaiting \cup {"idle"}
  BY <1>1, <1>5, CalmFacts DEF Core, Slots
<1>11. o \notin Locking
  BY <1>10 DEF Locking, FormWaits
<1> HIDE DEF Asked, Answered, Handled, Locking
<1>12. CalmOrder'
  <2>1. \A q \in Ops : Waiting(q)' => q \in Asked' \cup Handled' \cup Answered'
    BY <1>2, <1>4, <1>5, <1>7 DEF CalmOrder, Waiting
  <2>2. Locking' \cap Handled' = {}
    BY <1>4, <1>7, <1>11 DEF CalmOrder
  <2>3. \A i, j \in DOMAIN inbox' : inbox'[i].op = form /\ inbox'[j].op \in Locking => j < i
    BY <1>5, QueueElements, OpFacts, <1>1 DEF CalmOrder
  <2>4. \A i, j \in DOMAIN outbox' : outbox'[i].op = form /\ outbox'[j].op \in Locking => j < i
    BY DEF CalmOrder
  <2>5. Locking \cap Asked' = {}
    BY <1>5, <1>9
  <2>6. form # None /\ op[form].wait \in {"api", "finalize", "disk"} => Locking = {}
    BY DEF CalmOrder
  <2> QED  BY <1>2, <1>4, <2>1, <2>2, <2>3, <2>4, <2>5, <2>6 DEF CalmOrder
<1>13. CalmKey'
  <2>1. vaultKey' = None
    BY <1>9
  <2>2. \A i \in DOMAIN outbox : outbox[i].op # form
    BY <1>1, <1>8, OpFacts
  <2>3. op[form].wait # "disk"
    BY <1>10 DEF Awaiting
  <2> QED  BY <1>1, <1>2, <1>4, <1>8, <1>10, <2>1, <2>2, <2>3 DEF CalmKey
<1> QED  BY <1>3, <1>12, <1>13

LEMMA CalmTake ==
    ASSUME CalmState, Take, UNCHANGED scene
    PROVE  CalmTab' /\ CalmOrder' /\ CalmKey'
<1> DEFINE o == Head(inbox).op
           type == Head(inbox).type
<1>1. TypeOK /\ Core
  BY DEF CalmState, Inv
<1>2. /\ inbox # <<>> /\ inbox' = Tail(inbox) /\ o \in Ops /\ type \in Types
      /\ 1 \in DOMAIN inbox /\ Head(inbox) = inbox[1] /\ o \in Asked
  BY <1>1, QueueTail, OpFacts DEF Take
<1>3. UNCHANGED tabVars /\ UNCHANGED diskVars
  BY DEF Take
<1>4. op[o].wait \in Serves(type) /\ op[o].wait # "logout"
  BY <1>2, CalmFacts
<1>5. type \notin {"CLEAR_KEYS", "USE_ENTRY"} => o = form /\ form # None
  BY <1>2, CalmFacts
<1>6. pendingLoginBaseKey \in BaseKey \cup {None}
  BY <1>1 DEF TypeOK
<1>7. ASSUME NEW r \in Job, type \notin {"CLEAR_KEYS", "USE_ENTRY"},
             job' = [job EXCEPT ![o] = r], UNCHANGED outbox, vaultKey' \in {vaultKey, None}
      PROVE  CalmTab' /\ CalmOrder' /\ CalmKey'
  <2>1. o = form /\ o = Head(inbox).op
    BY <1>5, <1>7
  <2> HIDE DEF o, type
  <2> QED  BY <1>2, <1>3, <1>7, <2>1, CalmJob
<1>8. CASE /\ type \in {"LOGIN", "UNLOCK"}
           /\ job' = [job EXCEPT ![o] = [type |-> type, at |-> "derive", base |-> None]]
           /\ UNCHANGED <<outbox, vaultKey>>
  <2>1. [type |-> type, at |-> "derive", base |-> None] \in Job
    BY <1>2 DEF Job
  <2> QED  BY <1>7, <1>8, <2>1
<1>9. CASE type = "FINALIZE_LOGIN" /\ Finalize(o, type)
  <2>1. CASE pendingLoginBaseKey = None
    <3>1. Reply(o, FALSE) /\ vaultKey' = vaultKey
      BY <1>9, <2>1 DEF Finalize
    <3>2. o = form /\ form # None /\ o \in Asked /\ o = Head(inbox).op
      BY <1>2, <1>5, <1>9
    <3>3. vaultKey' = None /\ FALSE \in BOOLEAN
      BY <3>1, <3>2, LocksAhead
    <3> HIDE DEF o, type
    <3> QED  BY <1>2, <1>3, <3>1, <3>2, <3>3, CalmReply
  <2>2. CASE pendingLoginBaseKey # None
    <3>1. [type |-> type, at |-> "unwrap", base |-> pendingLoginBaseKey] \in Job
      BY <1>2, <1>6 DEF Job
    <3> QED  BY <1>7, <1>9, <2>2, <3>1 DEF Finalize
  <2> QED  BY <2>1, <2>2
<1>10. CASE /\ type = "UNLOCK_VIA_PASSCODE"
            /\ vaultKey' = None
            /\ job' = [job EXCEPT ![o] =
                         [type |-> type, at |-> "unwrap",
                          base |-> [acct |-> op[o].acct, right |-> op[o].right]]]
            /\ UNCHANGED <<outbox, pendingLoginBaseKey>>
  <2>1. op[o].acct \in Accounts
    BY <1>1, <1>2, <1>10 DEF Core, Owned
  <2>2. [type |-> type, at |-> "unwrap",
         base |-> [acct |-> op[o].acct, right |-> op[o].right]] \in Job
    BY <1>1, <1>2, <2>1, OpFacts DEF Job, BaseKey
  <2> QED  BY <1>7, <1>10, <2>2
<1>11. CASE type = "CLEAR_KEYS" /\ ClearKeys /\ Reply(o, TRUE)
  <2>1. op[o].wait = "lock" /\ vaultKey' = None
    BY <1>4, <1>11 DEF Serves, ClearKeys
  <2>2. o # form
    BY <1>2, <2>1, CalmFacts DEF FormWaits
  <2>3. o = Head(inbox).op /\ TRUE \in BOOLEAN
    OBVIOUS
  <2> HIDE DEF o, type
  <2> QED  BY <1>2, <1>3, <1>11, <2>1, <2>2, <2>3, CalmReply
<1>12. CASE /\ type = "USE_ENTRY" /\ Reply(o, vaultKey # None)
            /\ UNCHANGED <<vaultKey, pendingLoginBaseKey>>
  <2>1. op[o].wait = "use" /\ vaultKey' = vaultKey
    BY <1>4, <1>12 DEF Serves
  <2>2. o # form
    BY <1>2, <2>1, CalmFacts DEF FormWaits
  <2>3. o = Head(inbox).op
    OBVIOUS
  <2>4. PICK ok \in BOOLEAN : ok = (vaultKey # None)
    OBVIOUS
  <2>5. Reply(o, ok)
    BY <1>12, <2>4
  <2> HIDE DEF o, type
  <2> QED  BY <1>2, <1>3, <2>1, <2>2, <2>3, <2>5, CalmReply
<1> QED  BY <1>8, <1>9, <1>10, <1>11, <1>12 DEF Take

LEMMA CalmWork ==
    ASSUME NEW o \in Ops, CalmState, Work(o), UNCHANGED scene
    PROVE  CalmTab' /\ CalmOrder' /\ CalmKey'
<1>1. TypeOK /\ Core
  BY DEF CalmState, Inv
<1>2. /\ UNCHANGED tabVars /\ UNCHANGED diskVars /\ inbox' = inbox
      /\ o \in Handled /\ job[o] \in Job /\ job[o] # None
  BY <1>1 DEF Work, Derive, Prove, Unwrap, TypeOK, Handled
<1>3. o = form /\ form # None /\ vaultKey = None
  BY <1>2, CalmFacts, LocksAhead
<1>4. op[o].wait \in Serves(job[o].type)
  BY <1>2, CalmFacts
<1>5. pendingLoginBaseKey \in BaseKey \cup {None}
  BY <1>1 DEF TypeOK
<1>6. FALSE \in BOOLEAN /\ TRUE \in BOOLEAN
  OBVIOUS
<1>7. CASE Derive(o)
  <2> DEFINE r == [job[o] EXCEPT !.at = "prove"]
  <2>1. r \in Job
    BY <1>2 DEF Job
  <2>2. /\ job' = [job EXCEPT ![o] = r] /\ UNCHANGED outbox
        /\ vaultKey' \in {vaultKey, None}
    BY <1>7, CalmFacts DEF Derive
  <2> HIDE DEF r
  <2> QED  BY <1>2, <1>3, <2>1, <2>2, CalmJob
<1>8. CASE Prove(o)
  <2>1. job[o].type \in {"LOGIN", "UNLOCK"}
    BY <1>1, <1>2, <1>8 DEF Prove, Core, Stages
  <2>2. CASE job[o].type = "UNLOCK" /\ pendingLoginBaseKey # None
    <3> DEFINE r == [type |-> "UNLOCK", at |-> "unwrap", base |-> pendingLoginBaseKey]
    <3>1. r \in Job
      BY <1>5 DEF Job, Types
    <3>2. /\ job' = [job EXCEPT ![o] = r] /\ UNCHANGED outbox
          /\ vaultKey' \in {vaultKey, None}
      BY <1>8, <2>2 DEF Prove, Finalize
    <3> HIDE DEF r
    <3> QED  BY <1>2, <1>3, <3>1, <3>2, CalmJob
  <2>3. CASE job[o].type = "UNLOCK" /\ pendingLoginBaseKey = None
    <3>1. Reply(o, FALSE) /\ vaultKey' = None
      BY <1>3, <1>8, <2>3 DEF Prove, Finalize
    <3> QED  BY <1>2, <1>3, <1>6, <3>1, CalmReply
  <2>4. CASE job[o].type = "LOGIN"
    <3>1. Reply(o, TRUE) /\ vaultKey' = None
      BY <1>3, <1>8, <2>4 DEF Prove
    <3>2. op[o].wait = "login"
      BY <1>4, <2>4 DEF Serves
    <3> QED  BY <1>2, <1>3, <1>6, <3>1, <3>2, CalmReply
  <2> QED  BY <2>1, <2>2, <2>3, <2>4
<1>9. CASE Unwrap(o)
  <2>1. PICK ok \in BOOLEAN : ok = Opens(o)
    BY DEF Opens
  <2>2. Reply(o, ok) /\ vaultKey' = IF ok THEN op[o].acct ELSE None
    BY <1>9, <2>1 DEF Unwrap
  <2>3. op[o].wait # "login"
    <3>1. job[o].type \in {"UNLOCK", "UNLOCK_VIA_PASSCODE", "FINALIZE_LOGIN"}
      BY <1>1, <1>2, <1>9 DEF Unwrap, Core, Stages
    <3> QED  BY <1>4, <3>1 DEF Serves
  <2> QED  BY <1>2, <1>3, <2>2, <2>3, CalmReply
<1> QED  BY <1>7, <1>8, <1>9 DEF Work

(* The tab asks the worker.                                                *)
LEMMA CalmPost ==
    ASSUME NEW o \in Ops, NEW type \in Types, NEW r, CalmState,
           op' = [op EXCEPT ![o] = r],
           inbox' = Append(inbox, [op |-> o, type |-> type]),
           UNCHANGED <<outbox, job, vaultKey, scene, unlocked, account, bundle, lastId>>,
           o \notin Asked \cup Handled \cup Answered,
           op[o].wait # "lock",
           \/ r.wait \in {"lock", "use"} /\ form' = form /\ form = None /\ unlocked
           \/ /\ form' = o /\ ~unlocked /\ vaultKey = None
              /\ r.wait \in {"login", "finalize", "unlock", "passcode"}
              /\ r.wait = "finalize" => Locking = {}
              /\ r.wait \in {"unlock", "passcode"} => account = r.acct
              /\ r.acct # None /\ form \in {None, o}
    PROVE  CalmTab' /\ CalmOrder' /\ CalmKey'
<1> USE DEF CalmState
<1>1. TypeOK /\ Core
  BY DEF Inv
<1>2. op'[o] = r /\ \A q \in Ops : q # o => op'[q] = op[q]
  BY <1>1, OpFacts
<1> DEFINE m == [op |-> o, type |-> type]
<1>3. m \in Message /\ m.op = o
  BY DEF Message
<1>4. /\ Asked' = Asked \cup {o} /\ Handled' = Handled /\ Answered' = Answered
  BY <1>1, <1>3, AppendOwners, OpFacts DEF Asked, Handled, Answered
<1>5. /\ \A i \in DOMAIN inbox' : i \in DOMAIN inbox \/ i = Len(inbox) + 1
      /\ \A i \in DOMAIN inbox : /\ inbox'[i] = inbox[i] /\ i < Len(inbox) + 1 /\ i \in Nat
                                 /\ inbox[i].op \in Asked /\ inbox[i].op \in Ops
      /\ inbox'[Len(inbox) + 1] = m
  BY <1>1, <1>3, QueueAppend, OpFacts
<1>6. \A i \in DOMAIN outbox : outbox[i].op \in Answered /\ outbox[i].op \in Ops
  BY <1>1, OpFacts
<1>7. form \in Ops \cup {None} /\ None \notin Ops
  BY <1>1, CalmFacts DEF TypeOK
<1>8. IF r.wait = "lock" THEN Locking' = Locking \cup {o} ELSE Locking' = Locking
  BY <1>2 DEF Locking
<1>9. Locking \subseteq Ops
  BY DEF Locking
<1> HIDE DEF Asked, Answered, Handled, m, Locking
<1>10. CASE r.wait \in {"lock", "use"} /\ form' = form /\ form = None /\ unlocked
  <2>1. CalmTab'
    <3>1. account \in {None, lastId} /\ (unlocked => account # None)
      BY DEF CalmTab
    <3>2. \A q \in Ops : op'[q].wait \notin FormWaits
      BY <1>2, <1>7, <1>10 DEF CalmTab, FormWaits
    <3> QED  BY <1>7, <1>10, <3>1, <3>2 DEF CalmTab
  <2>2. CalmOrder'
    <3>1. \A q \in Ops : Waiting(q)' => q \in Asked' \cup Handled' \cup Answered'
      BY <1>2, <1>4 DEF CalmOrder, Waiting
    <3>2. Locking' \cap Handled' = {}
      BY <1>4, <1>8 DEF CalmOrder
    <3>3. /\ \A i \in DOMAIN inbox' : inbox'[i].op # None
          /\ \A i \in DOMAIN outbox' : outbox'[i].op # None
      BY <1>3, <1>5, <1>6, <1>7
    <3>4. form' \notin Handled' \cup Answered'
      BY <1>1, <1>4, <1>7, <1>10, OpFacts
    <3> QED  BY <1>10, <3>1, <3>2, <3>3, <3>4 DEF CalmOrder
  <2>3. Locking' \cap Answered' = Locking \cap Answered
    BY <1>4, <1>8
  <2>4. CalmKey'
    BY <1>10, <2>3 DEF CalmKey
  <2> QED  BY <2>1, <2>2, <2>4
<1>11. CASE /\ form' = o /\ ~unlocked /\ vaultKey = None
            /\ r.wait \in {"login", "finalize", "unlock", "passcode"}
            /\ r.wait = "finalize" => Locking = {}
            /\ r.wait \in {"unlock", "passcode"} => account = r.acct
            /\ r.acct # None /\ form \in {None, o}
  <2>1. CalmTab'
    <3>1. account \in {None, lastId}
      BY DEF CalmTab
    <3>2. \A q \in Ops : q # o => op'[q].wait \notin FormWaits
      BY <1>2, <1>7, <1>11 DEF CalmTab
    <3>3. op'[o].wait \in FormWaits
      BY <1>2, <1>11 DEF FormWaits
    <3>4. op'[o].wait \notin EarlyWaits /\ op'[o].wait # "getPasscode"
      BY <1>2, <1>11 DEF EarlyWaits
    <3> QED  BY <1>2, <1>7, <1>11, <3>1, <3>2, <3>3, <3>4 DEF CalmTab
  <2>2. Locking' = Locking /\ o \notin Locking
    BY <1>8, <1>11 DEF Locking
  <2>3. CalmOrder'
    <3>1. \A q \in Ops : Waiting(q)' => q \in Asked' \cup Handled' \cup Answered'
      BY <1>2, <1>4 DEF CalmOrder, Waiting
    <3>2. Locking' \cap Handled' = {}
      BY <1>4, <2>2 DEF CalmOrder
    <3>3. ASSUME NEW i \in DOMAIN inbox', NEW j \in DOMAIN inbox',
                 inbox'[i].op = o, inbox'[j].op \in Locking
          PROVE  j < i
      <4>1. i = Len(inbox) + 1
        BY <1>5, <3>3
      <4>2. j \in DOMAIN inbox
        BY <1>3, <1>5, <2>2, <3>3
      <4> QED  BY <1>5, <4>1, <4>2
    <3>4. \A i \in DOMAIN outbox' : outbox'[i].op # o
      BY <1>6
    <3>5. form' \notin Handled' \cup Answered'
      BY <1>4, <1>11
    <3>6. form' # None /\ op'[form'].wait \in {"api", "finalize", "disk"} => Locking' = {}
      BY <1>2, <1>11, <2>2
    <3> QED  BY <1>11, <2>2, <3>1, <3>2, <3>3, <3>4, <3>5, <3>6 DEF CalmOrder
  <2>4. CalmKey'
    <3>1. \A i \in DOMAIN outbox' : outbox'[i].op # o
      BY <1>6
    <3>2. op'[form'].wait # "disk"
      BY <1>2, <1>11
    <3> HIDE DEF CalmState
    <3> QED  BY <1>2, <1>7, <1>11, <3>1, <3>2 DEF CalmKey
  <2> QED  BY <2>1, <2>3, <2>4
<1> QED  BY <1>10, <1>11

(* The operation of the form ends, or waits for something else than the    *)
(* worker.                                                                 *)
LEMMA CalmFormTurn ==
    ASSUME NEW o \in Ops, NEW w \in {"idle", "api", "disk"}, CalmState, o = form,
           op' = [op EXCEPT ![o].wait = w],
           UNCHANGED <<inbox, job, vaultKey, scene>>,
           \/ outbox' = outbox /\ o \notin Asked \cup Handled \cup Answered
           \/ outbox # <<>> /\ o = Head(outbox).op /\ outbox' = Tail(outbox),
           Locking = {}, op[o].wait \notin EarlyWaits,
           w = "idle" =>
              /\ form' = None /\ account' \in {None, lastId'}
              /\ IF unlocked' THEN account' # None /\ vaultKey = account' ELSE vaultKey = None,
           w # "idle" => form' = form /\ account' = account /\ lastId' = lastId /\ ~unlocked',
           w = "api" => vaultKey = None,
           w = "disk" => vaultKey = op[o].acct
    PROVE  CalmTab' /\ CalmOrder' /\ CalmKey'
<1> USE DEF CalmState
<1>1. TypeOK /\ Core /\ form # None /\ None \notin Ops
  BY CalmFacts DEF Inv
<1>2. /\ op'[o].wait = w /\ op'[o].acct = op[o].acct
      /\ \A q \in Ops : q # o => op'[q] = op[q]
  BY <1>1, OpFacts
<1>3. Asked' = Asked /\ Handled' = Handled
  BY DEF Asked, Handled
<1>4. /\ Answered \ {o} \subseteq Answered' /\ o \notin Asked \cup Handled \cup Answered'
      /\ Answered' \subseteq Answered
  <2>1. CASE outbox' = outbox /\ o \notin Asked \cup Handled \cup Answered
    BY <2>1 DEF Answered
  <2>2. CASE outbox # <<>> /\ o = Head(outbox).op /\ outbox' = Tail(outbox)
    <3>1. Answered' = Answered \ {o} /\ o \in Answered
      BY <1>1, <2>2, TailOwners, OpFacts DEF Answered, Core, Slots
    <3> QED  BY <1>1, <3>1 DEF Core, Slots
  <2> QED  BY <2>1, <2>2
<1>5. \A i \in DOMAIN outbox' : outbox'[i].op # o
  BY <1>4 DEF Answered, Owners
<1>6. Locking' = {}
  BY <1>2 DEF Locking
<1>7. \A i \in DOMAIN inbox : inbox[i].op \in Ops \ {o}
  BY <1>1, <1>4, OpFacts
<1>8. \A q \in Ops : q # o => op'[q].wait \notin FormWaits
  BY <1>1, <1>2 DEF CalmTab
<1>9. Answered \subseteq Ops /\ \A i \in DOMAIN outbox' : outbox'[i].op \in Answered'
  BY <1>1, OpFacts DEF Answered, Owners
<1>10. CalmOrder'
  <2>1. \A q \in Ops : Waiting(q)' => q \in Asked' \cup Handled' \cup Answered'
    BY <1>2, <1>3, <1>4 DEF CalmOrder, Waiting, Awaiting
  <2>2. /\ \A i, j \in DOMAIN inbox' : inbox'[j].op \in Locking' => j < i
        /\ \A i, j \in DOMAIN outbox' : outbox'[j].op \in Locking' => j < i
    BY <1>6
  <2> HIDE DEF Asked, Answered, Handled, Locking
  <2> QED  BY <1>6, <2>1, <2>2 DEF CalmOrder
<1> HIDE DEF Asked, Answered, Handled, Locking
<1>11. CASE w = "idle"
  <2>1. form' = None /\ \A q \in Ops : op'[q].wait \notin FormWaits
    BY <1>2, <1>8, <1>11 DEF FormWaits
  <2>2. CalmTab'
    BY <1>1, <1>11, <2>1 DEF CalmTab
  <2>3. CalmKey'
    BY <1>6, <1>11 DEF CalmKey
  <2> QED  BY <1>10, <2>2, <2>3
<1>12. CASE w \in {"api", "disk"}
  <2>1. CalmTab'
    <3>1. account' \in {None, lastId'}
      BY <1>12 DEF CalmTab
    <3>2. op[o].acct # None /\ op'[o].wait \in FormWaits
      BY <1>1, <1>2, <1>12 DEF CalmTab, FormWaits
    <3>3. op'[o].wait \notin EarlyWaits
      BY <1>2, <1>12 DEF EarlyWaits
    <3> QED  BY <1>2, <1>8, <1>12, <3>1, <3>2, <3>3 DEF CalmTab
  <2>2. CalmKey'
    BY <1>1, <1>2, <1>12 DEF CalmKey, Preparing
  <2> QED  BY <1>10, <2>1, <2>2
<1> QED  BY <1>11, <1>12

(* An operation without a form gets its answer, or one that nobody waits   *)
(* for.                                                                    *)
LEMMA CalmAnswer ==
    ASSUME NEW o \in Ops, CalmState, o # form,
           outbox # <<>>, o = Head(outbox).op, outbox' = Tail(outbox),
           op' = [op EXCEPT ![o].wait = "idle"],
           UNCHANGED <<inbox, job, vaultKey, scene, form, account, bundle, lastId>>,
           IF op[o].wait = "lock" THEN ~unlocked' ELSE unlocked' = unlocked
    PROVE  CalmTab' /\ CalmOrder' /\ CalmKey'
<1> USE DEF CalmState
<1>1. TypeOK /\ Core /\ None \notin Ops
  BY CalmFacts DEF Inv
<1>2. op'[o].wait = "idle" /\ \A q \in Ops : q # o => op'[q] = op[q]
  BY <1>1, OpFacts
<1>3. Asked' = Asked /\ Handled' = Handled
  BY DEF Asked, Handled
<1>4. Answered' = Answered \ {o} /\ o \in Answered
  BY <1>1, TailOwners, OpFacts DEF Answered, Core, Slots
<1>5. \A i \in DOMAIN outbox' : i \in Nat /\ i + 1 \in DOMAIN outbox /\ outbox'[i] = outbox[i + 1]
  BY <1>1, QueueTail, OpFacts
<1>6. Locking' = Locking \ {o}
  BY <1>2 DEF Locking
<1>7. form \in Ops \cup {None}
  BY <1>1 DEF TypeOK
<1>8. op[o].wait \notin FormWaits
  BY DEF CalmTab
<1> HIDE DEF Asked, Answered, Handled
<1>9. CalmTab'
  <2>1. \A q \in Ops : op'[q].wait \in FormWaits <=> form = q
    BY <1>2 DEF CalmTab, FormWaits
  <2>2. form # None => op'[form] = op[form]
    BY <1>2, <1>7
  <2>3. unlocked' => unlocked
    BY <1>1 DEF TypeOK
  <2> QED  BY <2>1, <2>2, <2>3 DEF CalmTab
<1>10. form # None => op'[form] = op[form]
  BY <1>2, <1>7
<1>11. CalmOrder'
  <2>1. \A q \in Ops : Waiting(q)' => q \in Asked' \cup Handled' \cup Answered'
    BY <1>2, <1>3, <1>4 DEF CalmOrder, Waiting, Awaiting
  <2>2. Locking' \cap Handled' = {}
    BY <1>3, <1>6 DEF CalmOrder
  <2>3. \A i, j \in DOMAIN inbox' : inbox'[i].op = form /\ inbox'[j].op \in Locking' => j < i
    BY <1>6 DEF CalmOrder
  <2>4. \A i, j \in DOMAIN outbox' : outbox'[i].op = form /\ outbox'[j].op \in Locking' => j < i
    BY <1>5, <1>6 DEF CalmOrder
  <2>5. form \in Handled' \cup Answered' => Locking' \cap Asked' = {}
    BY <1>3, <1>4, <1>6 DEF CalmOrder
  <2>6. form # None /\ op[form].wait \in {"api", "finalize", "disk"} => Locking' = {}
    BY <1>6 DEF CalmOrder
  <2> HIDE DEF Locking
  <2> QED  BY <1>10, <2>1, <2>2, <2>3, <2>4, <2>5, <2>6 DEF CalmOrder
<1>12. CalmKey'
  <2>1. form \in Answered <=> form \in Answered'
    BY <1>4
  <2>2. \A i \in DOMAIN outbox' : \E j \in DOMAIN outbox : outbox'[i] = outbox[j]
    BY <1>5
  <2>3. CASE op[o].wait = "lock"
    <3>1. o \in Locking \cap Answered
      BY <1>4, <2>3 DEF Locking
    <3>2. unlocked => vaultKey = None /\ form = None
      BY <3>1 DEF CalmKey, CalmTab
    <3>3. ~unlocked'
      BY <2>3
    <3> HIDE DEF Locking
    <3>4. CASE unlocked
      BY <3>2, <3>3, <3>4 DEF CalmKey
    <3>5. CASE ~unlocked
      BY <1>10, <2>1, <2>2, <3>3, <3>5 DEF CalmKey
    <3> QED  BY <3>4, <3>5
  <2>4. CASE op[o].wait # "lock"
    <3>1. Locking' \cap Answered' = Locking \cap Answered
      BY <1>4, <1>6, <2>4 DEF Locking
    <3>2. unlocked' = unlocked
      BY <2>4
    <3> HIDE DEF Locking
    <3>3. CASE unlocked
      BY <3>1, <3>2, <3>3 DEF CalmKey
    <3>4. CASE ~unlocked
      BY <1>10, <2>1, <2>2, <3>2, <3>4 DEF CalmKey
    <3> QED  BY <3>3, <3>4
  <2> QED  BY <2>3, <2>4
<1> QED  BY <1>9, <1>11, <1>12

LEMMA CalmReceive ==
    ASSUME CalmState, Receive, UNCHANGED scene
    PROVE  CalmTab' /\ CalmOrder' /\ CalmKey'
<1> DEFINE o == Head(outbox).op
           ok == Head(outbox).ok
<1>1. TypeOK /\ Core
  BY DEF CalmState, Inv
<1>2. /\ outbox # <<>> /\ o \in Ops /\ ok \in BOOLEAN /\ o \in Answered
      /\ 1 \in DOMAIN outbox /\ outbox[1].op = o /\ outbox[1].ok = ok
  BY <1>1, OpFacts, QueueTail DEF Receive, Answer
<1>3. ~LogsOut(o) /\ op[o].wait \notin {"logout", "leave"}
  BY <1>2, CalmFacts DEF LogsOut
<1>4. /\ outbox' = Tail(outbox) /\ UNCHANGED <<inbox, job, vaultKey>> /\ UNCHANGED diskVars
      /\ IF Waiting(o) THEN Settle(o, ok) ELSE UNCHANGED tabVars
  BY <1>3 DEF Receive
<1>5. bundle = lastId /\ lastId' = lastId /\ bundle' = bundle
  BY <1>4 DEF CalmState, diskVars
<1> HIDE DEF o, ok
<1>6. o = Head(outbox).op
  BY DEF o
<1>7. op[o].wait \in Awaiting \cup {"idle"}
  BY <1>1, <1>2 DEF Core, Slots
<1>8. o = form <=> op[o].wait \in FormWaits
  BY <1>2 DEF CalmState, CalmTab
<1>9. CASE ~Waiting(o)
  <2>1. op[o].wait = "idle" /\ o # form
    BY <1>7, <1>8, <1>9 DEF Waiting, FormWaits
  <2>2. UNCHANGED <<unlocked, account, form, op>>
    BY <1>4, <1>9 DEF tabVars
  <2>3. op' = [op EXCEPT ![o].wait = "idle"]
    BY <1>1, <2>1, <2>2, OpFacts
  <2> QED  BY <1>2, <1>4, <1>5, <1>6, <2>1, <2>2, <2>3, CalmAnswer
<1>10. CASE Waiting(o) /\ o # form
  <2>1. op[o].wait \in {"lock", "use"}
    BY <1>3, <1>7, <1>8, <1>10 DEF FormWaits, Waiting, Awaiting
  <2>2. CASE Succeed(o) /\ op[o].wait = "use"
    <3>1. op' = [op EXCEPT ![o].wait = "idle"] /\ form' = form /\ account' = account
          /\ unlocked' = unlocked
      BY <1>1, <1>10, <2>2 DEF Succeed, TypeOK
    <3> QED  BY <1>2, <1>4, <1>5, <1>6, <1>10, <2>2, <3>1, CalmAnswer
  <2>3. CASE Reject({o})
    <3>1. op' = [op EXCEPT ![o].wait = "idle"]
      BY <1>1, <1>2, <2>1, <2>3, RejectOne
    <3>2. form' = form /\ account' = account
      BY <1>10, <2>1, <2>3 DEF Reject
    <3>3. IF op[o].wait = "lock" THEN ~unlocked' ELSE unlocked' = unlocked
      BY <1>1, <2>1, <2>3 DEF Reject, TypeOK
    <3> QED  BY <1>2, <1>4, <1>5, <1>6, <1>10, <3>1, <3>2, <3>3, CalmAnswer
  <2> QED  BY <1>4, <1>10, <2>1, <2>2, <2>3 DEF Settle
<1>11. CASE Waiting(o) /\ o = form
  <2>1. op[o].wait \in {"login", "finalize", "unlock", "passcode"}
    BY <1>8, <1>11 DEF Waiting, Awaiting, FormWaits
  <2>e. op[o].wait \notin EarlyWaits
    BY <2>1 DEF EarlyWaits
  <2>2. form # None /\ ~unlocked /\ Locking = {} /\ op[o].acct # None
        /\ op[o].wait \notin EarlyWaits
    BY <1>2, <1>6, <1>11, <2>e, CalmFacts, LocksAhead DEF CalmState, CalmTab
  <2>3. /\ account \in {None, lastId}
        /\ op[o].wait \in {"unlock", "passcode"} => account = op[o].acct
    BY <1>11, <2>2 DEF CalmState, CalmTab
  <2>4. IF op[o].wait = "login" THEN vaultKey = None
        ELSE vaultKey = IF ok THEN op[o].acct ELSE None
    BY <1>2, <1>11, <2>1, <2>2 DEF CalmState, CalmKey
  <2>5. CASE op[o].wait = "login" /\ ok /\ op' = [op EXCEPT ![o].wait = "api"]
               /\ UNCHANGED <<unlocked, account, form, left>>
    <3>1. UNCHANGED <<inbox, job, vaultKey, scene>>
      BY <1>4
    <3> QED  BY <1>2, <1>4, <1>5, <1>6, <1>11, <2>2, <2>4, <2>5, <3>1, CalmFormTurn
  <2>6. CASE op[o].wait = "finalize" /\ ok /\ op' = [op EXCEPT ![o].wait = "disk"]
               /\ UNCHANGED <<unlocked, account, busy, form, left>>
    <3>1. UNCHANGED <<inbox, job, vaultKey, scene>>
      BY <1>4
    <3> QED  BY <1>2, <1>4, <1>5, <1>6, <1>11, <2>2, <2>4, <2>6, <3>1, CalmFormTurn
  <2>7. CASE op[o].wait \in {"unlock", "passcode"} /\ ok /\ Succeed(o)
    <3>1. PICK w \in {"idle", "api", "disk"} : w = "idle"
      OBVIOUS
    <3>2. UNCHANGED <<inbox, job, vaultKey, scene>> /\ op' = [op EXCEPT ![o].wait = w]
      BY <1>4, <2>7, <3>1 DEF Succeed
    <3>3. /\ form' = None /\ account' \in {None, lastId'} /\ unlocked'
          /\ account' # None /\ vaultKey = account'
      BY <1>5, <1>11, <2>2, <2>3, <2>4, <2>7 DEF Succeed
    <3> QED  BY <1>2, <1>4, <1>6, <1>11, <2>2, <3>1, <3>2, <3>3, CalmFormTurn
  <2>8. CASE Reject({o}) /\ ~ok
    <3>1. PICK w \in {"idle", "api", "disk"} : w = "idle"
      OBVIOUS
    <3>2. op' = [op EXCEPT ![o].wait = w]
      BY <1>1, <1>2, <2>1, <2>8, <3>1, RejectOne
    <3>3. UNCHANGED <<inbox, job, vaultKey, scene>>
      BY <1>4
    <3>4. form' = None /\ account' \in {None, lastId'} /\ ~unlocked' /\ vaultKey = None
      BY <1>5, <1>11, <2>2, <2>3, <2>4, <2>8 DEF Reject
    <3> QED  BY <1>2, <1>4, <1>6, <1>11, <2>2, <3>1, <3>2, <3>3, <3>4, CalmFormTurn
  <2> QED  BY <1>4, <1>11, <2>1, <2>5, <2>6, <2>7, <2>8 DEF Settle
<1> QED  BY <1>9, <1>10, <1>11

(* The operation of the form asks something else than the worker.          *)
LEMMA CalmAwait ==
    ASSUME NEW o \in Ops, NEW wait \in Preparing, NEW a, CalmState,
           Await(o, wait, a), form' = o, form \in {None, o}, ~unlocked, vaultKey = None,
           UNCHANGED scene, op[o].wait # "lock",
           o \notin Asked \cup Handled \cup Answered,
           IF wait \in EarlyWaits THEN account # None ELSE a # None,
           wait = "getPasscode" => account = a
    PROVE  CalmTab' /\ CalmOrder' /\ CalmKey'
<1> USE DEF CalmState
<1>1. TypeOK /\ Core
  BY DEF Inv
<1>2. /\ UNCHANGED <<unlocked, account, lastId, inbox, outbox, job, vaultKey>>
      /\ op' = [op EXCEPT ![o] = [wait |-> wait, acct |-> a, right |-> FALSE]]
  BY DEF Await, diskVars, workerVars
<1>3. op'[o].wait = wait /\ op'[o].acct = a /\ \A q \in Ops : q # o => op'[q] = op[q]
  BY <1>1, <1>2, OpFacts
<1>4. form \in Ops \cup {None} /\ None \notin Ops
  BY <1>1, CalmFacts DEF TypeOK
<1>5. Asked' = Asked /\ Handled' = Handled /\ Answered' = Answered
  BY <1>2 DEF Asked, Handled, Answered
<1>6. Locking' = Locking
  BY <1>3 DEF Locking, Preparing
<1>7. /\ \A i \in DOMAIN inbox : inbox[i].op # o
      /\ \A i \in DOMAIN outbox : outbox[i].op # o
  BY <1>1, OpFacts
<1>8. wait \notin Awaiting \cup {"unlock", "passcode", "login", "api", "finalize", "disk"}
      /\ wait \in FormWaits
  BY DEF Preparing, Awaiting, FormWaits
<1> HIDE DEF Asked, Handled, Answered, Locking
<1>9. CalmTab'
  <2>1. account \in {None, lastId}
    BY DEF CalmTab
  <2>2. \A q \in Ops : q # o => op'[q].wait \notin FormWaits
    BY <1>3, <1>4 DEF CalmTab
  <2> QED  BY <1>2, <1>3, <1>4, <1>8, <2>1, <2>2 DEF CalmTab
<1>10. CalmOrder'
  <2>1. \A q \in Ops : Waiting(q)' => q \in Asked' \cup Handled' \cup Answered'
    BY <1>3, <1>5, <1>8 DEF CalmOrder, Waiting
  <2>2. Locking' \cap Handled' = {}
    BY <1>5, <1>6 DEF CalmOrder
  <2>3. form' \notin Handled' \cup Answered'
    BY <1>5
  <2> QED  BY <1>2, <1>3, <1>7, <1>8, <2>1, <2>2, <2>3 DEF CalmOrder
<1>11. CalmKey'
  BY <1>2, <1>3, <1>4, <1>8 DEF CalmKey
<1> QED  BY <1>9, <1>10, <1>11

(* The operation of the form ends before it asked the worker.              *)
LEMMA CalmFail ==
    ASSUME NEW o \in Ops, CalmState, op[o].wait \in Preparing, Fail(o), UNCHANGED scene
    PROVE  CalmTab' /\ CalmOrder' /\ CalmKey'
<1> USE DEF CalmState
<1>1. TypeOK /\ Core
  BY DEF Inv
<1>2. op[o].wait \in FormWaits /\ op[o].wait \notin Awaiting \cup {"lock", "logout", "idle"}
  BY DEF Preparing, FormWaits, Awaiting
<1>3. o = form /\ None \notin Ops
  BY <1>2, CalmFacts DEF CalmTab
<1>4. /\ UNCHANGED <<lastId, inbox, outbox, job, vaultKey>>
      /\ op' = [op EXCEPT ![o].wait = "idle"]
      /\ form' = None /\ account' \in {None, account} /\ (unlocked' => unlocked)
  <2>1. op' = [op EXCEPT ![o].wait = "idle"] /\ (unlocked' => unlocked)
    BY <1>1, <1>2, RejectOne DEF Fail
  <2> QED  BY <1>3, <2>1 DEF Fail, Reject, diskVars, workerVars
<1>5. op'[o].wait = "idle" /\ \A q \in Ops : q # o => op'[q] = op[q]
  BY <1>1, <1>4, OpFacts
<1>6. ~unlocked /\ vaultKey = None /\ account \in {None, lastId}
  <2>1. ~unlocked /\ form # None
    BY <1>3, CalmFacts
  <2> QED  BY <1>3, <2>1 DEF CalmKey, CalmTab
<1>7. Asked' = Asked /\ Handled' = Handled /\ Answered' = Answered
  BY <1>4 DEF Asked, Handled, Answered
<1>8. Locking' = Locking
  BY <1>2, <1>5 DEF Locking
<1>9. /\ \A i \in DOMAIN inbox : inbox[i].op # None
      /\ \A i \in DOMAIN outbox : outbox[i].op # None
      /\ Handled \subseteq Ops /\ Answered \subseteq Ops
  BY <1>1, <1>3, OpFacts
<1> HIDE DEF Asked, Handled, Answered, Locking
<1>10. CalmTab'
  <2>1. \A q \in Ops : op'[q].wait \notin FormWaits
    BY <1>3, <1>5 DEF CalmTab, FormWaits
  <2> QED  BY <1>3, <1>4, <1>6, <2>1 DEF CalmTab
<1>11. CalmOrder'
  <2>1. \A q \in Ops : Waiting(q)' => q \in Asked' \cup Handled' \cup Answered'
    BY <1>5, <1>7 DEF CalmOrder, Waiting, Awaiting
  <2>2. Locking' \cap Handled' = {}
    BY <1>7, <1>8 DEF CalmOrder
  <2>3. form' \notin Handled' \cup Answered'
    BY <1>3, <1>4, <1>7, <1>9
  <2> QED  BY <1>4, <1>9, <2>1, <2>2, <2>3 DEF CalmOrder
<1>12. CalmKey'
  BY <1>4, <1>6 DEF CalmKey
<1> QED  BY <1>10, <1>11, <1>12

LEMMA CalmPrepare ==
    ASSUME NEW o \in Ops, CalmState, UNCHANGED scene,
           PreLoginAnswered(o) \/ BundleRead(o) \/ AccountIdRead(o) \/ PasscodeRead(o)
    PROVE  CalmTab' /\ CalmOrder' /\ CalmKey'
<1>1. TypeOK /\ Core /\ bundle = lastId
  BY DEF CalmState, Inv
<1>2. op[o].wait \in Preparing /\ op[o].wait # "lock"
  BY DEF PreLoginAnswered, BundleRead, AccountIdRead, PasscodeRead, Preparing
<1>3. o \notin Asked \cup Handled \cup Answered
  BY <1>1, <1>2 DEF Core, Slots, Preparing, Awaiting
<1>4. o = form /\ form # None
  BY <1>2, CalmFacts DEF CalmState, CalmTab, FormWaits, Preparing
<1>5. ~unlocked /\ vaultKey = None /\ account \in {None, lastId}
  BY <1>2, <1>4, CalmFacts DEF CalmState, CalmTab, CalmKey
<1>6. /\ op[o].wait \in EarlyWaits => account # None
      /\ op[o].wait \in {"preLogin", "getPasscode"} => op[o].acct # None
      /\ op[o].wait = "getPasscode" => account = op[o].acct
  BY <1>4 DEF CalmState, CalmTab, EarlyWaits
<1>7. CASE Fail(o)
  BY <1>2, <1>7, CalmFail
<1>8. ASSUME NEW type \in {"LOGIN", "UNLOCK", "UNLOCK_VIA_PASSCODE"},
             NEW wait \in {"login", "unlock", "passcode"},
             NEW a, NEW right \in BOOLEAN, Post(o, type, wait, a, right),
             UNCHANGED <<unlocked, account, form, diskVars>>,
             a # None, wait \in {"unlock", "passcode"} => account = a
      PROVE  CalmTab' /\ CalmOrder' /\ CalmKey'
  <2> DEFINE r == [wait |-> wait, acct |-> a, right |-> right]
  <2>1. op' = [op EXCEPT ![o] = r] /\ r.wait = wait /\ r.acct = a
    BY <1>8 DEF Post
  <2> HIDE DEF r
  <2>2. /\ inbox' = Append(inbox, [op |-> o, type |-> type])
        /\ UNCHANGED <<outbox, job, vaultKey, scene, unlocked, account, bundle, lastId>>
    BY <1>8 DEF Post, diskVars
  <2>3. form' = o /\ form \in {None, o} /\ type \in Types
    BY <1>4, <1>8 DEF Types
  <2> QED  BY <1>2, <1>3, <1>5, <1>8, <2>1, <2>2, <2>3, CalmPost
<1>9. ASSUME NEW type \in {"LOGIN", "UNLOCK"}, NEW wait \in {"login", "unlock"}, NEW a,
             AskWorker(o, type, wait, a), ~Fail(o), a # None, wait = "unlock" => account = a
      PROVE  CalmTab' /\ CalmOrder' /\ CalmKey'
  <2>1. PICK right \in BOOLEAN : Post(o, type, wait, a, right)
    BY <1>9 DEF AskWorker
  <2>2. UNCHANGED <<unlocked, account, form, diskVars>>
    BY <1>9 DEF AskWorker
  <2> QED  BY <1>8, <1>9, <2>1, <2>2
<1>10. ASSUME NEW wait \in Preparing, NEW a, Await(o, wait, a), UNCHANGED form,
              IF wait \in EarlyWaits THEN account # None ELSE a # None,
              wait = "getPasscode" => account = a
       PROVE  CalmTab' /\ CalmOrder' /\ CalmKey'
  BY <1>2, <1>3, <1>4, <1>5, <1>10, CalmAwait
<1>11. CASE PreLoginAnswered(o) /\ ~Fail(o)
  BY <1>6, <1>9, <1>11 DEF PreLoginAnswered
<1>12. CASE BundleRead(o) /\ ~Fail(o)
  <2>1. account # None /\ account = bundle
    BY <1>1, <1>5, <1>6, <1>12 DEF BundleRead, EarlyWaits
  <2>2. AskWorker(o, "UNLOCK", "unlock", bundle)
    BY <1>12, <2>1 DEF BundleRead
  <2> QED  BY <1>9, <1>12, <2>1, <2>2
<1>13. CASE AccountIdRead(o) /\ ~Fail(o)
  <2>1. account # None /\ account = lastId
    BY <1>5, <1>6, <1>13 DEF AccountIdRead, EarlyWaits
  <2>2. "preLogin" \in Preparing \ EarlyWaits /\ "getPasscode" \in Preparing \ EarlyWaits
    BY DEF Preparing, EarlyWaits
  <2>3. \/ Await(o, "preLogin", lastId) /\ UNCHANGED form
        \/ Await(o, "getPasscode", lastId) /\ UNCHANGED form
    BY <1>13 DEF AccountIdRead
  <2> QED  BY <1>10, <2>1, <2>2, <2>3
<1>14. CASE PasscodeRead(o) /\ ~Fail(o)
  <2>1. PICK right \in BOOLEAN : Post(o, "UNLOCK_VIA_PASSCODE", "passcode", op[o].acct, right)
    BY <1>14 DEF PasscodeRead
  <2>2. UNCHANGED <<unlocked, account, form, diskVars>> /\ op[o].wait = "getPasscode"
    BY <1>14 DEF PasscodeRead
  <2> QED  BY <1>6, <1>8, <2>1, <2>2
<1> QED  BY <1>7, <1>11, <1>12, <1>13, <1>14

LEMMA CalmContinue ==
    ASSUME NEW o \in Ops, CalmState, LoginAnswered(o) \/ BundleSaved(o), UNCHANGED scene
    PROVE  CalmTab' /\ CalmOrder' /\ CalmKey' /\ bundle' = lastId'
<1>1. TypeOK /\ Core /\ bundle = lastId /\ ~May("fail")
  BY CalmFacts DEF CalmState, Inv
<1>2. op[o].wait \in {"api", "disk"} /\ op[o].wait \notin EarlyWaits
  BY DEF LoginAnswered, BundleSaved, EarlyWaits
<1>3. o = form /\ form # None
  BY <1>2, CalmFacts DEF CalmState, CalmTab, FormWaits
<1>4. o \notin Asked \cup Handled \cup Answered
  BY <1>1, <1>2 DEF Core, Slots, Awaiting
<1>5. ~unlocked /\ Locking = {} /\ op[o].acct # None /\ account \in {None, lastId}
  BY <1>2, <1>3, CalmFacts DEF CalmState, CalmTab, CalmOrder
<1>6. IF op[o].wait = "api" THEN vaultKey = None ELSE vaultKey = op[o].acct
  BY <1>2, <1>3, <1>5 DEF CalmState, CalmKey
<1>7. PICK w \in {"idle", "api", "disk"} : w = "idle"
  OBVIOUS
<1>8. CASE LoginAnswered(o)
  <2>1. /\ UNCHANGED <<bundle, lastId, outbox, job, vaultKey, scene>> /\ op[o].wait = "api"
    BY <1>8 DEF LoginAnswered, diskVars
  <2>2. CASE /\ inbox' = Append(inbox, [op |-> o, type |-> "FINALIZE_LOGIN"])
             /\ op' = [op EXCEPT ![o].wait = "finalize"]
             /\ UNCHANGED <<unlocked, account, form, left>>
    <3> DEFINE r == [op[o] EXCEPT !.wait = "finalize"]
    <3>1. r.wait = "finalize" /\ r.acct = op[o].acct
      BY <1>1, OpFacts
    <3>2. op' = [op EXCEPT ![o] = r]
      BY <2>2
    <3> HIDE DEF r
    <3>3. "FINALIZE_LOGIN" \in Types
      BY DEF Types
    <3> QED  BY <1>1, <1>3, <1>4, <1>5, <1>6, <2>1, <2>2, <3>1, <3>2, <3>3, CalmPost
  <2>3. CASE Reject({o}) /\ UNCHANGED inbox
    <3>1. op' = [op EXCEPT ![o].wait = w]
      BY <1>1, <1>7, <2>1, <2>3, RejectOne
    <3>2. form' = None /\ account' \in {None, lastId'} /\ ~unlocked' /\ vaultKey = None
      BY <1>3, <1>5, <1>6, <2>1, <2>3 DEF Reject
    <3>3. UNCHANGED <<inbox, job, vaultKey, scene>> /\ outbox' = outbox
      BY <2>1, <2>3
    <3> QED  BY <1>1, <1>2, <1>3, <1>4, <1>5, <1>7, <2>1, <3>1, <3>2, <3>3, CalmFormTurn
  <2> QED  BY <1>8, <2>2, <2>3 DEF LoginAnswered
<1>9. CASE BundleSaved(o)
  <2>1. /\ op[o].wait = "disk" /\ op' = [op EXCEPT ![o].wait = w] /\ form' = None
        /\ account' = lastId' /\ bundle' = lastId' /\ account' # None /\ unlocked'
        /\ account' = op[o].acct
    BY <1>1, <1>3, <1>5, <1>7, <1>9 DEF BundleSaved
  <2>2. UNCHANGED <<inbox, job, vaultKey, scene>> /\ outbox' = outbox
    BY <1>9 DEF BundleSaved, workerVars
  <2>3. vaultKey = account'
    BY <1>6, <2>1
  <2> QED  BY <1>2, <1>3, <1>4, <1>5, <1>7, <2>1, <2>2, <2>3, CalmFormTurn
<1> QED  BY <1>8, <1>9

LEMMA CalmBegin ==
    ASSUME NEW o \in Ops, CalmState, Begin(o), UNCHANGED scene, ~Ending'
    PROVE  CalmTab' /\ CalmOrder' /\ CalmKey' /\ bundle' = lastId'
<1>1. TypeOK /\ Core /\ BusyIsAccurate /\ bundle = lastId
  BY DEF CalmState, Inv
<1>2. UNCHANGED <<bundle, lastId>> /\ Unused(o)
  BY DEF Begin, Login, Unlock, UnlockViaPasscode, Lock, Logout, UseEntry, Submit, Await, diskVars
<1>3. op[o].wait = "idle" /\ o \notin Asked \cup Handled \cup Answered
  BY <1>2 DEF Unused, Asked, Handled, Answered, Owners
<1>4. /\ form = None => \A q \in Ops : op[q].wait \notin FormWaits
      /\ form # None => ~unlocked
      /\ account \in {None, lastId} /\ (unlocked => account # None)
  BY CalmFacts DEF CalmState, CalmTab
<1>5. form = None /\ ~unlocked => vaultKey = None
  BY DEF CalmState, CalmKey
<1>6. ASSUME NEW wait \in Preparing, NEW a, Submit(o, wait, a), ~unlocked,
             IF wait \in EarlyWaits THEN account # None ELSE a # None,
             wait = "getPasscode" => account = a
      PROVE  CalmTab' /\ CalmOrder' /\ CalmKey' /\ bundle' = lastId'
  <2>1. form = None /\ form' = o /\ vaultKey = None /\ Await(o, wait, a)
    BY <1>5, <1>6 DEF Submit
  <2>2. op[o].wait # "lock"
    BY <1>3
  <2> QED  BY <1>1, <1>2, <1>3, <1>6, <2>1, <2>2, CalmAwait
<1>7. ASSUME NEW type \in {"CLEAR_KEYS", "USE_ENTRY"}, NEW wait \in {"lock", "use"},
             Post(o, type, wait, account, TRUE), unlocked,
             UNCHANGED <<unlocked, account, form>>
      PROVE  CalmTab' /\ CalmOrder' /\ CalmKey' /\ bundle' = lastId'
  <2> DEFINE r == [wait |-> wait, acct |-> account, right |-> TRUE]
  <2>1. op' = [op EXCEPT ![o] = r] /\ r.wait = wait
    BY <1>7 DEF Post
  <2> HIDE DEF r
  <2>2. /\ inbox' = Append(inbox, [op |-> o, type |-> type])
        /\ UNCHANGED <<outbox, job, vaultKey, scene, unlocked, account, bundle, lastId>>
    BY <1>2, <1>7 DEF Post
  <2>3. form = None /\ form' = form /\ type \in Types
    BY <1>4, <1>7 DEF Types
  <2>4. CalmTab' /\ CalmOrder' /\ CalmKey'
    BY <1>3, <1>7, <2>1, <2>2, <2>3, CalmPost
  <2> QED  BY <1>1, <1>2, <2>4
<1>8. scene.accts \subseteq Accounts /\ None \notin Accounts
  BY <1>1, ConstAssumption DEF TypeOK, Scene, ConstAssumption
<1>9. ASSUME NEW a \in scene.accts, Login(o, a)
      PROVE  CalmTab' /\ CalmOrder' /\ CalmKey' /\ bundle' = lastId'
  <2>1. ~unlocked /\ a # None /\ "preLogin" \in Preparing \ EarlyWaits
    BY <1>4, <1>8, <1>9 DEF Login, Preparing, EarlyWaits
  <2> QED  BY <1>6, <1>9, <2>1 DEF Login
<1>10. CASE Unlock(o)
  <2>1. ~unlocked /\ account # None /\ "getBundle" \in Preparing \cap EarlyWaits
    BY <1>1, <1>4, <1>10 DEF Unlock, OverlayShown, Preparing, EarlyWaits
  <2> QED  BY <1>6, <1>10, <2>1 DEF Unlock
<1>11. CASE UnlockViaPasscode(o)
  <2>1. ~unlocked /\ account # None /\ "getPasscodeId" \in Preparing \cap EarlyWaits
    BY <1>1, <1>4, <1>11 DEF UnlockViaPasscode, OverlayShown, Preparing, EarlyWaits
  <2> QED  BY <1>6, <1>11, <2>1 DEF UnlockViaPasscode
<1>12. CASE Lock(o)
  <2>1. form = None
    BY <1>4, <1>12 DEF Lock
  <2>2. ~busy
    BY <1>1, <1>4, <2>1 DEF BusyIsAccurate, FormWaits
  <2> QED  BY <1>7, <1>12, <2>2 DEF Lock
<1>13. ASSUME Logout(o)  PROVE FALSE
  <2>1. op'[o].wait = "logout"
    BY <1>1, <1>13, OpFacts DEF Logout, Post
  <2> QED  BY <2>1 DEF Ending
<1>14. CASE UseEntry(o)
  BY <1>7, <1>14 DEF UseEntry
<1> QED  BY <1>9, <1>10, <1>11, <1>12, <1>13, <1>14 DEF Begin

(* A tab that logs out goes on with it until the page is loaded anew.      *)
LEMMA EndingGoesOn ==
    ASSUME Inv, Calm, Ending, Next, ~Load
    PROVE  Ending'
<1>1. TypeOK /\ Core
  BY DEF Inv
<1>2. PICK e \in Ops : op[e].wait \in {"logout", "leave"}
  BY DEF Ending
<1>3. ASSUME Terminate  PROVE Ending'
  <2>1. op'[e] = [op[e] EXCEPT !.wait =
                    IF ~Waiting(e) THEN @ ELSE IF @ = "logout" THEN "leave" ELSE "idle"]
    BY <1>1, <1>3, OpFacts DEF Terminate, Reject
  <2>2. op'[e].wait = "leave"
    BY <1>1, <1>2, <2>1, OpFacts DEF Waiting, Awaiting
  <2> QED  BY <2>2 DEF Ending
<1>4. ASSUME op'[e] = op[e]  PROVE Ending'
  BY <1>2, <1>4 DEF Ending
<1>5. ASSUME NEW o \in Ops, NEW r, op' = [op EXCEPT ![o] = r], o # e  PROVE Ending'
  <2>1. op'[e] = op[e]
    BY <1>1, <1>5, OpFacts
  <2> QED  BY <1>4, <2>1
<1>6. ASSUME NEW o \in Ops, op[o].wait \notin {"logout", "leave"}, Reject({o})  PROVE Ending'
  <2>1. op'[e] = op[e]
    BY <1>1, <1>2, <1>6 DEF Reject
  <2> QED  BY <1>4, <2>1
<1>7. CASE Receive
  <2> DEFINE o == Head(outbox).op
             ok == Head(outbox).ok
  <2>1. o \in Ops
    BY <1>1, <1>7, OpFacts, QueueTail DEF Receive, Answer
  <2>2. CASE LogsOut(o) /\ Terminate
    BY <1>3, <2>2
  <2>3. CASE ~LogsOut(o) /\ Waiting(o) /\ Settle(o, ok)
    <3>1. op[o].wait \notin {"logout", "leave"} /\ o # e
      BY <1>2, <2>3 DEF LogsOut, Waiting, Awaiting
    <3> HIDE DEF o, ok
    <3>2. \/ Reject({o})
          \/ \E w \in {"idle", "api", "disk"} : op' = [op EXCEPT ![o].wait = w]
      BY <2>3 DEF Settle, Succeed
    <3> QED  BY <1>5, <1>6, <2>1, <3>1, <3>2
  <2>4. CASE UNCHANGED tabVars
    BY <1>4, <2>4 DEF tabVars
  <2> QED  BY <1>7, <2>2, <2>3, <2>4 DEF Receive
<1>8. CASE Take \/ Remount \/ OtherTab
  BY <1>4, <1>8 DEF Take, Remount, OtherTab, tabVars
<1>9. ASSUME NEW o \in Ops, Begin(o)  PROVE Ending'
  <2>1. Unused(o) /\ o # e
    BY <1>2, <1>9
    DEF Begin, Login, Unlock, UnlockViaPasscode, Lock, Logout, UseEntry, Submit, Unused
  <2>2. op' = op \/ \E r : op' = [op EXCEPT ![o] = r]
    BY <1>9 DEF Begin, Login, Unlock, UnlockViaPasscode, Lock, Logout, UseEntry, Submit, Post, Await
  <2> QED  BY <1>4, <1>5, <2>1, <2>2
<1>p. ASSUME NEW o \in Ops,
             PreLoginAnswered(o) \/ BundleRead(o) \/ AccountIdRead(o) \/ PasscodeRead(o)
      PROVE  Ending'
  <2>1. op[o].wait \notin {"logout", "leave"} /\ o # e
    BY <1>2, <1>p DEF PreLoginAnswered, BundleRead, AccountIdRead, PasscodeRead
  <2>2. Reject({o}) \/ \E r : op' = [op EXCEPT ![o] = r]
    BY <1>p DEF PreLoginAnswered, BundleRead, AccountIdRead, PasscodeRead, AskWorker, Post,
                Await, Fail
  <2> QED  BY <1>5, <1>6, <2>1, <2>2
<1>10. ASSUME NEW o \in Ops, LoginAnswered(o) \/ BundleSaved(o)  PROVE Ending'
  <2>1. op[o].wait \in {"api", "disk"} /\ o # e
    BY <1>2, <1>10 DEF LoginAnswered, BundleSaved
  <2>2. Reject({o}) \/ \E w \in {"idle", "finalize"} : op' = [op EXCEPT ![o].wait = w]
    BY <1>10 DEF LoginAnswered, BundleSaved
  <2> QED  BY <1>5, <1>6, <2>1, <2>2
<1>11. ASSUME NEW o \in Ops, Work(o)  PROVE Ending'
  BY <1>4, <1>11 DEF Work, Derive, Prove, Unwrap, tabVars
<1>12. ASSUME Crash \/ \E o \in Ops : TimeOut(o) \/ Leave(o)  PROVE FALSE
  BY <1>12 DEF Crash, TimeOut, Leave, Calm, May
<1> QED  BY <1>7, <1>8, <1>9, <1>p, <1>10, <1>11, <1>12 DEF Next, Continue

LEMMA CalmLoad ==
    ASSUME Inv, Calm, bundle = lastId, Load
    PROVE  CalmTab' /\ CalmOrder' /\ CalmKey' /\ bundle' = lastId'
<1>1. \A o \in Ops : op'[o].wait = "idle"
  BY DEF Load, Idle
<1>2. None \notin Ops
  BY ConstAssumption DEF ConstAssumption
<1>3. account' \in {None, lastId'} /\ bundle' = lastId' /\ ~unlocked' /\ form' = None
      /\ vaultKey' = None
  BY DEF Load, EndWorker, Calm, May, diskVars
<1>4. CalmTab'
  BY <1>1, <1>2, <1>3 DEF CalmTab, FormWaits
<1>5. DOMAIN inbox' = {} /\ DOMAIN outbox' = {} /\ Locking' = {}
  BY <1>1, NoQueue DEF Load, EndWorker, Locking
<1>6. CalmOrder'
  BY <1>1, <1>3, <1>5 DEF CalmOrder, Waiting, Awaiting
<1>7. CalmKey'
  BY <1>3 DEF CalmKey
<1> QED  BY <1>3, <1>4, <1>6, <1>7

(* The device of a tab in calm names one account, whatever the tab does.   *)
LEMMA OneAccount ==
    ASSUME Calm, bundle = lastId, Next
    PROVE  bundle' = lastId'
<1>1. ~May("fail") /\ ~May("tabs")
  BY DEF Calm, May
<1>2. CASE UNCHANGED diskVars
  BY <1>2 DEF diskVars
<1>3. ASSUME NEW o \in Ops, BundleSaved(o)  PROVE bundle' = lastId'
  BY <1>1, <1>3 DEF BundleSaved
<1>4. ASSUME NEW o \in Ops, Begin(o) \/ LoginAnswered(o) \/ Leave(o) \/ Work(o) \/ TimeOut(o)
      PROVE  UNCHANGED diskVars
  BY <1>4 DEF Begin, Login, Unlock, UnlockViaPasscode, Lock, Logout, UseEntry, Submit,
              Await, LoginAnswered, Leave, Load, Work, Derive, Prove, Unwrap, TimeOut
<1>p. ASSUME NEW o \in Ops,
             PreLoginAnswered(o) \/ BundleRead(o) \/ AccountIdRead(o) \/ PasscodeRead(o)
      PROVE  UNCHANGED diskVars
  BY <1>p DEF PreLoginAnswered, BundleRead, AccountIdRead, PasscodeRead, AskWorker, Await, Fail
<1>5. CASE Receive \/ Take \/ Crash \/ Load \/ Remount
  BY <1>2, <1>5 DEF Receive, Take, Crash, Load, Remount
<1>6. ~OtherTab
  BY <1>1 DEF OtherTab
<1> QED  BY <1>2, <1>3, <1>4, <1>p, <1>5, <1>6 DEF Next, Continue

(* In calm the key follows the vault in every state.                       *)
THEOREM CalmInvariance == Spec => []CalmInv
<1>1. Init => CalmInv
  <2> SUFFICES ASSUME Init, Calm  PROVE bundle = lastId /\ CalmTab /\ CalmOrder /\ CalmKey
    BY DEF CalmInv
  <2>1. \A o \in Ops : op[o].wait = "idle" /\ job[o] = None
    BY DEF Init, Idle
  <2>2. None \notin Ops
    BY ConstAssumption DEF ConstAssumption
  <2>3. bundle = lastId /\ account \in {None, lastId} /\ ~unlocked /\ form = None /\ vaultKey = None
    BY DEF Init
  <2>4. CalmTab
    BY <2>1, <2>2, <2>3 DEF CalmTab, FormWaits
  <2>5. DOMAIN inbox = {} /\ DOMAIN outbox = {} /\ Locking = {}
    BY <2>1, NoQueue DEF Init, Locking
  <2>6. CalmOrder
    BY <2>1, <2>3, <2>5 DEF CalmOrder, Waiting, Awaiting
  <2>7. CalmKey
    BY <2>3 DEF CalmKey
  <2> QED  BY <2>3, <2>4, <2>6, <2>7
<1>2. Inv /\ CalmInv /\ [Next]_vars => CalmInv'
  <2>1. ASSUME Inv, CalmInv, Next  PROVE CalmInv'
    <3>1. UNCHANGED scene
      BY <2>1 DEF Next
    <3> SUFFICES ASSUME Calm
                 PROVE  bundle' = lastId' /\ (~Ending' => CalmTab' /\ CalmOrder' /\ CalmKey')
      BY <3>1 DEF CalmInv, Calm
    <3>2. bundle = lastId /\ bundle' = lastId'
      BY <2>1, OneAccount DEF CalmInv
    <3>3. CASE Load
      BY <2>1, <3>2, <3>3, CalmLoad
    <3>4. CASE ~Load
      <4> SUFFICES ASSUME ~Ending'  PROVE CalmTab' /\ CalmOrder' /\ CalmKey'
        BY <3>2
      <4>1. CalmState
        BY <2>1, <3>2, <3>4, EndingGoesOn DEF CalmState, CalmInv
      <4>2. ASSUME NEW o \in Ops, Begin(o) \/ Continue(o) \/ Work(o) \/ TimeOut(o)
            PROVE  CalmTab' /\ CalmOrder' /\ CalmKey'
        <5>1. ~TimeOut(o) /\ ~Leave(o)
          BY <3>4, <4>1, CalmFacts DEF TimeOut, Leave
        <5>2. CASE Begin(o)
          BY <3>1, <4>1, <5>2, CalmBegin
        <5>3. CASE LoginAnswered(o) \/ BundleSaved(o)
          BY <3>1, <4>1, <5>3, CalmContinue
        <5>4. CASE PreLoginAnswered(o) \/ BundleRead(o) \/ AccountIdRead(o) \/ PasscodeRead(o)
          BY <3>1, <4>1, <5>4, CalmPrepare
        <5>5. CASE Work(o)
          BY <3>1, <4>1, <5>5, CalmWork
        <5> QED  BY <4>2, <5>1, <5>2, <5>3, <5>4, <5>5 DEF Continue
      <4>3. CASE Receive
        BY <3>1, <4>1, <4>3, CalmReceive
      <4>4. CASE Take
        BY <3>1, <4>1, <4>4, CalmTake
      <4>5. ~Crash /\ ~Remount /\ ~OtherTab
        BY <4>1, CalmFacts DEF Crash, Remount, OtherTab
      <4> QED  BY <2>1, <3>4, <4>2, <4>3, <4>4, <4>5 DEF Next
    <3> QED  BY <3>3, <3>4
  <2>2. ASSUME CalmInv, UNCHANGED vars  PROVE CalmInv'
    BY <2>2 DEF CalmInv, vars, tabVars, diskVars, workerVars, Calm, Ending, CalmTab, CalmOrder,
                CalmKey, Locking, Waiting, Asked, Answered, Handled, Owners
  <2> QED  BY <2>1, <2>2
<1> QED  BY <1>1, <1>2, Invariance, PTL DEF Spec

(* Nothing is under way.                                                   *)
LEMMA QuietTab ==
    ASSUME Inv, CalmInv, Calm, Quiet
    PROVE  IF unlocked THEN vaultKey = account ELSE vaultKey = None
<1>1. \A o \in Ops : op[o].wait = "idle"
  BY DEF Inv, Core, Slots, Quiet, Unused
<1>2. ~Ending /\ Locking = {}
  BY <1>1 DEF Ending, Locking
<1>3. CalmTab /\ CalmKey /\ form \in Ops \cup {None}
  BY <1>2 DEF CalmInv, Inv, TypeOK
<1>4. form = None
  BY <1>1, <1>3 DEF CalmTab, FormWaits
<1> QED  BY <1>2, <1>3, <1>4 DEF CalmKey

(* When nothing is under way and nothing fails, the worker of an unlocked  *)
(* tab holds the vault key of the account, so that it can decrypt.         *)
THEOREM UnlockedOpens == Spec => []UnlockedHasKey
<1>1. Inv /\ CalmInv => UnlockedHasKey
  BY QuietTab DEF UnlockedHasKey
<1> QED  BY <1>1, Invariance, CalmInvariance, PTL

(* When nothing is under way and nothing fails, the worker of a locked tab *)
(* holds no vault key.                                                     *)
THEOREM LockedForgets == Spec => []LockedHoldsNoKey
<1>1. Inv /\ CalmInv => LockedHoldsNoKey
  BY QuietTab DEF LockedHoldsNoKey
<1> QED  BY <1>1, Invariance, CalmInvariance, PTL
=============================================================================
