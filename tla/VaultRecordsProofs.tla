------------------------- MODULE VaultRecordsProofs -------------------------
(***************************************************************************)
(* A proof about VaultRecords for any number of operations and entries:    *)
(* the spinner is never left behind.  Loads may overlap, and the first     *)
(* one to end takes the spinner away while others go on, so the property   *)
(* says that some load is under way, and not which.                        *)
(***************************************************************************)
EXTENDS VaultRecords, SequenceTheorems, WellFoundedInduction, TLAPS

Loading(t) == pc[t] \in {"api", "decrypt"} /\ job[t].kind = "list"

Inv ==
    /\ pc \in [Tasks -> Steps]
    /\ job = [t \in Tasks |-> job[t]]
    /\ SpinnerMeansLoad

(* One task moves, and the others stay where they are.                     *)
OnlyMoves(t) ==
    /\ pc' \in [Tasks -> Steps]
    /\ job' = [o \in Tasks |-> job'[o]]
    /\ \A o \in Tasks : o # t => pc'[o] = pc[o] /\ job'[o] = job[o]

(* A task that is not loading moves, and the spinner stays as it is.       *)
LEMMA Beside ==
    ASSUME Inv, NEW t \in Tasks, OnlyMoves(t), ~Loading(t), loading' = loading
    PROVE  Inv'
<1>1. ASSUME loading
      PROVE  \E o \in Tasks : pc'[o] \in {"api", "decrypt"} /\ job'[o].kind = "list"
  <2>1. PICK o \in Tasks : Loading(o)
    BY <1>1 DEF Inv, SpinnerMeansLoad, Loading
  <2>2. pc'[o] = pc[o] /\ job'[o] = job[o]
    BY <2>1 DEF OnlyMoves
  <2> QED  BY <2>1, <2>2 DEF Loading
<1>2. SpinnerMeansLoad'
  BY <1>1 DEF SpinnerMeansLoad
<1> QED  BY <1>2 DEF Inv, OnlyMoves

(* A load that starts is the one the spinner stands for.                   *)
LEMMA Starts ==
    ASSUME Inv, NEW t \in Tasks, LoadRecords(t)
    PROVE  Inv'
<1>1. OnlyMoves(t) /\ pc'[t] = "api" /\ job'[t].kind = "list"
  BY DEF Inv, LoadRecords, Goto, Steps, OnlyMoves, ListCall, Call
<1> QED  BY <1>1 DEF Inv, SpinnerMeansLoad, OnlyMoves

(* A load that ends takes the spinner away.                                *)
LEMMA Ends ==
    ASSUME Inv, NEW t \in Tasks, End(t), loading' = FALSE
    PROVE  Inv'
<1>1. OnlyMoves(t)
  BY DEF Inv, End, Goto, Steps, OnlyMoves
<1> QED  BY <1>1 DEF Inv, SpinnerMeansLoad, OnlyMoves

(* What moves neither a task nor the spinner keeps the invariant.          *)
LEMMA Still ==
    ASSUME Inv, UNCHANGED <<pc, job, loading>>
    PROVE  Inv'
BY DEF Inv, SpinnerMeansLoad

-----------------------------------------------------------------------------

(* Every step keeps the invariant.                                         *)
LEMMA Step == Inv /\ [Next]_vars => Inv'
<1> SUFFICES ASSUME Inv, [Next]_vars PROVE Inv'
  OBVIOUS
<1>1. ASSUME NEW t \in Tasks, Open(t) \/ SaveFailed(t) PROVE Inv'
  BY <1>1, Starts DEF Open, SaveFailed
<1>2. CASE Lock
  BY <1>2, Still DEF Lock
<1>3. ASSUME NEW t \in Tasks, Listed(t) PROVE Inv'
  <2>1. /\ OnlyMoves(t) /\ loading' = loading
        /\ pc'[t] = "decrypt" /\ job'[t].kind = "list"
    BY <1>3 DEF Inv, Listed, Goto, Steps, OnlyMoves
  <2> QED  BY <2>1 DEF Inv, SpinnerMeansLoad, OnlyMoves
<1>4. ASSUME NEW t \in Tasks, DecryptEntry(t) \/ Serve(t) PROVE Inv'
  BY <1>4, Still DEF DecryptEntry, Serve
<1>5. ASSUME NEW t \in Tasks, Loaded(t) \/ LoadFailed(t) PROVE Inv'
  BY <1>5, Ends DEF Loaded, LoadFailed
<1>6. ASSUME NEW t \in Tasks, AddRecord(t) \/ UpdateRecord(t) \/ DeleteRecord(t)
      PROVE  Inv'
  <2>1. OnlyMoves(t)
    BY <1>6 DEF Inv, AddRecord, UpdateRecord, DeleteRecord, Goto, Steps, OnlyMoves
  <2>2. pc[t] = "idle" /\ loading' = loading
    BY <1>6 DEF AddRecord, UpdateRecord, DeleteRecord
  <2> QED  BY <2>1, <2>2, Beside DEF Loading
<1>7. ASSUME NEW t \in Tasks, PreCreate(t) \/ Encrypt(t) PROVE Inv'
  <2>1. OnlyMoves(t)
    BY <1>7 DEF Inv, PreCreate, Encrypt, Goto, Steps, OnlyMoves
  <2>2. pc[t] \in {"precreate", "encrypt"} /\ loading' = loading
    BY <1>7 DEF PreCreate, Encrypt
  <2> QED  BY <2>1, <2>2, Beside DEF Loading
<1>8. ASSUME NEW t \in Tasks, Saved(t) \/ Deleted(t) \/ DeleteFailed(t) PROVE Inv'
  <2>1. OnlyMoves(t)
    BY <1>8 DEF Inv, Saved, Deleted, DeleteFailed, End, Goto, Steps, OnlyMoves
  <2>2. job[t].kind # "list" /\ loading' = loading
    BY <1>8 DEF Saved, Deleted, DeleteFailed
  <2> QED  BY <2>1, <2>2, Beside DEF Loading
<1>9. CASE UNCHANGED vars
  BY <1>9, Still DEF vars
<1> QED
  BY <1>1, <1>2, <1>3, <1>4, <1>5, <1>6, <1>7, <1>8, <1>9
     DEF Next, Continue

(* Whatever operations overlap, fail or meet a lock, the spinner is shown  *)
(* only while a load is under way that will take it away.                  *)
THEOREM SpinnerEnds == Spec => []SpinnerMeansLoad
<1>1. Init => Inv
  BY DEF Init, Inv, Steps, SpinnerMeansLoad
<1>2. Inv => SpinnerMeansLoad
  BY DEF Inv
<1> QED  BY <1>1, <1>2, Step, PTL DEF Spec

-----------------------------------------------------------------------------
(* Lists of records.                                                       *)

Items(s)    == {s[n] : n \in 1..Len(s)}
Distinct(s) == \A m, n \in 1..Len(s) : s[m].id = s[n].id => m = n

LEMMA LeastNumber ==
    ASSUME NEW S \in SUBSET Nat, S # {}
    PROVE  \E m \in S : \A k \in S : m <= k
<1>1. PICK m \in S : \A k \in S : <<k, m>> \notin OpToRel(<, Nat)
  BY WFMin, NatLessThanWellFounded
<1>2. \A k \in S : ~(k < m)
  BY <1>1 DEF OpToRel
<1> QED  BY <1>2

(* What Without keeps of the first n records.                              *)
Sifts(s, i, left, max) ==
    left = [n \in 0..max |->
              IF n = 0 THEN <<>>
              ELSE IF s[n].id = i THEN left[n - 1] ELSE Append(left[n - 1], s[n])]

LEMMA SiftExists ==
    ASSUME NEW s, NEW i, NEW max \in Nat
    PROVE  \E left : Sifts(s, i, left, max)
<1> DEFINE Bad == {n \in Nat : ~\E left : Sifts(s, i, left, n)}
<1> SUFFICES ASSUME Bad # {}  PROVE FALSE
  OBVIOUS
<1>1. PICK n \in Bad : \A k \in Bad : n <= k
  BY LeastNumber
<1>2. CASE n = 0
  <2>1. Sifts(s, i, [k \in 0..0 |-> <<>>], 0)
    BY DEF Sifts
  <2> QED  BY <1>2, <2>1
<1>3. CASE n # 0
  <2>1. n - 1 \in Nat /\ n - 1 \notin Bad
    BY <1>1, <1>3
  <2>2. PICK f : Sifts(s, i, f, n - 1)
    BY <2>1
  <2> DEFINE last == IF s[n].id = i THEN f[n - 1] ELSE Append(f[n - 1], s[n])
             g == [k \in 0..n |-> IF k = n THEN last ELSE f[k]]
  <2>3. \A k \in 0..n - 1 : f[k] = IF k = 0 THEN <<>>
                                   ELSE IF s[k].id = i THEN f[k - 1]
                                   ELSE Append(f[k - 1], s[k])
    BY <2>2 DEF Sifts
  <2>4. g[n] = last /\ g[n - 1] = f[n - 1]
    BY <2>1
  <2>5. ASSUME NEW k \in 0..n
        PROVE  g[k] = IF k = 0 THEN <<>>
                      ELSE IF s[k].id = i THEN g[k - 1] ELSE Append(g[k - 1], s[k])
    <3>1. CASE k = n
      BY <1>3, <2>4, <3>1
    <3>2. CASE k # n
      <4>1. k \in 0..n - 1 /\ g[k] = f[k]
        BY <3>2
      <4>2. k # 0 => g[k - 1] = f[k - 1]
        BY <2>1, <4>1
      <4> QED  BY <2>3, <4>1, <4>2
    <3> QED  BY <3>1, <3>2
  <2> HIDE DEF last
  <2>6. Sifts(s, i, g, n)
    BY <2>5 DEF Sifts
  <2> QED  BY <2>6
<1> QED  BY <1>2, <1>3

LEMMA AppendItems ==
    ASSUME NEW s \in Seq(Record), NEW e \in Record
    PROVE  /\ Append(s, e) \in Seq(Record)
           /\ Items(Append(s, e)) = Items(s) \cup {e}
           /\ Distinct(s) /\ (\A x \in Items(s) : x.id # e.id) => Distinct(Append(s, e))
<1> DEFINE t == Append(s, e)
<1>1. t \in Seq(Record) /\ Len(t) = Len(s) + 1 /\ Len(s) \in Nat
  OBVIOUS
<1>2. \A n \in 1..Len(t) : t[n] = IF n = Len(s) + 1 THEN e ELSE s[n]
  OBVIOUS
<1> HIDE DEF t
<1>3. Items(t) = Items(s) \cup {e}
  BY <1>1, <1>2 DEF Items
<1>4. Distinct(s) /\ (\A x \in Items(s) : x.id # e.id) => Distinct(t)
  BY <1>1, <1>2 DEF Items, Distinct
<1> QED  BY <1>1, <1>3, <1>4 DEF t

(* A record taken away, the others left as they were.                      *)
LEMMA WithoutIsSifted ==
    ASSUME NEW s \in Seq(Record), NEW i
    PROVE  /\ Without(s, i) \in Seq(Record)
           /\ Items(Without(s, i)) = {x \in Items(s) : x.id # i}
           /\ Distinct(s) => Distinct(Without(s, i))
<1> DEFINE len == Len(s)
           left == CHOOSE f : Sifts(s, i, f, len)
           Good(n) == /\ left[n] \in Seq(Record)
                      /\ Items(left[n]) = {x \in {s[k] : k \in 1..n} : x.id # i}
                      /\ Distinct(s) => Distinct(left[n])
<1>1. Without(s, i) = left[len]
  BY DEF Without, Sifts
<1>2. len \in Nat /\ \A n \in 1..len : s[n] \in Record
  OBVIOUS
<1>3. Sifts(s, i, left, len)
  BY <1>2, SiftExists
<1> HIDE DEF left
<1>4. \A n \in 0..len : left[n] = IF n = 0 THEN <<>>
                                  ELSE IF s[n].id = i THEN left[n - 1]
                                  ELSE Append(left[n - 1], s[n])
  BY <1>3 DEF Sifts
<1> HIDE DEF len
<1>5. Good(0)
  <2>1. left[0] = <<>>
    BY <1>2, <1>4
  <2> QED  BY <2>1 DEF Items, Distinct
<1>6. ASSUME NEW n \in 1..len, Good(n - 1)  PROVE Good(n)
  <2>1. /\ n - 1 \in 0..len /\ n \in 0..len /\ n # 0
        /\ {s[k] : k \in 1..n} = {s[k] : k \in 1..n - 1} \cup {s[n]}
    BY <1>2
  <2>2. CASE s[n].id = i
    BY <1>4, <1>6, <2>1, <2>2
  <2>3. CASE s[n].id # i
    <3>1. left[n] = Append(left[n - 1], s[n])
      BY <1>4, <2>1, <2>3
    <3>2. s[n] \in Record
      BY <1>2
    <3>3. left[n] \in Seq(Record) /\ Items(left[n]) = Items(left[n - 1]) \cup {s[n]}
      BY <1>6, <3>1, <3>2, AppendItems
    <3>4. ASSUME Distinct(s)  PROVE Distinct(left[n])
      <4>1. ASSUME NEW x \in Items(left[n - 1])  PROVE x.id # s[n].id
        <5>1. PICK k \in 1..n - 1 : x = s[k]
          BY <1>6, <4>1
        <5>2. k \in 1..len /\ k # n
          BY <1>2, <5>1
        <5> QED  BY <3>4, <5>1, <5>2 DEF Distinct, len
      <4> QED  BY <1>6, <3>1, <3>2, <3>4, <4>1, AppendItems
    <3> QED  BY <1>6, <2>1, <2>3, <3>3, <3>4
  <2> QED  BY <2>2, <2>3
<1> HIDE DEF Good
<1>7. ASSUME NEW n \in 0..len  PROVE Good(n)
  <2> DEFINE Bad == {k \in 0..len : ~Good(k)}
  <2> SUFFICES ASSUME Bad # {}  PROVE FALSE
    OBVIOUS
  <2>0. Bad \in SUBSET Nat
    BY <1>2
  <2>1. PICK k \in Bad : \A j \in Bad : k <= j
    <3> HIDE DEF Bad
    <3> QED  BY <2>0, LeastNumber
  <2>2. k \in 1..len
    BY <1>2, <1>5, <2>1
  <2>3. k - 1 \in 0..len /\ k - 1 \notin Bad
    BY <1>2, <2>1, <2>2
  <2> QED  BY <1>6, <2>1, <2>2, <2>3
<1>8. Good(len)
  BY <1>2, <1>7
<1> QED  BY <1>1, <1>8 DEF Good, Items, len

LEMMA PrependItems ==
    ASSUME NEW s \in Seq(Record), NEW e \in Record
    PROVE  /\ <<e>> \o s \in Seq(Record)
           /\ Items(<<e>> \o s) = Items(s) \cup {e}
           /\ Distinct(s) /\ (\A x \in Items(s) : x.id # e.id) => Distinct(<<e>> \o s)
<1> DEFINE t == <<e>> \o s
<1>1. t \in Seq(Record) /\ Len(t) = Len(s) + 1
  OBVIOUS
<1>2. \A n \in 1..Len(t) : t[n] = IF n = 1 THEN e ELSE s[n - 1]
  OBVIOUS
<1> HIDE DEF t
<1>3. Items(t) = Items(s) \cup {e}
  <2>1. ASSUME NEW x \in Items(s)  PROVE x \in Items(t)
    <3>1. PICK n \in 1..Len(s) : x = s[n]
      BY DEF Items
    <3>2. n + 1 \in 1..Len(t) /\ t[n + 1] = x
      BY <1>1, <1>2, <3>1
    <3> QED  BY <3>2 DEF Items
  <2>2. e \in Items(t)
    BY <1>1, <1>2 DEF Items
  <2>3. ASSUME NEW x \in Items(t)  PROVE x = e \/ x \in Items(s)
    BY <1>1, <1>2 DEF Items
  <2> QED  BY <2>1, <2>2, <2>3
<1>4. ASSUME Distinct(s), \A x \in Items(s) : x.id # e.id,
             NEW m \in 1..Len(t), NEW n \in 1..Len(t), t[m].id = t[n].id
      PROVE  m = n
  <2>1. \A k \in 1..Len(t) : k # 1 => k - 1 \in 1..Len(s) /\ t[k] \in Items(s)
    BY <1>1, <1>2 DEF Items
  <2>2. CASE m = 1 \/ n = 1
    <3>1. t[1] = e
      BY <1>2
    <3>2. \A k \in 1..Len(t) : k # 1 => t[k].id # e.id
      BY <1>4, <2>1
    <3> QED  BY <1>4, <2>2, <3>1, <3>2
  <2>3. CASE m # 1 /\ n # 1
    <3>1. m - 1 \in 1..Len(s) /\ n - 1 \in 1..Len(s)
      BY <2>1, <2>3
    <3>2. s[m - 1].id = s[n - 1].id
      BY <1>2, <1>4, <2>3
    <3>3. m - 1 = n - 1
      BY <1>4, <3>1, <3>2 DEF Distinct
    <3> QED  BY <3>3
  <2> QED  BY <2>2, <2>3
<1> QED  BY <1>1, <1>3, <1>4 DEF Distinct, t

LEMMA ReplacedItems ==
    ASSUME NEW s \in Seq(Record), NEW i \in Ids, NEW p \in Payloads
    PROVE  /\ Replaced(s, i, p) \in Seq(Record)
           /\ \A x \in Record : x \in Items(Replaced(s, i, p)) <=>
                 IF x.id = i THEN x.payload = p /\ \E y \in Items(s) : y.id = i
                 ELSE x \in Items(s)
           /\ Distinct(s) => Distinct(Replaced(s, i, p))
<1> DEFINE t == Replaced(s, i, p)
<1>1. \A n \in 1..Len(s) : s[n] \in Record
  OBVIOUS
<1>2. t = [n \in 1..Len(s) |-> IF s[n].id = i THEN [s[n] EXCEPT !.payload = p] ELSE s[n]]
  BY DEF Replaced
<1>3. \A x \in Record : /\ [x EXCEPT !.payload = p] \in Record
                        /\ [x EXCEPT !.payload = p].id = x.id
                        /\ [x EXCEPT !.payload = p].payload = p
  BY DEF Record
<1> HIDE DEF t
<1>4. \A n \in 1..Len(s) : /\ t[n] \in Record /\ t[n].id = s[n].id
                           /\ s[n].id = i => t[n].payload = p
                           /\ s[n].id # i => t[n] = s[n]
  BY <1>1, <1>2, <1>3
<1>5. t \in Seq(Record) /\ Len(t) = Len(s)
  <2>1. Len(s) \in Nat /\ t \in [1..Len(s) -> Record]
    BY <1>2, <1>4
  <2> QED  BY <2>1, IsASeq, LenProperties
<1>6. ASSUME NEW x \in Record
      PROVE  x \in Items(t) <=> IF x.id = i
                                THEN x.payload = p /\ \E y \in Items(s) : y.id = i
                                ELSE x \in Items(s)
  <2>1. \A x1, x2 \in Record : x1.id = x2.id /\ x1.payload = x2.payload => x1 = x2
    BY DEF Record
  <2> QED  BY <1>4, <1>5, <2>1 DEF Items
<1> QED  BY <1>4, <1>5, <1>6 DEF Distinct, t

-----------------------------------------------------------------------------
(* Types, and what a task may rely on at each of its awaits.               *)

StageOf(step, j, drawn) ==
    /\ step = "precreate" => j.kind = "create" /\ j.payload \in Payloads /\ j.id = None
    /\ step = "encrypt" => j.kind \in {"create", "update"}
    /\ step \in {"encrypt", "api"} =>
          \/ step = "api" /\ j = ListCall
          \/ j.kind # "list" /\ j.id \in Ids /\ j.payload \in Payloads
    /\ step = "decrypt" => j = ListCall
    /\ step \in {"encrypt", "api"} /\ j.kind = "create" => j.id \in drawn

Stages(t) ==
    /\ StageOf(pc[t], job[t], issued)
    /\ result[t] # None => pc[t] = "api"

(* An entry was created under an id that PreCreate drew.                   *)
Drawn == \A i \in Ids : entries[i] # None => i \in issued

TypeInv == TypeOK /\ (\A t \in Tasks : Stages(t)) /\ Drawn

TaskTypes ==
    /\ call = [t \in Tasks |-> IF pc[t] = "api" THEN job[t] ELSE None]
    /\ result \in [Tasks -> Reply \cup {None}]
    /\ pc \in [Tasks -> Steps]
    /\ job \in [Tasks -> Job \cup {None}]
    /\ \A t \in Tasks : job[t] = None <=> pc[t] = "idle"

DataTypes ==
    /\ entries \in [Ids -> Entry \cup {None}]
    /\ issued \subseteq Ids
    /\ records \in Seq(Record)
    /\ unlocked \in BOOLEAN /\ loading \in BOOLEAN /\ doubt \in BOOLEAN
    /\ rest \in [Tasks -> SUBSET Record]
    /\ kept \in [Tasks -> Seq(Record)]

LEMMA TypesSplit == TypeOK <=> TaskTypes /\ DataTypes
BY DEF TypeOK, TaskTypes, DataTypes

(* One task moves, and takes its call with it.                             *)
LEMMA TaskMoves ==
    ASSUME TypeInv, NEW t \in Tasks, NEW step \in Steps, NEW j \in Job \cup {None},
           Goto(t, step, j), j = None <=> step = "idle",
           call' = [call EXCEPT ![t] = IF step = "api" THEN j ELSE None],
           result' = [result EXCEPT ![t] = None],
           issued \subseteq issued', StageOf(step, j, issued')
    PROVE  TaskTypes' /\ \A o \in Tasks : Stages(o)'
<1>1. TaskTypes /\ \A o \in Tasks : Stages(o)
  BY TypesSplit DEF TypeInv
<1>2. pc' = [pc EXCEPT ![t] = step] /\ job' = [job EXCEPT ![t] = j]
  BY DEF Goto
<1>3. TaskTypes'
  <2>1. /\ pc' \in [Tasks -> Steps] /\ job' \in [Tasks -> Job \cup {None}]
        /\ result' \in [Tasks -> Reply \cup {None}]
    BY <1>1, <1>2 DEF TaskTypes
  <2>2. \A o \in Tasks : job'[o] = None <=> pc'[o] = "idle"
    BY <1>1, <1>2 DEF TaskTypes
  <2>3. call' = [o \in Tasks |-> IF pc'[o] = "api" THEN job'[o] ELSE None]
    BY <1>1, <1>2 DEF TaskTypes
  <2> QED  BY <2>1, <2>2, <2>3 DEF TaskTypes
<1>4. ASSUME NEW o \in Tasks  PROVE Stages(o)'
  <2>1. CASE o = t
    BY <1>1, <1>2, <2>1 DEF TaskTypes, Stages
  <2>2. CASE o # t
    <3>1. pc'[o] = pc[o] /\ job'[o] = job[o] /\ result'[o] = result[o]
      BY <1>1, <1>2, <2>2 DEF TaskTypes
    <3>2. StageOf(pc[o], job[o], issued')
      BY <1>1 DEF Stages, StageOf
    <3> QED  BY <1>1, <3>1, <3>2 DEF Stages
  <2> QED  BY <2>1, <2>2
<1> QED  BY <1>3, <1>4

LEMMA KeepTyped ==
    ASSUME DataTypes, NEW t \in Tasks, NEW todo \in SUBSET Record, NEW s \in Seq(Record),
           Keep(t, todo, s)
    PROVE  rest' \in [Tasks -> SUBSET Record] /\ kept' \in [Tasks -> Seq(Record)]
BY DEF DataTypes, Keep

(* The calls the tab makes.                                                *)
LEMMA CallsTyped ==
    /\ ListCall \in Job /\ ListCall # None /\ ListCall.kind = "list"
    /\ ListCall.id = None
    /\ \A kind \in {"create", "update", "delete"} : \A i \in Ids \cup {None} :
       \A p \in Payloads \cup {None} :
          /\ Call(kind, i, p) \in Job /\ Call(kind, i, p) # None
          /\ Call(kind, i, p).kind = kind /\ Call(kind, i, p).acct = Account
          /\ Call(kind, i, p).id = i /\ Call(kind, i, p).payload = p
<1>1. \A kind \in {"list", "create", "update", "delete"} : \A i \in Ids \cup {None} :
      \A p \in Payloads \cup {None} :
          /\ Call(kind, i, p) \in Job
          /\ Call(kind, i, p).kind = kind /\ Call(kind, i, p).acct = Account
          /\ Call(kind, i, p).id = i /\ Call(kind, i, p).payload = p
  BY DEF Call, Job
<1>2. None \notin Job
  BY ConstAssumption DEF ConstAssumption
<1> QED  BY <1>1, <1>2 DEF ListCall

LEMMA LoadTyped ==
    ASSUME TypeInv, NEW t \in Tasks, LoadRecords(t), issued' = issued
    PROVE  /\ TaskTypes' /\ \A o \in Tasks : Stages(o)'
           /\ rest' \in [Tasks -> SUBSET Record] /\ kept' \in [Tasks -> Seq(Record)]
           /\ entries' = entries /\ loading' \in BOOLEAN
           /\ doubt' = (Under(t) # {} /\ (doubt \/ Changing(t) # {}))
<1> HIDE DEF ListCall
<1>1. StageOf("api", ListCall, issued)
  BY CallsTyped DEF StageOf
<1>2. PICK j \in Job : j = ListCall
  BY CallsTyped
<1>3. /\ Goto(t, "api", j) /\ call' = [call EXCEPT ![t] = j]
      /\ result' = [result EXCEPT ![t] = None] /\ Keep(t, {}, <<>>)
      /\ entries' = entries /\ loading' = TRUE
      /\ doubt' = (Under(t) # {} /\ (doubt \/ Changing(t) # {}))
  BY <1>2 DEF LoadRecords, Send
<1>4. j # None /\ "api" \in Steps
  BY <1>2, CallsTyped DEF Steps
<1>5. TaskTypes' /\ \A o \in Tasks : Stages(o)'
  <2>1. PICK step \in Steps : step = "api"
    BY <1>4
  <2>2. /\ Goto(t, step, j) /\ (j = None <=> step = "idle") /\ StageOf(step, j, issued')
        /\ call' = [call EXCEPT ![t] = IF step = "api" THEN j ELSE None]
    BY <1>1, <1>2, <1>3, <1>4, <2>1
  <2>3. issued \subseteq issued' /\ result' = [result EXCEPT ![t] = None]
    BY <1>3
  <2> HIDE DEF Goto, StageOf, Stages, TaskTypes, TypeInv
  <2> QED  BY <2>2, <2>3, TaskMoves
<1>6. rest' \in [Tasks -> SUBSET Record] /\ kept' \in [Tasks -> Seq(Record)]
  <2>1. DataTypes
    BY TypesSplit DEF TypeInv
  <2>2. <<>> \in Seq(Record)
    OBVIOUS
  <2> QED  BY <1>3, <2>1, <2>2, KeepTyped
<1> QED  BY <1>3, <1>5, <1>6

LEMMA EndTyped ==
    ASSUME TypeInv, NEW t \in Tasks, Received(t), End(t), issued' = issued
    PROVE  /\ TaskTypes' /\ \A o \in Tasks : Stages(o)'
           /\ rest' \in [Tasks -> SUBSET Record] /\ kept' \in [Tasks -> Seq(Record)]
           /\ entries' = entries
<1>1. PICK step \in Steps : step = "idle"
  BY DEF Steps
<1>2. PICK j \in Job \cup {None} : j = None
  OBVIOUS
<1>3. /\ Goto(t, step, j) /\ (j = None <=> step = "idle") /\ StageOf(step, j, issued')
      /\ call' = [call EXCEPT ![t] = IF step = "api" THEN j ELSE None]
      /\ result' = [result EXCEPT ![t] = None] /\ issued \subseteq issued'
      /\ Keep(t, {}, <<>>) /\ entries' = entries
  BY <1>1, <1>2 DEF End, Received, Send, StageOf
<1>4. TaskTypes' /\ \A o \in Tasks : Stages(o)'
  <2> HIDE DEF Goto, StageOf, Stages, TaskTypes, TypeInv
  <2> QED  BY <1>3, TaskMoves
<1>5. rest' \in [Tasks -> SUBSET Record] /\ kept' \in [Tasks -> Seq(Record)]
  <2>1. DataTypes
    BY TypesSplit DEF TypeInv
  <2>2. <<>> \in Seq(Record)
    OBVIOUS
  <2> QED  BY <1>3, <2>1, <2>2, KeepTyped
<1> QED  BY <1>3, <1>4, <1>5

-----------------------------------------------------------------------------
(* What the server may do with a call.                                     *)

Rec(i, p) == [id |-> i, payload |-> p]
Holds(i, p) == entries[i] = [owner |-> Account, payload |-> p]
Listing     == {Rec(i, entries[i].payload) : i \in {i \in Ids : entries[i] # None}}
Done(t)     == result[t] # None /\ result[t].status = "ok"

Stored(i, p) == [entries EXCEPT ![i] = [owner |-> Account, payload |-> p]]

(* The page of a list that is not cut off is all of it.                    *)
LEMMA PageFits ==
    ASSUME NEW t \in Tasks, job[t].kind = "list", ~CutOff(t),
           NEW S, S = {i \in Ids : entries[i] # None}, NEW page \in Store!Pages(S)
    PROVE  page = S
<1>1. S \in Store!Pages(S)
  BY DEF CutOff
<1> QED  BY <1>1, PageAssumption DEF PageAssumption, Store!Pages

(* What the server may do with a call.                                     *)
LEMMA ServeEffect ==
    ASSUME TypeInv, NEW t \in Tasks, Serve(t)
    PROVE  /\ pc[t] = "api" /\ result[t] = None /\ call' = call
           /\ UNCHANGED <<issued, records, unlocked, loading, pc, job, rest, kept>>
           /\ doubt' = (doubt \/ CutOff(t))
           /\ \E reply \in Reply :
                 /\ result' = [result EXCEPT ![t] = reply]
                 /\ \/ reply.status # "ok" /\ entries' = entries
                    \/ /\ reply.status = "ok" /\ job[t].kind = "list" /\ entries' = entries
                       /\ CutOff(t) \/ reply.data = Listing
                    \/ /\ reply.status = "ok" /\ job[t].kind = "create"
                       /\ entries[job[t].id] = None
                       /\ entries' = Stored(job[t].id, job[t].payload)
                    \/ /\ reply.status = "ok" /\ job[t].kind = "update"
                       /\ entries[job[t].id] # None
                       /\ entries' = Stored(job[t].id, job[t].payload)
                    \/ /\ reply.status = "ok" /\ job[t].kind = "delete"
                       /\ entries[job[t].id] # None
                       /\ entries' = [entries EXCEPT ![job[t].id] = None]
<1> DEFINE c == call[t]
           S == {i \in Ids : Store!Owned(i, c.acct)}
<1>1. TaskTypes /\ DataTypes
  BY TypesSplit DEF TypeInv
<1>2. /\ c # None /\ result[t] = None /\ call' = call
      /\ UNCHANGED <<issued, records, unlocked, loading, pc, job, rest, kept>>
      /\ doubt' = (doubt \/ CutOff(t))
      /\ \/ Store!Create(t, c) \/ Store!Update(t, c) \/ Store!Delete(t, c)
         \/ Store!Get(t, c) \/ Store!List(t, c) \/ Store!Refuse(t, c) \/ Store!Fail(t)
  BY DEF Serve, Store!Perform
<1>3. pc[t] = "api" /\ c = job[t] /\ c \in Job
  BY <1>1, <1>2 DEF TaskTypes
<1>4. c.acct = Account /\ c.kind \in {"create", "update", "delete", "list"}
  BY <1>3 DEF Job
<1>5. S = {i \in Ids : entries[i] # None}
  BY <1>1, <1>4 DEF Store!Owned, DataTypes, Entry
<1>6. /\ Store!Shown(S) = Listing /\ Listing \in SUBSET Record
      /\ \A page \in SUBSET S : Store!Shown(page) \in SUBSET Record
  <2>1. Store!Shown(S) = Listing
    BY <1>5 DEF Store!Shown, Listing, Rec
  <2>2. \A i \in Ids : entries[i] # None => entries[i].payload \in Payloads
    BY <1>1 DEF DataTypes, Entry
  <2>3. Listing \in SUBSET Record
    BY <2>2 DEF Listing, Rec, Record
  <2>4. ASSUME NEW page \in SUBSET S  PROVE Store!Shown(page) \in SUBSET Record
    BY <1>5, <2>2 DEF Store!Shown, Record
  <2> QED  BY <2>1, <2>3, <2>4
<1>7. /\ Store!Ok({}) \in Reply /\ Store!Ok({}).status = "ok"
      /\ \A data \in SUBSET Record :
            Store!Ok(data) \in Reply /\ Store!Ok(data).status = "ok" /\ Store!Ok(data).data = data
      /\ Store!Refusal \in Reply /\ Store!Refusal.status # "ok"
      /\ Store!Failure \in Reply /\ Store!Failure.status # "ok"
  BY <1>6 DEF Store!Ok, Store!Refusal, Store!Failure, Reply
<1> HIDE DEF c, S
<1>8. CASE Store!Create(t, c)
  BY <1>2, <1>3, <1>4, <1>7, <1>8 DEF Store!Create, Store!Succeed, Stored
<1>9. CASE Store!Update(t, c)
  BY <1>2, <1>3, <1>4, <1>7, <1>9 DEF Store!Update, Store!Owned, Store!Succeed, Stored
<1>10. CASE Store!Delete(t, c)
  BY <1>2, <1>3, <1>4, <1>7, <1>10 DEF Store!Delete, Store!Owned, Store!Succeed
<1>11. CASE Store!List(t, c)
  <2>1. PICK page \in Store!Pages(S) :
          /\ c.kind = "list" /\ entries' = entries
          /\ result' = [result EXCEPT ![t] = Store!Ok(Store!Shown(page))]
    BY <1>11 DEF Store!List, Store!Succeed, S
  <2>2. page \in SUBSET S
    BY DEF Store!Pages
  <2>3. CutOff(t) \/ page = S
    BY <1>3, <1>5, <2>1, PageFits
  <2> DEFINE data == Store!Shown(page)
  <2>4. data \in SUBSET Record /\ (CutOff(t) \/ data = Listing)
    BY <1>6, <2>2, <2>3
  <2> HIDE DEF data
  <2> DEFINE reply == Store!Ok(data)
  <2>5. reply \in Reply /\ reply.status = "ok" /\ reply.data = data
    BY <1>7, <2>4
  <2>6. result' = [result EXCEPT ![t] = reply]
    BY <2>1 DEF data
  <2> HIDE DEF reply
  <2> QED  BY <1>2, <1>3, <2>1, <2>4, <2>5, <2>6
<1>12. CASE Store!Refuse(t, c)
  BY <1>2, <1>3, <1>7, <1>12 DEF Store!Refuse
<1>13. CASE Store!Fail(t)
  BY <1>2, <1>3, <1>7, <1>13 DEF Store!Fail
<1>14. CASE Store!Get(t, c)
  BY <1>4, <1>14 DEF Store!Get
<1> QED  BY <1>2, <1>8, <1>9, <1>10, <1>11, <1>12, <1>13, <1>14

LEMMA TypeStep ==
    ASSUME TypeInv, [Next]_vars
    PROVE  TypeInv'
<1>1. TaskTypes /\ DataTypes /\ Drawn /\ \A o \in Tasks : Stages(o)
  BY TypesSplit DEF TypeInv
<1>2. ASSUME TaskTypes', DataTypes', Drawn', \A o \in Tasks : Stages(o)'
      PROVE  TypeInv'
  <2>1. TypeOK'
    BY <1>2 DEF TypeOK, TaskTypes, DataTypes
  <2> QED  BY <1>2, <2>1 DEF TypeInv
<1>3. issued \subseteq issued' /\ entries' = entries => Drawn'
  BY <1>1 DEF Drawn
<1>4. \A t \in Tasks : pc[t] # "api" => call[t] = None /\ result[t] = None
  BY <1>1 DEF TaskTypes, Stages
<1>5. \A t \in Tasks : pc[t] # "idle" => job[t] \in Job
  BY <1>1 DEF TaskTypes
<1> HIDE DEF TypeInv, TaskTypes, Drawn, Stages
<1>6. ASSUME NEW t \in Tasks, Open(t) \/ SaveFailed(t)  PROVE TypeInv'
  <2>1. LoadRecords(t) /\ UNCHANGED <<issued, records>> /\ unlocked' \in BOOLEAN
    BY <1>1, <1>6 DEF Open, SaveFailed, DataTypes
  <2> HIDE DEF LoadRecords
  <2>2. DataTypes' /\ entries' = entries
    BY <1>1, <2>1, LoadTyped DEF DataTypes
  <2> QED  BY <1>2, <1>3, <2>1, <2>2, LoadTyped
<1>7. CASE Lock \/ UNCHANGED vars
  <2>1. UNCHANGED <<server, issued, loading, pc, job, rest, kept, doubt>>
    BY <1>7 DEF Lock, vars
  <2>2. records' \in Seq(Record) /\ unlocked' \in BOOLEAN
    <3>1. CASE Lock
      <4>1. records' = <<>> /\ unlocked' = FALSE
        BY <3>1 DEF Lock
      <4>2. <<>> \in Seq(Record)
        OBVIOUS
      <4> QED  BY <4>1, <4>2
    <3>2. CASE UNCHANGED vars
      BY <1>1, <3>2 DEF vars, DataTypes
    <3> QED  BY <1>7, <3>1, <3>2
  <2>3. TaskTypes' /\ Drawn' /\ \A o \in Tasks : Stages(o)'
    BY <1>1, <2>1 DEF server, TaskTypes, Drawn, Stages
  <2>4. DataTypes'
    BY <1>1, <2>1, <2>2 DEF server, DataTypes
  <2> QED  BY <1>2, <2>3, <2>4
<1>8. ASSUME NEW t \in Tasks, Listed(t)  PROVE TypeInv'
  <2>1. PICK step \in Steps : step = "decrypt"
    BY DEF Steps
  <2>2. PICK j \in Job : j = job[t]
    BY <1>5, <1>8 DEF Listed
  <2>3. StageOf("api", j, issued) /\ j.kind = "list"
    BY <1>1, <1>8, <2>2 DEF Stages, Listed
  <2>4. j = ListCall /\ j # None
    BY <2>3, CallsTyped, ConstAssumption DEF StageOf, ConstAssumption
  <2>5. /\ Goto(t, step, j) /\ call' = [call EXCEPT ![t] = None]
        /\ result' = [result EXCEPT ![t] = None] /\ entries' = entries
        /\ UNCHANGED <<issued, records, unlocked, loading, doubt>>
    BY <1>8, <2>1, <2>2 DEF Listed, Received, Send
  <2>6. StageOf(step, j, issued')
    BY <2>1, <2>4, <2>5 DEF StageOf
  <2>7. TaskTypes' /\ \A o \in Tasks : Stages(o)'
    <3>1. (j = None <=> step = "idle") /\ issued \subseteq issued'
          /\ call' = [call EXCEPT ![t] = IF step = "api" THEN j ELSE None]
      BY <2>1, <2>4, <2>5
    <3> HIDE DEF Goto, StageOf
    <3> QED  BY <2>5, <2>6, <3>1, TaskMoves
  <2>8. rest' \in [Tasks -> SUBSET Record] /\ kept' \in [Tasks -> Seq(Record)]
    <3>1. PICK todo \in SUBSET Record : todo = result[t].data
      BY <1>1, <1>8 DEF Listed, TaskTypes, Reply
    <3>2. Keep(t, todo, <<>>) /\ <<>> \in Seq(Record)
      BY <1>8, <3>1 DEF Listed
    <3> QED  BY <1>1, <3>2, KeepTyped
  <2>9. DataTypes'
    BY <1>1, <2>5, <2>8 DEF DataTypes
  <2> QED  BY <1>2, <1>3, <2>5, <2>7, <2>9
<1>9. ASSUME NEW t \in Tasks, DecryptEntry(t)  PROVE TypeInv'
  <2>1. UNCHANGED <<server, issued, records, unlocked, loading, pc, job>>
    BY <1>9 DEF DecryptEntry
  <2>2. PICK e \in rest[t] :
          \/ unlocked /\ Keep(t, rest[t] \ {e}, Append(kept[t], e)) /\ UNCHANGED doubt
          \/ Keep(t, rest[t] \ {e}, kept[t]) /\ doubt' = TRUE
    BY <1>9 DEF DecryptEntry
  <2>3. /\ rest[t] \ {e} \in SUBSET Record /\ kept[t] \in Seq(Record)
        /\ Append(kept[t], e) \in Seq(Record)
    BY <1>1 DEF DataTypes
  <2>4. rest' \in [Tasks -> SUBSET Record] /\ kept' \in [Tasks -> Seq(Record)]
    BY <1>1, <2>2, <2>3, KeepTyped
  <2>5. doubt' \in BOOLEAN
    BY <1>1, <2>2 DEF DataTypes
  <2>6. DataTypes'
    BY <1>1, <2>1, <2>4, <2>5 DEF server, DataTypes
  <2>7. TaskTypes' /\ Drawn' /\ \A o \in Tasks : Stages(o)'
    BY <1>1, <2>1 DEF server, TaskTypes, Drawn, Stages
  <2> QED  BY <1>2, <2>6, <2>7
<1>10. ASSUME NEW t \in Tasks,
              Loaded(t) \/ LoadFailed(t) \/ Saved(t) \/ Deleted(t) \/ DeleteFailed(t)
       PROVE  TypeInv'
  <2>1. End(t) /\ issued' = issued /\ Received(t)
    <3>1. CASE Loaded(t)
      <4>1. pc[t] = "decrypt" /\ End(t) /\ UNCHANGED <<server, issued>>
        BY <3>1 DEF Loaded
      <4>2. call[t] = None /\ result[t] = None
        BY <1>4, <4>1
      <4>3. Received(t)
        BY <1>1, <4>1, <4>2 DEF Received, Send, server, TaskTypes
      <4> QED  BY <4>1, <4>3
    <3> QED  BY <1>10, <3>1 DEF LoadFailed, Saved, Deleted, DeleteFailed
  <2>2. /\ TaskTypes' /\ \A o \in Tasks : Stages(o)'
        /\ rest' \in [Tasks -> SUBSET Record] /\ kept' \in [Tasks -> Seq(Record)]
        /\ entries' = entries
    BY <2>1, EndTyped
  <2>3. unlocked' \in BOOLEAN /\ loading' \in BOOLEAN /\ doubt' \in BOOLEAN
    BY <1>1, <1>10 DEF Loaded, LoadFailed, Saved, Deleted, DeleteFailed, DataTypes
  <2>4. records' \in Seq(Record)
    <3>1. CASE Loaded(t) \/ DeleteFailed(t)
      BY <1>1, <3>1 DEF Loaded, DeleteFailed, RollBack, DataTypes
    <3>2. CASE LoadFailed(t) \/ Deleted(t)
      BY <1>1, <3>2 DEF LoadFailed, Deleted, DataTypes
    <3>3. CASE Saved(t)
      <4>1. pc[t] = "api" /\ job[t].kind \in {"create", "update"}
        BY <3>3 DEF Saved
      <4>2. job[t].id \in Ids /\ job[t].payload \in Payloads
        BY <1>1, <4>1, CallsTyped DEF Stages, StageOf
      <4>3. [id |-> job[t].id, payload |-> job[t].payload] \in Record
        BY <4>2 DEF Record
      <4> QED
        BY <1>1, <3>3, <4>2, <4>3, PrependItems, ReplacedItems DEF Saved, ShowSaved, DataTypes
    <3> QED  BY <1>10, <3>1, <3>2, <3>3
  <2>5. DataTypes'
    BY <1>1, <2>1, <2>2, <2>3, <2>4 DEF DataTypes
  <2> QED  BY <1>2, <1>3, <2>1, <2>2, <2>5
(* A change that goes on to its next await.                                *)
<1>11. ASSUME NEW t \in Tasks, NEW step \in {"precreate", "encrypt", "api"}, NEW j \in Job,
              Goto(t, step, j), StageOf(step, j, issued'),
              call' = [call EXCEPT ![t] = IF step = "api" THEN j ELSE None],
              result' = [result EXCEPT ![t] = None], entries' = entries,
              issued \subseteq issued', issued' \subseteq Ids, records' \in Seq(Record),
              UNCHANGED <<unlocked, loading>>, doubt' \in BOOLEAN,
              rest' \in [Tasks -> SUBSET Record], kept' \in [Tasks -> Seq(Record)]
       PROVE  TypeInv'
  <2>1. PICK next \in Steps : next = step
    BY DEF Steps
  <2>2. /\ Goto(t, next, j) /\ StageOf(next, j, issued')
        /\ call' = [call EXCEPT ![t] = IF next = "api" THEN j ELSE None]
    BY <1>11, <2>1
  <2>3. j = None <=> next = "idle"
    BY <2>1, ConstAssumption DEF ConstAssumption
  <2> HIDE DEF Goto, StageOf
  <2>4. TaskTypes' /\ \A o \in Tasks : Stages(o)'
    BY <1>11, <2>2, <2>3, TaskMoves
  <2>5. DataTypes'
    BY <1>1, <1>11 DEF DataTypes
  <2> QED  BY <1>2, <1>3, <1>11, <2>4, <2>5
<1>12. ASSUME NEW t \in Tasks, AddRecord(t)  PROVE TypeInv'
  <2>1. PICK p \in Payloads : Goto(t, "precreate", Call("create", None, p))
    BY <1>12 DEF AddRecord
  <2>2. PICK j \in Job : j = Call("create", None, p)
    BY CallsTyped
  <2>3. j.kind = "create" /\ j.payload = p /\ j.id = None
    BY <2>2, CallsTyped
  <2>4. pc[t] = "idle" /\ UNCHANGED <<server, issued, records, unlocked, loading, rest, kept>>
        /\ doubt' \in BOOLEAN
    BY <1>12 DEF AddRecord
  <2>5. PICK step \in {"precreate", "encrypt", "api"} : step = "precreate"
    OBVIOUS
  <2>6. call' = [call EXCEPT ![t] = IF step = "api" THEN j ELSE None]
        /\ result' = [result EXCEPT ![t] = None]
    BY <1>1, <1>4, <2>4, <2>5 DEF server, TaskTypes
  <2>7. Goto(t, step, j) /\ StageOf(step, j, issued')
    BY <2>1, <2>2, <2>3, <2>5 DEF StageOf
  <2> QED  BY <1>1, <1>11, <2>4, <2>6, <2>7 DEF server, DataTypes
<1>13. ASSUME NEW t \in Tasks, PreCreate(t)  PROVE TypeInv'
  <2>1. PICK i \in Ids \ issued :
          /\ issued' = issued \cup {i}
          /\ Goto(t, "encrypt", [job[t] EXCEPT !.id = i])
    BY <1>13 DEF PreCreate
  <2>2. pc[t] = "precreate" /\ UNCHANGED <<server, records, unlocked, loading, rest, kept, doubt>>
    BY <1>13 DEF PreCreate
  <2>3. job[t] \in Job /\ job[t].kind = "create" /\ job[t].payload \in Payloads
    BY <1>1, <1>5, <2>2 DEF Stages, StageOf
  <2>4. PICK j \in Job : j = [job[t] EXCEPT !.id = i]
    BY <2>3 DEF Job
  <2>5. j.kind = "create" /\ j.payload \in Payloads /\ j.id = i
    BY <2>3, <2>4 DEF Job
  <2>6. PICK step \in {"precreate", "encrypt", "api"} : step = "encrypt"
    OBVIOUS
  <2>7. call' = [call EXCEPT ![t] = IF step = "api" THEN j ELSE None]
        /\ result' = [result EXCEPT ![t] = None]
    BY <1>1, <1>4, <2>2, <2>6 DEF server, TaskTypes
  <2>8. Goto(t, step, j) /\ StageOf(step, j, issued')
    BY <2>1, <2>4, <2>5, <2>6 DEF StageOf
  <2>9. entries' = entries /\ UNCHANGED <<records, unlocked, loading, rest, kept, doubt>>
    BY <2>2 DEF server
  <2>10. issued \subseteq issued' /\ issued' \subseteq Ids
    BY <1>1, <2>1 DEF DataTypes
  <2> QED  BY <1>1, <1>11, <2>7, <2>8, <2>9, <2>10 DEF DataTypes
<1>14. ASSUME NEW t \in Tasks, UpdateRecord(t)  PROVE TypeInv'
  <2>1. PICK x \in Shown, p \in Payloads : Goto(t, "encrypt", Call("update", x.id, p))
    BY <1>14 DEF UpdateRecord
  <2>2. x.id \in Ids
    <3>1. x \in Record
      BY <1>1 DEF Shown, DataTypes
    <3> QED  BY <3>1 DEF Record
  <2>3. PICK j \in Job : j = Call("update", x.id, p)
    BY <2>2, CallsTyped
  <2>4. j.kind = "update" /\ j.payload = p /\ j.id = x.id
    BY <2>2, <2>3, CallsTyped
  <2>5. pc[t] = "idle" /\ UNCHANGED <<server, issued, records, unlocked, loading, rest, kept>>
        /\ doubt' \in BOOLEAN
    BY <1>14 DEF UpdateRecord
  <2>6. PICK step \in {"precreate", "encrypt", "api"} : step = "encrypt"
    OBVIOUS
  <2>7. call' = [call EXCEPT ![t] = IF step = "api" THEN j ELSE None]
        /\ result' = [result EXCEPT ![t] = None]
    BY <1>1, <1>4, <2>5, <2>6 DEF server, TaskTypes
  <2>8. Goto(t, step, j) /\ StageOf(step, j, issued')
    BY <2>1, <2>2, <2>3, <2>4, <2>6 DEF StageOf
  <2> QED  BY <1>1, <1>11, <2>5, <2>7, <2>8 DEF server, DataTypes
<1>15. ASSUME NEW t \in Tasks, Encrypt(t)  PROVE TypeInv'
  <2>1. PICK j \in Job : j = job[t]
    BY <1>5, <1>15 DEF Encrypt
  <2>2. /\ pc[t] = "encrypt" /\ Goto(t, "api", j) /\ entries' = entries
        /\ call' = [call EXCEPT ![t] = j] /\ result' = [result EXCEPT ![t] = None]
        /\ UNCHANGED <<issued, records, unlocked, loading, rest, kept, doubt>>
    BY <1>15, <2>1 DEF Encrypt, Send
  <2>3. StageOf("encrypt", j, issued)
    BY <1>1, <2>1, <2>2 DEF Stages
  <2>4. PICK step \in {"precreate", "encrypt", "api"} : step = "api"
    OBVIOUS
  <2>5. Goto(t, step, j) /\ StageOf(step, j, issued')
        /\ call' = [call EXCEPT ![t] = IF step = "api" THEN j ELSE None]
    BY <2>2, <2>3, <2>4 DEF StageOf
  <2> QED  BY <1>1, <1>11, <2>2, <2>5 DEF DataTypes
<1>16. ASSUME NEW t \in Tasks, DeleteRecord(t)  PROVE TypeInv'
  <2>1. PICK x \in Shown :
          /\ records' = Without(records, x.id)
          /\ Send(t, Call("delete", x.id, x.payload))
          /\ Goto(t, "api", Call("delete", x.id, x.payload))
          /\ doubt' = (doubt \/ Crosses(t, x.id))
    BY <1>16 DEF DeleteRecord
  <2>2. x.id \in Ids /\ x.payload \in Payloads
    <3>1. x \in Record
      BY <1>1 DEF Shown, DataTypes
    <3> QED  BY <3>1 DEF Record
  <2>3. PICK j \in Job : j = Call("delete", x.id, x.payload)
    BY <2>2, CallsTyped
  <2>4. j.kind = "delete" /\ j.payload = x.payload /\ j.id = x.id
    BY <2>2, <2>3, CallsTyped
  <2>5. UNCHANGED <<issued, unlocked, loading>> /\ Keep(t, {}, records)
    BY <1>16 DEF DeleteRecord
  <2>6. rest' \in [Tasks -> SUBSET Record] /\ kept' \in [Tasks -> Seq(Record)]
    <3>1. records \in Seq(Record)
      BY <1>1 DEF DataTypes
    <3> QED  BY <1>1, <2>5, <3>1, KeepTyped
  <2>7. records' \in Seq(Record)
    BY <1>1, <2>1, WithoutIsSifted DEF DataTypes
  <2>8. PICK step \in {"precreate", "encrypt", "api"} : step = "api"
    OBVIOUS
  <2>9. /\ Goto(t, step, j) /\ StageOf(step, j, issued') /\ entries' = entries
        /\ call' = [call EXCEPT ![t] = IF step = "api" THEN j ELSE None]
        /\ result' = [result EXCEPT ![t] = None]
    BY <2>1, <2>2, <2>3, <2>4, <2>8 DEF StageOf, Send
  <2> QED  BY <1>1, <1>11, <2>1, <2>5, <2>6, <2>7, <2>9 DEF DataTypes
<1>17. ASSUME NEW t \in Tasks, Serve(t)  PROVE TypeInv'
  <2>1. /\ pc[t] = "api" /\ result[t] = None /\ call' = call
        /\ UNCHANGED <<issued, records, unlocked, loading, pc, job, rest, kept>>
    BY <1>17, ServeEffect
  <2>2. PICK reply \in Reply :
          /\ result' = [result EXCEPT ![t] = reply]
          /\ \/ entries' = entries
             \/ /\ job[t].kind = "create" \/ (job[t].kind = "update" /\ entries[job[t].id] # None)
                /\ entries' = Stored(job[t].id, job[t].payload)
             \/ entries' = [entries EXCEPT ![job[t].id] = None]
    BY <1>17, ServeEffect
  <2>3. result' \in [Tasks -> Reply \cup {None}]
    BY <1>1, <2>2 DEF TaskTypes
  <2>4. TaskTypes' /\ \A o \in Tasks : Stages(o)'
    BY <1>1, <2>1, <2>2, <2>3 DEF TaskTypes, Stages
  <2>5. entries' \in [Ids -> Entry \cup {None}] /\ Drawn'
    <3>1. CASE entries' = entries
      BY <1>1, <1>3, <2>1, <3>1 DEF DataTypes
    <3>2. CASE entries' = [entries EXCEPT ![job[t].id] = None]
      BY <1>1, <2>1, <3>2 DEF DataTypes, Drawn
    <3>3. CASE /\ job[t].kind = "create" \/ (job[t].kind = "update" /\ entries[job[t].id] # None)
               /\ entries' = Stored(job[t].id, job[t].payload)
      <4>1. job[t].id \in Ids /\ job[t].payload \in Payloads
        BY <1>1, <2>1, <3>3, CallsTyped DEF Stages, StageOf
      <4>2. job[t].kind = "create" => job[t].id \in issued
        BY <1>1, <2>1 DEF Stages, StageOf
      <4>3. job[t].id \in issued
        BY <1>1, <3>3, <4>1, <4>2 DEF Drawn
      <4>4. [owner |-> Account, payload |-> job[t].payload] \in Entry
        BY <4>1 DEF Entry
      <4> QED  BY <1>1, <2>1, <3>3, <4>1, <4>3, <4>4 DEF Stored, DataTypes, Drawn
    <3> QED  BY <2>2, <3>1, <3>2, <3>3
  <2>6. doubt' \in BOOLEAN
    <3>1. doubt' = (doubt \/ CutOff(t))
      BY <1>17, ServeEffect
    <3> QED  BY <3>1
  <2>7. DataTypes'
    BY <1>1, <2>1, <2>5, <2>6 DEF DataTypes
  <2> QED  BY <1>2, <2>4, <2>5, <2>7
<1> QED
  BY <1>6, <1>7, <1>8, <1>9, <1>10, <1>12, <1>13, <1>14, <1>15, <1>16, <1>17
  DEF Next, Continue

LEMMA TypeInit == Init => TypeInv
<1> SUFFICES ASSUME Init  PROVE TypeInv
  OBVIOUS
<1>1. TypeOK
  <2>1. records \in Seq(Record) /\ kept \in [Tasks -> Seq(Record)]
    BY DEF Init
  <2>2. /\ entries \in [Ids -> Entry \cup {None}] /\ issued \subseteq Ids
        /\ unlocked \in BOOLEAN /\ loading \in BOOLEAN /\ doubt \in BOOLEAN
        /\ rest \in [Tasks -> SUBSET Record]
    BY DEF Init
  <2>3. TaskTypes
    BY DEF Init, TaskTypes, Steps
  <2> QED  BY <2>1, <2>2, <2>3, TypesSplit DEF DataTypes
<1>2. Drawn /\ \A t \in Tasks : Stages(t)
  BY DEF Init, Drawn, Stages, StageOf
<1> QED  BY <1>1, <1>2 DEF TypeInv

(* Every variable holds a value of its kind; in particular a call under    *)
(* way is always the one of the operation that waits for it.               *)
THEOREM TypeCorrect == Spec => []TypeOK
<1>1. TypeInv => TypeOK
  BY DEF TypeInv
<1> QED  BY <1>1, TypeInit, TypeStep, PTL DEF Spec

-----------------------------------------------------------------------------
(* The list and the server, while nothing has set them apart.  A change    *)
(* under way accounts for its own entry; all others agree.                 *)

Shows(i, p) == Rec(i, p) \in Items(records)

Agrees(i) == \A p \in Payloads : Shows(i, p) <=> Holds(i, p)

Loads(t)   == pc[t] # "idle" /\ job[t].kind = "list"
Changes(t) == pc[t] # "idle" /\ job[t].kind # "list"

Creates(t) ==
    /\ \A p \in Payloads : ~Shows(job[t].id, p)
    /\ IF Done(t) THEN Holds(job[t].id, job[t].payload) ELSE entries[job[t].id] = None

Updates(t) ==
    \E q \in Payloads :
        /\ Shows(job[t].id, q)
        /\ IF Done(t) THEN Holds(job[t].id, job[t].payload) ELSE Holds(job[t].id, q)

Deletes(t) ==
    /\ \A p \in Payloads : ~Shows(job[t].id, p)
    /\ IF Done(t) THEN entries[job[t].id] = None ELSE Holds(job[t].id, job[t].payload)
    /\ Distinct(kept[t]) /\ Rec(job[t].id, job[t].payload) \in Items(kept[t])

AccountsFor(t) ==
    /\ pc[t] # "precreate" =>
          /\ job[t].kind = "create" => Creates(t)
          /\ job[t].kind = "update" => Updates(t)
          /\ job[t].kind = "delete" => Deletes(t)
    /\ job[t].id # None => job[t].id \in issued

InStep ==
    /\ Distinct(records)
    /\ \A t, o \in Tasks : Changes(t) /\ Changes(o) /\ t # o => job[t].id # job[o].id
    /\ \A i \in Ids : (\A t \in Tasks : Changes(t) => job[t].id # i) => Agrees(i)
    /\ \A t \in Tasks : Changes(t) => AccountsFor(t)

(* A load ends with the server's list, unless it says so.                  *)
Loaders(t) ==
    /\ pc[t] = "api" /\ Done(t) => result[t].data = Listing
    /\ pc[t] = "decrypt" =>
          /\ Items(kept[t]) \cup rest[t] = Listing
          /\ Distinct(kept[t])
          /\ \A x \in Items(kept[t]), e \in rest[t] : x.id # e.id

SureInv ==
    ~doubt =>
        /\ \A t, o \in Tasks : Loads(t) => ~Changes(o)
        /\ \A t \in Tasks : Loads(t) => Loaders(t)
        /\ unlocked /\ (\A t \in Tasks : ~Loads(t)) => InStep

OthersStay(t) ==
    \A o \in Tasks \ {t} :
        UNCHANGED <<pc[o], job[o], result[o], kept[o], rest[o]>>

(* What a task accounts for is its own affair.                             *)
LEMMA AccountsStay ==
    ASSUME TypeInv, NEW o \in Tasks, Changes(o), AccountsFor(o),
           UNCHANGED <<pc[o], job[o], result[o], kept[o]>>, issued \subseteq issued',
           job[o].id \in Ids =>
              /\ entries'[job[o].id] = entries[job[o].id]
              /\ \A p \in Payloads : Shows(job[o].id, p)' <=> Shows(job[o].id, p)
    PROVE  AccountsFor(o)'
<1>1. TaskTypes /\ Stages(o)
  BY TypesSplit DEF TypeInv
<1>2. pc[o] # "precreate" => job[o].id \in Ids /\ job[o].payload \in Payloads
  BY <1>1, CallsTyped DEF Stages, StageOf, Changes, TaskTypes, Steps
<1>3. PICK i : i = job[o].id
  OBVIOUS
<1>4. job'[o].id = i /\ job'[o].payload = job[o].payload /\ job'[o].kind = job[o].kind
      /\ pc'[o] = pc[o] /\ kept'[o] = kept[o] /\ Done(o)' = Done(o)
  BY <1>3 DEF Done
<1>5. i \in Ids => /\ \A p \in Payloads : Shows(i, p)' <=> Shows(i, p)
                   /\ entries'[i] = entries[i]
  BY <1>3
<1>6. i \in Ids => \A p \in Payloads : Holds(i, p)' <=> Holds(i, p)
  BY <1>5 DEF Holds
<1> HIDE DEF Shows, Holds, Done
<1>7. CASE pc[o] = "precreate"
  BY <1>3, <1>4, <1>7 DEF AccountsFor
<1>8. CASE pc[o] # "precreate"
  <2>1. i \in Ids /\ job[o].payload \in Payloads
    BY <1>2, <1>3, <1>8
  <2>2. job[o].kind = "create" => Creates(o)'
    <3>1. ASSUME job[o].kind = "create"
          PROVE  /\ \A p \in Payloads : ~Shows(i, p)
                 /\ IF Done(o) THEN Holds(i, job[o].payload) ELSE entries[i] = None
      BY <1>3, <1>8, <3>1 DEF AccountsFor, Creates
    <3> QED  BY <1>4, <1>5, <1>6, <2>1, <3>1 DEF Creates
  <2>3. job[o].kind = "update" => Updates(o)'
    <3>1. ASSUME job[o].kind = "update"
          PROVE  \E q \in Payloads :
                    /\ Shows(i, q)
                    /\ IF Done(o) THEN Holds(i, job[o].payload) ELSE Holds(i, q)
      BY <1>3, <1>8, <3>1 DEF AccountsFor, Updates
    <3> QED  BY <1>4, <1>5, <1>6, <2>1, <3>1 DEF Updates
  <2>4. job[o].kind = "delete" => Deletes(o)'
    <3>1. ASSUME job[o].kind = "delete"
          PROVE  /\ \A p \in Payloads : ~Shows(i, p)
                 /\ IF Done(o) THEN entries[i] = None ELSE Holds(i, job[o].payload)
                 /\ Distinct(kept[o]) /\ Rec(i, job[o].payload) \in Items(kept[o])
      BY <1>3, <1>8, <3>1 DEF AccountsFor, Deletes
    <3>2. Distinct(kept[o])' = Distinct(kept[o]) /\ Items(kept[o])' = Items(kept[o])
      BY <1>4 DEF Distinct, Items
    <3>3. Rec(i, job[o].payload) = Rec(job[o].id, job[o].payload)'
      BY <1>4 DEF Rec
    <3> QED  BY <1>4, <1>5, <1>6, <2>1, <3>1, <3>2, <3>3 DEF Deletes
  <2>5. job'[o].id # None => job'[o].id \in issued'
    BY <1>3, <1>4 DEF AccountsFor
  <2> QED  BY <1>4, <2>2, <2>3, <2>4, <2>5 DEF AccountsFor
<1> QED  BY <1>7, <1>8

(* One task moves, and touches at most the entry i, which no other task    *)
(* is about; the caller shows what holds of that entry afterwards.         *)
LEMMA ChangeStep ==
    ASSUME TypeInv, TypeInv', NEW t \in Tasks, NEW i \in Ids \cup {None},
           OthersStay(t), issued \subseteq issued', unlocked' = unlocked,
           \A k \in Ids \ {i} : /\ entries'[k] = entries[k]
                                /\ \A p \in Payloads : Shows(k, p)' <=> Shows(k, p),
           Changes(t) => job[t].id \in {i, None},
           \A o \in Tasks : ~Loads(o), ~Loads(t)', SureInv, ~doubt,
           InStep => /\ \A o \in Tasks \ {t} : Changes(o) => job[o].id # i
                     /\ Distinct(records')
                     /\ Changes(t)' => job'[t].id = i /\ AccountsFor(t)'
                     /\ ~Changes(t)' /\ i # None => Agrees(i)'
    PROVE  SureInv'
<1>1. None \notin Ids
  BY ConstAssumption DEF ConstAssumption
<1>2. ASSUME NEW o \in Tasks \ {t}
      PROVE  /\ UNCHANGED <<pc[o], job[o], result[o], kept[o]>>
             /\ Changes(o)' = Changes(o) /\ Loads(o)' = Loads(o)
  BY DEF OthersStay, Changes, Loads
<1>3. \A o \in Tasks : ~Loads(o)'
  BY <1>2
<1>4. SUFFICES ASSUME unlocked  PROVE InStep'
  BY <1>3 DEF SureInv
<1>5. InStep
  BY <1>4 DEF SureInv
<1> HIDE DEF Changes, Loads, Agrees, AccountsFor, SureInv
<1>6. /\ \A o \in Tasks \ {t} : Changes(o) => job[o].id # i
      /\ Distinct(records)'
      /\ Changes(t)' => job'[t].id = i /\ AccountsFor(t)'
      /\ ~Changes(t)' /\ i # None => Agrees(i)'
  BY <1>5 DEF Distinct
<1>7. ASSUME NEW o \in Tasks \ {t}, Changes(o)'
      PROVE  job'[o].id = job[o].id /\ job'[o].id # i /\ AccountsFor(o)'
  <2>1. Changes(o) /\ UNCHANGED <<pc[o], job[o], result[o], kept[o]>> /\ job[o].id # i
    BY <1>2, <1>6, <1>7
  <2>2. AccountsFor(o)
    BY <1>5, <2>1 DEF InStep
  <2>3. job[o].id \in Ids =>
              /\ entries'[job[o].id] = entries[job[o].id]
              /\ \A p \in Payloads : Shows(job[o].id, p)' <=> Shows(job[o].id, p)
    <3>1. PICK k : k = job[o].id
      OBVIOUS
    <3>2. k \in Ids => /\ entries'[k] = entries[k]
                       /\ \A p \in Payloads : Shows(k, p)' <=> Shows(k, p)
      BY <2>1, <3>1
    <3> QED  BY <2>1, <3>1, <3>2 DEF Shows
  <2> QED  BY <2>1, <2>2, <2>3, AccountsStay
<1>8. \A o \in Tasks : Changes(o)' => AccountsFor(o)'
  BY <1>6, <1>7
<1>9. ASSUME NEW m \in Tasks, NEW o \in Tasks, Changes(m)', Changes(o)', m # o
      PROVE  job'[m].id # job'[o].id
  <2>1. CASE m # t /\ o # t
    <3>1. Changes(m) /\ Changes(o)
      BY <1>2, <1>9, <2>1
    <3> QED  BY <1>5, <1>7, <1>9, <2>1, <3>1 DEF InStep
  <2>2. CASE m = t \/ o = t
    BY <1>6, <1>7, <1>9, <2>2
  <2> QED  BY <2>1, <2>2
<1>10. ASSUME NEW k \in Ids, \A o \in Tasks : Changes(o)' => job'[o].id # k
       PROVE  Agrees(k)'
  <2>1. CASE k = i
    BY <1>1, <1>6, <1>10, <2>1 DEF Agrees, Shows, Holds
  <2>2. CASE k # i
    <3>1. \A o \in Tasks : Changes(o) => job[o].id # k
      BY <1>1, <1>2, <1>7, <1>10, <2>2
    <3>2. Agrees(k)
      BY <1>5, <3>1 DEF InStep
    <3>3. entries'[k] = entries[k] /\ \A p \in Payloads : Shows(k, p)' <=> Shows(k, p)
      BY <2>2
    <3>4. \A p \in Payloads : Holds(k, p)' <=> Holds(k, p)
      BY <3>3 DEF Holds
    <3> QED  BY <3>2, <3>3, <3>4 DEF Agrees
  <2> QED  BY <2>1, <2>2
<1> QED  BY <1>6, <1>8, <1>9, <1>10 DEF InStep

(* One task moves, and no change is under way beside it while it loads.    *)
LEMMA LoadStep ==
    ASSUME TypeInv, NEW t \in Tasks, OthersStay(t), Loads(t)' \/ Loads(t),
           entries' = entries, SureInv,
           ~doubt' => /\ \A o \in Tasks \ {t} : ~Changes(o)
                      /\ doubt => \A o \in Tasks \ {t} : pc[o] = "idle"
                      /\ ~Changes(t)'
                      /\ Loads(t)' => Loaders(t)'
                      /\ (\A o \in Tasks : ~Loads(o)') => InStep'
    PROVE  SureInv'
<1> SUFFICES ASSUME ~doubt'  PROVE SureInv'
  BY DEF SureInv
<1>1. ASSUME NEW o \in Tasks \ {t}
      PROVE  Changes(o)' = Changes(o) /\ Loads(o)' = Loads(o) /\ Loaders(o)' = Loaders(o)
  <2>1. /\ UNCHANGED <<pc[o], job[o], result[o], kept[o], rest[o]>> /\ Listing' = Listing
    BY DEF OthersStay, Listing
  <2>2. Loaders(o)' = Loaders(o)
    BY <2>1 DEF Loaders, Done, Items, Distinct
  <2> QED  BY <2>1, <2>2 DEF Changes, Loads
<1>2. \A o \in Tasks : ~Changes(o)'
  BY <1>1
<1>3. \A o \in Tasks : Loads(o)' => Loaders(o)'
  <2>1. ASSUME NEW o \in Tasks \ {t}, Loads(o)  PROVE Loaders(o)
    BY <2>1 DEF SureInv, Loads
  <2> HIDE DEF Loads, Loaders, SureInv
  <2> QED  BY <1>1, <2>1
<1> QED  BY <1>2, <1>3 DEF SureInv

LEMMA RecFacts ==
    /\ \A i \in Ids, p \in Payloads :
          Rec(i, p) \in Record /\ Rec(i, p).id = i /\ Rec(i, p).payload = p
    /\ \A x \in Record : x = Rec(x.id, x.payload) /\ x.id \in Ids /\ x.payload \in Payloads
BY DEF Rec, Record

LEMMA ItemsTyped ==
    ASSUME NEW s \in Seq(Record)
    PROVE  Items(s) \subseteq Record
BY DEF Items

LEMMA ListingHolds ==
    ASSUME TypeInv, NEW i \in Ids, NEW p \in Payloads
    PROVE  /\ Rec(i, p) \in Listing <=> Holds(i, p)
           /\ entries[i] = None => ~Holds(i, p)
<1>1. \A k \in Ids : entries[k] \in Entry \cup {None}
  BY TypesSplit DEF TypeInv, DataTypes
<1>2. None \notin Entry
  BY ConstAssumption DEF ConstAssumption
<1>3. \A k \in Ids : entries[k] # None =>
         entries[k].payload \in Payloads
         /\ entries[k] = [owner |-> Account, payload |-> entries[k].payload]
  BY <1>1 DEF Entry
<1>4. [owner |-> Account, payload |-> p] \in Entry
  BY DEF Entry
<1>5. Holds(i, p) => entries[i] # None /\ entries[i].payload = p
  BY <1>2, <1>4 DEF Holds
<1>6. Rec(i, p) \in Listing <=> entries[i] # None /\ entries[i].payload = p
  <2>1. Rec(i, p) \in Listing => entries[i] # None /\ entries[i].payload = p
    <3> SUFFICES ASSUME Rec(i, p) \in Listing
                 PROVE  entries[i] # None /\ entries[i].payload = p
      OBVIOUS
    <3>1. PICK k \in Ids : entries[k] # None /\ Rec(i, p) = Rec(k, entries[k].payload)
      BY DEF Listing
    <3>2. PICK q \in Payloads : q = entries[k].payload
      BY <1>3, <3>1
    <3>3. i = k /\ p = q
      BY <3>1, <3>2, RecFacts
    <3> QED  BY <3>1, <3>2, <3>3
  <2> QED  BY <2>1 DEF Listing
<1> QED  BY <1>3, <1>5, <1>6 DEF Holds

(* A load begins.                                                          *)
LEMMA LoadRecordsStep ==
    ASSUME TypeInv, SureInv, NEW t \in Tasks, LoadRecords(t)
    PROVE  SureInv'
<1>1. TaskTypes /\ DataTypes
  BY TypesSplit DEF TypeInv
<1>2. PICK j : j = ListCall
  OBVIOUS
<1>3. /\ OthersStay(t) /\ entries' = entries
      /\ pc'[t] = "api" /\ job'[t] = j /\ result'[t] = None
  BY <1>1, <1>2 DEF LoadRecords, Send, Goto, Keep, OthersStay, TaskTypes, DataTypes
<1>4. Loads(t)' /\ ~Changes(t)' /\ Loaders(t)'
  BY <1>2, <1>3, CallsTyped DEF Loads, Changes, Loaders, Done
<1>5. ASSUME ~doubt'
      PROVE  /\ \A o \in Tasks \ {t} : ~Changes(o)
             /\ doubt => \A o \in Tasks \ {t} : pc[o] = "idle"
  <2>1. \/ Under(t) = {}
        \/ ~doubt /\ Changing(t) = {}
    BY <1>1, <1>5 DEF LoadRecords, DataTypes
  <2>2. Under(t) = {} => \A o \in Tasks \ {t} : pc[o] = "idle"
    BY DEF Under
  <2>3. Changing(t) = {} => \A o \in Tasks \ {t} : ~Changes(o)
    BY DEF Under, Changing, Changes
  <2> QED  BY <2>1, <2>2, <2>3 DEF Changes
<1> HIDE DEF Loads, Changes, Loaders, InStep
<1> QED  BY <1>3, <1>4, <1>5, LoadStep

LEMMA LoadUnderway ==
    ASSUME TypeInv, SureInv, ~doubt, NEW t \in Tasks, Loads(t)
    PROVE  Loaders(t) /\ (\A o \in Tasks : ~Changes(o))
BY DEF SureInv

LEMMA ListedStep ==
    ASSUME TypeInv, SureInv, NEW t \in Tasks, Listed(t)
    PROVE  SureInv'
<1>1. TaskTypes /\ DataTypes
  BY TypesSplit DEF TypeInv
<1>2. /\ Loads(t) /\ pc[t] = "api" /\ Done(t) /\ doubt' = doubt
      /\ entries' = entries /\ pc'[t] = "decrypt" /\ job'[t] = job[t] /\ OthersStay(t)
      /\ kept'[t] = <<>> /\ rest'[t] = result[t].data
  BY <1>1 DEF Listed, Loads, Done, Received, Send, Goto, Keep, OthersStay, TaskTypes, DataTypes
<1>3. Loads(t)' /\ ~Changes(t)' /\ Listing' = Listing
  BY <1>2 DEF Loads, Changes, Listing
<1>4. ASSUME ~doubt  PROVE Loaders(t)'
  <2>1. rest'[t] = Listing
    BY <1>2, <1>4, LoadUnderway DEF Loaders
  <2>2. Items(<<>>) = {} /\ Distinct(<<>>)
    BY DEF Items, Distinct
  <2> QED  BY <1>2, <1>3, <2>1, <2>2 DEF Loaders
<1> HIDE DEF Loads, Changes, Loaders, InStep
<1> QED  BY <1>2, <1>3, <1>4, LoadUnderway, LoadStep

LEMMA DecryptStep ==
    ASSUME TypeInv, SureInv, NEW t \in Tasks, DecryptEntry(t)
    PROVE  SureInv'
<1>1. TaskTypes /\ DataTypes /\ Stages(t)
  BY TypesSplit DEF TypeInv
<1>2. SUFFICES ASSUME ~doubt'  PROVE SureInv'
  BY DEF SureInv
<1>3. PICK e \in rest[t] :
        unlocked /\ Keep(t, rest[t] \ {e}, Append(kept[t], e)) /\ UNCHANGED doubt
  BY <1>2 DEF DecryptEntry
<1>4. PICK s : s = Append(kept[t], e)
  OBVIOUS
<1>5. /\ Loads(t) /\ pc[t] = "decrypt"
      /\ UNCHANGED <<server, issued, records, unlocked, loading, pc, job>>
  BY <1>1, CallsTyped DEF DecryptEntry, Loads, Stages, StageOf
<1>6. /\ entries' = entries /\ OthersStay(t) /\ pc'[t] = "decrypt" /\ job'[t] = job[t]
      /\ kept'[t] = s /\ rest'[t] = rest[t] \ {e}
  BY <1>1, <1>3, <1>4, <1>5 DEF server, Keep, OthersStay, TaskTypes, DataTypes
<1>7. Loads(t)' /\ ~Changes(t)' /\ Listing' = Listing
  BY <1>5, <1>6 DEF Loads, Changes, Listing
<1>8. Loaders(t)'
  <2>1. /\ Items(kept[t]) \cup rest[t] = Listing /\ Distinct(kept[t])
        /\ \A x \in Items(kept[t]), f \in rest[t] : x.id # f.id
    BY <1>2, <1>3, <1>5, LoadUnderway DEF Loaders
  <2>2. kept[t] \in Seq(Record) /\ e \in Record
    BY <1>1 DEF DataTypes
  <2>3. Items(s) = Items(kept[t]) \cup {e} /\ Distinct(s)
    BY <1>4, <2>1, <2>2, AppendItems
  <2>4. \A f \in rest[t] : f.id = e.id => f = e
    <3>1. \A f \in Listing, g \in Listing : f.id = g.id => f = g
      BY DEF Listing, Rec
    <3> QED  BY <2>1, <3>1
  <2>5. \A x \in Items(s), f \in rest[t] \ {e} : x.id # f.id
    BY <2>1, <2>3, <2>4
  <2>6. Items(s) \cup (rest[t] \ {e}) = Listing
    BY <2>1, <2>3
  <2> QED  BY <1>6, <1>7, <2>3, <2>5, <2>6 DEF Loaders
<1>9. ~doubt
  BY <1>2, <1>3
<1> HIDE DEF Loads, Changes, Loaders, InStep
<1> QED  BY <1>5, <1>6, <1>7, <1>8, <1>9, LoadUnderway, LoadStep

(* A load ends: the list is the server's.                                  *)
LEMMA LoadedStep ==
    ASSUME TypeInv, SureInv, NEW t \in Tasks, Loaded(t)
    PROVE  SureInv'
<1>1. TaskTypes /\ DataTypes /\ Stages(t)
  BY TypesSplit DEF TypeInv
<1>2. SUFFICES ASSUME ~doubt  PROVE SureInv'
  BY DEF SureInv, Loaded
<1>3. /\ Loads(t) /\ pc[t] = "decrypt" /\ rest[t] = {}
      /\ records' = kept[t] /\ entries' = entries /\ doubt' = doubt
  BY <1>1, CallsTyped DEF Loaded, Loads, Stages, StageOf, server
<1>4. pc'[t] = "idle" /\ OthersStay(t)
  BY <1>1 DEF Loaded, server, End, Goto, Keep, OthersStay, TaskTypes, DataTypes
<1>5. ~Loads(t)' /\ ~Changes(t)'
  BY <1>4 DEF Loads, Changes
<1>6. \A o \in Tasks : ~Changes(o)
  BY <1>2, <1>3, LoadUnderway
<1>7. InStep'
  <2>1. Items(kept[t]) = Listing /\ Distinct(kept[t])
    BY <1>2, <1>3, LoadUnderway DEF Loaders
  <2>2. \A o \in Tasks : ~Changes(o)'
    BY <1>4, <1>5, <1>6 DEF OthersStay, Changes
  <2>3. Distinct(records)'
    BY <1>3, <2>1 DEF Distinct
  <2>4. ASSUME NEW i \in Ids, NEW p \in Payloads  PROVE Shows(i, p)' <=> Holds(i, p)'
    <3>1. Shows(i, p)' <=> Rec(i, p) \in Listing
      BY <1>3, <2>1 DEF Shows, Items
    <3>2. Holds(i, p)' <=> Holds(i, p)
      BY <1>3 DEF Holds
    <3> QED  BY <3>1, <3>2, ListingHolds
  <2> QED  BY <2>2, <2>3, <2>4 DEF InStep, Agrees
<1> HIDE DEF Loads, Changes, Loaders, InStep
<1> QED  BY <1>2, <1>3, <1>4, <1>5, <1>6, <1>7, LoadStep

(* A lock empties the list, and nothing is claimed of it until it is       *)
(* loaded again.                                                           *)
LEMMA LockStep ==
    ASSUME TypeInv, SureInv, Lock
    PROVE  SureInv'
<1>1. /\ unlocked' = FALSE
      /\ UNCHANGED <<entries, result, pc, job, rest, kept, doubt>>
  BY DEF Lock, server
<1>2. Listing' = Listing
  BY <1>1 DEF Listing
<1> QED  BY <1>1, <1>2 DEF SureInv, Loads, Changes, Loaders, Done, Items, Distinct

LEMMA ShowsSame ==
    ASSUME records' = records
    PROVE  /\ \A i, p : Shows(i, p)' <=> Shows(i, p)
           /\ Distinct(records) => Distinct(records')
BY DEF Shows, Items, Distinct

LEMMA ChangeUnderway ==
    ASSUME TypeInv, SureInv, ~doubt, NEW t \in Tasks, Changes(t)
    PROVE  /\ \A o \in Tasks : ~Loads(o)
           /\ InStep => /\ \A o \in Tasks \ {t} : Changes(o) => job[o].id # job[t].id
                        /\ Distinct(records) /\ AccountsFor(t)
BY DEF SureInv, InStep

LEMMA NothingCrosses ==
    ASSUME TypeInv, NEW t \in Tasks, pc[t] = "idle", NEW i, ~Crosses(t, i)
    PROVE  /\ \A o \in Tasks : ~Loads(o)
           /\ \A o \in Tasks \ {t} : Changes(o) => job[o].id # i
           /\ ~Changes(t) /\ ~Loads(t) /\ result[t] = None
<1>1. Stages(t)
  BY DEF TypeInv
<1>2. ~Changes(t) /\ ~Loads(t) /\ result[t] = None
  BY <1>1 DEF Stages, Changes, Loads
<1>3. \A o \in Tasks \ {t} : ~Loads(o) /\ (Changes(o) => job[o].id # i)
  BY DEF Crosses, Under, Loads, Changes
<1> QED  BY <1>2, <1>3

LEMMA AddStep ==
    ASSUME TypeInv, TypeInv', SureInv, NEW t \in Tasks, AddRecord(t)
    PROVE  SureInv'
<1>1. TaskTypes /\ DataTypes
  BY TypesSplit DEF TypeInv
<1>2. SUFFICES ASSUME ~doubt'  PROVE SureInv'
  BY DEF SureInv
<1>3. PICK i \in Ids \cup {None} : i = None
  OBVIOUS
<1>4. pc[t] = "idle" /\ ~doubt /\ ~Crosses(t, i)
  BY <1>1, <1>2, <1>3 DEF AddRecord, DataTypes
<1>5. PICK p \in Payloads : Goto(t, "precreate", Call("create", None, p))
  BY DEF AddRecord
<1>6. PICK j \in Job : j = Call("create", None, p)
  BY CallsTyped
<1>7. j.kind = "create" /\ j.id = i
  BY <1>3, <1>6, CallsTyped
<1>8. UNCHANGED <<server, issued, records, unlocked, loading, rest, kept>>
  BY DEF AddRecord
<1>9. pc'[t] = "precreate" /\ job'[t] = j /\ OthersStay(t) /\ entries' = entries
  BY <1>1, <1>5, <1>6, <1>8 DEF Goto, server, OthersStay, TaskTypes
<1>10. Changes(t)' /\ ~Loads(t)'
  BY <1>7, <1>9 DEF Changes, Loads
<1>11. job'[t].id = i /\ AccountsFor(t)'
  BY <1>3, <1>7, <1>9 DEF AccountsFor
<1>12. InStep => Distinct(records)
  BY DEF InStep
<1> HIDE DEF Loads, Changes, AccountsFor, InStep, Agrees, SureInv, Shows, OthersStay, Crosses
<1>13. \A k \in Ids \ {i} : /\ entries'[k] = entries[k]
                            /\ \A q \in Payloads : Shows(k, q)' <=> Shows(k, q)
  BY <1>8, <1>9, ShowsSame
<1> QED
  BY <1>4, <1>8, <1>9, <1>10, <1>11, <1>12, <1>13, ShowsSame, NothingCrosses, ChangeStep

LEMMA PreCreateStep ==
    ASSUME TypeInv, TypeInv', SureInv, NEW t \in Tasks, PreCreate(t)
    PROVE  SureInv'
<1>1. TaskTypes /\ DataTypes /\ Stages(t) /\ Drawn
  BY TypesSplit DEF TypeInv
<1>2. /\ pc[t] = "precreate"
      /\ UNCHANGED <<server, records, unlocked, loading, rest, kept, doubt>>
  BY DEF PreCreate
<1>3. SUFFICES ASSUME ~doubt  PROVE SureInv'
  BY <1>2 DEF SureInv
<1>4. PICK i \in Ids \ issued :
        issued' = issued \cup {i} /\ Goto(t, "encrypt", [job[t] EXCEPT !.id = i])
  BY DEF PreCreate
<1>5. /\ job[t] \in Job /\ job[t].kind = "create" /\ job[t].payload \in Payloads
      /\ job[t].id = None /\ result[t] = None
  BY <1>1, <1>2 DEF Stages, StageOf, TaskTypes
<1>6. PICK j : j = [job[t] EXCEPT !.id = i]
  OBVIOUS
<1>7. j.kind = "create" /\ j.payload \in Payloads /\ j.id = i
  BY <1>5, <1>6 DEF Job
<1>8. /\ pc'[t] = "encrypt" /\ job'[t] = j /\ result'[t] = None
      /\ OthersStay(t) /\ entries' = entries
  BY <1>1, <1>2, <1>4, <1>5, <1>6 DEF Goto, server, OthersStay, TaskTypes
<1>9. Changes(t) /\ Changes(t)' /\ ~Loads(t)'
  BY <1>2, <1>5, <1>7, <1>8 DEF Changes, Loads
<1>10. entries[i] = None
  BY <1>1 DEF Drawn
<1>11. ASSUME InStep
       PROVE  /\ \A o \in Tasks \ {t} : Changes(o) => job[o].id # i
              /\ Distinct(records) /\ AccountsFor(t)'
  <2>1. \A o \in Tasks : Changes(o) => job[o].id # i
    <3>1. \A o \in Tasks : Changes(o) => job[o].id = None \/ job[o].id \in issued
      BY <1>11 DEF InStep, AccountsFor
    <3>2. i # None /\ i \notin issued
      BY ConstAssumption DEF ConstAssumption
    <3> QED  BY <3>1, <3>2
  <2>2. Agrees(i) /\ Distinct(records)
    BY <1>11, <2>1 DEF InStep
  <2>3. \A p \in Payloads : ~Shows(i, p)
    BY <1>10, <2>2, ListingHolds DEF Agrees
  <2>4. \A p \in Payloads : ~Shows(i, p)'
    BY <1>2, <2>3, ShowsSame
  <2>5. ~Done(t)'
    BY <1>8 DEF Done
  <2>6. Creates(t)'
    BY <1>7, <1>8, <1>10, <2>4, <2>5 DEF Creates
  <2>7. AccountsFor(t)'
    BY <1>4, <1>7, <1>8, <2>6 DEF AccountsFor
  <2> QED  BY <2>1, <2>2, <2>7
<1> HIDE DEF Loads, Changes, AccountsFor, InStep, Agrees, SureInv, Shows, OthersStay
<1>12. \A k \in Ids \ {i} : /\ entries'[k] = entries[k]
                            /\ \A q \in Payloads : Shows(k, q)' <=> Shows(k, q)
  BY <1>2, <1>8, ShowsSame
<1>13. i \in Ids \cup {None} /\ issued \subseteq issued' /\ job'[t].id = i
  BY <1>4, <1>7, <1>8
<1>14. \A o \in Tasks : ~Loads(o)
  BY <1>3, <1>9, ChangeUnderway
<1> QED
  BY <1>2, <1>3, <1>5, <1>8, <1>9, <1>11, <1>12, <1>13, <1>14, ShowsSame, ChangeStep

LEMMA UpdateStep ==
    ASSUME TypeInv, TypeInv', SureInv, NEW t \in Tasks, UpdateRecord(t)
    PROVE  SureInv'
<1>1. TaskTypes /\ DataTypes /\ Stages(t) /\ Drawn
  BY TypesSplit DEF TypeInv
<1>2. SUFFICES ASSUME ~doubt'  PROVE SureInv'
  BY DEF SureInv
<1>3. PICK x \in Shown, p \in Payloads :
        Goto(t, "encrypt", Call("update", x.id, p)) /\ doubt' = (doubt \/ Crosses(t, x.id))
  BY DEF UpdateRecord
<1>4. x \in Items(records) /\ x \in Record
  BY <1>1, ItemsTyped DEF Shown, Items, DataTypes
<1>5. PICK i \in Ids, q \in Payloads : x.id = i /\ x.payload = q /\ x = Rec(i, q)
  BY <1>4, RecFacts
<1>6. pc[t] = "idle" /\ ~doubt /\ ~Crosses(t, i)
  BY <1>1, <1>2, <1>3, <1>5 DEF UpdateRecord, DataTypes
<1>7. PICK kind \in {"create", "update", "delete"} : kind = "update"
  OBVIOUS
<1>8. PICK j : j = Call("update", i, p)
  OBVIOUS
<1>9. j.kind = "update" /\ j.id = i /\ j.payload = p
  BY <1>7, <1>8, CallsTyped
<1>10. UNCHANGED <<server, issued, records, unlocked, loading, rest, kept>>
  BY DEF UpdateRecord
<1>11. pc'[t] = "encrypt" /\ job'[t] = j /\ OthersStay(t) /\ UNCHANGED <<entries, result>>
  BY <1>1, <1>3, <1>5, <1>8, <1>10 DEF Goto, server, OthersStay, TaskTypes
<1>12. Changes(t)' /\ ~Loads(t)' /\ ~Changes(t)
  BY <1>6, <1>9, <1>11 DEF Changes, Loads
<1>13. ASSUME InStep  PROVE Distinct(records) /\ AccountsFor(t)'
  <2>1. Agrees(i) /\ Distinct(records)
    BY <1>6, <1>12, <1>13, NothingCrosses DEF InStep
  <2>2. Shows(i, q) /\ Holds(i, q)
    BY <1>4, <1>5, <2>1 DEF Shows, Agrees
  <2>3. i \in issued
    BY <1>1, <2>2, ListingHolds DEF Drawn
  <2>4. Shows(i, q)' /\ Holds(i, q)' /\ ~Done(t)'
    BY <1>6, <1>10, <1>11, <2>2, ShowsSame, NothingCrosses DEF Holds, Done
  <2>5. Updates(t)'
    BY <1>9, <1>11, <2>4 DEF Updates
  <2> QED  BY <1>9, <1>10, <1>11, <2>1, <2>3, <2>5 DEF AccountsFor
<1> HIDE DEF Loads, Changes, AccountsFor, InStep, Agrees, SureInv, Shows, OthersStay, Crosses
<1>14. \A k \in Ids \ {i} : /\ entries'[k] = entries[k]
                            /\ \A r \in Payloads : Shows(k, r)' <=> Shows(k, r)
  BY <1>10, <1>11, ShowsSame
<1>15. i \in Ids \cup {None} /\ job'[t].id = i
  BY <1>9, <1>11
<1> QED
  BY <1>6, <1>10, <1>11, <1>12, <1>13, <1>14, <1>15, ShowsSame, NothingCrosses, ChangeStep

LEMMA EncryptStep ==
    ASSUME TypeInv, TypeInv', SureInv, NEW t \in Tasks, Encrypt(t)
    PROVE  SureInv'
<1>1. TaskTypes /\ DataTypes /\ Stages(t)
  BY TypesSplit DEF TypeInv
<1>2. /\ pc[t] = "encrypt"
      /\ UNCHANGED <<entries, issued, records, unlocked, loading, rest, kept, doubt>>
  BY DEF Encrypt, Send
<1>3. SUFFICES ASSUME ~doubt  PROVE SureInv'
  BY <1>2 DEF SureInv
<1>4. PICK i \in Ids : i = job[t].id
  BY <1>1, <1>2, CallsTyped DEF Stages, StageOf
<1>5. /\ job[t].kind \in {"create", "update"} /\ job[t].payload \in Payloads
      /\ result[t] = None
  BY <1>1, <1>2, CallsTyped DEF Stages, StageOf
<1>6. /\ pc'[t] = "api" /\ job'[t] = job[t] /\ result'[t] = None /\ OthersStay(t)
      /\ kept'[t] = kept[t]
  BY <1>1, <1>2 DEF Encrypt, Goto, Send, OthersStay, TaskTypes
<1>7. Changes(t) /\ Changes(t)' /\ ~Loads(t)'
  BY <1>2, <1>5, <1>6 DEF Changes, Loads
<1>8. AccountsFor(t) => AccountsFor(t)'
  <2>1. ~Done(t) /\ ~Done(t)'
    BY <1>5, <1>6 DEF Done
  <2>2. \A p \in Payloads : /\ Shows(i, p)' <=> Shows(i, p)
                            /\ Holds(i, p)' <=> Holds(i, p)
    BY <1>2, ShowsSame DEF Holds
  <2>3. Creates(t) => Creates(t)'
    BY <1>2, <1>4, <1>6, <2>1, <2>2 DEF Creates
  <2>4. Updates(t) => Updates(t)'
    BY <1>4, <1>6, <2>1, <2>2 DEF Updates
  <2> QED  BY <1>2, <1>5, <1>6, <2>3, <2>4 DEF AccountsFor
<1> HIDE DEF Loads, Changes, AccountsFor, InStep, Agrees, SureInv, Shows, OthersStay
<1>9. \A k \in Ids \ {i} : /\ entries'[k] = entries[k]
                           /\ \A r \in Payloads : Shows(k, r)' <=> Shows(k, r)
  BY <1>2, ShowsSame
<1>10. i \in Ids \cup {None} /\ job'[t].id = i /\ job[t].id = i
  BY <1>4, <1>6
<1> QED
  BY <1>2, <1>3, <1>6, <1>7, <1>8, <1>9, <1>10, ShowsSame, ChangeUnderway, ChangeStep

(* The server takes up a list call.                                        *)
LEMMA ServeListStep ==
    ASSUME TypeInv, SureInv, NEW t \in Tasks, Serve(t), job[t].kind = "list"
    PROVE  SureInv'
<1>0. SUFFICES ASSUME ~doubt'  PROVE SureInv'
  BY DEF SureInv
<1>1. TaskTypes
  BY TypesSplit DEF TypeInv
<1>2. /\ pc[t] = "api" /\ result[t] = None
      /\ UNCHANGED <<issued, records, unlocked, loading, pc, job, rest, kept>>
      /\ ~doubt /\ ~CutOff(t)
  BY <1>0, ServeEffect
<1>3. PICK reply \in Reply :
        /\ result' = [result EXCEPT ![t] = reply] /\ entries' = entries
        /\ reply.status = "ok" => reply.data = Listing
  BY <1>2, ServeEffect
<1>4. OthersStay(t) /\ result'[t] = reply
  BY <1>1, <1>2, <1>3 DEF OthersStay, TaskTypes
<1>5. Loads(t) /\ Loads(t)' /\ ~Changes(t)'
  BY <1>2 DEF Loads, Changes
<1>6. Loaders(t)'
  <2>1. Listing' = Listing
    BY <1>3 DEF Listing
  <2> QED  BY <1>2, <1>3, <1>4, <2>1 DEF Loaders, Done
<1> HIDE DEF Loads, Changes, Loaders, InStep
<1> QED  BY <1>2, <1>3, <1>4, <1>5, <1>6, LoadUnderway, LoadStep

(* The server takes up a change; the list does not know yet.               *)
LEMMA ServeChangeStep ==
    ASSUME TypeInv, TypeInv', SureInv, NEW t \in Tasks, Serve(t), job[t].kind # "list"
    PROVE  SureInv'
<1>1. TaskTypes /\ DataTypes /\ Stages(t)
  BY TypesSplit DEF TypeInv
<1>2. /\ pc[t] = "api" /\ result[t] = None
      /\ UNCHANGED <<issued, records, unlocked, loading, pc, job, rest, kept>>
  BY ServeEffect
<1>0. doubt' = (doubt \/ CutOff(t))
  BY ServeEffect
<1>3. SUFFICES ASSUME ~doubt  PROVE SureInv'
  BY <1>0 DEF SureInv
<1>4. PICK i \in Ids, p \in Payloads : job[t].id = i /\ job[t].payload = p
  BY <1>1, <1>2, CallsTyped DEF Stages, StageOf
<1>5. PICK reply \in Reply :
        /\ result' = [result EXCEPT ![t] = reply]
        /\ \/ reply.status # "ok" /\ entries' = entries
           \/ /\ reply.status = "ok" /\ job[t].kind \in {"create", "update"}
              /\ entries' = Stored(i, p)
           \/ /\ reply.status = "ok" /\ job[t].kind = "delete"
              /\ entries' = [entries EXCEPT ![i] = None]
  BY <1>4, ServeEffect
<1>6. OthersStay(t) /\ result'[t] = reply /\ reply # None
  BY <1>1, <1>2, <1>5, ConstAssumption DEF OthersStay, TaskTypes, ConstAssumption
<1>7. Changes(t) /\ Changes(t)' /\ ~Loads(t)'
  BY <1>2 DEF Changes, Loads
<1>8. AccountsFor(t) => AccountsFor(t)'
  <2>1. ~Done(t) /\ (Done(t)' <=> reply.status = "ok")
    BY <1>2, <1>6 DEF Done
  <2>2. \A q : Shows(i, q)' <=> Shows(i, q)
    BY <1>2, ShowsSame
  <2>3. /\ ~Done(t)' => entries'[i] = entries[i] /\ \A q : Holds(i, q)' <=> Holds(i, q)
        /\ Done(t)' /\ job[t].kind \in {"create", "update"} => Holds(i, p)'
        /\ Done(t)' /\ job[t].kind = "delete" => entries'[i] = None
    BY <1>1, <1>5, <2>1 DEF Stored, Holds, DataTypes
  <2>4. job[t].kind = "create" /\ Creates(t) => Creates(t)'
    BY <1>2, <1>4, <2>1, <2>2, <2>3 DEF Creates
  <2>5. job[t].kind = "update" /\ Updates(t) => Updates(t)'
    BY <1>2, <1>4, <2>1, <2>2, <2>3 DEF Updates
  <2>6. job[t].kind = "delete" /\ Deletes(t) => Deletes(t)'
    <3>1. /\ Distinct(kept[t])' <=> Distinct(kept[t])
          /\ (Rec(i, p) \in Items(kept[t]))' <=> Rec(i, p) \in Items(kept[t])
      BY <1>2 DEF Distinct, Items, Rec
    <3> QED  BY <1>2, <1>4, <2>1, <2>2, <2>3, <3>1 DEF Deletes
  <2> QED  BY <1>2, <2>4, <2>5, <2>6 DEF AccountsFor
<1>9. \A k \in Ids \ {i} : entries'[k] = entries[k]
  BY <1>1, <1>5 DEF Stored, DataTypes
<1> HIDE DEF Loads, Changes, AccountsFor, InStep, Agrees, SureInv, Shows, OthersStay
<1>10. \A k \in Ids \ {i} : /\ entries'[k] = entries[k]
                            /\ \A r \in Payloads : Shows(k, r)' <=> Shows(k, r)
  BY <1>2, <1>9, ShowsSame
<1>11. i \in Ids \cup {None} /\ job'[t].id = i /\ job[t].id = i
  BY <1>2, <1>4
<1> QED
  BY <1>2, <1>3, <1>6, <1>7, <1>8, <1>10, <1>11, ShowsSame, ChangeUnderway, ChangeStep

LEMMA SavedStep ==
    ASSUME TypeInv, TypeInv', SureInv, NEW t \in Tasks, Saved(t)
    PROVE  SureInv'
<1>1. TaskTypes /\ DataTypes /\ Stages(t)
  BY TypesSplit DEF TypeInv
<1>2. /\ pc[t] = "api" /\ job[t].kind \in {"create", "update"} /\ Done(t)
      /\ UNCHANGED <<entries, issued, unlocked, loading, doubt>>
  BY DEF Saved, Done, Received, Send
<1>3. SUFFICES ASSUME ~doubt  PROVE SureInv'
  BY <1>2 DEF SureInv
<1>4. PICK i \in Ids, p \in Payloads : job[t].id = i /\ job[t].payload = p
  BY <1>1, <1>2, CallsTyped DEF Stages, StageOf
<1>5. records' = IF job[t].kind = "create" THEN <<Rec(i, p)>> \o records
                                           ELSE Replaced(records, i, p)
  BY <1>4 DEF Saved, ShowSaved, Rec
<1>6. pc'[t] = "idle" /\ OthersStay(t)
  BY <1>1 DEF Saved, Received, Send, End, Goto, Keep, OthersStay, TaskTypes, DataTypes
<1>7. Changes(t) /\ ~Changes(t)' /\ ~Loads(t)'
  BY <1>2, <1>6 DEF Changes, Loads
<1>8. records \in Seq(Record) /\ Rec(i, p) \in Record
  BY <1>1, RecFacts DEF DataTypes
<1>9. PICK s : s = records'
  OBVIOUS
<1>10. \A k, q : Shows(k, q)' <=> Rec(k, q) \in Items(s)
  BY <1>9 DEF Shows, Items
<1>11. ASSUME NEW k \in Ids \ {i}, NEW q \in Payloads
       PROVE  Shows(k, q)' <=> Shows(k, q)
  <2>1. Rec(k, q) \in Record /\ Rec(k, q).id = k /\ Rec(k, q) # Rec(i, p)
    BY RecFacts
  <2>2. Rec(k, q) \in Items(s) <=> Rec(k, q) \in Items(records)
    <3>1. CASE job[t].kind = "create"
      BY <1>5, <1>8, <1>9, <2>1, <3>1, PrependItems
    <3>2. CASE job[t].kind # "create"
      BY <1>5, <1>8, <1>9, <2>1, <3>2, ReplacedItems
    <3> QED  BY <3>1, <3>2
  <2> QED  BY <1>10, <2>2 DEF Shows
<1>12. ASSUME InStep  PROVE Distinct(s) /\ Agrees(i)'
  <2>1. Distinct(records) /\ AccountsFor(t)
    BY <1>3, <1>7, <1>12, ChangeUnderway
  <2>2. \A q \in Payloads : Holds(i, q)' <=> q = p
    <3>1. Holds(i, p)
      BY <1>2, <1>4, <2>1 DEF AccountsFor, Creates, Updates
    <3> QED  BY <1>2, <3>1 DEF Holds
  <2>3. CASE job[t].kind = "create"
    <3>1. \A q \in Payloads : ~Shows(i, q)
      BY <1>2, <1>4, <2>1, <2>3 DEF AccountsFor, Creates
    <3>2. \A x \in Items(records) : x.id # i
      <4>1. SUFFICES ASSUME NEW x \in Items(records), x.id = i  PROVE FALSE
        OBVIOUS
      <4>2. x \in Record
        BY <1>8, ItemsTyped
      <4>3. PICK q \in Payloads : x = Rec(i, q)
        BY <4>1, <4>2, RecFacts
      <4> QED  BY <3>1, <4>1, <4>3 DEF Shows
    <3>3. Items(s) = Items(records) \cup {Rec(i, p)} /\ Distinct(s)
      BY <1>5, <1>8, <1>9, <2>1, <2>3, <3>2, PrependItems, RecFacts
    <3>4. \A q \in Payloads : Rec(i, q) \in Items(s) <=> q = p
      BY <3>2, <3>3, RecFacts
    <3> QED  BY <1>10, <2>2, <3>3, <3>4 DEF Agrees
  <2>4. CASE job[t].kind = "update"
    <3>1. PICK q \in Payloads : Rec(i, q) \in Items(records)
      BY <1>2, <1>4, <2>1, <2>4 DEF AccountsFor, Updates, Shows
    <3>2. Distinct(s)
      BY <1>5, <1>8, <1>9, <2>1, <2>4, ReplacedItems
    <3>3. \A r \in Payloads : Rec(i, r) \in Items(s) <=> r = p
      <4>1. \A r \in Payloads : Rec(i, r) \in Record /\ Rec(i, r).id = i /\ Rec(i, r).payload = r
        BY RecFacts
      <4>2. s = Replaced(records, i, p)
        BY <1>5, <1>9, <2>4
      <4>3. \A x \in Record : x.id = i =>
              (x \in Items(s) <=> x.payload = p /\ \E y \in Items(records) : y.id = i)
        BY <1>8, <4>2, ReplacedItems
      <4> QED  BY <3>1, <4>1, <4>3
    <3> QED  BY <1>10, <2>2, <3>2, <3>3 DEF Agrees
  <2> QED  BY <1>2, <2>3, <2>4
<1> HIDE DEF Loads, Changes, AccountsFor, InStep, Agrees, SureInv, Shows, OthersStay
<1>13. \A k \in Ids \ {i} : /\ entries'[k] = entries[k]
                            /\ \A r \in Payloads : Shows(k, r)' <=> Shows(k, r)
  BY <1>2, <1>11
<1>14. i \in Ids \cup {None} /\ job[t].id = i
  BY <1>4
<1> QED
  BY <1>2, <1>3, <1>6, <1>7, <1>9, <1>12, <1>13, <1>14, ChangeUnderway, ChangeStep

(* A list without the entry i shows of the others what it showed before.   *)
LEMMA SiftedShows ==
    ASSUME NEW s \in Seq(Record), NEW r \in Seq(Record), NEW i \in Ids, r = Without(s, i)
    PROVE  /\ \A k \in Ids \ {i}, q \in Payloads : Rec(k, q) \in Items(r) <=> Rec(k, q) \in Items(s)
           /\ \A q \in Payloads : Rec(i, q) \notin Items(r)
           /\ Distinct(s) => Distinct(r)
BY WithoutIsSifted, RecFacts

LEMMA DeleteStep ==
    ASSUME TypeInv, TypeInv', SureInv, NEW t \in Tasks, DeleteRecord(t)
    PROVE  SureInv'
<1>1. TaskTypes /\ DataTypes /\ Stages(t) /\ Drawn
  BY TypesSplit DEF TypeInv
<1>2. SUFFICES ASSUME ~doubt'  PROVE SureInv'
  BY DEF SureInv
<1>3. PICK x \in Shown :
        /\ records' = Without(records, x.id)
        /\ Send(t, Call("delete", x.id, x.payload))
        /\ Goto(t, "api", Call("delete", x.id, x.payload))
        /\ doubt' = (doubt \/ Crosses(t, x.id))
  BY DEF DeleteRecord
<1>4. x \in Items(records) /\ x \in Record
  BY <1>1, ItemsTyped DEF Shown, Items, DataTypes
<1>5. PICK i \in Ids, p \in Payloads : x.id = i /\ x.payload = p /\ x = Rec(i, p)
  BY <1>4, RecFacts
<1>6. pc[t] = "idle" /\ ~doubt /\ ~Crosses(t, i)
  BY <1>1, <1>2, <1>3, <1>5 DEF DeleteRecord, DataTypes
<1>7. PICK kind \in {"create", "update", "delete"} : kind = "delete"
  OBVIOUS
<1>8. PICK j : j = Call("delete", i, p)
  OBVIOUS
<1>9. j.kind = "delete" /\ j.id = i /\ j.payload = p
  BY <1>7, <1>8, CallsTyped
<1>10. UNCHANGED <<entries, issued, unlocked, loading>>
  BY <1>3 DEF DeleteRecord, Send
<1>11. /\ pc'[t] = "api" /\ job'[t] = j /\ OthersStay(t) /\ result'[t] = None
       /\ kept'[t] = records
  BY <1>1, <1>3, <1>5, <1>8 DEF DeleteRecord, Goto, Send, Keep, OthersStay, TaskTypes, DataTypes
<1>12. Changes(t)' /\ ~Loads(t)' /\ ~Changes(t)
  BY <1>6, <1>9, <1>11 DEF Changes, Loads
<1>13. records \in Seq(Record)
  BY <1>1 DEF DataTypes
<1>14. PICK r \in Seq(Record) : r = records' /\ r = Without(records, i)
  BY <1>3, <1>5, <1>13, WithoutIsSifted
<1>15. \A k, q : Shows(k, q)' <=> Rec(k, q) \in Items(r)
  BY <1>14 DEF Shows, Items
<1>16. ASSUME InStep  PROVE Distinct(r) /\ AccountsFor(t)'
  <2>1. Agrees(i) /\ Distinct(records)
    BY <1>6, <1>12, <1>16, NothingCrosses DEF InStep
  <2>2. Rec(i, p) \in Items(records) /\ Holds(i, p)
    BY <1>4, <1>5, <2>1 DEF Shows, Agrees
  <2>3. i \in issued
    BY <1>1, <2>2, ListingHolds DEF Drawn
  <2>4. Distinct(r) /\ \A q \in Payloads : ~Shows(i, q)'
    BY <1>13, <1>14, <1>15, <2>1, SiftedShows
  <2>5. Holds(i, p)' /\ ~Done(t)'
    BY <1>10, <1>11, <2>2 DEF Holds, Done
  <2>6. Distinct(kept[t])' /\ (Rec(i, p) \in Items(kept[t]))'
    BY <1>11, <2>1, <2>2 DEF Distinct, Items, Rec
  <2>7. Deletes(t)'
    BY <1>9, <1>11, <2>4, <2>5, <2>6 DEF Deletes
  <2> QED  BY <1>9, <1>10, <1>11, <2>3, <2>4, <2>7 DEF AccountsFor
<1>17. \A k \in Ids \ {i} : /\ entries'[k] = entries[k]
                            /\ \A q \in Payloads : Shows(k, q)' <=> Shows(k, q)
  BY <1>10, <1>13, <1>14, <1>15, SiftedShows DEF Shows
<1> HIDE DEF Loads, Changes, AccountsFor, InStep, Agrees, SureInv, Shows, OthersStay, Crosses
<1>18. i \in Ids \cup {None} /\ job'[t].id = i
  BY <1>9, <1>11
<1> QED
  BY <1>6, <1>10, <1>11, <1>12, <1>14, <1>16, <1>17, <1>18, NothingCrosses, ChangeStep

(* A deletion ends: done, or with the list rolled back.                    *)
LEMMA DeletedStep ==
    ASSUME TypeInv, TypeInv', SureInv, NEW t \in Tasks, Deleted(t) \/ DeleteFailed(t)
    PROVE  SureInv'
<1>1. TaskTypes /\ DataTypes /\ Stages(t)
  BY TypesSplit DEF TypeInv
<1>2. SUFFICES ASSUME ~doubt'  PROVE SureInv'
  BY DEF SureInv
<1>3. /\ pc[t] = "api" /\ job[t].kind = "delete"
      /\ UNCHANGED <<entries, issued, unlocked, loading>>
  BY DEF Deleted, DeleteFailed, Received, Send
<1>4. PICK i \in Ids, p \in Payloads : job[t].id = i /\ job[t].payload = p
  BY <1>1, <1>3, CallsTyped DEF Stages, StageOf
<1>5. \/ Done(t) /\ records' = records /\ ~doubt
      \/ ~Done(t) /\ records' = kept[t] /\ records = Without(kept[t], i) /\ ~doubt
  <2>1. CASE Deleted(t)
    BY <1>2, <2>1 DEF Deleted, Done
  <2>2. CASE DeleteFailed(t)
    BY <1>1, <1>2, <1>4, <2>2 DEF DeleteFailed, RollBack, Done, DataTypes
  <2> QED  BY <2>1, <2>2
<1>6. pc'[t] = "idle" /\ OthersStay(t)
  BY <1>1 DEF Deleted, DeleteFailed, Received, Send, End, Goto, Keep, OthersStay,
              TaskTypes, DataTypes
<1>7. Changes(t) /\ ~Changes(t)' /\ ~Loads(t)'
  BY <1>3, <1>6 DEF Changes, Loads
<1>8. records \in Seq(Record) /\ kept[t] \in Seq(Record)
  BY <1>1 DEF DataTypes
<1>9. PICK s \in Seq(Record) : s = records'
  BY <1>5, <1>8
<1>10. \A k, q : Shows(k, q)' <=> Rec(k, q) \in Items(s)
  BY <1>9 DEF Shows, Items
<1>11. \A k \in Ids \ {i} : \A q \in Payloads : Shows(k, q)' <=> Shows(k, q)
  <2>1. CASE s = records
    BY <1>10, <2>1 DEF Shows
  <2>2. CASE s = kept[t] /\ records = Without(s, i)
    BY <1>8, <1>10, <2>2, SiftedShows DEF Shows
  <2> QED  BY <1>5, <1>9, <2>1, <2>2
<1>12. ASSUME InStep  PROVE Distinct(s) /\ Agrees(i)'
  <2>1. Distinct(records) /\ Deletes(t)
    BY <1>3, <1>5, <1>7, <1>12, ChangeUnderway DEF AccountsFor
  <2>2. \A q \in Payloads : Holds(i, q)' <=> Holds(i, q)
    BY <1>3 DEF Holds
  <2>3. CASE Done(t) /\ s = records
    <3>1. \A q \in Payloads : ~Shows(i, q)' /\ ~Holds(i, q)
      BY <1>4, <1>10, <2>1, <2>3, ListingHolds DEF Deletes, Shows
    <3> QED  BY <2>1, <2>2, <2>3, <3>1 DEF Agrees
  <2>4. CASE ~Done(t) /\ s = kept[t]
    <3>1. Distinct(s) /\ Rec(i, p) \in Items(s) /\ Holds(i, p)
      BY <1>4, <2>1, <2>4 DEF Deletes
    <3>2. \A q \in Payloads : Rec(i, q) \in Items(s) => q = p
      <4>1. \A x, y \in Items(s) : x.id = y.id => x = y
        BY <3>1 DEF Items, Distinct
      <4> QED  BY <3>1, <4>1, RecFacts
    <3>3. \A q \in Payloads : Holds(i, q) => q = p
      BY <3>1 DEF Holds
    <3> QED  BY <1>10, <2>2, <3>1, <3>2, <3>3 DEF Agrees
  <2> QED  BY <1>5, <1>9, <2>3, <2>4
<1> HIDE DEF Loads, Changes, AccountsFor, InStep, Agrees, SureInv, Shows, OthersStay
<1>13. \A k \in Ids \ {i} : /\ entries'[k] = entries[k]
                            /\ \A r \in Payloads : Shows(k, r)' <=> Shows(k, r)
  BY <1>3, <1>11
<1>14. i \in Ids \cup {None} /\ job[t].id = i
  BY <1>4
<1>15. ~doubt
  BY <1>5
<1> QED
  BY <1>3, <1>6, <1>7, <1>9, <1>12, <1>13, <1>14, <1>15, ChangeUnderway, ChangeStep

LEMMA SureStep ==
    ASSUME TypeInv, SureInv, [Next]_vars
    PROVE  SureInv'
<1>1. TypeInv'
  BY TypeStep
<1>2. CASE Lock
  BY <1>2, LockStep
<1>3. CASE UNCHANGED vars
  <2>1. UNCHANGED <<entries, result, issued, records, unlocked, pc, job, rest, kept, doubt>>
    BY <1>3 DEF vars, server
  <2>2. Listing' = Listing /\ \A t : Changes(t)' = Changes(t) /\ Loads(t)' = Loads(t)
    BY <2>1 DEF Listing, Changes, Loads
  <2>3. \A t : Loaders(t)' = Loaders(t)
    BY <2>1, <2>2 DEF Loaders, Done, Items, Distinct
  <2>4. InStep => InStep'
    <3>1. \A i : Agrees(i)' = Agrees(i)
      BY <2>1 DEF Agrees, Shows, Holds, Items
    <3>2. \A t : AccountsFor(t)' = AccountsFor(t)
      BY <2>1 DEF AccountsFor, Creates, Updates, Deletes, Shows, Holds, Done, Items, Distinct
    <3> QED  BY <2>1, <2>2, <3>1, <3>2, ShowsSame DEF InStep
  <2> HIDE DEF Changes, Loads, Loaders, InStep
  <2> QED  BY <2>1, <2>2, <2>3, <2>4 DEF SureInv
<1>4. ASSUME NEW t \in Tasks, Open(t) \/ SaveFailed(t)  PROVE SureInv'
  BY <1>4, LoadRecordsStep DEF Open, SaveFailed
<1>5. ASSUME NEW t \in Tasks, LoadFailed(t)  PROVE SureInv'
  BY <1>5 DEF LoadFailed, SureInv
<1>6. ASSUME NEW t \in Tasks, Serve(t)  PROVE SureInv'
  BY <1>1, <1>6, ServeListStep, ServeChangeStep
<1> QED
  BY <1>1, <1>2, <1>3, <1>4, <1>5, <1>6, ListedStep, DecryptStep, LoadedStep, AddStep,
     PreCreateStep, UpdateStep, EncryptStep, SavedStep, DeleteStep, DeletedStep
  DEF Next, Continue

(* Whatever interleaves, fails or meets a lock: when all operations have   *)
(* ended and nothing has put the list in doubt, it shows each entry of the *)
(* server once, with its last payload.                                     *)
THEOREM ListMatches == Spec => []ListMatchesStore
<1>1. Init => SureInv
  <2> SUFFICES ASSUME Init  PROVE SureInv
    OBVIOUS
  <2>1. ~unlocked /\ \A t \in Tasks : pc[t] = "idle"
    BY DEF Init
  <2> QED  BY <2>1 DEF SureInv, Loads, Changes
<1>2. ASSUME TypeInv, SureInv  PROVE ListMatchesStore
  <2> SUFFICES ASSUME unlocked, ~doubt, \A t \in Tasks : pc[t] = "idle"
               PROVE  /\ Shown = Listing
                      /\ \A m, n \in 1..Len(records) : records[m].id = records[n].id => m = n
    BY DEF ListMatchesStore, Listing, Rec
  <2>1. InStep /\ \A t \in Tasks : ~Changes(t)
    BY <1>2 DEF SureInv, Loads, Changes
  <2>2. Distinct(records) /\ \A i \in Ids : Agrees(i)
    BY <2>1 DEF InStep
  <2>3. \A i \in Ids, p \in Payloads : Rec(i, p) \in Items(records) <=> Rec(i, p) \in Listing
    BY <1>2, <2>2, ListingHolds DEF Agrees, Shows
  <2>4. Items(records) \subseteq Record /\ Listing \subseteq Record
    <3>1. records \in Seq(Record) /\ \A i \in Ids : entries[i] # None => entries[i] \in Entry
      BY <1>2, TypesSplit DEF TypeInv, DataTypes
    <3>2. \A i \in Ids : entries[i] # None => entries[i].payload \in Payloads
      BY <3>1 DEF Entry
    <3>3. \A i \in Ids : entries[i] # None => Rec(i, entries[i].payload) \in Record
      BY <3>2 DEF Rec, Record
    <3> QED  BY <3>1, <3>3, ItemsTyped DEF Listing
  <2>5. Items(records) = Listing
    BY <2>3, <2>4, RecFacts
  <2> QED  BY <2>2, <2>5 DEF Shown, Items, Distinct
<1> QED  BY <1>1, <1>2, TypeInit, TypeStep, SureStep, PTL DEF Spec
=============================================================================
