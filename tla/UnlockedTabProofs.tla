------------------------- MODULE UnlockedTabProofs -------------------------
(***************************************************************************)
(* Proofs about the screen of a tab, for every set of timeouts and records *)
(* and every bound: the composition implements InactivityTimer, whose two  *)
(* properties are proved from an invariant on the target; the three of the *)
(* dashboard rest on an invariant each.                                    *)
(***************************************************************************)
EXTENDS UnlockedTab, TLAPS

-----------------------------------------------------------------------------
(* The timer.  While the vault is unlocked and no lock is under way, the   *)
(* target is the deadline of the last use, the timer ticks, and the tick   *)
(* that finds the target passed is still to come.                          *)
TimerInv ==
    /\ now \in Nat /\ target \in Nat /\ seen \in Nat /\ timeout \in Timeouts
    /\ vault \in {"locked", "open", "locking"}
    /\ vault = "locked" => timer = "off"
    /\ vault = "open" =>
          /\ timer \in {"on", "due"}
          /\ target = seen + Margin + timeout
          /\ timer = "on" => now < target

LEMMA TimerStarts == Init => TimerInv
  BY TimerAssumption DEF Init, TimerInv, TimerAssumption

LEMMA TimerSteps == TimerInv /\ [Next]_timerVars => TimerInv'
<1> SUFFICES ASSUME TimerInv, [Next]_timerVars
             PROVE  TimerInv'
  OBVIOUS
<1> USE TimerAssumption DEF TimerInv, unlocked, TimerAssumption
<1>1. CASE Use
  BY <1>1 DEF Use, Tracked, Overdue, NewTarget, Seen
<1>2. CASE Tick
  BY <1>2 DEF Tick
<1>3. CASE Unlock
  BY <1>3 DEF Unlock, NewTarget
<1>4. CASE Register
  BY <1>4 DEF Register, Tracked, Overdue, NewTarget
<1>5. CASE PressLock
  BY <1>5 DEF PressLock
<1>6. CASE LockEnds \/ Expelled
  BY <1>6 DEF LockEnds, Expelled, Stop
<1>7. CASE \E t \in Timeouts : SetTimeout(t)
  <2>. PICK t \in Timeouts : SetTimeout(t)
    BY <1>7
  <2>1. CASE unlocked
    BY <2>1 DEF SetTimeout, Tracked, Overdue, NewTarget, Seen
  <2>2. CASE ~unlocked
    BY <2>2 DEF SetTimeout
  <2>. QED
    BY <2>1, <2>2
<1>8. CASE Advance
  BY <1>8 DEF Advance
<1>9. CASE Sleep \/ Wake
  BY <1>9 DEF Sleep, Wake
<1>10. CASE UNCHANGED timerVars
  BY <1>10 DEF timerVars
<1>. QED
  BY <1>1, <1>2, <1>3, <1>4, <1>5, <1>6, <1>7, <1>8, <1>9, <1>10 DEF Next

(* A lock that starts has one of its reasons.                              *)
LockReason == vault # "locking" /\ vault' = "locking" =>
                PressLock \/ LeftAlone \/ (Register /\ Overdue)

LEMMA LockSteps == TimerInv /\ [Next]_timerVars => [LockReason]_timerVars
<1> SUFFICES ASSUME TimerInv, Next, vault # "locking", vault' = "locking"
             PROVE  PressLock \/ LeftAlone \/ (Register /\ Overdue)
  BY DEF LockReason
<1> USE TimerAssumption DEF TimerInv, unlocked, TimerAssumption, LeftAlone
<1>1. CASE Use
  BY <1>1 DEF Use, Tracked, Overdue
<1>2. CASE Tick
  BY <1>2 DEF Tick
<1>3. CASE Register
  BY <1>3 DEF Register, Tracked
<1>4. CASE \E t \in Timeouts : SetTimeout(t)
  BY <1>4 DEF SetTimeout, Tracked, Overdue
<1>5. CASE PressLock
  BY <1>5
<1>6. CASE Unlock \/ LockEnds \/ Expelled \/ Advance \/ Sleep \/ Wake
  BY <1>6 DEF Unlock, LockEnds, Expelled, Stop, Advance, Sleep, Wake
<1>. QED
  BY <1>1, <1>2, <1>3, <1>4, <1>5, <1>6 DEF Next

(* The timer on its own keeps its invariant.                               *)
THEOREM TimerInvariance == Spec => []TimerInv
  BY TimerStarts, TimerSteps, PTL DEF Spec

(* SessionTimerService in the running tab is InactivityTimer: what the     *)
(* dashboard does never touches it.                                        *)
THEOREM TabImplementsTimer == TabSpec => Spec
<1>1. TabInit => Init
  BY DEF TabInit
<1>2. [TabNext]_tabVars => [Next]_timerVars
  <2> SUFFICES ASSUME [TabNext]_tabVars
               PROVE  [Next]_timerVars
    OBVIOUS
  <2>1. CASE Locked
    BY <2>1 DEF Locked, Next
  <2>2. CASE Unlocked
    BY <2>2 DEF Unlocked, Next
  <2>3. CASE TimerStep
    BY <2>3 DEF TimerStep, Next
  <2>4. CASE PageStep
    BY <2>4 DEF PageStep
  <2>5. CASE UNCHANGED tabVars
    BY <2>5 DEF tabVars
  <2>. QED
    BY <2>1, <2>2, <2>3, <2>4, <2>5 DEF TabNext
<1>. QED
  BY <1>1, <1>2, PTL DEF TabSpec, Spec

(* An unlocked tab that runs was used within the timeout and its margin,   *)
(* for every timeout and margin.                                           *)
THEOREM IdleLocked == TabSpec => []IdleIsLocked
<1>1. TimerInv => IdleIsLocked
  BY TimerAssumption DEF TimerInv, unlocked, IdleIsLocked, LeftAlone, TimerAssumption
<1>. QED
  BY <1>1, TabImplementsTimer, TimerInvariance, PTL

(* No lock comes early, for every timeout and margin.                      *)
THEOREM LockDue == TabSpec => LockIsDue
<1>1. Spec => [][LockReason]_timerVars
  BY TimerInvariance, LockSteps, PTL DEF Spec
<1>2. Spec => LockIsDue
  BY <1>1 DEF LockIsDue, LockReason
<1>. QED
  BY <1>2, TabImplementsTimer, PTL

-----------------------------------------------------------------------------
(* The revealed passwords.  Which timers run is a function of what is      *)
(* revealed.                                                               *)
RevealInv == hides = [r \in Records |-> IF r \in reveal THEN 1 ELSE 0]

(* What a step of the page may do to cards and timers.                     *)
LEMMA KeepReveals ==
    ASSUME RevealInv, NEW keep, Keep(keep)
    PROVE  RevealInv'
  BY DEF RevealInv, Keep

LEMMA ProceedReveals ==
    ASSUME RevealInv, NEW op, NEW r, Proceed(op, r)
    PROVE  RevealInv'
<1>1. CASE Reveal(r)
  BY <1>1 DEF Reveal, RevealInv
<1>2. CASE Edit(r)
  BY <1>2 DEF Edit, RevealInv, buttons
<1>3. CASE Delete(r)
  BY <1>3, KeepReveals DEF Delete
<1>. QED
  BY <1>1, <1>2, <1>3 DEF Proceed

LEMMA RevealSteps == RevealInv /\ [TabNext]_tabVars => RevealInv'
<1> SUFFICES ASSUME RevealInv, [TabNext]_tabVars
             PROVE  RevealInv'
  OBVIOUS
<1>1. CASE UNCHANGED buttons
  BY <1>1 DEF buttons, RevealInv
<1>2. CASE Locked
  BY <1>2, KeepReveals DEF Locked, Blanked
<1>3. CASE Unlocked \/ TimerStep \/ UNCHANGED tabVars
  BY <1>1, <1>3 DEF Unlocked, TimerStep, tabVars, pageVars, buttons
<1>4. CASE PageNext
  <2>1. CASE ListChanges
    BY <2>1 DEF ListChanges, RevealInv
  <2>2. CASE Debounced \/ ClearSearch
    BY <2>2, KeepReveals DEF Debounced, ClearSearch
  <2>3. CASE \E r \in Records : \E op \in Ops : Click(op, r)
    BY <2>3, ProceedReveals DEF Click
  <2>4. CASE Verified
    BY <2>4, <1>1, ProceedReveals DEF Verified
  <2>5. CASE \E r \in Records : Hide(r)
    BY <2>5 DEF Hide, RevealInv
  <2>6. CASE \/ \E r \in Records : \E op \in Ops : ClickAndWait(op, r)
             \/ Search \/ CloseMemo \/ Add \/ Type \/ Submit \/ TriggerClose
             \/ Closed \/ \E s \in saves : SaveEnds(s) \/ SaveFails(s)
             \/ \E r \in Records : ShowMemo(r)
    BY <2>6, <1>1 DEF ClickAndWait, Search, CloseMemo, Add, Type, Submit,
                      TriggerClose, Closed, SaveEnds, SaveFails, ShowMemo
  <2>7. CASE \E r \in Records : Arm(r) \/ Disarm(r)
    BY <2>7 DEF Arm, Disarm, RevealInv
  <2>. QED
    BY <1>4, <2>1, <2>2, <2>3, <2>4, <2>5, <2>6, <2>7 DEF PageNext
<1>. QED
  BY <1>2, <1>3, <1>4 DEF TabNext, PageStep

(* A revealed password always has its one timer, for any set of records.   *)
THEOREM RevealsBounded == TabSpec => []RevealsEnd
<1>1. TabInit => RevealInv
  BY DEF TabInit, PageInit, RevealInv
<1>2. RevealInv => RevealsEnd
  BY DEF RevealInv, RevealsEnd
<1>. QED
  BY <1>1, <1>2, RevealSteps, PTL DEF TabSpec

-----------------------------------------------------------------------------
(* The editor.  Until an edit is answered with another editor open, its    *)
(* fields are those of the record it will update, or a new one's.          *)
FormInv ==
    /\ spoilt => crossed
    /\ editing = None \/ editing \in Records
    /\ crossed \/ ~Open \/ (editing # None /\ form = editing)
         \/ (editing = None /\ form \in {New, Blank})

LEMMA EditForms ==
    ASSUME FormInv, NEW r \in Records, Edit(r)
    PROVE  FormInv'
  BY DashboardAssumption DEF DashboardAssumption, FormInv, Edit, Open

LEMMA CloseForms ==
    ASSUME FormInv, CloseEditor, UNCHANGED <<spoilt, crossed>>
    PROVE  FormInv'
  BY DEF FormInv, CloseEditor, Open

(* Types of what waits: the click and the saves.                           *)
Waits == [op : Ops, rec : Records, alive : BOOLEAN]
Saves == [id : SaveIds, to : Records \cup {New}, alive : BOOLEAN]
WaitInv ==
    /\ wait = None \/ wait \in Waits
    /\ saves \subseteq Saves

LEMMA OrphanIsWait ==
    ASSUME WaitInv, NEW keep
    PROVE  Orphan(keep) = None \/ Orphan(keep) \in Waits
  BY DEF WaitInv, Orphan, Waits

LEMMA DeadAreSaves ==
    ASSUME NEW ss, ss \subseteq Saves
    PROVE  /\ Dead(ss) \subseteq Saves
           /\ \A s \in Dead(ss) : ~s.alive
<1> SUFFICES ASSUME NEW s \in ss
             PROVE  /\ [s EXCEPT !.alive = FALSE] \in Saves
                    /\ ~[s EXCEPT !.alive = FALSE].alive
  BY DEF Dead
<1>1. s \in Saves
  OBVIOUS
<1>. QED
  BY <1>1 DEF Saves

LEMMA WaitSteps == FormInv /\ WaitInv /\ [TabNext]_tabVars => WaitInv'
<1> SUFFICES ASSUME FormInv, WaitInv, [TabNext]_tabVars
             PROVE  WaitInv'
  OBVIOUS
<1>1. CASE Locked
  <2>1. wait' = Orphan({}) /\ saves' = Dead(saves)
    BY <1>1 DEF Locked, Blanked
  <2>. QED
    BY <2>1, OrphanIsWait, DeadAreSaves DEF WaitInv
<1>2. CASE Unlocked \/ TimerStep \/ UNCHANGED tabVars
  BY <1>2 DEF Unlocked, TimerStep, tabVars, pageVars, WaitInv
<1>3. CASE PageNext
  <2>1. CASE ListChanges \/ Debounced \/ ClearSearch
    <3>1. saves' = saves /\ \E keep : wait' = Orphan(keep)
      BY <2>1 DEF ListChanges, Debounced, ClearSearch, editor
    <3>. QED
      BY <3>1, OrphanIsWait DEF WaitInv
  <2>2. CASE \E r \in Records : \E op \in Ops : Click(op, r)
    <3>. PICK r \in Records, op \in Ops : Click(op, r)
      BY <2>2
    <3>1. saves' = saves
      BY DEF Click, Proceed, Reveal, Edit, Delete, editor
    <3>2. wait' = wait \/ wait' = Orphan(Records \ {r})
      BY DEF Click
    <3>. QED
      BY <3>1, <3>2, OrphanIsWait DEF WaitInv
  <2>3. CASE \E r \in Records : \E op \in Ops : ClickAndWait(op, r)
    BY <2>3 DEF ClickAndWait, editor, WaitInv, Waits
  <2>4. CASE Verified
    BY <2>4 DEF Verified, Proceed, Reveal, Edit, Delete, editor, WaitInv
  <2>5. CASE Submit
    <3> DEFINE to == IF editing # None THEN editing ELSE New
    <3>1. wait' = wait
      BY <2>5 DEF Submit
    <3>. PICK id \in SaveIds : saves' = saves \cup {[id |-> id, to |-> to, alive |-> TRUE]}
      BY <2>5 DEF Submit
    <3>2. to \in Records \cup {New}
      BY DEF FormInv
    <3>3. [id |-> id, to |-> to, alive |-> TRUE] \in Saves
      BY <3>2 DEF Saves
    <3>. QED
      BY <3>1, <3>3 DEF WaitInv
  <2>6. CASE Closed
    BY <2>6, DeadAreSaves DEF Closed, WaitInv
  <2>7. CASE \E s \in saves : SaveEnds(s)
    BY <2>7 DEF SaveEnds, WaitInv
  <2>8. CASE \E s \in saves : SaveFails(s)
    <3>. PICK s \in saves : SaveFails(s)
      BY <2>8
    <3>1. wait' = wait /\ saves' = Dead(saves \ {s}) /\ saves \ {s} \subseteq Saves
      BY DEF SaveFails, WaitInv
    <3>. QED
      BY <3>1, DeadAreSaves DEF WaitInv
  <2>9. CASE \/ Search \/ CloseMemo \/ Add \/ Type \/ TriggerClose
             \/ \E r \in Records : Arm(r) \/ Disarm(r) \/ Hide(r) \/ ShowMemo(r)
    BY <2>9 DEF Search, CloseMemo, Add, Type, TriggerClose, Arm, Disarm, Hide,
                ShowMemo, editor, WaitInv
  <2>. QED
    BY <1>3, <2>1, <2>2, <2>3, <2>4, <2>5, <2>6, <2>7, <2>8, <2>9 DEF PageNext
<1>. QED
  BY <1>1, <1>2, <1>3 DEF TabNext, PageStep

LEMMA FormSteps == FormInv /\ WaitInv /\ [TabNext]_tabVars => FormInv'
<1> SUFFICES ASSUME FormInv, WaitInv, [TabNext]_tabVars
             PROVE  FormInv'
  OBVIOUS
<1>1. CASE UNCHANGED editor
  BY <1>1 DEF editor, FormInv, Open
<1>2. CASE Locked
  BY <1>2, CloseForms DEF Locked, Blanked
<1>3. CASE Unlocked \/ TimerStep \/ UNCHANGED tabVars
  BY <1>1, <1>3 DEF Unlocked, TimerStep, tabVars, pageVars, editor
<1>4. CASE PageNext
  <2>1. CASE \E r \in Records : \E op \in Ops : Click(op, r)
    <3>. PICK r \in Records, op \in Ops : Click(op, r)
      BY <2>1
    <3>. QED
      BY <1>1, EditForms DEF Click, Proceed, Reveal, Delete
  <2>2. CASE Verified
    <3>1. CASE ~wait.alive
      BY <2>2, <3>1, <1>1 DEF Verified
    <3>2. CASE wait.alive
      <4>1. wait.rec \in Records
        BY <2>2 DEF Verified, WaitInv, Waits
      <4>. QED
        BY <2>2, <3>2, <4>1, <1>1, EditForms DEF Verified, Proceed, Reveal, Delete
    <3>. QED
      BY <3>1, <3>2
  <2>3. CASE Add
    BY <2>3 DEF Add, Free, FormInv, Open
  <2>4. CASE Type
    BY <2>4, DashboardAssumption DEF Type, FormInv, Open, DashboardAssumption
  <2>5. CASE Submit
    BY <2>5 DEF Submit, FormInv, Open
  <2>6. CASE Closed \/ \E s \in saves : SaveFails(s)
    BY <2>6, CloseForms DEF Closed, SaveFails
  <2>7. CASE TriggerClose \/ \E s \in saves : SaveEnds(s)
    BY <2>7 DEF TriggerClose, SaveEnds, FormInv, Open
  <2>8. CASE \/ ListChanges \/ Search \/ Debounced \/ ClearSearch \/ CloseMemo
             \/ \E r \in Records : \/ Arm(r) \/ Disarm(r) \/ Hide(r) \/ ShowMemo(r)
                                 \/ \E op \in Ops : ClickAndWait(op, r)
    BY <2>8, <1>1 DEF ListChanges, Search, Debounced, ClearSearch, CloseMemo, Arm,
                      Disarm, Hide, ShowMemo, ClickAndWait
  <2>. QED
    BY <1>4, <2>1, <2>2, <2>3, <2>4, <2>5, <2>6, <2>7, <2>8 DEF PageNext
<1>. QED
  BY <1>2, <1>3, <1>4 DEF TabNext, PageStep

(* What is saved goes where it was filled from, for any set of records and *)
(* any number of saves under way.                                          *)
THEOREM SavesRight == TabSpec => []SavesGoWhereFilled
<1>1. TabInit => FormInv /\ WaitInv
  BY DEF TabInit, PageInit, FormInv, WaitInv, Open
<1>2. FormInv /\ WaitInv /\ [TabNext]_tabVars => FormInv' /\ WaitInv'
  BY FormSteps, WaitSteps
<1>3. FormInv => SavesGoWhereFilled
  BY DEF FormInv, SavesGoWhereFilled
<1>. QED
  BY <1>1, <1>2, <1>3, PTL DEF TabSpec

-----------------------------------------------------------------------------
(* The lock.  Nothing that waits at the lock belongs to the screen any     *)
(* more: the click has lost its card, the saves have lost their editor.    *)
Cleared ==
    /\ cards = {} /\ reveal = {} /\ memo = None
    /\ adding = FALSE /\ editing = None /\ form = Blank
    /\ closing = FALSE /\ typed = FALSE /\ query = FALSE
Detached ==
    /\ wait = None \/ wait.alive = FALSE
    /\ \A s \in saves : s.alive = FALSE
BlankInv == vault = "locked" => Cleared /\ Detached

LEMMA OrphanIsDetached ==
    ASSUME WaitInv, Blanked
    PROVE  Cleared' /\ Detached'
<1>1. Cleared'
  BY DEF Blanked, CloseEditor, Keep, Cleared
<1>2. \A s \in saves' : s.alive = FALSE
  BY DeadAreSaves DEF Blanked, WaitInv, Saves
<1>3. wait' = None \/ wait'.alive = FALSE
  BY DEF Blanked, Orphan, WaitInv, Waits
<1>. QED
  BY <1>1, <1>2, <1>3 DEF Detached

(* A locked page has few steps left: the answers of what is under way.     *)
LEMMA LockedPageSteps ==
    ASSUME RevealInv, Cleared, Detached, WaitInv, vault = "locked", PageNext
    PROVE  Cleared' /\ Detached'
<1> USE DEF Cleared
<1>0. ~unlocked /\ ~Free /\ ~Open
  BY DEF unlocked, Free, Open
<1>1. ~ListChanges /\ ~Search /\ ~Debounced /\ ~ClearSearch /\ ~CloseMemo
  BY <1>0 DEF ListChanges, Search, Debounced, ClearSearch, CloseMemo
<1>2. ~Add /\ ~Type /\ ~Submit /\ ~TriggerClose /\ ~Closed
  BY <1>0 DEF Add, Type, Submit, TriggerClose, Closed
<1>3. \A r \in Records : \A op \in Ops : ~Click(op, r) /\ ~ClickAndWait(op, r)
  BY <1>0 DEF Click, ClickAndWait, MayClick
<1>4. \A r \in Records : ~Arm(r) /\ ~ShowMemo(r) /\ ~Hide(r)
  BY <1>0 DEF Arm, ShowMemo, Hide, RevealInv
<1>5. CASE \E r \in Records : Disarm(r)
  BY <1>5 DEF Disarm, Detached, editor, search
<1>6. CASE Verified
  BY <1>6 DEF Verified, Detached, buttons, editor, search
<1>7. CASE \E s \in saves : SaveEnds(s)
  BY <1>7 DEF SaveEnds, Detached, buttons, search
<1>8. CASE \E s \in saves : SaveFails(s)
  <2>. PICK s \in saves : SaveFails(s)
    BY <1>8
  <2>1. saves' = Dead(saves \ {s}) /\ wait' = wait /\ Cleared'
    BY DEF SaveFails, CloseEditor, buttons, search
  <2>2. \A t \in saves' : t.alive = FALSE
    BY <2>1, DeadAreSaves DEF WaitInv, Saves
  <2>. QED
    BY <2>1, <2>2 DEF Detached
<1>. QED
  BY <1>1, <1>2, <1>3, <1>4, <1>5, <1>6, <1>7, <1>8 DEF PageNext

LEMMA BlankSteps ==
    TimerInv /\ RevealInv /\ WaitInv /\ BlankInv /\ [TabNext]_tabVars => BlankInv'
<1> SUFFICES ASSUME TimerInv, RevealInv, WaitInv, BlankInv, [TabNext]_tabVars,
                    vault' = "locked"
             PROVE  Cleared' /\ Detached'
  BY DEF BlankInv
<1>1. CASE Locked
  BY <1>1, OrphanIsDetached DEF Locked
<1>2. CASE Unlocked
  BY <1>2 DEF Unlocked, Unlock, Register, Tracked
<1>3. CASE TimerStep \/ UNCHANGED tabVars
  <2>1. vault = "locked"
    BY <1>3 DEF TimerStep, Use, Tick, PressLock, Advance, Sleep, Wake, SetTimeout,
                Tracked, TimerInv, unlocked, tabVars, timerVars
  <2>2. UNCHANGED pageVars
    BY <1>3 DEF TimerStep, tabVars
  <2>. QED
    BY <2>1, <2>2 DEF BlankInv, Cleared, Detached, pageVars
<1>4. CASE PageStep
  BY <1>4, LockedPageSteps DEF PageStep, timerVars, BlankInv
<1>. QED
  BY <1>1, <1>2, <1>3, <1>4 DEF TabNext

(* A locked screen is blank, whatever was under way at the lock, for any   *)
(* set of records and any number of saves.                                 *)
THEOREM LockedIsBlank == TabSpec => []LockedScreenIsBlank
<1>1. TabInit => FormInv /\ WaitInv /\ RevealInv /\ BlankInv
  BY DEF TabInit, PageInit, FormInv, WaitInv, Open, RevealInv, BlankInv, Cleared,
         Detached
<1>2. BlankInv => LockedScreenIsBlank
  BY DEF BlankInv, Cleared, LockedScreenIsBlank, unlocked, Open
<1>. QED
  BY <1>1, <1>2, TabImplementsTimer, TimerInvariance, FormSteps, WaitSteps,
     RevealSteps, BlankSteps, PTL DEF TabSpec
=============================================================================
