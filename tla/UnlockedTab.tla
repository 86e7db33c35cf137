---------------------------- MODULE UnlockedTab ----------------------------
(***************************************************************************)
(* The screen of a tab: the inactivity lock (InactivityTimer) composed     *)
(* with what the dashboard shows (VaultDashboard).  They share the         *)
(* unlocked state: the lock of one blanks the other.  A click is an input  *)
(* event, too; the two are separate steps here, as the tracker listens to  *)
(* the mouse button going down and the buttons to the click.               *)
(***************************************************************************)
EXTENDS VaultDashboard

CONSTANTS
    Scenes      \* what a run looks at: "away", the clock runs and nobody uses
                \* the dashboard, or "used", the dashboard at one moment

VARIABLE scene

tabVars == <<scene, timerVars, pageVars>>

TabInit ==
    /\ scene \in Scenes
    /\ Init
    /\ PageInit

\* session.lock clears the list and the unlocked state, and the effects of
\* the dashboard follow; a logout does the same before the page is left.
Locked == (LockEnds \/ Expelled) /\ Blanked

Unlocked == (Unlock \/ Register) /\ UNCHANGED pageVars

TimerStep ==
    /\ \/ Use \/ Tick \/ PressLock
       \/ /\ scene = "away"
          /\ \/ Advance \/ Sleep \/ Wake
             \/ \E t \in Timeouts : SetTimeout(t)
    /\ UNCHANGED pageVars

PageStep ==
    /\ scene = "used" /\ ~asleep
    /\ PageNext
    /\ UNCHANGED timerVars

TabNext ==
    /\ Locked \/ Unlocked \/ TimerStep \/ PageStep
    /\ UNCHANGED scene

TabSpec == TabInit /\ [][TabNext]_tabVars

-----------------------------------------------------------------------------
(***************************************************************************)
(* A form is saved into the record it was filled from, and a new one as a  *)
(* new record, whatever was locked, closed, deleted or failed meanwhile,   *)
(* unless an edit click that waited for the server was answered when the   *)
(* editor was already open: then the open form keeps its fields, and       *)
(* handleSave writes them over the record that was clicked first.          *)
(***************************************************************************)
SavesGoWhereFilled == spoilt => crossed

(***************************************************************************)
(* A locked tab shows nothing of the vault: no card, password, memo, form  *)
(* or search, whatever click, save or timer was under way at the lock      *)
(* (the effects of VaultDashboardComponent and ngOnDestroy of the cards).  *)
(***************************************************************************)
LockedScreenIsBlank ==
    unlocked \/ /\ cards = {} /\ reveal = {} /\ memo = None
                /\ ~Open /\ form = Blank /\ ~closing /\ ~typed /\ ~query

(***************************************************************************)
(* A password on the screen has exactly one timer running that will hide   *)
(* it, and a hidden one has none that would cut the next reveal short,     *)
(* however its clicks overlap (toggleReveal reads the state again after    *)
(* the await).                                                             *)
(***************************************************************************)
RevealsEnd ==
    \A r \in Records : hides[r] = (IF r \in reveal THEN 1 ELSE 0)
=============================================================================
