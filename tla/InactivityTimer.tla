-------------------------- MODULE InactivityTimer --------------------------
(***************************************************************************)
(* The inactivity lock of a tab (SessionTimerService): while the vault is  *)
(* unlocked, every input event moves a deadline, the target, forward; a    *)
(* timer that ticks once a second, or the first input event after the      *)
(* target, locks the vault.  Time is in whole seconds: the throttle of     *)
(* 200 ms on input events and the countdown shown to the user are left     *)
(* out, and a tick comes exactly at the whole seconds after the event that *)
(* set the target, as timer(0, 1000) is started by that event.             *)
(*                                                                         *)
(* While the computer sleeps or the browser freezes the tab, time passes   *)
(* and nothing runs: the tick that is due is delivered after the wake-up,  *)
(* in any order with the input events that woke the computer.              *)
(***************************************************************************)
EXTENDS Naturals

CONSTANTS
    Timeouts,   \* the inactivity timeouts a user may select
    Margin,     \* the five seconds resetTarget adds to them
    MaxTime     \* bound of the clock

ASSUME TimerAssumption ==
    /\ Timeouts \subseteq Nat \ {0}
    /\ Margin \in Nat
    /\ MaxTime \in Nat

VARIABLES
    now,        \* Date.now()
    asleep,     \* nothing runs
    vault,      \* "locked", "open", or "locking" while session.lock awaits the
                \* worker; authState.isUnlocked holds in the last two
    timeout,    \* settings.timeoutSeconds
    target,     \* targetTimestamp; 0 before the first one
    timer,      \* the timer of the current input event: "off", "on", or "due"
                \* when its next tick is ready to run
    seen        \* ghost: when the user was last active within the deadline

timerVars == <<now, asleep, vault, timeout, target, timer, seen>>

unlocked == vault # "locked"

\* The vault was left alone for the whole timeout and its margin.
LeftAlone == now >= seen + Margin + timeout

\* A user who comes back too late does not count as active.
Seen == IF unlocked /\ now > seen + Margin + timeout THEN seen ELSE now

Init ==
    /\ now = 0 /\ target = 0 /\ seen = 0
    /\ timeout \in Timeouts
    /\ asleep = FALSE /\ vault = "locked" /\ timer = "off"

-----------------------------------------------------------------------------
\* The same check with a second margin.
OverdueLate == target > 0 /\ now > target + Margin

\* The target has passed: an input event now locks instead of moving it.
Overdue == target > 0 /\ now > target

\* The same with the timeout of before a change of it.
NewTargetOfOld(t) == now + Margin + timeout

\* The target that input at this moment sets (resetTarget).
NewTarget(t) == now + Margin + t

\* An input event, or the event restartTracker starts the tracker with, in a
\* tab whose vault is v otherwise.
Tracked(v) ==
    /\ vault' = IF Overdue THEN "locking" ELSE v
    /\ timer' = IF Overdue THEN "off" ELSE "on"

Use ==
    /\ unlocked /\ ~asleep
    /\ Tracked(vault)
    /\ target' = IF Overdue THEN target ELSE NewTarget(timeout)
    /\ seen' = Seen
    /\ UNCHANGED <<now, asleep, timeout>>

\* The tick: it locks once no whole second remains.
Tick ==
    /\ timer = "due" /\ ~asleep
    /\ timer' = "on"
    /\ vault' = IF now >= target THEN "locking" ELSE vault
    /\ UNCHANGED <<now, asleep, timeout, target, seen>>

\* The user selects a timeout, or another account's settings are loaded; an
\* unlocked tab restarts its tracker, which sets the target in any case.
SetTimeout(t) ==
    /\ ~asleep /\ t # timeout
    /\ timeout' = t
    /\ \/ /\ unlocked
          /\ Tracked(vault)
          /\ target' = NewTarget(t)
          /\ seen' = Seen
       \/ /\ ~unlocked
          /\ UNCHANGED <<vault, target, timer, seen>>
    /\ UNCHANGED <<now, asleep>>

-----------------------------------------------------------------------------
\* The overlay or the login form unlocks and calls reset: the target is set
\* before the tracker starts.
Unlock ==
    /\ ~unlocked /\ ~asleep
    /\ vault' = "open" /\ timer' = "on"
    /\ target' = NewTarget(timeout) /\ seen' = now
    /\ UNCHANGED <<now, asleep, timeout>>

\* Registration unlocks too but does not call reset: the tracker starts with
\* the target of the last time this page was unlocked, if it was.
Register ==
    /\ ~unlocked /\ ~asleep
    /\ Tracked("open")
    /\ target' = NewTarget(timeout) /\ seen' = now
    /\ UNCHANGED <<now, asleep, timeout>>

\* The user presses the lock button.
PressLock ==
    /\ vault = "open" /\ ~asleep
    /\ vault' = "locking"
    /\ UNCHANGED <<now, asleep, timeout, target, timer, seen>>

\* The tracker stops with the unlocked state; the target stays.
Stop ==
    /\ vault' = "locked" /\ timer' = "off"
    /\ UNCHANGED <<now, asleep, timeout, target, seen>>

\* The worker has answered, or was busy: the vault is locked.
LockEnds == vault = "locking" /\ ~asleep /\ Stop

\* A logout clears the state of the session.
Expelled == unlocked /\ ~asleep /\ Stop

-----------------------------------------------------------------------------
\* A second passes: a tab that is awake has run its tick and its lock by then.
Advance ==
    /\ now < MaxTime
    /\ asleep \/ (timer # "due" /\ vault # "locking")
    /\ now' = now + 1
    /\ timer' = IF timer = "off" THEN "off" ELSE "due"
    /\ UNCHANGED <<asleep, vault, timeout, target, seen>>

Sleep ==
    /\ ~asleep /\ unlocked
    /\ asleep' = TRUE
    /\ UNCHANGED <<now, vault, timeout, target, timer, seen>>

Wake ==
    /\ asleep
    /\ asleep' = FALSE
    /\ UNCHANGED <<now, vault, timeout, target, timer, seen>>

Next ==
    \/ Use \/ Tick \/ Unlock \/ Register \/ PressLock \/ LockEnds \/ Expelled
    \/ \E t \in Timeouts : SetTimeout(t)
    \/ Advance \/ Sleep \/ Wake

Spec == Init /\ [][Next]_timerVars

-----------------------------------------------------------------------------
(***************************************************************************)
(* A tab that runs, with no tick waiting and no lock under way, was used   *)
(* within the timeout and its margin if it is unlocked: whatever comes     *)
(* first after a sleep, the tick, a mouse movement or a change of the      *)
(* settings, locks and never prolongs (SessionTimerService).               *)
(***************************************************************************)
IdleIsLocked == vault = "open" /\ ~asleep /\ timer # "due" => ~LeftAlone

(***************************************************************************)
(* Nobody is locked out early: a lock starts only when the user asks for   *)
(* it or has left the vault alone for the whole timeout, or when a         *)
(* registration starts the tracker with a target of long ago.              *)
(***************************************************************************)
LockIsDue ==
    [][vault # "locking" /\ vault' = "locking" =>
         PressLock \/ LeftAlone \/ (Register /\ Overdue)]_timerVars
=============================================================================
