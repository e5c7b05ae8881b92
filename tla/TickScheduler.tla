--------------------------- MODULE TickScheduler ---------------------------
(***************************************************************************)
(* pi_common/scheduler.py with the loop of samplingLoop.py that drives it  *)
(* and the two things the background thread may do to it at any moment:    *)
(* leave a schedule update in the client's mailbox, and replace the offset *)
(* of the clock.                                                           *)
(*                                                                         *)
(* Time is integral.  mono is time.monotonic(); the app's clock reads      *)
(* mono + offset.  Retries and the duration of a read are abstracted to    *)
(* time passing in phase "reading".                                        *)
(***************************************************************************)
EXTENDS Integers

CONSTANTS
  FirstPeriod,   \* the period of config.txt
  MinPeriod,     \* MIN_PERIOD_SECONDS
  Schedules,     \* the updates the backend may announce: [period, from]
  Offsets,       \* the offsets the clock may adopt
  MaxMono,       \* bound on the time a behaviour lasts
  MaxJitter,     \* bound on how late the thread is woken
  None           \* no update, no tick

\* Every period is a positive multiple of a time unit and the backend snaps
\* effective_from to a multiple of the new period (its validator enforces the
\* same minimum, so the clamp in schedule_period_change() changes nothing).
ASSUME ScheduleAssumption ==
  /\ MinPeriod \in Nat \ {0}
  /\ FirstPeriod \in Nat
  /\ \A u \in Schedules :
       /\ u.period \in Nat /\ u.period >= MinPeriod
       /\ u.from \in Int
       /\ u.from % u.period = 0
  /\ Offsets \subseteq Int /\ Offsets # {}
  /\ MaxMono \in Nat /\ MaxJitter \in Nat
  /\ \A u \in Schedules : u # None
  /\ None \notin Int

VARIABLES
  mono,       \* the monotonic clock
  offset,     \* Clock.offset
  period,     \* TickScheduler.period
  pending,    \* TickScheduler._pending
  mailbox,    \* BackendClient._schedule
  lastTick,   \* last_tick_epoch
  phase,      \* where the sampling thread is
  target,     \* target_epoch of the current wait
  deadline,   \* deadline_mono of the current wait
  tick,       \* history: the latest tick
  prev,       \* history: the tick before it
  setBack,    \* history: the clock was set back since the latest wait began
  wait        \* history of the current wait: it switched the period, and the
              \* clock was set back since the wait before it began

clockVars == <<mono, offset>>
schedVars == <<period, pending, lastTick, target, deadline>>
histVars  == <<tick, prev, setBack, wait>>
vars == <<clockVars, schedVars, histVars, mailbox, phase>>

Larger(a, b) == IF a >= b THEN a ELSE b

Now == mono + offset

-----------------------------------------------------------------------------
(* The grid.                                                               *)

\* Mutated form: the multiple at or after now, as ceil() would give.
MultipleFrom(now, p) == IF now % p = 0 THEN now ELSE (now \div p) * p + p

\* next_multiple(): the first multiple of p strictly after now.
NextMultiple(now, p) == (now \div p) * p + p

\* Mutated form: the switch keeps the candidate of the old grid.
SwitchTargetOldGrid(now, u) == Larger(u.from, NextMultiple(now, period))

\* The first tick on the grid of update u.
SwitchTarget(now, u) == Larger(u.from, NextMultiple(now, u.period))

\* Mutated form: > instead of >=.
SwitchDueLate(now) == pending # None /\ NextMultiple(now, period) > pending.from

\* _target_epoch(): the pending switch is due at the next tick.
SwitchDue(now) == pending # None /\ NextMultiple(now, period) >= pending.from

-----------------------------------------------------------------------------
(* The sampling thread.                                                    *)

\* schedule_period_change(): the update changes nothing.
NoChange(u) ==
  \/ u.period = period /\ pending = None
  \/ pending = u

\* _apply_pending_schedule() at the top of the loop.
ApplySchedule ==
  /\ phase = "ready"
  /\ mailbox' = None
  /\ pending' = IF mailbox = None \/ NoChange(mailbox) THEN pending ELSE mailbox
  /\ phase' = "armed"
  /\ UNCHANGED <<clockVars, period, lastTick, target, deadline, histVars>>

\* Mutated form: the reference for counting skipped ticks survives a switch.
LastTickKept == lastTick

\* last_tick_epoch after a switch.
LastTickAfterSwitch == None

\* wait_for_next_tick(), up to the sleep.
Arm ==
  /\ phase = "armed"
  /\ IF SwitchDue(Now)
     THEN /\ period' = pending.period
          /\ pending' = None
          /\ lastTick' = LastTickAfterSwitch
          /\ target' = SwitchTarget(Now, pending)
     ELSE /\ target' = NextMultiple(Now, period)
          /\ UNCHANGED <<period, pending, lastTick>>
  /\ deadline' = mono + (target' - Now)
  /\ wait' = [newGrid |-> SwitchDue(Now), setBack |-> setBack]
  /\ setBack' = FALSE
  /\ phase' = "sleeping"
  /\ UNCHANGED <<clockVars, mailbox, tick, prev>>

\* Whole periods between the last tick and this one.  Both are on the grid of
\* the period in force, so round() has nothing to round.
Skipped ==
  IF lastTick = None THEN 0
  ELSE Larger(0, (target - lastTick) \div period - 1)

\* wait_for_next_tick(), from the end of the sleep; the tick is stamped with
\* its target, not with the time the thread woke up.
Wake ==
  /\ phase = "sleeping"
  /\ mono >= deadline
  /\ prev' = tick
  /\ tick' = [epoch |-> target, period |-> period, skipped |-> Skipped,
              newGrid |-> wait.newGrid, setBack |-> wait.setBack]
  /\ lastTick' = target
  /\ phase' = "reading"
  /\ UNCHANGED <<clockVars, period, pending, mailbox, target, deadline, setBack, wait>>

\* The reading is taken and stored, or given up.
FinishRead ==
  /\ phase = "reading"
  /\ phase' = "ready"
  /\ UNCHANGED <<clockVars, schedVars, histVars, mailbox>>

\* SIGTERM: noticed at the top of the loop or in the sleep.
Stop ==
  /\ phase \in {"ready", "sleeping"}
  /\ phase' = "stopped"
  /\ UNCHANGED <<clockVars, schedVars, histVars, mailbox>>

-----------------------------------------------------------------------------
(* The background thread, and time.                                        *)

\* poll_schedule() replaces whatever update has not been taken yet.
PollSchedule ==
  /\ phase # "stopped"
  /\ \E u \in Schedules : mailbox' = u
  /\ UNCHANGED <<clockVars, schedVars, histVars, phase>>

\* Clock.refresh() adopts the published offset.
AdoptOffset ==
  /\ phase # "stopped"
  /\ \E o \in Offsets :
       /\ offset' = o
       /\ setBack' = IF o < offset THEN TRUE ELSE setBack
  /\ UNCHANGED <<mono, schedVars, tick, prev, wait, mailbox, phase>>

\* Time passes; a sleeping thread is woken at most MaxJitter late.
Advance ==
  /\ phase # "stopped"
  /\ mono < MaxMono
  /\ phase = "sleeping" => mono < deadline + MaxJitter
  /\ mono' = mono + 1
  /\ UNCHANGED <<offset, schedVars, histVars, mailbox, phase>>

-----------------------------------------------------------------------------
\* A sensor process starts with the period of its config, at some clock error.
Init ==
  /\ mono = 0
  /\ offset \in Offsets
  /\ period = Larger(FirstPeriod, MinPeriod)
  /\ pending = None
  /\ mailbox = None
  /\ lastTick = None
  /\ phase = "ready"
  /\ target = 0
  /\ deadline = 0
  /\ tick = None
  /\ prev = None
  /\ setBack = FALSE
  /\ wait = [newGrid |-> FALSE, setBack |-> FALSE]

SamplingStep == ApplySchedule \/ Arm \/ Wake \/ FinishRead

Next == SamplingStep \/ Stop \/ PollSchedule \/ AdoptOffset \/ Advance

Spec == Init /\ [][Next]_vars

-----------------------------------------------------------------------------
(* Properties.                                                             *)

Wait == [newGrid : BOOLEAN, setBack : BOOLEAN]

Tick == [epoch : Int, period : Nat, skipped : Nat, newGrid : BOOLEAN, setBack : BOOLEAN]

\* The type invariant.
TypeOK ==
  /\ mono \in 0 .. MaxMono
  /\ offset \in Offsets
  /\ period \in Nat /\ period >= MinPeriod
  /\ pending \in Schedules \cup {None}
  /\ mailbox \in Schedules \cup {None}
  /\ lastTick \in Int \cup {None}
  /\ phase \in {"ready", "armed", "sleeping", "reading", "stopped"}
  /\ target \in Int
  /\ deadline \in Int
  /\ tick \in Tick \cup {None}
  /\ prev \in Tick \cup {None}
  /\ setBack \in BOOLEAN
  /\ wait \in Wait

\* Every tick is an exact multiple of the period in force, whatever switches
\* and clock corrections came between: two Pis with the same clock and period
\* can only tick at the same instants.
TicksOnGrid == tick # None => tick.epoch % tick.period = 0

\* Unless the clock was set back since the previous wait began, a tick is later
\* than the one before it, by a whole period or more when the grid is the same:
\* an overrun skips ticks and never fires two for one instant.
TicksAdvance ==
  prev # None /\ ~tick.setBack =>
    /\ tick.epoch > prev.epoch
    /\ ~tick.newGrid => tick.epoch >= prev.epoch + tick.period

\* The skipped ticks reported for a tick are exactly the grid points passed
\* over since the tick before it; a change of grid reports none.
SkipsCounted ==
  prev # None =>
    /\ tick.newGrid => tick.skipped = 0
    /\ ~tick.newGrid /\ ~tick.setBack =>
         tick.epoch = prev.epoch + (tick.skipped + 1) * tick.period

\* A queued switch is never slept through: the tick being waited for comes
\* before the instant at which the queued period takes effect.
SwitchNotOverslept == phase = "sleeping" /\ pending # None => target < pending.from

\* The sensor is never read twice within its minimum period.
SensorLimit == prev # None => tick.epoch >= prev.epoch + MinPeriod

\* The in-process offset never makes the schedule repeat a tick.
NoRepeatedTick == prev # None => tick.epoch # prev.epoch

-----------------------------------------------------------------------------
(* Why ticks stay on the grid and move on: the inductive invariant.        *)

\* The wait in progress is for a grid point of the period in force, and the
\* clock that computed it has not been set back unless setBack says so.
WaitOnGrid ==
  phase = "sleeping" =>
    /\ target % period = 0
    /\ ~setBack => offset >= target - deadline
    /\ tick # None /\ ~wait.setBack =>
         /\ target > tick.epoch
         /\ ~wait.newGrid => target >= tick.epoch + tick.period
    /\ tick # None /\ ~wait.newGrid => period = tick.period

\* After a tick, the clock is past it, and its period is still in force.
ClockPastTick ==
  phase \in {"reading", "ready", "armed"} /\ tick # None =>
    /\ period = tick.period
    /\ ~setBack => Now >= tick.epoch

TickInv ==
  /\ TypeOK /\ WaitOnGrid /\ ClockPastTick
  /\ TicksOnGrid /\ TicksAdvance /\ SwitchNotOverslept

=============================================================================
