------------------------ MODULE TickSchedulerProofs ------------------------
(***************************************************************************)
(* Proofs about TickScheduler, for every period, schedule, clock           *)
(* correction and delay.                                                   *)
(***************************************************************************)
EXTENDS TickScheduler, TLAPS

-----------------------------------------------------------------------------
(* Arithmetic of the grid.                                                 *)

\* What \div and % mean, for a positive divisor.
LEMMA DivMod ==
  ASSUME NEW a \in Int, NEW p \in Nat, p > 0
  PROVE  /\ a \div p \in Int /\ a % p \in Int
         /\ a = p * (a \div p) + (a % p)
         /\ 0 <= a % p /\ a % p < p
OBVIOUS

\* A product is a multiple of its factor.
LEMMA ProductOnGrid ==
  ASSUME NEW k \in Int, NEW p \in Nat, p > 0
  PROVE  (k * p) % p = 0
<1> DEFINE d == (k * p) \div p
           m == (k * p) % p
<1>1. /\ d \in Int /\ m \in Int /\ k * p \in Int
      /\ k * p = p * d + m /\ 0 <= m /\ m < p
  BY DivMod
<1> HIDE DEF d, m
<1>2. m = p * (k - d)
  BY <1>1
<1>3. CASE k - d >= 1
  <2>1. p * (k - d) >= p
    BY <1>1, <1>3
  <2> QED  BY <1>1, <1>2, <2>1
<1>4. CASE k - d <= -1
  <2>1. p * (k - d) <= -p
    BY <1>1, <1>4
  <2> QED  BY <1>1, <1>2, <2>1
<1>5. CASE k - d = 0
  BY <1>1, <1>2, <1>5 DEF m
<1> QED
  BY <1>1, <1>3, <1>4, <1>5

\* Of two grid points, the later is a whole period later.
LEMMA GridStep ==
  ASSUME NEW a \in Int, NEW b \in Int, NEW p \in Nat, p > 0, a % p = 0, b % p = 0, a > b
  PROVE  a >= b + p
<1> DEFINE i == a \div p
           j == b \div p
<1>1. i \in Int /\ j \in Int /\ a = p * i /\ b = p * j
  BY DivMod
<1> HIDE DEF i, j
<1>2. a - b = p * (i - j)
  BY <1>1
<1>3. CASE i - j >= 1
  <2>1. p * (i - j) >= p
    BY <1>1, <1>3
  <2> QED  BY <1>2, <2>1
<1>4. CASE i - j <= 0
  <2>1. p * (i - j) <= 0
    BY <1>1, <1>4
  <2> QED  BY <1>2, <2>1
<1> QED
  BY <1>1, <1>3, <1>4

\* next_multiple() returns a grid point, strictly after now and at most one
\* period after it.
LEMMA NextMultipleOnGrid ==
  ASSUME NEW now \in Int, NEW p \in Nat, p > 0
  PROVE  /\ NextMultiple(now, p) \in Int
         /\ NextMultiple(now, p) % p = 0
         /\ now < NextMultiple(now, p)
         /\ NextMultiple(now, p) <= now + p
<1> DEFINE d == now \div p
<1>1. d \in Int /\ now = p * d + (now % p) /\ 0 <= now % p /\ now % p < p /\ now % p \in Int
  BY DivMod
<1>2. NextMultiple(now, p) = d * p + p
  BY DEF NextMultiple
<1> HIDE DEF d
<1>3. NextMultiple(now, p) = (d + 1) * p
  BY <1>1, <1>2
<1>4. ((d + 1) * p) % p = 0
  BY <1>1, ProductOnGrid
<1> QED
  BY <1>1, <1>2, <1>3, <1>4

\* The first tick after a switch is on the new grid and later than now.
LEMMA SwitchTargetOnGrid ==
  ASSUME NEW now \in Int, NEW u \in Schedules
  PROVE  /\ SwitchTarget(now, u) \in Int
         /\ SwitchTarget(now, u) % u.period = 0
         /\ now < SwitchTarget(now, u)
<1>1. u.period \in Nat /\ u.period > 0 /\ u.from \in Int /\ u.from % u.period = 0
  BY ScheduleAssumption
<1>2. /\ NextMultiple(now, u.period) \in Int
      /\ NextMultiple(now, u.period) % u.period = 0
      /\ now < NextMultiple(now, u.period)
  BY <1>1, NextMultipleOnGrid
<1>3. CASE u.from >= NextMultiple(now, u.period)
  BY <1>1, <1>2, <1>3 DEF SwitchTarget, Larger
<1>4. CASE ~(u.from >= NextMultiple(now, u.period))
  BY <1>1, <1>2, <1>4 DEF SwitchTarget, Larger
<1> QED
  BY <1>3, <1>4

\* A sleep of target - now, on the monotonic clock, ends when a clock of at
\* least the same offset shows target.
LEMMA SleepLength ==
  ASSUME NEW m \in Int, NEW o \in Int, NEW t \in Int
  PROVE  m + (t - (m + o)) \in Int /\ o >= t - (m + (t - (m + o)))
<1>1. m + (t - (m + o)) = t - o
  OBVIOUS
<1> QED
  BY <1>1

-----------------------------------------------------------------------------
(* The inductive invariant.                                                *)

\* A scheduler that has just been made satisfies the invariant.
LEMMA InitInv == Init => TickInv
<1> SUFFICES ASSUME Init PROVE TickInv
  OBVIOUS
<1>1. period \in Nat /\ period >= MinPeriod
  BY ScheduleAssumption DEF Init, Larger
<1>2. mono \in 0 .. MaxMono /\ wait \in Wait
  BY ScheduleAssumption DEF Init, Wait
<1>3. TypeOK
  <2>1. setBack \in BOOLEAN
    BY Zenon DEF Init
  <2>3. target \in Int /\ deadline \in Int
    BY DEF Init
  <2>2. /\ pending \in Schedules \cup {None} /\ mailbox \in Schedules \cup {None}
        /\ lastTick \in Int \cup {None} /\ tick \in Tick \cup {None} /\ prev \in Tick \cup {None}
    BY DEF Init
  <2> QED  BY <1>1, <1>2, <2>1, <2>2, <2>3 DEF Init, TypeOK
<1> QED
  BY <1>3 DEF Init, TickInv, WaitOnGrid, ClockPastTick, TicksOnGrid, TicksAdvance,
              SwitchNotOverslept

\* The start of a wait: the target is on the grid in force and, unless the
\* clock was set back, after the previous tick.
LEMMA ArmStep == TickInv /\ Arm => TickInv'
<1> SUFFICES ASSUME TickInv, Arm PROVE TickInv'
  OBVIOUS
<1> USE ScheduleAssumption DEF TickInv
<1>1. Now \in Int /\ period \in Nat /\ period > 0 /\ mono \in Int /\ offset \in Int
  BY DEF Now, TypeOK
<1>2. /\ NextMultiple(Now, period) \in Int
      /\ NextMultiple(Now, period) % period = 0
      /\ Now < NextMultiple(Now, period)
  BY <1>1, NextMultipleOnGrid
<1>3. ASSUME tick # None
      PROVE  /\ tick \in Tick /\ tick.epoch \in Int
             /\ period = tick.period
             /\ ~setBack => Now >= tick.epoch
             /\ tick.epoch % period = 0
  BY <1>3 DEF Arm, TypeOK, Tick, ClockPastTick, TicksOnGrid
<1>4. /\ mono' = mono /\ offset' = offset /\ tick' = tick /\ prev' = prev
      /\ mailbox' = mailbox /\ phase' = "sleeping" /\ ~setBack' /\ setBack' \in BOOLEAN
      /\ wait' = [newGrid |-> SwitchDue(Now), setBack |-> setBack]
      /\ deadline' = mono + (target' - Now)
  BY DEF Arm, clockVars
<1>5. /\ target' \in Int /\ period' \in Nat /\ period' >= MinPeriod
      /\ target' % period' = 0 /\ target' > Now
      /\ pending' \in Schedules \cup {None} /\ lastTick' \in Int \cup {None}
      /\ pending' # None => target' < pending'.from
      /\ ~SwitchDue(Now) => target' = NextMultiple(Now, period) /\ period' = period
  <2>1. CASE SwitchDue(Now)
    <3>1. pending \in Schedules
      BY <2>1 DEF SwitchDue, TypeOK
    <3>2. /\ period' = pending.period /\ pending' = None /\ lastTick' = None
          /\ target' = SwitchTarget(Now, pending)
      BY <2>1 DEF Arm, LastTickAfterSwitch
    <3> QED  BY <1>1, <2>1, <3>1, <3>2, SwitchTargetOnGrid
  <2>2. CASE ~SwitchDue(Now)
    <3>1. /\ target' = NextMultiple(Now, period)
          /\ period' = period /\ pending' = pending /\ lastTick' = lastTick
      BY <2>2 DEF Arm
    <3>2. pending # None => NextMultiple(Now, period) < pending.from
      BY <1>2, <2>2 DEF SwitchDue, TypeOK
    <3> QED  BY <1>2, <3>1, <3>2 DEF TypeOK
  <2> QED  BY <2>1, <2>2
<1>6. deadline' \in Int /\ offset' >= target' - deadline'
  <2>1. deadline' = mono + (target' - (mono + offset)) /\ offset' = offset
    BY <1>4 DEF Now
  <2>2. target' \in Int /\ mono \in Int /\ offset \in Int
    BY <1>1, <1>5
  <2>3. /\ mono + (target' - (mono + offset)) \in Int
        /\ offset >= target' - (mono + (target' - (mono + offset)))
    BY <2>2, SleepLength
  <2> QED  BY ONLY <2>1, <2>3, Zenon
<1>7. ASSUME tick # None, ~setBack
      PROVE  /\ target' > tick.epoch
             /\ ~SwitchDue(Now) => target' >= tick.epoch + tick.period
  <2>1. target' > tick.epoch
    BY <1>1, <1>3, <1>5, <1>7
  <2>2. ASSUME ~SwitchDue(Now) PROVE target' >= tick.epoch + tick.period
    BY <1>1, <1>3, <1>5, <1>7, <2>1, <2>2, GridStep
  <2> QED  BY <2>1, <2>2
<1>8. SwitchDue(Now) \in BOOLEAN
  BY DEF SwitchDue
<1>9. TypeOK'
  BY <1>4, <1>5, <1>6, <1>8 DEF TypeOK, Wait
<1>10. WaitOnGrid'
  BY <1>3, <1>4, <1>5, <1>6, <1>7 DEF WaitOnGrid
<1>11. ClockPastTick' /\ SwitchNotOverslept'
  BY <1>4, <1>5 DEF ClockPastTick, SwitchNotOverslept
<1>12. TicksOnGrid' /\ TicksAdvance'
  BY <1>4 DEF TicksOnGrid, TicksAdvance
<1> QED
  BY <1>9, <1>10, <1>11, <1>12

\* The end of a wait: the clock has reached the target.
LEMMA WakeStep == TickInv /\ Wake => TickInv'
<1> SUFFICES ASSUME TickInv, Wake PROVE TickInv'
  OBVIOUS
<1> USE ScheduleAssumption DEF TickInv
<1>1. /\ tick' = [epoch |-> target, period |-> period, skipped |-> Skipped,
                  newGrid |-> wait.newGrid, setBack |-> wait.setBack]
      /\ prev' = tick /\ lastTick' = target /\ phase' = "reading"
      /\ UNCHANGED <<mono, offset, period, pending, mailbox, target, deadline, setBack, wait>>
      /\ phase = "sleeping" /\ mono >= deadline
  BY DEF Wake, clockVars
<1>2. Skipped \in Nat
  <2>1. period \in Nat /\ period > 0 /\ target \in Int /\ lastTick \in Int \cup {None}
    BY DEF TypeOK
  <2>2. CASE lastTick = None
    BY <2>2 DEF Skipped
  <2>3. CASE lastTick # None
    <3>1. target - lastTick \in Int
      BY <2>1, <2>3
    <3>2. (target - lastTick) \div period \in Int
      BY <2>1, <3>1, DivMod
    <3> QED  BY <2>3, <3>2 DEF Skipped, Larger
  <2> QED  BY <2>2, <2>3
<1>3. /\ mono \in Int /\ offset \in Int /\ target \in Int /\ deadline \in Int
      /\ period \in Nat /\ wait.newGrid \in BOOLEAN /\ wait.setBack \in BOOLEAN
  BY DEF TypeOK, Wait
<1>4. tick' \in Tick
  BY <1>1, <1>2, <1>3 DEF Tick
<1>5. TypeOK'
  BY <1>1, <1>3, <1>4 DEF TypeOK
<1>6. WaitOnGrid' /\ SwitchNotOverslept'
  BY <1>1 DEF WaitOnGrid, SwitchNotOverslept
<1>7. ClockPastTick'
  <2>1. ~setBack => mono + offset >= target
    BY <1>1, <1>3 DEF WaitOnGrid
  <2> QED  BY <1>1, <2>1 DEF ClockPastTick, Now
<1>8. TicksOnGrid' /\ TicksAdvance'
  <2>1. tick # None => tick.period \in Nat /\ tick.epoch \in Int
    BY DEF TypeOK, Tick
  <2>2. tick'.epoch % tick'.period = 0
    BY <1>1 DEF WaitOnGrid
  <2>3. prev' # None /\ ~tick'.setBack =>
          tick'.epoch > prev'.epoch /\ (~tick'.newGrid => tick'.epoch >= prev'.epoch + tick'.period)
    BY <1>1 DEF WaitOnGrid
  <2> QED  BY <2>2, <2>3 DEF TicksOnGrid, TicksAdvance
<1> QED
  BY <1>5, <1>6, <1>7, <1>8

\* Between waits, the schedule and the clock may change at any moment.
LEMMA OtherStep ==
  ASSUME TickInv, ApplySchedule \/ FinishRead \/ Stop \/ PollSchedule \/ AdoptOffset \/ Advance
  PROVE  TickInv'
<1> USE ScheduleAssumption DEF TickInv, clockVars, schedVars, histVars
<1>1. CASE ApplySchedule
  BY <1>1 DEF ApplySchedule, TypeOK, WaitOnGrid, ClockPastTick, TicksOnGrid, TicksAdvance,
              SwitchNotOverslept, Now
<1>2. CASE FinishRead \/ Stop
  BY <1>2 DEF FinishRead, Stop, TypeOK, WaitOnGrid, ClockPastTick, TicksOnGrid, TicksAdvance,
              SwitchNotOverslept, Now
<1>3. CASE PollSchedule
  BY <1>3 DEF PollSchedule, TypeOK, WaitOnGrid, ClockPastTick, TicksOnGrid, TicksAdvance,
              SwitchNotOverslept, Now
<1>4. CASE AdoptOffset
  <2>1. /\ UNCHANGED <<mono, schedVars, tick, prev, wait, mailbox, phase>>
        /\ offset' \in Offsets /\ offset' \in Int /\ offset \in Int
        /\ setBack' = IF offset' < offset THEN TRUE ELSE setBack
    BY <1>4 DEF AdoptOffset, TypeOK
  <2>2. ~setBack' => ~setBack /\ offset' >= offset
    <3>1. CASE offset' < offset
      BY <2>1, <3>1
    <3>2. CASE ~(offset' < offset)
      <4>1. setBack' = setBack
        BY ONLY <2>1, <3>2, Zenon
      <4>2. offset' >= offset
        BY ONLY <2>1, <3>2, SMT
      <4> QED  BY ONLY <4>1, <4>2, Zenon
    <3> QED  BY <3>1, <3>2
  <2>3. mono \in Int /\ target \in Int /\ deadline \in Int
    BY DEF TypeOK
  <2>4. TypeOK'
    <3>1. setBack \in BOOLEAN
      BY DEF TypeOK
    <3>2. setBack' \in BOOLEAN
      BY ONLY <2>1, <3>1, Zenon
    <3> QED  BY <2>1, <3>2 DEF TypeOK
  <2>5. WaitOnGrid'
    <3>1. phase = "sleeping" /\ ~setBack' => offset' >= target - deadline
      BY <2>1, <2>2, <2>3 DEF WaitOnGrid
    <3> QED  BY <2>1, <3>1 DEF WaitOnGrid
  <2>6. ClockPastTick'
    <3>1. ASSUME phase \in {"reading", "ready", "armed"}, tick # None, ~setBack'
          PROVE  mono + offset' >= tick.epoch
      <4>1. mono + offset >= tick.epoch /\ tick.epoch \in Int
        BY <2>2, <3>1 DEF ClockPastTick, Now, TypeOK, Tick
      <4> QED  BY <2>1, <2>2, <2>3, <3>1, <4>1
    <3> QED  BY <2>1, <3>1 DEF ClockPastTick, Now
  <2> QED  BY <2>1, <2>4, <2>5, <2>6 DEF TicksOnGrid, TicksAdvance, SwitchNotOverslept
<1>5. CASE Advance
  <2>1. /\ UNCHANGED <<offset, schedVars, histVars, mailbox, phase>>
        /\ mono' = mono + 1 /\ mono < MaxMono
    BY <1>5 DEF Advance
  <2>2. mono \in Int /\ offset \in Int
    BY DEF TypeOK
  <2>3. TypeOK'
    BY <2>1, <2>2 DEF TypeOK
  <2>4. ClockPastTick'
    <3>1. ASSUME phase \in {"reading", "ready", "armed"}, tick # None, ~setBack
          PROVE  mono' + offset >= tick.epoch
      <4>1. mono + offset >= tick.epoch /\ tick.epoch \in Int
        BY <3>1 DEF ClockPastTick, Now, TypeOK, Tick
      <4> QED  BY <2>1, <2>2, <4>1
    <3> QED  BY <2>1, <3>1 DEF ClockPastTick, Now
  <2> QED  BY <2>1, <2>3, <2>4 DEF WaitOnGrid, TicksOnGrid, TicksAdvance, SwitchNotOverslept
<1> QED
  BY <1>1, <1>2, <1>3, <1>4, <1>5

-----------------------------------------------------------------------------
(* The theorems.                                                           *)

\* TickInv is inductive, so it holds in every reachable state.
THEOREM TickInvariant == Spec => []TickInv
<1>1. TickInv /\ [Next]_vars => TickInv'
  <2> SUFFICES ASSUME TickInv, [Next]_vars PROVE TickInv'
    OBVIOUS
  <2>1. CASE UNCHANGED vars
    BY <2>1 DEF vars, clockVars, schedVars, histVars, TickInv, TypeOK, WaitOnGrid, ClockPastTick,
                TicksOnGrid, TicksAdvance, SwitchNotOverslept, Now
  <2> QED  BY <2>1, ArmStep, WakeStep, OtherStep DEF Next, SamplingStep
<1> QED
  BY <1>1, InitInv, PTL DEF Spec

\* Every tick of every Pi is a multiple of its period, so two Pis with the same
\* clock and period tick at the same instants.
THEOREM Aligned == Spec => []TicksOnGrid
<1>1. TickInv => TicksOnGrid
  BY DEF TickInv
<1> QED
  BY <1>1, TickInvariant, PTL

\* Ticks move forward by whole periods unless the clock is set back.
THEOREM Advancing == Spec => []TicksAdvance
<1>1. TickInv => TicksAdvance
  BY DEF TickInv
<1> QED
  BY <1>1, TickInvariant, PTL

\* No wait sleeps through the instant of a queued period switch.
THEOREM SwitchInTime == Spec => []SwitchNotOverslept
<1>1. TickInv => SwitchNotOverslept
  BY DEF TickInv
<1> QED
  BY <1>1, TickInvariant, PTL

-----------------------------------------------------------------------------
(* The skipped ticks.                                                      *)

\* last_tick_epoch is the latest tick, or forgotten by a switch.
LastTickKnown ==
  /\ tick # None /\ phase \in {"reading", "ready", "armed"} => lastTick = tick.epoch
  /\ tick # None /\ phase = "sleeping" => lastTick = IF wait.newGrid THEN None ELSE tick.epoch

SkipInv == LastTickKnown /\ SkipsCounted

\* Grid points a whole number of periods apart are counted exactly.
LEMMA GridCount ==
  ASSUME NEW a \in Int, NEW b \in Int, NEW p \in Nat, p > 0, a % p = 0, b % p = 0, b >= a + p
  PROVE  Larger(0, (b - a) \div p - 1) \in Int /\ b = a + (Larger(0, (b - a) \div p - 1) + 1) * p
<1> DEFINE i == a \div p
           j == b \div p
           k == (b - a) \div p
<1>1. i \in Int /\ j \in Int /\ a = p * i /\ b = p * j
  BY DivMod
<1>2. k \in Int /\ b - a = p * k + ((b - a) % p)
  BY DivMod
<1> HIDE DEF i, j, k
<1>3. b - a = (j - i) * p
  BY <1>1
<1>4. (b - a) % p = 0
  BY <1>1, <1>3, ProductOnGrid
<1>5. b - a = p * k
  BY <1>2, <1>4
<1>6. k >= 1
  <2>1. CASE k <= 0
    <3>1. p * k <= 0
      BY <1>2, <2>1
    <3> QED  BY <1>5, <3>1
  <2> QED  BY <1>2, <2>1
<1>7. Larger(0, k - 1) = k - 1
  BY <1>2, <1>6 DEF Larger
<1>8. b = a + (Larger(0, k - 1) + 1) * p
  <2>1. Larger(0, k - 1) + 1 = k
    BY <1>2, <1>7
  <2> QED  BY <1>2, <1>5, <2>1
<1> QED
  BY <1>2, <1>7, <1>8 DEF k

\* A tick counts the grid points between itself and the latest tick.
LEMMA SkipWake == TickInv /\ SkipInv /\ Wake => SkipInv'
<1> SUFFICES ASSUME TickInv, SkipInv, Wake PROVE SkipInv'
  OBVIOUS
<1> USE ScheduleAssumption DEF TickInv, SkipInv
<1>1. /\ tick' = [epoch |-> target, period |-> period, skipped |-> Skipped,
                  newGrid |-> wait.newGrid, setBack |-> wait.setBack]
      /\ prev' = tick /\ lastTick' = target /\ phase' = "reading" /\ phase = "sleeping"
  BY DEF Wake
<1>2. LastTickKnown'
  BY <1>1 DEF LastTickKnown
<1>3. ASSUME tick # None, wait.newGrid PROVE Skipped = 0
  BY <1>1, <1>3 DEF LastTickKnown, Skipped
<1>4. ASSUME tick # None, ~wait.newGrid, ~wait.setBack
      PROVE  target = tick.epoch + (Skipped + 1) * period
  <2>1. /\ tick.epoch \in Int /\ target \in Int /\ period \in Nat /\ period > 0
        /\ lastTick = tick.epoch /\ tick.epoch # None
    BY <1>1, <1>4 DEF TypeOK, Tick, LastTickKnown
  <2>2. /\ target % period = 0 /\ tick.epoch % period = 0
        /\ target >= tick.epoch + period
    BY <1>1, <1>4 DEF WaitOnGrid, TicksOnGrid
  <2>3. Skipped = Larger(0, (target - tick.epoch) \div period - 1)
    BY <2>1 DEF Skipped
  <2> QED  BY <2>1, <2>2, <2>3, GridCount
<1>5. SkipsCounted'
  BY <1>1, <1>3, <1>4 DEF SkipsCounted
<1> QED
  BY <1>2, <1>5

\* No other step counts, and a switch forgets the latest tick.
LEMMA SkipStep == TickInv /\ SkipInv /\ [Next]_vars => SkipInv'
<1> SUFFICES ASSUME TickInv, SkipInv, [Next]_vars PROVE SkipInv'
  OBVIOUS
<1> USE DEF SkipInv, LastTickKnown, SkipsCounted, clockVars, schedVars, histVars
<1>1. CASE Arm
  <2>1. /\ tick' = tick /\ prev' = prev /\ phase = "armed" /\ phase' = "sleeping"
        /\ wait' = [newGrid |-> SwitchDue(Now), setBack |-> setBack]
    BY <1>1 DEF Arm
  <2>2. CASE SwitchDue(Now)
    <3>1. lastTick' = None
      BY <1>1, <2>2 DEF Arm, LastTickAfterSwitch
    <3> QED  BY <2>1, <2>2, <3>1
  <2>3. CASE ~SwitchDue(Now)
    <3>1. lastTick' = lastTick
      BY <1>1, <2>3 DEF Arm
    <3> QED  BY <2>1, <2>3, <3>1
  <2> QED  BY <2>2, <2>3
<1>2. CASE ApplySchedule
  BY <1>2 DEF ApplySchedule
<1>3. CASE FinishRead \/ Stop \/ PollSchedule
  BY <1>3 DEF FinishRead, Stop, PollSchedule
<1>4. CASE AdoptOffset \/ Advance
  BY <1>4 DEF AdoptOffset, Advance
<1>5. CASE UNCHANGED vars
  BY <1>5 DEF vars
<1> QED
  BY <1>1, <1>2, <1>3, <1>4, <1>5, SkipWake DEF Next, SamplingStep

\* The ticks reported as skipped are the grid points passed over, whatever the
\* overruns and switches before.
THEOREM SkipsExact == Spec => []SkipsCounted
<1>1. Init => SkipInv
  BY DEF Init, SkipInv, LastTickKnown, SkipsCounted
<1>2. SkipInv => SkipsCounted
  BY DEF SkipInv
<1> QED
  BY <1>1, <1>2, SkipStep, TickInvariant, PTL DEF Spec

=============================================================================
