---------------------------- MODULE DeviceAgent -----------------------------
(***************************************************************************)
(* device_agent.py: one process per Pi that finds a backend (discovery.py),*)
(* measures and publishes the clock (clock.py), and sends heartbeats, with *)
(* the sensors that read the published clock, and systemd.                 *)
(*                                                                         *)
(* Time is counted in units of one request timeout.  Every request takes   *)
(* no time or a whole unit; local calls take none.  Faults are counted: a  *)
(* live host that does not answer, a file that cannot be read or written,  *)
(* an exit of the process.                                                 *)
(***************************************************************************)
EXTENDS PublishedClock, Sequences

CONSTANTS
  Listed,      \* networkList.txt: the hosts in order
  Interval,    \* HEARTBEAT_SECONDS
  RestartSec,  \* RestartSec of the unit
  StopGrace,   \* TimeoutStopSec of the unit
  Reader,      \* the sensor processes
  Gap,         \* the longest time between two refreshes of a sensor's clock
  MaxFaults    \* bound on the faults

ASSUME AgentAssumption ==
  /\ Listed \in Seq(STRING) /\ None \notin STRING
  /\ Interval \in Nat \ {0} /\ RestartSec \in Nat
  /\ StopGrace \in Nat \ {0, 1}             \* the notice takes a unit of time
  /\ None \notin [left : Nat, working : BOOLEAN]
  /\ Gap \in Nat \ {0} /\ MaxFaults \in Nat

VARIABLES
  up,        \* the hosts that answer
  file,      \* clock.json
  trusted,   \* age of the measurement each sensor's Clock relies on
  due,       \* time to the next refresh of a sensor that is SYNCED, at most
  pc,        \* where the agent is
  timer,     \* time since the cycle began; in a wait, the time left
  spent,     \* time the request in progress has taken
  tried,     \* hosts or samples tried
  baseUrl,   \* base_url
  best,      \* best sample of the probe
  temp,      \* the temporary file
  stop,      \* stop_event: time left until SIGKILL, and where SIGTERM came
  quiet,     \* history: time in which nothing failed and no heartbeat landed
  missed,    \* history: cycles begun since the last publication
  faults     \* faults so far

readerVars == <<trusted, due>>
probeVars  == <<tried, best>>
vars == <<up, file, readerVars, pc, timer, spent, probeVars, baseUrl, temp, stop, quiet,
          missed, faults>>

Hosts == {Listed[i] : i \in DOMAIN Listed}
Requests == {"check", "scan", "measure", "beat", "leaving"}   \* one per unit of time
Ended == {"stopped", "killed"}

Tolerated == 2   \* BlipTolerated: so many cycles without a publication

Smaller(a, b) == IF a <= b THEN a ELSE b
Larger(a, b)  == IF a >= b THEN a ELSE b

Fault == faults < MaxFaults /\ faults' = faults + 1 /\ quiet' = 0
NoFault == UNCHANGED <<faults, quiet>>

\* A request to a host is answered, or it is not.
Answers(host) == host \in up /\ NoFault
Fails(host)   == IF host \in up THEN Fault ELSE NoFault

Goto(where) == pc' = where /\ spent' = 0

-----------------------------------------------------------------------------
(* ensure_backend() and find_backend().                                    *)

\* run(), the top of the loop.
BeginCycle ==
  /\ pc = "top"
  /\ stop = None
  /\ timer' = 0
  /\ missed' = Smaller(missed + 1, Tolerated + 1)
  /\ Goto(IF baseUrl = None THEN "scan" ELSE "check")
  /\ NoFault
  /\ UNCHANGED <<up, file, readerVars, probeVars, baseUrl, temp, stop>>

\* Mutated form: the interval is measured from the end of the work.
DelayFromEnd == Interval

\* Mutated form: a cycle longer than the interval leaves a negative delay.
DelayUnbounded == Interval - timer

\* The interval is measured from the start of the cycle.
Delay == Larger(1, Interval - timer)

EndCycle == timer' = Delay /\ tried' = 0 /\ best' = None /\ Goto("waiting")

\* The backend in use is kept while it answers.
KeepBackend ==
  /\ pc = "check"
  /\ Answers(baseUrl)
  /\ Goto("measure")
  /\ UNCHANGED <<up, file, readerVars, timer, probeVars, baseUrl, temp, stop, missed>>

\* Mutated form: another backend is looked for only in the next cycle.
LoseBackendAndCycle ==
  /\ pc = "check"
  /\ Fails(baseUrl)
  /\ baseUrl' = None
  /\ EndCycle
  /\ UNCHANGED <<up, file, readerVars, temp, stop, missed>>

\* The list is scanned in the same cycle.
LoseBackend ==
  /\ pc = "check"
  /\ Fails(baseUrl)
  /\ baseUrl' = None
  /\ Goto("scan")
  /\ UNCHANGED <<up, file, readerVars, timer, probeVars, temp, stop, missed>>

\* The first host of the list that answers /api/time, each tried in turn.
FindBackend ==
  /\ pc = "scan" /\ tried < Len(Listed)
  /\ Answers(Listed[tried + 1])
  /\ baseUrl' = Listed[tried + 1]
  /\ tried' = 0
  /\ Goto("measure")
  /\ UNCHANGED <<up, file, readerVars, timer, best, temp, stop, missed>>

NextHost ==
  /\ pc = "scan" /\ tried < Len(Listed)
  /\ Fails(Listed[tried + 1])
  /\ tried' = tried + 1
  /\ Goto("scan")
  /\ UNCHANGED <<up, file, readerVars, timer, best, baseUrl, temp, stop, missed>>

\* No host answered, or candidates() could not read the list: neither clock
\* nor heartbeat in this cycle.
FindNothing ==
  /\ pc = "scan"
  /\ \/ tried = Len(Listed) /\ NoFault
     \/ tried = 0 /\ spent = 0 /\ Fault
  /\ EndCycle
  /\ UNCHANGED <<up, file, readerVars, baseUrl, temp, stop, missed>>

-----------------------------------------------------------------------------
(* sync_clock(): probe() and publish().                                    *)

\* The probe goes on, or its result is published, or there is none.
AfterSample ==
  Goto(IF ~ProbeEnds(best', tried') THEN "measure" ELSE IF Usable(best') THEN "write" ELSE "beat")

\* An exchange that took a whole unit of time is a slow one.
Sample ==
  /\ pc = "measure"
  /\ Answers(baseUrl)
  /\ \E rtt \in Rtts : (spent > 0 => rtt > MaxRtt) /\ best' = Better(best, rtt)
  /\ tried' = tried + 1
  /\ AfterSample
  /\ UNCHANGED <<up, file, readerVars, timer, baseUrl, temp, stop, missed>>

SampleFails ==
  /\ pc = "measure"
  /\ Fails(baseUrl)
  /\ tried' = tried + 1
  /\ UNCHANGED best
  /\ AfterSample
  /\ UNCHANGED <<up, file, readerVars, timer, baseUrl, temp, stop, missed>>

\* Mutated form: the file is written in place.
WrittenInPlace == Torn

\* clock.json while the temporary file is being written.
WhileWriting == file

\* publish(): json.dump into a temporary file beside it ...
WriteTemp ==
  /\ pc = "write"
  /\ temp' = Payload(best)
  /\ file' = WhileWriting
  /\ Goto("replace")
  /\ NoFault
  /\ UNCHANGED <<up, readerVars, timer, probeVars, baseUrl, stop, missed>>

\* ... and os.replace().
Replace ==
  /\ pc = "replace"
  /\ file' = temp
  /\ temp' = None
  /\ missed' = 0
  /\ Goto("beat")
  /\ NoFault
  /\ UNCHANGED <<up, readerVars, timer, probeVars, baseUrl, stop>>

\* An OSError on the way; the heartbeat is sent all the same.
PublishFails ==
  /\ pc \in {"write", "replace"}
  /\ Fault
  /\ temp' = None
  /\ Goto("beat")
  /\ UNCHANGED <<up, file, readerVars, timer, probeVars, baseUrl, stop, missed>>

-----------------------------------------------------------------------------
(* send_heartbeat(), the wait, report_shutdown().                          *)

HeartbeatLands ==
  /\ pc = "beat"
  /\ baseUrl \in up
  /\ quiet' = 0
  /\ EndCycle
  /\ UNCHANGED <<up, file, readerVars, baseUrl, temp, stop, missed, faults>>

HeartbeatFails ==
  /\ pc = "beat"
  /\ Fails(baseUrl)
  /\ EndCycle
  /\ UNCHANGED <<up, file, readerVars, baseUrl, temp, stop, missed>>

\* Mutated form: a sleep, which the stop event does not end.
SleepOver == timer = 0

\* stop_event.wait() ends with the time or with the event.
WaitOver == timer = 0 \/ stop # None

EndWait ==
  /\ pc = "waiting"
  /\ WaitOver
  /\ Goto("top")
  /\ NoFault
  /\ UNCHANGED <<up, file, readerVars, timer, probeVars, baseUrl, temp, stop, missed>>

\* The loop is left; without a backend nobody is told.
LeaveLoop ==
  /\ pc = "top"
  /\ stop # None
  /\ Goto("leaving")
  /\ NoFault
  /\ UNCHANGED <<up, file, readerVars, timer, probeVars, baseUrl, temp, stop, missed>>

\* systemd removes /run/sp_dashboard with the process, however that ended.
ServiceEnds(where) ==
  /\ file' = None /\ temp' = None /\ baseUrl' = None /\ tried' = 0 /\ best' = None
  /\ Goto(where)

\* The SHUTDOWN event is sent or lost; the process ends either way.
ReportShutdown ==
  /\ pc = "leaving"
  /\ ServiceEnds("stopped")
  /\ NoFault
  /\ UNCHANGED <<up, readerVars, timer, stop, missed>>

\* SIGTERM only sets the stop event.
Terminate ==
  /\ stop = None
  /\ pc \notin {"down"} \cup Ended
  /\ stop' = [left |-> StopGrace, working |-> pc \notin {"top", "waiting"}]
  /\ NoFault
  /\ UNCHANGED <<up, file, readerVars, pc, timer, spent, probeVars, baseUrl, temp, missed>>

Kill ==
  /\ stop # None /\ pc \notin Ended
  /\ stop.left = 0
  /\ ServiceEnds("killed")
  /\ NoFault
  /\ UNCHANGED <<up, readerVars, timer, stop, missed>>

\* Anything but a network error ends the process, an answer to a heartbeat
\* that is no JSON for one; systemd starts it again.
Crash ==
  /\ pc \notin {"down"} \cup Ended /\ stop = None
  /\ Fault
  /\ ServiceEnds("down")
  /\ timer' = RestartSec
  /\ UNCHANGED <<up, readerVars, stop, missed>>

Restart ==
  /\ pc = "down" /\ timer = 0
  /\ missed' = 0
  /\ Goto("top")
  /\ NoFault
  /\ UNCHANGED <<up, file, readerVars, timer, probeVars, baseUrl, temp, stop>>

-----------------------------------------------------------------------------
(* The sensors, the hosts, time and power.                                 *)

\* Clock.refresh() of a sensor, in its maintenance cycle.
Refresh(r) ==
  /\ trusted' = [trusted EXCEPT ![r] = IF Trusted(file) THEN file.age ELSE None]
  /\ due' = [due EXCEPT ![r] = Gap]
  /\ NoFault
  /\ UNCHANGED <<up, file, pc, timer, spent, probeVars, baseUrl, temp, stop, missed>>

HostChanges ==
  /\ \E h \in Hosts : up' \in {up \cup {h}, up \ {h}} \ {up}
  /\ quiet' = 0
  /\ UNCHANGED <<file, readerVars, pc, timer, spent, probeVars, baseUrl, temp, stop,
                 missed, faults>>

MaxLag == Samples - 1                 \* samples that time out after the best one
Limit  == MaxAge + MaxLag
Oldest == Limit + 1                   \* bound: older than this is no matter

\* One unit later.
AgedFile(f) ==
  IF f \in {None, Torn} THEN f
  ELSE [f EXCEPT !.age = Smaller(@ + 1, Oldest), !.synced = Smaller(@ + 1, MaxAge + 1)]
Aged(age) == IF age = None THEN None ELSE age + 1

Tick ==
  /\ pc \in Requests => spent = 0
  /\ pc = "waiting" => ~WaitOver
  /\ pc = "down" => timer > 0
  /\ pc \notin {"top", "write", "replace"}
  /\ stop # None /\ pc \notin Ended => stop.left > 0
  /\ \A r \in Reader : due[r] > 0
  /\ due' = [r \in Reader |-> IF trusted[r] = None THEN Gap ELSE due[r] - 1]
  /\ trusted' = [r \in Reader |-> Aged(trusted[r])]
  /\ file' = AgedFile(file)
  /\ best' = IF best = None \/ pc # "measure" THEN best ELSE [best EXCEPT !.age = @ + 1]
  /\ timer' = IF pc \in {"waiting", "down"} THEN timer - 1
              ELSE IF pc \in Ended THEN timer ELSE timer + 1
  /\ spent' = IF pc \in Requests THEN 1 ELSE 0
  /\ stop' = IF stop = None \/ pc \in Ended THEN stop ELSE [stop EXCEPT !.left = @ - 1]
  /\ quiet' = IF up = {} \/ stop # None THEN 0 ELSE quiet + 1
  /\ UNCHANGED <<up, pc, tried, baseUrl, temp, missed, faults>>

\* A power cut.  /run is gone, and if a file survived, the monotonic clock has
\* started again: it looks new.
Reboot ==
  /\ file' \in {None, IF file \in {None, Torn} THEN None
                     ELSE [file EXCEPT !.synced = 0, !.thisBoot = FALSE]}
  /\ trusted' = [r \in Reader |-> None]
  /\ due' = [r \in Reader |-> Gap]
  /\ Goto("top")
  /\ timer' = 0 /\ tried' = 0 /\ best' = None /\ temp' = None /\ baseUrl' = None
  /\ stop' = None /\ quiet' = 0 /\ missed' = 0
  /\ UNCHANGED <<up, faults>>

Init ==
  /\ up \in SUBSET Hosts
  /\ file = None
  /\ trusted = [r \in Reader |-> None]
  /\ due = [r \in Reader |-> Gap]
  /\ pc = "top" /\ timer = 0 /\ spent = 0 /\ tried = 0
  /\ baseUrl = None /\ best = None /\ temp = None /\ stop = None
  /\ quiet = 0 /\ missed = 0 /\ faults = 0

EnsureBackend == KeepBackend \/ LoseBackend \/ FindBackend \/ NextHost \/ FindNothing
SyncClock     == Sample \/ SampleFails \/ WriteTemp \/ Replace \/ PublishFails
SendHeartbeat == HeartbeatLands \/ HeartbeatFails
Shutdown      == Terminate \/ LeaveLoop \/ ReportShutdown \/ Kill

Next ==
  \/ BeginCycle \/ EnsureBackend \/ SyncClock \/ SendHeartbeat \/ EndWait
  \/ Shutdown \/ Crash \/ Restart
  \/ \E r \in Reader : Refresh(r)
  \/ HostChanges \/ Tick \/ Reboot

Spec == Init /\ [][Next]_vars

-----------------------------------------------------------------------------
(* Properties.                                                             *)

Published == [age : 0 .. Oldest, synced : 0 .. MaxAge + 1, thisBoot : BOOLEAN]

\* The longest work of a cycle, and the longest cycle.
MaxWork  == 1 + Len(Listed) + Samples + 1
MaxCycle == Larger(Interval, MaxWork + 1)

\* MAX_PUBLISHED_AGE outlasts the rest of the cycle that published and two
\* whole ones, and the notice of an agent that leaves then.
ASSUME AgeAssumption == Larger(Interval, 2) + Tolerated * MaxCycle < MaxAge

\* The type invariant.
TypeOK ==
  /\ up \subseteq Hosts
  /\ file \in Published \cup {None, Torn}
  /\ trusted \in [Reader -> 0 .. Limit + Gap \cup {None}] /\ due \in [Reader -> 0 .. Gap]
  /\ pc \in Requests \cup Ended \cup {"top", "write", "replace", "waiting", "down"}
  /\ timer \in 0 .. MaxCycle + RestartSec + 1 /\ spent \in 0 .. 1
  /\ tried \in 0 .. Larger(Samples, Len(Listed))
  /\ baseUrl \in Hosts \cup {None}
  /\ best \in [rtt : Rtts, age : 0 .. MaxWork] \cup {None}
  /\ temp \in Published \cup {None}
  /\ stop \in [left : 0 .. StopGrace, working : BOOLEAN] \cup {None}
  /\ quiet \in Nat /\ missed \in 0 .. Tolerated + 1 /\ faults \in 0 .. MaxFaults

\* The published clock is the register the sensors are promised.
Register == INSTANCE ClockRegister WITH
  Fresh <- MaxAge,
  serving <- pc \notin {"down"} \cup Ended,
  register <- IF file \in {None, Torn} THEN None
              ELSE IF file.thisBoot /\ file.age <= Limit THEN file.age ELSE None

RegisterSpec == Register!Spec

\* The longest time between two cycles that find a backend that is there, and
\* three intervals that hold such a pause and a cycle.
Pause == Larger(MaxCycle, RestartSec)
IntervalFits == Pause + MaxWork < 3 * Interval

\* The server takes a device for OFFLINE after three missed intervals: while
\* a host is up and nothing fails, a heartbeat lands before that, although a
\* cycle may have to find out first that its backend is gone.
HeartbeatInTime == quiet < 3 * Interval

\* One failed probe does not cost the sensors their SYNCED: the file is too
\* old only after at least two whole cycles without a publication.
BlipTolerated == file # None /\ file.thisBoot /\ missed <= Tolerated => file.synced <= MaxAge

\* An agent that is told to stop in its wait leaves by itself, with its notice
\* on the way; only one that is told so in the middle of a cycle may be killed.
KilledOnlyMidCycle == pc = "killed" => stop.working

=============================================================================
