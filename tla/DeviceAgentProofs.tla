-------------------------- MODULE DeviceAgentProofs --------------------------
(***************************************************************************)
(* Proofs about DeviceAgent, for every list of hosts, every number of      *)
(* samples, readers and faults, and every interval the assumptions allow:  *)
(* the published clock is the register the sensors are promised.           *)
(***************************************************************************)
EXTENDS DeviceAgent, TLAPS

\* The constants and the sums of them that the parts below compare with.
LEMMA Constants ==
  /\ Len(Listed) \in Nat
  /\ \A i \in 1 .. Len(Listed) : Listed[i] \in Hosts
  /\ MaxLag \in Nat /\ Limit \in Nat /\ Oldest \in Nat
  /\ Limit = MaxAge + MaxLag /\ Oldest = Limit + 1 /\ MaxLag = Samples - 1
  /\ MaxWork \in Nat /\ MaxWork = Len(Listed) + Samples + 2
  /\ MaxCycle \in Nat /\ Interval <= MaxCycle /\ MaxWork + 1 <= MaxCycle
BY ClockAssumption, AgentAssumption
   DEF Hosts, MaxLag, Limit, Oldest, MaxWork, MaxCycle, Larger

\* A mark is no measurement, no file and no number.
LEMMA Marks ==
  /\ \A b \in [rtt : Rtts, age : 0 .. MaxWork] : b # None
  /\ \A f \in Published : f # None /\ f # Torn
  /\ \A s \in [left : 0 .. StopGrace, working : BOOLEAN] : s # None
  /\ \A n \in Int : n # None
<1>1. [rtt : Rtts, age : 0 .. MaxWork] \subseteq [rtt : Nat, age : Nat]
  <2>1. 0 .. MaxWork \subseteq Nat /\ Rtts \subseteq Nat
    BY ClockAssumption, Constants
  <2> QED  BY <2>1
<1>2. Published \subseteq [age : Nat, synced : Nat, thisBoot : BOOLEAN]
  BY ClockAssumption, Constants DEF Published
<1>3. [left : 0 .. StopGrace, working : BOOLEAN] \subseteq [left : Nat, working : BOOLEAN]
  BY AgentAssumption
<1> QED  BY <1>1, <1>2, <1>3, ClockAssumption, AgentAssumption

-----------------------------------------------------------------------------
(* The parts of the invariant, each with the types of its variables.       *)

Places == Requests \cup Ended \cup {"top", "write", "replace", "waiting", "down"}

\* Where the agent is, what it has tried, and how long its cycle can have been
\* at work there.
WorkInv ==
  /\ pc \in Places /\ timer \in Nat /\ spent \in 0 .. 1 /\ tried \in Nat
  /\ tried <= Larger(Samples, Len(Listed))
  /\ timer <= MaxCycle + RestartSec + 1
  /\ pc = "check"   => timer <= spent
  /\ pc = "scan"    => timer <= 1 + tried + spent /\ tried <= Len(Listed)
  /\ pc = "measure" => timer <= 1 + Len(Listed) + tried + spent /\ tried < Samples
  /\ pc \in {"write", "replace"} => timer <= MaxWork - 1
  /\ pc = "beat"    => timer <= MaxWork - 1 + spent
  /\ pc \in {"top", "waiting"} => timer <= MaxCycle + RestartSec
  /\ pc = "leaving" => timer <= MaxCycle + RestartSec + spent
  /\ pc = "down"    => timer <= RestartSec
  /\ pc \in {"top", "check", "waiting", "down"} => tried = 0

\* The best sample is no older than the samples since.
ProbeInv ==
  /\ best \in [rtt : Rtts, age : 0 .. MaxWork] \cup {None}
  /\ pc \in {"top", "check", "scan", "waiting", "leaving", "down"} => best = None
  /\ pc = "measure" /\ best # None => best.age <= tried - 1 + spent
  /\ pc = "write" => best # None /\ best.age <= MaxLag

\* What publish() is about to put in place is whole and new.
TempInv ==
  /\ temp \in Published \cup {None}
  /\ pc = "replace" => /\ temp # None
                       /\ temp.age <= MaxLag /\ temp.synced = 0 /\ temp.thisBoot = TRUE

\* The age a reader computes of a file of this boot is near the age of the
\* measurement in it.
FileInv ==
  /\ file \in Published \cup {None}
  /\ file # None /\ file.thisBoot = TRUE =>
       /\ file.synced <= file.age
       /\ file.age <= file.synced + MaxLag

\* A reader looks again before what it has is too old.
ReaderInv ==
  /\ trusted \in [Reader -> Nat \cup {None}] /\ due \in [Reader -> 0 .. Gap]
  /\ \A r \in Reader : trusted[r] # None => trusted[r] + due[r] <= Limit + Gap

\* Nobody stops an agent that is not there; one that is stopped in its wait is
\* on its way out, with time to spare.
StopInv ==
  /\ stop \in [left : 0 .. StopGrace, working : BOOLEAN] \cup {None}
  /\ stop # None => pc # "down"
  /\ stop # None /\ ~stop.working =>
       \/ pc \in {"top", "waiting"} /\ stop.left = StopGrace
       \/ pc = "leaving" /\ stop.left + spent >= StopGrace
       \/ pc = "stopped"
  /\ pc = "killed" => stop # None /\ stop.working

OtherTypes ==
  /\ up \subseteq Hosts /\ baseUrl \in Hosts \cup {None}
  /\ quiet \in Nat /\ missed \in 0 .. Tolerated + 1 /\ faults \in 0 .. MaxFaults

\* The time since the last publication when the first cycles after it are over.
After(n) == Larger(Interval, 2) + (IF n = 0 THEN 0 ELSE IF n = 1 THEN MaxCycle ELSE 2 * MaxCycle)

\* How long ago the file was published, by the cycles begun since.
BlipInv ==
  /\ pc \in {"down"} \cup Ended => file = None
  /\ file # None /\ file.thisBoot = TRUE /\ missed <= Tolerated =>
       /\ pc \notin {"top", "waiting", "leaving"} =>
            IF missed = 0 THEN pc = "beat" /\ file.synced <= spent /\ file.synced <= timer
            ELSE file.synced <= After(missed - 1) + timer
       /\ pc = "waiting" => file.synced + timer <= After(missed)
       /\ pc = "top"     => file.synced <= After(missed)
       /\ pc = "leaving" => file.synced <= After(missed) + spent

\* The inductive invariant.
AgentInv ==
  WorkInv /\ ProbeInv /\ TempInv /\ FileInv /\ ReaderInv /\ StopInv /\ OtherTypes /\ BlipInv

-----------------------------------------------------------------------------
(* Each part holds at first, and every step keeps it.                      *)

\* No place of the cycle is reached later than its requests can take.
LEMMA WorkStep == ASSUME WorkInv, Next PROVE WorkInv'
<1> USE ClockAssumption, AgentAssumption, Constants
    DEF WorkInv, Places, probeVars, Goto, Larger, Requests, Ended
<1>1. CASE BeginCycle
  BY <1>1 DEF BeginCycle
<1>2. CASE KeepBackend
  BY <1>2 DEF KeepBackend
<1>3. CASE LoseBackend
  BY <1>3 DEF LoseBackend
<1>4. CASE FindBackend
  BY <1>4 DEF FindBackend
<1>5. CASE NextHost
  BY <1>5 DEF NextHost
<1>6. CASE FindNothing
  BY <1>6 DEF FindNothing, EndCycle, Delay
<1>7. CASE Sample
  BY <1>7 DEF Sample, AfterSample, ProbeEnds
<1>8. CASE SampleFails
  BY <1>8 DEF SampleFails, AfterSample, ProbeEnds
<1>9. CASE WriteTemp
  BY <1>9 DEF WriteTemp
<1>10. CASE Replace
  BY <1>10 DEF Replace
<1>11. CASE PublishFails
  BY <1>11 DEF PublishFails
<1>12. CASE HeartbeatLands
  BY <1>12 DEF HeartbeatLands, EndCycle, Delay
<1>13. CASE HeartbeatFails
  BY <1>13 DEF HeartbeatFails, EndCycle, Delay
<1>14. CASE EndWait
  BY <1>14 DEF EndWait, WaitOver
<1>15. CASE LeaveLoop
  BY <1>15 DEF LeaveLoop
<1>16. CASE Terminate
  BY <1>16 DEF Terminate
<1>17. CASE ReportShutdown
  BY <1>17 DEF ReportShutdown, ServiceEnds
<1>18. CASE Kill
  BY <1>18 DEF Kill, ServiceEnds
<1>19. CASE Crash
  BY <1>19 DEF Crash, ServiceEnds
<1>20. CASE Restart
  BY <1>20 DEF Restart
<1>21. CASE HostChanges
  BY <1>21 DEF HostChanges
<1>22. CASE Tick
  <2>1. /\ pc' = pc /\ tried' = tried
        /\ pc \in Requests => spent = 0
        /\ pc = "waiting" => timer # 0
        /\ pc = "down" => timer > 0
        /\ pc \notin {"top", "write", "replace"}
    BY <1>22 DEF Tick, WaitOver
  <2>2. /\ timer' = IF pc \in {"waiting", "down"} THEN timer - 1
                  ELSE IF pc \in Ended THEN timer ELSE timer + 1
        /\ spent' = IF pc \in Requests THEN 1 ELSE 0
    BY <1>22 DEF Tick
  <2> QED  BY <2>1, <2>2
<1>23. CASE Reboot
  <2>1. pc' = "top" /\ timer' = 0 /\ spent' = 0 /\ tried' = 0
    BY <1>23 DEF Reboot
  <2> QED  BY <2>1
<1>24. CASE \E r \in Reader : Refresh(r)
  BY <1>24 DEF Refresh
<1> QED
  BY <1>1, <1>2, <1>3, <1>4, <1>5, <1>6, <1>7, <1>8, <1>9, <1>10, <1>11, <1>12,
     <1>13, <1>14, <1>15, <1>16, <1>17, <1>18, <1>19, <1>20, <1>21, <1>22, <1>23, <1>24
     DEF Next, EnsureBackend, SyncClock, SendHeartbeat, Shutdown

\* A sample grows older only while the samples after it are taken.
LEMMA ProbeStep == ASSUME WorkInv, ProbeInv, Next PROVE ProbeInv'
<1> USE ClockAssumption, AgentAssumption, Constants
    DEF WorkInv, Places, ProbeInv, probeVars, Goto, Larger, Requests, Ended
<1>1. CASE BeginCycle
  BY <1>1 DEF BeginCycle
<1>2. CASE KeepBackend
  BY <1>2 DEF KeepBackend
<1>3. CASE LoseBackend
  BY <1>3 DEF LoseBackend
<1>4. CASE FindBackend
  BY <1>4 DEF FindBackend
<1>5. CASE NextHost
  BY <1>5 DEF NextHost
<1>6. CASE FindNothing
  BY <1>6 DEF FindNothing, EndCycle, Delay
<1>7. CASE Sample
  <2>1. PICK rtt \in Rtts : best' = Better(best, rtt)
    BY <1>7 DEF Sample
  <2>2. best' \in [rtt : Rtts, age : 0 .. MaxWork] /\ best'.age <= tried
    BY <1>7, <2>1 DEF Sample, Better
  <2>3. best' # None
    BY <2>2, Marks
  <2> QED  BY <1>7, <2>2, <2>3 DEF Sample, AfterSample, ProbeEnds, Usable
<1>8. CASE SampleFails
  BY <1>8 DEF SampleFails, AfterSample, ProbeEnds, Usable
<1>9. CASE WriteTemp
  BY <1>9 DEF WriteTemp
<1>10. CASE Replace
  BY <1>10 DEF Replace
<1>11. CASE PublishFails
  BY <1>11 DEF PublishFails
<1>12. CASE HeartbeatLands
  BY <1>12 DEF HeartbeatLands, EndCycle, Delay
<1>13. CASE HeartbeatFails
  BY <1>13 DEF HeartbeatFails, EndCycle, Delay
<1>14. CASE EndWait
  BY <1>14 DEF EndWait
<1>15. CASE LeaveLoop
  BY <1>15 DEF LeaveLoop
<1>16. CASE Terminate
  BY <1>16 DEF Terminate
<1>17. CASE ReportShutdown
  BY <1>17 DEF ReportShutdown, ServiceEnds
<1>18. CASE Kill
  BY <1>18 DEF Kill, ServiceEnds
<1>19. CASE Crash
  BY <1>19 DEF Crash, ServiceEnds
<1>20. CASE Restart
  BY <1>20 DEF Restart
<1>21. CASE HostChanges
  BY <1>21 DEF HostChanges
<1>22. CASE Tick
  <2>1. CASE best = None \/ pc # "measure"
    BY <1>22, <2>1 DEF Tick
  <2>2. CASE best # None /\ pc = "measure"
    <3>1. spent = 0 /\ pc' = pc /\ tried' = tried /\ spent' = 1
      BY <1>22, <2>2 DEF Tick
    <3>2. best' = [best EXCEPT !.age = best.age + 1]
      BY <1>22, <2>2 DEF Tick
    <3>3. best \in [rtt : Rtts, age : 0 .. MaxWork] /\ best.age + 1 <= tried /\ tried < Samples
      BY <2>2, <3>1
    <3>4. best.age + 1 \in 0 .. MaxWork
      BY <3>3
    <3>5. best' \in [rtt : Rtts, age : 0 .. MaxWork] /\ best'.age = best.age + 1
      BY <3>2, <3>3, <3>4
    <3> QED  BY <2>2, <3>1, <3>3, <3>5
  <2> QED  BY <2>1, <2>2
<1>23. CASE Reboot
  BY <1>23 DEF Reboot
<1>24. CASE \E r \in Reader : Refresh(r)
  BY <1>24 DEF Refresh
<1> QED
  BY <1>1, <1>2, <1>3, <1>4, <1>5, <1>6, <1>7, <1>8, <1>9, <1>10, <1>11, <1>12,
     <1>13, <1>14, <1>15, <1>16, <1>17, <1>18, <1>19, <1>20, <1>21, <1>22, <1>23, <1>24
     DEF Next, EnsureBackend, SyncClock, SendHeartbeat, Shutdown

\* The temporary file is complete before it is put in place.
LEMMA TempStep == ASSUME ProbeInv, TempInv, Next PROVE TempInv'
<1> USE ClockAssumption, AgentAssumption, Constants
    DEF ProbeInv, TempInv, Published, Goto
<1>1. CASE BeginCycle
  BY <1>1 DEF BeginCycle
<1>2. CASE KeepBackend
  BY <1>2 DEF KeepBackend
<1>3. CASE LoseBackend
  BY <1>3 DEF LoseBackend
<1>4. CASE FindBackend
  BY <1>4 DEF FindBackend
<1>5. CASE NextHost
  BY <1>5 DEF NextHost
<1>6. CASE FindNothing
  BY <1>6 DEF FindNothing, EndCycle, Delay
<1>7. CASE Sample
  BY <1>7 DEF Sample, AfterSample
<1>8. CASE SampleFails
  BY <1>8 DEF SampleFails, AfterSample
<1>9. CASE WriteTemp
  <2>1. best.age \in 0 .. Oldest /\ best.age <= MaxLag
    BY <1>9 DEF WriteTemp
  <2>2. temp' = [age |-> best.age, synced |-> 0, thisBoot |-> TRUE]
    BY <1>9 DEF WriteTemp, Payload
  <2>3. temp' \in Published
    BY <2>1, <2>2
  <2>4. temp' # None
    BY <2>3, Marks
  <2> QED  BY <2>1, <2>2, <2>3, <2>4
<1>10. CASE Replace
  BY <1>10 DEF Replace
<1>11. CASE PublishFails
  BY <1>11 DEF PublishFails
<1>12. CASE HeartbeatLands
  BY <1>12 DEF HeartbeatLands, EndCycle, Delay
<1>13. CASE HeartbeatFails
  BY <1>13 DEF HeartbeatFails, EndCycle, Delay
<1>14. CASE EndWait
  BY <1>14 DEF EndWait
<1>15. CASE LeaveLoop
  BY <1>15 DEF LeaveLoop
<1>16. CASE Terminate
  BY <1>16 DEF Terminate
<1>17. CASE ReportShutdown
  BY <1>17 DEF ReportShutdown, ServiceEnds
<1>18. CASE Kill
  BY <1>18 DEF Kill, ServiceEnds
<1>19. CASE Crash
  BY <1>19 DEF Crash, ServiceEnds
<1>20. CASE Restart
  BY <1>20 DEF Restart
<1>21. CASE HostChanges
  BY <1>21 DEF HostChanges
<1>22. CASE Tick
  BY <1>22 DEF Tick
<1>23. CASE Reboot
  BY <1>23 DEF Reboot
<1>24. CASE \E r \in Reader : Refresh(r)
  BY <1>24 DEF Refresh
<1> QED
  BY <1>1, <1>2, <1>3, <1>4, <1>5, <1>6, <1>7, <1>8, <1>9, <1>10, <1>11, <1>12,
     <1>13, <1>14, <1>15, <1>16, <1>17, <1>18, <1>19, <1>20, <1>21, <1>22, <1>23, <1>24
     DEF Next, EnsureBackend, SyncClock, SendHeartbeat, Shutdown

\* The measurement in the file and the time since its publication age together.
LEMMA FileStep == ASSUME TempInv, FileInv, Next PROVE FileInv'
<1> USE ClockAssumption, AgentAssumption, Constants
    DEF TempInv, FileInv, Published
<1>1. CASE \/ BeginCycle \/ KeepBackend \/ LoseBackend \/ FindBackend \/ NextHost \/ FindNothing
            \/ Sample \/ SampleFails \/ WriteTemp \/ PublishFails \/ HeartbeatLands \/ HeartbeatFails
            \/ EndWait \/ LeaveLoop \/ Terminate \/ Restart \/ HostChanges \/ \E r \in Reader : Refresh(r)
  <2>1. file' = file
    BY <1>1 DEF BeginCycle, KeepBackend, LoseBackend, FindBackend, NextHost, FindNothing,
                Sample, SampleFails, WriteTemp, PublishFails, HeartbeatLands,
                HeartbeatFails, EndWait, LeaveLoop, Terminate, Restart, HostChanges,
                Refresh, WhileWriting
  <2> QED  BY <2>1
<1>2. CASE Replace
  BY <1>2 DEF Replace
<1>3. CASE ReportShutdown
  BY <1>3 DEF ReportShutdown, ServiceEnds
<1>4. CASE Kill
  BY <1>4 DEF Kill, ServiceEnds
<1>5. CASE Crash
  BY <1>5 DEF Crash, ServiceEnds
<1>6. CASE Tick
  <2>1. CASE file = None
    BY <1>6, <2>1 DEF Tick, AgedFile
  <2>2. CASE file # None
    <3>1. file' = [file EXCEPT !.age = Smaller(file.age + 1, Oldest),
                               !.synced = Smaller(file.synced + 1, MaxAge + 1)]
      BY <1>6, <2>2, Marks DEF Tick, AgedFile
    <3>2. /\ Smaller(file.age + 1, Oldest) \in 0 .. Oldest
          /\ Smaller(file.synced + 1, MaxAge + 1) \in 0 .. MaxAge + 1
      BY <2>2 DEF Smaller
    <3>3. file' \in Published
      BY <2>2, <3>1, <3>2
    <3>4. /\ file'.age = Smaller(file.age + 1, Oldest)
          /\ file'.synced = Smaller(file.synced + 1, MaxAge + 1)
          /\ file'.thisBoot = file.thisBoot
      BY <2>2, <3>1
    <3>5. file.thisBoot = TRUE =>
            /\ Smaller(file.synced + 1, MaxAge + 1) <= Smaller(file.age + 1, Oldest)
            /\ Smaller(file.age + 1, Oldest) <= Smaller(file.synced + 1, MaxAge + 1) + MaxLag
      BY <2>2 DEF Smaller
    <3> QED  BY <3>3, <3>4, <3>5
  <2> QED  BY <2>1, <2>2
<1>7. CASE Reboot
  <2>1. CASE file' = None
    BY <2>1
  <2>2. CASE file' # None
    <3>1. file # None /\ file' = [file EXCEPT !.synced = 0, !.thisBoot = FALSE]
      BY <1>7, <2>2 DEF Reboot
    <3>2. file.age \in 0 .. Oldest /\ file \in Published
      BY <3>1
    <3>3. file' = [age |-> file.age, synced |-> 0, thisBoot |-> FALSE]
      BY <3>1, <3>2
    <3>4. file' \in Published
      BY <3>2, <3>3
    <3>5. file'.thisBoot = FALSE
      BY <3>3
    <3> QED  BY <3>4, <3>5
  <2> QED  BY <2>1, <2>2
<1> QED
  BY <1>1, <1>2, <1>3, <1>4, <1>5, <1>6, <1>7
     DEF Next, EnsureBackend, SyncClock, SendHeartbeat, Shutdown

\* A sensor looks again before what it relies on is too old.
LEMMA ReaderStep == ASSUME FileInv, ReaderInv, Next PROVE ReaderInv'
<1> USE ClockAssumption, AgentAssumption, Constants
    DEF ReaderInv
<1>1. CASE \/ BeginCycle \/ KeepBackend \/ LoseBackend \/ FindBackend \/ NextHost \/ FindNothing
            \/ Sample \/ SampleFails \/ WriteTemp \/ Replace \/ PublishFails \/ HeartbeatLands
            \/ HeartbeatFails \/ EndWait \/ LeaveLoop \/ Terminate \/ ReportShutdown \/ Kill
            \/ Crash \/ Restart \/ HostChanges
  <2>1. UNCHANGED <<trusted, due>>
    BY <1>1 DEF BeginCycle, KeepBackend, LoseBackend, FindBackend, NextHost, FindNothing,
                Sample, SampleFails, WriteTemp, Replace, PublishFails, HeartbeatLands,
                HeartbeatFails, EndWait, LeaveLoop, Terminate, ReportShutdown, Kill,
                Crash, Restart, HostChanges, readerVars
  <2> QED  BY <2>1
<1>2. CASE Tick
  <2>1. /\ \A r \in Reader : due[r] > 0
        /\ due' = [r \in Reader |-> IF trusted[r] = None THEN Gap ELSE due[r] - 1]
        /\ trusted' = [r \in Reader |-> Aged(trusted[r])]
    BY <1>2 DEF Tick
  <2>2. due' \in [Reader -> 0 .. Gap]
    BY <2>1
  <2>3. \A r \in Reader : Aged(trusted[r]) \in Nat \cup {None}
    BY DEF Aged
  <2>4. trusted' \in [Reader -> Nat \cup {None}]
    BY <2>1, <2>3
  <2>5. ASSUME NEW r \in Reader, trusted'[r] # None
        PROVE  trusted'[r] + due'[r] <= Limit + Gap
    <3>1. trusted[r] # None /\ trusted'[r] = trusted[r] + 1 /\ due'[r] = due[r] - 1
      BY <2>1, <2>5 DEF Aged
    <3>2. trusted[r] \in Nat /\ due[r] \in Nat /\ trusted[r] + due[r] <= Limit + Gap
      BY <3>1
    <3>3. trusted[r] + 1 + (due[r] - 1) <= Limit + Gap
      BY <3>2
    <3> QED  BY <3>1, <3>3
  <2> QED  BY <2>2, <2>4, <2>5
<1>3. CASE Reboot
  BY <1>3 DEF Reboot
<1>4. CASE \E r \in Reader : Refresh(r)
  <2>1. PICK r \in Reader : Refresh(r)
    BY <1>4
  <2>2. Trusted(file) => file.age \in 0 .. Limit
    BY DEF Trusted, FileInv, Published
  <2> QED  BY <2>1, <2>2 DEF Refresh
<1> QED
  BY <1>1, <1>2, <1>3, <1>4
     DEF Next, EnsureBackend, SyncClock, SendHeartbeat, Shutdown

\* A stop in the wait is obeyed at once, one in a cycle at its end.
LEMMA StopStep == ASSUME WorkInv, StopInv, Next PROVE StopInv'
<1> USE ClockAssumption, AgentAssumption
    DEF WorkInv, Places, StopInv, Goto, Requests, Ended
<1>1. CASE BeginCycle
  BY <1>1 DEF BeginCycle
<1>2. CASE KeepBackend
  BY <1>2 DEF KeepBackend
<1>3. CASE LoseBackend
  BY <1>3 DEF LoseBackend
<1>4. CASE FindBackend
  BY <1>4 DEF FindBackend
<1>5. CASE NextHost
  BY <1>5 DEF NextHost
<1>6. CASE FindNothing
  BY <1>6 DEF FindNothing, EndCycle, Delay
<1>7. CASE Sample
  BY <1>7 DEF Sample, AfterSample
<1>8. CASE SampleFails
  BY <1>8 DEF SampleFails, AfterSample
<1>9. CASE WriteTemp
  BY <1>9 DEF WriteTemp
<1>10. CASE Replace
  BY <1>10 DEF Replace
<1>11. CASE PublishFails
  BY <1>11 DEF PublishFails
<1>12. CASE HeartbeatLands
  BY <1>12 DEF HeartbeatLands, EndCycle, Delay
<1>13. CASE HeartbeatFails
  BY <1>13 DEF HeartbeatFails, EndCycle, Delay
<1>14. CASE EndWait
  BY <1>14 DEF EndWait, WaitOver
<1>15. CASE LeaveLoop
  BY <1>15 DEF LeaveLoop
<1>16. CASE Terminate
  <2>1. stop' = [left |-> StopGrace, working |-> pc \notin {"top", "waiting"}]
    BY <1>16 DEF Terminate
  <2>2. (pc \notin {"top", "waiting"}) \in BOOLEAN
    OBVIOUS
  <2>3. stop' \in [left : 0 .. StopGrace, working : BOOLEAN]
    BY <2>1, <2>2
  <2>4. stop'.left = StopGrace /\ (~stop'.working => pc \in {"top", "waiting"})
    BY <2>1
  <2>5. pc' = pc /\ pc \notin {"down"} \cup Ended
    BY <1>16 DEF Terminate
  <2> QED  BY <2>3, <2>4, <2>5
<1>17. CASE ReportShutdown
  BY <1>17 DEF ReportShutdown, ServiceEnds
<1>18. CASE Kill
  BY <1>18 DEF Kill, ServiceEnds
<1>19. CASE Crash
  BY <1>19 DEF Crash, ServiceEnds
<1>20. CASE Restart
  BY <1>20 DEF Restart
<1>21. CASE HostChanges
  BY <1>21 DEF HostChanges
<1>22. CASE Tick
  <2>1. /\ pc' = pc
        /\ pc = "waiting" => stop = None
        /\ pc \in Requests => spent = 0 /\ spent' = 1
        /\ pc # "top"
        /\ stop # None /\ pc \notin Ended => stop.left > 0
        /\ stop' = IF stop = None \/ pc \in Ended THEN stop ELSE [stop EXCEPT !.left = stop.left - 1]
    BY <1>22 DEF Tick, WaitOver
  <2>2. CASE stop = None \/ pc \in Ended
    BY <2>1, <2>2
  <2>3. CASE stop # None /\ pc \notin Ended
    <3>1. stop.left - 1 \in 0 .. StopGrace
      BY <2>1, <2>3
    <3>2. /\ stop' \in [left : 0 .. StopGrace, working : BOOLEAN]
          /\ stop'.left = stop.left - 1 /\ stop'.working = stop.working
      BY <2>1, <2>3, <3>1
    <3>3. pc = "leaving" /\ stop.left + spent >= StopGrace => stop.left - 1 + 1 >= StopGrace
      BY <2>1, <2>3
    <3> QED  BY <2>1, <2>3, <3>2, <3>3
  <2> QED  BY <2>2, <2>3
<1>23. CASE Reboot
  BY <1>23 DEF Reboot
<1>24. CASE \E r \in Reader : Refresh(r)
  BY <1>24 DEF Refresh
<1> QED
  BY <1>1, <1>2, <1>3, <1>4, <1>5, <1>6, <1>7, <1>8, <1>9, <1>10, <1>11, <1>12,
     <1>13, <1>14, <1>15, <1>16, <1>17, <1>18, <1>19, <1>20, <1>21, <1>22, <1>23, <1>24
     DEF Next, EnsureBackend, SyncClock, SendHeartbeat, Shutdown

\* The types of the variables that no other part speaks of.
LEMMA OtherStep == ASSUME WorkInv, OtherTypes, Next PROVE OtherTypes'
<1> USE ClockAssumption, AgentAssumption, Constants
    DEF OtherTypes, Smaller, Tolerated, Fails, Answers, Fault, NoFault
<1>1. CASE BeginCycle
  BY <1>1 DEF BeginCycle
<1>2. CASE KeepBackend
  BY <1>2 DEF KeepBackend
<1>3. CASE LoseBackend
  BY <1>3 DEF LoseBackend
<1>4. CASE FindBackend
  BY <1>4 DEF FindBackend
<1>5. CASE NextHost
  BY <1>5 DEF NextHost
<1>6. CASE FindNothing
  BY <1>6 DEF FindNothing
<1>7. CASE Sample
  BY <1>7 DEF Sample
<1>8. CASE SampleFails
  BY <1>8 DEF SampleFails
<1>9. CASE WriteTemp
  BY <1>9 DEF WriteTemp
<1>10. CASE Replace
  BY <1>10 DEF Replace
<1>11. CASE PublishFails
  BY <1>11 DEF PublishFails
<1>12. CASE HeartbeatLands
  BY <1>12 DEF HeartbeatLands
<1>13. CASE HeartbeatFails
  BY <1>13 DEF HeartbeatFails
<1>14. CASE EndWait
  BY <1>14 DEF EndWait
<1>15. CASE LeaveLoop
  BY <1>15 DEF LeaveLoop
<1>16. CASE Terminate
  BY <1>16 DEF Terminate
<1>17. CASE ReportShutdown
  BY <1>17 DEF ReportShutdown, ServiceEnds
<1>18. CASE Kill
  BY <1>18 DEF Kill, ServiceEnds
<1>19. CASE Crash
  BY <1>19 DEF Crash, ServiceEnds
<1>20. CASE Restart
  BY <1>20 DEF Restart
<1>21. CASE HostChanges
  BY <1>21 DEF HostChanges
<1>22. CASE Tick
  <2>1. quiet' = IF up = {} \/ stop # None THEN 0 ELSE quiet + 1
    BY <1>22 DEF Tick
  <2>2. quiet' \in Nat
    BY <2>1
  <2>3. UNCHANGED <<up, baseUrl, missed, faults>>
    BY <1>22 DEF Tick
  <2> QED  BY <2>2, <2>3
<1>23. CASE Reboot
  BY <1>23 DEF Reboot
<1>24. CASE \E r \in Reader : Refresh(r)
  BY <1>24 DEF Refresh
<1> QED
  BY <1>1, <1>2, <1>3, <1>4, <1>5, <1>6, <1>7, <1>8, <1>9, <1>10, <1>11, <1>12,
     <1>13, <1>14, <1>15, <1>16, <1>17, <1>18, <1>19, <1>20, <1>21, <1>22, <1>23, <1>24
     DEF Next, EnsureBackend, SyncClock, SendHeartbeat, Shutdown

\* Each cycle without a publication adds at most one cycle to the file's age.
LEMMA BlipStep == ASSUME WorkInv, TempInv, FileInv, OtherTypes, BlipInv, Next PROVE BlipInv'
<1> USE ClockAssumption, AgentAssumption, Constants
    DEF WorkInv, Places, TempInv, FileInv, Published, OtherTypes, BlipInv, After, Tolerated,
        Smaller, Larger, Requests, Ended, Goto, probeVars
<1>1. CASE BeginCycle
  BY <1>1 DEF BeginCycle
<1>2. CASE KeepBackend
  BY <1>2 DEF KeepBackend
<1>3. CASE LoseBackend
  BY <1>3 DEF LoseBackend
<1>4. CASE FindBackend
  BY <1>4 DEF FindBackend
<1>5. CASE NextHost
  BY <1>5 DEF NextHost
<1>6. CASE FindNothing
  BY <1>6 DEF FindNothing, EndCycle, Delay
<1>7. CASE Sample
  BY <1>7 DEF Sample, AfterSample
<1>8. CASE SampleFails
  BY <1>8 DEF SampleFails, AfterSample
<1>9. CASE WriteTemp
  BY <1>9 DEF WriteTemp, WhileWriting
<1>10. CASE Replace
  BY <1>10 DEF Replace
<1>11. CASE PublishFails
  BY <1>11 DEF PublishFails
<1>12. CASE HeartbeatLands
  BY <1>12 DEF HeartbeatLands, EndCycle, Delay
<1>13. CASE HeartbeatFails
  BY <1>13 DEF HeartbeatFails, EndCycle, Delay
<1>14. CASE EndWait
  BY <1>14 DEF EndWait, WaitOver
<1>15. CASE LeaveLoop
  BY <1>15 DEF LeaveLoop
<1>16. CASE Terminate
  BY <1>16 DEF Terminate
<1>17. CASE ReportShutdown
  BY <1>17 DEF ReportShutdown, ServiceEnds
<1>18. CASE Kill
  BY <1>18 DEF Kill, ServiceEnds
<1>19. CASE Crash
  BY <1>19 DEF Crash, ServiceEnds
<1>20. CASE Restart
  BY <1>20 DEF Restart
<1>21. CASE HostChanges
  BY <1>21 DEF HostChanges
<1>22. CASE Tick
  <2>1. CASE file = None
    BY <1>22, <2>1 DEF Tick, AgedFile
  <2>2. CASE file # None
    <3>1. file' = [file EXCEPT !.age = Smaller(file.age + 1, Oldest),
                               !.synced = Smaller(file.synced + 1, MaxAge + 1)]
      BY <1>22, <2>2, Marks DEF Tick, AgedFile
    <3>2. file'.thisBoot = file.thisBoot /\ file'.synced = Smaller(file.synced + 1, MaxAge + 1)
      BY <2>2, <3>1
    <3>3. Smaller(file.synced + 1, MaxAge + 1) <= file.synced + 1
      BY <2>2
    <3>4. /\ pc' = pc /\ missed' = missed
          /\ pc \notin {"top", "write", "replace"}
          /\ pc \in Requests => spent = 0 /\ spent' = 1
      BY <1>22 DEF Tick
    <3>5. timer' = IF pc \in {"waiting", "down"} THEN timer - 1
                   ELSE IF pc \in Ended THEN timer ELSE timer + 1
      BY <1>22 DEF Tick
    <3>6. PICK n \in Nat : file'.synced = n /\ n <= file.synced + 1
      BY <2>2, <3>2, <3>3
    <3>7. pc \notin {"down"} \cup Ended
      BY <2>2
    <3>8. CASE ~(file.thisBoot = TRUE /\ missed <= Tolerated)
      <4>1. ~(file'.thisBoot = TRUE /\ missed' <= Tolerated)
        BY <3>2, <3>4, <3>8
      <4> QED  BY <3>4, <3>7, <4>1
    <3>9. CASE file.thisBoot = TRUE /\ missed <= Tolerated
      <4>1. CASE pc = "waiting"
        <5>1. timer' = timer - 1 /\ n + (timer - 1) <= After(missed)
          BY <2>2, <3>5, <3>6, <3>9, <4>1
        <5> QED  BY <3>4, <3>6, <4>1, <5>1
      <4>2. CASE pc = "leaving"
        <5>1. n <= After(missed) + 1
          BY <2>2, <3>4, <3>6, <3>9, <4>2
        <5> QED  BY <3>4, <3>6, <4>2, <5>1
      <4>3. CASE pc \notin {"waiting", "leaving"}
        <5>1. timer' = timer + 1 /\ spent' = 1
          BY <3>4, <3>5, <3>7, <4>3
        <5>2. IF missed = 0 THEN pc = "beat" /\ n <= 1 /\ n <= timer + 1
              ELSE n <= After(missed - 1) + (timer + 1)
          BY <2>2, <3>4, <3>6, <3>7, <3>9, <4>3
        <5> QED  BY <3>4, <3>6, <3>7, <3>9, <4>3, <5>1, <5>2
      <4> QED  BY <4>1, <4>2, <4>3
    <3> QED  BY <3>8, <3>9, Zenon
  <2> QED  BY <2>1, <2>2
<1>23. CASE Reboot
  BY <1>23 DEF Reboot
<1>24. CASE \E r \in Reader : Refresh(r)
  BY <1>24 DEF Refresh
<1> QED
  BY <1>1, <1>2, <1>3, <1>4, <1>5, <1>6, <1>7, <1>8, <1>9, <1>10, <1>11, <1>12,
     <1>13, <1>14, <1>15, <1>16, <1>17, <1>18, <1>19, <1>20, <1>21, <1>22, <1>23, <1>24
     DEF Next, EnsureBackend, SyncClock, SendHeartbeat, Shutdown

\* The agent starts without a backend, a file or a measurement.
LEMMA InitAgent == Init => AgentInv
<1> SUFFICES ASSUME Init PROVE AgentInv
  OBVIOUS
<1> USE ClockAssumption, AgentAssumption, Constants DEF Init
<1>1. WorkInv /\ ProbeInv /\ TempInv
  BY DEF WorkInv, Places, Larger, ProbeInv, TempInv
<1>2. FileInv /\ ReaderInv /\ StopInv /\ BlipInv
  BY DEF FileInv, ReaderInv, StopInv, BlipInv
<1>3. OtherTypes
  BY DEF OtherTypes, Tolerated
<1> QED  BY <1>1, <1>2, <1>3 DEF AgentInv

\* So every step keeps all the parts.
LEMMA AgentStep == AgentInv /\ [Next]_vars => AgentInv'
<1>1. ASSUME AgentInv, Next PROVE AgentInv'
  BY <1>1, WorkStep, ProbeStep, TempStep, FileStep, ReaderStep, StopStep, OtherStep, BlipStep
     DEF AgentInv
<1>2. ASSUME AgentInv, UNCHANGED vars PROVE AgentInv'
  BY <1>2 DEF AgentInv, vars, readerVars, probeVars, WorkInv, ProbeInv, TempInv, FileInv,
              ReaderInv, StopInv, OtherTypes, BlipInv
<1> QED  BY <1>1, <1>2

\* The invariant, for every value of the constants.
THEOREM AgentInvariant == Spec => []AgentInv
BY InitAgent, AgentStep, PTL DEF Spec

\* The agent of device_agent.py keeps its types; in particular a cycle, however its
\* requests time out, is over in time.
THEOREM AgentTypes == Spec => []TypeOK
<1>1. AgentInv => TypeOK
  <2> SUFFICES ASSUME AgentInv PROVE TypeOK
    OBVIOUS
  <2> USE ClockAssumption, AgentAssumption, Constants DEF AgentInv
  <2>1. trusted \in [Reader -> 0 .. Limit + Gap \cup {None}]
    BY DEF ReaderInv
  <2>2. timer \in 0 .. MaxCycle + RestartSec + 1 /\ tried \in 0 .. Larger(Samples, Len(Listed))
    BY DEF WorkInv, Larger
  <2> QED  BY <2>1, <2>2 DEF TypeOK, WorkInv, Places, ProbeInv, TempInv, FileInv, ReaderInv,
                            StopInv, OtherTypes
<1> QED  BY AgentInvariant, <1>1, PTL

\* A run() that is told to stop in its wait is never killed by systemd.
THEOREM WaiterLeaves == Spec => []KilledOnlyMidCycle
<1>1. AgentInv => KilledOnlyMidCycle
  BY DEF AgentInv, StopInv, KilledOnlyMidCycle
<1> QED  BY AgentInvariant, <1>1, PTL

\* The sensors of load_published() outlast two cycles of sync_clock() that publish
\* nothing.
THEOREM BlipsTolerated == Spec => []BlipTolerated
<1>1. AgentInv => BlipTolerated
  <2> SUFFICES ASSUME AgentInv, file # None, file.thisBoot, missed <= Tolerated
               PROVE  file.synced <= MaxAge
    BY DEF BlipTolerated
  <2> USE ClockAssumption, AgentAssumption, AgeAssumption, Constants
  <2>1. /\ file \in Published /\ file.thisBoot = TRUE
        /\ missed \in 0 .. 2
    BY DEF AgentInv, FileInv, OtherTypes, Published, Tolerated
  <2>2. After(missed) <= Larger(Interval, 2) + 2 * MaxCycle
    BY <2>1 DEF After, Larger
  <2>3. file.synced \in Nat
    BY <2>1 DEF Published
  <2>4. Larger(Interval, 2) + 2 * MaxCycle < MaxAge
    BY DEF Tolerated
  <2>5. pc \in Places /\ timer \in Nat /\ spent \in 0 .. 1
    BY DEF AgentInv, WorkInv
  <2>6. CASE pc \in {"top", "waiting", "leaving"}
    <3>1. file.synced <= After(missed) + 1
      BY <2>1, <2>3, <2>5, <2>6 DEF AgentInv, BlipInv, After, Larger, Tolerated
    <3> QED  BY <2>1, <2>2, <2>3, <2>4, <3>1 DEF After, Larger
  <2>7. CASE pc \notin {"top", "waiting", "leaving"}
    <3>1. pc \in {"check", "scan", "measure", "write", "replace", "beat"}
      BY <2>5, <2>7 DEF AgentInv, BlipInv, Places, Requests, Ended
    <3>2. timer <= MaxWork
      BY <2>5, <3>1 DEF AgentInv, WorkInv, Larger
    <3>3. CASE missed = 0
      <4>1. file.synced <= 1
        BY <2>1, <2>3, <2>5, <2>7, <3>3 DEF AgentInv, BlipInv, Tolerated
      <4> QED  BY <2>3, <2>4, <4>1 DEF Larger
    <3>4. CASE missed # 0
      <4>1. file.synced <= After(missed - 1) + timer
        BY <2>1, <2>7, <3>4 DEF AgentInv, BlipInv, Tolerated
      <4>2. After(missed - 1) + MaxCycle <= Larger(Interval, 2) + 2 * MaxCycle
        BY <2>1, <3>4 DEF After, Larger
      <4> QED  BY <2>1, <2>3, <2>4, <2>5, <3>2, <3>4, <4>1, <4>2 DEF After, Larger
    <3> QED  BY <3>3, <3>4
  <2> QED  BY <2>6, <2>7
<1> QED  BY AgentInvariant, <1>1, PTL

-----------------------------------------------------------------------------
(* The heartbeats.                                                         *)

\* A host that this cycle has not tried yet answers.
LiveAhead == \E i \in tried + 1 .. Len(Listed) : Listed[i] \in up

\* This cycle ends with a heartbeat, if nothing fails.
Hopeful ==
  \/ pc = "check"
  \/ pc = "scan" /\ LiveAhead
  \/ pc \in {"measure", "write", "replace", "beat"} /\ baseUrl \in up

Working == (Requests \ {"leaving"}) \cup {"write", "replace"}

\* Nothing has been heard for at most a pause and the cycle in progress; where
\* the cycle cannot end with a heartbeat, something failed since it began.
QuietInv ==
  /\ quiet <= Pause + MaxWork
  /\ up = {} => quiet = 0
  /\ pc \in Ended \cup {"leaving"} => stop # None
  /\ stop = None =>
       /\ pc \in {"waiting", "down"} => quiet + timer <= Pause
       /\ pc = "top" => quiet <= Pause
       /\ pc \in Working => quiet <= Pause + timer
       /\ pc \in Working /\ ~Hopeful => quiet <= timer

\* A pause is as long as a cycle and as a restart.
LEMMA PauseBounds ==
  /\ Pause \in Nat /\ MaxCycle \in Nat /\ RestartSec \in Nat /\ MaxWork \in Nat
  /\ MaxCycle <= Pause /\ RestartSec <= Pause
BY Constants, AgentAssumption DEF Pause, Larger

\* A scan that begins passes a live host, if there is one.
LEMMA ScanFinds ==
  ASSUME OtherTypes, tried = 0, up # {}
  PROVE  LiveAhead
BY Constants DEF OtherTypes, LiveAhead, Hosts

\* The cycle in progress has not worked longer than a cycle does.
LEMMA WorkBound ==
  ASSUME WorkInv, pc \in Working
  PROVE  timer \in Nat /\ timer <= MaxWork /\ (pc \in Requests /\ spent = 0 => timer < MaxWork)
BY Constants, ClockAssumption DEF WorkInv, Working, Requests

\* A fault ends the quiet time that counts.
LEMMA QuietAfterFault ==
  ASSUME WorkInv', quiet' = 0, pc' \notin Ended \cup {"leaving"},
         pc' \in {"waiting", "down"} => timer' <= Pause
  PROVE  QuietInv'
<1>1. PICK t \in Nat : timer' = t
  BY DEF WorkInv
<1>2. /\ 0 <= Pause + MaxWork /\ 0 <= Pause + t /\ 0 <= t /\ 0 <= Pause
      /\ pc' \in {"waiting", "down"} => 0 + t <= Pause
  BY <1>1, PauseBounds
<1> QED  BY <1>1, <1>2 DEF QuietInv

\* An agent that is told to stop stays so while time passes.
LEMMA StopTicks ==
  ASSUME StopInv, Tick, stop # None
  PROVE  stop' # None
<1>1. CASE pc \in Ended
  BY <1>1 DEF Tick
<1>2. CASE pc \notin Ended
  <2>1. stop \in [left : 0 .. StopGrace, working : BOOLEAN] /\ stop.left > 0
    BY <1>2 DEF StopInv, Tick
  <2>2. stop' = [stop EXCEPT !.left = stop.left - 1]
    BY <1>2 DEF Tick
  <2>3. stop' \in [left : 0 .. StopGrace, working : BOOLEAN]
    BY <2>1, <2>2, AgentAssumption
  <2> QED  BY <2>3, Marks
<1> QED  BY <1>1, <1>2

\* No step makes the quiet time longer than that.
LEMMA QuietStep == ASSUME WorkInv, StopInv, OtherTypes, QuietInv, WorkInv', Next PROVE QuietInv'
<1>0. timer \in Nat /\ quiet \in Nat /\ tried \in Nat
  BY DEF WorkInv, OtherTypes
<1>a. /\ Delay \in Nat
      /\ pc \in Working => timer + Delay <= MaxCycle
      /\ Delay <= MaxCycle
  BY <1>0, WorkBound, Constants, AgentAssumption DEF Delay, Larger, MaxCycle
<1> USE <1>0, PauseBounds
<1>1. CASE BeginCycle
  <2>1. /\ pc = "top" /\ stop = None /\ tried = 0 /\ timer' = 0
        /\ pc' \in {"scan", "check"} /\ UNCHANGED <<up, tried, stop, quiet>>
    BY <1>1 DEF BeginCycle, Goto, NoFault, probeVars, WorkInv
  <2>2. CASE up = {}
    BY <2>1, <2>2 DEF QuietInv, Ended
  <2>3. CASE up # {}
    <3>1. LiveAhead'
      BY <2>1, <2>3, ScanFinds DEF LiveAhead
    <3> QED  BY <2>1, <2>3, <3>1 DEF QuietInv, Hopeful, Ended
  <2> QED  BY <2>2, <2>3
<1>2. CASE KeepBackend
  <2>1. /\ pc = "check" /\ pc' = "measure" /\ baseUrl' \in up'
        /\ UNCHANGED <<up, timer, stop, quiet>>
    BY <1>2 DEF KeepBackend, Goto, Answers, NoFault
  <2> QED  BY <2>1 DEF QuietInv, Hopeful, Ended, Working, Requests
<1>3. CASE LoseBackend
  <2>1. /\ pc = "check" /\ pc' = "scan" /\ tried = 0
        /\ UNCHANGED <<up, timer, stop, tried>>
        /\ quiet' = quiet \/ quiet' = 0
    BY <1>3 DEF LoseBackend, Goto, Fails, Fault, NoFault, probeVars, WorkInv
  <2>2. CASE up = {}
    BY <2>1, <2>2, Constants DEF QuietInv, Ended
  <2>3. CASE up # {}
    <3>1. LiveAhead'
      BY <2>1, <2>3, ScanFinds DEF LiveAhead
    <3> QED  BY <2>1, <2>3, <3>1, Constants DEF QuietInv, Hopeful, Ended, Working, Requests
  <2> QED  BY <2>2, <2>3
<1>4. CASE FindBackend
  <2>1. /\ pc = "scan" /\ tried < Len(Listed) /\ Listed[tried + 1] \in up
        /\ pc' = "measure" /\ baseUrl' \in up'
        /\ UNCHANGED <<up, timer, stop, quiet>>
    BY <1>4 DEF FindBackend, Goto, Answers, NoFault
  <2> QED  BY <2>1 DEF QuietInv, Hopeful, Ended, Working, Requests
<1>5. CASE NextHost
  <2>1. /\ pc = "scan" /\ tried < Len(Listed) /\ pc' = "scan" /\ tried' = tried + 1
        /\ UNCHANGED <<up, timer, stop>>
    BY <1>5 DEF NextHost, Goto
  <2>2. CASE Listed[tried + 1] \in up
    <3>1. quiet' = 0
      BY <1>5, <2>2 DEF NextHost, Fails, Fault
    <3> QED  BY <2>1, <3>1, QuietAfterFault DEF Ended
  <2>3. CASE Listed[tried + 1] \notin up
    <3>1. quiet' = quiet
      BY <1>5, <2>3 DEF NextHost, Fails, NoFault
    <3>2. LiveAhead => LiveAhead'
      <4> SUFFICES ASSUME NEW i \in tried + 1 .. Len(Listed), Listed[i] \in up PROVE LiveAhead'
        BY DEF LiveAhead
      <4>1. i \in tried' + 1 .. Len(Listed)
        BY <2>1, <2>3, Constants
      <4> QED  BY <2>1, <4>1 DEF LiveAhead
    <3> QED  BY <2>1, <3>1, <3>2 DEF QuietInv, Hopeful, Ended, Working, Requests
  <2> QED  BY <2>2, <2>3
<1>6. CASE FindNothing
  <2>1. /\ pc = "scan" /\ pc' = "waiting" /\ timer' = Delay /\ UNCHANGED <<up, stop>>
        /\ (tried = Len(Listed) /\ quiet' = quiet) \/ quiet' = 0
    BY <1>6 DEF FindNothing, EndCycle, Goto, Fault, NoFault
  <2>2. CASE quiet' = 0
    BY <1>a, <2>1, <2>2, QuietAfterFault DEF Ended
  <2>3. CASE tried = Len(Listed) /\ quiet' = quiet
    <3>1. ~LiveAhead
      BY <2>3, Constants DEF LiveAhead
    <3> QED  BY <1>a, <2>1, <2>3, <3>1 DEF QuietInv, Hopeful, Ended, Working, Requests
  <2> QED  BY <2>1, <2>2, <2>3
<1>7. CASE Sample
  <2>1. /\ pc = "measure" /\ pc' \in {"measure", "write", "beat"} /\ baseUrl \in up
        /\ UNCHANGED <<up, timer, stop, quiet, baseUrl>>
    BY <1>7 DEF Sample, AfterSample, Goto, Answers, NoFault
  <2> QED  BY <2>1 DEF QuietInv, Hopeful, Ended, Working, Requests
<1>8. CASE SampleFails
  <2>1. /\ pc = "measure" /\ pc' \in {"measure", "write", "beat"}
        /\ UNCHANGED <<up, timer, stop, baseUrl>>
        /\ quiet' = 0 \/ (baseUrl \notin up /\ quiet' = quiet)
    BY <1>8 DEF SampleFails, AfterSample, Goto, Fails, Fault, NoFault
  <2> QED  BY <2>1, Constants DEF QuietInv, Hopeful, Ended, Working, Requests
<1>9. CASE WriteTemp
  <2>1. /\ pc = "write" /\ pc' = "replace"
        /\ UNCHANGED <<up, timer, stop, quiet, baseUrl>>
    BY <1>9 DEF WriteTemp, Goto, NoFault
  <2> QED  BY <2>1 DEF QuietInv, Hopeful, Ended, Working, Requests
<1>24. CASE Replace
  <2>1. /\ pc = "replace" /\ pc' = "beat"
        /\ UNCHANGED <<up, timer, stop, quiet, baseUrl>>
    BY <1>24 DEF Replace, Goto, NoFault
  <2> QED  BY <2>1 DEF QuietInv, Hopeful, Ended, Working, Requests
<1>10. CASE PublishFails
  <2>1. pc' = "beat" /\ quiet' = 0
    BY <1>10 DEF PublishFails, Goto, Fault
  <2> QED  BY <2>1, QuietAfterFault DEF Ended
<1>11. CASE HeartbeatLands
  <2>1. pc' = "waiting" /\ quiet' = 0 /\ timer' = Delay
    BY <1>11 DEF HeartbeatLands, EndCycle, Goto
  <2> QED  BY <1>a, <2>1, QuietAfterFault DEF Ended
<1>12. CASE HeartbeatFails
  <2>1. /\ pc = "beat" /\ pc' = "waiting" /\ timer' = Delay /\ UNCHANGED <<up, stop>>
        /\ quiet' = 0 \/ (baseUrl \notin up /\ quiet' = quiet)
    BY <1>12 DEF HeartbeatFails, EndCycle, Goto, Fails, Fault, NoFault
  <2>2. CASE quiet' = 0
    BY <1>a, <2>1, <2>2, QuietAfterFault DEF Ended
  <2>3. CASE baseUrl \notin up /\ quiet' = quiet
    BY <1>a, <2>1, <2>3 DEF QuietInv, Hopeful, Ended, Working, Requests
  <2> QED  BY <2>1, <2>2, <2>3
<1>13. CASE EndWait
  <2>1. /\ (pc = "waiting" /\ timer = 0) \/ stop # None
        /\ pc' = "top" /\ UNCHANGED <<up, timer, stop, quiet>>
    BY <1>13 DEF EndWait, WaitOver, Goto, NoFault
  <2> QED  BY <1>13, <2>1 DEF EndWait, QuietInv, Ended, Working, Requests
<1>14. CASE LeaveLoop
  BY <1>14 DEF LeaveLoop, Goto, NoFault, QuietInv
<1>15. CASE Terminate
  <2>1. stop' = [left |-> StopGrace, working |-> pc \notin {"top", "waiting"}]
    BY <1>15 DEF Terminate
  <2>2. (pc \notin {"top", "waiting"}) \in BOOLEAN
    OBVIOUS
  <2>3. stop' \in [left : 0 .. StopGrace, working : BOOLEAN]
    BY <2>1, <2>2, AgentAssumption
  <2>4. stop' # None
    BY <2>3, Marks
  <2> QED  BY <1>15, <2>4 DEF Terminate, NoFault, QuietInv
<1>16. CASE ReportShutdown
  BY <1>16 DEF ReportShutdown, ServiceEnds, Goto, NoFault, QuietInv, Ended, Working, Requests
<1>17. CASE Kill
  BY <1>17 DEF Kill, ServiceEnds, Goto, NoFault, QuietInv, Ended, Working, Requests
<1>18. CASE Crash
  <2>1. pc' = "down" /\ quiet' = 0 /\ timer' = RestartSec
    BY <1>18 DEF Crash, ServiceEnds, Goto, Fault
  <2> QED  BY <2>1, QuietAfterFault DEF Ended
<1>19. CASE Restart
  BY <1>19 DEF Restart, Goto, NoFault, QuietInv, Ended, Working, Requests
<1>20. CASE HostChanges
  <2>1. quiet' = 0 /\ UNCHANGED <<pc, timer, stop>>
    BY <1>20 DEF HostChanges
  <2> QED  BY <2>1, Constants DEF QuietInv, Ended, Working, Requests
<1>21. CASE Tick
  <2>1. /\ UNCHANGED <<up, pc, tried, baseUrl>>
        /\ pc \in Requests => spent = 0
        /\ pc \notin {"top", "write", "replace"}
        /\ timer' = IF pc \in {"waiting", "down"} THEN timer - 1
                    ELSE IF pc \in Ended THEN timer ELSE timer + 1
        /\ quiet' = IF up = {} \/ stop # None THEN 0 ELSE quiet + 1
    BY <1>21 DEF Tick
  <2>2. stop = None => stop' = None
    BY <1>21 DEF Tick
  <2>3. stop # None => stop' # None
    BY <1>21, StopTicks
  <2>4. CASE up = {} \/ stop # None
    <3>1. quiet' = 0
      BY <2>1, <2>4
    <3>2. pc \in {"waiting", "down"} /\ stop = None => timer' <= Pause
      BY <2>1, <2>4 DEF QuietInv
    <3>3. pc \in Working => timer' \in Nat
      BY <2>1 DEF Working, Requests, Ended
    <3> QED  BY <2>1, <2>2, <2>3, <3>1, <3>2, <3>3 DEF QuietInv
  <2>5. CASE up # {} /\ stop = None
    <3>1. quiet' = quiet + 1 /\ stop' = None
      BY <2>1, <2>2, <2>5
    <3>2. CASE pc \in {"waiting", "down"}
      <4>1. timer' = timer - 1 /\ timer > 0
        BY <1>21, <2>1, <3>2 DEF Tick, WaitOver
      <4> QED  BY <2>1, <2>5, <3>1, <3>2, <4>1 DEF QuietInv, Working, Requests, Ended
    <3>3. CASE pc \in Working
      <4>1. timer' = timer + 1 /\ timer < MaxWork
        BY <2>1, <3>3, WorkBound DEF Working, Requests, Ended
      <4>2. Hopeful' <=> Hopeful
        BY <2>1 DEF Hopeful, LiveAhead
      <4> QED  BY <2>1, <2>5, <3>1, <3>3, <4>1, <4>2 DEF QuietInv, Working, Requests, Ended
    <3>4. pc \in {"waiting", "down"} \cup Working
      BY <2>1, <2>5 DEF WorkInv, Places, QuietInv, Working, Requests, Ended
    <3> QED  BY <3>2, <3>3, <3>4
  <2> QED  BY <2>4, <2>5
<1>22. CASE Reboot
  <2>1. pc' = "top" /\ quiet' = 0
    BY <1>22 DEF Reboot, Goto
  <2> QED  BY <2>1, QuietAfterFault DEF Ended
<1>23. CASE \E r \in Reader : Refresh(r)
  <2>1. UNCHANGED <<up, pc, timer, tried, baseUrl, stop, quiet>>
    BY <1>23 DEF Refresh, NoFault, probeVars
  <2> QED  BY <2>1 DEF QuietInv, Hopeful, LiveAhead
<1> QED
  BY <1>1, <1>2, <1>3, <1>4, <1>5, <1>6, <1>7, <1>8, <1>9, <1>10, <1>11, <1>12,
     <1>13, <1>14, <1>15, <1>16, <1>17, <1>18, <1>19, <1>20, <1>21, <1>22, <1>23, <1>24
     DEF Next, EnsureBackend, SyncClock, SendHeartbeat, Shutdown

\* While a host is up and nothing fails, the heartbeats of run() come before the
\* server takes the device for OFFLINE, if three intervals hold a pause and a cycle.
THEOREM HeartbeatsInTime == ASSUME IntervalFits PROVE Spec => []HeartbeatInTime
<1>1. Init => QuietInv
  BY Constants, AgentAssumption DEF Init, QuietInv, Pause, Larger, Ended, Working, Requests
<1>2. AgentInv /\ AgentInv' /\ QuietInv /\ [Next]_vars => QuietInv'
  <2>1. ASSUME AgentInv, AgentInv', QuietInv, Next PROVE QuietInv'
    BY <2>1, QuietStep DEF AgentInv
  <2>2. ASSUME QuietInv, UNCHANGED vars PROVE QuietInv'
    BY <2>2 DEF vars, probeVars, QuietInv, Hopeful, LiveAhead
  <2> QED  BY <2>1, <2>2
<1>3. AgentInv /\ QuietInv => HeartbeatInTime
  BY IntervalFits, Constants, AgentAssumption
     DEF AgentInv, OtherTypes, QuietInv, IntervalFits, HeartbeatInTime, Pause, Larger
<1> QED  BY AgentInvariant, <1>1, <1>2, <1>3, PTL DEF Spec

\* The constants of device_agent.py, clock.py and the unit, in timeouts of 5 seconds,
\* meet what the theorems assume: HEARTBEAT_SECONDS is 60, MAX_PUBLISHED_AGE 300,
\* RestartSec 10, and a probe takes up to ten samples.
LEMMA DeployedFits ==
  ASSUME Interval = 12, Samples = 10, MaxAge = 60, RestartSec = 2, Len(Listed) \in 0 .. 5
  PROVE  /\ IntervalFits
         /\ Larger(Interval, 2) + Tolerated * MaxCycle < MaxAge
<1>1. PICK hosts \in 0 .. 5 : hosts = Len(Listed)
  OBVIOUS
<1>2. MaxWork = 12 + hosts
  BY <1>1 DEF MaxWork
<1>3. MaxCycle = 13 + hosts
  BY <1>2 DEF MaxCycle, Larger
<1>4. Pause = MaxCycle
  BY <1>3 DEF Pause, Larger
<1> QED  BY <1>2, <1>3, <1>4 DEF IntervalFits, Larger, Tolerated

\* So a deployed agent is never taken for OFFLINE while a host is up and nothing fails,
\* for a networkList.txt of up to five hosts.
THEOREM DeployedHeartbeats ==
  ASSUME Interval = 12, Samples = 10, MaxAge = 60, RestartSec = 2, Len(Listed) \in 0 .. 5
  PROVE  Spec => []HeartbeatInTime
BY DeployedFits, HeartbeatsInTime

-----------------------------------------------------------------------------
(* The refinement.                                                         *)

serving == pc \notin {"down"} \cup Ended
register == IF file \in {None, Torn} THEN None
            ELSE IF file.thisBoot /\ file.age <= Limit THEN file.age ELSE None

registerVars == <<serving, register, trusted>>

\* The register, of a file as it is at any time.
LEMMA RegisterValue ==
  ASSUME FileInv
  PROVE  /\ file = None => register = None
         /\ file # None /\ file.thisBoot # TRUE => register = None
         /\ file # None /\ file.thisBoot = TRUE =>
              register = IF file.age <= Limit THEN file.age ELSE None
BY Marks DEF FileInv, Published, register

\* A Pi without clock.json has an empty register.
LEMMA RegisterInit == Init => Register!Init
<1> SUFFICES ASSUME Init PROVE Register!Init
  OBVIOUS
<1>1. (pc \notin {"down"} \cup Ended) = TRUE
  BY DEF Init, Ended
<1>2. register = None
  BY DEF Init, register
<1> QED  BY <1>1, <1>2 DEF Init, Register!Init, register

\* A refresh of a sensor is a read.
LEMMA ReadStep ==
  ASSUME FileInv, NEW r \in Reader, Refresh(r)
  PROVE  Register!Read(r)
<1> USE Constants, ClockAssumption DEF FileInv, Published
<1>1. UNCHANGED <<serving, register>>
  BY DEF Refresh, serving, register
<1>2. CASE Trusted(file)
  <2>1. register = file.age /\ register # None
    BY <1>2, RegisterValue, Marks DEF Trusted
  <2>2. trusted' = [trusted EXCEPT ![r] = register]
    BY <1>2, <2>1 DEF Refresh
  <2> QED  BY <1>1, <2>1, <2>2 DEF Register!Read, serving, register
<1>3. CASE ~Trusted(file)
  <2>1. register = None \/ register > MaxAge
    <3>1. CASE file = None \/ file.thisBoot # TRUE
      BY <3>1, RegisterValue
    <3>2. CASE file # None /\ file.thisBoot = TRUE
      <4>1. file.synced > MaxAge
        BY <1>3, <3>2, Marks DEF Trusted
      <4>2. file.age > MaxAge
        BY <3>2, <4>1
      <4> QED  BY <3>2, <4>2, RegisterValue
    <3> QED  BY <3>1, <3>2
  <2>2. trusted' = [trusted EXCEPT ![r] = None]
    BY <1>3 DEF Refresh
  <2> QED  BY <1>1, <2>1, <2>2 DEF Register!Read, serving, register
<1> QED  BY <1>2, <1>3

\* The rename is the write, of the whole measurement at once.
LEMMA WriteStep ==
  ASSUME TempInv, Replace
  PROVE  Register!Write
<1> USE Constants, ClockAssumption DEF TempInv, Published
<1>1. serving /\ UNCHANGED <<serving, trusted>>
  BY DEF Replace, readerVars, Goto, serving, Ended
<1>2. /\ file' \in Published /\ file'.thisBoot = TRUE /\ file' = temp
      /\ temp.age \in 0 .. MaxLag
  BY DEF Replace
<1>3. register' = temp.age
  BY <1>2, Marks DEF register
<1> QED  BY <1>1, <1>2, <1>3 DEF Register!Write, serving, register

\* Time passes for the file as for the register.
LEMMA PassStep ==
  ASSUME FileInv, ReaderInv, Tick
  PROVE  Register!Pass
<1> USE Constants, ClockAssumption DEF FileInv, Published
<1>1. UNCHANGED serving
  BY DEF Tick, serving
<1>2. \A r \in Reader : trusted[r] # None => trusted[r] < Limit + Gap
  <2> SUFFICES ASSUME NEW r \in Reader, trusted[r] # None PROVE trusted[r] < Limit + Gap
    OBVIOUS
  <2>1. due[r] > 0
    BY DEF Tick
  <2>2. PICK t \in Nat, d \in Nat : trusted[r] = t /\ due[r] = d /\ t + d <= Limit + Gap
    BY DEF ReaderInv
  <2>3. t < Limit + Gap
    BY <2>1, <2>2, AgentAssumption
  <2> QED  BY <2>2, <2>3
<1>3. trusted' = [r \in Reader |-> IF trusted[r] = None THEN None ELSE trusted[r] + 1]
  BY DEF Tick, Aged
<1>4. register' = IF register \in {None, Limit} THEN None ELSE register + 1
  <2>1. CASE file = None
    <3>1. file' = None
      BY <2>1 DEF Tick, AgedFile
    <3> QED  BY <2>1, <3>1 DEF register
  <2>2. CASE file # None
    <3>1. file' = [file EXCEPT !.age = Smaller(file.age + 1, Oldest),
                               !.synced = Smaller(file.synced + 1, MaxAge + 1)]
      BY <2>2, Marks DEF Tick, AgedFile
    <3>2. /\ Smaller(file.age + 1, Oldest) \in 0 .. Oldest
          /\ Smaller(file.synced + 1, MaxAge + 1) \in 0 .. MaxAge + 1
      BY <2>2 DEF Smaller
    <3>3. /\ file' \in Published /\ file'.thisBoot = file.thisBoot
          /\ file'.age = Smaller(file.age + 1, Oldest)
      BY <2>2, <3>1, <3>2
    <3>4. CASE file.thisBoot # TRUE
      <4>1. register = None
        BY <2>2, <3>4, RegisterValue
      <4>2. register' = None
        BY <3>3, <3>4, Marks DEF register
      <4> QED  BY <4>1, <4>2
    <3>5. CASE file.thisBoot = TRUE
      <4>1. register = IF file.age <= Limit THEN file.age ELSE None
        BY <2>2, <3>5, RegisterValue
      <4>2. register' = IF Smaller(file.age + 1, Oldest) <= Limit
                        THEN Smaller(file.age + 1, Oldest) ELSE None
        BY <3>3, <3>5, Marks DEF register
      <4>3. CASE file.age < Limit
        <5>1. Smaller(file.age + 1, Oldest) = file.age + 1
          BY <2>2, <4>3 DEF Smaller
        <5> QED  BY <2>2, <4>1, <4>2, <4>3, <5>1, Marks
      <4>4. CASE file.age >= Limit
        <5>1. Smaller(file.age + 1, Oldest) > Limit
          BY <2>2, <4>4 DEF Smaller
        <5>2. Smaller(file.age + 1, Oldest) \in Nat
          BY <3>2
        <5>3. register' = None
          BY <4>2, <5>1, <5>2
        <5>4. register \in {None, Limit}
          BY <2>2, <4>1, <4>4
        <5> QED  BY <5>3, <5>4
      <4> QED  BY <2>2, <4>3, <4>4
    <3> QED  BY <3>4, <3>5
  <2> QED  BY <2>1, <2>2
<1> QED  BY <1>1, <1>2, <1>3, <1>4 DEF Register!Pass, Register!Limit, Limit, serving, register

\* The runtime directory goes with the process, and the register with it.
LEMMA StopRegister ==
  ASSUME StopInv, Kill \/ ReportShutdown \/ Crash
  PROVE  Register!Stop
<1>1. /\ pc \notin {"down"} \cup Ended /\ pc' \in {"down"} \cup Ended
      /\ file' = None /\ trusted' = trusted
  BY DEF Kill, ReportShutdown, Crash, ServiceEnds, Goto, StopInv, readerVars, Ended
<1>2. register' = None
  BY <1>1 DEF register
<1> QED  BY <1>1, <1>2 DEF Register!Stop, register

\* After a power cut the register is empty, although the file may be there.
LEMMA RebootRegister ==
  ASSUME FileInv, Reboot
  PROVE  Register!Reboot
<1>1. pc' = "top" /\ trusted' = [r \in Reader |-> None]
  BY DEF Reboot, Goto
<1>2. register' = None
  <2>1. CASE file' = None
    BY <2>1 DEF register
  <2>2. CASE file' # None
    <3>1. file \in Published /\ file' = [file EXCEPT !.synced = 0, !.thisBoot = FALSE]
      BY <2>2 DEF Reboot, FileInv
    <3>2. file'.thisBoot = FALSE
      BY <3>1 DEF Published
    <3> QED  BY <3>2 DEF register
  <2> QED  BY <2>1, <2>2
<1> QED  BY <1>1, <1>2 DEF Register!Reboot, register, Ended

\* Every other step of the agent leaves the register alone.
LEMMA RegisterStep ==
  ASSUME AgentInv, [Next]_vars
  PROVE  [Register!Next]_registerVars
<1> USE DEF AgentInv
<1>1. CASE \/ BeginCycle \/ EnsureBackend \/ Sample \/ SampleFails \/ WriteTemp \/ PublishFails
           \/ SendHeartbeat \/ EndWait \/ Terminate \/ LeaveLoop \/ HostChanges
           \/ UNCHANGED vars
  <2>1. UNCHANGED <<file, trusted>>
    BY <1>1 DEF BeginCycle, EnsureBackend, KeepBackend, LoseBackend, FindBackend, NextHost,
                FindNothing, Sample, SampleFails, WriteTemp, WhileWriting, PublishFails,
                SendHeartbeat, HeartbeatLands, HeartbeatFails, EndWait, Terminate, LeaveLoop,
                HostChanges, readerVars, vars
  <2>2. \/ pc' = pc
        \/ pc \notin {"down"} \cup Ended /\ pc' \notin {"down"} \cup Ended
    BY <1>1 DEF BeginCycle, EnsureBackend, KeepBackend, LoseBackend, FindBackend, NextHost,
                FindNothing, Sample, SampleFails, AfterSample, WriteTemp, PublishFails,
                SendHeartbeat, HeartbeatLands, HeartbeatFails, EndCycle, EndWait, Terminate,
                LeaveLoop, HostChanges, Goto, Ended, vars
  <2>3. UNCHANGED serving
    BY <2>2 DEF serving
  <2>4. UNCHANGED register
    BY <2>1 DEF register
  <2> QED  BY <2>1, <2>3, <2>4 DEF registerVars
<1>2. CASE Replace
  BY <1>2, WriteStep DEF Register!Next
<1>3. CASE ReportShutdown \/ Kill \/ Crash
  BY <1>3, StopRegister DEF Register!Next
<1>4. CASE Restart
  <2>1. /\ pc = "down" /\ pc' = "top" /\ UNCHANGED <<file, trusted>>
    BY <1>4 DEF Restart, Goto, readerVars
  <2>2. UNCHANGED register
    BY <2>1 DEF register
  <2>3. Register!Start
    BY <2>1, <2>2 DEF Register!Start, register, Ended
  <2> QED  BY <2>3 DEF Register!Next
<1>5. CASE \E r \in Reader : Refresh(r)
  BY <1>5, ReadStep DEF Register!Next
<1>6. CASE Tick
  BY <1>6, PassStep DEF Register!Next
<1>7. CASE Reboot
  BY <1>7, RebootRegister DEF Register!Next
<1> QED
  BY <1>1, <1>2, <1>3, <1>4, <1>5, <1>6, <1>7 DEF Next, SyncClock, Shutdown

\* publish() and load_published() implement the register of ClockRegister: what a
\* sensor trusts is a whole measurement of this boot, of a bounded age.
THEOREM ImplementsRegister == Spec => RegisterSpec
<1>1. Init => Register!Init
  BY RegisterInit
<1>2. AgentInv /\ [Next]_vars => [Register!Next]_registerVars
  BY RegisterStep
<1> QED
  BY AgentInvariant, <1>1, <1>2, PTL
     DEF Spec, RegisterSpec, Register!Spec, registerVars, serving, register

=============================================================================
