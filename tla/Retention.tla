------------------------------ MODULE Retention ------------------------------
(***************************************************************************)
(* How long a reading stays in the cache: the retention a sensor reads     *)
(* from its config file, run_upload() and _retire() of client.py, and      *)
(* mark_uploaded_many(), delete_many() and cleanup() of cache.py, on the   *)
(* table that the sensors of a Pi share.  What a flush sends, and when, is *)
(* in BackendClient; here the backend acknowledges some oldest rows of it. *)
(*                                                                         *)
(* cleanup() compares two clocks: the cutoff is taken from the system      *)
(* clock, a row's time from the corrected clock once there is one.  Time   *)
(* is counted in days; a row keeps its age, and how far its datetime is    *)
(* from the truth.                                                         *)
(***************************************************************************)
EXTENDS SensorCache, SensorConfig

CONSTANTS
  Process,     \* the sensor processes; each has its own source
  StreamOf,    \* the stream of each
  FileOf,      \* the config files a process may start with, by name
  Errors,      \* how far the system clock of a boot may be from the truth
  None,        \* the source of a row from before sourceKey
  MaxRows,     \* bound on the rows
  Oldest,      \* bound: an age beyond this is no matter
  MaxFaults    \* bound on the exits, boots and failed cleanups

Files == DOMAIN FileOf

ASSUME RetentionAssumption ==
  /\ Files # {}
  /\ \A f \in Files : /\ Accepted(FileOf[f])
                      /\ \A k \in DOMAIN FileOf[f] : FileOf[f][k].value \in Int \cup {Typo, Empty}
  /\ Errors \subseteq Int /\ None \notin Process
  /\ MaxRows \in Nat \ {0} /\ Oldest \in Nat /\ MaxFaults \in Nat

VARIABLES
  log,       \* SensorLog
  config,    \* the file each process has read
  wrong,     \* system clock minus true time
  pc,        \* where each upload cycle is
  uploaded,  \* the rows of the batch that got a 200
  acked,     \* history: the rows acknowledged; TRUE for those of this day
  saved,     \* rows saved so far
  faults     \* faults so far

vars == <<log, config, wrong, pc, uploaded, acked, saved, faults>>

Goto(p, where) == pc' = [pc EXCEPT ![p] = where]
Fault == faults < MaxFaults /\ faults' = faults + 1

Days(p) == CleanupDays(FileOf[config[p]])

-----------------------------------------------------------------------------
\* save_reading(), with the true time, or the system's before there is one.
Save(p, synced) ==
  /\ saved < MaxRows
  /\ saved' = saved + 1
  /\ log' = SaveReading(log, saved',
       [stream |-> StreamOf[p], source |-> p, uploaded |-> FALSE, bootID |-> TRUE, age |-> 0,
        error |-> IF synced THEN 0 ELSE wrong,
        timeConfidence |-> IF synced THEN "SYNCED" ELSE "ESTIMATED"])
  /\ UNCHANGED <<config, wrong, pc, uploaded, acked, faults>>

\* The first sync of a process corrects what is unsent of this boot (when that
\* is, see ReadingTime).
Correct(p) ==
  /\ pc[p] = "idle"
  /\ log' = CorrectRows(log, [i \in Correctable(log, TRUE) |-> 0])
  /\ UNCHANGED <<config, wrong, pc, uploaded, acked, saved, faults>>

\* flush(): a batch is offered, and the backend acknowledges the oldest rows
\* of it, or none.
Send(p) ==
  /\ pc[p] = "idle"
  /\ LET offered == GetUnsent(log, StreamOf[p], p, MaxRows)
     IN  \E got \in {{i \in offered : i < n} : n \in 1 .. MaxRows + 1} :
           /\ uploaded' = [uploaded EXCEPT ![p] = got]
           /\ acked' = [i \in DOMAIN acked \cup got |-> i \in got \/ acked[i]]
  /\ Goto(p, "retire")
  /\ UNCHANGED <<log, config, wrong, saved, faults>>

\* Mutated form: every row offered is retired.
FinishedOffered(p) == GetUnsent(log, StreamOf[p], p, MaxRows)

\* The rows _retire() is called with.
Finished(p) == uploaded[p]

\* _retire(), a transaction of its own.
Retire(p) ==
  /\ pc[p] = "retire"
  /\ log' = IF Days(p) = 0 THEN DeleteMany(log, Finished(p))
            ELSE MarkUploadedMany(log, Finished(p))
  /\ uploaded' = [uploaded EXCEPT ![p] = {}]
  /\ Goto(p, "cleanup")
  /\ UNCHANGED <<config, wrong, acked, saved, faults>>

\* The rows whose datetime is before the cutoff.
BeforeCutoff(p) == {i \in DOMAIN log : log[i].age > Days(p) + log[i].error - wrong}

\* Mutated form: like the drain, the sweep is confined to the own source.
SweptOwn(p) ==
  Restrict(log, DOMAIN log \ {i \in BeforeCutoff(p) : log[i].uploaded /\ log[i].source = p})

Swept(p) == Cleanup(log, StreamOf[p], BeforeCutoff(p))

\* cleanup(), or the exception it ends with, which is only logged.
Sweep(p) ==
  /\ pc[p] = "cleanup"
  /\ \/ log' = Swept(p) /\ UNCHANGED faults
     \/ Fault /\ UNCHANGED log
  /\ Goto(p, "idle")
  /\ UNCHANGED <<config, wrong, uploaded, acked, saved>>

-----------------------------------------------------------------------------
\* A process ends anywhere; it starts again, its file perhaps edited.
Exit(p) ==
  /\ Fault
  /\ \E f \in Files : config' = [config EXCEPT ![p] = f]
  /\ uploaded' = [uploaded EXCEPT ![p] = {}]
  /\ Goto(p, "idle")
  /\ UNCHANGED <<log, wrong, acked, saved>>

\* A power cut; the clock comes up with an error of its own.
Boot ==
  /\ Fault
  /\ wrong' \in Errors
  /\ log' = [i \in DOMAIN log |-> [log[i] EXCEPT !.bootID = FALSE]]
  /\ uploaded' = [p \in Process |-> {}]
  /\ pc' = [p \in Process |-> "idle"]
  /\ UNCHANGED <<config, acked, saved>>

Day ==
  /\ log' = [i \in DOMAIN log |-> [log[i] EXCEPT !.age = IF @ < Oldest THEN @ + 1 ELSE @]]
  /\ acked' = [i \in DOMAIN acked |-> FALSE]
  /\ UNCHANGED <<config, wrong, pc, uploaded, saved, faults>>

\* The cache holds an old row that _migrate() has retired.
Init ==
  /\ config \in [Process -> Files]
  /\ wrong \in Errors
  /\ \E p \in Process :
       log = [i \in {1} |-> [stream |-> StreamOf[p], source |-> None, uploaded |-> TRUE,
                             bootID |-> FALSE, age |-> Oldest, error |-> 0,
                             timeConfidence |-> "ESTIMATED"]]
  /\ pc = [p \in Process |-> "idle"]
  /\ uploaded = [p \in Process |-> {}]
  /\ acked = [i \in {} |-> FALSE]
  /\ saved = 1
  /\ faults = 0

Upload(p) == Send(p) \/ Retire(p) \/ Sweep(p)

Next ==
  \/ \E p \in Process : (\E synced \in BOOLEAN : Save(p, synced)) \/ Correct(p) \/ Upload(p) \/ Exit(p)
  \/ Boot \/ Day

\* The upload cycles take place and the days pass.
Spec == Init /\ [][Next]_vars /\ WF_vars(Day) /\ \A p \in Process : WF_vars(Upload(p))

-----------------------------------------------------------------------------
(* Properties.                                                             *)

Row == [stream : {StreamOf[p] : p \in Process}, source : Process \cup {None},
        uploaded : BOOLEAN, bootID : BOOLEAN, age : 0 .. Oldest, error : Errors \cup {0},
        timeConfidence : {"SYNCED", "ESTIMATED", "CORRECTED"}]

\* The type invariant; whatever a file says, a retention is not negative.
TypeOK ==
  /\ \A p \in Process : Days(p) \in Nat
  /\ DOMAIN log \subseteq 1 .. saved /\ \A i \in DOMAIN log : log[i] \in Row
  /\ config \in [Process -> Files]
  /\ wrong \in Errors
  /\ pc \in [Process -> {"idle", "retire", "cleanup"}]
  /\ uploaded \in [Process -> SUBSET (1 .. saved)]
  /\ DOMAIN acked \subseteq 1 .. saved /\ \A i \in DOMAIN acked : acked[i] \in BOOLEAN
  /\ saved \in 1 .. MaxRows /\ faults \in 0 .. MaxFaults

\* The rows that leave the cache in a step.
Leaving == DOMAIN log \ DOMAIN log'

\* Nothing leaves the cache unacknowledged, but what a migration has retired:
\* not at an exit between the answer and _retire(), and not by the sweep of
\* another process.
OnlyAckedLeave == [][\A i \in Leaving : i \in DOMAIN acked \/ log[i].source = None]_vars

\* The shortest retention that the files of a stream ask for.
AskedFor(stream) ==
  {DaysAsked(FileOf[config[p]]) : p \in {q \in Process : StreamOf[q] = stream}}

\* A reading with a true time stays as long as every sensor of its stream asks
\* for, whatever its file looks like, unless the system clock is ahead.
YoungStay ==
  [][\A i \in Leaving :
       log[i].error = 0 /\ wrong <= 0 => \E d \in AskedFor(log[i].stream) : log[i].age >= d]_vars

\* Every uploaded row is collected some day, whoever wrote it, also one that
\* has no source, and although a process may have been set to another
\* retention since.
Collected ==
  \A i \in 1 .. MaxRows : i \in DOMAIN log /\ log[i].uploaded ~> i \notin DOMAIN log

\* config.py: "Days to keep a reading in the local cache AFTER the backend has
\* acknowledged it."  That is not the day of the acknowledgement itself, if no
\* file asks for 0.
KeptAfterAck ==
  [][\A i \in Leaving \cap DOMAIN acked :
       acked[i] => 0 \in AskedFor(log[i].stream)]_vars

=============================================================================
