----------------------------- MODULE ClientLoop -----------------------------
(***************************************************************************)
(* BackendClient._run() of pi_common/client.py: when a maintenance cycle   *)
(* and an upload cycle take place.  One thread serves two due-times, so a  *)
(* long cycle of one kind delays the other.  What the cycles do is in      *)
(* BackendClient; here each takes some time, a maintenance cycle ends with *)
(* or without a backend, and an upload drains what its capacity allows.    *)
(*                                                                         *)
(* The unit of time is the shortest sampling period: the cache grows by at *)
(* most a row per unit.  A due-time is kept as the time left until it.     *)
(***************************************************************************)
EXTENDS Integers

CONSTANTS
  Maintenance,      \* maintenance_seconds
  Reconnect,        \* reconnect_seconds
  MinSend, MaxSend, \* MIN_SEND_SECONDS, MAX_SEND_SECONDS
  SendIntervals,    \* the values of sendSeconds the backend may send
  MaxDiscovery,     \* the longest maintenance cycle: its requests time out
  MaxFlush,         \* the longest upload cycle: its requests time out
  Capacity,         \* batch_size * max_batches_per_cycle
  MaxBacklog,       \* bound: more waiting rows are no matter
  MaxFailures       \* bound: more failures in a row are no matter

ASSUME LoopAssumption ==
  /\ Reconnect \in Nat \ {0} /\ Maintenance \in Nat /\ Reconnect <= Maintenance
  /\ MinSend \in Nat \ {0} /\ MaxSend \in Nat /\ MinSend <= MaxSend
  /\ SendIntervals \subseteq Nat /\ SendIntervals # {}
  /\ MaxDiscovery \in Nat /\ MaxFlush \in Nat
  /\ MaxBacklog \in Nat /\ MaxFailures \in Nat \ {0}

\* client.py: "3600 keeps every legal combination inside the drain capacity,
\* with margin."  The margin has to hold a late and a long cycle.
ASSUME MarginAssumption ==
  /\ Capacity \in Nat /\ Capacity <= MaxBacklog
  /\ MaxSend + MaxDiscovery + MaxFlush <= Capacity

\* The powers of two.
TwoToThe[n \in Nat] == IF n = 0 THEN 1 ELSE 2 * TwoToThe[n - 1]

\* After so many failures in a row the delay of a retry has reached its cap.
ASSUME BackoffAssumption == Maintenance <= Reconnect * TwoToThe[MaxFailures - 1]

VARIABLES
  pc,               \* where the thread is
  spent,            \* time the cycle in progress has taken
  toMaintenance,    \* next_maintenance - now
  toUpload,         \* next_upload - now
  uploadDue,        \* now >= next_upload, with the `now` of the top of the loop
  retryDelay,       \* _retry_delay
  sendSeconds,      \* _send_seconds
  connected,        \* base_url is not None
  backlog,          \* rows waiting in the cache
  keptUp,           \* history: the last upload left no more than came in meanwhile
  failures,         \* history: maintenance cycles without a backend, in a row
  delay             \* history: the delay the latest maintenance cycle asked for

dueVars  == <<toMaintenance, toUpload>>
syncVars == <<retryDelay, sendSeconds, connected, failures, delay>>
rowVars  == <<backlog, keptUp>>
vars == <<pc, spent, dueVars, uploadDue, syncVars, rowVars>>

Smaller(a, b) == IF a <= b THEN a ELSE b
Larger(a, b)  == IF a >= b THEN a ELSE b

-----------------------------------------------------------------------------
\* Mutated form: the interval of the backend has no ceiling.
SendDelayUncapped == Larger(sendSeconds, MinSend)

\* Mutated form: it has no floor.
SendDelayNoFloor == Smaller(sendSeconds, MaxSend)

\* _send_delay()
SendDelay == Smaller(Larger(sendSeconds, MinSend), MaxSend)

\* Mutated form: the backoff outlives the outage.
NextRetryDelayKept(found) ==
  IF found THEN retryDelay ELSE Smaller(retryDelay * 2, Maintenance)

\* Mutated form: the backoff has no cap.
NextRetryDelayUncapped(found) == IF found THEN Reconnect ELSE retryDelay * 2

\* _cycle_delay(): the delay, and what it makes of _retry_delay.
CycleDelay(found) == IF found THEN Maintenance ELSE retryDelay

\* _retry_delay for the cycle after this one.
NextRetryDelay(found) ==
  IF found THEN Reconnect ELSE Smaller(retryDelay * 2, Maintenance)

\* Mutated form: the later of the two.
TimeToWakeLate == Larger(toMaintenance, toUpload)

\* The thread sleeps until the earlier of the two due-times.
TimeToWake == Smaller(toMaintenance, toUpload)

\* The top of the loop.
Look ==
  /\ pc = "top"
  /\ uploadDue' = (toUpload <= 0)
  /\ pc' = IF toMaintenance <= 0 THEN "maintaining" ELSE "between"
  /\ spent' = 0
  /\ UNCHANGED <<dueVars, syncVars, rowVars>>

\* run_maintenance() returns or raises.  A poll that gets through may have
\* brought a new send interval.
EndMaintenance ==
  /\ pc = "maintaining"
  /\ \E found \in BOOLEAN :
       /\ connected' = found
       /\ \/ UNCHANGED sendSeconds
          \/ found /\ sendSeconds' \in SendIntervals
       /\ delay' = CycleDelay(found)
       /\ retryDelay' = NextRetryDelay(found)
       /\ failures' = IF found THEN 0 ELSE Smaller(failures + 1, MaxFailures)
  /\ toMaintenance' = delay'
  /\ pc' = "between"
  /\ UNCHANGED <<spent, toUpload, uploadDue, rowVars>>

\* Whether an upload is due is judged by the time read before the maintenance.
LookAgain ==
  /\ pc = "between"
  /\ pc' = IF uploadDue THEN "uploading" ELSE "waiting"
  /\ spent' = 0
  /\ UNCHANGED <<dueVars, uploadDue, syncVars, rowVars>>

\* run_upload() returns or raises: every batch is answered, up to the last
\* but some rows that came in meanwhile; or it breaks off somewhere.
EndUpload ==
  /\ pc = "uploading"
  /\ \/ /\ connected
        /\ \E late \in 0 .. Smaller(spent, backlog) :
             backlog' = backlog - Smaller(backlog - late, Capacity)
        /\ keptUp' = (backlog' <= spent)
     \/ /\ \E sent \in 0 .. Smaller(backlog, Capacity) : backlog' = backlog - sent
        /\ keptUp' = FALSE
  /\ toUpload' = SendDelay
  /\ pc' = "waiting"
  /\ spent' = 0
  /\ UNCHANGED <<toMaintenance, uploadDue, syncVars>>

EndWait ==
  /\ pc = "waiting"
  /\ TimeToWake <= 0
  /\ pc' = "top"
  /\ UNCHANGED <<spent, dueVars, uploadDue, syncVars, rowVars>>

\* stop() ends the wait, or the loop after the cycle in progress.
Stop ==
  /\ pc \in {"top", "waiting"}
  /\ pc' = "stopped"
  /\ UNCHANGED <<spent, dueVars, uploadDue, syncVars, rowVars>>

\* Time passes in a cycle, at most as long as its timeouts allow, or in the
\* wait.  A client without a backend uploads nothing.
Advance ==
  /\ \/ pc = "maintaining" /\ spent < MaxDiscovery
     \/ pc = "uploading" /\ connected /\ spent < MaxFlush
     \/ pc = "waiting" /\ TimeToWake > 0
  /\ spent' = IF pc = "waiting" THEN 0 ELSE spent + 1
  /\ toMaintenance' = toMaintenance - 1
  /\ toUpload' = toUpload - 1
  /\ backlog' = Smaller(backlog + 1, MaxBacklog)
  /\ UNCHANGED <<pc, uploadDue, syncVars, keptUp>>

\* Both cycles are due at once.
Init ==
  /\ pc = "top" /\ spent = 0
  /\ toMaintenance = 0 /\ toUpload = 0 /\ uploadDue = FALSE
  /\ retryDelay = Reconnect
  /\ sendSeconds \in SendIntervals
  /\ connected = FALSE
  /\ backlog = 0 /\ keptUp = TRUE
  /\ failures = 0 /\ delay = 0

Step == Look \/ EndMaintenance \/ LookAgain \/ EndUpload \/ EndWait \/ Advance

Next == Step \/ Stop

\* Time passes, and every request is answered or times out.
Spec == Init /\ [][Next]_vars /\ WF_vars(Step)

-----------------------------------------------------------------------------
(* Properties.                                                             *)

\* The type invariant.
TypeOK ==
  /\ pc \in {"top", "maintaining", "between", "uploading", "waiting", "stopped"}
  /\ spent \in Nat
  /\ toMaintenance \in Int /\ toUpload \in Int
  /\ uploadDue \in BOOLEAN
  /\ retryDelay \in Reconnect .. Maintenance
  /\ sendSeconds \in SendIntervals
  /\ connected \in BOOLEAN
  /\ backlog \in 0 .. MaxBacklog /\ keptUp \in BOOLEAN
  /\ failures \in 0 .. MaxFailures
  /\ delay \in Nat

\* A maintenance cycle starts no later than one upload after it is due: a
\* backlog that keeps every upload at its timeouts cannot starve the sync, the
\* schedule poll or the search for a backend.
MaintenancePunctual ==
  pc \notin {"maintaining", "stopped"} => toMaintenance + MaxFlush >= 0

\* An upload starts no later than one maintenance cycle after it is due, also
\* when it comes due during that cycle and the iteration overlooks it, and
\* also when discovery takes longer than the retry delay.
UploadPunctual ==
  pc \notin {"uploading", "stopped"} => toUpload + MaxDiscovery >= 0

\* The n-th retry of an outage waits Reconnect * 2^(n-1), capped by the normal
\* cycle, whatever outages came before.
BackoffDoubles ==
  failures > 0 => delay = Smaller(Reconnect * TwoToThe[failures - 1], Maintenance)

\* At the shortest sampling period and whatever interval the backend asks
\* for, an upload finds no more rows than it can drain, if the one before it
\* got its answers: the backlog of a connected Pi does not grow.
KeepsUp == pc = "uploading" /\ spent = 0 /\ keptUp => backlog <= Capacity

\* Maintenance and uploads go on as long as the client does, whatever interval
\* the backend asks for; BackendClient takes this for granted.
GoesOn ==
  /\ []<>(pc \in {"maintaining", "stopped"})
  /\ []<>(pc \in {"uploading", "stopped"})

=============================================================================
