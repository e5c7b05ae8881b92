--------------------------- MODULE BackendClient ---------------------------
(***************************************************************************)
(* pi_common/client.py: the background thread of every sensor process on   *)
(* one Pi, with the cache the processes share and the backends they talk   *)
(* to.  A maintenance cycle discovers a backend and registers the sensor;  *)
(* an upload cycle drains the cache in batches and collects old rows.      *)
(* When each cycle is due is the subject of ClientLoop; clock              *)
(* synchronisation and the schedule poll, the other half of a maintenance  *)
(* cycle, touch nothing of this module's state and belong to ReadingTime   *)
(* and TickScheduler.                                                      *)
(*                                                                         *)
(* Every HTTP request is a step of its own and has three outcomes: the     *)
(* backend acts and the answer arrives; it acts and the answer is lost;    *)
(* it does not act.  The last two happen whenever the backend is down and, *)
(* at most MaxFaults times in a behaviour, when it is up.  A process may   *)
(* die between any two steps.                                              *)
(***************************************************************************)
EXTENDS Integers, FiniteSets, Sequences, SensorCache

CONSTANTS
  Sensor,          \* sensor processes, identified by their source key
  StreamOf,        \* the stream of each sensor: DHT or C5A
  Backend,         \* the hosts of networkList.txt that run a backend
  Rank,            \* the position of each backend in networkList.txt
  BatchRoute,      \* the backends that offer /api/sensorLogBatch
  ZeroRetention,   \* the sensors configured with cleanup_days = 0
  BatchSize,       \* rows per request
  MaxBatches,      \* batches per upload cycle
  MaxReadings,     \* bound on the readings taken in a behaviour
  MaxFaults,       \* bound on crashes, lost answers and failed requests
  NoBackend        \* no backend known

ASSUME ClientAssumption ==
  /\ IsFiniteSet(Sensor)
  /\ BatchRoute \subseteq Backend
  /\ Rank \in [Backend -> Nat]
  /\ \A b, c \in Backend : Rank[b] = Rank[c] => b = c
  /\ ZeroRetention \subseteq Sensor
  /\ BatchSize \in Nat \ {0}
  /\ MaxBatches \in Nat \ {0}
  /\ MaxReadings \in Nat
  /\ MaxFaults \in Nat
  /\ NoBackend \notin Backend

VARIABLES
  cache,       \* SensorLog, on disk: survives every process
  taken,       \* history: the sensor of each logID ever inserted
  phase,       \* where each background thread is
  baseUrl,     \* _base_url
  sensorID,    \* _sensor_id, NoSensorID before registration
  batchOK,     \* _batch_supported
  batch,       \* logIDs of the rows being uploaded
  acked,       \* logIDs of the batch that were answered with 200
  round,       \* batches completed in this upload cycle
  up,          \* whether each backend can be reached
  registry,    \* each backend's Sensor table: sensorID -> sensor
  stored,      \* each backend's SensorLog: <<sensor of the ID, reading>>
  faults       \* faults so far

threadVars == <<phase, baseUrl, sensorID, batchOK, batch, acked, round>>
cacheVars  == <<cache, taken>>
serverVars == <<registry, stored>>
vars == <<threadVars, cacheVars, up, serverVars, faults>>

NoSensorID == 0

Phase == {"discover", "register", "idle", "read", "send", "retire", "cleanup", "down"}

-----------------------------------------------------------------------------
(* The backends, as the client's requests see them (external).             *)

Fault == faults < MaxFaults /\ faults' = faults + 1

\* The request of sensor s raised or was answered with an error, and the
\* backend did nothing.
RequestFails(s) ==
  \/ ~up[baseUrl[s]] /\ UNCHANGED faults
  \/ Fault

\* sensorIDs are handed out in registration order, per database.
Registered(b) == {registry[b][n] : n \in DOMAIN registry[b]}

\* POST /api/registerSensor: find the sensor by identity, or create it.
WithSensor(b, s) == IF s \in Registered(b) THEN registry[b] ELSE Append(registry[b], s)

\* The client's sensorID exists in the database it is uploading to; a row
\* with any other ID violates fk_sensorlog_sensor.
IDKnown(s) == sensorID[s] \in DOMAIN registry[baseUrl[s]]

\* The rows a backend holds after inserting `ids` under the client's
\* sensorID.  UNIQUE (sensorID, datetime) makes an insert idempotent.
StoredAfter(s, ids) ==
  LET b == baseUrl[s]
      owner == registry[b][sensorID[s]]
  IN  [stored EXCEPT ![b] = @ \cup {<<owner, i>> : i \in ids}]

-----------------------------------------------------------------------------
(* Sampling thread.                                                        *)

\* cache.save_reading(): a reading is recorded before any network call.
Record(s) ==
  /\ phase[s] # "down"
  /\ Len(taken) < MaxReadings
  /\ taken' = Append(taken, s)
  /\ cache' = SaveReading(cache, Len(taken'),
                [stream |-> StreamOf[s], source |-> s, uploaded |-> FALSE])
  /\ UNCHANGED <<threadVars, up, serverVars, faults>>

-----------------------------------------------------------------------------
(* Maintenance cycle.                                                      *)

\* _probe_current_backend(), then network_search(): keep the backend in use
\* while it answers, otherwise take the first of the list that does.
Picks(s, answering, b) ==
  \/ b = baseUrl[s] /\ b \in answering
  \/ /\ baseUrl[s] \notin answering
     /\ \/ b = NoBackend /\ answering = {}
        \/ b \in answering /\ \A c \in answering : Rank[b] <= Rank[c]

\* discover_backend().  A backend that is up may still miss its probe.
Discover(s) ==
  LET reachable == {b \in Backend : up[b]} IN
  /\ phase[s] = "discover"
  /\ \E answering \in SUBSET reachable, b \in Backend \cup {NoBackend} :
       /\ IF answering = reachable THEN UNCHANGED faults ELSE Fault
       /\ Picks(s, answering, b)
       /\ baseUrl' = [baseUrl EXCEPT ![s] = b]
  /\ phase' = [phase EXCEPT ![s] = "register"]
  /\ UNCHANGED <<sensorID, batchOK, batch, acked, round, cacheVars, up, serverVars>>

\* register_sensor_if_needed() has nothing to do without a backend, and
\* nothing more to do once any backend has given this process an ID.
NeedsRegistration(s) == baseUrl[s] # NoBackend /\ sensorID[s] = NoSensorID

SkipRegister(s) ==
  /\ phase[s] = "register"
  /\ ~NeedsRegistration(s)
  /\ phase' = [phase EXCEPT ![s] = "idle"]
  /\ UNCHANGED <<baseUrl, sensorID, batchOK, batch, acked, round, cacheVars, up, serverVars, faults>>

\* The backend registers the sensor; with `answered` the ID reaches the client.
Register(s, answered) ==
  LET b == baseUrl[s]
      table == WithSensor(b, s)
  IN
  /\ phase[s] = "register"
  /\ NeedsRegistration(s)
  /\ up[b]
  /\ IF answered THEN UNCHANGED faults ELSE Fault
  /\ registry' = [registry EXCEPT ![b] = table]
  /\ sensorID' = IF answered
                 THEN [sensorID EXCEPT ![s] = CHOOSE n \in DOMAIN table : table[n] = s]
                 ELSE sensorID
  /\ phase' = [phase EXCEPT ![s] = "idle"]
  /\ UNCHANGED <<baseUrl, batchOK, batch, acked, round, cacheVars, up, stored>>

RegisterFails(s) ==
  /\ phase[s] = "register"
  /\ NeedsRegistration(s)
  /\ RequestFails(s)
  /\ phase' = [phase EXCEPT ![s] = "idle"]
  /\ UNCHANGED <<baseUrl, sensorID, batchOK, batch, acked, round, cacheVars, up, serverVars>>

BeginMaintenance(s) ==
  /\ phase[s] = "idle"
  /\ phase' = [phase EXCEPT ![s] = "discover"]
  /\ UNCHANGED <<baseUrl, sensorID, batchOK, batch, acked, round, cacheVars, up, serverVars, faults>>

-----------------------------------------------------------------------------
(* Upload cycle.                                                           *)

BeginUpload(s) ==
  /\ phase[s] = "idle"
  /\ phase' = [phase EXCEPT ![s] = "read"]
  /\ round' = [round EXCEPT ![s] = 0]
  /\ UNCHANGED <<baseUrl, sensorID, batchOK, batch, acked, cacheVars, up, serverVars, faults>>

\* The thread leaves flush(); cleanup comes next.
LeaveFlush(s) ==
  /\ phase' = [phase EXCEPT ![s] = "cleanup"]
  /\ batch' = [batch EXCEPT ![s] = {}]
  /\ acked' = [acked EXCEPT ![s] = {}]

\* Mutated form: a client that has met an older backend never uploads again.
CanUploadBatch(s) == baseUrl[s] # NoBackend /\ sensorID[s] # NoSensorID /\ batchOK[s]

\* flush() needs a backend and an ID.
CanUpload(s) == baseUrl[s] # NoBackend /\ sensorID[s] # NoSensorID

NextRows(s) == GetUnsent(cache, StreamOf[s], s, BatchSize)

\* flush() returns: not registered, nothing to send, or the read failed.
FlushNothing(s) ==
  /\ phase[s] = "read"
  /\ \/ (~CanUpload(s) \/ NextRows(s) = {}) /\ UNCHANGED faults
     \/ CanUpload(s) /\ Fault
  /\ LeaveFlush(s)
  /\ UNCHANGED <<baseUrl, sensorID, batchOK, round, cacheVars, up, serverVars>>

ReadBatch(s) ==
  /\ phase[s] = "read"
  /\ CanUpload(s)
  /\ NextRows(s) # {}
  /\ batch' = [batch EXCEPT ![s] = NextRows(s)]
  /\ acked' = [acked EXCEPT ![s] = {}]
  /\ phase' = [phase EXCEPT ![s] = "send"]
  /\ UNCHANGED <<baseUrl, sensorID, batchOK, round, cacheVars, up, serverVars, faults>>

\* _send_batch(), answered with 200.
SendBatch(s) ==
  /\ phase[s] = "send"
  /\ batchOK[s]
  /\ up[baseUrl[s]]
  /\ baseUrl[s] \in BatchRoute
  /\ IDKnown(s)
  /\ stored' = StoredAfter(s, batch[s])
  /\ acked' = [acked EXCEPT ![s] = batch[s]]
  /\ phase' = [phase EXCEPT ![s] = "retire"]
  /\ UNCHANGED <<baseUrl, sensorID, batchOK, batch, round, cacheVars, up, registry, faults>>

\* The backend stores the batch but its answer never arrives.
SendBatchUnanswered(s) ==
  /\ phase[s] = "send"
  /\ batchOK[s]
  /\ up[baseUrl[s]]
  /\ baseUrl[s] \in BatchRoute
  /\ IDKnown(s)
  /\ Fault
  /\ stored' = StoredAfter(s, batch[s])
  /\ LeaveFlush(s)
  /\ UNCHANGED <<baseUrl, sensorID, batchOK, round, cacheVars, up, registry>>

\* 404: an older backend.  Single-row uploads from the next cycle on.
SendBatchMissing(s) ==
  /\ phase[s] = "send"
  /\ batchOK[s]
  /\ up[baseUrl[s]]
  /\ baseUrl[s] \notin BatchRoute
  /\ batchOK' = [batchOK EXCEPT ![s] = FALSE]
  /\ LeaveFlush(s)
  /\ UNCHANGED <<baseUrl, sensorID, round, cacheVars, up, serverVars, faults>>

\* No answer, a foreign key violation, or another non-200 status.
SendBatchFails(s) ==
  /\ phase[s] = "send"
  /\ batchOK[s]
  /\ \/ RequestFails(s)
     \/ /\ up[baseUrl[s]]
        /\ baseUrl[s] \in BatchRoute
        /\ ~IDKnown(s)
        /\ UNCHANGED faults
  /\ LeaveFlush(s)
  /\ UNCHANGED <<baseUrl, sensorID, batchOK, round, cacheVars, up, serverVars>>

\* Mutated form: the rows are sent newest first.
IsNextRowNewest(s, r) ==
  /\ r \in batch[s] \ acked[s]
  /\ \A other \in batch[s] \ acked[s] : r >= other

\* _send_one_by_one(): the oldest row not yet answered.
IsNextRow(s, r) ==
  /\ r \in batch[s] \ acked[s]
  /\ \A other \in batch[s] \ acked[s] : r <= other

SendOne(s, r) ==
  /\ phase[s] = "send"
  /\ ~batchOK[s]
  /\ up[baseUrl[s]]
  /\ IDKnown(s)
  /\ IsNextRow(s, r)
  /\ stored' = StoredAfter(s, {r})
  /\ acked' = [acked EXCEPT ![s] = @ \cup {r}]
  /\ phase' = [phase EXCEPT ![s] = IF acked'[s] = batch[s] THEN "retire" ELSE "send"]
  /\ UNCHANGED <<baseUrl, sensorID, batchOK, batch, round, cacheVars, up, registry, faults>>

SendOneUnanswered(s, r) ==
  /\ phase[s] = "send"
  /\ ~batchOK[s]
  /\ up[baseUrl[s]]
  /\ IDKnown(s)
  /\ Fault
  /\ IsNextRow(s, r)
  /\ stored' = StoredAfter(s, {r})
  /\ phase' = [phase EXCEPT ![s] = "retire"]
  /\ UNCHANGED <<baseUrl, sensorID, batchOK, batch, acked, round, cacheVars, up, registry>>

\* The loop breaks at the first row that fails; what was answered is retired.
SendOneFails(s) ==
  /\ phase[s] = "send"
  /\ ~batchOK[s]
  /\ \/ RequestFails(s)
     \/ up[baseUrl[s]] /\ ~IDKnown(s) /\ UNCHANGED faults
  /\ phase' = [phase EXCEPT ![s] = "retire"]
  /\ UNCHANGED <<baseUrl, sensorID, batchOK, batch, acked, round, cacheVars, up, serverVars>>

\* Mutated form: the whole batch is retired, whatever was answered.
RetireIDsSent(s) == batch[s]

\* The rows _retire() is called with.
RetireIDs(s) == acked[s]

\* The drain continues after a full batch that was answered completely.
DrainsOn(s) ==
  /\ acked[s] = batch[s]
  /\ Cardinality(batch[s]) = BatchSize
  /\ round[s] + 1 < MaxBatches

Retire(s) ==
  /\ phase[s] = "retire"
  /\ cache' = IF s \in ZeroRetention
              THEN DeleteMany(cache, RetireIDs(s))
              ELSE MarkUploadedMany(cache, RetireIDs(s))
  /\ IF DrainsOn(s)
     THEN /\ round' = [round EXCEPT ![s] = @ + 1]
          /\ phase' = [phase EXCEPT ![s] = "read"]
          /\ batch' = [batch EXCEPT ![s] = {}]
          /\ acked' = [acked EXCEPT ![s] = {}]
     ELSE LeaveFlush(s) /\ UNCHANGED round
  /\ UNCHANGED <<baseUrl, sensorID, batchOK, taken, up, serverVars, faults>>

\* The database stays locked: the exception leaves run_upload() before cleanup.
RetireFails(s) ==
  /\ phase[s] = "retire"
  /\ Fault
  /\ phase' = [phase EXCEPT ![s] = "idle"]
  /\ batch' = [batch EXCEPT ![s] = {}]
  /\ acked' = [acked EXCEPT ![s] = {}]
  /\ UNCHANGED <<baseUrl, sensorID, batchOK, round, cacheVars, up, serverVars>>

\* cache.cleanup() at the end of run_upload().  Ages, and the skew between the
\* rows' time and the system clock the cutoff is taken from, are abstracted
\* to the choice of the rows that count as old; none are when it raises.
CollectOld(s) ==
  /\ phase[s] = "cleanup"
  /\ \E old \in SUBSET DOMAIN cache :
       cache' = Cleanup(cache, StreamOf[s], old)
  /\ phase' = [phase EXCEPT ![s] = "idle"]
  /\ UNCHANGED <<baseUrl, sensorID, batchOK, batch, acked, round, taken, up, serverVars, faults>>

-----------------------------------------------------------------------------
(* Processes and backends come and go.                                     *)

\* stop(), a crash or a power cut: the daemon thread ends wherever it is, and
\* everything but the cache is lost.
Exit(s) ==
  /\ phase[s] # "down"
  /\ Fault
  /\ phase' = [phase EXCEPT ![s] = "down"]
  /\ baseUrl' = [baseUrl EXCEPT ![s] = NoBackend]
  /\ sensorID' = [sensorID EXCEPT ![s] = NoSensorID]
  /\ batchOK' = [batchOK EXCEPT ![s] = TRUE]
  /\ batch' = [batch EXCEPT ![s] = {}]
  /\ acked' = [acked EXCEPT ![s] = {}]
  /\ round' = [round EXCEPT ![s] = 0]
  /\ UNCHANGED <<cacheVars, up, serverVars>>

\* __init__() and start(): both cycles are due, maintenance runs first.
Start(s) ==
  /\ phase[s] = "down"
  /\ phase' = [phase EXCEPT ![s] = "discover"]
  /\ UNCHANGED <<baseUrl, sensorID, batchOK, batch, acked, round, cacheVars, up, serverVars, faults>>

BackendDown(b) ==
  /\ up[b]
  /\ Fault
  /\ up' = [up EXCEPT ![b] = FALSE]
  /\ UNCHANGED <<threadVars, cacheVars, serverVars>>

BackendUp(b) ==
  /\ ~up[b]
  /\ up' = [up EXCEPT ![b] = TRUE]
  /\ UNCHANGED <<threadVars, cacheVars, serverVars, faults>>

-----------------------------------------------------------------------------
Init ==
  /\ cache = <<>>
  /\ taken = <<>>
  /\ phase = [s \in Sensor |-> "down"]
  /\ baseUrl = [s \in Sensor |-> NoBackend]
  /\ sensorID = [s \in Sensor |-> NoSensorID]
  /\ batchOK = [s \in Sensor |-> TRUE]
  /\ batch = [s \in Sensor |-> {}]
  /\ acked = [s \in Sensor |-> {}]
  /\ round = [s \in Sensor |-> 0]
  /\ up \in [Backend -> BOOLEAN]
  /\ registry = [b \in Backend |-> <<>>]
  /\ stored = [b \in Backend |-> {}]
  /\ faults = 0

Maintenance(s) ==
  \/ Discover(s)
  \/ SkipRegister(s)
  \/ \E answered \in BOOLEAN : Register(s, answered)
  \/ RegisterFails(s)

Upload(s) ==
  \/ FlushNothing(s) \/ ReadBatch(s)
  \/ SendBatch(s) \/ SendBatchUnanswered(s) \/ SendBatchMissing(s) \/ SendBatchFails(s)
  \/ \E r \in batch[s] : SendOne(s, r) \/ SendOneUnanswered(s, r)
  \/ SendOneFails(s)
  \/ Retire(s) \/ RetireFails(s)
  \/ CollectOld(s)

Next ==
  \/ \E s \in Sensor :
       \/ Record(s)
       \/ Maintenance(s) \/ Upload(s)
       \/ BeginMaintenance(s) \/ BeginUpload(s)
       \/ Exit(s) \/ Start(s)
  \/ \E b \in Backend : BackendDown(b) \/ BackendUp(b)

\* The thread never pauses inside a cycle (every request has a timeout), both
\* cycles become due again after a finite interval, and systemd restarts the
\* service.  Nothing is assumed of the sampling thread or the network.
Fairness ==
  \A s \in Sensor :
    /\ WF_vars(Maintenance(s) \/ Upload(s))
    /\ SF_vars(BeginMaintenance(s))
    /\ SF_vars(BeginUpload(s))
    /\ WF_vars(Start(s))

Spec == Init /\ [][Next]_vars

FairSpec == Spec /\ Fairness

-----------------------------------------------------------------------------
(* Properties.                                                             *)

\* Reading i has reached a backend.
Delivered == {i \in 1 .. Len(taken) : \E b \in Backend, s \in Sensor : <<s, i>> \in stored[b]}

CacheTypeOK ==
  /\ taken \in Seq(Sensor)
  /\ DOMAIN cache \subseteq 1 .. Len(taken)
  /\ \A i \in DOMAIN cache :
       cache[i] \in [stream : {StreamOf[taken[i]]}, source : {taken[i]}, uploaded : BOOLEAN]

ThreadTypeOK ==
  /\ phase \in [Sensor -> Phase]
  /\ baseUrl \in [Sensor -> Backend \cup {NoBackend}]
  /\ sensorID \in [Sensor -> Nat]
  /\ batchOK \in [Sensor -> BOOLEAN]
  /\ batch \in [Sensor -> SUBSET (1 .. Len(taken))]
  /\ acked \in [Sensor -> SUBSET (1 .. Len(taken))]
  /\ round \in [Sensor -> 0 .. MaxBatches - 1]

ServerTypeOK ==
  /\ up \in [Backend -> BOOLEAN]
  /\ registry \in [Backend -> Seq(Sensor)]
  /\ stored \in [Backend -> SUBSET (Sensor \X (1 .. Len(taken)))]
  /\ faults \in 0 .. MaxFaults

\* The type invariant: the rows, the threads and the servers are well formed;
\* a cached row names the sensor that took it.
TypeOK == CacheTypeOK /\ ThreadTypeOK /\ ServerTypeOK

\* Every reading ever recorded is still waiting in the cache or has reached a
\* backend, whatever crashed, timed out, was answered late or was collected by
\* the other process's cleanup: _retire() and cleanup() drop nothing early.
NoReadingLost == \A i \in 1 .. Len(taken) : i \in Unsent(cache) \/ i \in Delivered

\* A sensor's rows leave the queue in logID order: no row is given up while an
\* older row of the same sensor still waits, in either upload mode, also when
\* a single-row upload breaks off in the middle.
OldestFirst ==
  \A i, j \in 1 .. Len(taken) :
    i < j /\ taken[i] = taken[j] /\ i \in Unsent(cache) => j \in Unsent(cache)

\* Every reading a backend holds is filed under the sensor that took it, which
\* is what get_unsent()'s source_key filter and _row_payload()'s use of the
\* current sensorID are for.
NoMisfiledReading ==
  \A b \in Backend : \A r \in stored[b] : taken[r[2]] = r[1]

\* If some backend stays up from some point on, the backlog is drained: no
\* row waits forever behind a failed upload, a lost answer or a 404.
BacklogDrains ==
  (\E b \in Backend : <>[]up[b]) =>
    \A i \in 1 .. MaxReadings : [](i \in Unsent(cache) => <>(i \notin Unsent(cache)))

-----------------------------------------------------------------------------
(* Why nothing is lost or overtaken: the inductive invariant.              *)

Mine(s) == Drainable(cache, StreamOf[s], s)

\* What a thread is uploading are the oldest unsent rows of its own sensor;
\* no other process may retire or delete them under its feet.
BatchIsOldest ==
  \A s \in Sensor :
    /\ batch[s] \subseteq Mine(s)
    /\ \A i \in batch[s], j \in Mine(s) : j < i => j \in batch[s]

\* A thread in the middle of a request has a backend to send it to.
RequestHasTarget ==
  \A s \in Sensor : phase[s] \in {"send", "retire"} => CanUpload(s)

\* What was answered is delivered, and a prefix of the batch.
AckedIsDelivered ==
  \A s \in Sensor :
    /\ acked[s] \subseteq batch[s] \cap Delivered
    /\ \A i \in acked[s], j \in batch[s] : j < i => j \in acked[s]

DeliveryInv ==
  /\ TypeOK /\ RequestHasTarget
  /\ BatchIsOldest /\ AckedIsDelivered
  /\ NoReadingLost /\ OldestFirst

\* With a single backend, a client's ID is its own in that database.  With two
\* it is not: _sensor_id outlives a change of _base_url.
IDIsOwn ==
  \A s \in Sensor, b \in Backend :
    sensorID[s] # NoSensorID =>
      sensorID[s] \in DOMAIN registry[b] /\ registry[b][sensorID[s]] = s

FilingInv == IDIsOwn /\ NoMisfiledReading

-----------------------------------------------------------------------------
\* The cache and its clients implement the delivery promise: BackendClient
\* refines ReadingDelivery, with the unsent rows as the pending readings.
Delivery ==
  INSTANCE ReadingDelivery WITH pending <- Unsent(cache), delivered <- Delivered

DeliverySpec == Delivery!Spec

=============================================================================
