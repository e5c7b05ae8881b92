---------------------------- MODULE ReadingTime ----------------------------
(***************************************************************************)
(* How true is the time stored with a reading?  The sampling thread of     *)
(* every sensor process (samplingLoop.py) stamps readings with its Clock   *)
(* (clock.py) while its background thread (client.py) adopts the offset    *)
(* the device agent publishes, rewrites the rows taken before the first    *)
(* sync (cache.py) and uploads.  Two processes share one cache.            *)
(*                                                                         *)
(* Time itself is abstracted to error: how far a clock or a stored time is *)
(* from the true time.  The system clock of a boot has a constant error,   *)
(* an offset brings it down to one of PublishedError.  A Clock is a plain  *)
(* object without a lock, so the steps of the two threads interleave.      *)
(***************************************************************************)
EXTENDS Integers, SensorCache

CONSTANTS
  Sensor,           \* sensor processes; all write the same stream
  SystemError,      \* errors the system clock may have in a boot
  PublishedError,   \* errors left by an offset the agent measured
  BootShift,        \* how far the monotonic clocks of two boots are apart
  BatchSize,        \* rows per upload
  MaxReadings,      \* bound on the readings stored in a behaviour
  MaxBoots,         \* bound on the boots
  MaxFaults,        \* bound on exits, failed calls and lost answers
  None              \* no offset, no reference

ASSUME TimeAssumption ==
  /\ SystemError \subseteq Int
  /\ PublishedError \subseteq Int
  /\ BootShift \in Int
  /\ MaxReadings \in Nat /\ MaxBoots \in Nat \ {0} /\ MaxFaults \in Nat
  /\ None \notin Int

VARIABLES
  log,         \* SensorLog, on disk
  boot,        \* the boot id
  sysError,    \* error of time.time() in this boot
  published,   \* clock.json: [offset, bootID], None when missing or too old
  offset,      \* Clock.offset of each process
  synced,      \* Clock.synced
  ref,         \* error of (ref_monotonic, ref_epoch), None before it exists
  corrected,   \* _corrected_this_boot
  sampler,     \* where each sampling thread is
  stamp,       \* error of the tick epoch in hand
  confidence,  \* confidence of the reading in hand
  resynced,    \* history: where the tick in hand was when the offset changed
  worker,      \* where each background thread is
  wasSynced,   \* was_synced of sync_clock()
  chosen,      \* rows a correction has selected
  sending,     \* rows being uploaded, <<logID, error of the time in the payload>>
  stored,      \* rows the backend holds, likewise
  faults       \* faults so far

bootVars   == <<boot, sysError, published>>
clockVars  == <<offset, synced, ref>>
sampleVars == <<sampler, stamp, confidence, resynced>>
workVars   == <<worker, wasSynced, corrected, chosen, sending>>
vars == <<log, stored, faults, bootVars, clockVars, sampleVars, workVars>>

Fault == faults < MaxFaults /\ faults' = faults + 1

\* The error of the app's clock, Clock.now().
ClockError(p) == sysError + offset[p]

-----------------------------------------------------------------------------
(* The sampling thread.                                                    *)

\* wait_for_next_tick() computes the tick from the clock as it is now.
Arm(p) ==
  /\ sampler[p] = "ready"
  /\ sampler' = [sampler EXCEPT ![p] = "waiting"]
  /\ stamp' = [stamp EXCEPT ![p] = ClockError(p)]
  /\ UNCHANGED <<log, stored, faults, bootVars, clockVars, confidence, resynced, workVars>>

\* confidence, looked up after the wait.
ConfidenceNow(p) == IF synced[p] THEN "SYNCED" ELSE "ESTIMATED"

Wake(p) ==
  /\ sampler[p] = "waiting"
  /\ sampler' = [sampler EXCEPT ![p] = "reading"]
  /\ confidence' = [confidence EXCEPT ![p] = ConfidenceNow(p)]
  /\ UNCHANGED <<log, stored, faults, bootVars, clockVars, stamp, resynced, workVars>>

\* The loop goes round; its locals are dead.
NextRound(p) ==
  /\ sampler' = [sampler EXCEPT ![p] = "ready"]
  /\ stamp' = [stamp EXCEPT ![p] = 0]
  /\ confidence' = [confidence EXCEPT ![p] = "ESTIMATED"]
  /\ resynced' = [resynced EXCEPT ![p] = "no"]

\* The logID after the newest row; no row is deleted here.
IsNextID(id) == id \notin DOMAIN log /\ (id = 1 \/ id - 1 \in DOMAIN log)

\* The sensor has answered; cache.save_reading().
Save(p) ==
  /\ sampler[p] = "reading"
  /\ \E id \in 1 .. MaxReadings :
       /\ IsNextID(id)
       /\ log' = SaveReading(log, id,
                    [stream |-> "DHT", source |-> p, uploaded |-> FALSE, bootID |-> boot,
                     error |-> stamp[p], timeConfidence |-> confidence[p],
                     resynced |-> resynced[p]])
  /\ NextRound(p)
  /\ UNCHANGED <<stored, faults, bootVars, clockVars, workVars>>

\* The sensor gave no reading in time, or the cache could not be written.
GiveUp(p) ==
  /\ sampler[p] = "reading"
  /\ NextRound(p)
  /\ UNCHANGED <<log, stored, faults, bootVars, clockVars, workVars>>

-----------------------------------------------------------------------------
(* The background thread: sync_clock().                                    *)

\* Mutated form: the check of bootID is missing.
UsableAnyBoot == published # None

\* load_published() returns an offset.
Usable == published # None /\ published.bootID = boot

\* Mutated form: without a published offset, refresh() goes back to offset 0.
RefreshFailsToZero(p) ==
  /\ worker[p] = "idle"
  /\ ~Usable
  /\ synced' = [synced EXCEPT ![p] = FALSE]
  /\ offset' = [offset EXCEPT ![p] = 0]
  /\ UNCHANGED <<log, stored, faults, bootVars, ref, sampleVars, workVars>>

\* refresh() finds no usable offset: it keeps the old one, but says so.
RefreshFails(p) ==
  /\ worker[p] = "idle"
  /\ ~Usable
  /\ synced' = [synced EXCEPT ![p] = FALSE]
  /\ UNCHANGED <<log, stored, faults, bootVars, offset, ref, sampleVars, workVars>>

\* Mutated form: `synced` is looked at after the refresh.
WasSyncedAfter(p) == TRUE

\* was_synced of sync_clock().
WasSynced(p) == synced[p]

\* refresh() adopts the offset ...
Adopt(p) ==
  /\ worker[p] = "idle"
  /\ Usable
  /\ wasSynced' = [wasSynced EXCEPT ![p] = WasSynced(p)]
  /\ offset' = [offset EXCEPT ![p] = published.offset]
  /\ resynced' = [resynced EXCEPT ![p] =
                    IF published.offset = offset[p] \/ sampler[p] = "ready" \/ @ = "waiting"
                    THEN @ ELSE sampler[p]]
  /\ worker' = [worker EXCEPT ![p] = "adopting"]
  /\ UNCHANGED <<log, stored, faults, bootVars, synced, ref, sampler, stamp, confidence,
                 corrected, chosen, sending>>

\* Mutated form: the reference pair is taken from the system clock.
ReferenceUnadjusted(p) == sysError

\* The error of the reference pair captured now: ref_epoch is self.now().
Reference(p) == ClockError(p)

\* ... then claims to be synced, and keeps the first reference pair.  The rows
\* are corrected on the way from unsynced to synced, once per process.
MarkSynced(p) ==
  /\ worker[p] = "adopting"
  /\ synced' = [synced EXCEPT ![p] = TRUE]
  /\ ref' = [ref EXCEPT ![p] = IF @ = None THEN Reference(p) ELSE @]
  /\ worker' = [worker EXCEPT ![p] =
                  IF wasSynced[p] \/ corrected[p] THEN "idle" ELSE "correcting"]
  /\ wasSynced' = [wasSynced EXCEPT ![p] = FALSE]
  /\ UNCHANGED <<log, stored, faults, bootVars, offset, sampleVars, corrected, chosen, sending>>

SelectRows(p) ==
  /\ worker[p] = "correcting"
  /\ chosen' = [chosen EXCEPT ![p] = Correctable(log, boot)]
  /\ worker' = [worker EXCEPT ![p] = "rewriting"]
  /\ UNCHANGED <<log, stored, faults, bootVars, clockVars, sampleVars, wasSynced,
                 corrected, sending>>

\* true_epoch = ref_epoch + (monotonic - ref_monotonic) is as good as the
\* reference, for a row whose monotonic value is of this boot.
ReconstructedError(p, i) ==
  IF log[i].bootID = boot THEN ref[p] ELSE ref[p] + BootShift

RewriteRows(p) ==
  /\ worker[p] = "rewriting"
  /\ log' = CorrectRows(log, [i \in chosen[p] |-> ReconstructedError(p, i)])
  /\ corrected' = [corrected EXCEPT ![p] = TRUE]
  /\ worker' = [worker EXCEPT ![p] = "idle"]
  /\ chosen' = [chosen EXCEPT ![p] = {}]
  /\ UNCHANGED <<stored, faults, bootVars, clockVars, sampleVars, wasSynced, sending>>

\* The database stays locked; nothing is rewritten.  It is not tried again
\* before `synced` has been lost and found.
CorrectionFails(p) ==
  /\ worker[p] \in {"correcting", "rewriting"}
  /\ Fault
  /\ worker' = [worker EXCEPT ![p] = "idle"]
  /\ chosen' = [chosen EXCEPT ![p] = {}]
  /\ UNCHANGED <<log, stored, bootVars, clockVars, sampleVars, wasSynced, corrected, sending>>

-----------------------------------------------------------------------------
(* The background thread: the upload, as far as times are concerned.       *)
(* BackendClient has all of it.                                            *)

ReadRows(p) ==
  LET ids == GetUnsent(log, "DHT", p, BatchSize) IN
  /\ worker[p] = "idle"
  /\ ids # {}
  /\ sending' = [sending EXCEPT ![p] = {<<i, log[i].error>> : i \in ids}]
  /\ worker' = [worker EXCEPT ![p] = "sending"]
  /\ UNCHANGED <<log, stored, faults, bootVars, clockVars, sampleVars, wasSynced,
                 corrected, chosen>>

\* The backend stores the rows.  Its key is (sensorID, datetime): a row that
\* arrives again with another time is another row.
Send(p, answered) ==
  /\ worker[p] = "sending"
  /\ IF answered THEN UNCHANGED faults ELSE Fault
  /\ stored' = stored \cup sending[p]
  /\ worker' = [worker EXCEPT ![p] = IF answered THEN "retiring" ELSE "idle"]
  /\ sending' = [sending EXCEPT ![p] = IF answered THEN @ ELSE {}]
  /\ UNCHANGED <<log, bootVars, clockVars, sampleVars, wasSynced, corrected, chosen>>

SendFails(p) ==
  /\ worker[p] = "sending"
  /\ Fault
  /\ worker' = [worker EXCEPT ![p] = "idle"]
  /\ sending' = [sending EXCEPT ![p] = {}]
  /\ UNCHANGED <<log, stored, bootVars, clockVars, sampleVars, wasSynced, corrected, chosen>>

RetireRows(p) ==
  /\ worker[p] = "retiring"
  /\ log' = MarkUploadedMany(log, {r[1] : r \in sending[p]})
  /\ worker' = [worker EXCEPT ![p] = "idle"]
  /\ sending' = [sending EXCEPT ![p] = {}]
  /\ UNCHANGED <<stored, faults, bootVars, clockVars, sampleVars, wasSynced, corrected, chosen>>

-----------------------------------------------------------------------------
(* The device agent, restarts and reboots.                                 *)

\* The agent publishes a fresh measurement ...
Publish ==
  /\ \E e \in PublishedError : published' = [offset |-> e - sysError, bootID |-> boot]
  /\ UNCHANGED <<log, stored, faults, boot, sysError, clockVars, sampleVars, workVars>>

\* ... or has not done so for MAX_PUBLISHED_AGE.
Expire ==
  /\ published # None
  /\ published' = None
  /\ UNCHANGED <<log, stored, faults, boot, sysError, clockVars, sampleVars, workVars>>

\* A new Clock and a new BackendClient know nothing of the boot so far.
Forget(procs) ==
  LET Reset(f, value) == [p \in Sensor |-> IF p \in procs THEN value ELSE f[p]] IN
  /\ offset' = Reset(offset, 0)
  /\ synced' = Reset(synced, FALSE)
  /\ ref' = Reset(ref, None)
  /\ corrected' = Reset(corrected, FALSE)
  /\ sampler' = Reset(sampler, "ready")
  /\ stamp' = Reset(stamp, 0)
  /\ confidence' = Reset(confidence, "ESTIMATED")
  /\ resynced' = Reset(resynced, "no")
  /\ worker' = Reset(worker, "idle")
  /\ wasSynced' = Reset(wasSynced, FALSE)
  /\ chosen' = Reset(chosen, {})
  /\ sending' = Reset(sending, {})

\* A process ends anywhere and systemd starts it again.
Restart(p) ==
  /\ Fault
  /\ Forget({p})
  /\ UNCHANGED <<log, stored, bootVars>>

\* A power cut: the system clock is wrong in a new way.  clock.json is in /run
\* and normally gone, but load_published() does not rely on that.
Reboot ==
  /\ boot < MaxBoots
  /\ boot' = boot + 1
  /\ sysError' \in SystemError
  /\ Forget(Sensor)
  /\ UNCHANGED <<log, stored, faults, published>>

-----------------------------------------------------------------------------
Init ==
  /\ log = <<>>
  /\ stored = {}
  /\ faults = 0
  /\ boot = 1
  /\ sysError \in SystemError
  /\ published = None
  /\ offset = [p \in Sensor |-> 0]
  /\ synced = [p \in Sensor |-> FALSE]
  /\ ref = [p \in Sensor |-> None]
  /\ corrected = [p \in Sensor |-> FALSE]
  /\ sampler = [p \in Sensor |-> "ready"]
  /\ stamp = [p \in Sensor |-> 0]
  /\ confidence = [p \in Sensor |-> "ESTIMATED"]
  /\ resynced = [p \in Sensor |-> "no"]
  /\ worker = [p \in Sensor |-> "idle"]
  /\ wasSynced = [p \in Sensor |-> FALSE]
  /\ chosen = [p \in Sensor |-> {}]
  /\ sending = [p \in Sensor |-> {}]

Sample(p) == Arm(p) \/ Wake(p) \/ Save(p) \/ GiveUp(p)

SyncClock(p) ==
  \/ RefreshFails(p) \/ Adopt(p) \/ MarkSynced(p)
  \/ SelectRows(p) \/ RewriteRows(p) \/ CorrectionFails(p)

Upload(p) ==
  \/ ReadRows(p) \/ SendFails(p) \/ RetireRows(p)
  \/ \E answered \in BOOLEAN : Send(p, answered)

Next ==
  \/ \E p \in Sensor : Sample(p) \/ SyncClock(p) \/ Upload(p) \/ Restart(p)
  \/ Publish \/ Expire \/ Reboot

Spec == Init /\ [][Next]_vars

-----------------------------------------------------------------------------
(* Properties.                                                             *)

\* A stored time is as good as the agent's measurement.
IsTrue(row) == row.error \in PublishedError

Midst == {"no", "waiting", "reading"}

Row == [stream : {"DHT"}, source : Sensor, uploaded : BOOLEAN, bootID : Nat, error : Int,
        timeConfidence : {"SYNCED", "ESTIMATED", "CORRECTED"}, resynced : Midst]

\* The type invariant.
TypeOK ==
  /\ log \in [DOMAIN log -> Row]
  /\ DOMAIN log \subseteq 1 .. MaxReadings
  /\ boot \in 1 .. MaxBoots /\ sysError \in Int
  /\ published \in [offset : Int, bootID : Nat] \cup {None}
  /\ offset \in [Sensor -> Int]
  /\ synced \in [Sensor -> BOOLEAN]
  /\ ref \in [Sensor -> Int \cup {None}]
  /\ corrected \in [Sensor -> BOOLEAN]
  /\ sampler \in [Sensor -> {"ready", "waiting", "reading"}]
  /\ stamp \in [Sensor -> Int]
  /\ confidence \in [Sensor -> {"SYNCED", "ESTIMATED"}]
  /\ resynced \in [Sensor -> Midst]
  /\ worker \in [Sensor -> {"idle", "adopting", "correcting", "rewriting",
                            "sending", "retiring"}]
  /\ wasSynced \in [Sensor -> BOOLEAN]
  /\ chosen \in [Sensor -> SUBSET (DOMAIN log)]
  /\ sending \in [Sensor -> SUBSET ((DOMAIN log) \X Int)]
  /\ stored \subseteq (DOMAIN log) \X Int
  /\ faults \in 0 .. MaxFaults

\* A row marked CORRECTED has a true time, although any process of the Pi may
\* have rewritten it, with a reference pair taken at another moment, across
\* restarts and reboots, and perhaps after another process had done so already.
CorrectedIsTrue ==
  \A i \in DOMAIN log : log[i].timeConfidence = "CORRECTED" => IsTrue(log[i])

\* A row stamped SYNCED has a true time, unless a sync arrived while the
\* sampling thread waited for the tick: that is the only way to a wrong SYNCED.
SyncedUnlessResynced ==
  \A i \in DOMAIN log :
    log[i].timeConfidence = "SYNCED" /\ log[i].resynced # "waiting" => IsTrue(log[i])

\* The backend can hold one reading under two times only if it is one whose
\* time was rewritten: without a correction, a reading sent again after a lost
\* answer meets UNIQUE (sensorID, datetime) and is absorbed.
RepeatsOnlyByCorrection ==
  \A r, q \in stored : r[1] = q[1] /\ r # q => log[r[1]].timeConfidence = "CORRECTED"

\* Every row stamped SYNCED has a true time.
SyncedIsTrue == \A i \in DOMAIN log : log[i].timeConfidence = "SYNCED" => IsTrue(log[i])

\* Once a process has corrected the rows of this boot, a reading of its own is
\* left with a wrong ESTIMATED time only if the offset changed while that
\* reading was in hand, to be stored after the rows were selected.
EstimatedUnlessInHand ==
  \A p \in Sensor, i \in Unsent(log) :
    corrected[p] /\ log[i].source = p /\ log[i].bootID = boot
      /\ log[i].timeConfidence = "ESTIMATED" /\ log[i].resynced = "no" => IsTrue(log[i])

\* Where nothing has failed, a process that is synced has made its correction,
\* or is making it: its wrong ESTIMATED times are those that were in hand.  A
\* correction that failed is the way to others, for it is not tried again
\* before `synced` has been lost.
WrongOnlyByFault ==
  \A p \in Sensor, i \in Unsent(log) :
    /\ faults = 0 /\ synced[p] /\ worker[p] \notin {"correcting", "rewriting"}
    /\ log[i].source = p /\ log[i].bootID = boot
    /\ log[i].timeConfidence = "ESTIMATED" /\ log[i].resynced = "no"
    => IsTrue(log[i])

\* The time of a row that has been uploaded is never rewritten.
UploadedUntouched ==
  [][\A i \in DOMAIN log : log[i].uploaded => log'[i].error = log[i].error]_vars

-----------------------------------------------------------------------------
(* Why the marks can be trusted: the inductive invariant.                  *)

\* What a Clock believes comes from a published offset of this boot.
ClockInv ==
  /\ published # None => published.bootID <= boot
  /\ Usable => sysError + published.offset \in PublishedError
  /\ \A p \in Sensor :
       /\ synced[p] \/ worker[p] = "adopting" => ClockError(p) \in PublishedError
       /\ ref[p] # None => ref[p] \in PublishedError

\* The tick in hand was computed by the clock still in use, unless resynced.
StampInv ==
  \A p \in Sensor : resynced[p] # "waiting" =>
    /\ sampler[p] = "waiting" => stamp[p] = ClockError(p)
    /\ sampler[p] = "reading" /\ confidence[p] = "SYNCED" => stamp[p] \in PublishedError

\* A correction in progress has a reference and rows of this boot only.
CorrectionInv ==
  \A p \in Sensor :
    /\ worker[p] \in {"correcting", "rewriting"} => ref[p] # None
    /\ worker[p] # "rewriting" => chosen[p] = {}
    /\ \A i \in chosen[p] : log[i].bootID = boot

\* A time that has left the Pi is the row's time, or the row was rewritten.
SentInv ==
  \A r \in stored \cup UNION {sending[p] : p \in Sensor} :
    r[2] = log[r[1]].error \/ log[r[1]].timeConfidence = "CORRECTED"

TrustInv ==
  /\ TypeOK /\ ClockInv /\ StampInv /\ CorrectionInv /\ SentInv
  /\ CorrectedIsTrue /\ SyncedUnlessResynced

=============================================================================
