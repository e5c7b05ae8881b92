------------------------- MODULE ReadingTimeProofs -------------------------
(***************************************************************************)
(* Proofs about ReadingTime: whatever the processes, the boots, the clock  *)
(* errors and the interleaving, the marks CORRECTED and (outside a wait    *)
(* that a sync interrupts) SYNCED can be believed.                         *)
(***************************************************************************)
EXTENDS ReadingTime, TLAPS

LogType == log \in [DOMAIN log -> Row]

-----------------------------------------------------------------------------
(* What the cache operations do to the rows.                               *)

\* Saving adds one row and leaves the others alone.
LEMMA SaveRow ==
  ASSUME LogType, NEW id, id \notin DOMAIN log, NEW row \in Row, log' = SaveReading(log, id, row)
  PROVE  /\ LogType' /\ DOMAIN log' = DOMAIN log \cup {id}
         /\ log'[id] = row
         /\ \A i \in DOMAIN log : log'[i] = log[i]
BY DEF LogType, SaveReading

\* Marking changes nothing but the upload mark.
LEMMA MarkRows ==
  ASSUME LogType, NEW ids, log' = MarkUploadedMany(log, ids)
  PROVE  /\ LogType' /\ DOMAIN log' = DOMAIN log
         /\ \A i \in DOMAIN log :
              /\ log'[i].error = log[i].error /\ log'[i].bootID = log[i].bootID
              /\ log'[i].timeConfidence = log[i].timeConfidence
              /\ log'[i].resynced = log[i].resynced
<1>1. DOMAIN log' = DOMAIN log
  BY DEF MarkUploadedMany
<1>2. ASSUME NEW i \in DOMAIN log
      PROVE  /\ log'[i] \in Row
             /\ log'[i].error = log[i].error /\ log'[i].bootID = log[i].bootID
             /\ log'[i].timeConfidence = log[i].timeConfidence
             /\ log'[i].resynced = log[i].resynced
  <2>1. log[i] \in Row
    BY DEF LogType
  <2>2. log'[i] = IF i \in ids THEN [log[i] EXCEPT !.uploaded = TRUE] ELSE log[i]
    BY DEF MarkUploadedMany
  <2>3. CASE i \in ids
    BY <2>1, <2>2, <2>3 DEF Row
  <2>4. CASE i \notin ids
    BY <2>1, <2>2, <2>4
  <2> QED  BY <2>3, <2>4
<1>3. log' = [i \in DOMAIN log' |-> log'[i]]
  BY DEF MarkUploadedMany
<1>4. LogType'
  BY <1>1, <1>2, <1>3 DEF LogType
<1> QED
  BY <1>1, <1>2, <1>4

\* Correcting changes the time of the given rows and marks them CORRECTED.
LEMMA CorrectedRows ==
  ASSUME LogType, NEW ids \in SUBSET (DOMAIN log), NEW e \in [ids -> Int],
         log' = CorrectRows(log, e)
  PROVE  /\ LogType' /\ DOMAIN log' = DOMAIN log
         /\ \A i \in DOMAIN log :
              /\ log'[i].bootID = log[i].bootID
              /\ i \in ids => log'[i].error = e[i] /\ log'[i].timeConfidence = "CORRECTED"
              /\ i \notin ids => log'[i] = log[i]
<1>1. DOMAIN log' = DOMAIN log
  BY DEF CorrectRows
<1>2. ASSUME NEW i \in DOMAIN log
      PROVE  /\ log'[i] \in Row
             /\ log'[i].bootID = log[i].bootID
             /\ i \in ids => log'[i].error = e[i] /\ log'[i].timeConfidence = "CORRECTED"
             /\ i \notin ids => log'[i] = log[i]
  <2>1. log[i] \in Row
    BY DEF LogType
  <2>2. log'[i] = IF i \in ids
                  THEN [log[i] EXCEPT !.error = e[i], !.timeConfidence = "CORRECTED"]
                  ELSE log[i]
    BY DEF CorrectRows
  <2>3. CASE i \in ids
    <3>1. e[i] \in Int
      BY <2>3
    <3> QED  BY <2>1, <2>2, <2>3, <3>1 DEF Row
  <2>4. CASE i \notin ids
    BY <2>1, <2>2, <2>4
  <2> QED  BY <2>3, <2>4
<1>3. log' = [i \in DOMAIN log' |-> log'[i]]
  BY DEF CorrectRows
<1>4. LogType'
  BY <1>1, <1>2, <1>3 DEF LogType
<1> QED
  BY <1>1, <1>2, <1>4

\* The rows picked for an upload or a correction are rows of the cache.
LEMMA PickedRows ==
  /\ \A p \in Sensor : GetUnsent(log, "DHT", p, BatchSize) \subseteq DOMAIN log
  /\ Correctable(log, boot) \subseteq DOMAIN log
  /\ \A i \in Correctable(log, boot) : log[i].bootID = boot
BY DEF GetUnsent, Drainable, Unsent, Correctable


-----------------------------------------------------------------------------
(* What a step does to the rows.                                           *)

\* A row present before keeps its boot, and keeps its time or gets a true one;
\* a new row is believed only if it may be.
LogEffect ==
  /\ LogType' /\ DOMAIN log \subseteq DOMAIN log' /\ DOMAIN log' \subseteq 1 .. MaxReadings
  /\ \A i \in DOMAIN log :
       /\ log'[i].bootID = log[i].bootID
       /\ \/ /\ log'[i].error = log[i].error
             /\ log'[i].timeConfidence = log[i].timeConfidence
             /\ log'[i].resynced = log[i].resynced
          \/ log'[i].timeConfidence = "CORRECTED" /\ IsTrue(log'[i])
  /\ \A i \in DOMAIN log' \ DOMAIN log :
       /\ log'[i].timeConfidence # "CORRECTED"
       /\ log'[i].timeConfidence = "SYNCED" /\ log'[i].resynced # "waiting" => IsTrue(log'[i])

\* The three calls that write the cache have that effect, and so has every
\* step that leaves the cache alone.
LEMMA LogStep == TrustInv /\ [Next]_vars => LogEffect
<1> SUFFICES ASSUME TrustInv, [Next]_vars PROVE LogEffect
  OBVIOUS
<1> USE TimeAssumption DEF TrustInv
<1>0. LogType /\ DOMAIN log \subseteq 1 .. MaxReadings
  BY DEF TypeOK, LogType
<1>1. ASSUME log' = log PROVE LogEffect
  BY <1>0, <1>1 DEF LogEffect, LogType
<1>2. ASSUME NEW p \in Sensor, Save(p) PROVE LogEffect
  <2> DEFINE row == [stream |-> "DHT", source |-> p, uploaded |-> FALSE, bootID |-> boot,
                     error |-> stamp[p], timeConfidence |-> confidence[p],
                     resynced |-> resynced[p]]
  <2>1. PICK id \in 1 .. MaxReadings :
          id \notin DOMAIN log /\ log' = SaveReading(log, id, row)
    BY <1>2 DEF Save, IsNextID
  <2>2. boot \in Nat /\ stamp[p] \in Int /\ resynced[p] \in Midst
        /\ confidence[p] \in {"SYNCED", "ESTIMATED"}
    BY DEF TypeOK
  <2>3. row \in Row
    BY <2>2 DEF Row
  <2>4. /\ row.timeConfidence # "CORRECTED"
        /\ row.timeConfidence = "SYNCED" /\ row.resynced # "waiting" => IsTrue(row)
    BY <1>2, <2>2 DEF Save, StampInv, IsTrue
  <2> HIDE DEF row
  <2>5. /\ LogType' /\ DOMAIN log' = DOMAIN log \cup {id} /\ log'[id] = row
        /\ \A i \in DOMAIN log : log'[i] = log[i]
    BY <1>0, <2>1, <2>3, SaveRow
  <2> QED  BY <1>0, <2>1, <2>4, <2>5 DEF LogEffect
<1>3. ASSUME NEW p \in Sensor, RewriteRows(p) PROVE LogEffect
  <2> DEFINE e == [i \in chosen[p] |-> ReconstructedError(p, i)]
  <2>1. chosen[p] \in SUBSET (DOMAIN log) /\ log' = CorrectRows(log, e)
    BY <1>3 DEF RewriteRows, TypeOK
  <2>2. ref[p] \in Int /\ ref[p] \in PublishedError
    BY <1>3 DEF RewriteRows, CorrectionInv, ClockInv
  <2>3. \A i \in chosen[p] : e[i] = ref[p]
    BY DEF CorrectionInv, ReconstructedError
  <2>4. e \in [chosen[p] -> Int]
    BY <2>2, <2>3
  <2> HIDE DEF e
  <2>5. /\ LogType' /\ DOMAIN log' = DOMAIN log
        /\ \A i \in DOMAIN log :
             /\ log'[i].bootID = log[i].bootID
             /\ i \in chosen[p] => log'[i].error = e[i] /\ log'[i].timeConfidence = "CORRECTED"
             /\ i \notin chosen[p] => log'[i] = log[i]
    BY <1>0, <2>1, <2>4, CorrectedRows
  <2> QED  BY <1>0, <2>1, <2>2, <2>3, <2>5 DEF LogEffect, IsTrue
<1>4. ASSUME NEW p \in Sensor, RetireRows(p) PROVE LogEffect
  <2>1. log' = MarkUploadedMany(log, {r[1] : r \in sending[p]})
    BY <1>4 DEF RetireRows
  <2> QED  BY <1>0, <2>1, MarkRows DEF LogEffect
<1>5. CASE \E p \in Sensor : Arm(p) \/ Wake(p) \/ GiveUp(p)
  BY <1>1, <1>5 DEF Arm, Wake, GiveUp
<1>6. CASE \E p \in Sensor : RefreshFails(p) \/ Adopt(p) \/ MarkSynced(p) \/ SelectRows(p)
                              \/ CorrectionFails(p)
  BY <1>1, <1>6 DEF RefreshFails, Adopt, MarkSynced, SelectRows, CorrectionFails
<1>7. CASE \E p \in Sensor : ReadRows(p) \/ SendFails(p) \/ (\E a \in BOOLEAN : Send(p, a))
  BY <1>1, <1>7 DEF ReadRows, SendFails, Send
<1>8. CASE (\E p \in Sensor : Restart(p)) \/ Publish \/ Expire \/ Reboot
  BY <1>1, <1>8 DEF Restart, Publish, Expire, Reboot
<1>9. CASE UNCHANGED vars
  BY <1>1, <1>9 DEF vars
<1> QED
  BY <1>2, <1>3, <1>4, <1>5, <1>6, <1>7, <1>8, <1>9 DEF Next, Sample, SyncClock, Upload

\* So the marks stay trustworthy.
LEMMA MarksStep ==
  TrustInv /\ LogEffect => CorrectedIsTrue' /\ SyncedUnlessResynced'
BY DEF TrustInv, LogEffect, CorrectedIsTrue, SyncedUnlessResynced, IsTrue

-----------------------------------------------------------------------------
(* The other parts of the invariant.                                       *)

\* What a restarted process starts with, and that it leaves the others alone.
LEMMA ForgetEffect ==
  ASSUME NEW procs, Forget(procs)
  PROVE  /\ offset' = [p \in Sensor |-> IF p \in procs THEN 0 ELSE offset[p]]
         /\ synced' = [p \in Sensor |-> IF p \in procs THEN FALSE ELSE synced[p]]
         /\ ref' = [p \in Sensor |-> IF p \in procs THEN None ELSE ref[p]]
         /\ corrected' = [p \in Sensor |-> IF p \in procs THEN FALSE ELSE corrected[p]]
         /\ sampler' = [p \in Sensor |-> IF p \in procs THEN "ready" ELSE sampler[p]]
         /\ stamp' = [p \in Sensor |-> IF p \in procs THEN 0 ELSE stamp[p]]
         /\ confidence' = [p \in Sensor |-> IF p \in procs THEN "ESTIMATED" ELSE confidence[p]]
         /\ resynced' = [p \in Sensor |-> IF p \in procs THEN "no" ELSE resynced[p]]
         /\ worker' = [p \in Sensor |-> IF p \in procs THEN "idle" ELSE worker[p]]
         /\ wasSynced' = [p \in Sensor |-> IF p \in procs THEN FALSE ELSE wasSynced[p]]
         /\ chosen' = [p \in Sensor |-> IF p \in procs THEN {} ELSE chosen[p]]
         /\ sending' = [p \in Sensor |-> IF p \in procs THEN {} ELSE sending[p]]
BY DEF Forget

\* Types survive a restart or a reboot.
LEMMA ForgetType ==
  ASSUME TypeOK, NEW procs, Forget(procs), log' = log, stored' = stored,
         faults' \in 0 .. MaxFaults, boot' \in 1 .. MaxBoots, sysError' \in Int,
         published' = published
  PROVE  TypeOK'
<1>1. offset' \in [Sensor -> Int]
  <2>1. offset \in [Sensor -> Int]
    BY DEF TypeOK
  <2>2. offset' = [p \in Sensor |-> IF p \in procs THEN 0 ELSE offset[p]]
    BY ForgetEffect
  <2> QED  BY ONLY <2>1, <2>2
<1>2. synced' \in [Sensor -> BOOLEAN]
  <2>1. synced \in [Sensor -> BOOLEAN]
    BY DEF TypeOK
  <2>2. synced' = [p \in Sensor |-> IF p \in procs THEN FALSE ELSE synced[p]]
    BY ForgetEffect
  <2> QED  BY ONLY <2>1, <2>2
<1>3. ref' \in [Sensor -> Int \cup {None}]
  <2>1. ref \in [Sensor -> Int \cup {None}]
    BY DEF TypeOK
  <2>2. ref' = [p \in Sensor |-> IF p \in procs THEN None ELSE ref[p]]
    BY ForgetEffect
  <2> QED  BY ONLY <2>1, <2>2
<1>4. corrected' \in [Sensor -> BOOLEAN]
  <2>1. corrected \in [Sensor -> BOOLEAN]
    BY DEF TypeOK
  <2>2. corrected' = [p \in Sensor |-> IF p \in procs THEN FALSE ELSE corrected[p]]
    BY ForgetEffect
  <2> QED  BY ONLY <2>1, <2>2
<1>5. sampler' \in [Sensor -> {"ready", "waiting", "reading"}]
  <2>1. sampler \in [Sensor -> {"ready", "waiting", "reading"}]
    BY DEF TypeOK
  <2>2. sampler' = [p \in Sensor |-> IF p \in procs THEN "ready" ELSE sampler[p]]
    BY ForgetEffect
  <2> QED  BY ONLY <2>1, <2>2
<1>6. stamp' \in [Sensor -> Int]
  <2>1. stamp \in [Sensor -> Int]
    BY DEF TypeOK
  <2>2. stamp' = [p \in Sensor |-> IF p \in procs THEN 0 ELSE stamp[p]]
    BY ForgetEffect
  <2> QED  BY ONLY <2>1, <2>2
<1>7. confidence' \in [Sensor -> {"SYNCED", "ESTIMATED"}]
  <2>1. confidence \in [Sensor -> {"SYNCED", "ESTIMATED"}]
    BY DEF TypeOK
  <2>2. confidence' = [p \in Sensor |-> IF p \in procs THEN "ESTIMATED" ELSE confidence[p]]
    BY ForgetEffect
  <2> QED  BY ONLY <2>1, <2>2
<1>8. resynced' \in [Sensor -> Midst]
  <2>1. resynced \in [Sensor -> Midst]
    BY DEF TypeOK
  <2>2. resynced' = [p \in Sensor |-> IF p \in procs THEN "no" ELSE resynced[p]]
    BY ForgetEffect
  <2> QED  BY ONLY <2>1, <2>2 DEF Midst
<1>9. worker' \in [Sensor -> {"idle", "adopting", "correcting", "rewriting",
                             "sending", "retiring"}]
  <2>1. worker \in [Sensor -> {"idle", "adopting", "correcting", "rewriting",
                             "sending", "retiring"}]
    BY DEF TypeOK
  <2>2. worker' = [p \in Sensor |-> IF p \in procs THEN "idle" ELSE worker[p]]
    BY ForgetEffect
  <2> QED  BY ONLY <2>1, <2>2
<1>10. wasSynced' \in [Sensor -> BOOLEAN]
  <2>1. wasSynced \in [Sensor -> BOOLEAN]
    BY DEF TypeOK
  <2>2. wasSynced' = [p \in Sensor |-> IF p \in procs THEN FALSE ELSE wasSynced[p]]
    BY ForgetEffect
  <2> QED  BY ONLY <2>1, <2>2
<1>11. chosen' \in [Sensor -> SUBSET (DOMAIN log)]
  <2>1. chosen \in [Sensor -> SUBSET (DOMAIN log)]
    BY DEF TypeOK
  <2>2. chosen' = [p \in Sensor |-> IF p \in procs THEN {} ELSE chosen[p]]
    BY ForgetEffect
  <2> QED  BY ONLY <2>1, <2>2
<1>12. sending' \in [Sensor -> SUBSET ((DOMAIN log) \X Int)]
  <2>1. sending \in [Sensor -> SUBSET ((DOMAIN log) \X Int)]
    BY DEF TypeOK
  <2>2. sending' = [p \in Sensor |-> IF p \in procs THEN {} ELSE sending[p]]
    BY ForgetEffect
  <2> QED  BY ONLY <2>1, <2>2
<1> QED
  BY <1>1, <1>2, <1>3, <1>4, <1>5, <1>6, <1>7, <1>8, <1>9, <1>10, <1>11, <1>12 DEF TypeOK

\* Types.
LEMMA TypeStep == TrustInv /\ LogEffect /\ [Next]_vars => TypeOK'
<1> SUFFICES ASSUME TrustInv, LogEffect, [Next]_vars PROVE TypeOK'
  OBVIOUS
<1> USE TimeAssumption DEF TrustInv, TypeOK, LogEffect, LogType, bootVars, clockVars,
        sampleVars, workVars
<1>1. ASSUME NEW p \in Sensor, Sample(p) PROVE TypeOK'
  <2>1. CASE Arm(p)
    BY <2>1 DEF Arm, ClockError
  <2>2. CASE Wake(p)
    BY <2>2 DEF Wake, ConfidenceNow
  <2>3. CASE Save(p)
    <3>1. /\ chosen' \in [Sensor -> SUBSET (DOMAIN log')]
          /\ sending' \in [Sensor -> SUBSET ((DOMAIN log') \X Int)]
          /\ stored' \subseteq (DOMAIN log') \X Int
      <4>1. chosen' = chosen /\ sending' = sending /\ stored' = stored
        BY <2>3 DEF Save
      <4>2. /\ chosen \in [Sensor -> SUBSET (DOMAIN log)]
            /\ sending \in [Sensor -> SUBSET ((DOMAIN log) \X Int)]
            /\ stored \subseteq (DOMAIN log) \X Int
            /\ DOMAIN log \subseteq DOMAIN log'
        OBVIOUS
      <4> QED  BY ONLY <4>1, <4>2
    <3>2. /\ sampler' \in [Sensor -> {"ready", "waiting", "reading"}]
          /\ stamp' \in [Sensor -> Int]
          /\ confidence' \in [Sensor -> {"SYNCED", "ESTIMATED"}]
          /\ resynced' \in [Sensor -> Midst]
      <4>1. NextRound(p)
        BY <2>3 DEF Save
      <4> QED  BY <4>1 DEF NextRound, Midst
    <3>3. UNCHANGED <<faults, bootVars, clockVars, worker, wasSynced, corrected>>
      BY <2>3 DEF Save
    <3> QED  BY <3>1, <3>2, <3>3
  <2>4. CASE GiveUp(p)
    BY <2>4 DEF GiveUp, NextRound, Midst
  <2> QED  BY <1>1, <2>1, <2>2, <2>3, <2>4 DEF Sample
<1>2. ASSUME NEW p \in Sensor, SyncClock(p) PROVE TypeOK'
  <2>1. CASE RefreshFails(p)
    BY <2>1 DEF RefreshFails
  <2>2. CASE Adopt(p)
    <3>1. resynced' \in [Sensor -> Midst]
      <4>1. sampler[p] = "ready" \/ sampler[p] \in Midst
        BY DEF Midst
      <4> QED  BY <2>2, <4>1 DEF Adopt
    <3> QED  BY <2>2, <3>1 DEF Adopt, Usable, WasSynced
  <2>3. CASE MarkSynced(p)
    BY <2>3 DEF MarkSynced, Reference, ClockError
  <2>4. CASE SelectRows(p)
    BY <2>4, PickedRows DEF SelectRows
  <2>5. CASE RewriteRows(p)
    BY <2>5 DEF RewriteRows
  <2>6. CASE CorrectionFails(p)
    BY <2>6 DEF CorrectionFails, Fault
  <2> QED  BY <1>2, <2>1, <2>2, <2>3, <2>4, <2>5, <2>6 DEF SyncClock
<1>3. ASSUME NEW p \in Sensor, Upload(p) PROVE TypeOK'
  <2>1. CASE ReadRows(p)
    BY <2>1, PickedRows DEF ReadRows, Row
  <2>2. CASE SendFails(p)
    BY <2>2 DEF SendFails, Fault
  <2>3. CASE RetireRows(p)
    BY <2>3 DEF RetireRows
  <2>4. CASE \E answered \in BOOLEAN : Send(p, answered)
    BY <2>4 DEF Send, Fault
  <2> QED  BY <1>3, <2>1, <2>2, <2>3, <2>4 DEF Upload
<1>4. ASSUME NEW p \in Sensor, Restart(p) PROVE TypeOK'
  <2>1. Forget({p}) /\ UNCHANGED <<log, stored, bootVars>> /\ faults' \in 0 .. MaxFaults
    BY <1>4 DEF Restart, Fault
  <2> QED  BY <2>1, ForgetType
<1>5. CASE Publish
  BY <1>5 DEF Publish
<1>6. CASE Expire
  BY <1>6 DEF Expire
<1>7. CASE Reboot
  <2>1. /\ Forget(Sensor) /\ boot' \in 1 .. MaxBoots /\ sysError' \in Int
        /\ UNCHANGED <<log, stored, faults, published>>
    BY <1>7 DEF Reboot
  <2> QED  BY <2>1, ForgetType
<1>8. CASE UNCHANGED vars
  BY <1>8 DEF vars
<1> QED
  BY <1>1, <1>2, <1>3, <1>4, <1>5, <1>6, <1>7, <1>8 DEF Next

\* A clock believes only what was published in its boot.
LEMMA ClockStep == TrustInv /\ [Next]_vars => ClockInv'
<1> SUFFICES ASSUME TrustInv, [Next]_vars PROVE ClockInv'
  OBVIOUS
<1> USE TimeAssumption DEF TrustInv, ClockInv, ClockError, Usable, bootVars, clockVars, workVars
<1>0. /\ boot \in Int /\ sysError \in Int
      /\ published # None => published.offset \in Int /\ published.bootID \in Int
      /\ offset \in [Sensor -> Int] /\ synced \in [Sensor -> BOOLEAN]
      /\ ref \in [Sensor -> Int \cup {None}]
      /\ DOMAIN worker = Sensor
  BY DEF TypeOK
<1>1. ASSUME NEW p \in Sensor, Sample(p) PROVE ClockInv'
  BY <1>1 DEF Sample, Arm, Wake, Save, GiveUp
<1>2. ASSUME NEW p \in Sensor, SyncClock(p) PROVE ClockInv'
  <2>1. CASE RefreshFails(p)
    BY <1>0, <2>1 DEF RefreshFails
  <2>2. CASE Adopt(p)
    BY <1>0, <2>2 DEF Adopt
  <2>3. CASE MarkSynced(p)
    BY <1>0, <2>3 DEF MarkSynced, Reference
  <2>4. CASE SelectRows(p) \/ RewriteRows(p) \/ CorrectionFails(p)
    BY <1>0, <2>4 DEF SelectRows, RewriteRows, CorrectionFails
  <2> QED  BY <1>2, <2>1, <2>2, <2>3, <2>4 DEF SyncClock
<1>3. ASSUME NEW p \in Sensor, Upload(p) PROVE ClockInv'
  BY <1>0, <1>3 DEF Upload, ReadRows, SendFails, RetireRows, Send
<1>4. ASSUME NEW p \in Sensor, Restart(p) PROVE ClockInv'
  BY <1>0, <1>4 DEF Restart, Forget
<1>5. CASE Publish
  <2>1. PICK e \in PublishedError : published' = [offset |-> e - sysError, bootID |-> boot]
    BY <1>5 DEF Publish
  <2>2. sysError + (e - sysError) = e
    BY <1>0
  <2> QED  BY <1>0, <1>5, <2>1, <2>2 DEF Publish
<1>6. CASE Expire
  BY <1>6 DEF Expire
<1>7. CASE Reboot
  BY <1>0, <1>7 DEF Reboot, Forget
<1>8. CASE UNCHANGED vars
  BY <1>8 DEF vars
<1> QED
  BY <1>1, <1>2, <1>3, <1>4, <1>5, <1>6, <1>7, <1>8 DEF Next

\* The tick in hand comes from the clock in use.
LEMMA StampStep == TrustInv /\ [Next]_vars => StampInv'
<1> SUFFICES ASSUME TrustInv, [Next]_vars PROVE StampInv'
  OBVIOUS
<1> USE DEF TrustInv, StampInv, ClockError, bootVars, clockVars, sampleVars, workVars
<1>0. /\ offset \in [Sensor -> Int] /\ stamp \in [Sensor -> Int]
      /\ resynced \in [Sensor -> Midst] /\ synced \in [Sensor -> BOOLEAN]
      /\ DOMAIN sampler = Sensor /\ DOMAIN confidence = Sensor
  BY DEF TypeOK
<1>1. ASSUME NEW p \in Sensor, Sample(p) PROVE StampInv'
  <2>1. CASE Arm(p)
    BY <1>0, <2>1 DEF Arm
  <2>2. CASE Wake(p)
    <3>1. ASSUME confidence'[p] = "SYNCED" PROVE ClockError(p) \in PublishedError
      BY <1>0, <2>2, <3>1 DEF Wake, ConfidenceNow, ClockInv
    <3> QED  BY <1>0, <2>2, <3>1 DEF Wake
  <2>3. CASE Save(p) \/ GiveUp(p)
    BY <1>0, <2>3 DEF Save, GiveUp, NextRound
  <2> QED  BY <1>1, <2>1, <2>2, <2>3 DEF Sample
<1>2. ASSUME NEW p \in Sensor, SyncClock(p) PROVE StampInv'
  <2>1. CASE Adopt(p)
    <3>1. ASSUME NEW q \in Sensor, resynced'[q] # "waiting"
          PROVE  /\ resynced[q] # "waiting"
                 /\ q = p /\ sampler[q] = "waiting" => offset'[q] = offset[q]
      BY <1>0, <2>1, <3>1 DEF Adopt
    <3> QED  BY <1>0, <2>1, <3>1 DEF Adopt
  <2>2. CASE RefreshFails(p) \/ MarkSynced(p) \/ SelectRows(p) \/ RewriteRows(p)
               \/ CorrectionFails(p)
    BY <1>0, <2>2 DEF RefreshFails, MarkSynced, SelectRows, RewriteRows, CorrectionFails
  <2> QED  BY <1>2, <2>1, <2>2 DEF SyncClock
<1>3. ASSUME NEW p \in Sensor, Upload(p) PROVE StampInv'
  BY <1>0, <1>3 DEF Upload, ReadRows, SendFails, RetireRows, Send
<1>4. ASSUME NEW p \in Sensor, Restart(p) PROVE StampInv'
  <2>1. Forget({p}) /\ sysError' = sysError
    BY <1>4 DEF Restart
  <2>2. sampler'[p] = "ready"
    BY <2>1, ForgetEffect
  <2>3. ASSUME NEW q \in Sensor, q # p
        PROVE  /\ sampler'[q] = sampler[q] /\ stamp'[q] = stamp[q] /\ offset'[q] = offset[q]
               /\ confidence'[q] = confidence[q] /\ resynced'[q] = resynced[q]
    <3>1. /\ sampler' = [r \in Sensor |-> IF r \in {p} THEN "ready" ELSE sampler[r]]
          /\ stamp' = [r \in Sensor |-> IF r \in {p} THEN 0 ELSE stamp[r]]
          /\ offset' = [r \in Sensor |-> IF r \in {p} THEN 0 ELSE offset[r]]
      BY <2>1, ForgetEffect
    <3>2. /\ confidence' = [r \in Sensor |-> IF r \in {p} THEN "ESTIMATED" ELSE confidence[r]]
          /\ resynced' = [r \in Sensor |-> IF r \in {p} THEN "no" ELSE resynced[r]]
      BY <2>1, ForgetEffect
    <3> QED  BY ONLY <2>3, <3>1, <3>2
  <2>4. ASSUME NEW q \in Sensor, q # p, resynced'[q] # "waiting"
        PROVE  /\ sampler'[q] = "waiting" => stamp'[q] = sysError' + offset'[q]
               /\ sampler'[q] = "reading" /\ confidence'[q] = "SYNCED" => stamp'[q] \in PublishedError
    BY <2>1, <2>3, <2>4
  <2> QED  BY <2>2, <2>4
<1>7. CASE Reboot
  <2>1. \A q \in Sensor : sampler'[q] = "ready"
    BY <1>7, ForgetEffect DEF Reboot
  <2> QED  BY <2>1
<1>5. CASE Publish \/ Expire
  BY <1>5 DEF Publish, Expire
<1>6. CASE UNCHANGED vars
  BY <1>6 DEF vars
<1> QED
  BY <1>1, <1>2, <1>3, <1>4, <1>5, <1>6, <1>7 DEF Next

\* A correction in progress has its reference and picks rows of this boot.
LEMMA CorrectionStep == TrustInv /\ LogEffect /\ [Next]_vars => CorrectionInv'
<1> SUFFICES ASSUME TrustInv, LogEffect, [Next]_vars PROVE CorrectionInv'
  OBVIOUS
<1> USE DEF CorrectionInv, bootVars, clockVars, sampleVars, workVars
<1>0. /\ ref \in [Sensor -> Int \cup {None}] /\ DOMAIN worker = Sensor
      /\ chosen \in [Sensor -> SUBSET (DOMAIN log)]
      /\ sysError \in Int /\ offset \in [Sensor -> Int]
      /\ CorrectionInv
  BY DEF TrustInv, TypeOK
<1>1. \A i \in DOMAIN log : log'[i].bootID = log[i].bootID
  BY DEF LogEffect
<1>2. ASSUME NEW p \in Sensor, Sample(p) PROVE CorrectionInv'
  BY <1>0, <1>1, <1>2 DEF Sample, Arm, Wake, Save, GiveUp
<1>3. ASSUME NEW p \in Sensor, SyncClock(p) PROVE CorrectionInv'
  <2>1. CASE RefreshFails(p)
    BY <1>0, <2>1 DEF RefreshFails
  <2>2. CASE Adopt(p)
    BY <1>0, <2>2 DEF Adopt
  <2>3. CASE MarkSynced(p)
    <3>1. ref'[p] # None
      BY <1>0, <2>3, TimeAssumption DEF MarkSynced, Reference, ClockError
    <3> QED  BY <1>0, <2>3, <3>1 DEF MarkSynced
  <2>4. CASE SelectRows(p)
    BY <1>0, <2>4, PickedRows DEF SelectRows
  <2>5. CASE RewriteRows(p)
    BY <1>0, <1>1, <2>5 DEF RewriteRows
  <2>6. CASE CorrectionFails(p)
    BY <1>0, <2>6 DEF CorrectionFails
  <2> QED  BY <1>3, <2>1, <2>2, <2>3, <2>4, <2>5, <2>6 DEF SyncClock
<1>4. ASSUME NEW p \in Sensor, Upload(p) PROVE CorrectionInv'
  BY <1>0, <1>1, <1>4 DEF Upload, ReadRows, SendFails, RetireRows, Send
<1>5. ASSUME NEW p \in Sensor, Restart(p) PROVE CorrectionInv'
  <2>1. Forget({p}) /\ boot' = boot /\ log' = log
    BY <1>5 DEF Restart
  <2>2. /\ worker' = [r \in Sensor |-> IF r \in {p} THEN "idle" ELSE worker[r]]
        /\ ref' = [r \in Sensor |-> IF r \in {p} THEN None ELSE ref[r]]
        /\ chosen' = [r \in Sensor |-> IF r \in {p} THEN {} ELSE chosen[r]]
    BY <2>1, ForgetEffect
  <2> QED  BY <1>0, <2>1, <2>2
<1>6. CASE Reboot
  <2>1. Forget(Sensor)
    BY <1>6 DEF Reboot
  <2>2. /\ worker' = [r \in Sensor |-> IF r \in Sensor THEN "idle" ELSE worker[r]]
        /\ chosen' = [r \in Sensor |-> IF r \in Sensor THEN {} ELSE chosen[r]]
    BY <2>1, ForgetEffect
  <2> QED  BY <2>2
<1>7. CASE Publish \/ Expire
  BY <1>0, <1>7 DEF Publish, Expire
<1>8. CASE UNCHANGED vars
  BY <1>0, <1>8 DEF vars
<1> QED
  BY <1>2, <1>3, <1>4, <1>5, <1>6, <1>7, <1>8 DEF Next

\* The times on their way to the backend, or there.
InTransit == stored \cup UNION {sending[p] : p \in Sensor}

\* A time that leaves the Pi is the row's, and a row's time changes by a
\* correction only.
LEMMA SentStep == TrustInv /\ LogEffect /\ [Next]_vars => SentInv'
<1> SUFFICES ASSUME TrustInv, LogEffect, [Next]_vars PROVE SentInv'
  OBVIOUS
<1>0. /\ sending \in [Sensor -> SUBSET ((DOMAIN log) \X Int)]
      /\ stored \subseteq (DOMAIN log) \X Int
  BY DEF TrustInv, TypeOK
<1>1. \A r \in InTransit : r[1] \in DOMAIN log
  BY <1>0 DEF InTransit
<1>2. \A r \in InTransit : r[2] = log[r[1]].error \/ log[r[1]].timeConfidence = "CORRECTED"
  BY DEF TrustInv, SentInv, InTransit
<1>3. \A r \in InTransit : r[2] = log'[r[1]].error \/ log'[r[1]].timeConfidence = "CORRECTED"
  BY <1>1, <1>2 DEF LogEffect
<1>4. ASSUME \A p \in Sensor : sending'[p] \subseteq InTransit, stored' \subseteq InTransit
      PROVE  SentInv'
  BY <1>3, <1>4 DEF SentInv
<1>5. ASSUME UNCHANGED <<sending, stored>> PROVE SentInv'
  BY <1>3, <1>5 DEF SentInv, InTransit
<1>6. ASSUME NEW p \in Sensor, Sample(p) PROVE SentInv'
  BY <1>5, <1>6 DEF Sample, Arm, Wake, Save, GiveUp, workVars
<1>7. ASSUME NEW p \in Sensor, SyncClock(p) PROVE SentInv'
  BY <1>5, <1>7 DEF SyncClock, RefreshFails, Adopt, MarkSynced, SelectRows, RewriteRows,
                    CorrectionFails, workVars
<1>8. ASSUME NEW p \in Sensor, Upload(p) PROVE SentInv'
  <2>1. CASE ReadRows(p)
    <3>1. /\ stored' = stored /\ log' = log
          /\ \A q \in Sensor : sending'[q] \subseteq InTransit
                 \/ \A r \in sending'[q] : r[2] = log[r[1]].error
      BY <1>0, <2>1 DEF ReadRows, InTransit
    <3> QED  BY <1>3, <3>1 DEF SentInv, InTransit
  <2>2. CASE SendFails(p)
    <3>1. stored' = stored /\ \A q \in Sensor : sending'[q] \subseteq sending[q]
      BY <1>0, <2>2 DEF SendFails
    <3> QED  BY <1>4, <3>1 DEF InTransit
  <2>3. CASE RetireRows(p)
    <3>1. stored' = stored /\ \A q \in Sensor : sending'[q] \subseteq sending[q]
      BY <1>0, <2>3 DEF RetireRows
    <3> QED  BY <1>4, <3>1 DEF InTransit
  <2>4. CASE \E answered \in BOOLEAN : Send(p, answered)
    <3>1. stored' = stored \cup sending[p] /\ \A q \in Sensor : sending'[q] \subseteq sending[q]
      BY <1>0, <2>4 DEF Send
    <3> QED  BY <1>4, <3>1 DEF InTransit
  <2> QED  BY <1>8, <2>1, <2>2, <2>3, <2>4 DEF Upload
<1>9. ASSUME NEW procs, Forget(procs), stored' = stored PROVE SentInv'
  <2>1. sending' = [r \in Sensor |-> IF r \in procs THEN {} ELSE sending[r]]
    BY <1>9, ForgetEffect
  <2>2. \A q \in Sensor : sending'[q] \subseteq sending[q]
    BY <2>1
  <2> QED  BY <1>4, <1>9, <2>2 DEF InTransit
<1>10. CASE (\E p \in Sensor : Restart(p)) \/ Reboot
  BY <1>9, <1>10 DEF Restart, Reboot
<1>11. CASE Publish \/ Expire
  BY <1>5, <1>11 DEF Publish, Expire, workVars
<1>12. CASE UNCHANGED vars
  BY <1>5, <1>12 DEF vars, workVars
<1> QED
  BY <1>6, <1>7, <1>8, <1>10, <1>11, <1>12 DEF Next

-----------------------------------------------------------------------------
(* The theorems.                                                           *)

\* The invariant holds at the start: nothing is stored, nothing is believed.
LEMMA InitTrust == Init => TrustInv
<1> SUFFICES ASSUME Init PROVE TrustInv
  OBVIOUS
<1>1. /\ log \in [DOMAIN log -> Row] /\ DOMAIN log = {}
      /\ boot \in 1 .. MaxBoots /\ sysError \in Int /\ faults \in 0 .. MaxFaults
      /\ stored \subseteq (DOMAIN log) \X Int
  BY TimeAssumption DEF Init
<1>2. /\ published \in [offset : Int, bootID : Nat] \cup {None}
      /\ offset \in [Sensor -> Int] /\ ref \in [Sensor -> Int \cup {None}]
      /\ stamp \in [Sensor -> Int]
  BY DEF Init
<1>3. synced \in [Sensor -> BOOLEAN] /\ corrected \in [Sensor -> BOOLEAN]
  BY DEF Init
<1>4. resynced \in [Sensor -> Midst] /\ wasSynced \in [Sensor -> BOOLEAN]
  BY DEF Init, Midst
<1>5. /\ sampler \in [Sensor -> {"ready", "waiting", "reading"}]
      /\ confidence \in [Sensor -> {"SYNCED", "ESTIMATED"}]
      /\ worker \in [Sensor -> {"idle", "adopting", "correcting", "rewriting",
                                "sending", "retiring"}]
  BY DEF Init
<1>6. /\ chosen \in [Sensor -> SUBSET (DOMAIN log)]
      /\ sending \in [Sensor -> SUBSET ((DOMAIN log) \X Int)]
  BY DEF Init
<1>7. TypeOK
  BY <1>1, <1>2, <1>3, <1>4, <1>5, <1>6 DEF TypeOK
<1>8. ClockInv
  BY DEF Init, ClockInv, Usable
<1>9. StampInv /\ CorrectionInv
  BY DEF Init, StampInv, CorrectionInv
<1>10. SentInv /\ CorrectedIsTrue /\ SyncedUnlessResynced
  BY <1>1 DEF Init, SentInv, CorrectedIsTrue, SyncedUnlessResynced
<1> QED
  BY <1>7, <1>8, <1>9, <1>10 DEF TrustInv

\* TrustInv is an invariant of any number of processes, boots and readings.
THEOREM TrustInvariant == Spec => []TrustInv
<1>1. TrustInv /\ [Next]_vars => TrustInv'
  BY LogStep, MarksStep, TypeStep, ClockStep, StampStep, CorrectionStep, SentStep DEF TrustInv
<1> QED
  BY InitTrust, <1>1, PTL DEF Spec

\* CORRECTED can be believed: the arithmetic of correct_boot_timestamps() is
\* only ever applied with a reference pair of the boot that wrote the row.
THEOREM CorrectedTrusted == Spec => []CorrectedIsTrue
<1>1. TrustInv => CorrectedIsTrue
  BY DEF TrustInv
<1> QED
  BY TrustInvariant, <1>1, PTL

\* SYNCED can be believed, except for a tick whose wait a sync interrupted.
THEOREM SyncedTrusted == Spec => []SyncedUnlessResynced
<1>1. TrustInv => SyncedUnlessResynced
  BY DEF TrustInv
<1> QED
  BY TrustInvariant, <1>1, PTL

\* A reading the backend holds under two times has been corrected.
THEOREM RepeatsExplained == Spec => []RepeatsOnlyByCorrection
<1>1. TrustInv => RepeatsOnlyByCorrection
  <2> SUFFICES ASSUME TrustInv, NEW r \in stored, NEW q \in stored, r[1] = q[1], r # q
               PROVE  log[r[1]].timeConfidence = "CORRECTED"
    BY DEF RepeatsOnlyByCorrection
  <2>1. r \in (DOMAIN log) \X Int /\ q \in (DOMAIN log) \X Int
    BY DEF TrustInv, TypeOK
  <2>2. r[2] # q[2]
    BY <2>1
  <2> QED  BY <2>2 DEF TrustInv, SentInv
<1> QED
  BY TrustInvariant, <1>1, PTL

-----------------------------------------------------------------------------
(* The rows that a correction leaves behind.                               *)

\* A reading in hand that no offset came for has the error of the clock, and a
\* clock that has a reference keeps a published offset.
ReferenceInv ==
  \A p \in Sensor :
    /\ resynced[p] = "no" /\ sampler[p] # "ready" => stamp[p] = ClockError(p)
    /\ ref[p] # None \/ worker[p] = "adopting" => ClockError(p) \in PublishedError
    /\ corrected[p] => ref[p] # None

\* Row i, of process p and this boot, has a wrong time that p could have known.
Overlooked(p, i) ==
  /\ i \in Unsent(log) /\ log[i].source = p /\ log[i].bootID = boot
  /\ log[i].timeConfidence = "ESTIMATED" /\ log[i].resynced = "no"
  /\ ~IsTrue(log[i])

\* Such a row waits for the correction of its process: it has not run, or it
\* has selected the row.
OverlookedInv ==
  /\ \A i \in DOMAIN log : log[i].bootID <= boot
  /\ \A p \in Sensor, i \in DOMAIN log : Overlooked(p, i) =>
       ~corrected[p] /\ (worker[p] = "rewriting" => i \in chosen[p])

BehindInv == ReferenceInv /\ OverlookedInv

\* Stamps and references.
LEMMA ReferenceStep == TrustInv /\ ReferenceInv /\ [Next]_vars => ReferenceInv'
<1> SUFFICES ASSUME TrustInv, ReferenceInv, [Next]_vars PROVE ReferenceInv'
  OBVIOUS
<1> USE DEF TrustInv, ReferenceInv, ClockError, bootVars, clockVars, sampleVars, workVars
<1>0. /\ offset \in [Sensor -> Int] /\ stamp \in [Sensor -> Int]
      /\ resynced \in [Sensor -> Midst] /\ synced \in [Sensor -> BOOLEAN]
      /\ corrected \in [Sensor -> BOOLEAN] /\ ref \in [Sensor -> Int \cup {None}]
      /\ DOMAIN sampler = Sensor /\ DOMAIN confidence = Sensor /\ DOMAIN worker = Sensor
  BY DEF TypeOK
<1>1. ASSUME NEW p \in Sensor, Sample(p) PROVE ReferenceInv'
  BY <1>0, <1>1 DEF Sample, Arm, Wake, Save, GiveUp, NextRound
<1>2. ASSUME NEW p \in Sensor, SyncClock(p) PROVE ReferenceInv'
  <2>1. CASE Adopt(p)
    <3>1. offset'[p] = published.offset /\ sysError + published.offset \in PublishedError
      BY <1>0, <2>1 DEF Adopt, ClockInv
    <3>2. resynced'[p] = "no" /\ sampler[p] # "ready" => resynced[p] = "no" /\ offset'[p] = offset[p]
      <4>1. sampler[p] # "no"
        BY DEF TypeOK
      <4>2. resynced'[p] = IF published.offset = offset[p] \/ sampler[p] = "ready"
                              \/ resynced[p] = "waiting"
                           THEN resynced[p] ELSE sampler[p]
        BY <1>0, <2>1 DEF Adopt
      <4> QED  BY <3>1, <4>1, <4>2
    <3>3. \A q \in Sensor : q # p => /\ offset'[q] = offset[q] /\ resynced'[q] = resynced[q]
                                     /\ worker'[q] = worker[q]
      BY <1>0, <2>1 DEF Adopt
    <3>4. UNCHANGED <<sysError, sampler, stamp, ref, corrected>>
      BY <2>1 DEF Adopt
    <3> QED  BY <3>1, <3>2, <3>3, <3>4
  <2>2. CASE MarkSynced(p)
    BY <1>0, <2>2 DEF MarkSynced
  <2>3. CASE RewriteRows(p)
    BY <1>0, <2>3 DEF RewriteRows, CorrectionInv
  <2>4. CASE RefreshFails(p) \/ SelectRows(p) \/ CorrectionFails(p)
    BY <1>0, <2>4 DEF RefreshFails, SelectRows, CorrectionFails
  <2> QED  BY <1>2, <2>1, <2>2, <2>3, <2>4 DEF SyncClock
<1>3. ASSUME NEW p \in Sensor, Upload(p) PROVE ReferenceInv'
  BY <1>0, <1>3 DEF Upload, ReadRows, SendFails, RetireRows, Send
<1>4. ASSUME NEW procs, Forget(procs), sysError' = sysError \/ procs = Sensor
      PROVE  ReferenceInv'
  <2>1. ASSUME NEW q \in Sensor, q \in procs
        PROVE  /\ sampler'[q] = "ready" /\ worker'[q] = "idle" /\ ref'[q] = None
               /\ ~corrected'[q]
    BY <1>4, <2>1, ForgetEffect
  <2>2. ASSUME NEW q \in Sensor, q \notin procs
        PROVE  /\ sampler'[q] = sampler[q] /\ worker'[q] = worker[q] /\ ref'[q] = ref[q]
               /\ corrected'[q] = corrected[q] /\ stamp'[q] = stamp[q]
               /\ resynced'[q] = resynced[q] /\ offset'[q] = offset[q]
    <3>1. /\ sampler' = [r \in Sensor |-> IF r \in procs THEN "ready" ELSE sampler[r]]
          /\ worker' = [r \in Sensor |-> IF r \in procs THEN "idle" ELSE worker[r]]
          /\ ref' = [r \in Sensor |-> IF r \in procs THEN None ELSE ref[r]]
          /\ corrected' = [r \in Sensor |-> IF r \in procs THEN FALSE ELSE corrected[r]]
      BY <1>4, ForgetEffect
    <3>2. /\ stamp' = [r \in Sensor |-> IF r \in procs THEN 0 ELSE stamp[r]]
          /\ resynced' = [r \in Sensor |-> IF r \in procs THEN "no" ELSE resynced[r]]
          /\ offset' = [r \in Sensor |-> IF r \in procs THEN 0 ELSE offset[r]]
      BY <1>4, ForgetEffect
    <3> QED  BY ONLY <2>2, <3>1, <3>2
  <2> QED  BY <1>4, <2>1, <2>2
<1>5. CASE (\E p \in Sensor : Restart(p)) \/ Reboot
  BY <1>4, <1>5 DEF Restart, Reboot
<1>6. CASE Publish \/ Expire
  BY <1>6 DEF Publish, Expire
<1>7. CASE UNCHANGED vars
  BY <1>7 DEF vars
<1> QED
  BY <1>1, <1>2, <1>3, <1>5, <1>6, <1>7 DEF Next

\* A row that is overlooked after a step that saves nothing was so before.
LEMMA OverlookedBefore ==
  ASSUME TrustInv, OverlookedInv, DOMAIN log' = DOMAIN log, boot' = boot,
         \A i \in DOMAIN log :
           \/ /\ log'[i].error = log[i].error /\ log'[i].bootID = log[i].bootID
              /\ log'[i].timeConfidence = log[i].timeConfidence
              /\ log'[i].resynced = log[i].resynced /\ log'[i].source = log[i].source
              /\ log[i].uploaded => log'[i].uploaded
           \/ log'[i].timeConfidence = "CORRECTED" /\ log'[i].bootID = log[i].bootID
  PROVE  /\ \A i \in DOMAIN log' : log'[i].bootID <= boot'
         /\ \A p \in Sensor, i \in DOMAIN log' :
              Overlooked(p, i)' => Overlooked(p, i) /\ log'[i].timeConfidence # "CORRECTED"
<1>1. \A i \in DOMAIN log' : log'[i].bootID = log[i].bootID
  OBVIOUS
<1>2. ASSUME NEW p \in Sensor, NEW i \in DOMAIN log', Overlooked(p, i)'
      PROVE  Overlooked(p, i) /\ log'[i].timeConfidence # "CORRECTED"
  BY <1>2 DEF Overlooked, Unsent, IsTrue
<1> QED
  BY <1>1, <1>2 DEF OverlookedInv

\* The rows that are left behind.
LEMMA OverlookedStep == TrustInv /\ BehindInv /\ [Next]_vars => OverlookedInv'
<1> SUFFICES ASSUME TrustInv, BehindInv, [Next]_vars PROVE OverlookedInv'
  OBVIOUS
<1>0. /\ OverlookedInv /\ ReferenceInv /\ CorrectionInv /\ LogType
      /\ boot \in Nat /\ corrected \in [Sensor -> BOOLEAN]
      /\ chosen \in [Sensor -> SUBSET (DOMAIN log)] /\ DOMAIN worker = Sensor
  BY DEF BehindInv, TrustInv, TypeOK, LogType
<1> USE DEF bootVars, clockVars, sampleVars, workVars
<1>1. ASSUME log' = log, boot' = boot,
             \A p \in Sensor : /\ corrected'[p] => corrected[p]
                               /\ worker'[p] = "rewriting" =>
                                    worker[p] = "rewriting" /\ chosen[p] \subseteq chosen'[p]
      PROVE  OverlookedInv'
  <2>1. \A p \in Sensor, i \in DOMAIN log : Overlooked(p, i)' <=> Overlooked(p, i)
    BY <1>1 DEF Overlooked, IsTrue
  <2> QED  BY <1>0, <1>1, <2>1 DEF OverlookedInv
<1>2. ASSUME NEW p \in Sensor, Save(p) PROVE OverlookedInv'
  <2> DEFINE row == [stream |-> "DHT", source |-> p, uploaded |-> FALSE, bootID |-> boot,
                     error |-> stamp[p], timeConfidence |-> confidence[p],
                     resynced |-> resynced[p]]
  <2>1. PICK id \in 1 .. MaxReadings :
          id \notin DOMAIN log /\ log' = SaveReading(log, id, row)
    BY <1>2 DEF Save, IsNextID
  <2>2. /\ DOMAIN log' = DOMAIN log \cup {id} /\ log'[id] = row
        /\ \A i \in DOMAIN log : log'[i] = log[i]
    BY <2>1 DEF SaveReading
  <2>3. sampler[p] = "reading" /\ boot' = boot
        /\ UNCHANGED <<worker, corrected, chosen>>
    BY <1>2 DEF Save
  <2>4. ASSUME resynced[p] = "no", stamp[p] \notin PublishedError
        PROVE  ~corrected[p] /\ worker[p] # "rewriting"
    BY <1>0, <2>3, <2>4 DEF ReferenceInv, CorrectionInv
  <2>5. ASSUME NEW q \in Sensor, Overlooked(q, id)'
        PROVE  ~corrected[q] /\ worker[q] # "rewriting"
    <3>1. q = p /\ resynced[p] = "no" /\ stamp[p] \notin PublishedError
      BY <2>2, <2>5 DEF Overlooked, IsTrue
    <3> QED  BY <2>4, <3>1
  <2>6. ASSUME NEW q \in Sensor, NEW i \in DOMAIN log, Overlooked(q, i)' PROVE Overlooked(q, i)
    BY <2>2, <2>3, <2>6 DEF Overlooked, Unsent, IsTrue
  <2>7. \A i \in DOMAIN log' : log'[i].bootID <= boot'
    BY <1>0, <2>2, <2>3 DEF OverlookedInv
  <2> QED  BY <1>0, <2>2, <2>3, <2>5, <2>6, <2>7 DEF OverlookedInv
<1>3. ASSUME NEW p \in Sensor, RewriteRows(p) PROVE OverlookedInv'
  <2> DEFINE e == [i \in chosen[p] |-> ReconstructedError(p, i)]
  <2>1. /\ log' = CorrectRows(log, e) /\ boot' = boot /\ worker[p] = "rewriting"
        /\ corrected' = [corrected EXCEPT ![p] = TRUE]
        /\ worker' = [worker EXCEPT ![p] = "idle"] /\ chosen' = [chosen EXCEPT ![p] = {}]
    BY <1>3 DEF RewriteRows
  <2>2. DOMAIN e = chosen[p] /\ chosen[p] \subseteq DOMAIN log
    BY <1>0
  <2> HIDE DEF e
  <2>3. DOMAIN log' = DOMAIN log
    BY <2>1 DEF CorrectRows
  <2>4. ASSUME NEW i \in DOMAIN log
        PROVE  /\ i \notin chosen[p] => log'[i] = log[i]
               /\ i \in chosen[p] => log'[i].timeConfidence = "CORRECTED"
                                     /\ log'[i].bootID = log[i].bootID
    <3>1. log[i] \in Row
      BY <1>0 DEF LogType
    <3> QED  BY <2>1, <2>2, <3>1 DEF CorrectRows, Row
  <2>5. /\ \A i \in DOMAIN log' : log'[i].bootID <= boot'
        /\ \A q \in Sensor, i \in DOMAIN log' :
             Overlooked(q, i)' => Overlooked(q, i) /\ log'[i].timeConfidence # "CORRECTED"
    BY <1>0, <2>1, <2>3, <2>4, OverlookedBefore
  <2>6. ASSUME NEW q \in Sensor, NEW i \in DOMAIN log', Overlooked(q, i)'
        PROVE  ~corrected'[q] /\ (worker'[q] = "rewriting" => i \in chosen'[q])
    <3>1. Overlooked(q, i) /\ i \notin chosen[p]
      BY <2>3, <2>4, <2>5, <2>6
    <3>2. q # p
      BY <1>0, <2>1, <2>3, <3>1 DEF OverlookedInv
    <3> QED  BY <1>0, <2>1, <2>3, <3>1, <3>2 DEF OverlookedInv
  <2> QED  BY <2>5, <2>6 DEF OverlookedInv
<1>4. ASSUME NEW p \in Sensor, SelectRows(p) PROVE OverlookedInv'
  <2>1. /\ log' = log /\ boot' = boot /\ corrected' = corrected
        /\ chosen' = [chosen EXCEPT ![p] = Correctable(log, boot)]
        /\ worker' = [worker EXCEPT ![p] = "rewriting"]
    BY <1>4 DEF SelectRows
  <2>2. \A q \in Sensor, i \in DOMAIN log :
          /\ Overlooked(q, i)' <=> Overlooked(q, i)
          /\ Overlooked(q, i) => i \in Correctable(log, boot)
    BY <2>1 DEF Overlooked, IsTrue, Correctable
  <2> QED  BY <1>0, <2>1, <2>2 DEF OverlookedInv
<1>5. ASSUME NEW p \in Sensor, RetireRows(p) PROVE OverlookedInv'
  <2>1. /\ log' = MarkUploadedMany(log, {r[1] : r \in sending[p]})
        /\ boot' = boot /\ UNCHANGED <<corrected, chosen>>
        /\ worker' = [worker EXCEPT ![p] = "idle"]
    BY <1>5 DEF RetireRows
  <2>2. DOMAIN log' = DOMAIN log
    BY <2>1 DEF MarkUploadedMany
  <2>3. ASSUME NEW i \in DOMAIN log
        PROVE  /\ log'[i].error = log[i].error /\ log'[i].bootID = log[i].bootID
               /\ log'[i].timeConfidence = log[i].timeConfidence
               /\ log'[i].resynced = log[i].resynced /\ log'[i].source = log[i].source
               /\ log[i].uploaded => log'[i].uploaded
    <3>1. log[i] \in Row
      BY <1>0 DEF LogType
    <3> QED  BY <2>1, <3>1 DEF MarkUploadedMany, Row
  <2>4. /\ \A i \in DOMAIN log' : log'[i].bootID <= boot'
        /\ \A q \in Sensor, i \in DOMAIN log' : Overlooked(q, i)' => Overlooked(q, i)
    BY <1>0, <2>1, <2>2, <2>3, OverlookedBefore
  <2>5. \A q \in Sensor : worker'[q] = "rewriting" => worker[q] = "rewriting"
    BY <1>0, <2>1
  <2> QED  BY <1>0, <2>1, <2>2, <2>4, <2>5 DEF OverlookedInv
<1>6. ASSUME NEW p \in Sensor, Arm(p) \/ Wake(p) \/ GiveUp(p) PROVE OverlookedInv'
  BY <1>1, <1>6 DEF Arm, Wake, GiveUp
<1>7. ASSUME NEW p \in Sensor, RefreshFails(p) \/ Adopt(p) \/ MarkSynced(p) \/ CorrectionFails(p)
      PROVE  OverlookedInv'
  BY <1>0, <1>1, <1>7 DEF RefreshFails, Adopt, MarkSynced, CorrectionFails
<1>8. ASSUME NEW p \in Sensor, ReadRows(p) \/ SendFails(p) \/ (\E a \in BOOLEAN : Send(p, a))
      PROVE  OverlookedInv'
  BY <1>0, <1>1, <1>8 DEF ReadRows, SendFails, Send
<1>9. ASSUME NEW p \in Sensor, Restart(p) PROVE OverlookedInv'
  <2>1. Forget({p}) /\ boot' = boot /\ log' = log
    BY <1>9 DEF Restart
  <2>2. /\ worker' = [r \in Sensor |-> IF r \in {p} THEN "idle" ELSE worker[r]]
        /\ corrected' = [r \in Sensor |-> IF r \in {p} THEN FALSE ELSE corrected[r]]
        /\ chosen' = [r \in Sensor |-> IF r \in {p} THEN {} ELSE chosen[r]]
    BY <2>1, ForgetEffect
  <2> QED  BY <1>0, <1>1, <2>1, <2>2
<1>10. CASE Reboot
  <2>1. log' = log /\ boot' = boot + 1
    BY <1>10 DEF Reboot
  <2>2. \A i \in DOMAIN log : log[i].bootID \in Nat
    BY <1>0 DEF LogType, Row
  <2>3. \A i \in DOMAIN log : log[i].bootID <= boot' /\ log[i].bootID # boot'
    BY <1>0, <2>1, <2>2 DEF OverlookedInv
  <2> QED  BY <2>1, <2>3 DEF OverlookedInv, Overlooked
<1>11. CASE Publish \/ Expire
  BY <1>1, <1>11 DEF Publish, Expire
<1>12. CASE UNCHANGED vars
  BY <1>1, <1>12 DEF vars
<1> QED
  BY <1>2, <1>3, <1>4, <1>5, <1>6, <1>7, <1>8, <1>9, <1>10, <1>11, <1>12
     DEF Next, Sample, SyncClock, Upload

\* A process that has corrected its rows leaves a wrong ESTIMATED time behind
\* only for a reading that was in hand when its offset changed.
THEOREM OnlyInHandOverlooked == Spec => []EstimatedUnlessInHand
<1>1. Init => BehindInv
  BY DEF Init, BehindInv, ReferenceInv, OverlookedInv
<1>2. TrustInv /\ BehindInv /\ [Next]_vars => BehindInv'
  BY ReferenceStep, OverlookedStep DEF BehindInv
<1>3. BehindInv => EstimatedUnlessInHand
  BY DEF BehindInv, OverlookedInv, Overlooked, EstimatedUnlessInHand, Unsent
<1> QED
  BY <1>1, <1>2, <1>3, TrustInvariant, PTL DEF Spec

\* Without a fault, being synced means having corrected.
CorrectionDone ==
  faults = 0 =>
    \A p \in Sensor :
      /\ synced[p] => corrected[p] \/ worker[p] \in {"correcting", "rewriting"}
      /\ wasSynced[p] => corrected[p]

\* Only a fault takes a correction away that is due.
LEMMA CorrectionDoneStep == TypeOK /\ CorrectionDone /\ [Next]_vars => CorrectionDone'
<1> SUFFICES ASSUME TypeOK, CorrectionDone, [Next]_vars, faults' = 0,
                    NEW p \in Sensor
             PROVE  /\ synced'[p] => corrected'[p] \/ worker'[p] \in {"correcting", "rewriting"}
                    /\ wasSynced'[p] => corrected'[p]
  BY DEF CorrectionDone
<1>0. /\ synced \in [Sensor -> BOOLEAN] /\ wasSynced \in [Sensor -> BOOLEAN]
      /\ corrected \in [Sensor -> BOOLEAN] /\ DOMAIN worker = Sensor /\ faults \in Nat
  BY TimeAssumption DEF TypeOK
<1>1. ~Fault
  BY <1>0 DEF Fault
<1> USE DEF CorrectionDone, bootVars, clockVars, sampleVars, workVars
<1>2. CASE UNCHANGED <<faults, synced, wasSynced, corrected, worker>>
  BY <1>2
<1>3. ASSUME NEW q \in Sensor, Sample(q) PROVE UNCHANGED <<faults, synced, wasSynced, corrected, worker>>
  BY <1>3 DEF Sample, Arm, Wake, Save, GiveUp
<1>4. ASSUME NEW q \in Sensor, SyncClock(q)
      PROVE  /\ synced'[p] => corrected'[p] \/ worker'[p] \in {"correcting", "rewriting"}
             /\ wasSynced'[p] => corrected'[p]
  <2>1. CASE RefreshFails(q)
    BY <1>0, <2>1 DEF RefreshFails
  <2>2. CASE Adopt(q)
    BY <1>0, <2>2 DEF Adopt, WasSynced
  <2>3. CASE MarkSynced(q)
    BY <1>0, <2>3 DEF MarkSynced
  <2>4. CASE SelectRows(q)
    BY <1>0, <2>4 DEF SelectRows
  <2>5. CASE RewriteRows(q)
    BY <1>0, <2>5 DEF RewriteRows
  <2>6. CASE CorrectionFails(q)
    BY <1>1, <2>6 DEF CorrectionFails
  <2> QED  BY <1>4, <2>1, <2>2, <2>3, <2>4, <2>5, <2>6 DEF SyncClock
<1>5. ASSUME NEW q \in Sensor, Upload(q)
      PROVE  /\ synced'[p] => corrected'[p] \/ worker'[p] \in {"correcting", "rewriting"}
             /\ wasSynced'[p] => corrected'[p]
  BY <1>0, <1>1, <1>5 DEF Upload, ReadRows, Send, SendFails, RetireRows
<1>6. CASE Reboot
  <2>1. synced'[p] = FALSE /\ wasSynced'[p] = FALSE
    BY <1>6 DEF Reboot, Forget
  <2> QED  BY <2>1
<1>7. CASE Publish \/ Expire \/ UNCHANGED vars
  BY <1>2, <1>7 DEF Publish, Expire, vars
<1> QED
  BY <1>1, <1>2, <1>3, <1>4, <1>5, <1>6, <1>7 DEF Next, Restart

\* Only a fault, a correction that failed for one, leaves a wrong ESTIMATED time
\* on a reading of a synced process that was not in hand when its offset changed.
THEOREM WrongByFaultOnly == Spec => []WrongOnlyByFault
<1>1. Init => BehindInv /\ CorrectionDone
  BY DEF Init, BehindInv, ReferenceInv, OverlookedInv, CorrectionDone
<1>2. TrustInv /\ BehindInv /\ [Next]_vars => BehindInv'
  BY ReferenceStep, OverlookedStep DEF BehindInv
<1>3. TrustInv /\ CorrectionDone /\ [Next]_vars => CorrectionDone'
  BY CorrectionDoneStep DEF TrustInv
<1>4. BehindInv /\ CorrectionDone => WrongOnlyByFault
  BY DEF BehindInv, OverlookedInv, Overlooked, CorrectionDone, WrongOnlyByFault, Unsent
<1> QED
  BY <1>1, <1>2, <1>3, <1>4, TrustInvariant, PTL DEF Spec

=============================================================================
