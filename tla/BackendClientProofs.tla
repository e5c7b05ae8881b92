------------------------ MODULE BackendClientProofs ------------------------
(***************************************************************************)
(* Proofs about BackendClient, for any number of sensors, backends,        *)
(* readings and faults.                                                    *)
(***************************************************************************)
EXTENDS BackendClient, FiniteSetTheorems, TLAPS

-----------------------------------------------------------------------------
(* What the cache operations return.                                       *)

\* get_unsent() returns drainable rows, the oldest ones: a drainable row older
\* than one it returns is returned too.
LEMMA GetUnsentIsOldest ==
  ASSUME NEW log, NEW stream, NEW source, NEW limit \in Nat,
         IsFiniteSet(DOMAIN log), DOMAIN log \subseteq Nat,
         NEW i \in GetUnsent(log, stream, source, limit),
         NEW j \in Drainable(log, stream, source), j < i
  PROVE  /\ i \in Drainable(log, stream, source)
         /\ j \in GetUnsent(log, stream, source, limit)
<1> DEFINE mine == Drainable(log, stream, source)
           below(n) == {k \in mine : k < n}
<1>1. mine \subseteq Nat /\ IsFiniteSet(mine)
  <2>1. mine \subseteq DOMAIN log
    BY DEF Drainable, Unsent
  <2> QED  BY <2>1, FS_Subset
<1>2. i \in mine /\ Cardinality(below(i)) < limit
  BY DEF GetUnsent
<1>3. below(j) \subseteq below(i)
  BY <1>1, <1>2
<1>4. IsFiniteSet(below(i)) /\ below(i) \subseteq mine
  BY <1>1, FS_Subset
<1>5. /\ IsFiniteSet(below(j))
      /\ Cardinality(below(j)) \in Nat /\ Cardinality(below(i)) \in Nat
      /\ Cardinality(below(j)) <= Cardinality(below(i))
  BY <1>3, <1>4, FS_Subset, FS_CardinalityType
<1>6. Cardinality(below(j)) < limit
  BY <1>2, <1>5
<1> QED
  BY <1>2, <1>6 DEF GetUnsent

-----------------------------------------------------------------------------
(* Types.                                                                  *)

\* Inserting under a known sensorID adds well-formed rows and drops none.
LEMMA StoredAfterType ==
  ASSUME TypeOK, NEW s \in Sensor, baseUrl[s] \in Backend, IDKnown(s),
         NEW ids \in SUBSET (1 .. Len(taken))
  PROVE  /\ StoredAfter(s, ids) \in [Backend -> SUBSET (Sensor \X (1 .. Len(taken)))]
         /\ \E owner \in Sensor : \A b \in Backend :
              StoredAfter(s, ids)[b]
                = IF b = baseUrl[s] THEN stored[b] \cup {<<owner, i>> : i \in ids}
                  ELSE stored[b]
<1> DEFINE b == baseUrl[s]
           owner == registry[b][sensorID[s]]
<1>1. owner \in Sensor
  BY DEF TypeOK, ServerTypeOK, IDKnown
<1>2. StoredAfter(s, ids) = [stored EXCEPT ![b] = @ \cup {<<owner, i>> : i \in ids}]
  BY DEF StoredAfter
<1> HIDE DEF owner
<1>3. {<<owner, i>> : i \in ids} \subseteq Sensor \X (1 .. Len(taken))
  BY <1>1
<1>4. stored \in [Backend -> SUBSET (Sensor \X (1 .. Len(taken)))]
  BY DEF TypeOK, ServerTypeOK
<1>5. \A c \in Backend : StoredAfter(s, ids)[c]
         = IF c = b THEN stored[b] \cup {<<owner, i>> : i \in ids} ELSE stored[c]
  BY <1>2, <1>4
<1>6. StoredAfter(s, ids) \in [Backend -> SUBSET (Sensor \X (1 .. Len(taken)))]
  BY <1>2, <1>3, <1>4
<1> QED
  BY <1>1, <1>5, <1>6

\* The initial state is well formed.
LEMMA TypeInit == Init => TypeOK
<1> SUFFICES ASSUME Init PROVE TypeOK
  OBVIOUS
<1> USE ClientAssumption
<1>1. taken = <<>> /\ Len(taken) = 0 /\ DOMAIN cache = {} /\ taken \in Seq(Sensor)
  BY DEF Init
<1>2. registry \in [Backend -> Seq(Sensor)]
  BY DEF Init
<1> QED
  BY <1>1, <1>2 DEF Init, TypeOK, CacheTypeOK, ThreadTypeOK, ServerTypeOK, Phase, NoSensorID

\* Starting at most one more fault keeps the count within its bound.
LEMMA FaultType == faults \in 0 .. MaxFaults /\ Fault => faults' \in 0 .. MaxFaults
BY ClientAssumption DEF Fault

\* A registered sensor has an ID.
LEMMA WithSensorType ==
  ASSUME NEW b \in Backend, NEW s \in Sensor, registry \in [Backend -> Seq(Sensor)]
  PROVE  /\ WithSensor(b, s) \in Seq(Sensor)
         /\ (CHOOSE n \in DOMAIN WithSensor(b, s) : WithSensor(b, s)[n] = s) \in Nat
<1>1. WithSensor(b, s) \in Seq(Sensor)
  BY DEF WithSensor
<1>2. \E n \in DOMAIN WithSensor(b, s) : WithSensor(b, s)[n] = s
  <2>1. CASE s \in Registered(b)
    BY <2>1 DEF WithSensor, Registered
  <2>2. CASE s \notin Registered(b)
    <3>1. /\ WithSensor(b, s) = Append(registry[b], s)
          /\ Len(registry[b]) + 1 \in DOMAIN Append(registry[b], s)
          /\ Append(registry[b], s)[Len(registry[b]) + 1] = s
      BY <2>2 DEF WithSensor
    <3> QED  BY <3>1
  <2> QED  BY <2>1, <2>2
<1> QED
  BY <1>1, <1>2

\* Every step leaves the rows and the threads well formed.
LEMMA TypeStep == TypeOK /\ RequestHasTarget /\ [Next]_vars => TypeOK'
<1> SUFFICES ASSUME TypeOK, RequestHasTarget, [Next]_vars PROVE TypeOK'
  OBVIOUS
<1> USE ClientAssumption
<1>1. CASE UNCHANGED vars
  BY <1>1 DEF vars, threadVars, cacheVars, serverVars,
              TypeOK, CacheTypeOK, ThreadTypeOK, ServerTypeOK
<1>2. ASSUME NEW s \in Sensor, Record(s) PROVE TypeOK'
  <2>1. /\ taken' \in Seq(Sensor) /\ Len(taken') = Len(taken) + 1
        /\ Len(taken) \in Nat /\ taken'[Len(taken')] = s
        /\ \A i \in 1 .. Len(taken) : taken'[i] = taken[i]
    BY <1>2 DEF Record, TypeOK, CacheTypeOK
  <2>2. CacheTypeOK'
    <3> DEFINE new == Len(taken')
               row == [stream |-> StreamOf[s], source |-> s, uploaded |-> FALSE]
    <3>1. cache' = [i \in DOMAIN cache \cup {new} |-> IF i = new THEN row ELSE cache[i]]
      BY <1>2 DEF Record, SaveReading
    <3>2. DOMAIN cache \subseteq 1 .. Len(taken) /\ new \in 1 .. new /\ taken'[new] = s
      BY <2>1 DEF TypeOK, CacheTypeOK
    <3>3. row \in [stream : {StreamOf[s]}, source : {s}, uploaded : BOOLEAN]
      OBVIOUS
    <3> HIDE DEF new, row
    <3>4. DOMAIN cache' \subseteq 1 .. Len(taken')
      BY <2>1, <3>1, <3>2 DEF new
    <3>5. ASSUME NEW i \in DOMAIN cache'
          PROVE  cache'[i] \in [stream : {StreamOf[taken'[i]]}, source : {taken'[i]},
                                uploaded : BOOLEAN]
      <4>1. CASE i = new
        BY <3>1, <3>2, <3>3, <4>1
      <4>2. CASE i # new
        <5>1. i \in DOMAIN cache /\ cache'[i] = cache[i] /\ taken'[i] = taken[i]
          BY <2>1, <3>1, <3>2, <3>5, <4>2
        <5> QED  BY <5>1 DEF TypeOK, CacheTypeOK
      <4> QED  BY <4>1, <4>2
    <3> QED  BY <2>1, <3>4, <3>5 DEF CacheTypeOK
  <2>3. 1 .. Len(taken) \subseteq 1 .. Len(taken')
    BY <2>1
  <2>4. ThreadTypeOK'
    BY <1>2, <2>3 DEF Record, threadVars, TypeOK, ThreadTypeOK
  <2>5. ServerTypeOK'
    BY <1>2, <2>3 DEF Record, serverVars, TypeOK, ServerTypeOK
  <2> QED  BY <2>2, <2>4, <2>5 DEF TypeOK
<1>3. ASSUME NEW s \in Sensor, Maintenance(s) PROVE TypeOK'
  <2>1. CacheTypeOK'
    BY <1>3 DEF Maintenance, Discover, SkipRegister, Register, RegisterFails,
                cacheVars, TypeOK, CacheTypeOK
  <2>2. CASE Discover(s)
    BY <2>1, <2>2, FaultType DEF Discover, cacheVars, serverVars, Phase,
                      TypeOK, ThreadTypeOK, ServerTypeOK
  <2>3. CASE SkipRegister(s)
    BY <2>1, <2>3 DEF SkipRegister, cacheVars, serverVars, Phase,
                      TypeOK, ThreadTypeOK, ServerTypeOK
  <2>4. ASSUME NEW answered \in BOOLEAN, Register(s, answered) PROVE TypeOK'
    <3>1. baseUrl[s] \in Backend
      BY <2>4 DEF Register, NeedsRegistration, TypeOK, ThreadTypeOK
    <3>2. /\ WithSensor(baseUrl[s], s) \in Seq(Sensor)
          /\ (CHOOSE n \in DOMAIN WithSensor(baseUrl[s], s) :
                WithSensor(baseUrl[s], s)[n] = s) \in Nat
      BY <3>1, WithSensorType DEF TypeOK, ServerTypeOK
    <3>3. ThreadTypeOK'
      BY <2>4, <3>2 DEF Register, cacheVars, Phase, TypeOK, ThreadTypeOK
    <3>4. ServerTypeOK'
      BY <2>4, <3>2, FaultType DEF Register, cacheVars, TypeOK, ServerTypeOK
    <3> QED  BY <2>1, <3>3, <3>4 DEF TypeOK
  <2>5. CASE RegisterFails(s)
    BY <2>1, <2>5, FaultType DEF RegisterFails, RequestFails, cacheVars, serverVars, Phase,
                      TypeOK, ThreadTypeOK, ServerTypeOK
  <2> QED  BY <1>3, <2>2, <2>3, <2>4, <2>5 DEF Maintenance
<1>4. ASSUME NEW s \in Sensor, Upload(s) PROVE TypeOK'
  <2> USE DEF LeaveFlush, cacheVars, serverVars, Phase
  <2>0. Mine(s) \subseteq 1 .. Len(taken) /\ NextRows(s) \subseteq 1 .. Len(taken)
    BY DEF NextRows, Mine, GetUnsent, Drainable, Unsent, TypeOK, CacheTypeOK
  <2>1. CASE FlushNothing(s)
    BY <2>1, FaultType DEF FlushNothing, TypeOK, CacheTypeOK, ThreadTypeOK, ServerTypeOK
  <2>2. CASE ReadBatch(s)
    BY <2>0, <2>2 DEF ReadBatch, TypeOK, CacheTypeOK, ThreadTypeOK, ServerTypeOK
  <2>3. ASSUME phase[s] = "send", IDKnown(s), NEW ids \in SUBSET (1 .. Len(taken)),
               stored' = StoredAfter(s, ids), taken' = taken
        PROVE  stored' \in [Backend -> SUBSET (Sensor \X (1 .. Len(taken')))]
    <3>1. baseUrl[s] \in Backend
      BY <2>3 DEF RequestHasTarget, CanUpload, TypeOK, ThreadTypeOK
    <3> QED  BY <2>3, <3>1, StoredAfterType
  <2>4. batch[s] \in SUBSET (1 .. Len(taken))
    BY DEF TypeOK, ThreadTypeOK
  <2>5. CASE SendBatch(s)
    BY <2>3, <2>4, <2>5 DEF SendBatch, TypeOK, CacheTypeOK, ThreadTypeOK, ServerTypeOK
  <2>6. CASE SendBatchUnanswered(s)
    BY <2>3, <2>4, <2>6, FaultType
       DEF SendBatchUnanswered, TypeOK, CacheTypeOK, ThreadTypeOK, ServerTypeOK
  <2>7. CASE SendBatchMissing(s)
    BY <2>7 DEF SendBatchMissing, TypeOK, CacheTypeOK, ThreadTypeOK, ServerTypeOK
  <2>8. CASE SendBatchFails(s)
    BY <2>8, FaultType DEF SendBatchFails, RequestFails,
                           TypeOK, CacheTypeOK, ThreadTypeOK, ServerTypeOK
  <2>9. ASSUME NEW r \in batch[s], SendOne(s, r) PROVE TypeOK'
    <3>1. {r} \in SUBSET (1 .. Len(taken))
      BY <2>4
    <3>2. CacheTypeOK' /\ ThreadTypeOK'
      BY <2>9, <3>1 DEF SendOne, TypeOK, CacheTypeOK, ThreadTypeOK
    <3>3. ServerTypeOK'
      BY <2>3, <2>9, <3>1 DEF SendOne, TypeOK, ServerTypeOK
    <3> QED  BY <3>2, <3>3 DEF TypeOK
  <2>10. ASSUME NEW r \in batch[s], SendOneUnanswered(s, r) PROVE TypeOK'
    <3>1. {r} \in SUBSET (1 .. Len(taken))
      BY <2>4
    <3>2. CacheTypeOK' /\ ThreadTypeOK'
      BY <2>10, <3>1 DEF SendOneUnanswered, TypeOK, CacheTypeOK, ThreadTypeOK
    <3>3. ServerTypeOK'
      BY <2>3, <2>10, <3>1, FaultType DEF SendOneUnanswered, TypeOK, ServerTypeOK
    <3> QED  BY <3>2, <3>3 DEF TypeOK
  <2>11. CASE SendOneFails(s)
    BY <2>11, FaultType DEF SendOneFails, RequestFails,
                            TypeOK, CacheTypeOK, ThreadTypeOK, ServerTypeOK
  <2>12. CASE Retire(s)
    <3>1. CacheTypeOK'
      BY <2>12 DEF Retire, DeleteMany, MarkUploadedMany, Restrict, TypeOK, CacheTypeOK
    <3>2. ThreadTypeOK'
      <4>1. CASE DrainsOn(s)
        <5>1. round[s] + 1 \in 0 .. MaxBatches - 1
          BY <4>1 DEF DrainsOn, TypeOK, ThreadTypeOK
        <5> QED  BY <2>12, <4>1, <5>1 DEF Retire, TypeOK, ThreadTypeOK
      <4>2. CASE ~DrainsOn(s)
        BY <2>12, <4>2 DEF Retire, TypeOK, ThreadTypeOK
      <4> QED  BY <4>1, <4>2
    <3>3. ServerTypeOK'
      BY <2>12 DEF Retire, TypeOK, ServerTypeOK
    <3> QED  BY <3>1, <3>2, <3>3 DEF TypeOK
  <2>13. CASE RetireFails(s)
    BY <2>13, FaultType DEF RetireFails, TypeOK, CacheTypeOK, ThreadTypeOK, ServerTypeOK
  <2>14. CASE CollectOld(s)
    <3>1. CacheTypeOK'
      BY <2>14 DEF CollectOld, Cleanup, Restrict, TypeOK, CacheTypeOK
    <3>2. ThreadTypeOK' /\ ServerTypeOK'
      BY <2>14 DEF CollectOld, TypeOK, ThreadTypeOK, ServerTypeOK
    <3> QED  BY <3>1, <3>2 DEF TypeOK
  <2> QED
    BY <1>4, <2>1, <2>2, <2>5, <2>6, <2>7, <2>8, <2>9, <2>10, <2>11, <2>12, <2>13, <2>14
       DEF Upload
<1>5. ASSUME NEW s \in Sensor, BeginMaintenance(s) \/ BeginUpload(s) \/ Start(s) PROVE TypeOK'
  <2> USE DEF cacheVars, serverVars, Phase, TypeOK, CacheTypeOK, ThreadTypeOK, ServerTypeOK
  <2>1. CASE BeginMaintenance(s)
    BY <2>1 DEF BeginMaintenance
  <2>2. CASE BeginUpload(s)
    BY <2>2 DEF BeginUpload
  <2>3. CASE Start(s)
    BY <2>3 DEF Start
  <2> QED  BY <1>5, <2>1, <2>2, <2>3
<1>6. ASSUME NEW s \in Sensor, Exit(s) PROVE TypeOK'
  BY <1>6, FaultType DEF Exit, cacheVars, serverVars, Phase, NoSensorID,
                         TypeOK, CacheTypeOK, ThreadTypeOK, ServerTypeOK
<1>7. ASSUME NEW b \in Backend, BackendDown(b) \/ BackendUp(b) PROVE TypeOK'
  BY <1>7, FaultType DEF BackendDown, BackendUp, threadVars, cacheVars, serverVars,
                         TypeOK, CacheTypeOK, ThreadTypeOK, ServerTypeOK
<1> QED
  BY <1>1, <1>2, <1>3, <1>4, <1>5, <1>6, <1>7 DEF Next

\* A request always has a backend and an ID to go with.
LEMMA TargetStep == TypeOK /\ RequestHasTarget /\ [Next]_vars => RequestHasTarget'
<1> SUFFICES ASSUME TypeOK, RequestHasTarget, [Next]_vars PROVE RequestHasTarget'
  OBVIOUS
<1> USE DEF RequestHasTarget, CanUpload, TypeOK, ThreadTypeOK
<1>1. CASE UNCHANGED vars
  BY <1>1 DEF vars, threadVars
<1>2. ASSUME NEW s \in Sensor, Record(s) PROVE RequestHasTarget'
  BY <1>2 DEF Record, threadVars
<1>3. ASSUME NEW s \in Sensor, Maintenance(s) PROVE RequestHasTarget'
  BY <1>3 DEF Maintenance, Discover, SkipRegister, Register, RegisterFails
<1>4. ASSUME NEW s \in Sensor, Upload(s) PROVE RequestHasTarget'
  <2> USE DEF LeaveFlush
  <2>1. CASE FlushNothing(s) \/ ReadBatch(s)
    BY <2>1 DEF FlushNothing, ReadBatch
  <2>2. CASE SendBatch(s) \/ SendBatchUnanswered(s) \/ SendBatchMissing(s) \/ SendBatchFails(s)
    BY <2>2 DEF SendBatch, SendBatchUnanswered, SendBatchMissing, SendBatchFails
  <2>3. ASSUME NEW r \in batch[s], SendOne(s, r) \/ SendOneUnanswered(s, r)
        PROVE  RequestHasTarget'
    BY <2>3 DEF SendOne, SendOneUnanswered
  <2>4. CASE SendOneFails(s)
    BY <2>4 DEF SendOneFails
  <2>5. CASE Retire(s) \/ RetireFails(s) \/ CollectOld(s)
    BY <2>5 DEF Retire, RetireFails, CollectOld
  <2> QED  BY <1>4, <2>1, <2>2, <2>3, <2>4, <2>5 DEF Upload
<1>5. ASSUME NEW s \in Sensor, BeginMaintenance(s) \/ BeginUpload(s) \/ Exit(s) \/ Start(s)
      PROVE  RequestHasTarget'
  BY <1>5 DEF BeginMaintenance, BeginUpload, Exit, Start
<1>6. ASSUME NEW b \in Backend, BackendDown(b) \/ BackendUp(b) PROVE RequestHasTarget'
  BY <1>6 DEF BackendDown, BackendUp, threadVars
<1> QED
  BY <1>1, <1>2, <1>3, <1>4, <1>5, <1>6 DEF Next

-----------------------------------------------------------------------------
(* No reading is lost and none overtakes another.                          *)

\* What TypeStep and TargetStep leave to show of DeliveryInv.
QueueInv == BatchIsOldest /\ AckedIsDelivered /\ NoReadingLost /\ OldestFirst

\* Inserting rows under any known sensorID delivers them, and nothing else.
LEMMA StoringDelivers ==
  ASSUME TypeOK, RequestHasTarget, NEW s \in Sensor, phase[s] = "send", IDKnown(s),
         NEW ids \in SUBSET (1 .. Len(taken)),
         stored' = StoredAfter(s, ids), taken' = taken
  PROVE  Delivered' = Delivered \cup ids
<1>1. baseUrl[s] \in Backend
  BY DEF RequestHasTarget, CanUpload, TypeOK, ThreadTypeOK
<1>2. PICK owner \in Sensor : \A b \in Backend :
        StoredAfter(s, ids)[b] = IF b = baseUrl[s] THEN stored[b] \cup {<<owner, i>> : i \in ids}
                     ELSE stored[b]
  BY <1>1, StoredAfterType, Zenon
<1>3. ASSUME NEW i \in Delivered' PROVE i \in Delivered \cup ids
  <2>1. PICK b \in Backend, t \in Sensor : <<t, i>> \in stored'[b] /\ i \in 1 .. Len(taken)
    BY <1>3 DEF Delivered
  <2>2. CASE <<t, i>> \in stored[b]
    BY <2>1, <2>2 DEF Delivered
  <2>3. CASE <<t, i>> \notin stored[b]
    <3>1. <<t, i>> \in {<<owner, k>> : k \in ids}
      BY <1>2, <2>1, <2>3
    <3>2. PICK k \in ids : <<t, i>> = <<owner, k>>
      BY <3>1
    <3> QED  BY <3>2
  <2> QED  BY <2>2, <2>3
<1>4. ASSUME NEW i \in ids PROVE i \in Delivered'
  <2>1. <<owner, i>> \in stored'[baseUrl[s]] /\ i \in 1 .. Len(taken')
    BY <1>1, <1>2
  <2> QED  BY <1>1, <2>1 DEF Delivered
<1>5. ASSUME NEW i \in Delivered PROVE i \in Delivered'
  BY <1>2, <1>5 DEF Delivered
<1> QED
  BY <1>3, <1>4, <1>5

\* A step that leaves the cache alone, forgets nothing delivered, and at most
\* drops batches whole keeps the queue in order.
LEMMA QueueKept ==
  ASSUME QueueInv, UNCHANGED cacheVars, Delivered \subseteq Delivered',
         \A s \in Sensor : \/ batch'[s] = {} /\ acked'[s] = {}
                           \/ batch'[s] = batch[s] /\ acked'[s] = acked[s]
  PROVE  QueueInv'
<1>1. BatchIsOldest'
  BY DEF QueueInv, BatchIsOldest, Mine, cacheVars
<1>2. AckedIsDelivered'
  BY DEF QueueInv, AckedIsDelivered
<1>3. NoReadingLost' /\ OldestFirst'
  BY DEF QueueInv, NoReadingLost, OldestFirst, cacheVars
<1> QED
  BY <1>1, <1>2, <1>3 DEF QueueInv

\* A new reading joins the queue behind all others: Record keeps the queue.
LEMMA QueueRecord ==
  ASSUME TypeOK, QueueInv, NEW s \in Sensor, Record(s)
  PROVE  QueueInv'
<1> DEFINE new == Len(taken')
<1>1. /\ new = Len(taken) + 1 /\ Len(taken) \in Nat /\ taken'[new] = s
      /\ \A i \in 1 .. Len(taken) : taken'[i] = taken[i]
  BY DEF Record, TypeOK, CacheTypeOK
<1>2. new \notin DOMAIN cache
  BY <1>1 DEF TypeOK, CacheTypeOK
<1>3. /\ DOMAIN cache' = DOMAIN cache \cup {new}
      /\ \A i \in DOMAIN cache : cache'[i] = cache[i]
      /\ cache'[new] = [stream |-> StreamOf[s], source |-> s, uploaded |-> FALSE]
  BY <1>2 DEF Record, SaveReading
<1>4. Unsent(cache') = Unsent(cache) \cup {new}
  BY <1>2, <1>3 DEF Unsent
<1>5. ASSUME NEW t \in Sensor
      PROVE  Mine(t) \subseteq Mine(t)' /\ Mine(t)' \subseteq Mine(t) \cup {new}
  <2>1. \A i \in Unsent(cache) : i \in DOMAIN cache
    BY DEF Unsent
  <2> HIDE DEF new
  <2> QED  BY <1>3, <1>4, <2>1 DEF Mine, Drainable
<1>6. batch' = batch /\ acked' = acked /\ stored' = stored
  BY DEF Record, threadVars, serverVars
<1>7. Delivered \subseteq Delivered'
  <2>1. 1 .. Len(taken) \subseteq 1 .. Len(taken')
    BY <1>1
  <2> QED  BY <1>6, <2>1 DEF Delivered
<1>8. \A t \in Sensor : batch[t] \subseteq 1 .. Len(taken)
  BY DEF TypeOK, ThreadTypeOK
<1> HIDE DEF new
<1>9. BatchIsOldest'
  <2> SUFFICES ASSUME NEW t \in Sensor
               PROVE  /\ batch[t] \subseteq Mine(t)'
                      /\ \A i \in batch[t], j \in Mine(t)' : j < i => j \in batch[t]
    BY <1>6 DEF BatchIsOldest
  <2> QED  BY <1>1, <1>5, <1>8 DEF QueueInv, BatchIsOldest
<1>10. AckedIsDelivered'
  BY <1>6, <1>7 DEF QueueInv, AckedIsDelivered
<1>11. NoReadingLost'
  <2> SUFFICES ASSUME NEW i \in 1 .. new PROVE i \in Unsent(cache') \/ i \in Delivered'
    BY DEF NoReadingLost, new
  <2> QED  BY <1>1, <1>4, <1>7 DEF QueueInv, NoReadingLost
<1>12. OldestFirst'
  <2> SUFFICES ASSUME NEW i \in 1 .. new, NEW j \in 1 .. new, i < j, taken'[i] = taken'[j],
                      i \in Unsent(cache')
               PROVE  j \in Unsent(cache')
    BY DEF OldestFirst, new
  <2>1. CASE j = new
    BY <1>4, <2>1
  <2>2. CASE j # new
    <3>1. i \in 1 .. Len(taken) /\ j \in 1 .. Len(taken) /\ i # new
      BY <1>1, <2>2
    <3> QED  BY <1>1, <1>4, <3>1 DEF QueueInv, OldestFirst
  <2> QED  BY <2>1, <2>2
<1> QED
  BY <1>9, <1>10, <1>11, <1>12 DEF QueueInv

\* A batch read from the cache is the oldest of the sensor's rows.
LEMMA QueueReadBatch ==
  ASSUME TypeOK, QueueInv, NEW s \in Sensor, ReadBatch(s)
  PROVE  QueueInv'
<1> USE ClientAssumption
<1>1. UNCHANGED cacheVars /\ stored' = stored
  BY DEF ReadBatch, serverVars
<1>2. Delivered' = Delivered
  BY <1>1 DEF Delivered, cacheVars
<1>3. IsFiniteSet(DOMAIN cache) /\ DOMAIN cache \subseteq Nat
  <2>1. Len(taken) \in Nat /\ DOMAIN cache \subseteq 1 .. Len(taken)
    BY DEF TypeOK, CacheTypeOK
  <2>2. IsFiniteSet(1 .. Len(taken))
    BY <2>1, FS_Interval
  <2> QED  BY <2>1, <2>2, FS_Subset
<1>4. ASSUME NEW i \in NextRows(s), NEW j \in Mine(s), j < i
      PROVE  j \in NextRows(s)
  <2>1. i \in GetUnsent(cache, StreamOf[s], s, BatchSize) /\ BatchSize \in Nat
    BY DEF NextRows
  <2>2. j \in Drainable(cache, StreamOf[s], s)
    BY DEF Mine
  <2>3. j \in GetUnsent(cache, StreamOf[s], s, BatchSize)
    BY <1>3, <1>4, <2>1, <2>2, GetUnsentIsOldest
  <2> QED  BY <2>3 DEF NextRows
<1>5. NextRows(s) \subseteq Mine(s)
  BY DEF NextRows, Mine, GetUnsent
<1>6. /\ batch'[s] = NextRows(s) /\ acked'[s] = {}
      /\ \A t \in Sensor \ {s} : batch'[t] = batch[t] /\ acked'[t] = acked[t]
  BY DEF ReadBatch, TypeOK, ThreadTypeOK
<1>7. BatchIsOldest'
  <2>1. \A t \in Sensor : Mine(t)' = Mine(t)
    BY <1>1 DEF Mine, cacheVars
  <2> QED  BY <1>4, <1>5, <1>6, <2>1 DEF QueueInv, BatchIsOldest
<1>8. AckedIsDelivered'
  BY <1>2, <1>6 DEF QueueInv, AckedIsDelivered
<1>9. NoReadingLost' /\ OldestFirst'
  BY <1>1, <1>2 DEF QueueInv, NoReadingLost, OldestFirst, cacheVars
<1> QED
  BY <1>7, <1>8, <1>9 DEF QueueInv

\* An answer extends the acknowledged prefix of the batch.
LEMMA QueueAnswer ==
  ASSUME TypeOK, RequestHasTarget, QueueInv, NEW s \in Sensor,
         SendBatch(s) \/ \E r \in batch[s] : SendOne(s, r)
  PROVE  QueueInv'
<1>1. /\ UNCHANGED cacheVars /\ batch' = batch
      /\ \A t \in Sensor \ {s} : acked'[t] = acked[t]
  BY DEF SendBatch, SendOne, TypeOK, ThreadTypeOK
<1>2. batch[s] \subseteq 1 .. Len(taken)
  BY DEF TypeOK, ThreadTypeOK
<1>3. /\ acked'[s] \subseteq batch[s] \cap Delivered'
      /\ \A i \in acked'[s], j \in batch[s] : j < i => j \in acked'[s]
      /\ Delivered \subseteq Delivered'
  <2>1. CASE SendBatch(s)
    <3>1. Delivered \cup batch[s] \subseteq Delivered'
      BY <1>1, <1>2, <2>1, StoringDelivers DEF SendBatch, cacheVars
    <3>2. acked'[s] = batch[s]
      BY <2>1 DEF SendBatch, TypeOK, ThreadTypeOK
    <3> QED  BY <3>1, <3>2
  <2>2. ASSUME NEW r \in batch[s], SendOne(s, r)
        PROVE  /\ acked'[s] \subseteq batch[s] \cap Delivered'
               /\ \A i \in acked'[s], j \in batch[s] : j < i => j \in acked'[s]
               /\ Delivered \subseteq Delivered'
    <3>1. {r} \in SUBSET (1 .. Len(taken))
      BY <1>2
    <3>2. Delivered \cup {r} \subseteq Delivered'
      BY <1>1, <2>2, <3>1, StoringDelivers DEF SendOne, cacheVars
    <3>3. acked'[s] = acked[s] \cup {r}
      BY <2>2 DEF SendOne, TypeOK, ThreadTypeOK
    <3>4. \A j \in batch[s] : j < r => j \in acked[s]
      BY <1>2, <2>2 DEF SendOne, IsNextRow
    <3>5. /\ acked[s] \subseteq batch[s] \cap Delivered
          /\ \A i \in acked[s], j \in batch[s] : j < i => j \in acked[s]
      BY DEF QueueInv, AckedIsDelivered
    <3> QED  BY <3>2, <3>3, <3>4, <3>5
  <2> QED  BY <2>1, <2>2
<1>4. BatchIsOldest'
  BY <1>1 DEF QueueInv, BatchIsOldest, Mine, cacheVars
<1>5. AckedIsDelivered'
  BY <1>1, <1>3 DEF QueueInv, AckedIsDelivered
<1>6. NoReadingLost' /\ OldestFirst'
  BY <1>1, <1>3 DEF QueueInv, NoReadingLost, OldestFirst, cacheVars
<1> QED
  BY <1>4, <1>5, <1>6 DEF QueueInv

\* Retiring the acknowledged prefix of the oldest rows of one sensor.
LEMMA QueueRetire ==
  ASSUME TypeOK, QueueInv, NEW s \in Sensor, Retire(s)
  PROVE  QueueInv'
<1>1. taken' = taken /\ stored' = stored /\ Delivered' = Delivered
  BY DEF Retire, serverVars, Delivered
<1>2. acked[s] \subseteq DOMAIN cache
  BY DEF QueueInv, AckedIsDelivered, BatchIsOldest, Mine, Drainable, Unsent
<1>3. /\ Unsent(cache') = Unsent(cache) \ acked[s]
      /\ \A i \in Unsent(cache') : /\ cache'[i].stream = cache[i].stream
                                   /\ cache'[i].source = cache[i].source
  BY <1>2 DEF Retire, RetireIDs, DeleteMany, MarkUploadedMany, Restrict, Unsent,
              TypeOK, CacheTypeOK
<1>4. \A t \in Sensor : Mine(t)' = Mine(t) \ acked[s]
  BY <1>3 DEF Mine, Drainable
<1>5. \A t \in Sensor : \A i \in Mine(t) : i \in 1 .. Len(taken) /\ taken[i] = t
  BY DEF Mine, Drainable, Unsent, TypeOK, CacheTypeOK
<1>6. /\ acked[s] \subseteq Mine(s) /\ acked[s] \subseteq Delivered
      /\ \A i \in acked[s], j \in Mine(s) : j < i => j \in acked[s]
  BY DEF QueueInv, BatchIsOldest, AckedIsDelivered
<1>7. /\ batch'[s] = {} /\ acked'[s] = {}
      /\ \A t \in Sensor \ {s} : batch'[t] = batch[t] /\ acked'[t] = acked[t]
  BY DEF Retire, LeaveFlush, TypeOK, ThreadTypeOK
<1>8. BatchIsOldest'
  <2> SUFFICES ASSUME NEW t \in Sensor
               PROVE  /\ batch'[t] \subseteq Mine(t)'
                      /\ \A i \in batch'[t], j \in Mine(t)' : j < i => j \in batch'[t]
    BY DEF BatchIsOldest
  <2>1. CASE t = s
    BY <1>7, <2>1
  <2>2. CASE t # s
    <3>1. Mine(t)' = Mine(t)
      BY <1>4, <1>5, <1>6, <2>2
    <3> QED  BY <1>7, <2>2, <3>1 DEF QueueInv, BatchIsOldest
  <2> QED  BY <2>1, <2>2
<1>9. AckedIsDelivered'
  BY <1>1, <1>7 DEF QueueInv, AckedIsDelivered
<1>10. NoReadingLost'
  BY <1>1, <1>3, <1>6 DEF QueueInv, NoReadingLost
<1>11. OldestFirst'
  <2> SUFFICES ASSUME NEW i \in 1 .. Len(taken), NEW j \in 1 .. Len(taken), i < j,
                      taken[i] = taken[j], i \in Unsent(cache')
               PROVE  j \in Unsent(cache')
    BY <1>1 DEF OldestFirst
  <2>1. i \in Unsent(cache) /\ j \in Unsent(cache)
    BY <1>3 DEF QueueInv, OldestFirst
  <2>2. ASSUME j \in acked[s] PROVE FALSE
    <3>1. taken[i] = s
      BY <1>5, <1>6, <2>2
    <3>2. i \in Mine(s)
      BY <2>1, <3>1 DEF Mine, Drainable, Unsent, TypeOK, CacheTypeOK
    <3> QED  BY <1>3, <1>6, <2>2, <3>2
  <2> QED  BY <1>3, <2>1, <2>2
<1> QED
  BY <1>8, <1>9, <1>10, <1>11 DEF QueueInv

\* The retention cleanup deletes no unsent row.
LEMMA QueueCollect ==
  ASSUME TypeOK, QueueInv, NEW s \in Sensor, CollectOld(s)
  PROVE  QueueInv'
<1>1. taken' = taken /\ batch' = batch /\ acked' = acked /\ Delivered' = Delivered
  BY DEF CollectOld, serverVars, Delivered
<1>2. /\ Unsent(cache') = Unsent(cache)
      /\ \A i \in Unsent(cache) : cache'[i] = cache[i]
  BY DEF CollectOld, Cleanup, Restrict, Unsent
<1>3. \A t \in Sensor : Mine(t)' = Mine(t)
  BY <1>2 DEF Mine, Drainable
<1>4. BatchIsOldest' /\ AckedIsDelivered'
  BY <1>1, <1>3 DEF QueueInv, BatchIsOldest, AckedIsDelivered
<1>5. NoReadingLost' /\ OldestFirst'
  BY <1>1, <1>2 DEF QueueInv, NoReadingLost, OldestFirst
<1> QED
  BY <1>4, <1>5 DEF QueueInv

\* A failed request or a restart drops at most a whole batch, which the next
\* drain reads again; everything else leaves the queue alone.
LEMMA QueueStep == TypeOK /\ RequestHasTarget /\ QueueInv /\ [Next]_vars => QueueInv'
<1> SUFFICES ASSUME TypeOK, RequestHasTarget, QueueInv, [Next]_vars PROVE QueueInv'
  OBVIOUS
<1> DEFINE Drops == /\ UNCHANGED cacheVars
                    /\ \A t \in Sensor : \/ batch'[t] = {} /\ acked'[t] = {}
                                         \/ batch'[t] = batch[t] /\ acked'[t] = acked[t]
<1>1. ASSUME Drops, stored' = stored PROVE QueueInv'
  <2>1. Delivered \subseteq Delivered'
    BY <1>1 DEF Delivered, cacheVars
  <2> QED  BY <1>1, <2>1, QueueKept
<1>2. CASE UNCHANGED vars
  BY <1>1, <1>2 DEF vars, threadVars, serverVars
<1>3. ASSUME NEW s \in Sensor, Maintenance(s) PROVE QueueInv'
  <2>1. UNCHANGED <<cacheVars, batch, acked, stored>>
    BY <1>3 DEF Maintenance, Discover, SkipRegister, Register, RegisterFails, serverVars
  <2> QED  BY <1>1, <2>1
<1>4. ASSUME NEW s \in Sensor, Upload(s) PROVE QueueInv'
  <2> USE DEF LeaveFlush, serverVars, TypeOK, ThreadTypeOK
  <2>1. CASE FlushNothing(s)
    BY <1>1, <2>1 DEF FlushNothing
  <2>2. CASE ReadBatch(s)
    BY <2>2, QueueReadBatch
  <2>3. CASE SendBatch(s)
    BY <2>3, QueueAnswer
  <2>4. CASE SendBatchUnanswered(s)
    <3>1. Delivered \subseteq Delivered'
      BY <2>4, StoringDelivers DEF SendBatchUnanswered, cacheVars
    <3> QED  BY <2>4, <3>1, QueueKept DEF SendBatchUnanswered
  <2>5. CASE SendBatchMissing(s) \/ SendBatchFails(s)
    BY <1>1, <2>5 DEF SendBatchMissing, SendBatchFails
  <2>6. ASSUME NEW r \in batch[s], SendOne(s, r) PROVE QueueInv'
    BY <2>6, QueueAnswer
  <2>7. ASSUME NEW r \in batch[s], SendOneUnanswered(s, r) PROVE QueueInv'
    <3>1. {r} \in SUBSET (1 .. Len(taken))
      OBVIOUS
    <3>2. Delivered \subseteq Delivered'
      BY <2>7, <3>1, StoringDelivers DEF SendOneUnanswered, cacheVars
    <3> QED  BY <2>7, <3>2, QueueKept DEF SendOneUnanswered
  <2>8. CASE SendOneFails(s)
    BY <1>1, <2>8 DEF SendOneFails
  <2>9. CASE Retire(s)
    BY <2>9, QueueRetire
  <2>10. CASE RetireFails(s)
    BY <1>1, <2>10 DEF RetireFails
  <2>11. CASE CollectOld(s)
    BY <2>11, QueueCollect
  <2> QED
    BY <1>4, <2>1, <2>2, <2>3, <2>4, <2>5, <2>6, <2>7, <2>8, <2>9, <2>10, <2>11 DEF Upload
<1>5. ASSUME NEW s \in Sensor, BeginMaintenance(s) \/ BeginUpload(s) \/ Exit(s) \/ Start(s)
      PROVE  QueueInv'
  BY <1>1, <1>5 DEF BeginMaintenance, BeginUpload, Exit, Start, serverVars, TypeOK, ThreadTypeOK
<1>6. ASSUME NEW b \in Backend, BackendDown(b) \/ BackendUp(b) PROVE QueueInv'
  BY <1>1, <1>6 DEF BackendDown, BackendUp, threadVars, serverVars
<1>7. ASSUME NEW s \in Sensor, Record(s) PROVE QueueInv'
  BY <1>7, QueueRecord
<1> QED
  BY <1>2, <1>3, <1>4, <1>5, <1>6, <1>7 DEF Next

-----------------------------------------------------------------------------
(* The theorems.                                                           *)

\* DeliveryInv is inductive, so it holds in every reachable state.
THEOREM DeliveryInvariant == Spec => []DeliveryInv
<1>1. Init => DeliveryInv
  <2> SUFFICES ASSUME Init PROVE RequestHasTarget /\ QueueInv
    BY TypeInit DEF DeliveryInv, QueueInv
  <2>1. taken = <<>> /\ Len(taken) = 0 /\ Unsent(cache) = {}
    BY DEF Init, Unsent
  <2> QED
    BY <2>1 DEF Init, RequestHasTarget, QueueInv, BatchIsOldest, AckedIsDelivered,
                NoReadingLost, OldestFirst
<1>2. DeliveryInv /\ [Next]_vars => DeliveryInv'
  BY TypeStep, TargetStep, QueueStep DEF DeliveryInv, QueueInv
<1> QED
  BY <1>1, <1>2, PTL DEF Spec

\* Every reading is waiting in the cache or held by a backend, whatever fails.
THEOREM NothingLost == Spec => []NoReadingLost
<1>1. DeliveryInv => NoReadingLost
  BY DEF DeliveryInv
<1> QED
  BY <1>1, DeliveryInvariant, PTL

\* No row of a sensor is given up before an older one.
THEOREM QueueOrder == Spec => []OldestFirst
<1>1. DeliveryInv => OldestFirst
  BY DEF DeliveryInv
<1> QED
  BY <1>1, DeliveryInvariant, PTL

-----------------------------------------------------------------------------
(* With one backend, readings are filed under the sensor that took them.   *)

OneBackend == \A b, c \in Backend : b = c

\* Registration keeps the IDs already given out and makes the new one the
\* sensor's own.
LEMMA RegisterKeepsIDs ==
  ASSUME OneBackend, TypeOK, IDIsOwn, NEW s \in Sensor, NEW answered \in BOOLEAN,
         Register(s, answered)
  PROVE  IDIsOwn'
<1> DEFINE b == baseUrl[s]
           old == registry[b]
           table == WithSensor(b, s)
           id == CHOOSE n \in DOMAIN table : table[n] = s
<1>1. b \in Backend
  BY DEF Register, NeedsRegistration, TypeOK, ThreadTypeOK
<1>2. old \in Seq(Sensor) /\ registry' = [registry EXCEPT ![b] = table]
  BY <1>1 DEF Register, TypeOK, ServerTypeOK
<1>3. \A n \in DOMAIN old : n \in DOMAIN table /\ table[n] = old[n]
  BY <1>2 DEF WithSensor
<1>4. \E n \in DOMAIN table : table[n] = s
  <2>1. CASE s \in Registered(b)
    BY <2>1 DEF WithSensor, Registered
  <2>2. CASE s \notin Registered(b)
    <3>1. /\ table = Append(old, s)
          /\ Len(old) + 1 \in DOMAIN Append(old, s)
          /\ Append(old, s)[Len(old) + 1] = s
      BY <1>2, <2>2 DEF WithSensor
    <3> QED  BY <3>1
  <2> QED  BY <2>1, <2>2
<1>5. id \in DOMAIN table /\ table[id] = s
  BY <1>4
<1>0. sensorID' = IF answered THEN [sensorID EXCEPT ![s] = id] ELSE sensorID
  BY DEF Register
<1> HIDE DEF b, old, table, id
<1>6. /\ registry'[b] = table
      /\ \A t \in Sensor : sensorID'[t] = sensorID[t] \/ (t = s /\ sensorID'[t] = id)
  <2>1. registry'[b] = table
    BY <1>1, <1>2 DEF TypeOK, ServerTypeOK
  <2>2. sensorID \in [Sensor -> Nat]
    BY DEF TypeOK, ThreadTypeOK
  <2> QED  BY <1>0, <2>1, <2>2
<1>7. ASSUME NEW t \in Sensor, sensorID'[t] # NoSensorID
      PROVE  sensorID'[t] \in DOMAIN registry'[b] /\ registry'[b][sensorID'[t]] = t
  <2>1. CASE sensorID'[t] = sensorID[t]
    <3>1. sensorID[t] \in DOMAIN old /\ old[sensorID[t]] = t
      BY <1>1, <1>7, <2>1 DEF IDIsOwn, old
    <3> QED  BY <1>3, <1>6, <2>1, <3>1
  <2>2. CASE t = s /\ sensorID'[t] = id
    BY <1>5, <1>6, <2>2
  <2> QED  BY <1>6, <2>1, <2>2
<1>8. \A c \in Backend : c = b
  BY <1>1 DEF OneBackend
<1> QED
  BY <1>7, <1>8 DEF IDIsOwn

\* Rows inserted under one's own ID, all of one's own taking, are well filed.
LEMMA StoringFiles ==
  ASSUME FilingInv, TypeOK, RequestHasTarget, NEW s \in Sensor, phase[s] = "send", IDKnown(s),
         NEW ids \in SUBSET (1 .. Len(taken)), \A i \in ids : taken[i] = s,
         stored' = StoredAfter(s, ids), taken' = taken
  PROVE  NoMisfiledReading'
<1>1. baseUrl[s] \in Backend
  BY DEF RequestHasTarget, CanUpload, TypeOK, ThreadTypeOK
<1>2. registry[baseUrl[s]][sensorID[s]] = s
  BY <1>1 DEF FilingInv, IDIsOwn, RequestHasTarget, CanUpload
<1>3. \A b \in Backend :
        stored'[b] = IF b = baseUrl[s] THEN stored[b] \cup {<<s, i>> : i \in ids} ELSE stored[b]
  <2>1. stored' = [stored EXCEPT ![baseUrl[s]] = @ \cup {<<s, i>> : i \in ids}]
    BY <1>2 DEF StoredAfter
  <2> QED  BY <2>1 DEF TypeOK, ServerTypeOK
<1>4. ASSUME NEW b \in Backend, NEW r \in stored'[b] PROVE taken[r[2]] = r[1]
  <2>1. CASE r \in stored[b]
    BY <2>1 DEF FilingInv, NoMisfiledReading
  <2>2. CASE r \notin stored[b]
    <3>1. r \in {<<s, i>> : i \in ids}
      BY <1>3, <1>4, <2>2
    <3>2. PICK i \in ids : r = <<s, i>>
      BY <3>1
    <3> QED  BY <3>2
  <2> QED  BY <2>1, <2>2
<1> QED
  BY <1>4 DEF NoMisfiledReading

\* Every other step leaves registrations and stored rows alone.
LEMMA FilingStep == OneBackend /\ DeliveryInv /\ FilingInv /\ [Next]_vars => FilingInv'
<1> SUFFICES ASSUME OneBackend, DeliveryInv, FilingInv, [Next]_vars PROVE FilingInv'
  OBVIOUS
<1> USE DEF DeliveryInv
<1>1. ASSUME UNCHANGED <<sensorID, taken, serverVars>> PROVE FilingInv'
  BY <1>1 DEF serverVars, FilingInv, IDIsOwn, NoMisfiledReading
<1>2. CASE UNCHANGED vars
  BY <1>1, <1>2 DEF vars, threadVars, cacheVars
<1>3. ASSUME NEW s \in Sensor, Record(s) PROVE FilingInv'
  <2>1. UNCHANGED <<sensorID, serverVars>>
    BY <1>3 DEF Record, threadVars
  <2>2. \A i \in 1 .. Len(taken) : taken'[i] = taken[i]
    BY <1>3 DEF Record, TypeOK, CacheTypeOK
  <2>3. ASSUME NEW b \in Backend, NEW r \in stored[b] PROVE r[2] \in 1 .. Len(taken)
    BY DEF TypeOK, ServerTypeOK
  <2> QED  BY <2>1, <2>2, <2>3 DEF serverVars, FilingInv, IDIsOwn, NoMisfiledReading
<1>4. ASSUME NEW s \in Sensor, NEW answered \in BOOLEAN, Register(s, answered) PROVE FilingInv'
  <2>1. UNCHANGED <<taken, stored>>
    BY <1>4 DEF Register, cacheVars
  <2>2. IDIsOwn'
    BY <1>4, RegisterKeepsIDs DEF FilingInv
  <2> QED  BY <2>1, <2>2 DEF FilingInv, NoMisfiledReading
<1>5. ASSUME NEW s \in Sensor, Discover(s) \/ SkipRegister(s) \/ RegisterFails(s) PROVE FilingInv'
  BY <1>1, <1>5 DEF Discover, SkipRegister, RegisterFails, cacheVars
<1>6. ASSUME NEW s \in Sensor, Upload(s) PROVE FilingInv'
  <2>0. batch[s] \in SUBSET (1 .. Len(taken)) /\ \A i \in batch[s] : taken[i] = s
    BY DEF BatchIsOldest, Mine, Drainable, Unsent, TypeOK, CacheTypeOK, ThreadTypeOK
  <2>1. ASSUME UNCHANGED <<sensorID, taken, registry>>, NoMisfiledReading' PROVE FilingInv'
    BY <2>1 DEF FilingInv, IDIsOwn
  <2>2. CASE FlushNothing(s) \/ ReadBatch(s)
    BY <1>1, <2>2 DEF FlushNothing, ReadBatch, cacheVars
  <2>3. CASE SendBatch(s) \/ SendBatchUnanswered(s)
    BY <2>0, <2>1, <2>3, StoringFiles DEF SendBatch, SendBatchUnanswered, cacheVars
  <2>4. CASE SendBatchMissing(s) \/ SendBatchFails(s) \/ SendOneFails(s)
    BY <1>1, <2>4 DEF SendBatchMissing, SendBatchFails, SendOneFails, cacheVars
  <2>5. ASSUME NEW r \in batch[s], SendOne(s, r) \/ SendOneUnanswered(s, r) PROVE FilingInv'
    <3>1. {r} \in SUBSET (1 .. Len(taken)) /\ \A i \in {r} : taken[i] = s
      BY <2>0
    <3> QED  BY <2>1, <2>5, <3>1, StoringFiles DEF SendOne, SendOneUnanswered, cacheVars
  <2>6. CASE Retire(s) \/ RetireFails(s) \/ CollectOld(s)
    BY <1>1, <2>6 DEF Retire, RetireFails, CollectOld, cacheVars
  <2> QED
    BY <1>6, <2>2, <2>3, <2>4, <2>5, <2>6 DEF Upload
<1>7. ASSUME NEW s \in Sensor, BeginMaintenance(s) \/ BeginUpload(s) \/ Start(s) PROVE FilingInv'
  BY <1>1, <1>7 DEF BeginMaintenance, BeginUpload, Start, cacheVars
<1>8. ASSUME NEW s \in Sensor, Exit(s) PROVE FilingInv'
  BY <1>8 DEF Exit, cacheVars, serverVars, FilingInv, IDIsOwn, NoMisfiledReading,
              TypeOK, ThreadTypeOK
<1>9. ASSUME NEW b \in Backend, BackendDown(b) \/ BackendUp(b) PROVE FilingInv'
  BY <1>1, <1>9 DEF BackendDown, BackendUp, threadVars, cacheVars
<1> QED
  BY <1>2, <1>3, <1>4, <1>5, <1>6, <1>7, <1>8, <1>9 DEF Next, Maintenance

\* As long as the Pi only ever talks to one backend, every stored reading is
\* filed under its own sensor, however many sensors share the cache.
THEOREM RightlyFiled ==
  ASSUME OneBackend
  PROVE  Spec => []NoMisfiledReading
<1>1. Init => FilingInv
  BY DEF Init, FilingInv, IDIsOwn, NoMisfiledReading
<1>2. FilingInv => NoMisfiledReading
  BY DEF FilingInv
<1>3. DeliveryInv /\ FilingInv /\ [Next]_vars => FilingInv'
  BY FilingStep
<1> QED
  BY <1>1, <1>2, <1>3, DeliveryInvariant, PTL DEF Spec

-----------------------------------------------------------------------------
(* The clients implement the delivery promise.                             *)

\* A step of the clients is a step of ReadingDelivery or leaves it unchanged.
LEMMA StepDelivers == DeliveryInv /\ [Next]_vars => [Delivery!Next]_(Delivery!vars)
<1> SUFFICES ASSUME DeliveryInv, [Next]_vars PROVE [Delivery!Next]_(Delivery!vars)
  OBVIOUS
<1> USE DEF DeliveryInv
<1>1. ASSUME UNCHANGED cacheVars, stored' = stored PROVE UNCHANGED Delivery!vars
  BY <1>1 DEF cacheVars, Delivery!vars, Delivered
<1>2. ASSUME UNCHANGED cacheVars, NEW s \in Sensor, NEW ids \in SUBSET batch[s],
             Delivered' = Delivered \cup ids
      PROVE  Delivery!Next
  <2>1. ids \subseteq Unsent(cache)
    BY DEF BatchIsOldest, Mine, Drainable
  <2>2. Delivery!Deliver
    BY <1>2, <2>1 DEF cacheVars, Delivery!Deliver
  <2> QED  BY <2>2 DEF Delivery!Next
<1>3. CASE UNCHANGED vars
  BY <1>1, <1>3 DEF vars, threadVars, serverVars
<1>4. ASSUME NEW s \in Sensor, Record(s) PROVE Delivery!Next
  <2>1. /\ Len(taken') = Len(taken) + 1 /\ Len(taken) \in Nat
        /\ Len(taken') \notin DOMAIN cache
    BY <1>4 DEF Record, TypeOK, CacheTypeOK
  <2>2. Unsent(cache') = Unsent(cache) \cup {Len(taken')}
    BY <1>4, <2>1 DEF Record, SaveReading, Unsent
  <2>3. stored' = stored
    BY <1>4 DEF Record, serverVars
  <2>4. Delivered' = Delivered
    <3>1. ASSUME NEW b \in Backend, NEW t \in Sensor, NEW i, <<t, i>> \in stored[b]
          PROVE  i \in 1 .. Len(taken)
      BY <3>1 DEF TypeOK, ServerTypeOK
    <3>2. 1 .. Len(taken) \subseteq 1 .. Len(taken')
      BY <2>1
    <3> QED  BY <2>3, <3>1, <3>2 DEF Delivered
  <2>5. Delivery!Take(s)
    BY <1>4, <2>2, <2>4 DEF Record, Delivery!Take
  <2> QED  BY <2>5 DEF Delivery!Next
<1>5. ASSUME NEW s \in Sensor, Maintenance(s) PROVE UNCHANGED Delivery!vars
  BY <1>1, <1>5 DEF Maintenance, Discover, SkipRegister, Register, RegisterFails, serverVars
<1>6. ASSUME NEW s \in Sensor, Upload(s) PROVE Delivery!Next \/ UNCHANGED Delivery!vars
  <2> USE DEF serverVars
  <2>0. batch[s] \in SUBSET (1 .. Len(taken))
    BY DEF TypeOK, ThreadTypeOK
  <2>1. CASE FlushNothing(s) \/ ReadBatch(s)
    BY <1>1, <2>1 DEF FlushNothing, ReadBatch
  <2>2. CASE SendBatch(s) \/ SendBatchUnanswered(s)
    <3>1. Delivered' = Delivered \cup batch[s] /\ UNCHANGED cacheVars
      BY <2>0, <2>2, StoringDelivers DEF SendBatch, SendBatchUnanswered, cacheVars
    <3> QED  BY <1>2, <3>1
  <2>3. CASE SendBatchMissing(s) \/ SendBatchFails(s) \/ SendOneFails(s)
    BY <1>1, <2>3 DEF SendBatchMissing, SendBatchFails, SendOneFails
  <2>4. ASSUME NEW r \in batch[s], SendOne(s, r) \/ SendOneUnanswered(s, r)
        PROVE  Delivery!Next
    <3>1. {r} \in SUBSET (1 .. Len(taken))
      BY <2>0
    <3>2. Delivered' = Delivered \cup {r} /\ UNCHANGED cacheVars
      BY <2>4, <3>1, StoringDelivers DEF SendOne, SendOneUnanswered, cacheVars
    <3> QED  BY <1>2, <3>2
  <2>5. CASE Retire(s)
    <3>1. taken' = taken /\ Delivered' = Delivered
      BY <2>5 DEF Retire, Delivered
    <3>2. Mine(s) = Delivery!PendingOf(s)
      BY DEF Mine, Drainable, Delivery!PendingOf, Unsent, TypeOK, CacheTypeOK
    <3>3. /\ acked[s] \in SUBSET (Delivery!PendingOf(s) \cap Delivered)
          /\ \A i \in acked[s], j \in Delivery!PendingOf(s) : j < i => j \in acked[s]
      BY <3>2 DEF BatchIsOldest, AckedIsDelivered
    <3>4. acked[s] \subseteq DOMAIN cache
      BY <3>2, <3>3 DEF Mine, Drainable, Unsent
    <3>5. Unsent(cache') = Unsent(cache) \ acked[s]
      BY <2>5, <3>4 DEF Retire, RetireIDs, DeleteMany, MarkUploadedMany, Restrict, Unsent,
                        TypeOK, CacheTypeOK
    <3>6. Delivery!Retire(s)
      BY <3>1, <3>3, <3>5 DEF Delivery!Retire
    <3> QED  BY <3>6 DEF Delivery!Next
  <2>6. CASE RetireFails(s)
    BY <1>1, <2>6 DEF RetireFails
  <2>7. CASE CollectOld(s)
    BY <2>7 DEF CollectOld, Cleanup, Restrict, Unsent, Delivered, Delivery!vars
  <2> QED
    BY <1>6, <2>1, <2>2, <2>3, <2>4, <2>5, <2>6, <2>7 DEF Upload
<1>7. ASSUME NEW s \in Sensor, BeginMaintenance(s) \/ BeginUpload(s) \/ Exit(s) \/ Start(s)
      PROVE  UNCHANGED Delivery!vars
  BY <1>1, <1>7 DEF BeginMaintenance, BeginUpload, Exit, Start, serverVars
<1>8. ASSUME NEW b \in Backend, BackendDown(b) \/ BackendUp(b) PROVE UNCHANGED Delivery!vars
  BY <1>1, <1>8 DEF BackendDown, BackendUp, serverVars
<1> QED
  BY <1>3, <1>4, <1>5, <1>6, <1>7, <1>8 DEF Next

\* BackendClient refines ReadingDelivery: the delivery promise is kept by any
\* number of sensors and backends under any crashes and lost answers.
THEOREM ClientsDeliver == Spec => DeliverySpec
<1>1. Init => Delivery!Init
  BY DEF Init, Delivery!Init, Unsent, Delivered
<1> QED
  BY <1>1, StepDelivers, DeliveryInvariant, PTL DEF Spec, DeliverySpec, Delivery!Spec

=============================================================================
