--------------------------- MODULE RetentionProofs ---------------------------
(***************************************************************************)
(* Proofs about Retention, for every number of sensors and rows, whatever  *)
(* the config files say and however the clocks are set: no row leaves the  *)
(* cache that no backend has acknowledged.                                 *)
(***************************************************************************)
EXTENDS Retention, TLAPS

\* A row is marked, or about to be retired, only once it is acknowledged.
AckInv ==
  /\ \A i \in DOMAIN log : log[i].uploaded => i \in DOMAIN acked \/ log[i].source = None
  /\ \A p \in Process : uploaded[p] \subseteq DOMAIN acked

\* The inductive invariant.
RetentionInv == TypeOK /\ AckInv

\* cleanupDays is a number of days whatever an accepted file holds.
LEMMA DaysOfAnyFile ==
  ASSUME NEW f \in Files
  PROVE  CleanupDays(FileOf[f]) \in Nat
<1> DEFINE file == FileOf[f]
           v == Or(Get(file, "Retention"), Get(file, "cleanupDays"))
<1>1. v = Absent \/ \E k \in DOMAIN file : v = file[k]
  BY DEF Or, Get
<1>2. v # Absent => ToNumber(v, DEFAULT_CLEANUP_DAYS) \in Int
  <2> HIDE DEF v
  <2> QED  BY <1>1, RetentionAssumption DEF ToNumber, IsNumber, DEFAULT_CLEANUP_DAYS
<1> HIDE DEF v
<1>3. v # Absent => AtLeastZero(ToNumber(v, DEFAULT_CLEANUP_DAYS)) \in Nat
  BY <1>2 DEF AtLeastZero
<1> QED  BY <1>3 DEF CleanupDays, v, DEFAULT_CLEANUP_DAYS

\* A batch offered holds unsent rows of the cache.
LEMMA OfferedUnsent ==
  ASSUME NEW stream, NEW source, NEW limit
  PROVE  GetUnsent(log, stream, source, limit) \subseteq {i \in DOMAIN log : ~log[i].uploaded}
BY DEF GetUnsent, Drainable, Unsent

\* What the statements make of a row is a row.
LEMMA RowEdits ==
  ASSUME NEW r \in Row
  PROVE  /\ [r EXCEPT !.uploaded = TRUE] \in Row
         /\ [r EXCEPT !.bootID = FALSE] \in Row
         /\ [r EXCEPT !.error = 0, !.timeConfidence = "CORRECTED"] \in Row
         /\ [r EXCEPT !.age = IF r.age < Oldest THEN r.age + 1 ELSE r.age] \in Row
<1>1. [r EXCEPT !.uploaded = TRUE] \in Row
  BY DEF Row
<1>2. [r EXCEPT !.bootID = FALSE] \in Row
  BY DEF Row
<1>3. [r EXCEPT !.error = 0, !.timeConfidence = "CORRECTED"] \in Row
  BY DEF Row
<1>4. (IF r.age < Oldest THEN r.age + 1 ELSE r.age) \in 0 .. Oldest
  BY RetentionAssumption DEF Row
<1>5. [r EXCEPT !.age = IF r.age < Oldest THEN r.age + 1 ELSE r.age] \in Row
  BY <1>4 DEF Row
<1> QED  BY <1>1, <1>2, <1>3, <1>5

\* The cache starts with one row, which a migration has retired.
LEMMA InitRetention == Init => RetentionInv
<1> SUFFICES ASSUME Init PROVE RetentionInv
  OBVIOUS
<1> USE RetentionAssumption DEF Init
<1>1. PICK p \in Process :
        log = [i \in {1} |-> [stream |-> StreamOf[p], source |-> None, uploaded |-> TRUE,
                              bootID |-> FALSE, age |-> Oldest, error |-> 0,
                              timeConfidence |-> "ESTIMATED"]]
  OBVIOUS
<1>2. \A q \in Process : Days(q) \in Nat
  BY DaysOfAnyFile DEF Days
<1>3. DOMAIN log = {1} /\ log[1] \in Row /\ log[1].source = None
  BY <1>1 DEF Row
<1>4. TypeOK
  BY <1>2, <1>3 DEF TypeOK
<1>5. AckInv
  BY <1>3 DEF AckInv
<1> QED  BY <1>4, <1>5 DEF RetentionInv

\* The types.
LEMMA RetentionTypes == ASSUME TypeOK, Next PROVE TypeOK'
<1> USE RetentionAssumption DEF TypeOK, Goto, Fault
<1>1. ASSUME NEW p \in Process, NEW synced \in BOOLEAN, Save(p, synced) PROVE TypeOK'
  <2> DEFINE row == [stream |-> StreamOf[p], source |-> p, uploaded |-> FALSE, bootID |-> TRUE,
                     age |-> 0, error |-> IF synced THEN 0 ELSE wrong,
                     timeConfidence |-> IF synced THEN "SYNCED" ELSE "ESTIMATED"]
  <2>1. row \in Row
    BY DEF Row
  <2>2. saved' = saved + 1 /\ saved' \in 1 .. MaxRows
    BY <1>1 DEF Save
  <2>3. log' = [i \in DOMAIN log \cup {saved'} |-> IF i = saved' THEN row ELSE log[i]]
    BY <1>1 DEF Save, SaveReading
  <2> HIDE DEF row
  <2>4. DOMAIN log' \subseteq 1 .. saved' /\ \A i \in DOMAIN log' : log'[i] \in Row
    BY <2>1, <2>2, <2>3
  <2>5. saved \in Nat /\ saved <= saved' /\ 1 .. saved \subseteq 1 .. saved'
    BY <2>2
  <2>6. uploaded' \in [Process -> SUBSET (1 .. saved')] /\ DOMAIN acked' \subseteq 1 .. saved'
    BY <1>1, <2>5 DEF Save
  <2> QED  BY <1>1, <2>2, <2>4, <2>6 DEF Save, Days
<1>2. ASSUME NEW p \in Process, Correct(p) PROVE TypeOK'
  <2>1. DOMAIN log' = DOMAIN log /\ \A i \in DOMAIN log' : log'[i] \in Row
    <3>1. log' = [i \in DOMAIN log |->
                    IF i \in Correctable(log, TRUE)
                    THEN [log[i] EXCEPT !.error = 0, !.timeConfidence = "CORRECTED"]
                    ELSE log[i]]
      BY <1>2 DEF Correct, CorrectRows
    <3> QED  BY <3>1, RowEdits
  <2> QED  BY <1>2, <2>1 DEF Correct, Days
<1>3. ASSUME NEW p \in Process, Send(p) PROVE TypeOK'
  <2>1. PICK got \in SUBSET DOMAIN log :
          /\ uploaded' = [uploaded EXCEPT ![p] = got]
          /\ acked' = [i \in DOMAIN acked \cup got |-> i \in got \/ acked[i]]
    BY <1>3, OfferedUnsent DEF Send
  <2>2. \A i \in DOMAIN acked' : acked'[i] \in BOOLEAN
    <3>1. \A i : (i \in got \/ acked[i]) \in BOOLEAN
      OBVIOUS
    <3> QED  BY <2>1, <3>1
  <2> QED  BY <1>3, <2>1, <2>2 DEF Send, Days
<1>4. ASSUME NEW p \in Process, Retire(p) PROVE TypeOK'
  <2>1. DOMAIN log' \subseteq DOMAIN log /\ \A i \in DOMAIN log' : log'[i] \in Row
    BY <1>4, RowEdits DEF Retire, DeleteMany, MarkUploadedMany, Restrict
  <2> QED  BY <1>4, <2>1 DEF Retire, Days
<1>5. ASSUME NEW p \in Process, Sweep(p) PROVE TypeOK'
  <2>1. DOMAIN log' \subseteq DOMAIN log /\ \A i \in DOMAIN log' : log'[i] \in Row
    BY <1>5 DEF Sweep, Swept, Cleanup, Restrict
  <2> QED  BY <1>5, <2>1 DEF Sweep, Days
<1>6. ASSUME NEW p \in Process, Exit(p) PROVE TypeOK'
  <2>1. config' \in [Process -> Files]
    BY <1>6 DEF Exit
  <2>2. \A q \in Process : CleanupDays(FileOf[config'[q]]) \in Nat
    BY <2>1, DaysOfAnyFile
  <2> QED  BY <1>6, <2>1, <2>2 DEF Exit, Days
<1>7. CASE Boot
  <2>1. DOMAIN log' = DOMAIN log /\ \A i \in DOMAIN log' : log'[i] \in Row
    BY <1>7, RowEdits DEF Boot
  <2> QED  BY <1>7, <2>1 DEF Boot, Days
<1>8. CASE Day
  <2>1. DOMAIN log' = DOMAIN log /\ \A i \in DOMAIN log' : log'[i] \in Row
    BY <1>8, RowEdits DEF Day
  <2> QED  BY <1>8, <2>1 DEF Day, Days
<1> QED
  BY <1>1, <1>2, <1>3, <1>4, <1>5, <1>6, <1>7, <1>8 DEF Next, Upload

\* A step acknowledges rows, marks rows that are acknowledged, or leaves both
\* as they are; and what leaves the cache was one of these.
LEMMA AckStep ==
  ASSUME TypeOK, AckInv, Next
  PROVE  /\ AckInv'
         /\ \A i \in Leaving : i \in DOMAIN acked \/ log[i].source = None
<1> USE DEF AckInv, Leaving, TypeOK
<1>1. ASSUME NEW p \in Process, NEW synced \in BOOLEAN, Save(p, synced)
      PROVE  AckInv' /\ Leaving = {}
  BY <1>1 DEF Save, SaveReading
<1>2. ASSUME NEW p \in Process, Correct(p) PROVE AckInv' /\ Leaving = {}
  BY <1>2 DEF Correct, CorrectRows, Row
<1>3. ASSUME NEW p \in Process, Send(p) PROVE AckInv' /\ Leaving = {}
  <2>1. PICK got :
          /\ uploaded' = [uploaded EXCEPT ![p] = got]
          /\ acked' = [i \in DOMAIN acked \cup got |-> i \in got \/ acked[i]]
    BY <1>3 DEF Send
  <2>2. DOMAIN acked' = DOMAIN acked \cup got
    BY <2>1
  <2> QED  BY <1>3, <2>1, <2>2 DEF Send
<1>4. ASSUME NEW p \in Process, Retire(p)
      PROVE  AckInv' /\ \A i \in Leaving : i \in DOMAIN acked
  <2>1. /\ UNCHANGED acked /\ uploaded' = [uploaded EXCEPT ![p] = {}]
    BY <1>4 DEF Retire
  <2>2. CASE log' = DeleteMany(log, uploaded[p])
    BY <2>1, <2>2 DEF DeleteMany, Restrict
  <2>3. CASE log' = MarkUploadedMany(log, uploaded[p])
    BY <2>1, <2>3 DEF MarkUploadedMany, Row
  <2> QED  BY <1>4, <2>2, <2>3 DEF Retire, Finished
<1>5. ASSUME NEW p \in Process, Sweep(p)
      PROVE  AckInv' /\ \A i \in Leaving : log[i].uploaded
  BY <1>5 DEF Sweep, Swept, Cleanup, Restrict
<1>6. ASSUME NEW p \in Process, Exit(p) PROVE AckInv' /\ Leaving = {}
  BY <1>6 DEF Exit
<1>7. CASE Boot
  <2> AckInv' /\ Leaving = {}
    BY <1>7 DEF Boot, Row
  <2> QED  OBVIOUS
<1>8. CASE Day
  <2> AckInv' /\ Leaving = {}
    BY <1>8 DEF Day, Row
  <2> QED  OBVIOUS
<1> QED
  BY <1>1, <1>2, <1>3, <1>4, <1>5, <1>6, <1>7, <1>8 DEF Next, Upload

\* So every step keeps the invariant.
LEMMA RetentionStep == RetentionInv /\ [Next]_vars => RetentionInv'
<1>1. ASSUME RetentionInv, Next PROVE RetentionInv'
  BY <1>1, RetentionTypes, AckStep DEF RetentionInv
<1>2. ASSUME RetentionInv, UNCHANGED vars PROVE RetentionInv'
  BY <1>2 DEF RetentionInv, TypeOK, AckInv, Days, vars
<1> QED  BY <1>1, <1>2

\* The invariant, for every value of the constants.
THEOREM RetentionInvariant == Spec => []RetentionInv
BY InitRetention, RetentionStep, PTL DEF Spec

\* readConfig() makes a number of days of whatever a file it accepts may hold, and
\* the cache keeps its types.
THEOREM RetentionTyped == Spec => []TypeOK
<1>1. RetentionInv => TypeOK
  BY DEF RetentionInv
<1> QED  BY RetentionInvariant, <1>1, PTL

\* Neither _retire() nor the cleanup() of any sensor deletes a row that no
\* backend has acknowledged, but for those a migration has retired.
THEOREM OnlyAcknowledgedLeave == Spec => OnlyAckedLeave
<1> DEFINE Acknowledged == \A i \in Leaving : i \in DOMAIN acked \/ log[i].source = None
<1>1. RetentionInv /\ [Next]_vars => [Acknowledged]_vars
  BY AckStep DEF RetentionInv
<1> QED  BY RetentionInvariant, <1>1, PTL DEF Spec, OnlyAckedLeave

-----------------------------------------------------------------------------
(* How long a reading stays.                                               *)

\* readConfig() never keeps a reading shorter than its file asks for: where the
\* two `or`s pass over a value, that is a 0 or none at all.
LEMMA KeptAsAsked ==
  ASSUME NEW f \in Files
  PROVE  /\ DaysAsked(FileOf[f]) \in Int
         /\ DaysAsked(FileOf[f]) <= CleanupDays(FileOf[f])
<1> DEFINE r == Get(FileOf[f], "Retention")
           c == Get(FileOf[f], "cleanupDays")
           number(v) == ToNumber(v, DEFAULT_CLEANUP_DAYS)
<1>1. /\ r = Absent \/ r.value \in Int \cup {Typo, Empty}
      /\ c = Absent \/ c.value \in Int \cup {Typo, Empty}
  <2>1. /\ r = Absent \/ \E k \in DOMAIN FileOf[f] : r = FileOf[f][k]
        /\ c = Absent \/ \E k \in DOMAIN FileOf[f] : c = FileOf[f][k]
    BY DEF Get
  <2> HIDE DEF r, c
  <2> QED  BY <2>1, RetentionAssumption
<1>2. /\ DaysAsked(FileOf[f]) = AtLeastZero(number(IF Given(r) THEN r ELSE c))
      /\ CleanupDays(FileOf[f]) =
           LET v == IF Truthy(r) THEN r ELSE c IN IF v = Absent THEN 1 ELSE AtLeastZero(number(v))
  BY DEF DaysAsked, CleanupDays, Or, DEFAULT_CLEANUP_DAYS
<1> HIDE DEF r, c
<1>3. ASSUME NEW v, v = Absent \/ v.value \in Int \cup {Typo, Empty} PROVE number(v) \in Int
  BY <1>3 DEF ToNumber, IsNumber, DEFAULT_CLEANUP_DAYS
<1>4. number(Absent) = 1
  BY DEF ToNumber, IsNumber, DEFAULT_CLEANUP_DAYS
<1>5. CASE Truthy(r)
  BY <1>1, <1>2, <1>3, <1>5 DEF Truthy, Given, AtLeastZero
<1>6. CASE Given(r) /\ ~Truthy(r)
  <2>1. r.value = 0 /\ r # Absent
    BY <1>6 DEF Truthy, Given
  <2>2. number(r) = 0
    BY <2>1, ConfigAssumption DEF ToNumber, IsNumber
  <2> QED  BY <1>1, <1>2, <1>3, <1>6, <2>2 DEF AtLeastZero
<1>7. CASE ~Given(r)
  <2>1. ~Truthy(r)
    BY <1>7 DEF Given, Truthy
  <2> QED  BY <1>1, <1>2, <1>3, <1>4, <1>7, <2>1 DEF AtLeastZero
<1> QED  BY <1>5, <1>6, <1>7

\* What a process is about to retire is of its own stream.
StreamInv == \A p \in Process : \A i \in uploaded[p] \cap DOMAIN log : log[i].stream = StreamOf[p]

\* A row keeps its stream, and a new one has a new logID.
LEMMA StreamStep == ASSUME TypeOK, StreamInv, Next PROVE StreamInv'
<1> USE DEF TypeOK, StreamInv
<1>1. ASSUME NEW p \in Process, NEW synced \in BOOLEAN, Save(p, synced) PROVE StreamInv'
  <2>1. saved + 1 \notin 1 .. saved
    BY RetentionAssumption
  <2>2. /\ UNCHANGED uploaded
        /\ \A i \in DOMAIN log' : i # saved + 1 => i \in DOMAIN log /\ log'[i] = log[i]
    BY <1>1 DEF Save, SaveReading
  <2>3. \A q \in Process : saved + 1 \notin uploaded[q]
    BY <2>1
  <2> QED  BY <2>2, <2>3
<1>2. ASSUME NEW p \in Process, Correct(p) PROVE StreamInv'
  <2>1. DOMAIN log' = DOMAIN log /\ \A i \in DOMAIN log : log'[i].stream = log[i].stream
    BY <1>2 DEF Correct, CorrectRows, Row
  <2> QED  BY <1>2, <2>1 DEF Correct
<1>3. ASSUME NEW p \in Process, Send(p) PROVE StreamInv'
  <2>1. PICK got \in SUBSET GetUnsent(log, StreamOf[p], p, MaxRows) :
          uploaded' = [uploaded EXCEPT ![p] = got]
    BY <1>3 DEF Send
  <2>2. \A i \in got : log[i].stream = StreamOf[p]
    BY DEF GetUnsent, Drainable
  <2> QED  BY <1>3, <2>1, <2>2 DEF Send
<1>4. ASSUME NEW p \in Process, Retire(p) PROVE StreamInv'
  <2>1. DOMAIN log' \subseteq DOMAIN log /\ \A i \in DOMAIN log' : log'[i].stream = log[i].stream
    BY <1>4 DEF Retire, DeleteMany, MarkUploadedMany, Restrict, Row
  <2>2. \A q \in Process : uploaded'[q] \subseteq uploaded[q]
    BY <1>4 DEF Retire
  <2> QED  BY <2>1, <2>2
<1>5. ASSUME NEW p \in Process, Sweep(p) PROVE StreamInv'
  <2>1. DOMAIN log' \subseteq DOMAIN log /\ \A i \in DOMAIN log' : log'[i] = log[i]
    BY <1>5 DEF Sweep, Swept, Cleanup, Restrict
  <2> QED  BY <1>5, <2>1 DEF Sweep
<1>6. ASSUME NEW p \in Process, Exit(p) PROVE StreamInv'
  BY <1>6 DEF Exit
<1>7. CASE Boot
  BY <1>7 DEF Boot
<1>8. CASE Day
  <2>1. DOMAIN log' = DOMAIN log /\ \A i \in DOMAIN log : log'[i].stream = log[i].stream
    BY <1>8 DEF Day, Row
  <2> QED  BY <1>8, <2>1 DEF Day
<1> QED
  BY <1>1, <1>2, <1>3, <1>4, <1>5, <1>6, <1>7, <1>8 DEF Next, Upload

\* A step that takes a row with a true time out of the cache has a process of
\* its stream whose retention is over.
LEMMA LeavingOld ==
  ASSUME TypeOK, StreamInv, Next, wrong <= 0, NEW i \in Leaving, log[i].error = 0
  PROVE  \E p \in Process : log[i].stream = StreamOf[p] /\ Days(p) <= log[i].age
<1> USE DEF Leaving, TypeOK
<1>1. \/ \E p \in Process : Retire(p) \/ Sweep(p)
      \/ DOMAIN log' = DOMAIN log \/ \E id : DOMAIN log' = DOMAIN log \cup {id}
  BY DEF Next, Upload, Save, SaveReading, Correct, CorrectRows, Send, Exit, Boot, Day
<1>2. PICK p \in Process : Retire(p) \/ Sweep(p)
  BY <1>1
<1>3. /\ log[i].age \in Nat /\ Days(p) \in Nat /\ wrong \in Int
  BY RetentionAssumption DEF Row
<1>4. CASE Retire(p)
  <2>1. Days(p) = 0 /\ i \in uploaded[p]
    BY <1>4 DEF Retire, Finished, DeleteMany, MarkUploadedMany, Restrict
  <2> QED  BY <1>3, <2>1 DEF StreamInv
<1>5. CASE Sweep(p)
  <2>1. log[i].stream = StreamOf[p] /\ log[i].age > Days(p) + log[i].error - wrong
    BY <1>5 DEF Sweep, Swept, Cleanup, BeforeCutoff, Restrict
  <2> QED  BY <1>3, <2>1
<1> QED  BY <1>2, <1>4, <1>5

\* A reading with a true time stays as long as every sensor of its stream asks in
\* its file, whatever else is there and whatever readConfig() makes of it; only a
\* system clock that is ahead lets cleanup() delete it before.
THEOREM YoungReadingsStay == Spec => YoungStay
<1> DEFINE Asked == \A i \in Leaving :
                      log[i].error = 0 /\ wrong <= 0 => \E d \in AskedFor(log[i].stream) : log[i].age >= d
<1>1. Init => StreamInv
  BY DEF Init, StreamInv
<1>2. RetentionInv /\ StreamInv /\ [Next]_vars => StreamInv'
  <2>1. ASSUME StreamInv, UNCHANGED vars PROVE StreamInv'
    BY <2>1 DEF StreamInv, vars
  <2> QED  BY <2>1, StreamStep DEF RetentionInv
<1>3. RetentionInv /\ StreamInv /\ [Next]_vars => [Asked]_vars
  <2> SUFFICES ASSUME RetentionInv, StreamInv, Next,
                      NEW i \in Leaving, log[i].error = 0, wrong <= 0
               PROVE  \E d \in AskedFor(log[i].stream) : log[i].age >= d
    BY DEF vars
  <2>1. PICK p \in Process : log[i].stream = StreamOf[p] /\ Days(p) <= log[i].age
    BY LeavingOld DEF RetentionInv
  <2>2. config[p] \in Files /\ Days(p) \in Nat /\ log[i].age \in Nat
    BY RetentionAssumption DEF RetentionInv, TypeOK, Row, Leaving
  <2>3. /\ DaysAsked(FileOf[config[p]]) \in Int
        /\ DaysAsked(FileOf[config[p]]) <= Days(p)
    BY <2>2, KeptAsAsked DEF Days
  <2>4. DaysAsked(FileOf[config[p]]) \in AskedFor(log[i].stream)
    BY <2>1 DEF AskedFor
  <2> QED  BY <2>1, <2>2, <2>3, <2>4
<1> QED  BY RetentionInvariant, <1>1, <1>2, <1>3, PTL DEF Spec, YoungStay

=============================================================================
