-------------------------- MODULE ClientLoopProofs --------------------------
(***************************************************************************)
(* Proofs about ClientLoop: both due-times are met, the uploads keep up    *)
(* and the retries back off, whatever the intervals, the timeouts and the  *)
(* capacity.                                                               *)
(***************************************************************************)
EXTENDS ClientLoop, WellFoundedInduction, TLAPS

\* A cycle does not outlast its timeouts.
SpentInv ==
  /\ pc = "maintaining" => spent <= MaxDiscovery
  /\ pc = "uploading" => spent <= MaxFlush

\* When a cycle begins, the other one is not overdue.
DueInv ==
  /\ pc \in {"top", "waiting"} => toMaintenance > 0 \/ toUpload >= 0
  /\ pc = "maintaining" => toUpload + spent >= 0
  /\ pc = "between" => toMaintenance > 0
  /\ pc = "uploading" => toMaintenance + spent > 0 /\ (spent = 0 => toUpload + MaxDiscovery >= 0)

\* After an upload that left no more than came in meanwhile, what has gathered
\* is no more than the time since.
RowsInv ==
  keptUp /\ (pc = "uploading" => spent = 0) => backlog + toUpload <= MaxFlush + MaxSend

\* The inductive invariant.
LoopInv == TypeOK /\ SpentInv /\ DueInv /\ RowsInv /\ MaintenancePunctual /\ UploadPunctual

\* _send_delay() stays between its floor and its ceiling.
LEMMA SendDelayBounds ==
  ASSUME TypeOK
  PROVE  SendDelay \in Nat /\ SendDelay > 0 /\ SendDelay <= MaxSend
BY LoopAssumption DEF TypeOK, SendDelay, Smaller, Larger

\* The backoff stays between reconnect_seconds and the normal cycle.
LEMMA RetryDelayBounds ==
  ASSUME TypeOK, NEW found \in BOOLEAN
  PROVE  /\ CycleDelay(found) \in Nat /\ CycleDelay(found) > 0
         /\ NextRetryDelay(found) \in Reconnect .. Maintenance
BY LoopAssumption DEF TypeOK, CycleDelay, NextRetryDelay, Smaller

\* What an upload leaves.
LEMMA UploadDrains ==
  ASSUME TypeOK, EndUpload
  PROVE  backlog' \in 0 .. MaxBacklog /\ keptUp' \in BOOLEAN /\ (keptUp' => backlog' <= spent)
<1>1. CASE /\ \E late \in 0 .. Smaller(spent, backlog) :
               backlog' = backlog - Smaller(backlog - late, Capacity)
           /\ keptUp' = (backlog' <= spent)
  <2>1. backlog' \in 0 .. MaxBacklog
    BY <1>1, LoopAssumption, MarginAssumption DEF Smaller, TypeOK
  <2>2. CASE backlog' <= spent
    <3>1. keptUp' = TRUE
      BY <1>1, <2>2, Zenon
    <3> QED  BY <2>1, <2>2, <3>1
  <2>3. CASE ~(backlog' <= spent)
    <3>1. (backlog' <= spent) = FALSE
      BY <2>3
    <3>2. keptUp' = FALSE
      BY <1>1, <3>1, Zenon
    <3> QED  BY <2>1, <3>2
  <2> QED  BY <2>2, <2>3
<1>2. CASE /\ \E sent \in 0 .. Smaller(backlog, Capacity) : backlog' = backlog - sent
           /\ keptUp' = FALSE
  <2>1. backlog' \in 0 .. MaxBacklog
    BY <1>2, LoopAssumption, MarginAssumption DEF Smaller, TypeOK
  <2> QED  BY <1>2, <2>1
<1> QED  BY <1>1, <1>2 DEF EndUpload

\* Both cycles are due at the start, and neither is late.
LEMMA InitLoop == Init => LoopInv
<1> SUFFICES ASSUME Init PROVE LoopInv
  OBVIOUS
<1> USE LoopAssumption DEF Init
<1>1. TypeOK
  <2>1. /\ spent \in Nat /\ delay \in Nat
        /\ toMaintenance \in Int /\ toUpload \in Int
        /\ retryDelay \in Reconnect .. Maintenance
        /\ backlog \in 0 .. MaxBacklog
        /\ failures \in 0 .. MaxFailures
    OBVIOUS
  <2>2. uploadDue \in BOOLEAN /\ connected \in BOOLEAN /\ keptUp \in BOOLEAN
    OBVIOUS
  <2> QED  BY <2>1, <2>2 DEF TypeOK
<1>2. SpentInv /\ DueInv /\ RowsInv
  BY DEF SpentInv, DueInv, RowsInv
<1>3. MaintenancePunctual /\ UploadPunctual
  BY DEF MaintenancePunctual, UploadPunctual
<1> QED  BY <1>1, <1>2, <1>3 DEF LoopInv

\* Every step of the thread keeps it.
LEMMA LoopStep == LoopInv /\ [Next]_vars => LoopInv'
<1> SUFFICES ASSUME LoopInv, [Next]_vars PROVE LoopInv'
  OBVIOUS
<1> USE LoopAssumption, MarginAssumption
    DEF LoopInv, TypeOK, SpentInv, DueInv, RowsInv, MaintenancePunctual, UploadPunctual,
        dueVars, syncVars, rowVars
<1>1. CASE Look
  BY <1>1 DEF Look
<1>2. CASE EndMaintenance
  <2>1. PICK found \in BOOLEAN :
          /\ delay' = CycleDelay(found) /\ retryDelay' = NextRetryDelay(found)
          /\ failures' = IF found THEN 0 ELSE Smaller(failures + 1, MaxFailures)
          /\ connected' = found
          /\ sendSeconds' = sendSeconds \/ sendSeconds' \in SendIntervals
    BY <1>2 DEF EndMaintenance
  <2>2. /\ delay' \in Nat /\ delay' > 0 /\ retryDelay' \in Reconnect .. Maintenance
    BY <2>1, RetryDelayBounds
  <2>3. failures' \in 0 .. MaxFailures /\ connected' \in BOOLEAN
    BY <2>1 DEF Smaller
  <2>4. sendSeconds' \in SendIntervals
    BY <2>1
  <2> QED  BY <1>2, <2>2, <2>3, <2>4 DEF EndMaintenance
<1>3. CASE LookAgain
  BY <1>3 DEF LookAgain
<1>4. CASE EndUpload
  <2>1. PICK b \in 0 .. MaxBacklog : backlog' = b /\ keptUp' \in BOOLEAN /\ (keptUp' => b <= spent)
    BY <1>4, UploadDrains
  <2>2. PICK t \in Nat \ {0} : toUpload' = t /\ t <= MaxSend
    BY <1>4, SendDelayBounds DEF EndUpload
  <2>3. TypeOK'
    BY <1>4, <2>1, <2>2 DEF EndUpload
  <2>4. SpentInv' /\ DueInv' /\ MaintenancePunctual' /\ UploadPunctual'
    BY <1>4, <2>2 DEF EndUpload
  <2>5. keptUp' => b + t <= MaxFlush + MaxSend
    BY <1>4, <2>1, <2>2 DEF EndUpload
  <2> QED  BY <2>1, <2>2, <2>3, <2>4, <2>5
<1>5. CASE EndWait
  BY <1>5 DEF EndWait, TimeToWake, Smaller
<1>6. CASE Advance
  <2>1. backlog' \in 0 .. MaxBacklog /\ backlog' <= backlog + 1
    BY <1>6 DEF Advance, Smaller
  <2>2. pc = "waiting" => toMaintenance > 0 /\ toUpload > 0
    BY <1>6 DEF Advance, TimeToWake, Smaller
  <2> QED  BY <1>6, <2>1, <2>2 DEF Advance
<1>7. CASE Stop
  BY <1>7 DEF Stop
<1>8. CASE UNCHANGED vars
  BY <1>8 DEF vars
<1> QED
  BY <1>1, <1>2, <1>3, <1>4, <1>5, <1>6, <1>7, <1>8 DEF Next, Step

\* The invariant, for every value of the constants.
THEOREM LoopInvariant == Spec => []LoopInv
BY InitLoop, LoopStep, PTL DEF Spec

\* The delays of _cycle_delay() stay between reconnect_seconds and the cycle.
THEOREM LoopTypes == Spec => []TypeOK
<1>1. LoopInv => TypeOK
  BY DEF LoopInv
<1> QED  BY LoopInvariant, <1>1, PTL

\* No upload, however long, delays a maintenance cycle of _run() by more than
\* its own timeouts.
THEOREM MaintenanceInTime == Spec => []MaintenancePunctual
<1>1. LoopInv => MaintenancePunctual
  BY DEF LoopInv
<1> QED  BY LoopInvariant, <1>1, PTL

\* No search for a backend delays an upload of _run() by more than its own
\* timeouts, not even twice in a row.
THEOREM UploadInTime == Spec => []UploadPunctual
<1>1. LoopInv => UploadPunctual
  BY DEF LoopInv
<1> QED  BY LoopInvariant, <1>1, PTL

\* With the margin of MAX_SEND_SECONDS a connected client keeps up.
THEOREM LoopKeepsUp == Spec => []KeepsUp
<1>1. LoopInv => KeepsUp
  BY LoopAssumption, MarginAssumption DEF LoopInv, TypeOK, DueInv, RowsInv, KeepsUp
<1> QED  BY LoopInvariant, <1>1, PTL

-----------------------------------------------------------------------------
(* Induction over the natural numbers, by the least element of a set.      *)

\* A set of natural numbers has a least element.
LEMMA Least ==
  ASSUME NEW S, S \subseteq Nat, S # {}
  PROVE  \E m \in S : \A k \in S : m <= k
<1>1. PICK m \in S : \A k \in S : <<k, m>> \notin OpToRel(<, Nat)
  BY NatLessThanWellFounded, WFMin
<1>2. ASSUME NEW k \in S PROVE m <= k
  <2>1. <<k, m>> \notin {p \in Nat \X Nat : p[1] < p[2]}
    BY <1>1 DEF OpToRel
  <2> QED  BY <2>1
<1> QED  BY <1>2

\* The sequences that start with a and go on by h, up to the n-th.
Orbit(S, a, h, n) ==
  {g \in [0 .. n -> S] : g[0] = a /\ \A k \in 1 .. n : g[k] = h[g[k - 1]]}

\* There is one for every n.
LEMMA OrbitExists ==
  ASSUME NEW S, NEW a \in S, NEW h \in [S -> S]
  PROVE  \A n \in Nat : Orbit(S, a, h, n) # {}
<1> DEFINE Unreached == {n \in Nat : Orbit(S, a, h, n) = {}}
<1> SUFFICES ASSUME Unreached # {} PROVE FALSE
  OBVIOUS
<1>1. PICK m \in Unreached : \A k \in Unreached : m <= k
  <2>1. Unreached \subseteq Nat
    OBVIOUS
  <2> HIDE DEF Unreached
  <2> QED  BY <2>1, Least
<1>2. m # 0
  <2>1. [k \in 0 .. 0 |-> a] \in Orbit(S, a, h, 0)
    BY DEF Orbit
  <2> QED  BY <2>1
<1>3. m - 1 \in Nat /\ m - 1 \notin Unreached
  BY <1>1, <1>2
<1>4. PICK g \in Orbit(S, a, h, m - 1) : TRUE
  BY <1>3
<1>5. /\ g \in [0 .. m - 1 -> S] /\ g[0] = a
      /\ \A k \in 1 .. m - 1 : g[k] = h[g[k - 1]]
  BY <1>4 DEF Orbit
<1> DEFINE longer == [k \in 0 .. m |-> IF k = m THEN h[g[m - 1]] ELSE g[k]]
<1>6. longer \in [0 .. m -> S] /\ longer[0] = a
  BY <1>2, <1>3, <1>5
<1>7. ASSUME NEW k \in 1 .. m PROVE longer[k] = h[longer[k - 1]]
  BY <1>3, <1>5
<1>8. longer \in Orbit(S, a, h, m)
  <2> HIDE DEF longer
  <2> QED  BY <1>6, <1>7 DEF Orbit
<1> QED  BY <1>8

\* Two of them agree as far as both go.
LEMMA OrbitUnique ==
  ASSUME NEW S, NEW a \in S, NEW h \in [S -> S], NEW n \in Nat, NEW m \in Nat, n <= m,
         NEW f \in Orbit(S, a, h, n), NEW g \in Orbit(S, a, h, m)
  PROVE  f[n] = g[n]
<1> DEFINE Differ == {k \in 0 .. n : f[k] # g[k]}
<1> SUFFICES ASSUME Differ # {} PROVE FALSE
  OBVIOUS
<1>1. PICK d \in Differ : \A k \in Differ : d <= k
  <2>1. Differ \subseteq Nat
    OBVIOUS
  <2> HIDE DEF Differ
  <2> QED  BY <2>1, Least
<1>2. d # 0
  BY <1>1 DEF Orbit
<1>3. f[d - 1] = g[d - 1]
  BY <1>1, <1>2
<1>4. f[d] = h[f[d - 1]] /\ g[d] = h[g[d - 1]]
  BY <1>2 DEF Orbit
<1> QED  BY <1>3, <1>4

\* The infinite ones.
Recursions(S, a, h) == {f \in [Nat -> S] : f[0] = a /\ \A n \in Nat : f[n + 1] = h[f[n]]}

\* So a function of the natural numbers can be defined by its first value and
\* by what it does from one to the next.
LEMMA PrimitiveRecursion ==
  ASSUME NEW S, NEW a \in S, NEW h \in [S -> S]
  PROVE  Recursions(S, a, h) # {}
<1> DEFINE Upto(n) == CHOOSE g \in Orbit(S, a, h, n) : TRUE
           f == [n \in Nat |-> Upto(n)[n]]
<1>1. ASSUME NEW n \in Nat PROVE Upto(n) \in Orbit(S, a, h, n)
  BY OrbitExists
<1> HIDE DEF Upto
<1>2. ASSUME NEW n \in Nat PROVE Upto(n)[n] \in S
  BY <1>1 DEF Orbit
<1>3. f \in [Nat -> S]
  BY <1>2
<1>4. f[0] = a
  BY <1>1 DEF Orbit
<1>5. ASSUME NEW n \in Nat PROVE f[n + 1] = h[f[n]]
  <2>1. Upto(n + 1)[n + 1] = h[Upto(n + 1)[n]]
    BY <1>1 DEF Orbit
  <2>2. Upto(n)[n] = Upto(n + 1)[n]
    BY <1>1, OrbitUnique
  <2> QED  BY <2>1, <2>2
<1> HIDE DEF f
<1> QED  BY <1>3, <1>4, <1>5 DEF Recursions

\* The powers of two are what their definition says.
LEMMA Powers ==
  /\ TwoToThe \in [Nat -> Nat]
  /\ TwoToThe[0] = 1
  /\ \A n \in Nat : TwoToThe[n + 1] = 2 * TwoToThe[n]
<1> DEFINE Defines(f) == f = [n \in Nat |-> IF n = 0 THEN 1 ELSE 2 * f[n - 1]]
           double == [x \in Nat |-> 2 * x]
<1>1. PICK f \in [Nat -> Nat] : f[0] = 1 /\ \A n \in Nat : f[n + 1] = double[f[n]]
  <2>1. double \in [Nat -> Nat] /\ 1 \in Nat
    OBVIOUS
  <2> HIDE DEF double
  <2>2. Recursions(Nat, 1, double) # {}
    BY <2>1, PrimitiveRecursion
  <2> QED  BY <2>2 DEF Recursions
<1>2. Defines(f)
  <2>1. ASSUME NEW n \in Nat PROVE f[n] = IF n = 0 THEN 1 ELSE 2 * f[n - 1]
    <3>1. CASE n = 0
      BY <1>1, <3>1
    <3>2. CASE n # 0
      <4>1. n - 1 \in Nat /\ n = (n - 1) + 1 /\ f[n - 1] \in Nat
        BY <3>2
      <4>2. f[(n - 1) + 1] = double[f[n - 1]]
        BY <1>1, <4>1
      <4> QED  BY <3>2, <4>1, <4>2
    <3> QED  BY <3>1, <3>2
  <2> QED  BY <1>1, <2>1
<1>3. TwoToThe = CHOOSE g : Defines(g)
  BY DEF TwoToThe
<1>4. Defines(TwoToThe)
  <2> HIDE DEF Defines
  <2> QED  BY <1>2, <1>3, Zenon
<1>5. TwoToThe[0] = 1 /\ \A n \in Nat : TwoToThe[n + 1] = 2 * TwoToThe[n]
  BY <1>4
<1>6. TwoToThe = f
  <2> DEFINE Differ == {n \in Nat : TwoToThe[n] # f[n]}
  <2>1. Differ = {}
    <3> SUFFICES ASSUME Differ # {} PROVE FALSE
      OBVIOUS
    <3>1. PICK d \in Differ : \A k \in Differ : d <= k
      <4>1. Differ \subseteq Nat
        OBVIOUS
      <4> HIDE DEF Differ
      <4> QED  BY <4>1, Least
    <3>2. d # 0
      BY <1>1, <1>5, <3>1
    <3>3. TwoToThe[d - 1] = f[d - 1]
      BY <3>1, <3>2
    <3>4. d - 1 \in Nat /\ d = (d - 1) + 1 /\ f[d - 1] \in Nat
      BY <3>1, <3>2
    <3>5. f[(d - 1) + 1] = 2 * f[d - 1] /\ TwoToThe[(d - 1) + 1] = 2 * TwoToThe[d - 1]
      BY <1>1, <1>5, <3>4
    <3> QED  BY <3>1, <3>3, <3>4, <3>5
  <2> QED  BY <1>1, <1>4, <2>1
<1> QED  BY <1>5, <1>6

-----------------------------------------------------------------------------
(* The retries of an outage.                                               *)

\* What the next retry will wait, and what the latest one was told to.
BackoffInv ==
  /\ failures = 0 => retryDelay = Reconnect
  /\ failures > 0 =>
       /\ delay = Smaller(Reconnect * TwoToThe[failures - 1], Maintenance)
       /\ retryDelay = Smaller(Reconnect * TwoToThe[failures], Maintenance)

\* _cycle_delay() doubles the delay up to its cap; once it is there, the count of
\* the failures is no matter.
LEMMA BackoffStep == ASSUME TypeOK, BackoffInv, [Next]_vars PROVE BackoffInv'
<1>1. CASE EndMaintenance
  <2>1. PICK found \in BOOLEAN :
          /\ delay' = CycleDelay(found) /\ retryDelay' = NextRetryDelay(found)
          /\ failures' = IF found THEN 0 ELSE Smaller(failures + 1, MaxFailures)
    BY <1>1 DEF EndMaintenance
  <2>2. CASE found = TRUE
    BY <2>1, <2>2 DEF NextRetryDelay, BackoffInv
  <2>3. CASE found = FALSE
    <3> DEFINE F(n) == Reconnect * TwoToThe[n]
    <3>1. /\ Reconnect \in Nat \ {0} /\ Maintenance \in Nat /\ Reconnect <= Maintenance
          /\ MaxFailures \in Nat \ {0} /\ failures \in 0 .. MaxFailures
          /\ retryDelay \in Nat
      BY LoopAssumption DEF TypeOK
    <3>2. F(0) = Reconnect
      BY <3>1, Powers
    <3>3. \A n \in Nat : F(n) \in Nat /\ F(n + 1) = 2 * F(n)
      BY <3>1, Powers
    <3>4. Maintenance <= F(MaxFailures - 1)
      BY BackoffAssumption
    <3>5. /\ failures = 0 => retryDelay = Reconnect
          /\ failures > 0 => retryDelay = Smaller(F(failures), Maintenance)
      BY DEF BackoffInv
    <3>6. /\ delay' = retryDelay /\ retryDelay' = Smaller(retryDelay * 2, Maintenance)
          /\ failures' = Smaller(failures + 1, MaxFailures)
      BY <2>1, <2>3 DEF CycleDelay, NextRetryDelay
    <3> HIDE DEF F
    <3>7. retryDelay = Smaller(F(failures), Maintenance)
      BY <3>1, <3>2, <3>5 DEF Smaller
    <3>8. retryDelay' = Smaller(F(failures + 1), Maintenance)
      BY <3>1, <3>3, <3>6, <3>7 DEF Smaller
    <3>9. CASE failures < MaxFailures
      <4>1. failures' = failures + 1 /\ failures' > 0 /\ failures' - 1 = failures
        BY <3>1, <3>6, <3>9 DEF Smaller
      <4> QED  BY <3>6, <3>7, <3>8, <4>1 DEF BackoffInv, F
    <3>10. CASE failures = MaxFailures
      <4>1. failures' = failures /\ failures' > 0 /\ failures - 1 \in Nat
        BY <3>1, <3>6, <3>10 DEF Smaller
      <4>2. Maintenance <= F(failures - 1) /\ Maintenance <= F(failures)
        <5>1. F((failures - 1) + 1) = 2 * F(failures - 1) /\ F(failures - 1) \in Nat
          BY <3>3, <4>1
        <5>2. (failures - 1) + 1 = failures
          BY <3>1
        <5> QED  BY <3>1, <3>4, <3>10, <5>1, <5>2
      <4>3. F(failures - 1) \in Nat /\ F(failures) \in Nat
        BY <3>1, <3>3, <4>1
      <4>4. retryDelay = Maintenance
        BY <3>1, <3>7, <4>2, <4>3 DEF Smaller
      <4>5. delay' = Smaller(F(failures - 1), Maintenance)
        BY <3>1, <3>6, <4>2, <4>3, <4>4 DEF Smaller
      <4>6. retryDelay' = Smaller(F(failures), Maintenance)
        BY <3>1, <3>6, <4>2, <4>3, <4>4 DEF Smaller
      <4> QED  BY <4>1, <4>5, <4>6 DEF BackoffInv, F
    <3> QED  BY <3>1, <3>9, <3>10
  <2> QED  BY <2>2, <2>3
<1>2. CASE UNCHANGED syncVars
  BY <1>2 DEF syncVars, BackoffInv
<1> QED
  BY <1>1, <1>2 DEF Next, Step, Look, LookAgain, EndUpload, EndWait, Stop, Advance, vars

\* The n-th retry of an outage waits as _cycle_delay() promises, for every
\* reconnect_seconds and every cycle, whatever outages came before.
THEOREM RetriesBackOff == Spec => []BackoffDoubles
<1>1. Init => BackoffInv
  BY DEF Init, BackoffInv
<1>2. LoopInv /\ BackoffInv /\ [Next]_vars => BackoffInv'
  BY BackoffStep DEF LoopInv
<1>3. BackoffInv => BackoffDoubles
  BY DEF BackoffInv, BackoffDoubles
<1> QED  BY LoopInvariant, <1>1, <1>2, <1>3, PTL DEF Spec

=============================================================================
