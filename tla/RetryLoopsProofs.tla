-------------------------- MODULE RetryLoopsProofs --------------------------
(***************************************************************************)
(* Proofs about RetryLoops, for every budget, spacing and length of an     *)
(* attempt.                                                                *)
(***************************************************************************)
EXTENDS RetryLoops, TLAPS

\* An attempt begins in time, and a gap only if there is room for an attempt
\* after it; neither lasts longer than it may.
PaceInv ==
  /\ pc = "attempt" => /\ began <= Budget + Late
                       /\ now <= began + MaxAttempt
  /\ pc = "gap" => /\ policy # "fixed"
                   /\ began + Spacing <= Budget
                   /\ now <= began + Spacing + Late

\* The inductive invariant.
RetryInv == TypeOK /\ PaceInv /\ BeginsInBudget /\ EndsInTime

\* Each loop starts with its first attempt, at time 0.
LEMMA InitRetry == Init => RetryInv
<1> SUFFICES ASSUME Init PROVE RetryInv
  OBVIOUS
<1> USE RetryAssumption DEF Init
<1>1. TypeOK
  <2>1. /\ now \in Nat /\ began \in 0 .. now /\ tried \in 1 .. Attempts
    OBVIOUS
  <2>2. stop \in BOOLEAN
    OBVIOUS
  <2> QED  BY <2>1, <2>2 DEF TypeOK
<1>2. PaceInv /\ BeginsInBudget /\ EndsInTime
  BY DEF PaceInv, BeginsInBudget, EndsInTime
<1> QED  BY <1>1, <1>2 DEF RetryInv

\* Every step keeps it: the test after an attempt leaves room for the gap, and
\* the boot loop tests again after the gap.
LEMMA RetryStep == RetryInv /\ [Next]_vars => RetryInv'
<1> SUFFICES ASSUME RetryInv, [Next]_vars PROVE RetryInv'
  OBVIOUS
<1> USE RetryAssumption DEF RetryInv, TypeOK, PaceInv, BeginsInBudget, EndsInTime
<1>1. CASE Succeed
  BY <1>1 DEF Succeed
<1>2. CASE GiveUp
  BY <1>2 DEF GiveUp
<1>3. CASE Retry
  <2>1. CASE policy = "budget"
    BY <1>3, <2>1 DEF Retry, Spent
  <2>2. CASE policy = "fixed"
    BY <1>3, <2>2 DEF Retry, Spent
  <2>3. CASE policy = "boot"
    BY <1>3, <2>3 DEF Retry, Spent
  <2> QED  BY <2>1, <2>2, <2>3
<1>4. CASE EndGap
  BY <1>4 DEF EndGap, GoesOn
<1>5. CASE StopInGap
  BY <1>5 DEF StopInGap
<1>6. CASE Stop
  BY <1>6 DEF Stop
<1>7. CASE Tick
  BY <1>7 DEF Tick
<1>8. CASE UNCHANGED vars
  BY <1>8 DEF vars
<1> QED
  BY <1>1, <1>2, <1>3, <1>4, <1>5, <1>6, <1>7, <1>8 DEF Next

\* The invariant, for every value of the constants.
THEOREM RetryInvariant == Spec => []RetryInv
BY InitRetry, RetryStep, PTL DEF Spec

\* retry_within_budget(), retry_fixed() and the boot loop keep their types; the
\* C5A makes no more attempts than it was given.
THEOREM RetryTypes == Spec => []TypeOK
<1>1. RetryInv => TypeOK
  BY DEF RetryInv
<1> QED  BY RetryInvariant, <1>1, PTL

\* No attempt of retry_within_budget(), retry_fixed() or the boot loop begins
\* after the budget, but for a gap that lasted too long.
THEOREM AttemptsInBudget == Spec => []BeginsInBudget
<1>1. RetryInv => BeginsInBudget
  BY DEF RetryInv
<1> QED  BY RetryInvariant, <1>1, PTL

\* A loop is over one attempt after its budget: the bound on a reading, and on
\* how long sync_clock.py keeps the sensors from starting.
THEOREM LoopsEnd == Spec => []EndsInTime
<1>1. RetryInv => EndsInTime
  BY DEF RetryInv
<1> QED  BY RetryInvariant, <1>1, PTL

=============================================================================
