----------------------------- MODULE RetryLoops -----------------------------
(***************************************************************************)
(* The three loops of this code that retry within a budget of time: the    *)
(* read policies of pi_common/samplingLoop.py, retry_within_budget()       *)
(* ("budget", the DHT22's) and retry_fixed() ("fixed", the C5A's), and     *)
(* main() of sync_clock.py ("boot"), whose attempt is a search for a       *)
(* backend, a probe and the step of the system clock.                      *)
(*                                                                         *)
(* Nothing interrupts an attempt; the budget is looked at between them,    *)
(* and a reading that ends late is what TickScheduler skips ticks for.     *)
(***************************************************************************)
EXTENDS Integers

CONSTANTS
  Budget,       \* budget_seconds; TOTAL_BUDGET_SECONDS
  Spacing,      \* spacing_seconds; RETRY_DELAY_SECONDS
  Attempts,     \* attempts, of retry_fixed()
  MaxAttempt,   \* the longest attempt
  Late          \* a gap may last this much longer than it was asked to

ASSUME RetryAssumption ==
  /\ Budget \in Nat \ {0} /\ Spacing \in Nat \ {0}
  /\ Attempts \in Nat \ {0} /\ MaxAttempt \in Nat /\ Late \in Nat

VARIABLES
  policy,     \* which of the loops this is
  now,        \* time since the loop began
  pc,         \* where it is
  began,      \* when the attempt or the gap in progress began
  tried,      \* attempts so far, of retry_fixed()
  stop,       \* stop_event
  result      \* how the loop ended

vars == <<policy, now, pc, began, tried, stop, result>>

-----------------------------------------------------------------------------
\* A reading; a usable sample of a backend, whether or not the step of the
\* clock then succeeds.
Succeed ==
  /\ pc = "attempt"
  /\ pc' = "done" /\ result' = "ok"
  /\ UNCHANGED <<policy, now, began, tried, stop>>

\* Mutated form: the gap before the next attempt is not counted.
SpentIgnoresGap ==
  CASE policy = "fixed" -> now >= Budget \/ tried = Attempts
    [] OTHER            -> now > Budget

\* Mutated form: retry_fixed() looks at its budget only.
SpentIgnoresAttempts ==
  CASE policy = "budget" -> now + Spacing > Budget
    [] policy = "boot"   -> now + Spacing >= Budget
    [] policy = "fixed"  -> now >= Budget

\* No time, or no attempt, is left for another one.
Spent ==
  CASE policy = "budget" -> now + Spacing > Budget
    [] policy = "boot"   -> now + Spacing >= Budget
    [] policy = "fixed"  -> now >= Budget \/ tried = Attempts

GiveUp ==
  /\ pc = "attempt"
  /\ Spent
  /\ pc' = "done" /\ result' = "failed"
  /\ UNCHANGED <<policy, now, began, tried, stop>>

\* retry_fixed() leaves no gap between its attempts.
Retry ==
  /\ pc = "attempt"
  /\ ~Spent
  /\ pc' = IF policy = "fixed" THEN "attempt" ELSE "gap"
  /\ began' = now
  /\ tried' = IF policy = "fixed" THEN tried + 1 ELSE tried
  /\ UNCHANGED <<policy, now, stop, result>>

\* stop_event.wait(); sync_clock.py has no such event and sleeps.
Interrupts == stop /\ policy = "budget"

\* Mutated form: after a gap the boot loop does not look at the time again.
GoesOnAlways == TRUE

\* `while time.monotonic() < deadline` of the boot loop.
GoesOn == policy = "boot" => now < Budget

EndGap ==
  /\ pc = "gap" /\ ~Interrupts
  /\ now >= began + Spacing
  /\ IF GoesOn THEN pc' = "attempt" /\ began' = now /\ UNCHANGED result
     ELSE pc' = "done" /\ result' = "failed" /\ UNCHANGED began
  /\ UNCHANGED <<policy, now, tried, stop>>

StopInGap ==
  /\ pc = "gap" /\ Interrupts
  /\ pc' = "done" /\ result' = "failed"
  /\ UNCHANGED <<policy, now, began, tried, stop>>

\* SIGTERM, in an attempt or in a gap.
Stop ==
  /\ ~stop /\ pc # "done"
  /\ stop' = TRUE
  /\ UNCHANGED <<policy, now, pc, began, tried, result>>

Tick ==
  /\ \/ pc = "attempt" /\ now < began + MaxAttempt
     \/ pc = "gap" /\ ~Interrupts /\ now < began + Spacing + Late
  /\ now' = now + 1
  /\ UNCHANGED <<policy, pc, began, tried, stop, result>>

Init ==
  /\ policy \in {"budget", "fixed", "boot"}
  /\ now = 0 /\ began = 0
  /\ pc = "attempt" /\ tried = 1
  /\ stop = FALSE
  /\ result = "none"

Next == Succeed \/ GiveUp \/ Retry \/ EndGap \/ StopInGap \/ Stop \/ Tick

Spec == Init /\ [][Next]_vars

-----------------------------------------------------------------------------
(* Properties.                                                             *)

\* The type invariant.
TypeOK ==
  /\ policy \in {"budget", "fixed", "boot"}
  /\ now \in Nat /\ began \in 0 .. now
  /\ pc \in {"attempt", "gap", "done"}
  /\ tried \in 1 .. Attempts
  /\ stop \in BOOLEAN
  /\ result \in {"none", "ok", "failed"}

\* No attempt begins after the budget, but for a gap that lasted too long;
\* the boot loop and the C5A do not begin one at its end either.
BeginsInBudget ==
  pc = "attempt" /\ began > 0 =>
    IF policy = "budget" THEN began <= Budget + Late ELSE began < Budget

\* However the attempts and gaps fall, the loop is over one attempt after the
\* budget: a reading, and the boot of the Pi, wait no longer than that.
EndsInTime == now <= Budget + Late + MaxAttempt

=============================================================================
