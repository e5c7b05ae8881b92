--------------------------- MODULE PublishedClock ---------------------------
(***************************************************************************)
(* Measuring the offset to the backend and handing it to the sensors:      *)
(* probe(), publish() and load_published() of pi_common/clock.py, as       *)
(* operators that DeviceAgent puts into steps.                             *)
(*                                                                         *)
(* A measurement is a record of its round trip and of its age, the time    *)
(* since the exchange with the backend.  clock.json is a record of the age *)
(* of the measurement in it, of the time since syncedAtMonotonic, which is *)
(* what a reader computes, and of whether bootID is that of this boot; the *)
(* offset itself carries no control.                                       *)
(***************************************************************************)
EXTENDS Integers

CONSTANTS
  Samples,     \* DEFAULT_SAMPLES
  Rtts,        \* round trips a sample may have
  FastRtt,     \* a round trip below this ends the probe
  MaxRtt,      \* MAX_ACCEPTABLE_RTT
  MaxAge,      \* MAX_PUBLISHED_AGE
  None,        \* no measurement, no file, no backend
  Torn         \* a file of which only a part is written

ASSUME ClockAssumption ==
  /\ Samples \in Nat \ {0} /\ Rtts \subseteq Nat
  /\ FastRtt \in Nat /\ MaxRtt \in Nat /\ MaxAge \in Nat
  /\ None # Torn
  /\ \A mark \in {None, Torn} :      \* neither is a measurement or a file
       /\ mark \notin Int
       /\ mark \notin [rtt : Nat, age : Nat]
       /\ mark \notin [age : Nat, synced : Nat, thisBoot : BOOLEAN]

\* The sample with the lowest round trip is kept.
Better(best, rtt) ==
  IF best = None \/ rtt < best.rtt THEN [rtt |-> rtt, age |-> 0] ELSE best

\* probe() stops after the last sample, or early after a fast one.
ProbeEnds(best, tried) == tried = Samples \/ (best # None /\ best.rtt < FastRtt)

\* What probe() returns: None if every sample failed or the best is too slow.
Usable(best) == best # None /\ best.rtt <= MaxRtt

\* What publish() writes.
Payload(best) == [age |-> best.age, synced |-> 0, thisBoot |-> TRUE]

\* Mutated form: the check of bootID is missing.
TrustedAnyBoot(file) == file \notin {None, Torn} /\ file.synced <= MaxAge

\* load_published() returns an offset: the file parses, is of this boot and
\* not too old.
Trusted(file) ==
  /\ file \notin {None, Torn}
  /\ file.thisBoot
  /\ file.synced <= MaxAge

=============================================================================
