-------------------------- MODULE ReadingDelivery --------------------------
(***************************************************************************)
(* What the cache and the backend client promise together, without saying  *)
(* how: every reading a sensor records stays on the Pi until some backend  *)
(* holds it, and each sensor's readings leave in the order they were       *)
(* taken.  Readings are numbered as they are recorded, taken[i] is the     *)
(* sensor of reading i.  Delivery is at least once: a reading may be       *)
(* delivered again while it is still pending.                              *)
(***************************************************************************)
EXTENDS Integers, Sequences

CONSTANT Sensor

VARIABLES
  taken,      \* the sensor of each reading, in recording order
  pending,    \* readings the Pi must still deliver
  delivered   \* readings some backend holds

vars == <<taken, pending, delivered>>

\* The pending readings of one sensor.
PendingOf(s) == {i \in pending : taken[i] = s}

Init ==
  /\ taken = <<>>
  /\ pending = {}
  /\ delivered = {}

Take(s) ==
  /\ taken' = Append(taken, s)
  /\ pending' = pending \cup {Len(taken')}
  /\ UNCHANGED delivered

Deliver ==
  /\ \E some \in SUBSET pending : delivered' = delivered \cup some
  /\ UNCHANGED <<taken, pending>>

\* A sensor's pending readings are given up oldest first, none before it is
\* delivered.
Retire(s) ==
  /\ \E some \in SUBSET (PendingOf(s) \cap delivered) :
       /\ \A i \in some, j \in PendingOf(s) : j < i => j \in some
       /\ pending' = pending \ some
  /\ UNCHANGED <<taken, delivered>>

Next ==
  \/ \E s \in Sensor : Take(s) \/ Retire(s)
  \/ Deliver

Spec == Init /\ [][Next]_vars

=============================================================================
