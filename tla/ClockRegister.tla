--------------------------- MODULE ClockRegister ----------------------------
(***************************************************************************)
(* What the sensors of a Pi are promised about the published clock: an     *)
(* atomic register that holds the age of a measurement.  A reader that     *)
(* trusts it holds a measurement of this boot of a bounded age; while the  *)
(* service runs, what is in the register is not lost before it is old, and *)
(* a reader is turned away only when there is no recent measurement.       *)
(* This is the published clock that ReadingTime takes for granted.         *)
(***************************************************************************)
EXTENDS Integers

CONSTANTS
  Reader,    \* the sensor processes
  MaxLag,    \* how old a measurement may be when it is written
  Fresh,     \* up to this age a measurement is never refused
  Gap,       \* the longest time between two reads of one reader
  None       \* no measurement

\* A measurement older than this is never handed out.
Limit == Fresh + MaxLag

VARIABLES
  serving,   \* the service that keeps the register is running
  register,  \* the age of the measurement in the register
  trusted    \* the age of the measurement each reader relies on

Init == serving = TRUE /\ register = None /\ trusted = [r \in Reader |-> None]

\* The whole measurement at once.
Write == serving /\ register' \in 0 .. MaxLag /\ UNCHANGED <<serving, trusted>>

\* The register goes with the service.
Stop == serving /\ ~serving' /\ register' = None /\ UNCHANGED trusted

Start == ~serving /\ serving' /\ UNCHANGED <<register, trusted>>

Read(r) ==
  /\ \/ register # None /\ trusted' = [trusted EXCEPT ![r] = register]
     \/ (register = None \/ register > Fresh) /\ trusted' = [trusted EXCEPT ![r] = None]
  /\ UNCHANGED <<serving, register>>

\* Time passes; no reader relies on what it has longer than Gap.
Pass ==
  /\ \A r \in Reader : trusted[r] # None => trusted[r] < Limit + Gap
  /\ trusted' = [r \in Reader |-> IF trusted[r] = None THEN None ELSE trusted[r] + 1]
  /\ register' = IF register \in {None, Limit} THEN None ELSE register + 1
  /\ UNCHANGED serving

\* A new boot knows nothing of the last one.
Reboot == serving' /\ register' = None /\ trusted' = [r \in Reader |-> None]

Next == Write \/ Stop \/ Start \/ Pass \/ Reboot \/ \E r \in Reader : Read(r)

Spec == Init /\ [][Next]_<<serving, register, trusted>>

=============================================================================
