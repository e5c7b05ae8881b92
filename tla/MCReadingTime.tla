--------------------------- MODULE MCReadingTime ---------------------------
(* Small instances of ReadingTime.  The sensors are interchangeable.       *)
EXTENDS ReadingTime, TLC

SensorSymmetry == Permutations(Sensor)

=============================================================================
