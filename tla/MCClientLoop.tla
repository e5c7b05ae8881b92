---------------------------- MODULE MCClientLoop ----------------------------
(* Small instances of ClientLoop.                                          *)
EXTENDS ClientLoop

\* The recursive function is the power, as far as it is evaluated here.
ASSUME PowersOfTwo == \A n \in 0 .. 20 : TwoToThe[n] = 2 ^ n

=============================================================================
