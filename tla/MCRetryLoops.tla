---------------------------- MODULE MCRetryLoops ----------------------------
(* Small instances of RetryLoops.                                          *)
EXTENDS RetryLoops

=============================================================================
