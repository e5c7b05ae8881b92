-------------------------- MODULE MCTickScheduler --------------------------
(* Small instances of TickScheduler: a second is a time unit.              *)
EXTENDS TickScheduler

TwoSchedules ==
  {[period |-> 3, from |-> 6], [period |-> 2, from |-> 12]}

=============================================================================
