----------------------------- MODULE MCStartup -----------------------------
(* Small instances of Startup: two sensors and the device agent.           *)
EXTENDS Startup

=============================================================================
