--------------------------- MODULE MCDeviceAgent ----------------------------
(* Small instances of DeviceAgent.                                         *)
EXTENDS DeviceAgent

ListedHosts == <<"pc", "spare">>

\* The heartbeats of this instance come in time.
ASSUME InstanceFits == IntervalFits

=============================================================================
