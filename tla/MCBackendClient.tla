-------------------------- MODULE MCBackendClient --------------------------
(* Small instances of BackendClient: two DHT sensors sharing one cache.    *)
EXTENDS BackendClient

CONSTANTS s1, s2, b1, b2

DhtOnly == [s \in Sensor |-> "DHT"]
InListOrder == [b \in Backend |-> IF b = b1 THEN 1 ELSE 2]
NoBatchRoute == {}

=============================================================================
