----------------------------- MODULE MCRetention -----------------------------
(* Small instances of Retention: two DHT sensors and a C5A.                *)
EXTENDS Retention, TLC

CONSTANTS dht22, dht22b, C5A

Streams == (dht22 :> "DHT") @@ (dht22b :> "DHT") @@ (C5A :> "C5A")

Named == [Type |-> [json |-> FALSE, value |-> Typo], Location |-> [json |-> FALSE, value |-> Typo]]
FileWith(json, value) == ("Retention" :> [json |-> json, value |-> value]) @@ Named

\* The number 0 of a JSON file with a second key, a typo, and "-1" under a
\* second key where the first is empty.
SomeFiles == <<("cleanupDays" :> [json |-> FALSE, value |-> 2]) @@ FileWith(TRUE, 0),
              FileWith(FALSE, Typo),
              ("cleanupDays" :> [json |-> FALSE, value |-> -1]) @@ FileWith(FALSE, Empty)>>

SomeErrors == {-1}

=============================================================================
