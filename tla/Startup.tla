------------------------------ MODULE Startup ------------------------------
(***************************************************************************)
(* How the clients of a Pi start: a sensor runs SamplingLoop.__init__(),   *)
(* that is init_db() (CacheMigration), then readConfig() and with it       *)
(* get_device_uuid() (DeviceIdentity), and only then saves readings; the   *)
(* device agent only asks for the UUID.  They share the database and the   *)
(* UUID file of the Pi and start and end independently of each other.      *)
(***************************************************************************)
EXTENDS CacheMigration

CONSTANTS
  Agent,       \* device_agent.py
  MaxMinted,   \* bound on the UUIDs minted
  MaxExits,    \* bound on the exits
  NoFile       \* there is no device_uuid.txt

ASSUME StartupAssumption ==
  /\ Agent \notin Process
  /\ MaxMinted \in Nat /\ MaxExits \in Nat /\ NoFile \notin Nat

VARIABLES
  uuidFile,   \* device_uuid.txt
  asking,     \* where each client is in get_device_uuid()
  uuid,       \* the UUID each client runs with
  minted,     \* UUIDs minted so far
  exits,      \* exits so far
  disturbed   \* history, see DeviceIdentity

identityVars == <<uuidFile, asking, uuid, minted, exits, disturbed>>
allVars == <<vars, identityVars>>

Client == Process \cup {Agent}

Identity == INSTANCE DeviceIdentity WITH file <- uuidFile, pc <- asking

-----------------------------------------------------------------------------
InitDB(p) ==
  /\ Inspect(p) \/ AddColumn(p) \/ AddColumnFails(p) \/ Commit(p)
  /\ UNCHANGED identityVars

\* get_device_uuid() of the agent; of a sensor, once its init_db() is over.
AskUUID(c) ==
  /\ c \in Process => pc[c] = "running"
  /\ Identity!Check(c) \/ Identity!Create(c) \/ Identity!Write(c) \/ Identity!Read(c)
  /\ UNCHANGED vars

\* Readings are saved once the constructor has returned.
Sample(p) == asking[p] = "running" /\ Save(p) /\ UNCHANGED identityVars

\* A client ends anywhere; readConfig() ends a sensor whose file it refuses.
End(c) ==
  /\ Identity!Exit(c)
  /\ IF c \in Process THEN Exit(c) ELSE UNCHANGED vars

StartupInit == Init /\ Identity!Init

StartupNext ==
  \/ \E p \in Process : InitDB(p) \/ Sample(p)
  \/ \E c \in Client : AskUUID(c) \/ End(c)

StartupSpec == StartupInit /\ [][StartupNext]_allVars

-----------------------------------------------------------------------------
(* Properties, with those of CacheMigration.                               *)

\* The type invariant of both parts, with what a constructor relies on: a sensor
\* that has left init_db() finds every column (see CacheMigration).
StartupTypeOK == TypeOK /\ Identity!TypeOK
StartupReady == StartupTypeOK /\ ReadyInv

\* See DeviceIdentity.
SettledForever == Identity!SettledForever
UUIDShared == Identity!UUIDShared

=============================================================================
