--------------------------- MODULE DeviceIdentity ---------------------------
(***************************************************************************)
(* pi_common/identity.py: every client of one Pi asks for the device UUID  *)
(* as it starts, and the first one mints it.  The check, the creation of   *)
(* the file, the write and the read are steps of their own; nothing locks  *)
(* the file.                                                               *)
(***************************************************************************)
EXTENDS Naturals

CONSTANTS
  Client,      \* the processes of one Pi: the sensors and the device agent
  MaxMinted,   \* bound on the UUIDs minted in a behaviour
  MaxExits,    \* bound on the exits
  NoFile       \* the file does not exist

VARIABLES
  file,     \* what device_uuid.txt holds
  pc,       \* where each client is
  uuid,     \* the UUID each client runs with
  minted,   \* UUIDs minted so far
  exits,    \* exits so far
  disturbed \* history: a client looked while another was minting, or ended there

vars == <<file, pc, uuid, minted, exits, disturbed>>

Empty == 0   \* the empty string; the n-th UUID minted is n

Goto(c, where) == pc' = [pc EXCEPT ![c] = where]

\* The client is on its way to mint a UUID.
Minting(c) == pc[c] \in {"create", "write"}

-----------------------------------------------------------------------------
\* Mutated form: the file is never found.
NeverExists == FALSE

\* path.exists()
Exists == file # NoFile

Check(c) ==
  /\ pc[c] = "start"
  /\ Goto(c, IF Exists THEN "read" ELSE "create")
  /\ disturbed' = (disturbed \/ \E d \in Client : Minting(d))
  /\ UNCHANGED <<file, uuid, minted, exits>>

\* write_text() opens the file, which truncates it ...
Create(c) ==
  /\ pc[c] = "create"
  /\ file' = Empty
  /\ Goto(c, "write")
  /\ UNCHANGED <<uuid, minted, exits, disturbed>>

\* ... and then writes a UUID of this client's own.
Write(c) ==
  /\ pc[c] = "write"
  /\ minted < MaxMinted
  /\ minted' = minted + 1
  /\ file' = minted'
  /\ Goto(c, "read")
  /\ UNCHANGED <<uuid, exits, disturbed>>

Read(c) ==
  /\ pc[c] = "read"
  /\ uuid' = [uuid EXCEPT ![c] = file]
  /\ Goto(c, "running")
  /\ UNCHANGED <<file, minted, exits, disturbed>>

\* A client ends, or the power does; it starts again from the beginning.
Exit(c) ==
  /\ exits < MaxExits
  /\ exits' = exits + 1
  /\ uuid' = [uuid EXCEPT ![c] = Empty]
  /\ Goto(c, "start")
  /\ disturbed' = (disturbed \/ pc[c] = "write")
  /\ UNCHANGED <<file, minted>>

Init ==
  /\ file = NoFile
  /\ pc = [c \in Client |-> "start"]
  /\ uuid = [c \in Client |-> Empty]
  /\ minted = 0
  /\ exits = 0
  /\ disturbed = FALSE

Next == \E c \in Client : Check(c) \/ Create(c) \/ Write(c) \/ Read(c) \/ Exit(c)

Spec == Init /\ [][Next]_vars

-----------------------------------------------------------------------------
(* Properties.                                                             *)

\* The type invariant.
TypeOK ==
  /\ file \in 0 .. MaxMinted \cup {NoFile}
  /\ pc \in [Client -> {"start", "create", "write", "read", "running"}]
  /\ uuid \in [Client -> 0 .. MaxMinted]
  /\ minted \in 0 .. MaxMinted
  /\ exits \in 0 .. MaxExits
  /\ disturbed \in BOOLEAN

\* No client is on its way to mint a UUID.
Settled == \A c \in Client : ~Minting(c)

\* Once there is a file and nobody is minting, nobody ever mints again and the
\* file never changes, whoever restarts: every later start of every client
\* reads the same UUID.
SettledForever == [][file # NoFile /\ Settled => Settled' /\ file' = file]_vars

\* Clients that run, run with one UUID.
OneUUID ==
  \A c, d \in Client : pc[c] = "running" /\ pc[d] = "running" => uuid[c] = uuid[d]

\* A client that runs has a UUID at all.
HasUUID == \A c \in Client : pc[c] = "running" => uuid[c] # Empty

\* "ONE UUID PER PHYSICAL PI", and a UUID at all: so it is unless a client
\* looked for the file while another was minting, or ended between creating
\* the file and writing it; restarts anywhere else do no harm.
UUIDShared == ~disturbed => OneUUID /\ HasUUID

=============================================================================
