---------------------------- MODULE StartupProofs ----------------------------
(***************************************************************************)
(* Proofs about Startup, for every number of sensors, rows and exits: the  *)
(* columns are there and the readings safe whoever migrates, and the UUID  *)
(* is one unless a client disturbs the minting.                            *)
(***************************************************************************)
EXTENDS Startup, TLAPS

ColumnNames == {Columns[i] : i \in 1 .. Len(Columns)}

-----------------------------------------------------------------------------
(* The cache: init_db(), by any number of sensors at a time.               *)

\* What a call remembers is about columns that exist.
CallInv ==
  /\ columns \subseteq ColumnNames
  /\ pc \in [Process -> {"inspect", "alter", "running"}]
  /\ existing \in [Process -> SUBSET ColumnNames]
  /\ added \in [Process -> SUBSET ColumnNames]
  /\ \A p \in Process : existing[p] \cup added[p] \subseteq columns

\* No column is missing where a process has left init_db().
AllThere ==
  \A p \in Process : pc[p] = "running" => \A i \in 1 .. Len(Columns) : Columns[i] \in columns

\* The rows; one saved by this version stays as it was saved.
RowInv ==
  /\ rows \in Seq(Row)
  /\ LegacyRows <= Len(rows) /\ Len(rows) <= LegacyRows + MaxNew
  /\ \A i \in 1 .. Len(rows) : i > LegacyRows => rows[i] = NewRow

CacheInv == CallInv /\ AllThere /\ RowInv /\ cuts \in 0 .. MaxCuts

\* A table of any earlier version is in order.
LEMMA InitCache == Init => CacheInv
<1> SUFFICES ASSUME Init PROVE CacheInv
  OBVIOUS
<1> USE MigrationAssumption
<1>1. PICK n \in 0 .. Len(Columns) :
        /\ columns = {Columns[i] : i \in 1 .. n}
        /\ rows \in [1 .. LegacyRows -> {r \in Row : LeftBehind(r, n)}]
  BY DEF Init
<1>2. Len(Columns) \in Nat
  BY DEF Columns
<1>3. columns \subseteq ColumnNames
  BY <1>1, <1>2 DEF ColumnNames
<1>4. CallInv /\ AllThere
  BY <1>3 DEF Init, CallInv, AllThere
<1>5. rows \in Seq(Row) /\ Len(rows) = LegacyRows
  BY <1>1
<1>6. RowInv
  BY <1>5 DEF RowInv
<1> QED  BY <1>4, <1>6 DEF Init, CacheInv

\* A call that finds nothing missing leaves a table with every column.
LEMMA NothingMissing ==
  ASSUME CallInv, NEW p \in Process, Missing(p) = {}
  PROVE  \A i \in 1 .. Len(Columns) : Columns[i] \in columns
BY DEF CallInv, Missing

\* Neither UPDATE of _migrate() touches a row of this version.
LEMMA NewRowUntouched ==
  ASSUME NEW p \in Process
  PROVE  [NewRow EXCEPT !.stream = @ \/ "stream" \in added[p],
                        !.uploaded = @ \/ Retired(p, NewRow)] = NewRow
<1>1. (NewRow.stream \/ "stream" \in added[p]) = TRUE
  BY DEF NewRow
<1>2. Retired(p, NewRow) = FALSE
  BY DEF Retired, NewRow
<1>3. (NewRow.uploaded \/ Retired(p, NewRow)) = FALSE
  BY <1>2 DEF NewRow
<1>4. [NewRow EXCEPT !.stream = TRUE, !.uploaded = FALSE] = NewRow
  <2>1. ASSUME NEW r \in Row, r.stream = TRUE, r.uploaded = FALSE
        PROVE  [r EXCEPT !.stream = TRUE, !.uploaded = FALSE] = r
    BY <2>1 DEF Row
  <2>2. NewRow \in Row /\ NewRow.stream = TRUE /\ NewRow.uploaded = FALSE
    BY DEF NewRow, Row
  <2> QED  BY <2>1, <2>2
<1>5. [NewRow EXCEPT !.stream = NewRow.stream \/ "stream" \in added[p],
                     !.uploaded = NewRow.uploaded \/ Retired(p, NewRow)] = NewRow
  BY <1>1, <1>3, <1>4, Zenon
<1> QED  BY <1>5

\* A commit leaves the rows of this version as they were saved.
LEMMA CommitRows ==
  ASSUME CacheInv, NEW p \in Process, Commit(p)
  PROVE  RowInv'
<1> DEFINE Updated(r) == [r EXCEPT !.stream = @ \/ "stream" \in added[p],
                                   !.uploaded = @ \/ Retired(p, r)]
<1>1. rows \in Seq(Row) /\ Len(rows) \in Nat /\ DOMAIN rows = 1 .. Len(rows)
  BY DEF CacheInv, RowInv
<1>2. rows' = [i \in 1 .. Len(rows) |-> Updated(rows[i])]
  BY <1>1 DEF Commit
<1>3. ASSUME NEW r \in Row PROVE Updated(r) \in Row
  <2>1. (r.stream \/ "stream" \in added[p]) \in BOOLEAN
    OBVIOUS
  <2>2. (r.uploaded \/ Retired(p, r)) \in BOOLEAN
    OBVIOUS
  <2> QED  BY <2>1, <2>2 DEF Row
<1>4. \A i \in 1 .. Len(rows) : Updated(rows[i]) \in Row
  <2> SUFFICES ASSUME NEW i \in 1 .. Len(rows) PROVE Updated(rows[i]) \in Row
    OBVIOUS
  <2>1. rows[i] \in Row
    BY <1>1
  <2> HIDE DEF Updated
  <2> QED  BY <1>3, <2>1
<1>5. rows' \in Seq(Row) /\ Len(rows') = Len(rows)
  <2> HIDE DEF Updated
  <2> QED  BY <1>1, <1>2, <1>4
<1>6. \A i \in 1 .. Len(rows) : i > LegacyRows => rows'[i] = NewRow
  <2> SUFFICES ASSUME NEW i \in 1 .. Len(rows), i > LegacyRows PROVE rows'[i] = NewRow
    OBVIOUS
  <2>1. rows[i] = NewRow
    BY DEF CacheInv, RowInv
  <2>2. rows'[i] = Updated(NewRow)
    BY <1>2, <2>1
  <2> QED  BY <2>2, NewRowUntouched
<1> QED  BY <1>5, <1>6 DEF CacheInv, RowInv

\* Every step of init_db() keeps the invariant of the cache.
LEMMA CacheStep ==
  ASSUME CacheInv, NEW p \in Process,
         \/ Inspect(p) \/ AddColumn(p) \/ AddColumnFails(p)
         \/ Commit(p) \/ Save(p) \/ Exit(p)
  PROVE  CacheInv'
<1> USE MigrationAssumption DEF CacheInv, Goto
<1>1. CASE Inspect(p)
  BY <1>1 DEF Inspect, CallInv, AllThere, RowInv
<1>2. CASE AddColumn(p)
  <2>1. PICK i \in 1 .. Len(Columns) :
          /\ columns' = columns \cup {Columns[i]}
          /\ added' = [added EXCEPT ![p] = @ \cup {Columns[i]}]
    BY <1>2 DEF AddColumn
  <2>2. Columns[i] \in ColumnNames
    BY DEF ColumnNames
  <2>3. CallInv'
    BY <1>2, <2>1, <2>2 DEF AddColumn, CallInv
  <2>4. AllThere' /\ RowInv'
    BY <1>2, <2>1 DEF AddColumn, AllThere, RowInv
  <2> QED  BY <1>2, <2>3, <2>4 DEF AddColumn
<1>3. CASE AddColumnFails(p)
  BY <1>3 DEF AddColumnFails, CallInv, AllThere, RowInv
<1>4. CASE Commit(p)
  <2>1. RowInv'
    BY <1>4, CommitRows
  <2>2. CallInv'
    BY <1>4 DEF Commit, CallInv
  <2>3. AllThere'
    BY <1>4, NothingMissing DEF Commit, CallInv, AllThere
  <2> QED  BY <1>4, <2>1, <2>2, <2>3 DEF Commit
<1>5. CASE Save(p)
  <2>1. NewRow \in Row
    BY DEF NewRow, Row
  <2>2. RowInv'
    BY <1>5, <2>1 DEF Save, RowInv
  <2>3. CallInv' /\ AllThere'
    BY <1>5 DEF Save, CallInv, AllThere
  <2> QED  BY <1>5, <2>2, <2>3 DEF Save
<1>6. CASE Exit(p)
  <2>1. cuts' \in 0 .. MaxCuts
    BY <1>6 DEF Exit
  <2> QED  BY <1>6, <2>1 DEF Exit, CallInv, AllThere, RowInv
<1> QED  BY <1>1, <1>2, <1>3, <1>4, <1>5, <1>6

\* The cache does not change with the UUID file.
LEMMA CacheStutter == CacheInv /\ UNCHANGED vars => CacheInv'
BY DEF CacheInv, CallInv, AllThere, RowInv, vars

-----------------------------------------------------------------------------
(* The rows of earlier versions: an upgrade that nothing interrupts.       *)

\* sourceKey is the last of the columns: the call that adds it misses nothing
\* more, and so cannot fail before its commit.
LastAdded == \A p \in Process : pc[p] = "alter" /\ "sourceKey" \in added[p] => Missing(p) = {}

\* No row without a source identity waits for an upload.
AllRetired == \A i \in DOMAIN rows : ~rows[i].key => rows[i].uploaded

\* The call that has added the column is still to retire those rows.
BeingRetired == \E p \in Process : pc[p] = "alter" /\ "sourceKey" \in added[p]

RetireInv ==
  /\ LastAdded
  /\ cuts = 0 /\ "sourceKey" \in columns => AllRetired \/ BeingRetired

\* The migrations of the earlier versions have retired their rows.
LEMMA InitRetire == Init => RetireInv
<1> SUFFICES ASSUME Init PROVE RetireInv
  OBVIOUS
<1>1. LastAdded
  BY DEF Init, LastAdded
<1>2. ASSUME "sourceKey" \in columns PROVE AllRetired
  <2>1. PICK n \in 0 .. Len(Columns) :
          /\ columns = {Columns[i] : i \in 1 .. n}
          /\ rows \in [1 .. LegacyRows -> {r \in Row : LeftBehind(r, n)}]
    BY DEF Init
  <2>2. n = 4
    BY <1>2, <2>1 DEF Columns
  <2> QED  BY <2>1, <2>2 DEF AllRetired, LeftBehind
<1> QED  BY <1>1, <1>2 DEF RetireInv

\* The columns are added in order.
LEMMA LastAddedStep ==
  ASSUME CallInv, LastAdded, NEW p \in Process,
         \/ Inspect(p) \/ AddColumn(p) \/ AddColumnFails(p)
         \/ Commit(p) \/ Save(p) \/ Exit(p)
  PROVE  LastAdded'
<1> USE DEF CallInv, LastAdded, Missing, Goto
<1>1. CASE AddColumn(p)
  <2>1. PICK i \in 1 .. Len(Columns) :
          /\ IsNext(p, i)
          /\ added' = [added EXCEPT ![p] = @ \cup {Columns[i]}]
    BY <1>1 DEF AddColumn
  <2>2. "sourceKey" \notin added[p]
    BY <1>1, <2>1 DEF AddColumn, IsNext
  <2>3. i = 4 => \A j \in Missing(p) : j = 4
    BY <2>1 DEF IsNext, Columns
  <2>4. "sourceKey" \in added'[p] => i = 4
    BY <2>1, <2>2 DEF Columns
  <2>5. "sourceKey" \in added'[p] => Missing(p)' = {}
    BY <1>1, <2>1, <2>3, <2>4 DEF AddColumn
  <2>6. \A q \in Process \ {p} :
          added'[q] = added[q] /\ existing'[q] = existing[q] /\ pc'[q] = pc[q]
    BY <1>1, <2>1 DEF AddColumn
  <2> QED  BY <2>5, <2>6
<1>2. CASE Inspect(p)
  BY <1>2 DEF Inspect
<1>3. CASE AddColumnFails(p) \/ Commit(p) \/ Save(p) \/ Exit(p)
  BY <1>3 DEF AddColumnFails, Commit, Save, Exit
<1> QED  BY <1>1, <1>2, <1>3

\* A call that has added sourceKey goes on to its commit, which retires every
\* row without a source identity; only an exit can come between.
LEMMA RetireStep ==
  ASSUME CacheInv, RetireInv, NEW p \in Process,
         \/ Inspect(p) \/ AddColumn(p) \/ AddColumnFails(p)
         \/ Commit(p) \/ Save(p) \/ Exit(p)
  PROVE  RetireInv'
<1>1. LastAdded'
  BY LastAddedStep DEF CacheInv, RetireInv
<1> SUFFICES ASSUME cuts' = 0, "sourceKey" \in columns' PROVE (AllRetired \/ BeingRetired)'
  BY <1>1 DEF RetireInv
<1>2. cuts = 0
  <2>1. cuts \in Nat
    BY MigrationAssumption DEF CacheInv
  <2>2. cuts' = cuts \/ cuts' = cuts + 1
    BY DEF Inspect, AddColumn, AddColumnFails, Commit, Save, Exit
  <2> QED  BY <2>1, <2>2
<1> USE <1>2 DEF CacheInv, CallInv, BeingRetired, Goto
<1>3. CASE AddColumn(p)
  <2>1. PICK i \in 1 .. Len(Columns) :
          /\ columns' = columns \cup {Columns[i]}
          /\ added' = [added EXCEPT ![p] = @ \cup {Columns[i]}]
          /\ pc[p] = "alter" /\ UNCHANGED <<pc, rows>>
    BY <1>3 DEF AddColumn
  <2>2. CASE Columns[i] = "sourceKey"
    BY <2>1, <2>2
  <2>3. CASE Columns[i] # "sourceKey"
    BY <2>1, <2>3 DEF RetireInv, AllRetired
  <2> QED  BY <2>2, <2>3
<1>4. CASE Inspect(p)
  BY <1>4 DEF Inspect, RetireInv, AllRetired
<1>5. CASE AddColumnFails(p)
  <2>1. Missing(p) # {}
    BY <1>5 DEF AddColumnFails, IsNext
  <2> QED  BY <1>5, <2>1 DEF AddColumnFails, RetireInv, LastAdded, AllRetired
<1>6. CASE Commit(p)
  <2> DEFINE Updated(r) == [r EXCEPT !.stream = @ \/ "stream" \in added[p],
                                     !.uploaded = @ \/ Retired(p, r)]
  <2>a. \A r \in Row : Updated(r).key = r.key /\ Updated(r).uploaded = (r.uploaded \/ Retired(p, r))
    BY DEF Row
  <2>b. \A i \in DOMAIN rows : rows[i] \in Row
    BY DEF RowInv
  <2>c. rows' = [i \in DOMAIN rows |-> Updated(rows[i])]
    BY <1>6 DEF Commit
  <2>1. /\ DOMAIN rows' = DOMAIN rows
        /\ \A i \in DOMAIN rows :
             /\ rows'[i].key = rows[i].key
             /\ rows'[i].uploaded = (rows[i].uploaded \/ Retired(p, rows[i]))
    <3> HIDE DEF Updated
    <3> QED  BY <2>a, <2>b, <2>c
  <2>2. CASE "sourceKey" \in added[p]
    <3>1. \A i \in DOMAIN rows : ~rows[i].key => Retired(p, rows[i])
      BY <2>2 DEF Retired
    <3> QED  BY <2>1, <3>1 DEF AllRetired
  <2>3. CASE "sourceKey" \notin added[p]
    <3>1. AllRetired => AllRetired'
      BY <2>1 DEF AllRetired
    <3>2. BeingRetired => BeingRetired'
      BY <1>6, <2>3 DEF Commit
    <3> QED  BY <1>6, <3>1, <3>2 DEF Commit, RetireInv
  <2> QED  BY <2>2, <2>3
<1>7. CASE Save(p)
  <2>1. AllRetired => AllRetired'
    BY <1>7 DEF Save, AllRetired, NewRow, RowInv
  <2> QED  BY <1>7, <2>1 DEF Save, RetireInv
<1>8. CASE Exit(p)
  <2>1. pc[p] # "alter"
    BY <1>8 DEF Exit
  <2> QED  BY <1>8, <2>1 DEF Exit, RetireInv, AllRetired
<1> QED  BY <1>3, <1>4, <1>5, <1>6, <1>7, <1>8

\* The rows do not change with the UUID file.
LEMMA RetireStutter == RetireInv /\ UNCHANGED vars => RetireInv'
BY DEF RetireInv, LastAdded, Missing, AllRetired, BeingRetired, vars

-----------------------------------------------------------------------------
(* The identity: get_device_uuid(), by any number of clients at a time.    *)

\* While nothing has disturbed the minting: one client at a time mints, over a
\* file that is absent or empty; everybody else reads a UUID, and the same.
MintInv ==
  /\ \A c, d \in Client : Identity!Minting(c) /\ Identity!Minting(d) => c = d
  /\ \A c \in Client : asking[c] = "create" => uuidFile = NoFile
  /\ \A c \in Client : asking[c] = "write" => uuidFile = 0
  /\ uuidFile = 0 => \E c \in Client : asking[c] = "write"
  /\ \A c \in Client : asking[c] \in {"read", "running"} => uuidFile \notin {0, NoFile}
  /\ \A c \in Client : asking[c] = "running" => uuid[c] = uuidFile

\* Nobody ever deletes the file.
FileInv == \A c \in Client : asking[c] \in {"write", "read"} => uuidFile # NoFile

IdentityInv == Identity!TypeOK /\ FileInv /\ (~disturbed => MintInv)

IdentityStep(c) ==
  \/ Identity!Check(c) \/ Identity!Create(c) \/ Identity!Write(c)
  \/ Identity!Read(c) \/ Identity!Exit(c)

\* At first nobody is minting.
LEMMA InitIdentity == Identity!Init => IdentityInv
<1> SUFFICES ASSUME Identity!Init PROVE IdentityInv
  OBVIOUS
<1>1. uuidFile \in 0 .. MaxMinted \cup {NoFile} /\ minted \in 0 .. MaxMinted /\ exits \in 0 .. MaxExits
  BY StartupAssumption DEF Identity!Init
<1>2. Identity!TypeOK
  BY <1>1, StartupAssumption DEF Identity!Init, Identity!TypeOK, Identity!Empty
<1>3. MintInv /\ FileInv
  BY StartupAssumption DEF Identity!Init, MintInv, FileInv, Identity!Minting
<1> QED  BY <1>2, <1>3 DEF IdentityInv

\* The types of get_device_uuid(), and that a file that was written is not removed.
LEMMA IdentityTypes ==
  ASSUME Identity!TypeOK, FileInv, NEW c \in Client, IdentityStep(c)
  PROVE  Identity!TypeOK' /\ FileInv'
<1> USE StartupAssumption DEF Identity!TypeOK, Identity!Goto, FileInv
<1>1. CASE Identity!Check(c)
  <2>1. (disturbed \/ \E d \in Client : Identity!Minting(d)) \in BOOLEAN
    OBVIOUS
  <2> QED  BY <1>1, <2>1 DEF Identity!Check, Identity!Exists
<1>2. CASE Identity!Create(c)
  BY <1>2 DEF Identity!Create, Identity!Empty
<1>3. CASE Identity!Write(c)
  BY <1>3 DEF Identity!Write
<1>4. CASE Identity!Read(c)
  BY <1>4 DEF Identity!Read
<1>5. CASE Identity!Exit(c)
  <2>1. (disturbed \/ asking[c] = "write") \in BOOLEAN
    OBVIOUS
  <2> QED  BY <1>5, <2>1 DEF Identity!Exit, Identity!Empty
<1> QED  BY <1>1, <1>2, <1>3, <1>4, <1>5 DEF IdentityStep

\* A client that checks, and later mints, finds nobody else minting; one that
\* ends has not left an empty file behind.
LEMMA MintStep ==
  ASSUME Identity!TypeOK, MintInv, ~disturbed, NEW c \in Client, IdentityStep(c), ~disturbed'
  PROVE  MintInv'
<1> USE StartupAssumption DEF Identity!TypeOK, Identity!Goto, Identity!Minting
<1>1. CASE Identity!Check(c)
  <2>1. \A d \in Client : ~Identity!Minting(d)
    BY <1>1, Zenon DEF Identity!Check
  <2>2. uuidFile # 0
    BY <2>1 DEF MintInv
  <2>3. /\ asking' = [asking EXCEPT ![c] = IF uuidFile # NoFile THEN "read" ELSE "create"]
        /\ asking[c] = "start"
        /\ UNCHANGED <<uuidFile, uuid>>
    BY <1>1 DEF Identity!Check, Identity!Exists
  <2>4. CASE uuidFile = NoFile
    BY <2>1, <2>2, <2>3, <2>4 DEF MintInv
  <2>5. CASE uuidFile # NoFile
    BY <2>1, <2>2, <2>3, <2>5 DEF MintInv
  <2> QED  BY <2>4, <2>5
<1>2. CASE Identity!Create(c)
  BY <1>2 DEF Identity!Create, Identity!Empty, MintInv
<1>3. CASE Identity!Write(c)
  BY <1>3 DEF Identity!Write, MintInv
<1>4. CASE Identity!Read(c)
  BY <1>4 DEF Identity!Read, MintInv
<1>5. CASE Identity!Exit(c)
  <2>1. asking[c] # "write"
    BY <1>5, Zenon DEF Identity!Exit
  <2> QED  BY <1>5, <2>1 DEF Identity!Exit, MintInv
<1> QED  BY <1>1, <1>2, <1>3, <1>4, <1>5 DEF IdentityStep

\* Once it has been disturbed, it stays so.
LEMMA DisturbedStays ==
  ASSUME NEW c \in Client, IdentityStep(c), ~disturbed'
  PROVE  ~disturbed
<1>1. CASE Identity!Check(c)
  BY <1>1, Zenon DEF Identity!Check
<1>2. CASE Identity!Create(c) \/ Identity!Write(c) \/ Identity!Read(c)
  BY <1>2 DEF Identity!Create, Identity!Write, Identity!Read
<1>3. CASE Identity!Exit(c)
  BY <1>3, Zenon DEF Identity!Exit
<1> QED  BY <1>1, <1>2, <1>3 DEF IdentityStep

\* Every step of get_device_uuid() keeps the invariant of the identity.
LEMMA IdentityKept ==
  ASSUME IdentityInv, NEW c \in Client, IdentityStep(c)
  PROVE  IdentityInv'
BY IdentityTypes, MintStep, DisturbedStays DEF IdentityInv

\* The identity does not change with the cache.
LEMMA IdentityStutter == IdentityInv /\ UNCHANGED identityVars => IdentityInv'
BY DEF IdentityInv, identityVars, Identity!TypeOK, FileInv, MintInv, Identity!Minting

\* Where there is a file and nobody is minting, a step mints nothing.
LEMMA SettledStep ==
  ASSUME Identity!TypeOK, NEW c \in Client, IdentityStep(c),
         uuidFile # NoFile, Identity!Settled
  PROVE  Identity!Settled' /\ uuidFile' = uuidFile
<1> USE DEF Identity!TypeOK, Identity!Settled, Identity!Minting, Identity!Goto
<1>1. CASE Identity!Check(c)
  BY <1>1 DEF Identity!Check, Identity!Exists
<1>2. CASE Identity!Create(c) \/ Identity!Write(c)
  BY <1>2 DEF Identity!Create, Identity!Write
<1>3. CASE Identity!Read(c)
  BY <1>3 DEF Identity!Read
<1>4. CASE Identity!Exit(c)
  BY <1>4 DEF Identity!Exit
<1> QED  BY <1>1, <1>2, <1>3, <1>4 DEF IdentityStep

-----------------------------------------------------------------------------
(* Both together.                                                          *)

StartupInv == CacheInv /\ IdentityInv

\* Both parts start in their invariants.
LEMMA InitStartup == StartupInit => StartupInv
BY InitCache, InitIdentity DEF StartupInit, StartupInv

\* Every step of Startup is one of init_db(), of get_device_uuid(), or both.
LEMMA StepKinds ==
  ASSUME StartupNext
  PROVE  /\ \/ UNCHANGED vars
            \/ \E p \in Process :
                 \/ Inspect(p) \/ AddColumn(p) \/ AddColumnFails(p)
                 \/ Commit(p) \/ Save(p) \/ Exit(p)
         /\ \/ UNCHANGED identityVars
            \/ \E c \in Client : IdentityStep(c)
<1>1. CASE \E p \in Process : InitDB(p) \/ Sample(p)
  BY <1>1 DEF InitDB, Sample
<1>2. CASE \E c \in Client : AskUUID(c)
  BY <1>2 DEF AskUUID, IdentityStep
<1>3. CASE \E c \in Client : End(c)
  BY <1>3 DEF End, IdentityStep
<1> QED  BY <1>1, <1>2, <1>3 DEF StartupNext

\* So every step of a start keeps both.
LEMMA StartupStep == StartupInv /\ [StartupNext]_allVars => StartupInv'
<1> SUFFICES ASSUME StartupInv, [StartupNext]_allVars PROVE StartupInv'
  OBVIOUS
<1>1. CASE StartupNext
  <2>1. CacheInv'
    BY <1>1, StepKinds, CacheStep, CacheStutter DEF StartupInv
  <2>2. IdentityInv'
    BY <1>1, StepKinds, IdentityKept, IdentityStutter DEF StartupInv
  <2> QED  BY <2>1, <2>2 DEF StartupInv
<1>2. CASE UNCHANGED allVars
  BY <1>2, CacheStutter, IdentityStutter DEF allVars, StartupInv
<1> QED  BY <1>1, <1>2

\* The invariant, for every number of sensors, rows, exits and UUIDs.
THEOREM StartupInvariant == StartupSpec => []StartupInv
BY InitStartup, StartupStep, PTL DEF StartupSpec

\* init_db() and get_device_uuid() keep their types, and however many sensors migrate
\* the table at a time, and wherever they end, one that has left init_db() finds all
\* its columns.
THEOREM ColumnsReady == StartupSpec => []StartupReady
<1>1. StartupInv => StartupReady
  <2> SUFFICES ASSUME StartupInv PROVE StartupReady
    OBVIOUS
  <2>1. TypeOK
    BY DEF StartupInv, CacheInv, CallInv, RowInv, TypeOK, ColumnNames
  <2>2. Identity!TypeOK
    BY DEF StartupInv, IdentityInv
  <2>3. ReadyInv
    BY DEF StartupInv, CacheInv, AllThere, ReadyInv
  <2> QED  BY <2>1, <2>2, <2>3 DEF StartupTypeOK, StartupReady
<1> QED  BY StartupInvariant, <1>1, PTL

\* No _migrate() retires a reading of this version.
THEOREM NewReadingsKept == StartupSpec => []NewRowsKept
<1>1. StartupInv => NewRowsKept
  <2> SUFFICES ASSUME StartupInv, NEW i \in DOMAIN rows, i > LegacyRows
               PROVE  ~rows[i].uploaded
    BY DEF NewRowsKept
  <2>1. rows[i] = NewRow
    BY DEF StartupInv, CacheInv, RowInv
  <2> QED  BY <2>1 DEF NewRow
<1> QED  BY StartupInvariant, <1>1, PTL

\* An upgrade that no exit interrupts leaves no row that nobody will ever upload,
\* whatever version the table of _migrate() was of and however many sensors run it.
THEOREM LegacyRowsRetired == StartupSpec => []RetiredUnlessCut
<1>1. StartupInit => RetireInv
  BY InitRetire DEF StartupInit
<1>2. StartupInv /\ RetireInv /\ [StartupNext]_allVars => RetireInv'
  BY StepKinds, RetireStep, RetireStutter DEF StartupInv, allVars
<1>3. RetireInv => RetiredUnlessCut
  BY DEF RetireInv, AllRetired, BeingRetired, RetiredUnlessCut, LegacyRetired, Migrated
<1> QED  BY StartupInvariant, <1>1, <1>2, <1>3, PTL DEF StartupSpec

\* The UUID of get_device_uuid() is one, and there is one, unless a client looked
\* while another was minting or ended before it wrote.
THEOREM OneSharedUUID == StartupSpec => []UUIDShared
<1>1. StartupInv => UUIDShared
  BY DEF StartupInv, IdentityInv, MintInv, UUIDShared, Identity!UUIDShared,
         Identity!OneUUID, Identity!HasUUID, Identity!Empty
<1> QED  BY StartupInvariant, <1>1, PTL

\* Once get_device_uuid() has left a file and nobody is minting, the UUID of the
\* Pi never changes again.
THEOREM UUIDSettled == StartupSpec => SettledForever
<1> DEFINE Stays == uuidFile # NoFile /\ Identity!Settled =>
                      Identity!Settled' /\ uuidFile' = uuidFile
<1>1. StartupInv /\ [StartupNext]_allVars => [Stays]_(Identity!vars)
  <2> SUFFICES ASSUME StartupInv, [StartupNext]_allVars, ~UNCHANGED Identity!vars PROVE Stays
    OBVIOUS
  <2>1. ~UNCHANGED identityVars
    BY DEF Identity!vars, identityVars
  <2>2. PICK c \in Client : IdentityStep(c)
    BY <2>1, StepKinds DEF allVars
  <2> QED  BY <2>2, SettledStep DEF StartupInv, IdentityInv
<1> QED  BY StartupInvariant, <1>1, PTL DEF StartupSpec, SettledForever, Identity!SettledForever

-----------------------------------------------------------------------------
(* The composition.                                                        *)

\* Whatever holds of init_db() holds of it in every start of the clients:
\* the rest of a constructor touches neither the table nor its columns.
THEOREM ImplementsMigration == StartupSpec => Spec
<1>1. StartupInit => Init
  BY DEF StartupInit
<1>2. [StartupNext]_allVars => [Next]_vars
  BY DEF StartupNext, InitDB, Sample, AskUUID, End, Next, allVars
<1> QED  BY <1>1, <1>2, PTL DEF StartupSpec, Spec

\* And whatever holds of get_device_uuid() holds of it there: the clients mint as
\* they would without a database, though a sensor asks only after its init_db().
THEOREM ImplementsIdentity == StartupSpec => Identity!Spec
<1>1. StartupInit => Identity!Init
  BY DEF StartupInit
<1>2. [StartupNext]_allVars => [Identity!Next]_(Identity!vars)
  BY DEF StartupNext, InitDB, Sample, AskUUID, End, Identity!Next, Identity!vars, allVars,
         identityVars, Client
<1> QED  BY <1>1, <1>2, PTL DEF StartupSpec, Identity!Spec

=============================================================================
