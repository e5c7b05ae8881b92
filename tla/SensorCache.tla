---------------------------- MODULE SensorCache ----------------------------
(***************************************************************************)
(* The offline cache of pi_common/cache.py: the table SensorLog, read and  *)
(* written by every sensor process of one Pi.                              *)
(*                                                                         *)
(* The table is a function from logID to row.  logID is AUTOINCREMENT, so  *)
(* an ID is never used twice, not even after a DELETE.  Each operator      *)
(* below is one call of cache.py, that is one SQLite statement in a        *)
(* transaction of its own; the modules that use them interleave the calls. *)
(* A row is a record with at least the fields stream, source (sourceKey)   *)
(* and uploaded; the correction of timestamps also needs bootID, error and *)
(* timeConfidence (see ReadingTime).  The measurements carry no control    *)
(* and are left out.                                                       *)
(***************************************************************************)
EXTENDS Integers, FiniteSets, Functions

\* Rows that no backend has acknowledged: uploaded = 0.
Unsent(log) == {i \in DOMAIN log : ~log[i].uploaded}

\* The rows a drain may pick: unsent, of this stream, written by this sensor.
Drainable(log, stream, source) ==
  {i \in Unsent(log) : log[i].stream = stream /\ log[i].source = source}

-----------------------------------------------------------------------------
(* Mutated forms of the operators below.                                   *)

\* A drain without the sourceKey filter, as it was before that column.
DrainableByStream(log, stream, source) ==
  {i \in Unsent(log) : log[i].stream = stream}

\* ORDER BY logID DESC instead of ASC.
GetUnsentNewestFirst(log, stream, source, limit) ==
  LET mine == Drainable(log, stream, source)
  IN  {i \in mine : Cardinality({j \in mine : j > i}) < limit}

\* The drain forgets AND sourceKey = ?.
GetUnsentOfStream(log, stream, source, limit) ==
  LET mine == DrainableByStream(log, stream, source)
  IN  {i \in mine : Cardinality({j \in mine : j < i}) < limit}

\* Marks every row up to the newest of the batch, as if IDs were contiguous.
MarkUploadedUpTo(log, ids) ==
  [i \in DOMAIN log |->
     IF \E j \in ids : i <= j THEN [log[i] EXCEPT !.uploaded = TRUE] ELSE log[i]]

\* The correction forgets AND bootID = ?.
CorrectableOfAnyBoot(log, boot) ==
  {i \in Unsent(log) : log[i].timeConfidence = "ESTIMATED"}

\* The UPDATE of the correction forgets timeConfidence.
CorrectRowsUnmarked(log, errorOf) ==
  [i \in DOMAIN log |->
     IF i \in DOMAIN errorOf THEN [log[i] EXCEPT !.error = errorOf[i]] ELSE log[i]]

-----------------------------------------------------------------------------
\* save_reading(): INSERT with the next logID.
SaveReading(log, id, row) ==
  [i \in DOMAIN log \cup {id} |-> IF i = id THEN row ELSE log[i]]

\* get_unsent(): the oldest `limit` drainable rows, by logID.
GetUnsent(log, stream, source, limit) ==
  LET mine == Drainable(log, stream, source)
  IN  {i \in mine : Cardinality({j \in mine : j < i}) < limit}

\* mark_uploaded_many(): IDs that are gone by now are ignored.
MarkUploadedMany(log, ids) ==
  [i \in DOMAIN log |->
     IF i \in ids THEN [log[i] EXCEPT !.uploaded = TRUE] ELSE log[i]]

\* delete_many(): the delete-on-upload half of the retention setting.
DeleteMany(log, ids) == Restrict(log, DOMAIN log \ ids)

\* cleanup(): DELETE uploaded rows of the stream, whoever wrote them, whose
\* datetime is before the cutoff; `old` is the set of rows before the cutoff.
Cleanup(log, stream, old) ==
  Restrict(log, DOMAIN log \ {i \in old : log[i].uploaded /\ log[i].stream = stream})

\* correct_boot_timestamps(), the SELECT: unsent ESTIMATED rows of one boot.
Correctable(log, boot) ==
  {i \in Unsent(log) : log[i].bootID = boot /\ log[i].timeConfidence = "ESTIMATED"}

\* correct_boot_timestamps(), the UPDATE of the rows selected before: by logID
\* alone.  errorOf[i] is how far the time computed for row i is from the truth.
CorrectRows(log, errorOf) ==
  [i \in DOMAIN log |->
     IF i \in DOMAIN errorOf
     THEN [log[i] EXCEPT !.error = errorOf[i], !.timeConfidence = "CORRECTED"]
     ELSE log[i]]

=============================================================================
