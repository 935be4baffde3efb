----------------------------- MODULE CompareRun -----------------------------
(***************************************************************************)
(* One compare run: run_task of app/services/runner.py drives the engine   *)
(* into a writer of app/compare/result_writer.py and keeps the record of   *)
(* the run in run_index.py, while the process may stop at any point and an *)
(* editor may delete the run's files (run_result.py) at any point.         *)
(*                                                                         *)
(* With the parquet formats every bucket has a file that grows by flushes  *)
(* of a buffer, and meta.json is written last; "count_only" keeps no rows  *)
(* of the same bucket.  With "json" the buckets stay in memory and go into *)
(* one file at the end, `meta' here, which a workbook follows.  Neither    *)
(* file is written in one step: a reader that meets it half written skips  *)
(* it.                                                                     *)
(***************************************************************************)
EXTENDS CompareEngine

CONSTANTS
  Batch,       \* the writer's batch_size
  CheckEvery   \* _DISK_WATERMARK_CHECK_INTERVAL

BoundsAssumption == Batch \in Nat \ {0} /\ CheckEvery \in Nat \ {0}

VARIABLES
  format,       \* "json", "parquet", "count_only"
  pc,           \* where run_task is; "stopped": the process is gone
  index,        \* the run's status in run_index
  verdict,      \* the status finalize is going to write
  buffer,       \* of each bucket: rows written and not flushed, or all with json
  count,        \* of each bucket: rows written
  closing,      \* buckets finalize has yet to flush, in order
  dir,          \* the run's directory exists
  opened,       \* the buckets with a ParquetWriter
  lost,         \* those whose file was deleted under it
  disk,         \* the rows in the run's files
  meta,         \* meta.json or the run's json file
  deleted       \* whether the run was deleted

writerVars == <<format, index, verdict, buffer, count, closing, dir, opened, lost,
                disk, meta, deleted>>
vars == <<engineVars, pc, writerVars>>

BucketNames == <<"only_source", "only_target", "diff", "same">>
Zero   == [b \in Buckets |-> 0]
Empty  == [b \in Buckets |-> <<>>]
NoMeta == [state |-> "none"]
Torn   == [state |-> "torn"]
Terminal == {"success", "failed", "aborted_guard"}

Init ==
  /\ EngineInit
  /\ format \in {"json", "parquet", "count_only"}
  /\ pc = "reserve" /\ index = "none" /\ verdict = "none"
  /\ buffer = Empty /\ count = Zero /\ closing = BucketNames
  /\ dir = FALSE /\ opened = {} /\ lost = {} /\ disk = Empty
  /\ meta = NoMeta /\ deleted = FALSE

\* What run_task does of an exception, or at its end, waits for the finalize
\* of the run_index.
End(v) == verdict' = v /\ pc' = "index"

-----------------------------------------------------------------------------
Reserve ==
  /\ pc = "reserve"
  /\ index' = "reserved" /\ pc' = "mark"
  /\ UNCHANGED <<engineVars, format, verdict, buffer, count, closing, dir, opened,
                 lost, disk, meta, deleted>>

MarkRunning ==
  /\ pc = "mark"
  /\ index' = "running" /\ pc' = "read"
  /\ UNCHANGED <<engineVars, format, verdict, buffer, count, closing, dir, opened,
                 lost, disk, meta, deleted>>

\* The readers are built; without streaming both sides are read here.
Read ==
  /\ pc = "read"
  /\ Begin /\ pc' = "compare"
  /\ UNCHANGED writerVars

\* A reader fails, a status callback says that the job was cancelled, or the
\* schemas differ: at the start, or, streaming, whenever rows are fetched; and
\* before a json result is written there is one more callback.
ReadFails ==
  /\ \/ pc = "read"
     \/ pc = "compare" /\ streaming /\ engine = "yielded"
     \/ pc = "meta" /\ format = "json"
  /\ End("failed")
  /\ UNCHANGED <<engineVars, format, index, buffer, count, closing, dir, opened,
                 lost, disk, meta, deleted>>

\* MemoryGuard.check, after each side was read as a whole.
MemoryAborts ==
  /\ pc = "read" /\ ~streaming
  /\ End("aborted_guard")
  /\ UNCHANGED <<engineVars, format, index, buffer, count, closing, dir, opened,
                 lost, disk, meta, deleted>>

\* compare_rows: the row is appended to the list of its bucket.
Collect(e) == buffer' = [buffer EXCEPT ![e.bucket] = Append(@, e)]

\* An event goes to the writer; with json it stays in memory.
Compare ==
  /\ pc = "compare" /\ Event
  /\ IF format = "json" THEN pc' = "compare" /\ Collect(Last')
                        ELSE pc' = "write" /\ UNCHANGED buffer
  /\ UNCHANGED <<format, index, verdict, count, closing, dir, opened, lost, disk, meta, deleted>>

Resume ==
  /\ pc = "compare" /\ (Advance \/ SkipTarget)
  /\ UNCHANGED <<pc, writerVars>>

Refuse ==
  /\ pc = "compare" /\ engine = "failed"
  /\ End("failed")
  /\ UNCHANGED <<engineVars, format, index, buffer, count, closing, dir, opened,
                 lost, disk, meta, deleted>>

\* The writer's finalize makes the directory, if no flush did.
Compared ==
  /\ pc = "compare" /\ Finish
  /\ pc' = IF format = "json" THEN "meta" ELSE "finalize"
  /\ dir' = (format # "json")
  /\ UNCHANGED <<format, index, verdict, buffer, count, closing, opened, lost, disk,
                 meta, deleted>>

-----------------------------------------------------------------------------
(* ParquetResultWriter.                                                    *)

\* What bucket b's file holds after a row group more; a file that was deleted
\* takes it with it.
Stored(b, rows) == IF b \in lost THEN disk[b] ELSE disk[b] \o rows

\* _flush_bucket, with the buffer it is given.
Flush(b, rows) ==
  /\ opened' = opened \cup {b}
  /\ dir' = (dir \/ b \notin opened)
  /\ disk' = [disk EXCEPT ![b] = Stored(b, rows)]
  /\ buffer' = [buffer EXCEPT ![b] = <<>>]

\* The rows do not fit the schema the bucket's first flush has fixed, or the
\* file cannot be written.
FlushFails(b) ==
  /\ End("failed")
  /\ dir' = (dir \/ b \notin opened)
  /\ UNCHANGED <<buffer, opened, disk>>

Keep(b, rows) ==
  /\ buffer' = [buffer EXCEPT ![b] = rows]
  /\ UNCHANGED <<dir, opened, disk>>

Full(rows) == Len(rows) >= Batch

\* _check_mid_run_disk every CheckEvery rows: the disk is nearly full, or the
\* run is over its quota.
DiskAborts ==
  /\ (Len(emitted) % CheckEvery) = 0
  /\ verdict' = "aborted_guard" /\ pc' = "cleanup"

GoOn == pc' = "compare" /\ UNCHANGED verdict

\* write_bucket_row, then the check.  A buffer is flushed when it is full, or
\* sooner when its rows are wide.
Write ==
  /\ pc = "write"
  /\ LET b == Last.bucket
         rows == Append(buffer[b], Last)
     IN  /\ count' = [count EXCEPT ![b] = @ + 1]
         /\ \/ /\ b = "same" /\ format = "count_only"
               /\ UNCHANGED <<buffer, dir, opened, disk>>
               /\ DiskAborts \/ GoOn
            \/ /\ ~(b = "same" /\ format = "count_only")
               /\ \/ ~Full(rows) /\ Keep(b, rows) /\ (DiskAborts \/ GoOn)
                  \/ Flush(b, rows) /\ (DiskAborts \/ GoOn)
                  \/ FlushFails(b)
  /\ UNCHANGED <<engineVars, format, index, closing, lost, meta, deleted>>

\* _cleanup_partial_parquet.
CleanUp ==
  /\ pc = "cleanup"
  /\ pc' = "index"
  /\ dir' = FALSE /\ disk' = Empty /\ lost' = opened
  /\ UNCHANGED <<engineVars, format, index, verdict, buffer, count, closing, opened,
                 meta, deleted>>

\* finalize: the rest of each buffer, bucket by bucket; the files are closed.
FlushRest ==
  /\ pc = "finalize" /\ closing # <<>>
  /\ LET b == Head(closing)
     IN  \/ buffer[b] # <<>> /\ Flush(b, buffer[b]) /\ UNCHANGED <<verdict, pc>>
         \/ buffer[b] # <<>> /\ FlushFails(b)
         \/ buffer[b] = <<>> /\ UNCHANGED <<buffer, dir, opened, disk, verdict, pc>>
  /\ closing' = Tail(closing)
  /\ UNCHANGED <<engineVars, format, index, count, lost, meta, deleted>>

\* The sizes of the files are taken: a file that was deleted fails the run.
Measure ==
  /\ pc = "finalize" /\ closing = <<>>
  /\ IF lost = {} THEN pc' = "meta" /\ UNCHANGED verdict ELSE End("failed")
  /\ UNCHANGED <<engineVars, format, index, buffer, count, closing, dir, opened,
                 lost, disk, meta, deleted>>

-----------------------------------------------------------------------------
(* The file that makes the run a result.                                   *)

RowsIn(b) == IF format = "json" THEN Len(buffer[b]) ELSE count[b]

\* The tallies of the streaming loop and _bucket_row_counts; len() otherwise.
SourceRows == IF streaming THEN RowsIn("same") + RowsIn("diff") + RowsIn("only_source") ELSE Len(source)
TargetRows == IF streaming THEN RowsIn("same") + RowsIn("diff") + RowsIn("only_target") ELSE Len(target)

\* The payload's summary was made of zeros before the writer was.
Envelope ==
  [state |-> "whole",
   rows |-> [b \in Buckets |-> RowsIn(b)],
   summary |-> Zero, source |-> SourceRows, target |-> TargetRows]

OpenMeta ==
  /\ pc = "meta"
  /\ \/ /\ dir \/ format = "json"
        /\ meta' = Torn /\ pc' = "publish" /\ UNCHANGED verdict
     \/ ~dir /\ format # "json" /\ End("failed") /\ UNCHANGED meta
  /\ UNCHANGED <<engineVars, format, index, buffer, count, closing, dir, opened,
                 lost, disk, deleted>>

\* The rest of the text goes to the file that was opened, deleted or not, or
\* does not fit on the disk.
Publish ==
  /\ pc = "publish"
  /\ \/ /\ IF meta = Torn
           THEN /\ meta' = Envelope
                /\ disk' = IF format = "json" THEN buffer ELSE disk
           ELSE UNCHANGED <<meta, disk>>
        /\ IF format = "json" THEN pc' = "excel" /\ UNCHANGED verdict ELSE End("success")
     \/ End("failed") /\ UNCHANGED <<meta, disk>>
  /\ UNCHANGED <<engineVars, format, index, buffer, count, closing, dir, opened,
                 lost, deleted>>

WriteExcel ==
  /\ pc = "excel"
  /\ End("success") \/ End("failed")
  /\ UNCHANGED <<engineVars, format, index, buffer, count, closing, dir, opened,
                 lost, disk, meta, deleted>>

\* Mutant: what failed in the writer is swallowed.
Settled_Success == "success"
Settled == verdict

\* finalize leaves a terminal status alone.
FinalizeIndex ==
  /\ pc = "index"
  /\ index' = IF index \in Terminal THEN index ELSE Settled
  /\ pc' = "ended"
  /\ UNCHANGED <<engineVars, format, verdict, buffer, count, closing, dir, opened,
                 lost, disk, meta, deleted>>

-----------------------------------------------------------------------------
(* The rest of the world.                                                  *)

\* The process ends; no start looks at runs that were reserved or running.
Stop ==
  /\ pc \notin {"ended", "stopped"}
  /\ pc' = "stopped"
  /\ UNCHANGED <<engineVars, writerVars>>

\* delete_run asks nobody whether the run is still running, and leaves the
\* run_index as it is.
Delete ==
  /\ dir \/ meta # NoMeta
  /\ dir' = FALSE /\ disk' = Empty /\ lost' = opened
  /\ meta' = NoMeta /\ deleted' = TRUE
  /\ UNCHANGED <<engineVars, pc, format, index, verdict, buffer, count, closing,
                 opened>>

Next ==
  \/ Reserve \/ MarkRunning \/ Read \/ ReadFails \/ MemoryAborts
  \/ Compare \/ Resume \/ Refuse \/ Compared
  \/ Write \/ CleanUp \/ FlushRest \/ Measure \/ OpenMeta \/ Publish \/ WriteExcel
  \/ FinalizeIndex \/ Stop \/ Delete

Spec == Init /\ [][Next]_vars

-----------------------------------------------------------------------------
TypeOK ==
  /\ EngineTypeOK
  /\ format \in {"json", "parquet", "count_only"}
  /\ pc \in {"reserve", "mark", "read", "compare", "write", "cleanup", "finalize",
             "meta", "publish", "excel", "index", "ended", "stopped"}
  /\ index \in {"none", "reserved", "running"} \cup Terminal
  /\ verdict \in {"none"} \cup Terminal
  /\ \A b \in Buckets : /\ format # "json" => Len(buffer[b]) < Batch
                        /\ Len(buffer[b]) <= Len(emitted) /\ Len(disk[b]) <= Len(emitted)
  /\ count \in [Buckets -> 0..Len(emitted)]
  /\ dir \in BOOLEAN /\ deleted \in BOOLEAN
  /\ lost \subseteq opened /\ opened \subseteq Buckets
  /\ meta.state \in {"none", "torn", "whole"}

\* A run is listed in the history, and can be read, once its file parses.
Listed == meta.state = "whole"
Mode(b) == IF b = "same" /\ format = "count_only" THEN "count_only" ELSE "full"

\* A result that is listed is the right one and all of it: its counts and its
\* rows are those of the reference, whatever the mode and the format, the sizes
\* of the flushes, failures, a stop between any two steps, or a deletion while
\* the writer works.
ListedIsComplete == Listed =>
  /\ meta.source = Len(source) /\ meta.target = Len(target)
  /\ \A b \in Buckets :
       LET expected == {e \in Reference : e.bucket = b}
       IN  /\ meta.rows[b] = Cardinality(expected)
           /\ Mode(b) = "full" => /\ RowsOf(disk[b]) = expected
                                  /\ Len(disk[b]) = Cardinality(expected)

\* A run the index calls a success has its result on disk, unless somebody
\* deleted it; one that a guard aborted leaves nothing there.
IndexMatchesDisk ==
  /\ index = "success" => Listed \/ deleted
  /\ index = "aborted_guard" => ~dir /\ disk = Empty /\ meta = NoMeta

-----------------------------------------------------------------------------
(* What the documentation says and the code does not do.                   *)

\* runner.py:374: the summary of the payload is a placeholder, "filled in at
\* finalize, in the envelope of meta.json".
SummaryIsFilled == Listed => meta.summary = meta.rows

\* docs/SMOKE_TEST.md:103: a run that was cancelled leaves nothing half made.
FailureLeavesNothing ==
  index = "failed" => ~dir /\ disk = Empty /\ meta = NoMeta
=============================================================================
