------------------------------ MODULE RunCaches ------------------------------
(***************************************************************************)
(* The three caches over the directory of recorded workflow runs: the      *)
(* parsed runs (workflow_history), the edges between columns (assets) and  *)
(* the index of tables (lineage_index).  Each keeps the fingerprint of the *)
(* directory, how many files and the latest mtime, beside what it built,   *)
(* under a lock of its own that it holds while it builds; the second and   *)
(* the third build from the first.                                         *)
(*                                                                         *)
(* What is built is represented by the runs it was built from.  Time is    *)
(* counted in ticks of the file system, so that two writes may carry the   *)
(* same mtime.                                                             *)
(***************************************************************************)
EXTENDS Naturals, FiniteSets, FiniteSetsExt

CONSTANTS
  Runs,      \* identifiers of runs
  Readers,   \* threads that look something up
  Asked,     \* the caches they ask for, of "payloads", "columns" and "index"
  TTL,       \* ticks a cache lives at most
  MaxTicks   \* bound on the clock

TTLAssumption == TTL \in Nat \ {0}

VARIABLES
  now,
  dir,       \* run to [whole, mtime] of its file; a file just emptied is not whole
  writers,   \* run to "new", "emptied", "written", "done", "unlinked" or "gone"
  payloads, columns, index,  \* the caches, Nothing or [at, fp, runs]
  owner,     \* cache to the reader that holds its lock, or Nobody
  readers,   \* reader to [pc, want, at, fp, runsAt, runsFp, runs]
  blurred    \* history: a cache was filled in the tick of the newest file,
             \* or a deletion brought back a fingerprint in use
vars == <<now, dir, writers, payloads, columns, index, owner, readers, blurred>>

Nothing == [none |-> TRUE]
Nobody == "nobody"
Idle == [pc |-> "idle", want |-> "", at |-> 0, runsAt |-> 0, fp |-> <<0, 0>>, runsFp |-> <<0, 0>>, runs |-> {}]

fingerprint == <<Cardinality(DOMAIN dir), Max({0} \cup {dir[r].mtime : r \in DOMAIN dir})>>
WholeRuns == {r \in DOMAIN dir : dir[r].whole}

Cache(want) == CASE want = "payloads" -> payloads [] want = "columns" -> columns [] want = "index" -> index
Fresh(entry) == entry # Nothing /\ now - entry.at < TTL /\ entry.fp = fingerprint

Caches == <<payloads, columns, index>>
Store == <<dir, writers>>

-----------------------------------------------------------------------------
(* Runs are recorded and deleted.  Both forget the parsed runs, for which  *)
(* they wait for its lock; the other two caches learn of it by the         *)
(* fingerprint only.                                                       *)

Empty(r) ==
  /\ writers[r] = "new"
  /\ writers' = [writers EXCEPT ![r] = "emptied"]
  /\ dir' = [q \in DOMAIN dir \cup {r} |-> IF q = r THEN [whole |-> FALSE, mtime |-> now] ELSE dir[q]]
  /\ UNCHANGED <<now, blurred, owner, readers, Caches>>

WriteText(r) ==
  /\ writers[r] = "emptied"
  /\ writers' = [writers EXCEPT ![r] = "written"]
  /\ dir' = [dir EXCEPT ![r] = [whole |-> TRUE, mtime |-> now]]
  /\ UNCHANGED <<now, blurred, owner, readers, Caches>>

Remembered == {readers[q].fp : q \in {p \in Readers : readers[p].want = "columns"}} \cup (IF columns = Nothing THEN {} ELSE {columns.fp})
Unlink(r) ==
  /\ writers[r] = "done"
  /\ writers' = [writers EXCEPT ![r] = "unlinked"]
  /\ dir' = [q \in DOMAIN dir \ {r} |-> dir[q]]
  /\ blurred' = (blurred \/ fingerprint' \in Remembered)
  /\ UNCHANGED <<now, owner, readers, Caches>>

\* Mutant: the recording of a run does not drop the cache.
Invalidated_Kept == payloads
Invalidated == Nothing
Invalidate(r) ==
  /\ writers[r] \in {"written", "unlinked"} /\ owner["payloads"] = Nobody
  /\ writers' = [writers EXCEPT ![r] = IF @ = "written" THEN "done" ELSE "gone"]
  /\ payloads' = Invalidated
  /\ UNCHANGED <<now, blurred, dir, owner, readers, columns, index>>

-----------------------------------------------------------------------------
(* Lookups.                                                                *)

\* A fresh entry is used as it is; otherwise the lock is kept for the building.
Lookup(r, want) ==
  /\ readers[r].pc = "idle" /\ owner[want] = Nobody
  /\ ~Fresh(Cache(want))
  /\ owner' = [owner EXCEPT ![want] = r]
  /\ readers' = [readers EXCEPT ![r] =
       CASE want = "payloads" -> [Idle EXCEPT !.pc = "list", !.want = want, !.runsAt = now, !.runsFp = fingerprint]
         [] want = "columns"  -> [Idle EXCEPT !.pc = "ask", !.want = want, !.at = now, !.fp = fingerprint]
         [] want = "index"    -> [Idle EXCEPT !.pc = "ask", !.want = want]]
  /\ UNCHANGED <<now, blurred, Store, Caches>>

\* The edges and the index ask for the parsed runs first.
AskRuns(r) ==
  /\ readers[r].pc = "ask" /\ owner["payloads"] = Nobody
  /\ IF Fresh(payloads)
     THEN readers' = [readers EXCEPT ![r].pc = "commit", ![r].runs = payloads.runs] /\ UNCHANGED owner
     ELSE /\ readers' = [readers EXCEPT ![r].pc = "list", ![r].runsAt = now, ![r].runsFp = fingerprint]
          /\ owner' = [owner EXCEPT !["payloads"] = r]
  /\ UNCHANGED <<now, blurred, Store, Caches>>

ToCommit(reader, runs) == [reader EXCEPT !.pc = "commit", !.runs = runs, !.runsAt = 0, !.runsFp = <<0, 0>>]

List(r) ==
  /\ readers[r].pc = "list"
  /\ readers' = [readers EXCEPT ![r].pc = "read", ![r].runs = DOMAIN dir]
  /\ UNCHANGED <<now, blurred, owner, Store, Caches>>

\* A run that is not whole, or gone, is left out.
Read(r) ==
  /\ readers[r].pc = "read"
  /\ LET runs == readers[r].runs \cap WholeRuns IN
       /\ payloads' = [at |-> readers[r].runsAt, fp |-> readers[r].runsFp, runs |-> runs]
       /\ blurred' = (blurred \/ readers[r].runsAt <= readers[r].runsFp[2])
       /\ readers' = [readers EXCEPT ![r] = IF @.want = "payloads" THEN Idle ELSE ToCommit(@, runs)]
  /\ owner' = [owner EXCEPT !["payloads"] = Nobody]
  /\ UNCHANGED <<now, Store, columns, index>>

\* One gone before its mtime is asked for fails the listing: the edges and the
\* index are then built from no run at all.
ReadFails(r) ==
  /\ readers[r].pc = "read" /\ ~(readers[r].runs \subseteq DOMAIN dir)
  /\ readers' = [readers EXCEPT ![r] = IF @.want = "payloads" THEN Idle ELSE ToCommit(@, {})]
  /\ owner' = [owner EXCEPT !["payloads"] = Nobody]
  /\ UNCHANGED <<now, blurred, Store, Caches>>

\* The edges keep the fingerprint of before, the index takes one now.
Commit(r) ==
  /\ readers[r].pc = "commit"
  /\ \/ /\ readers[r].want = "columns"
        /\ columns' = [at |-> readers[r].at, fp |-> readers[r].fp, runs |-> readers[r].runs]
        /\ blurred' = (blurred \/ readers[r].at <= readers[r].fp[2])
        /\ UNCHANGED index
     \/ /\ readers[r].want = "index"
        /\ index' = [at |-> now, fp |-> fingerprint, runs |-> readers[r].runs]
        /\ blurred' = (blurred \/ now <= fingerprint[2])
        /\ UNCHANGED columns
  /\ owner' = [owner EXCEPT ![readers[r].want] = Nobody]
  /\ readers' = [readers EXCEPT ![r] = Idle]
  /\ UNCHANGED <<now, Store, payloads>>

-----------------------------------------------------------------------------
Tick == now < MaxTicks /\ now' = now + 1 /\ UNCHANGED <<blurred, owner, readers, Store, Caches>>

Init ==
  /\ now = 1 /\ blurred = FALSE
  /\ dir = [r \in {} |-> Nothing]
  /\ writers = [r \in Runs |-> "new"]
  /\ payloads = Nothing /\ columns = Nothing /\ index = Nothing
  /\ owner = [c \in {"payloads", "columns", "index"} |-> Nobody]
  /\ readers = [r \in Readers |-> Idle]

Next ==
  \/ \E r \in Runs : Empty(r) \/ WriteText(r) \/ Unlink(r) \/ Invalidate(r)
  \/ \E r \in Readers : \/ \E want \in Asked : Lookup(r, want)
                         \/ AskRuns(r) \/ List(r) \/ Read(r) \/ ReadFails(r) \/ Commit(r)
  \/ Tick

Spec == Init /\ [][Next]_vars

-----------------------------------------------------------------------------
Quiet == \A r \in Runs : writers[r] \in {"new", "done", "gone"}

(* When every change of the directory has returned, a fresh entry of the   *)
(* parsed runs, or of the edges, was built from the runs that are there.   *)
(* Excepted are edges where a cache was filled in the tick of the newest   *)
(* file, as a later write of that tick does not change the fingerprint,    *)
(* and where a deletion brings back the fingerprint of before a run that   *)
(* was read all the same.                                                  *)
CachesAreTrue ==
  Quiet => /\ Fresh(payloads) => payloads.runs = WholeRuns
           /\ ~blurred /\ Fresh(columns) => columns.runs = WholeRuns

(* The same of the index of tables (the comment at lineage_index.py:114);  *)
(* its fingerprint may be newer than the runs it was built from.           *)
IndexIsTrue == Quiet /\ ~blurred /\ Fresh(index) => index.runs = WholeRuns
=============================================================================
