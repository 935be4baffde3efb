----------------------------- MODULE JobManager -----------------------------
(***************************************************************************)
(* The background job manager: app/services/jobs.py and the Excel-export   *)
(* jobs that app/services/excel_export.py runs through it.                 *)
(*                                                                         *)
(* API and scheduler threads (Clients) submit, cancel and poll jobs; the   *)
(* threads of one ThreadPoolExecutor (Workers) run them.  They share the   *)
(* dict `_jobs', the dict `_futures' and one lock, which every function    *)
(* takes for a single read or update and drops again, so that one action   *)
(* below is one critical section (or one call on a Future).  After each    *)
(* update the thread goes through _persist_jobs, in three steps: it lists  *)
(* the jobs under the lock, reads their contents outside the lock, and     *)
(* replaces the whole table in one transaction.                            *)
(*                                                                         *)
(* A stop of the process may come between any two steps; a restart loads   *)
(* the table.  The bounds of the model are MaxRestarts and MaxSaveErrors.  *)
(***************************************************************************)
EXTENDS Naturals, Sequences

CONSTANTS
  Jobs,           \* job ids (uuid4: one is never issued twice)
  Workers,        \* the threads of _executor (max_workers=2)
  Clients,        \* the threads that call the API of this module
  Kind,           \* [Jobs -> Kinds]
  MaxRetries,     \* [Jobs -> 0..5], the job's max_retries
  MaxRestarts,    \* bound: how often the process may stop
  MaxSaveErrors   \* bound: how often writing the table may fail

Kinds == {"compare", "workflow", "excel_export"}

ASSUME JobsAssumption ==
  /\ Jobs # {}
  /\ Kind \in [Jobs -> Kinds]
  /\ MaxRetries \in [Jobs -> 0..5]
  /\ \A j \in Jobs : Kind[j] = "excel_export" => MaxRetries[j] = 0
ASSUME ThreadsAssumption == Workers \cap Clients = {}
ASSUME BoundsAssumption == MaxRestarts \in Nat /\ MaxSaveErrors \in Nat

VARIABLES
  known,       \* the keys of _jobs
  status,      \* a job's "status"; "none" until it is first put in _jobs
  cancel,      \* its "cancel_requested"
  retries,     \* its "retry_count"
  registered,  \* the keys of _futures
  future,      \* the state of each job's Future
  queue,       \* the work queue of the executor
  wpc, wjob,   \* where each worker is, and in which job
  cpc, cjob,   \* where each client is, and with which job
  cfut,        \* whether cancel_job found the job's future in _futures
  save,        \* where each thread is in _persist_jobs
  table,       \* the SQLite table `jobs'
  jobsFile,    \* the fallback file jobs.json
  begun,       \* history: attempts of the job's work started
  late,        \* history: those started although a cancel was requested
  restarts, saveErrors

memory   == <<known, status, cancel, retries>>
pool     == <<registered, future, queue>>
workers  == <<wpc, wjob>>
clients  == <<cpc, cjob, cfut>>
disk     == <<table, jobsFile>>
history  == <<begun, late>>
counters == <<restarts, saveErrors>>
vars     == <<memory, pool, workers, clients, save, disk, history, counters>>

-----------------------------------------------------------------------------
Threads  == Workers \cup Clients
Terminal == {"success", "failed", "cancelled"}
Active   == {"queued", "running", "cancelling"}
Status   == {"none"} \cup Active \cup Terminal

\* What the table keeps of a job, and what is left of one that is not there.
Row   == [status : Status, cancel : BOOLEAN]
NoRow == [status |-> "none", cancel |-> FALSE]
NoJob == CHOOSE j \in Jobs : TRUE

\* A thread is outside _persist_jobs (off), is about to list the jobs, has
\* listed them (ids), or has read their contents (rows) and not written them.
SaveState == [step : {"off", "list", "dump", "commit"},
              ids : SUBSET Jobs, rows : [Jobs -> Row]]
NoRows   == [j \in Jobs |-> NoRow]
Idle     == [step |-> "off", ids |-> {}, rows |-> NoRows]
MustSave == [step |-> "list", ids |-> {}, rows |-> NoRows]
Free(t)  == save[t].step = "off"
Saving(t) == save' = [save EXCEPT ![t] = MustSave]

FutureState == {"none", "pending", "running", "cancelled", "done"}
WorkerPc == {"idle", "check", "begin", "exec", "progress", "return",
             "succeed", "raise", "requeue", "fail", "drop", "finally"}
ClientPc == {"idle", "set", "enqueue", "register", "mark", "revoke",
             "settle", "reply"}

Queued(j)  == \E i \in 1..Len(queue) : queue[i] = j
At(c, pc)  == cpc[c] = pc /\ Free(c)
On(w, pc)  == wpc[w] = pc /\ Free(w)

TypeOK ==
  /\ known \in SUBSET Jobs
  /\ status \in [Jobs -> Status]
  /\ cancel \in [Jobs -> BOOLEAN]
  /\ retries \in [Jobs -> Nat]
  /\ registered \in SUBSET Jobs
  /\ future \in [Jobs -> FutureState]
  /\ queue \in Seq(Jobs)
  /\ wpc \in [Workers -> WorkerPc] /\ wjob \in [Workers -> Jobs]
  /\ cpc \in [Clients -> ClientPc] /\ cjob \in [Clients -> Jobs]
  /\ cfut \in [Clients -> BOOLEAN]
  /\ save \in [Threads -> SaveState]
  /\ table \in [Jobs -> Row] /\ jobsFile \in [Jobs -> Row]
  /\ begun \in [Jobs -> Nat] /\ late \in [Jobs -> Nat]
  /\ restarts \in 0..MaxRestarts /\ saveErrors \in 0..MaxSaveErrors

Init ==
  /\ known = {} /\ registered = {} /\ queue = <<>>
  /\ status = [j \in Jobs |-> "none"]
  /\ cancel = [j \in Jobs |-> FALSE]
  /\ retries = [j \in Jobs |-> 0]
  /\ future = [j \in Jobs |-> "none"]
  /\ wpc = [w \in Workers |-> "idle"] /\ wjob = [w \in Workers |-> NoJob]
  /\ cpc = [c \in Clients |-> "idle"] /\ cjob = [c \in Clients |-> NoJob]
  /\ cfut = [c \in Clients |-> FALSE]
  /\ save = [t \in Threads |-> Idle]
  /\ table = NoRows /\ jobsFile = NoRows
  /\ begun = [j \in Jobs |-> 0] /\ late = [j \in Jobs |-> 0]
  /\ restarts = 0 /\ saveErrors = 0

-----------------------------------------------------------------------------
(* _persist_jobs, the last thing every update does.                        *)

\* The jobs that are in _jobs, listed under the lock.
ListJobs(t) ==
  /\ save[t].step = "list"
  /\ save' = [save EXCEPT ![t] = [step |-> "dump", ids |-> known, rows |-> NoRows]]
  /\ UNCHANGED <<memory, pool, workers, clients, disk, history, counters>>

\* Their rows, read outside the lock.  The list holds references to the live
\* dicts, so a row shows what its job has become, even when it left _jobs.
RowsOf(E) == [j \in Jobs |-> IF j \in E
               THEN [status |-> status[j], cancel |-> cancel[j]] ELSE NoRow]

DumpRows(t) ==
  /\ save[t].step = "dump"
  /\ save' = [save EXCEPT ![t] =
       [step |-> "commit", ids |-> {}, rows |-> RowsOf(save[t].ids)]]
  /\ UNCHANGED <<memory, pool, workers, clients, disk, history, counters>>

\* One transaction: delete every row, insert those read.
CommitRows(t) ==
  /\ save[t].step = "commit"
  /\ table' = save[t].rows
  /\ save' = [save EXCEPT ![t] = Idle]
  /\ UNCHANGED <<memory, pool, workers, clients, jobsFile, history, counters>>

\* SQLite refuses: the rows go to jobs.json, the table is as it was.
FallBack(t) ==
  /\ save[t].step = "commit"
  /\ saveErrors < MaxSaveErrors
  /\ saveErrors' = saveErrors + 1
  /\ jobsFile' = save[t].rows
  /\ save' = [save EXCEPT ![t] = Idle]
  /\ UNCHANGED <<memory, pool, workers, clients, table, history, restarts>>

Persist(t) == ListJobs(t) \/ DumpRows(t) \/ CommitRows(t) \/ FallBack(t)

-----------------------------------------------------------------------------
(* Updates of one job, under the lock.                                     *)

\* _patch_job: nothing happens to a job that is not in _jobs any more.
Patch(t, j, s) ==
  IF j \in known
    THEN /\ status' = [status EXCEPT ![j] = s]
         /\ Saving(t)
    ELSE UNCHANGED <<status, save>>

\* Mutant: cleanup_jobs does not ask whether the job has finished.
Removable_Any(j) == j \in known
Removable(j)     == j \in known /\ status[j] \in Terminal

\* cleanup_jobs: the terminal jobs whose time to live is over leave _jobs and
\* _futures.  Time is not modelled: any of them may be due.
Cleanup(t) ==
  \E E \in SUBSET {j \in Jobs : Removable(j)} :
    /\ known' = known \ E
    /\ registered' = registered \ E
    /\ IF E # {} THEN Saving(t) ELSE UNCHANGED save

-----------------------------------------------------------------------------
(* Clients.  Every entry point begins with cleanup_jobs and the submitting *)
(* and cancelling ones end with get_job, which calls it once more.         *)

Move(c, pc) == cpc' = [cpc EXCEPT ![c] = pc]

Fresh(j) == status[j] = "none" /\ \A c \in Clients : ~(cpc[c] = "set" /\ cjob[c] = j)

\* submit_task_run, submit_workflow_run, submit_excel_export
StartSubmit(c, j) ==
  /\ At(c, "idle") /\ Fresh(j)
  /\ Cleanup(c)
  /\ Move(c, "set") /\ cjob' = [cjob EXCEPT ![c] = j]
  /\ UNCHANGED <<status, cancel, retries, future, queue, workers, cfut, disk,
                 history, counters>>

SetJob(c) ==
  LET j == cjob[c] IN
  /\ At(c, "set")
  /\ known' = known \cup {j}
  /\ status' = [status EXCEPT ![j] = "queued"]
  /\ Saving(c) /\ Move(c, "enqueue")
  /\ UNCHANGED <<cancel, retries, pool, workers, cjob, cfut, disk, history,
                 counters>>

Enqueue(c) ==
  LET j == cjob[c] IN
  /\ At(c, "enqueue")
  /\ future' = [future EXCEPT ![j] = "pending"]
  /\ queue' = Append(queue, j)
  /\ Move(c, "register")
  /\ UNCHANGED <<memory, registered, workers, cjob, cfut, save, disk, history,
                 counters>>

\* The worker may have run the job, and popped its future, before this line.
Register(c) ==
  /\ At(c, "register")
  /\ registered' = registered \cup {cjob[c]}
  /\ Move(c, "reply")
  /\ UNCHANGED <<memory, future, queue, workers, cjob, cfut, save, disk,
                 history, counters>>

\* get_job, alone or at the end of another call.
GetJob(c) ==
  /\ At(c, "idle") \/ At(c, "reply")
  /\ Cleanup(c)
  /\ Move(c, "idle") /\ cjob' = [cjob EXCEPT ![c] = NoJob]
  /\ cfut' = [cfut EXCEPT ![c] = FALSE]
  /\ UNCHANGED <<status, cancel, retries, future, queue, workers, disk,
                 history, counters>>

\* cancel_job
StartCancel(c, j) ==
  /\ At(c, "idle") /\ j \in known
  /\ Cleanup(c)
  /\ Move(c, "mark") /\ cjob' = [cjob EXCEPT ![c] = j]
  /\ UNCHANGED <<status, cancel, retries, future, queue, workers, cfut, disk,
                 history, counters>>

\* Mutant: no early return for a finished job.
Cancellable_Any(j) == j \in known
Cancellable(j)     == j \in known /\ status[j] \notin Terminal

\* A job that is gone is a KeyError, a finished one is returned as it is.
MarkNothing(c) ==
  /\ At(c, "mark")
  /\ ~Cancellable(cjob[c])
  /\ Move(c, "idle") /\ cjob' = [cjob EXCEPT ![c] = NoJob]
  /\ UNCHANGED <<memory, pool, workers, cfut, save, disk, history, counters>>

MarkCancelling(c) ==
  LET j == cjob[c] IN
  /\ At(c, "mark")
  /\ Cancellable(j)
  /\ cancel' = [cancel EXCEPT ![j] = TRUE]
  /\ status' = [status EXCEPT ![j] = "cancelling"]
  /\ cfut' = [cfut EXCEPT ![c] = j \in registered]
  /\ Saving(c) /\ Move(c, "revoke")
  /\ UNCHANGED <<known, retries, pool, workers, cjob, disk, history, counters>>

Revoked(c, j)           == cfut[c] /\ future[j] \in {"pending", "cancelled"}

\* Future.cancel() succeeds on a future that no worker has taken.
Revoke(c) ==
  LET j == cjob[c] IN
  /\ At(c, "revoke")
  /\ IF Revoked(c, j)
       THEN /\ future' = [future EXCEPT ![j] = "cancelled"]
            /\ Move(c, "settle")
       ELSE /\ Move(c, "reply")
            /\ UNCHANGED future
  /\ UNCHANGED <<memory, registered, queue, workers, cjob, cfut, save, disk,
                 history, counters>>

Settle(c) ==
  /\ At(c, "settle")
  /\ Patch(c, cjob[c], "cancelled")
  /\ Move(c, "reply")
  /\ UNCHANGED <<known, cancel, retries, pool, workers, cjob, cfut, disk,
                 history, counters>>

\* What a client does once it has entered a call.
Continue(c) ==
  \/ SetJob(c) \/ Enqueue(c) \/ Register(c)
  \/ MarkNothing(c) \/ MarkCancelling(c) \/ Revoke(c) \/ Settle(c)
  \/ cpc[c] = "reply" /\ GetJob(c)

Call(c) ==
  \/ \E j \in Jobs : StartSubmit(c, j) \/ StartCancel(c, j)
  \/ cpc[c] = "idle" /\ GetJob(c)

-----------------------------------------------------------------------------
(* Workers: _run_job, _run_workflow_job and _run_excel_export_job, which   *)
(* differ where Kind is mentioned.                                         *)

Goto(w, pc) == wpc' = [wpc EXCEPT ![w] = pc]

\* A worker of the executor takes the oldest entry; a cancelled future is
\* dropped, and its entry in _futures stays.
Take(w) ==
  /\ On(w, "idle") /\ queue # <<>>
  /\ queue' = Tail(queue)
  /\ LET j == Head(queue) IN
     IF future[j] = "cancelled"
       THEN UNCHANGED <<wpc, wjob, future>>
       ELSE /\ future' = [future EXCEPT ![j] = "running"]
            /\ Goto(w, "check") /\ wjob' = [wjob EXCEPT ![w] = j]
  /\ UNCHANGED <<memory, registered, clients, save, disk, history, counters>>

\* A step that only reads cancel_requested and decides.
Decide(w, from, to) ==
  /\ On(w, from) /\ Goto(w, to)
  /\ UNCHANGED <<memory, pool, wjob, clients, save, disk, history, counters>>

\* A step that only patches the status.
Record(w, from, s, to) ==
  /\ On(w, from) /\ Goto(w, to)
  /\ Patch(w, wjob[w], s)
  /\ UNCHANGED <<known, cancel, retries, pool, wjob, clients, disk, history,
                 counters>>

\* Mutant: an attempt starts without looking for a cancel request.
CheckCancel_None(w) == Decide(w, "check", "begin")
CheckCancel(w) ==
  Decide(w, "check", IF cancel[wjob[w]] THEN "drop" ELSE "begin")

\* The patch to "running"; the job's work starts right after it.
Begin(w) ==
  LET j == wjob[w] IN
  /\ On(w, "begin") /\ Goto(w, "exec")
  /\ Patch(w, j, "running")
  /\ begun' = [begun EXCEPT ![j] = @ + 1]
  /\ late' = [late EXCEPT ![j] = IF cancel[j] THEN @ + 1 ELSE @]
  /\ UNCHANGED <<known, cancel, retries, pool, wjob, clients, disk, counters>>

\* The work asks whether to go on.  run_task reports its progress: `update'
\* checks for a cancel request, then patches the job to "running";
\* JobCancelled leaves run_task as it came.  run_workflow calls cancel_check
\* before each node, and ends with run.error = "cancelled".
Progress(w) ==
  /\ Kind[wjob[w]] # "excel_export"
  /\ Decide(w, "exec", IF cancel[wjob[w]] THEN "drop"
                       ELSE IF Kind[wjob[w]] = "compare" THEN "progress" ELSE "exec")

PatchProgress(w) == Record(w, "progress", "running", "exec")

\* The work returns: run_task, run_workflow, or build_excel_for_run.  Only
\* _run_job looks for a cancel request once more.
WorkDone(w) ==
  Decide(w, "exec", IF Kind[wjob[w]] = "compare" THEN "return" ELSE "succeed")

\* It raises, or the workflow run is not a success.
WorkFails(w) == Decide(w, "exec", "raise")

CheckAfter(w) ==
  Decide(w, "return", IF cancel[wjob[w]] THEN "drop" ELSE "succeed")

\* Mutant: one retry too many.
MayRetry_OffByOne(j) == retries[j] <= MaxRetries[j] /\ ~cancel[j]
MayRetry(j)          == retries[j] < MaxRetries[j] /\ ~cancel[j]

CheckRetry(w) ==
  Decide(w, "raise", IF MayRetry(wjob[w]) THEN "requeue" ELSE "fail")

\* Mutants: the retry is submitted to the executor as well, or left to others.
Requeue_Resubmits(w) ==
  LET j == wjob[w] IN
  /\ On(w, "requeue") /\ Goto(w, "check") /\ Patch(w, j, "queued")
  /\ retries' = [retries EXCEPT ![j] = @ + 1]
  /\ queue' = Append(queue, j)
  /\ UNCHANGED <<known, cancel, registered, future, wjob, clients, disk,
                 history, counters>>
Requeue_Abandons(w) ==
  LET j == wjob[w] IN
  /\ On(w, "requeue") /\ Goto(w, "idle") /\ Patch(w, j, "queued")
  /\ retries' = [retries EXCEPT ![j] = @ + 1]
  /\ UNCHANGED <<known, cancel, pool, wjob, clients, disk, history, counters>>

\* The retry starts at once, in the same worker.
Requeue(w) ==
  LET j == wjob[w] IN
  /\ On(w, "requeue") /\ Goto(w, "check")
  /\ Patch(w, j, "queued")
  /\ retries' = [retries EXCEPT ![j] = @ + 1]
  /\ UNCHANGED <<known, cancel, pool, wjob, clients, disk, history, counters>>

Succeed(w) == Record(w, "succeed", "success", "finally")
Fail(w)    == Record(w, "fail", "failed", "finally")
Drop(w)    == Record(w, "drop", "cancelled", "finally")

\* The `finally' clause, which _run_excel_export_job does not have; then the
\* executor completes the future.
Finally(w) ==
  LET j == wjob[w] IN
  /\ On(w, "finally") /\ Goto(w, "idle")
  /\ wjob' = [wjob EXCEPT ![w] = NoJob]
  /\ registered' = IF Kind[j] = "excel_export" THEN registered
                                               ELSE registered \ {j}
  /\ future' = [future EXCEPT ![j] = "done"]
  /\ UNCHANGED <<memory, queue, clients, save, disk, history, counters>>

WorkEnds(w) == WorkDone(w) \/ WorkFails(w)

\* What a worker does between calls of the job's own work.
Advance(w) ==
  \/ Take(w) \/ CheckCancel(w) \/ Begin(w) \/ PatchProgress(w)
  \/ CheckAfter(w) \/ CheckRetry(w) \/ Requeue(w)
  \/ Succeed(w) \/ Fail(w) \/ Drop(w) \/ Finally(w)

-----------------------------------------------------------------------------
\* Mutant: an active job is loaded as it was.
Fate_Resumed(r)     == r.status
Fate(r)             == IF r.status \in Terminal THEN r.status ELSE "failed"

\* The process stops and starts again: _load_jobs_from_disk.  jobs.json is
\* imported when the table is empty.  A job that was active is marked failed
\* in memory, in the table only when something is saved next; the cleanup at
\* the end of loading saves when it removes a job.
Restart ==
  /\ restarts < MaxRestarts
  /\ restarts' = restarts + 1
  /\ LET source == IF \A j \in Jobs : table[j] = NoRow THEN jobsFile ELSE table
         loaded == {j \in Jobs : source[j] # NoRow}
     IN
     /\ status' = [j \in Jobs |-> IF j \in loaded THEN Fate(source[j]) ELSE status[j]]
     /\ cancel' = [j \in Jobs |-> IF j \in loaded THEN source[j].cancel
                                                  ELSE cancel[j]]
     /\ \E E \in SUBSET loaded :
          /\ known' = loaded \ E
          /\ table' = IF E = {} THEN source ELSE
               [j \in Jobs |-> IF j \in known'
                  THEN [status |-> Fate(source[j]), cancel |-> source[j].cancel]
                  ELSE NoRow]
  /\ registered' = {} /\ queue' = <<>>
  /\ future' = [j \in Jobs |-> "none"]
  /\ wpc' = [w \in Workers |-> "idle"] /\ wjob' = [w \in Workers |-> NoJob]
  /\ cpc' = [c \in Clients |-> "idle"] /\ cjob' = [c \in Clients |-> NoJob]
  /\ cfut' = [c \in Clients |-> FALSE]
  /\ save' = [t \in Threads |-> Idle]
  /\ UNCHANGED <<retries, jobsFile, history, saveErrors>>

Next ==
  \/ \E t \in Threads : Persist(t)
  \/ \E c \in Clients : Call(c) \/ Continue(c)
  \/ \E w \in Workers : Advance(w) \/ Progress(w) \/ WorkEnds(w)
  \/ Restart

\* Threads keep running, and the work of a job returns however often it
\* reports progress.  Nobody is obliged to call.
Fairness ==
  /\ \A t \in Threads : WF_vars(Persist(t))
  /\ \A c \in Clients : WF_vars(Continue(c))
  /\ \A w \in Workers : WF_vars(Advance(w)) /\ SF_vars(WorkEnds(w))

Spec     == Init /\ [][Next]_vars
FairSpec == Spec /\ Fairness

-----------------------------------------------------------------------------
(* Properties.                                                             *)

Busy(w)       == wpc[w] # "idle"
Holds(w, j)   == Busy(w) /\ wjob[w] = j
Working(w, j) == wpc[w] \in {"exec", "progress"} /\ wjob[w] = j

\* active_job_counts, which the resource guard admits by.
CountedRunning == {j \in known : status[j] = "running"}
CountedQueued  == {j \in known : status[j] \in Active \ {"running"}}

\* A job that is not finished is always in somebody's hands: it is queued with
\* a future that can still run, or a worker has it, or the client that submits
\* it has yet to queue it, or the client that revoked its future has yet to
\* record that.  No job is left for ever "queued" or "cancelling".
NoOrphan ==
  \A j \in known : status[j] \in Active =>
    \/ Queued(j) /\ future[j] = "pending"
    \/ \E w \in Workers : Holds(w, j) /\ wpc[w] # "finally"
    \/ \E c \in Clients : cjob[c] = j /\ cpc[c] \in {"enqueue", "settle"}

\* The work of a job is done by one worker at a time, and by none once the
\* job has finished: a job reported cancelled before its start never runs.
SoleWorker ==
  \A v, w \in Workers : Busy(v) /\ Busy(w) /\ wjob[v] = wjob[w] => v = w
NoWorkAfterEnd ==
  \A j \in known, w \in Workers : status[j] \in Terminal /\ Holds(w, j)
    => wpc[w] = "finally"

\* active_job_counts never counts as running a job that no worker has, so the
\* count stays within the executor's threads whatever the interleaving.
RunningIsHeld ==
  \A j \in CountedRunning :
    \E w \in Workers : Holds(w, j) /\ wpc[w] \notin {"check", "begin", "finally"}

\* The three together: what is worked on, counted and shown fits together.
WorkIsSound == SoleWorker /\ NoWorkAfterEnd /\ RunningIsHeld

\* The table may lag behind memory, it never contradicts a result: what it
\* says of a finished job is what memory says.
TableNeverContradicts ==
  \A j \in known : table[j].status \in Terminal => status[j] = table[j].status

\* While the process runs, a result is final, and a job leaves _jobs only
\* after it has one.
ResultIsFinal ==
  [][\/ restarts' # restarts
     \/ \A j \in known : /\ status[j] \in Terminal => status'[j] = status[j]
                         /\ j \notin known' => status[j] \in Terminal]_vars

\* A job asked to cancel while it waits in the queue is never worked on, though
\* cancel_job may come too early to find its future and too late to revoke it.
RunsNoMore(j) == []((cancel[j] /\ Queued(j)) => [](begun[j] = 0))
CancelWhileQueuedNeverRuns == \A j \in Jobs : RunsNoMore(j)

\* A compare job asked to cancel while its work goes on does not succeed.
SucceedsNoMore(j) == []((cancel[j] /\ \E w \in Workers : Working(w, j)) => [](status[j] # "success"))
CancelDuringWorkDenied == \A j \in Jobs : Kind[j] = "compare" => SucceedsNoMore(j)

\* Every job ends.
EveryJobEnds ==
  \A j \in Jobs : (j \in known /\ status[j] \in Active)
    ~> (j \in known => status[j] \in Terminal)

\* What a caller sees of the jobs behaves as JobLifecycle says, through every
\* interleaving of clients and workers, and across restarts.
Lifecycle == INSTANCE JobLifecycle WITH
  outcome  <- [j \in Jobs |-> IF status[j] \in Active THEN "open" ELSE status[j]],
  shown    <- known,
  wanted   <- cancel,
  running  <- {j \in Jobs : \E w \in Workers : Working(w, j)},
  attempts <- begun
ImplementsLifecycle == Lifecycle!Spec

\* jobs.py:483 says the table is replaced so as to be strongly consistent with
\* _jobs; in a process that is between saves, with no failed one, it would be.
TableIsMemory ==
  (saveErrors = 0 /\ restarts = 0 /\ \A t \in Threads : Free(t))
    => \A j \in Jobs : table[j].status =
                        IF j \in known THEN status[j] ELSE "none"

\* jobs.py:168 says a job counted as queued (queued or cancelling) is not on a
\* cursor: nobody is working on it.
QueuedIsNotWorked ==
  \A j \in CountedQueued, w \in Workers : ~Working(w, j)
=============================================================================
