------------------------------ MODULE Admission ------------------------------
(***************************************************************************)
(* The resource guard in front of compare runs: a request looks at the     *)
(* disk and the memory, counts the active jobs, then those of its project  *)
(* and data sources, then those of its user, and is denied, queued or      *)
(* allowed.  The counts take the lock of the job table one after the       *)
(* other, and the job is submitted after that, so that what was counted    *)
(* may have changed.                                                       *)
(*                                                                         *)
(* A synchronous run is no job and in none of the counts.  Exports,        *)
(* workflows and the scheduler submit without asking.                      *)
(***************************************************************************)
EXTENDS Naturals, FiniteSets

CONSTANTS
  Threads,      \* request threads
  Users, Projects,
  Enforce,      \* DATAOPS_GUARD_ENFORCE
  QueueMax, MaxCompare, MaxExport, MaxPerProject, MaxPerUser, Quota,
  MaxJobs       \* bound: jobs

LimitAssumption ==
  /\ Enforce \in BOOLEAN
  /\ {QueueMax, MaxCompare, MaxExport, MaxPerProject, MaxPerUser, Quota, MaxJobs} \subseteq Nat

VARIABLES
  jobs,    \* the active jobs: [id, kind, status, user, project]
  made,    \* jobs submitted so far
  host,    \* [disk, memory]: whether there is enough
  used,    \* project to the disk space of its runs
  req,     \* thread to its request and what it has counted
  sync     \* the threads that run a task themselves

vars == <<jobs, made, host, used, req, sync>>

NoRequest == [at |-> "idle"]

Init ==
  /\ jobs = {} /\ made = 0 /\ sync = {}
  /\ host = [disk |-> TRUE, memory |-> TRUE]
  /\ used = [p \in Projects |-> 0]
  /\ req = [t \in Threads |-> NoRequest]

-----------------------------------------------------------------------------
(* The rest of the system.                                                 *)

HostChanges ==
  /\ host' \in [disk : BOOLEAN, memory : BOOLEAN]
  /\ UNCHANGED <<jobs, made, used, req, sync>>

ResultsGrow ==
  /\ \E p \in Projects : used[p] < Quota /\ used' = [used EXCEPT ![p] = @ + 1]
  /\ UNCHANGED <<jobs, made, host, req, sync>>

Submitted(kind, u, p) ==
  jobs \cup {[id |-> made + 1, kind |-> kind, status |-> "queued", user |-> u, project |-> p]}

\* A request that has counted the jobs is overtaken by what is submitted now.
Overtaken(r) == [t \in Threads |-> IF r[t].at \in {"idle", "count"} THEN r[t]
                                   ELSE [r[t] EXCEPT !.since = @ + 1]]

SubmitUnguarded ==
  /\ made < MaxJobs /\ made' = made + 1
  /\ \E u \in Users, p \in Projects : jobs' = Submitted("export", u, p)
  /\ req' = Overtaken(req)
  /\ UNCHANGED <<host, used, sync>>

Run ==
  /\ \E j \in jobs : j.status = "queued" /\ jobs' = (jobs \ {j}) \cup {[j EXCEPT !.status = "running"]}
  /\ UNCHANGED <<made, host, used, req, sync>>

Cancel ==
  /\ \E j \in jobs : j.status = "running" /\ jobs' = (jobs \ {j}) \cup {[j EXCEPT !.status = "cancelling"]}
  /\ UNCHANGED <<made, host, used, req, sync>>

End ==
  /\ \E j \in jobs : j.status # "queued" /\ jobs' = jobs \ {j}
  /\ UNCHANGED <<made, host, used, req, sync>>

-----------------------------------------------------------------------------
(* A request.  evaluate() collects reasons to deny and reasons to queue    *)
(* from what was counted; they are collected here as they are counted.     *)

\* The limits of the task itself: what must be denied, and what may run alone.
ShapeReasons == [deny : {FALSE}, queue : BOOLEAN] \cup [deny : {TRUE}, queue : {FALSE}]

\* run_task_api or run_task_async_api; host_snapshot
Ask(t) ==
  /\ req[t] = NoRequest /\ t \notin sync
  /\ \E u \in Users, p \in Projects, async \in BOOLEAN, shape \in ShapeReasons :
       req' = [req EXCEPT ![t] =
         [at |-> "count", user |-> u, project |-> p, async |-> async, since |-> 0, queue |-> shape.queue,
          deny |-> shape.deny \/ ~host.disk \/ ~host.memory]]
  /\ UNCHANGED <<jobs, made, host, used, sync>>

Find(t, from, to, deny, queue) ==
  /\ req[t].at = from
  /\ req' = [req EXCEPT ![t].at = to, ![t].deny = @ \/ deny, ![t].queue = @ \/ queue]
  /\ UNCHANGED <<jobs, made, host, used, sync>>

Running(kind)  == Cardinality({j \in jobs : j.kind = kind /\ j.status = "running"})
CompareJobs == {j \in jobs : j.kind = "compare"}

\* Mutant: a queue at its bound lets one more in.
QueueIsFull_Late == Cardinality(jobs) > QueueMax

QueueIsFull == Cardinality(jobs) >= QueueMax

\* active_job_counts
Count(t) == Find(t, "count", "tasks", QueueIsFull, Running("compare") >= MaxCompare \/ Running("export") >= MaxExport)

\* active_compare_task_ids, by project (by data source is alike) ...
CountTasks(t) == Find(t, "tasks", "owners", FALSE, Cardinality({j \in CompareJobs : j.project = req[t].project}) >= MaxPerProject)

\* ... then active_compare_owner_ids and the project's disk usage.
CountOwners(t) == Find(t, "owners", "decide",
                       Quota > 0 /\ used[req[t].project] >= Quota,
                       Cardinality({j \in CompareJobs : j.user = req[t].user}) >= MaxPerUser)

\* _guard_or_raise: queueing is no answer for a run that is waited for.
Refused(t) == Enforce /\ (req[t].deny \/ (req[t].queue /\ ~req[t].async))

Refuse(t) ==
  /\ req[t].at = "decide" /\ Refused(t)
  /\ req' = [req EXCEPT ![t] = NoRequest]
  /\ UNCHANGED <<jobs, made, host, used, sync>>

\* A queued run is submitted as an allowed one is: the pool is what it waits for.
Submit(t) ==
  /\ req[t].at = "decide" /\ ~Refused(t) /\ req[t].async
  /\ made < MaxJobs /\ made' = made + 1
  /\ jobs' = Submitted("compare", req[t].user, req[t].project)
  /\ req' = Overtaken([req EXCEPT ![t] = NoRequest])
  /\ UNCHANGED <<host, used, sync>>

RunHere(t) ==
  /\ req[t].at = "decide" /\ ~Refused(t) /\ ~req[t].async
  /\ sync' = sync \cup {t}
  /\ req' = [req EXCEPT ![t] = NoRequest]
  /\ UNCHANGED <<jobs, made, host, used>>

Return(t) ==
  /\ t \in sync /\ sync' = sync \ {t}
  /\ UNCHANGED <<jobs, made, host, used, req>>

Next ==
  \/ HostChanges \/ ResultsGrow \/ SubmitUnguarded \/ Run \/ Cancel \/ End
  \/ \E t \in Threads :
       \/ Ask(t) \/ Count(t) \/ CountTasks(t) \/ CountOwners(t)
       \/ Refuse(t) \/ Submit(t) \/ RunHere(t) \/ Return(t)

Spec == Init /\ [][Next]_vars

-----------------------------------------------------------------------------
\* What enforcement is worth: a compare job enters a queue that is full only by
\* what was submitted while its request was counting, by other requests that
\* counted before it and by those nobody asks.
SubmitInTime ==
  \A t \in Threads : Enforce /\ Submit(t) => Cardinality(jobs) < QueueMax + req[t].since

QueueOvershoot == [][SubmitInTime]_vars
=============================================================================
