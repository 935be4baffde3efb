# DataOpsStudio: formal models

DataOpsStudio is a web application (FastAPI, threads, SQLite and files; no
message broker, one process) that compares tables and files, runs workflows of
such comparisons, lets people query their data sources, and does the first two
on schedules. This directory holds TLA+ models of the parts of it whose
correctness depends on the order in which things happen, the TLC runs that check
them on small instances, and proofs checked by TLAPS.

Paths below are relative to `src/app/` in the repository.

1. [The system](#1-the-system): inventory of components
2. [Modules](#2-modules): what models what, and what each model leaves out
3. [Runs](#3-runs): what is checked, on which bounds, and why they are enough
4. [Proofs](#4-proofs)
5. [Where the code and its documentation differ](#5-where-the-code-and-its-documentation-differ)
6. [Plan](#6-plan)

To repeat the checks, in this directory:

    tlc -workers 2 -config jobs_races.cfg MCJobManager     # any run of section 3
    tlapm JobManagerProofs.tla


## 1. The system

```
  browser ──HTTP──> api/*  (a pool of request threads)
                      │
     ┌────────────────┼──────────────────┬─────────────────┐
     ▼                ▼                  ▼                 ▼
  sqlide/runtime   services/jobs <──── services/        workflow and data
  (4 workers,      (2 workers, a       scheduler        source stores
   timers, slots)   future per job)    (APScheduler,    (services/
     │                │                 sensors)         repositories, SQLite)
     │           ┌────┴─────────┐                           │ edits
     │           ▼              ▼                           │
     │      services/runner  services/workflow_engine       │
     │           │  ▲           │ (DAG of nodes)            │
     │           │  └───────────┘                           │
     │      compare/engine ──> compare/result_writer        │
     ▼           ▼                  + run_index             │
  dbclients/pool  <─────────────────────────────────────────┘
```

Everything runs in threads of one process. What they share is guarded by one
lock per module, which nearly every function takes for a single read or update
and drops again before the next, before the files and before the database. The
hard behaviour is in these gaps.

### 1.1 Components that are modelled

**Background jobs** (`services/jobs.py`, `services/excel_export.py`).
*State*: `_jobs` (id to record), `_futures` (id to Future), a thread pool of two,
the SQLite table `jobs` and the fallback file `jobs.json`.
*Operations*: submit (three kinds of jobs), poll (which expires old ones), cancel,
count, the worker loop with progress reports and retries, save, load at start.
*Interactions*: called by request threads and by scheduler threads; calls the
runner and the workflow engine, which call back with progress and ask whether to
stop.
*Hard*: cancel against start, against a retry and against success; registration of
the future after its submission; saves that overtake each other; a stop at any
point.
*Correct when*: a job is worked on by one worker at a time and by none after its
result; no active job is left in nobody's hands, across a restart too; results
are final, and the table never contradicts one; a cancel is honoured unless the
work had ended; every job ends.

**SQL workbench queries** (`sqlide/runtime.py`, `services/query_concurrency.py`,
`api/sql_workbench.py`, `sqlide/executor.py`).
*State*: executions, their timers, a pool of four workers, the counters of slots
per user and data source, two attributes that the handlers hang on an execution
to record it once in the history.
*Operations*: execute (slot, register, submit, arm the timer, wait a little,
answer), poll, cancel, time out, work.
*Hard*: a cancel or a timeout in the queue, during the statement, and between the
statement and its result; handlers that read the execution without the lock.
*Correct when*: the slots given out are those of queries in progress; a cancel
that was accepted wins over a late result; an execution that ended is not touched
again; every accepted query ends; each is recorded once, as what it was.

**Workflow engine** (`services/workflow_engine.py`, the rerun endpoint in
`api/workflow_runs.py`, the retry loop in `services/jobs.py`,
`services/workflow_history.py`, `api/workflows.py`).
*State*: the stored workflow, its runs; within a run the status and the output of
each node.
*Operations*: check and sort a graph, run all nodes or those downstream of one,
reuse outputs of an earlier run, retry, cancel.
*Hard*: chains of partial reruns; edits between the check of a rerun and the run;
`when` conditions, failures and cancels that skip nodes for different reasons.
*Correct when*: exactly the acyclic graphs are accepted and the order is the
documented one; a node runs only on settled inputs; a rerun touches what is
downstream of its node and nothing else; the outputs of a run fit together.

**Connection pool** (`dbclients/pool.py`, `api/datasources.py`).
*State*: a table of pools with the fingerprint each was made for; per pool a stack
of idle connections and a count of those in use.
*Operations*: borrow (find or replace the pool, pop or connect, ping), release,
invalidate.
*Hard*: threads that work with settings they loaded before an edit; an edit that
pops and clears the pool under borrowers; pings and connects that fail.
*Correct when*: a connection has one owner and is open while it has; a query never
runs on a connection of another fingerprint than its own; the count misses nobody.

**Scheduler, cron** (`services/scheduler.py`).
*State*: entries (cron, last job), the jobs of APScheduler, the stored workflows.
*Operations*: start, stop, tick (prune entries, make entries, add and reschedule
jobs), firing (load, check the previous job, submit, record).
*Hard*: several threads tick on snapshots taken before the lock; a firing checks
and records in two critical sections; a firing that outlives its scheduler.
*Correct when*: the trigger ends up as what was saved last; jobs of a workflow do
not overlap.

**Scheduler, event triggers** (`services/sensors.py`, `_tick_sensors`, the sensor jobs of `services/scheduler.py`).
*State*: what each trigger has seen; for an SQL or HTTP sensor an entry with its last job and check.
*Operations*: read the state, evaluate against a file or the history of a
workflow, write the state, submit; ask a database or an address, at most once in a cooldown.
*Hard*: files that come, change and go between ticks; upstream runs that end in
another order than they started in, or are deleted; submissions that fail; entries
replaced while a check is out asking.
*Correct when*: each event is served by one job, and what stays is served; a probing sensor keeps its
cooldown and does not overlap.

**Compare engine** (`compare/engine.py`, `services/compare_schema.py`).
Two generators: a merge of sides sorted by key, and an index. *Correct when* they
agree with the definition of a comparison and refuse exactly what they cannot
compare.

**Compare runs** (`services/runner.py`, `compare/result_writer.py`,
`services/run_index.py`, `services/run_result.py`).
*State*: the run's record, its directory, its buckets with their buffers, the file
that makes the run visible.
*Operations*: reserve, read, compare and write, flush, abort, clean up, finalize,
publish, delete.
*Hard*: failures after half the files are written; a stop between the result and
the record; a deletion while the writer works.
*Correct when*: what the history lists is complete and right, and the record does
not promise what is not there.

**Resource guard** (`services/resource_guard.py`, `memory_guard.py`, `api/tasks.py`).
*State*: none of its own; it reads the host, the job table and the runs' sizes.
*Operations*: ask (disk, memory, queue, project, user), refuse, submit, run at once.
*Hard*: it counts under the lock of the job table, several times, and the job is
submitted later. *Correct when*: no more gets past a full queue than came in meanwhile.

**Sessions and access** (`services/auth.py`, `refresh.py`, `rate_limit.py`, `mfa.py`,
`history.py`, `download_token.py`, `api/_authz.py`, `api/auth.py`, `api/mfa.py`).
*State*: access tokens with the table of revoked ones, refresh tokens linked by
`replaced_by`, the windows of the limiter, the second factor of an account, projects
with members, tasks, results and links.
*Operations*: sign in, step up, rotate, log out, delete an account; enrol, verify,
regenerate, disable, challenge; create, move, share, delete and open.
*Hard*: a rotation is three transactions; a hit enters the window with a time read
before the lock; a handler of the second factor writes over what it loaded; the
list of results and the gates of the handlers find a result's project differently.
*Correct when*: what was ended stays ended, the limits hold over every window, the
codes that count are those printed last, and a user may open just what he is shown.

**Storage** (`services/json_store.py`, `sqlite_store.py`, `repositories.py`).
*State*: JSON files with a cache under their mtime; tables.
*Hard*: handlers that write past the store; the granularity of mtimes; a file that is
empty while it is written. *Correct when*: what is served is the file, and what was
written is kept.

**Lineage analysis** (`lineage/*`, `services/lineage*.py`).
*State*: none but the script. *Operations*: cut scripts into statements, find edges,
refresh modes and roles, order a batch, trace columns.
*Hard*: blocks, loops and cursors told apart without a parser; positions counted in
two ways; alias maps of a whole statement. *Correct when*: the report is the script.

**Slow SQL and statistics** (`services/slow_sql*.py`, `plan_history.py`, `sql_stats.py`,
`sql_preflight.py`). *State*: kept plans, figures per statement.
*Operations*: judge a plan, advise, keep it, compare the last two, record, evict; check
a statement before a comparison runs it.
*Hard*: names and aliases in one map, plans kept in one second, ORDER BY of a subquery.
*Correct when*: what is judged is advised on and only once, an advised index serves its
columns, the difference is that of the last two plans, the stream is sorted.

**Schema metadata, search and recorded lineage** (`sqlide/metadata*.py`, `sqlide/search.py`,
`services/assets.py`, `asset_aspects.py`, `lineage_index.py`, `lineage_graph_query.py`,
`workflow_history.py`).
*State*: a cache of metadata per data source, three caches over the directory of runs,
marks on assets with a trail.
*Operations*: fetch, refresh, search; list and read runs, build, look up; mark.
*Hard*: a scope read before the database is asked and written back whole; caches
that count as fresh by a count and an mtime; an old value read outside of the transaction.
*Correct when*: a search finds what was fetched, a fresh cache is that of the runs there
are, a lookup gives what is within reach, the trail tells the value.

**Test data scenarios** (`scenarios/*`, `api/scenarios.py`).
*State*: files of scenarios, the tables in a database, tasks and results.
*Operations*: order, generate, apply anomalies, write or stream; materialize, record, run,
verify; save, import; fill by a language model.
*Hard*: two ways to make the data; requests that share tables and names of tasks; a save that
asks first whether the file is there. *Correct when*: the tables are those declared, a request
checks results of its own tables, what an author gave is kept.

**AI helpers** (`services/lineage_ai*.py`, `scenarios/ai_filler.py`).
*State*: a table of jobs, a file of settings. *Operations*: infer, enrich, poll, save.
*Hard*: any answer; a table cut by insertion order. *Correct when*: answers are filtered,
calls are limited, a job is lost to newer ones only, the key stays.

### 1.2 Components that are not modelled

| Component | State | Why not |
| --- | --- | --- |
| Workflow nodes (`workflow/nodes/*`) | none | runners of the node types; a runner is one step of the engine that succeeds, fails or raises |
| SQL text tools (`sqlide/limit_injector.py`, ...) | none | transformations of text |
| Readers and drivers (`readers/*`, `dbclients/dialects/*`, ...) | cursors | input and output; their failures are steps of the models that use them |
| Trace comparison, notifications | none | a pure comparison of two lists; calls of other services whose failure is logged |
| Web application, frontend | configuration | routing; a client is any sequence of requests |

What is left out of the components that are modelled in part is said module by module below, and
summed up in section 6.


## 2. Modules

| Module | Models | Extends / instantiates |
| --- | --- | --- |
| `JobLifecycle` | what the job manager promises, without threads, locks and table | |
| `JobManager` | `services/jobs.py`, the jobs of `excel_export.py` | `Lifecycle == INSTANCE JobLifecycle WITH ...` |
| `JobManagerProofs` | theorems about `JobManager` | `JobManager`, `TLAPS` |
| `QueryRuntime` | `sqlide/runtime.py`, the slots, the handlers | |
| `QueryRuntimeProofs` | theorems about `QueryRuntime` | `QueryRuntime`, `TLAPS` |
| `Dag` | graphs, reachability, the documented order | |
| `TopologicalSort` | the loop of `topological_order` | `Dag` |
| `WorkflowEngine` | `run_workflow`, the retry loop, the rerun endpoint, edits | `Dag` |
| `WorkflowProofs` | theorems about `Dag`, `TopologicalSort`, `WorkflowEngine` and their parts of `MCWorkflows` | `MCWorkflows`, `TLAPS` |
| `ConnectionPool` | `dbclients/pool.py` beside edits of the data source | |
| `ConnectionPoolProofs` | theorems about `ConnectionPool` | `ConnectionPool`, `TLAPS` |
| `Scheduler` | the cron side of `services/scheduler.py` | |
| `SensorTriggers` | `_tick_sensors` and `services/sensors.py` | |
| `ProbeSensors` | the SQL and HTTP sensors of `services/scheduler.py` | |
| `SchedulerProofs` | theorems about `Scheduler`, `SensorTriggers`, `ProbeSensors` and so about `MCScheduler` | `MCScheduler`, `TLAPS` |
| `CompareEngine` | `compare/engine.py` | |
| `CompareRun` | `run_task`, the writers, the record, deletion | `CompareEngine` |
| `CompareRunProofs` | theorems about `CompareEngine`, `CompareRun` and their parts of `MCWorkflows` | `MCWorkflows`, `TLAPS` |
| `ScenarioData` | `scenarios/generator.py`, `materializer.py` | |
| `ScenarioRun` | `scenarios/orchestrator.py`, `recorder.py`, `verifier.py` | |
| `ScenarioStore` | the files of the scenarios (`api/scenarios.py`, `loader.py`) | |
| `ScenarioFill` | `scenarios/ai_filler.py` | |
| `Admission` | `services/resource_guard.py` in front of `api/tasks.py` | |
| `UserFile` | `services/json_store.py` beside the handlers that write past it | |
| `Sessions` | `services/auth.py`, `refresh.py`, their handlers | |
| `RateLimiter` | `services/rate_limit.py` | |
| `SecondFactor` | `services/mfa.py`, `api/mfa.py` | |
| `ProjectAccess` | `api/_authz.py`, projects, tasks, results, links | |
| `LineageSegments` | `lineage/segments.py` | |
| `LineageAnalyzer` | `lineage/analyzer.py`, `aggregation.py`, `roles.py` | |
| `LineageBatch` | `lineage/batch_analyzer.py` | |
| `LineageColumns` | `lineage/columns.py` | |
| `SlowSql` | `services/slow_sql.py`, `slow_sql_enhance.py`, `plan_history.py`, `sql_stats.py` | |
| `Preflight` | `services/sql_preflight.py` | |
| `RunCaches` | the caches of `workflow_history.py`, `assets.py`, `lineage_index.py` | |
| `LineageGraph` | `lineage_graph_query.py`, the column chains of `assets.py` | |
| `AspectHistory` | `services/asset_aspects.py` | |
| `MetadataCache` | `sqlide/metadata_cache.py`, `search.py`, their handlers | |
| `LineageAI` | `services/lineage_ai.py`, `lineage_ai_inference.py`, `lineage_ai_config.py` | |
| `MCJobManager`, `Races` | one job that clients and workers race for | `JobManager` |
| `MCJobManager`, `Alone` | a job of each kind | `JobManager`, three times |
| `MCWorkflows` | graphs, runs, comparisons, scenarios | `WorkflowEngine`; `TopologicalSort`, `CompareRun`, `Scenario...` as instances |
| `MCScheduler` | the three ways a workflow is started | `Scheduler`; `SensorTriggers`, `ProbeSensors` as instances |
| `MCAccess` | who is let in | `UserFile`, `Sessions`, `RateLimiter`, `SecondFactor`, `ProjectAccess`, `Admission` |
| `AccessProofs` | theorems about `MCAccess` and so about each of its parts | `MCAccess`, `TLAPS` |
| `MCSql`, `Spec` | what reads and judges SQL | `LineageSegments`, `LineageAnalyzer`, `LineageBatch`, `LineageColumns`, `SlowSql`, `Preflight` |
| `MCSql`, `CatalogSpec` | metadata and recorded lineage | `RunCaches`, `LineageGraph`, `AspectHistory`, `MetadataCache`, `LineageAI` |
| `SqlProofs` | theorems about `MCSql`: the check before a comparison, marks on assets, the language model's answers | `MCSql`, `TLAPS` |

Common conventions. An action is one critical section, or one call made outside
of any lock; what a thread remembers between two of them is in variables of its
own (`pc`, `req`, `snap`, `save`, ...). Names are those of the code. Bounds are constants
named `Max...`, and only they stop the counters. Variables commented `history` are
kept for the properties only. An operator such as `Fate_Resumed` before `Fate` is a
variant with a plausible bug (the comment says which): it is used in no
specification, and serves to see that a property notices the bug.
`PROJECT.json` maps each definition to the lines it models.

Some parts of the program share no state, and their small instances are checked in one run: the
`MC` modules have a variable `part`, chosen in the initial state, which says
which instance a behaviour is one of. A property of such a run is made of one
implication for each part. An assumption of a module that is only instantiated is a
definition there (`LimitAssumption`, ...) and assumed by the `MC` module for its constants. The constants of the `query`
and `pool_safety` runs are in their cfgs, so that they check `QueryRuntime` and `ConnectionPool` themselves. Those of `access`,
`workflows`, `scheduler`, `sql` and `catalog` are in their cfgs as well, as far as theorems are about them (a constant that is a graph or a set of records is given there as a
definition of the `MC` module, with `<-`), so that theorems about `MCAccess`, `MCWorkflows`, `MCScheduler` and `MCSql` are for all values of
them. `MCWorkflows` and `MCScheduler` extend the component whose names they keep, and name the specification of the whole
`SuiteSpec`.

The modules of algorithms (`LineageBatch`, `LineageGraph`, `LineageAnalyzer`, `Preflight`, the index advice of `SlowSql`,
`LineageColumns`, `LineageSegments`) build their input step by step, a row, a statement or a
script at a time, so that every input within the bounds is a state; what the code
computes from it are operators, and the properties compare these with a definition of
what was meant that does not follow the code.

### JobManager

| Code | Model |
| --- | --- |
| `_jobs`, a record's fields | `known`, `status`, `cancel`, `retries` |
| `_futures`, the Future, the queue of the executor | `registered`, `future`, `queue` |
| `submit_*` | `StartSubmit` (with its cleanup), `SetJob`, `Enqueue`, `Register` |
| `get_job`, `cleanup_jobs` | `GetJob`, `Cleanup` |
| `cancel_job` | `StartCancel`, `MarkCancelling` or `MarkNothing`, `Revoke`, `Settle` |
| `_run_job`, `_run_workflow_job`, `_run_excel_export_job` | `Take`, `CheckCancel`, `Begin`, `Progress`, `PatchProgress`, `WorkDone`, `WorkFails`, `CheckAfter`, `CheckRetry`, `Requeue`, `Succeed`, `Fail`, `Drop`, `Finally` |
| `_persist_jobs` | `ListJobs`, `DumpRows`, then `CommitRows` or `FallBack` |
| `_load_jobs_from_disk` | `Restart` |

The three kinds of jobs differ where `Kind` is mentioned: a compare job reports
progress and looks at `cancel_requested` once more after its work, a
workflow asks for it before each node, an export never does, and the future of an
export stays in `_futures` until the job expires. A thread that must save does so
before its next step, as in the code, and other threads run between the three
steps of a save.

`JobLifecycle` is the abstract specification: a job is submitted, attempted at most
`MaxRetries + 1` times, one attempt at a time, gets one result and is forgotten
after that; at most one attempt starts after a cancel was requested; a restart may
lose or age what was saved but invents nothing.

*Left out*: stage, message, progress and result fields; the clock (a finished job
may expire at any time); `DumpRows` reads all rows at once; a table that cannot be
read at start.

### QueryRuntime

`Acquire`, `RegisterExecution`, `Submit`, `StartTimer`, `Answer` are
`start_execution` and the handler `execute`; `RequestCancel` and `OnTimeout` are the
two ways to cancel; `Take`, `Begin`, `Execute`, `Finish`, `WriteResult`, `Exit` are
the worker's `_run`; `PollFind`, `PollStatus`, `PollMark`, `PollAppend` are one GET of an
execution. `Finish` and `WriteResult` are two steps because polls read without
the lock (`lock` keeps everybody else out in between); a poll is four steps because
it tests, marks and appends without it.

*Left out*: the KILL sent to the server (it makes the statement end, which it does at some time
anyway), the check of the owner; old executions are removed from the table when the next one is answered. A client
learns the id of its query from the answer, so it polls or cancels after that
only; the timer needs no answer.

### Dag, TopologicalSort, WorkflowEngine

`Dag` defines well-formed and cyclic graphs, the two reachability helpers as
fixpoints, and the order `OrderOf` the documentation promises, as functions that
recur over the natural numbers. `TopologicalSort` is the
loop, one placed node per step, compared with these definitions. `WorkflowEngine` uses
`OrderOf`: the sort was shown to compute it. An output is the number of the run that
made it, and a node remembers the outputs it was given, so that one can tell whether
a run is made of outputs that fit together.

| Code | Model |
| --- | --- |
| `update_workflow` | `Edit` |
| `submit_workflow_run`, the rerun endpoint | `RequestRun`, `RequestRerun` (with its check of the ancestors) |
| the beginning of `run_workflow` | `GiveUp`, `Load` |
| one turn of its loop | `Reuse`, `SkipBlocked`, `SkipCancelled`, `FailEarly`, `SkipByWhen`, or `Start` then `Succeed`, `Fail` or `Escape` |
| its end, the retry loop | `Finish`, `EndRun` |

*Left out*: duplicate ids and names in `depends_on`, variables and parameters,
references to nodes that are no dependency, deletion of workflows; a rerun
resumes the run persisted last.

### ConnectionPool

`Save`, `Pop`, `Clear` are an edit or a deletion followed by `invalidate_pool`;
`LoadSource`, `FindPool` or `ReplacePool`, `Acquire` or `AcquireNothing`, `PingWorks` or
`PingFails`, `Connect` or `ConnectFails`, `Register`, `Release` are `borrow`. A version of
the data source stands for its settings, and its fingerprint for the five that `_datasource_fingerprint` looks at: the kind of
the database, host, port, user and database. The password is not among them, nor is `extra`, from which the Oracle, DB2 and DM drivers may
take the target itself. A pool nobody refers to is collected with
its connections, as the reference counts of CPython do at once.

*Left out*: `disable_pool`, statistics, other data sources (they share the lock
only).

### Scheduler

`Begin`, `Prune`, `MakeEntry`, `Look`, `Add`, `Reschedule` are one tick; `Trigger`, `Load`,
`Check`, `Submit` or `SubmitFails`, `Record` are one firing; `Stop` and `Start` are those of
the module. APScheduler is external: one trigger per job id, no two instances of an
id at once in one scheduler. *Left out*: the thread used without APScheduler; other
workflows.

### SensorTriggers

`WriteFile`, `RemoveFile`, `StartRun`, `EndRun`, `DeleteRun` are the world; `Read`,
`Evaluate`, `Write`, `Submit` or `SubmitFails` are one tick for one trigger. *Left out*:
several triggers of a workflow, whose states are kept by position; edits of the
trigger list.

### ProbeSensors

A tick (`Begin`, `Prune`, `MakeEntry`, `Look`, `Add`) makes entries by id, which is
kept through an edit of the probe and replaced when the cooldown changes; a check
(`Fire`, `Load`, `Check`, `Probe` or `Fails`, `Submit`, `Record`) takes an entry, works without
the lock and writes the entry object it took, which may not be in the table any more. A
cooldown is measured between the beginnings of checks; that one of 0 s means the default of
300 s (`or`) is not told apart. *Left out*: what is probed (a probe says yes, no, or fails), a stop
of the scheduler, which is `Scheduler`'s subject, and the fallback without APScheduler.

### CompareEngine, CompareRun

The engine is the two generators, one event per step, resumed by `Advance`, where a
side out of order is noticed. A row is a key and a value, and the column mappings,
tolerance and normalisations are a relation between values. The JSON buckets are kept in memory (`Collect`) and
written as one file at the end; the two other formats are flushed as they grow.

| Code | Model |
| --- | --- |
| `reserve`, `mark_running`, `finalize` (`run_index`) | `Reserve`, `MarkRunning`, `FinalizeIndex` |
| reading the two sides | `Read`, `ReadFails`, `MemoryAborts` |
| the loop of `_run_task_inner` | `Compare`, `Resume`, `Write` (with its flush, its failure, the disk check and the abort), `Refuse`, `Compared` |
| `_cleanup_partial_parquet` | `CleanUp` |
| `finalize` of either writer | `FlushRest`, `Measure`, `OpenMeta`, `Publish` |
| `write_excel` | `WriteExcel` |
| `delete_run`; the process is killed | `Delete`; `Stop` |

*Left out*: what a workbook contains, samples, promotion of large tasks and denial
before `reserve`, the quota, keys that cannot be compared; the removal of a directory
is one step and succeeds; `run_index` writes do not fail.

### ScenarioData, ScenarioRun, ScenarioStore, ScenarioFill

`ScenarioData` orders the tables (`_resolve_order`), and makes them in one of two modes: in memory
(`GenerateTable`, `ApplyAnomaly`, then `apply_plan`) or table by table into the database (`StreamTable`, where a
derived table is copied inside of it). A row is its key, the key it refers to and one more
value; what is drawn at random is any choice. `ScenarioRun` are requests over one scenario and one
data source, which do it all (`Materialize`, `record_scenario`, `RunTask`, `verify_scenario`) or only verify, beside
users who run the tasks. `Verdict` judges the summary stored with a result, as the code does, which is all zeros (section 5). `ScenarioStore` are the files: a save is a truncation and a write, others are put there
by hand, and a look-up reads what is there. `ScenarioFill` is the walk over tables and columns with
its budget of calls, any of which may answer, answer nothing or fail.
*Left out*: batches, types, dialects, SQL text, the seed; references that match only at a rate or at most once (`match_rate`,
`fk_unique`, `fk_distribution`), and columns that a derived table declares itself; the text of the files; prompts.

### Admission

`Ask`, `Count`, `CountTasks`, `CountOwners` are `guard_compare_run`, each count one critical section; `Refuse`,
`Submit` and `RunHere` are what the handler does with the verdict; `SubmitUnguarded` is anybody else.
`HostChanges` and `ResultsGrow` change what is measured meanwhile. *Left out*: how thresholds are advised, the
overview for administrators; jobs start, end and are cancelled at any time.

### UserFile

`Begin` to `Found` are the store's methods under its lock (`ReadCache`, `Stat`, `ReadFile` are `_read`);
`ReadRaw`, `Truncate`, `WriteInPlace`, `DropCache` are the handlers that go past it. A change may or may not show in
the mtime. *Left out*: what a record holds; a crash inside of a write.

### Sessions, RateLimiter, SecondFactor, ProjectAccess

`Sessions`: one transaction on the tables is one step. A rotation is `Verify`, `Issue`, `Replace`, and a replay
`FindReplay`, `RevokeBranch` (which reaches what is linked: `Unlinked` are the tokens it does not); logging out is `BeginLogout`, `PruneRevoked`, `RevokeActive`, `RevokeChain`; `StepUp`,
`SignIn`, `DeleteAccount` are theirs. `RateLimiter`: `Request` reads the clock, `Pass` or `Refuse` is the critical
section, at most `MaxLag` later. `SecondFactor`: a handler loads (`Begin`), decides, and writes later
(`EnrollWrites`, ...). `ProjectAccess`: one handler is one step; `History` is the list and
`MayOpen` the gate, written after two different functions. The challenge takes a recovery code (`Match`, `Consume`)
or one of an authenticator (`OpenByTime`, `RefuseByTime`), of which the code keeps no used time step. *Left out*: passwords, signatures, the
wording of tokens, audit and the switches of `operation_policy.py`; of a secret, the codes of one time step are modelled, as long as they are valid.

### LineageSegments, LineageAnalyzer, LineageBatch, LineageColumns

`LineageSegments` writes a legal script construct by construct, which tells what each statement belongs to, and
cuts its words the way the code does (`FindBlockEnd`, `RawPieces`, `StripHead`, `LoopScopes`). `LineageAnalyzer`
takes parsed statements (what a function reads it takes from the names after FROM and JOIN, as `_extract_cursor_select_tables` does), `LineageBatch` the reports of scripts, `LineageColumns` one statement with its
WITH clauses. *Left out*: strings and comments, sqlglot's parsing, dynamic SQL, stars, OpenLineage.

### SlowSql, Preflight

`SlowSql` judges the rows of a plan by the words the rules look for (`mysql_issue`, `dm_issue`, `oracle_issue`), makes the
advice, keeps plans with a timestamp of seconds and compares the last two; `Ran` records a statement in an ordered table whose older half is
dropped. The index advice (`alias_to_full`, `Usage`, `Candidates`) resolves the aliases of one
statement in one map, as the code does, and checks the indexes there are. `Preflight` are the rules before a
comparison and the extra look at the estimate. A sort column knows whether it is a column of another table, which the code does not look at
(`_ordered_column_names` keeps the bare name). The rules block only where `DATAOPS_SQL_PREFLIGHT_ENFORCE` is set, which by default it is not
(`api/tasks.py:46`).
*Left out*: how a plan is fetched, exports, formatting.

### RunCaches, LineageGraph, AspectHistory, MetadataCache, LineageAI

`RunCaches`: writers (`Empty`, `WriteText`, `Unlink`, `Invalidate`) and readers (`Lookup`, `AskRuns`, `List`, `Read` or `ReadFails`,
`Commit`), which hold the lock of their cache while they build it. `LineageGraph`: `bfs_subgraph` and
`_bfs_column_chain` over a growing sequence of mappings. `AspectHistory`: `Read` and `Commit` of a change.
`MetadataCache`: `Ask`, `Fetch` or `FetchFails`, `Save`, `Refresh` or `RefreshFails`, and the search. `LineageAI`: the
two parts of an analysis (`Analyze`, `Enrich`), the threads' `Call`s and `End`, the table (`StoreAiJob`), and the settings
(`BeginSave`, `Truncate`, `Write`). *Left out*: introspection, the global search, the comparison of schemas, prompts
and protocols; when an entry of the metadata cache was fetched.


## 3. Runs

Every run finishes within five minutes. "Violation" is a run that shows
a disagreement between the code and what it says of itself.

| Run | Instance | States | Question |
| --- | --- | --- | --- |
| `jobs_races` | 1 compare job, 1 retry, 2 workers, 2 clients, 1 restart, 1 failed save | 998 000 | Can two clients, two workers and a stop make a job run twice, after its result, or never end up anywhere? Can saves that overtake each other make the table contradict a result? Does the manager implement `JobLifecycle`? |
| `jobs_live` | a compare job with 2 clients; a workflow with 1 retry; an export; each alone, fair | 88 000 | Does every job end, and is a cancel honoured that comes while a job waits or works? |
| `query` | 2 queries, 2 users or sources, 2 workers, 1 poller, limit 1, fair | 549 000 | Are slots accounted for, does a cancel win, is an ended execution final, does each query end? |
| `query_slots_returned` | the same, 1 worker, limit 2 | (violation) | Is every slot returned? |
| `workflows` | sort, engine, compare, data, run, store, fill (see below) | 1 327 000 | Are graphs sorted, runs sound, comparisons right and whole, scenarios made, run, stored and filled as declared? |
| `compare_summary` | `MCWorkflows`; the part compare decides | (violation) | Is the stored summary the one of the result? |
| `scenario_streaming` | `MCWorkflows`; the part shipped decides | (violation) | Does streaming make the same tables as memory does? |
| `pool_safety` | 2 threads, 3 connections, 4 pools, 3 versions, 2 edits | 500 000 | Can a connection have two owners, be closed under one, or have another fingerprint than its query? |
| `scheduler` | cron, sensor, probe (see below), fair | 1 035 000 | Is anything started twice; do schedules follow edits; is the last file served? |
| `access` | files, sessions, rate, factor, projects, admission | 2 680 000 | Does any interleaving of requests leave a stale cache, revive a token, loosen a window, list what cannot be opened or submit too late? |
| `sql` | segments, analysis, batch, columns, judged, kept, advice, preflight, stats | 1 209 000 | Is lineage that of the script, advice right, the comparison with the last plan, an accepted stream sorted? |
| `catalog` | runs, readers, graph, aspects, metadata, answers, settings | 1 424 000 | Are fresh caches true, lookups right, trails whole, answers guarded? |

### Properties, and why the bounds suffice

*Jobs.* `NoOrphan` (an active job is in somebody's hands), `WorkIsSound` (by one worker at a time, by none
after its result, and only while it counts as running or cancelling) and `ResultIsFinal` speak of one
job: jobs share the lock, the queue and the table, so one job shows every race on
it, with two clients for cancel against cancel and submit against cancel, two workers
for a job in two hands, one retry for a cancel between attempts. `TableNeverContradicts` is about saves that read
before and commit after another, for which the two clients and the workers suffice; that a save
writes other jobs' rows too is covered by the proof. All of these are also proved, for any number of everything (section 4).
`ImplementsLifecycle` is checked across the restart. `CancelIsHonoured` relates a cancel to every later
step: one that comes while the job waits keeps it from running, one that comes while a compare job works keeps it
from success. `EveryJobEnds` is liveness.

*Queries.* `SlotsAccounted` says that the slots taken are those of queries in progress
plus those lost to queries cancelled in the queue, and that the limit holds; it is the
strongest statement that is true of this code (`SlotsReturned`, section 5, is not).
`CancelWins` and `FinalIsFinal` are about the timer, the client and the worker at once. Which
user and data source a query belongs to is chosen in the initial state, so that the run
has both two queries that compete for a slot and two that wait in one queue. Two queries and at most two workers are enough:
two queries of one user on one data source, where one may find no slot, and two of which one waits behind the other or runs beside it.
That nothing else happens with more of them is proved (section 4).

*Workflows.* `GraphsAreRight` (part sort): all 729 graphs of up to three nodes, with cycles, self-references and unknown nodes,
and 3 025 of four, which has a node with two upstream nodes on different levels. `RunsAreSound` (part engine):
a join, a chain, an edge and a cycle that was stored before the check on saving; three runs show a
rerun that resumes a rerun, one edit and one retry meet any step. `OutputsAreConsistent` and `RerunReachesItsNode`, two of its
parts, are claimed of a workflow that is not edited meanwhile: an edit may add an ancestor to a node
whose output a rerun then reuses, and the check of the endpoint was made for the old graph. `NoInputFromFailure`,
`RerunScope` and `VerdictMeansDone` hold with edits.

*Compare* (a part of `workflows`). `EventsAreReference` covers every order and duplicate in sides of two rows and the
interesting ones of three, with a tolerance; batches of two make a flush in the middle and a rest at the end, and the
three formats of results differ in their files. `ResultsAreWhole` holds with a failure, a stop or a deletion between any two
steps.

*Scenarios* (parts of `workflows`). `DataIsAsDeclared`: three tables, of which one may refer to one declared later, be empty or
be derived; the anomalies of every kind, and two at once; in both modes. A streamed table with keys that repeat, or with two anomalies
that take rows away, is left out, as the rates of the code work on what came before. `ChecksAreOwn`: two requests at once or one after the other, two
workloads, two results. It is claimed of a request
that met no other, whoever came before it, and says that what it checks are results of its own tasks over its own tables. That a pass was
counted is not claimed: the check reads the stored summary, which is all zeros. `WhatIsGivenIsKept`: two editors and files placed by hand,
and every order of answers within a budget of four calls.

*Pool.* One connection per pool (`MaxSize` 1) makes the limit bite, and two threads and the
editor are enough for every pair of critical sections to meet; four pools and three connections
are more than can be alive at once with two threads and one editor. `PoolIsSound` is one owner, open while in use,
and nobody missed in the count. `SameTarget` compares the
fingerprint of the connection used with that of the settings the query was given, and, as long as no edit overlapped a query, the
settings it was opened with with those that are stored: of the three versions one differs in the host and one in `extra` only.

*Scheduler.* `NothingStartsTwice` has three parts. The cron's jobs do not overlap while the workflow and the scheduler
are left alone, with ticks going on: an edit or a stop drops the entry that remembers the last job, and the
next firing then starts a second one. An event of a file or upstream run starts one job, if ticks come one
at a time; four events are one more than needed for two runs to end in the wrong order with
a third between them. A probing sensor that keeps its entry, as it does through edits of the probe, keeps
its cooldown and never overlaps; three units of time hold two cooldowns. `SchedulesFollow` allows
edits, pauses and a stop, and `LastFileIsServed` that a file comes and goes; both are liveness.

*Access.* Two threads meet in every step of a handler. `StoreIsCurrent`: two changes and two records, of which one
deletion may bring another back. `EndedStaysEnded`: three refresh tokens make a chain whose middle is replayed, also while another thread rotates its
last; the clock passes an expiry. Two cases are excepted: what a rotation under way issues when its token is revoked escapes, with its
successors; and of a sign-in with two overlapping rotations of one token nothing is said (`ReplayRevokesTheChain`, section 5). `LoginIsGuarded`: no window, shortened by the longest wait for the lock, has more hits than the limit
(limits two and one, five ticks); with no two handlers of the second factor at once, the recovery codes that count are those printed
last, each opens one session (two uses are within the bounds), and no code of a secret that was given up opens any. `HistoryIsWhatOpens`: an administrator, an editor and a viewer; two tasks of which one may be
deleted or moved before the result is listed. `SubmitInTime`: every limit is one and two jobs are made.

*SQL.* `ScriptsAreRead`: scripts of up to twenty words hold a loop or CASE in a block in a procedure, and lines of three
statements each way of refreshing a target. A called function's
reads are claimed of functions that neither delete nor merge (`CallsAreReads`, section 5). `BatchIsConsistent`: three scripts make chains, cycles and conflicts.
`SourcesAreTrue`: two WITH clauses and one alias; it is claimed where no alias names two relations. `AdviceIsRight`: every pair of
plan rows for three databases, two references of tables under aliases. `LastIsKept`: four plans, some within one second,
and four statements in a table of two. `AcceptedIsSorted` and `RiskIsMonotone`: two sort columns, any features; the
first is claimed of statements that sort only themselves, upwards and by columns of their own table (see `StreamIsSorted`, section 5).

*Catalog.* `CachesAreTrue`: two runs and a reader, and a run with two readers whose lookups of two caches wait for each
other; ticks let two writes share an mtime, which is excepted. `LookupsAreRight`: every graph of four mappings out of
nine, with a cycle; depth two and three nodes cut the walk. `TrailIsWhole`: five changes by two editors, which did not overlap.
`AnswersAreGuarded`: two jobs with any answers, each with two fragments of either kind and a column against a limit of
one fragment of a kind; and four jobs without answers in a table of three, so that emptying it would lose more than the oldest. `SearchFindsTheFetched`: two requests, a default schema and a named one.

### Fairness

* `jobs_live`: weak fairness of every step a thread has begun (saves, clients in a call,
  workers), because threads keep running. Strong fairness of the end of a job's work:
  the work may report progress any number of times and returns in the end. Nobody has
  to call anything.
* `query`: weak fairness of the request threads and the workers; a statement ends (the drivers' timeout).
  Neither timers nor clients are assumed to act.
* `scheduler`: weak fairness of beginning a tick (the interval job recurs), of the steps of a tick
  and of a firing; for the sensors, that ticks recur and upstream runs end. No fairness of edits, of the triggering of
  firings, of the end of jobs or of a restart. The probing sensor is checked for safety only.
* The others state no liveness.

### Deadlock

TLC's check for deadlock is on in `jobs_races`, `jobs_live` and `scheduler`, whose systems never stop. It is off
where a behaviour may end: all queries served (`query`, `query_slots_returned`), the bounds on edits used up
(`pool_safety`), a graph sorted, a run, a comparison or a request ended (`workflows`, `compare_summary`, `scenario_streaming`), and the
bounds on requests or on the input reached (`access`, `sql`, `catalog`).


## 4. Proofs

Eight modules hold theorems, checked with SMT, Zenon and LS4. Each holds for any set of jobs, queries, threads, connections, rows,
nodes or edges and any bound within the module's assumptions, and so for instances no run could enumerate.

| Module | Theorem | Statement |
| --- | --- | --- |
| `JobManagerProofs` | `TypeCorrect` | `Spec => []TypeOK` |
| | `NoJobIsOrphaned` | `Spec => []NoOrphan` |
| | `OneWorkerPerJob`, `NoWorkOnAFinishedJob`, `CountedRunningIsHeld` | the three parts of `WorkIsSound` |
| | `WorkFitsTogether` | `Spec => []WorkIsSound` |
| | `ResultsAreFinal` | `Spec => ResultIsFinal` |
| | `TableAgreesWithResults` | `Spec => []TableNeverContradicts` |
| | `JobsFollowTheirLifecycle` | `Spec => ImplementsLifecycle`: the manager implements `JobLifecycle` |
| | `CancelledInTheQueueNeverRuns` | `Spec => CancelWhileQueuedNeverRuns` |
| | `CancelledAtWorkNeverSucceeds` | `Spec => CancelDuringWorkDenied` |
| `QueryRuntimeProofs` | `QueryTypeCorrect` | `Spec => []TypeOK` |
| | `SlotsStayAccounted` | `Spec => []SlotsAccounted` |
| | `CancelAlwaysWins` | `Spec => []CancelWins` |
| | `FinalStaysFinal` | `Spec => FinalIsFinal` |
| `WorkflowProofs` | `TopologicalOrderIsRight` | `Sort!Spec => []Sort!SortIsRight` |
| | `ReachabilityIsLeast` | `Sort!Spec => []Sort!ReachIsLeast` |
| | `NoNodeRunsOnAFailure` | `Spec => []NoInputFromFailure` |
| | `RerunsStayInScope` | `Spec => []RerunScope` |
| | `VerdictsAreEarned` | `Spec => []VerdictMeansDone` |
| | `ChainedRunsFitTogether` | `Spec => []OutputsAreConsistent` |
| | `AcceptedRerunsReachTheirNode` | `Spec => []RerunReachesItsNode` |
| | `GraphsAreRightAlways` | `SuiteSpec => []GraphsAreRight` of `MCWorkflows` |
| | `RunsAreSoundAlways` | `SuiteSpec => []RunsAreSound` |
| `ConnectionPoolProofs` | `PoolTypeCorrect` | `Spec => []TypeOK` |
| | `PoolStaysSound` | `Spec => []PoolIsSound` |
| | `QueriesReachTheirTarget` | `Spec => []SameTarget` |
| `CompareRunProofs` | `ComparesByReference` | `Spec => []EventsAreReference` |
| | `IndexTellsTheDisk` | `Spec => []IndexMatchesDisk` |
| | `ResultsAreComplete` | `Spec => []ListedIsComplete` |
| | `EventsAreReferenceAlways` | `SuiteSpec => []EventsAreReference` of `MCWorkflows` |
| | `ResultsAreWholeAlways` | `SuiteSpec => []ResultsAreWhole` |
| `SchedulerProofs` | `JobsNeverOverlap` | `Spec => []NoOverlap` |
| | `EventsFireOnce` | `Sensor!Spec => []Sensor!FiresOnce` |
| | `ProbesArePaced` | `Probing!Spec => []Probing!Paced` |
| | `NothingStartsTwiceAlways` | `SuiteSpec => []NothingStartsTwice` of `MCScheduler` |
| `AccessProofs` | `StoreIsCurrentAlways` | `Spec => []StoreIsCurrent` |
| | `EndedStaysEndedAlways` | `Spec => []EndedStaysEnded` |
| | `LoginIsGuardedAlways` | `Spec => []LoginIsGuarded` |
| | `HistoryIsWhatOpensAlways` | `Spec => []HistoryIsWhatOpens` |
| | `SubmitInTimeAlways` | `Spec => SubmitInTime` |
| `SqlProofs` | `AcceptedAlwaysSorted` | `Spec => []AcceptedIsSorted` of `MCSql` |
| | `RiskAlwaysMonotone` | `Spec => RiskIsMonotone` |
| | `TrailStaysWhole` | `CatalogSpec => []TrailIsWhole` |
| | `AnswersStayGuarded` | `CatalogSpec => []AnswersAreGuarded` |

*Assumptions*. TLC evaluates each of them, in the module or in the `MC` module for its instance. *Jobs*: there is a job, an
export is not retried (`JobsAssumption`), no thread is both a worker and a client (`ThreadsAssumption`), bounds are numbers.
*Queries*: no thread is both a worker and a poller, a limit is at least one, `None` is neither a query nor a worker. *Workflows*: a
definition has finitely many nodes, which are positive numbers (`DefinitionsAssumption`); it may be malformed or have cycles. *Pool*: every version of
the settings has a fingerprint, a pool holds at least one connection, threads are finitely many (`Cardinality` counts them),
`None` is no name. *Compare*: a row is a key and a value (`RowsAssumption`); `IndexTellsTheDisk` needs nothing. *Crons*: `Off` is no
cron, what synchronises is no firing, bounds are numbers. *Event triggers*: the kinds there are, bounds are numbers; and there is one
tick at a time (`Tickers <- {interval}`), as APScheduler runs its interval job (`max_instances=1`). *Probing sensors*: cooldowns are
positive numbers, who checks is none of those who synchronise. *Access*: `Free` is no thread; times to live, windows, waits for the lock, secrets and
limits are numbers; the roles and places have the names the code gives them. *Statements, marks and answers*: the table of jobs has room for one, limits are
numbers, an analysis has finitely many fragments.

### Arguments

None of the invariants is inductive by itself. What had to be added, and why:

*Jobs.* `NoOrphan` says that an active job is somewhere, but to see that a worker that takes it leaves nothing behind one must
know that it was nowhere else. `IInv == TypeOK /\ PlaceInv` says exactly where a job is, and the job's Future is the
key: with no future yet it is with the one client that submits it; pending, it is in the queue, once, and waiting; running, one
worker holds it; cancelled, a client is about to settle it or has done so; done, it has its result. The proof goes
action by action: `_persist_jobs` changes nothing of it (`PersistPlace`), a client or a worker moves one job
(`OneJobStep`), a restart empties all places (`RestartPlace`). `ResultIsFinal` is proved from `IInv`, and `TableNeverContradicts` with one
more invariant: the rows a thread has read and not yet written agree with the results as well (`TableInv`).

*Refinement.* Initial states map to initial states, and each step maps to a step of `JobLifecycle` or a stutter. That needs
`LifeInv`: how many attempts were counted at each place of a worker, that nobody cancels unasked, and that a result
in memory, in the table, in `jobs.json` or on the way to them was earned, without which a restart could map to nothing.

*Cancelling.* The two theorems about cancels are about what stays so of one job from then on: `NeverRuns` (its future is not run
without a look at `cancel_requested`, and whoever holds it is about to look or to drop it) and `Denied` (whoever holds it will see
the request before it can succeed, and no row tells a success). `Denied` needs `PastInv` to begin with, that a saved row tells no success of
a job still worked on: a restart may bring such a row back.

*Queries.* `PlaceInv` (a query is with its request, in the queue once, or with one worker), `StageInv` (what it is there), `OutcomeInv`
(what a status says about the result and the flags) and `SlotInv` (the counter of a key is the number of its queries that hold
a slot). The heart is that `Finish` and the two cancels all decide under the lock and look at `finalized`,
so that of a cancel and a result the first wins (`StageStep`, `OutcomeStep`). `SlotStep` needs `PlaceInv` to see that a slot is given back once.

*Workflows.* The operators of `Dag` are functions that recur over the natural numbers. That such a function is what its equation
says is proved from the well-foundedness of `<` (`Iteration`), and what all of its values have in common from the
least number at which it would fail (`LeastNat`, `Induction`), so that no induction theorem with an operator is needed. From these come
the lemmas about graphs: a walk of as many steps as there are nodes has reached all it can, upstream and downstream are
converses (`DownstreamIsUpstream`), no node of a graph without a cycle is upstream of itself (`NotItsOwnAncestor`), and
the order has every node once, after those it depends on (`OrderIsSorted`). `SortInv` says how far the loop of the sort is: what is
placed is the documented order so far, `inDegree` counts the upstream nodes not yet placed, and `ready` has those with none left.

A run keeps `RunInv`. Nodes the loop has left are settled, the others are not (`Underway`, `Marked`); a failed node blocks, and a node
that was to run and is not blocked has no blocked one upstream, while one that is blocked has a failed ancestor, unless there was
a cancel (`Caused`); the verdict is that of the nodes (`Concluded`). The properties look at the whole of an ended run, and hold of it only
because each node came after its upstream nodes, which is where the order is needed. `RunInv` looks at one run with the graph it
loaded, and is kept whatever is edited. `UneditedInv` relates runs: while nobody edits the workflow, the run that a rerun resumes had
the same graph, and its outputs fit together (`Stored`); what the rerun took over is what that run shows, and nothing upstream of
the node chosen is blocked (`Inherited`).

*Pool.* `Owned` (a connection is idle in one stack or held by one thread, never both, and open), `CountInv` (`_in_use` counts at least those
who use or wait for a connection of the pool: a failed ping may leave it too high, never too low), `Fresh` (a pool that nothing
refers to is empty), `OneTarget` and `HeldTarget` (all connections of a pool, idle or held, lead where its fingerprint
says). `Fresh` is what keeps an old pool's connections out of a new one of the same name.

*Compare.* `EngineInv` states what the engine has emitted at any point of the merge: the reference's events of the keys it
has passed, each once. `Sorted` so far in streaming and `Distinct` in memory are what the engine checks as it goes, and that a refusal is due to an input that is
not acceptable is part of the invariant. `RunInv` follows the rows into the buffers, the files and the counts
(`RowsInv`, `ClosedInv`), and `ReferenceCounts` says that the reference has one event per row, so that the counts of a published result are right.
`IndexTellsTheDisk` needs neither.

*Starting workflows.* Crons: `QuietInv` says that while nothing is edited or stopped the job that may be active is the one
the entry remembers, or the one about to be recorded. Event triggers: if the event of the file that is there was served, whatever a
tick works on covers it, and a tick that fires does so for an event that was not served (`FileInv`).
A run's event may be served twice, because a trigger looks for the greatest successful run and falls back to an earlier one when
that is deleted. `RunsInv` counts: an event was served once, and once more at most for each later run that was deleted, where
the remembered run does not count for those before it; and a run later than the remembered one that was served is gone.
Probing sensors: an entry knows its last recorded job and when the check of it began (`LastInv`), a check keeps its entry and began no
earlier than those that started a job (`CheckInv`), what it saw of the entry still holds when it submits (`ClearInv`), and while only
the probe is edited there is one entry, which every thread finds to fit (`OneEntryInv`); so jobs of one entry are apart (`ApartInv`).

*Access.* Files: `CacheInv` and `KeptInv` say that the cache was made under an mtime the file has had, and that the one handler
that changes the file, if no other overlaps it, differs from what was kept in its own record only. Tokens: a rotation takes several
steps, so `OutInv` follows a token from the logout that has read it to its revocation; by `LinkInv` a token has one child, which
`replaced_by` names or a thread is about to name. What a replay ends is said token by token: `Dead` are those revoked or escaped, `DeadInv`
says that what a dead token leads to is dead, linked or about to be, `FreshInv` that a token nobody was told of is not used or replaced,
and `RootInv` that the first token of a sign-in whose replay was found is dead, from which the whole family is (`FamilyEnds`). That the
code's walk along `replaced_by` reaches what is linked is an induction over its steps, each of which adds a token
until none is missing (`BranchHolds`). Limits: the queue of a key is not sorted, as late threads enter their times out of order; `QueueInv` says that
what has been dropped from it is too old to matter and how far what is left may be from the time of passing. Second factor:
`FactorInv` holds as long as no two handlers overlapped: a challenge that has loaded a secret finds it in use still. Results: a task is in a place that exists (`TasksInv`), and the two
ways of deciding, the filter of the list and the gate of the page, agree. Admission: `AdmitInv` bounds the jobs by those counted
and those submitted since.

*Statements, marks, answers.* An accepted statement sorts by its keys in their order: the names found are those of a prefix
(`PrefixPlaces`, `CoveredKeys`), and acceptance of a large one means the rule of the sort was not broken (`DecideBlocks`). A decision is never
milder for more reasons because it is that of the worst (`DecideIsMonotone`). `TrailInv` adds that a pending deletion takes away
something that was there, without which its record would be missing from the chain. Jobs: `JobsInv` says that the
table holds the jobs made last, each once (`StoreFits`: of a full table the oldest go, and a job that is no longer there comes back as the
newest), `ThreadsInv` that a thread's calls made and left are those its analysis asked for, within the limit (`CallsAreBounded`), and that what it keeps of
answers is valid. Settings: `SettingsInv` follows a save through its read, while it is alone.

### Only model-checked

* Liveness (`EveryJobEnds`, `EveryQueryEnds`, `SchedulesFollow`, `LastFileIsServed`): fairness and `ENABLED` are out of the
  prover's reach.
* Of `MCWorkflows`: `DataIsAsDeclared`, `ChecksAreOwn` and `WhatIsGivenIsKept`. Of `MCSql`: `ScriptsAreRead`,
  `BatchIsConsistent`, `SourcesAreTrue`, `AdviceIsRight`, `LastIsKept`, `CachesAreTrue`, `LookupsAreRight` and
  `SearchFindsTheFetched`. What recursive functions over sequences and trees compute for every input (segments of a script, the order of a
  batch, the walk in a graph) is induction over data, which the prover cannot do with the library's theorems; `sql`, `catalog` and `workflows` enumerate
  small inputs instead. (For the functions of `Dag`, which recur over the natural numbers, the least counterexample takes the place of those theorems.)
* Every other property of a passing run is proved in all of its parts.


## 5. Where the code and its documentation differ

Three disagreements are runs of their own.

* **Slots of queries cancelled in the queue are lost** (`query_slots_returned`). `sqlide/runtime.py:212` returns
  before the `try` whose `finally` releases the slot; line 245 says the worker's exit always releases it.
* **The stored summary is all zeros** (`compare_summary`). `services/runner.py:375` fills a placeholder that line 374 says
  `finalize` will replace; nothing does, while the bucket counts beside it are right. The check of a scenario reads it
  (`scenarios/verifier.py:96`), whose docstring promises to compare what was counted: it passes what expects no difference and fails what expects some.
* **Streaming drops the anomalies of derived tables** (`scenario_streaming`). `scenarios/materializer.py:238` says that the streamed
  result is equivalent, anomalies included; line 304 copies a derived table from its parent. Streaming is the default, and
  the anomalies of the scenario that is shipped are all in derived tables.

The following are stated in the modules, in sections of their own or at the end of the properties, and are violated by the code.
To see how, add the name to the run's cfg as an INVARIANT (PROPERTY for the temporal ones) and, where it says so, change a constant.
In the runs whose module has a `part`, define it there first, for its instance:
`Cascade == part = "engine" => W!SkipsCascade`.

| Property | Run | What the documentation says, what the code does |
| --- | --- | --- |
| `TableIsMemory` | `jobs_races` | `jobs.py:483`: the table is strongly consistent with `_jobs`. Two saves may commit in the other order than they read. |
| `QueuedIsNotWorked` | `jobs_races` | `jobs.py:168`: what is counted as queued is not being worked on. A job that is `cancelling` may be. |
| `HistoryOnce` | `query`, two `Pollers` | `api/sql_workbench.py:258`: the history entry is appended once. Two polls both find it missing. |
| `HistoryFaithful` | `query` | `runtime.py:15`: the shared fields are synchronised by the lock. A poll reads them without it, between the status and the result, and records a success as a failure. |
| `SkipsCascade` | `workflows`, engine | `workflow_engine.py:7`: what is downstream of a skipped node is skipped. Not if the node was skipped by its `when`. |
| `UnrelatedBranchesContinue` | `workflows`, engine | `workflow_engine.py:8`. An exception other than the named ones ends the run. |
| `CancelFailsTheRun` | `workflows`, engine | `workflow_engine.py:8-9`: a run is failed if cancel was requested. Not if the request came during the last node. |
| `OthersInherit` | `workflows`, engine | `workflow_engine.py:142`: the nodes outside a rerun keep the outputs of the previous run. Those that had not succeeded become failed. |
| `FailureLeavesNothing` | `workflows`, compare | `docs/SMOKE_TEST.md:103`: a cancelled run leaves nothing half made. Only the aborts of the disk check clean up. |
| `FailureIsReported` | `workflows`, run | `orchestrator.py:62`: a step that fails makes the report fail. A task that cannot be recorded is only named. |
| `UserFileIsPreferred` | `workflows`, store | `api/scenarios.py:580`: a user's file is preferred to an example. The example is found first in the order of names. |
| `NothingIsLost` (`ScenarioStore`) | `workflows`, store | `api/scenarios.py:381`: a save that is not to overwrite does not. Two such saves may both find no file. |
| `NoOldCredentials` | `pool_safety` | `api/datasources.py:60`: after an edit, queries do not run with the old credentials. A thread that loaded the old settings fills the new pool, as the fingerprint leaves out the password and `extra`; where `extra` holds the target (`oracle.py:86`, `db2.py:96`, `dm.py:65`) that is the old target. |
| `InUseSettles` | `pool_safety` | `pool.py:82`: `_in_use` is exact. A failed ping leaves it one too high for good. |
| `PausedIsRemoved` | `scheduler`, cron | `scheduler.py:193`: a tick synchronises the jobs with the workflows. A tick with an older snapshot may add the job again without an entry, and only entries are pruned. |
| `FiresOnce` | `scheduler`, sensor, two `Tickers` | `sensors.py:5-7`. Two ticks (the interval job and `POST /tick`) evaluate the same state. |
| `EverySuccessFires` | `scheduler`, sensor | `sensors.py:9`: it fires each time a success appears. Only the success that started last is looked at. |
| `ReplayRevokesTheChain` | `access`, sessions | `refresh.py:7-9`: the replay of a token has its chain revoked. What a rotation under way issues is not (`:146`), and the second link of two rotations of one token hides the first. |
| `CursorQueryIsNoStatement` | `sql`, segments | `segments.py:180`: the query of a cursor FOR is no statement of its own. A head that does not begin its piece is not taken off (`:451`), as in a loop inside of another. |
| `CallsAreReads` | `sql`, analysis, with a function that deletes | `analyzer.py:325-338`: what a called function reads flows on. It takes the names after FROM and JOIN (`segments.py:412`), so the table of a `DELETE FROM` too, and not that of a MERGE's USING. |
| `TopLevelJoinsProcedures` | `sql`, analysis | `aggregation.py:349`: a table emptied in a procedure and filled outside of it, or the reverse, is emptied and filled. The order is told from two numberings, of statements and of lines (`:216`). |
| `DiffIsOfTheLast` | `sql`, kept | `api/slow_sql.py:147`: the first plan is the older of the last two. Plans kept within one second have no order (`plan_history.py:80`). |
| `StreamIsSorted` | `sql`, preflight | `sql_preflight.py:124`: streaming needs rows sorted by key. The first ORDER BY found may be that of a subquery or descending, and a column of another table counts by its bare name (`:240`). |
| `IndexIsTrue` | `catalog`, runs | `lineage_index.py:114`: the index is kept with its fingerprint, so as not to be used when stale. The fingerprint is taken after the runs were read. |
| `TrailTellsTheValue` | `catalog`, aspects | `sqlite_store.py:119`: every change leaves a record. Two that overlap leave a trail that ends in another value than the row's. |

Also met on the way, and not a property. They are what the models leave free or leave out, or what reading for them showed.

* *Runs and quotas*: `run_index.mark_deleted` and `update_disk_bytes` have no caller, so that
  deleting runs never lowers a project's quota usage; a run that was reserved or running when the process stopped
  stays so in the index for ever.
* *Hazards for which a property says only what is left of them, or none*: status and result are polled without the lock (`api/sql_workbench.py:260`, `:262`); other exceptions
  leave `run_workflow` without a record, and nodes may refer to others without depending on them (`workflow_engine.py:256`, `:257`); trigger states go by position,
  and a failed submission comes after the new state (`scheduler.py:491`, `:505`); a generator of rows that is abandoned gives its connection back as healthy
  (`factory.py:359`); the second factor's handlers write over each other (`mfa.py:101`, `:184`).
* *Lineage*: two identical DML texts are taken for one; `x := CASE … END;` may end a block early; an alias of a
  WITH clause in the last SELECT loses an edge; a walk cut at a table keeps an edge to it; a chain counts as cut at exactly `max_nodes`;
  the second alias of a self-joined table gets no index advice; `LEVEL_MAP` in `report.py:411` has keys no warning has.
* *Metadata cache*: overlapping fetches of one scope drop each other's keys, a fetch begun before a refresh undoes it, a refresh that cannot
  remove the file is answered as done, and the cache outlives an edit of its data source.
* *Statement timeouts*: a task whose timeout is 0 means to run without one (`factory.py:388`), but `_apply_statement_timeout`
  returns early (`factory.py:426`), so that a pooled connection keeps the session timeout its last borrower had set.
* *Statistics*: a shortest time of 0 ms counts as none yet (`sql_stats.py:109`).


## 6. Plan

The order of the plan was the order of importance: first what the rest of the system relies on.

Done: jobs (with their proofs), queries, workflows, pool, the three ways of starting workflows, compare runs,
the resource guard, sessions and access, storage, lineage, slow SQL, metadata and recorded lineage, scenarios, the
callers of language models.

### Not modelled

* Operations of components that are modelled: the KILL sent to a server (queries);
  `disable_pool` and statistics (pool); the tick used without APScheduler, several triggers of one workflow, the arithmetic of
  `CronSchedule` (scheduler); promotion of large tasks, samples and workbooks (compare runs); the table of `OperationPolicy`, audit and encryption
  (access: the staging document lets administrators change what the code denies to everybody); migrations, import and
  export of the configuration (storage); stars, dynamic SQL, OpenLineage (lineage); introspection, the comparison of schemas and
  the global search (metadata); retention of workflow runs by count and age.
* Whole components: workflow nodes, SQL text tools, readers and drivers, trace comparison and notifications, web
  application and frontend, for the reasons in section 1.2: transformations of text, input and output, or no state. A model
  of them would repeat their code.

### Next models

1. `Scheduler` composed with `JobLifecycle` (the abstract job manager) and with `WorkflowEngine`: a cron firing, a manual run and
   a rerun of one workflow at once.
2. The list of triggers of a workflow, whose states go by position, and the fallback loop.
3. Recorded workflow runs with their retention, beside `RunCaches` and `SensorTriggers`.

### Next proofs

1. `CachesAreTrue`: a cache that counts as fresh is that of the runs there are, for any number of readers and writers.
2. `ChecksAreOwn` and `WhatIsGivenIsKept`, for any number of requests, workloads and files.
3. `LastIsKept` and `SearchFindsTheFetched`, once the sorted lists they read are characterised by lemmas of their own.

Abstract specifications worth stating: a queue of queries with slots that `QueryRuntime` implements but for the lost ones;
a comparison as one step that `CompareRun` implements; a pool as a set of connections with owners.
