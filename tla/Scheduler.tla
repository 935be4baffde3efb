----------------------------- MODULE Scheduler -----------------------------
(***************************************************************************)
(* The cron side of app/services/scheduler.py, with the APScheduler        *)
(* backend, for one workflow: workflows share nothing but the lock.        *)
(*                                                                         *)
(* Any number of threads synchronise: the interval job, POST /tick, and a  *)
(* firing that finds its workflow no longer schedulable.  Each takes the   *)
(* stored workflows first and works on that snapshot.  A firing checks for *)
(* a previous job and records the new one in two critical sections, with   *)
(* the submission in between.  APScheduler itself is external: it holds a  *)
(* trigger per job id and never runs two instances of one id at a time     *)
(* (max_instances=1), but stop_scheduler does not wait for the firing that *)
(* runs, and the scheduler that is started next knows nothing of it.       *)
(***************************************************************************)
EXTENDS Naturals, FiniteSets

CONSTANTS
  Crons,     \* cron expressions the workflow may be given
  Pausable,  \* whether edits may also pause it (or clear its cron, or delete it)
  Syncers,   \* threads that call tick: model values
  MaxEdits,  \* bound: saves of the workflow
  MaxStops,  \* bound: calls of stop_scheduler
  MaxJobs    \* bound: jobs submitted

Off == "off"  \* not schedulable; no cron job; no entry

\* The firings of the workflow's cron job: one for each scheduler started.
Firings == 0..MaxStops
Threads == Syncers \cup Firings

CronsAssumption   == Off \notin Crons /\ Crons # {}
SyncersAssumption == Syncers \cap Firings = {}
BoundsAssumption  == {MaxEdits, MaxStops, MaxJobs} \subseteq Nat

VARIABLES
  saved, edits,  \* the stored workflow's cron, or Off
  up, stops,     \* _scheduler is not None
  trigger,       \* of the workflow's job in APScheduler, or Off
  entry,         \* _state.entries of the workflow: its cron and last_job_id
  jobs, active,  \* jobs submitted so far, those not ended
  pc, snap,      \* of each thread, with the cron it loaded
  fired          \* of each firing: the job it submitted

vars == <<saved, edits, up, stops, trigger, entry, jobs, active, pc, snap, fired>>
world == <<saved, edits, up, stops>>

NoEntry == [cron |-> Off, last |-> 0]

\* _entry_for: a changed cron, or no entry, makes one that knows no last job.
Fresh(c) == [cron |-> c, last |-> 0]
EntryFor(c) == IF entry.cron = c THEN entry ELSE Fresh(c)

Goto(p, l) == pc' = [pc EXCEPT ![p] = l]

Init ==
  /\ saved \in Crons /\ edits = 0
  /\ up = TRUE /\ stops = 0
  /\ trigger = saved /\ entry = Fresh(saved)
  /\ jobs = 0 /\ active = {}
  /\ pc = [p \in Threads |-> "idle"]
  /\ snap = [p \in Threads |-> Off]
  /\ fired = [f \in Firings |-> 0]

-----------------------------------------------------------------------------
(* The world: the workflow is edited, jobs end, the scheduler is stopped   *)
(* and started.                                                            *)

Save ==
  /\ edits < MaxEdits
  /\ saved' \in (Crons \cup IF Pausable THEN {Off} ELSE {}) \ {saved}
  /\ edits' = edits + 1
  /\ UNCHANGED <<up, stops, trigger, entry, jobs, active, pc, snap, fired>>

JobEnds ==
  /\ \E j \in active : active' = active \ {j}
  /\ UNCHANGED <<world, trigger, entry, jobs, pc, snap, fired>>

Stop ==
  /\ up /\ stops < MaxStops
  /\ up' = FALSE /\ stops' = stops + 1
  /\ trigger' = Off /\ entry' = NoEntry
  /\ UNCHANGED <<saved, edits, jobs, active, pc, snap, fired>>

\* start_scheduler holds the lock throughout its tick.
Start ==
  /\ ~up
  /\ up' = TRUE
  /\ trigger' = saved
  /\ entry' = IF saved = Off THEN NoEntry ELSE EntryFor(saved)
  /\ UNCHANGED <<saved, edits, stops, jobs, active, pc, snap, fired>>

-----------------------------------------------------------------------------
(* tick: _sync_jobs.                                                       *)

Begin(p) ==
  /\ pc[p] = (IF p \in Firings THEN "tick" ELSE "idle")
  /\ snap' = [snap EXCEPT ![p] = saved]
  /\ Goto(p, "prune")
  /\ UNCHANGED <<world, trigger, entry, jobs, active, fired>>

\* Under the lock: an entry whose workflow is not schedulable goes, with its
\* job.  Only entries are looked at, never the jobs of APScheduler.
Prune(p) ==
  /\ pc[p] = "prune"
  /\ IF snap[p] = Off /\ entry # NoEntry
     THEN entry' = NoEntry /\ trigger' = Off
     ELSE UNCHANGED <<entry, trigger>>
  /\ Goto(p, IF snap[p] = Off THEN "idle" ELSE "entry")
  /\ UNCHANGED <<world, jobs, active, snap, fired>>

MakeEntry(p) ==
  /\ pc[p] = "entry"
  /\ entry' = EntryFor(snap[p])
  /\ Goto(p, "look")
  /\ UNCHANGED <<world, trigger, jobs, active, snap, fired>>

\* _upsert_job, without the lock: is there a job?
Look(p) ==
  /\ pc[p] = "look"
  /\ Goto(p, IF ~up THEN "idle" ELSE IF trigger = Off THEN "add" ELSE "reschedule")
  /\ UNCHANGED <<world, trigger, entry, jobs, active, snap, fired>>

Added(p) == IF up THEN snap[p] ELSE trigger

Add(p) ==
  /\ pc[p] = "add"
  /\ trigger' = Added(p)
  /\ Goto(p, "idle")
  /\ UNCHANGED <<world, entry, jobs, active, snap, fired>>

\* A job that has gone meanwhile makes reschedule_job raise.
\* Mutant: a job that exists keeps its trigger.
Rescheduled_Kept(p) == trigger
Rescheduled(p) == IF trigger = Off THEN Off ELSE snap[p]

Reschedule(p) ==
  /\ pc[p] = "reschedule"
  /\ trigger' = Rescheduled(p)
  /\ Goto(p, "idle")
  /\ UNCHANGED <<world, entry, jobs, active, snap, fired>>

-----------------------------------------------------------------------------
(* A firing: _run_scheduled_workflow.                                      *)

Trigger(f) ==
  /\ f = stops
  /\ pc[f] = "idle"
  /\ up /\ trigger # Off
  /\ Goto(f, "load")
  /\ UNCHANGED <<world, trigger, entry, jobs, active, snap, fired>>

Load(f) ==
  /\ pc[f] = "load"
  /\ snap' = [snap EXCEPT ![f] = saved]
  /\ Goto(f, IF saved = Off THEN "tick" ELSE "check")
  /\ UNCHANGED <<world, trigger, entry, jobs, active, fired>>

\* Mutant: the previous job is not looked at.
Busy_Never(e) == FALSE
Busy(e) == e.last \in active

Check(f) ==
  /\ pc[f] = "check"
  /\ entry' = EntryFor(snap[f])
  /\ Goto(f, IF Busy(entry') THEN "idle" ELSE "submit")
  /\ UNCHANGED <<world, trigger, jobs, active, snap, fired>>

Submit(f) ==
  /\ pc[f] = "submit"
  /\ jobs < MaxJobs
  /\ jobs' = jobs + 1
  /\ active' = active \cup {jobs + 1}
  /\ fired' = [fired EXCEPT ![f] = jobs + 1]
  /\ Goto(f, "record")
  /\ UNCHANGED <<world, trigger, entry, snap>>

SubmitFails(f) ==
  /\ pc[f] = "submit"
  /\ entry' = EntryFor(snap[f])
  /\ Goto(f, "idle")
  /\ UNCHANGED <<world, trigger, jobs, active, snap, fired>>

Record(f) ==
  /\ pc[f] = "record"
  /\ entry' = [EntryFor(snap[f]) EXCEPT !.last = fired[f]]
  /\ Goto(f, "idle")
  /\ UNCHANGED <<world, trigger, jobs, active, snap, fired>>

Sync(p) == Prune(p) \/ MakeEntry(p) \/ Look(p) \/ Add(p) \/ Reschedule(p)
Firing(f) == Load(f) \/ Check(f) \/ Submit(f) \/ SubmitFails(f) \/ Record(f)
Next ==
  \/ Save \/ JobEnds \/ Stop \/ Start
  \/ \E f \in Firings : Trigger(f) \/ Firing(f)
  \/ \E p \in Threads : Begin(p) \/ Sync(p)

\* The interval job starts a tick again and again, and threads go on; that
\* the cron fires, that jobs end and that a stopped scheduler is started
\* again is not assumed.
Spec ==
  /\ Init /\ [][Next]_vars
  /\ \A p \in Threads : WF_vars(Begin(p)) /\ WF_vars(Sync(p))
  /\ \A f \in Firings : WF_vars(Firing(f))

-----------------------------------------------------------------------------
TypeOK ==
  /\ saved \in Crons \cup {Off} /\ trigger \in Crons \cup {Off}
  /\ edits \in 0..MaxEdits /\ jobs \in 0..MaxJobs /\ stops \in 0..MaxStops /\ up \in BOOLEAN
  /\ entry \in [cron : Crons \cup {Off}, last : 0..jobs]
  /\ entry.cron = Off => entry = NoEntry
  /\ active \subseteq 1..jobs /\ fired \in [Firings -> 0..jobs]
  /\ snap \in [Threads -> Crons \cup {Off}]
  /\ trigger # Off => up

\* While the workflow's schedule and the scheduler are left alone, scheduled
\* jobs never overlap, however many threads synchronise meanwhile.  (An edit
\* or a stop drops the entry that remembers the last job, and a thread that
\* still works on what it loaded before drops it once more.)
NoOverlap == edits = 0 /\ stops = 0 => Cardinality(active) <= 1

\* Once the workflow is edited no more and is schedulable, APScheduler ends up
\* with its cron, whatever stale ticks and restarts of the scheduler do on the
\* way.
Followed == up /\ saved # Off => trigger = saved

-----------------------------------------------------------------------------
(* What the documentation says and the code does not do.                   *)

\* "Synchronize scheduler jobs with current workflow definitions" (tick,
\* scheduler.py:193), for one that is paused: its job is removed in the end.
PausedIsRemoved == <>[](saved = Off => trigger = Off)
=============================================================================
