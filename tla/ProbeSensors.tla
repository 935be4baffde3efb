---------------------------- MODULE ProbeSensors ----------------------------
(***************************************************************************)
(* The sql and http sensors of app/services/scheduler.py, for one sensor   *)
(* of one workflow.  APScheduler fires its check every so often; a check   *)
(* takes the sensor's entry, looks at its last job and cooldown under the  *)
(* lock, asks the database or the address without it, submits, and writes  *)
(* the entry it took, which a tick or an edit may have replaced meanwhile. *)
(*                                                                         *)
(* The scheduler is not stopped: what a check that survives a stop does is *)
(* as in Scheduler, whose ticks these are too.                             *)
(***************************************************************************)
EXTENDS Naturals, Sequences

CONSTANTS
  Cooldowns,  \* a sensor's cooldown, whose change makes a new entry
  Probes,     \* what it asks, whose change does not
  Syncers,    \* threads that call tick
  MaxTime, MaxEdits, MaxJobs  \* bounds

Off == [cooldown |-> 0, probe |-> ""]  \* the workflow is not active, or has no such sensor
Sensors == [cooldown : Cooldowns, probe : Probes]
Checker == 0  \* the one instance of the sensor's job
Threads == Syncers \cup {Checker}

ProbeAssumption ==
  /\ Cooldowns \subseteq Nat \ {0} /\ Checker \notin Syncers
  /\ {MaxTime, MaxEdits, MaxJobs} \subseteq Nat

VARIABLES
  now,
  saved, edits, resets,  \* the stored sensor; edits so far, and those that are not of the probe
  entries, current,      \* the entries made, [cooldown, at, last]; the one in _state, or 0
  armed,                 \* whether APScheduler has the sensor's job
  jobs,                  \* those submitted: [entry, at, active]
  pc, snap,              \* of each thread, with the sensor it loaded
  check                  \* the check that runs: its entry and when it began

vars == <<now, saved, edits, resets, entries, current, armed, jobs, pc, snap, check>>
world == <<now, saved, edits, resets>>

Fresh(s) == [cooldown |-> s.cooldown, at |-> 0, last |-> 0]

Init ==
  /\ now = 1
  /\ saved \in Sensors /\ edits = 0 /\ resets = 0
  /\ entries = <<Fresh(saved)>> /\ current = 1 /\ armed = TRUE
  /\ jobs = <<>>
  /\ pc = [t \in Threads |-> "idle"]
  /\ snap = [t \in Threads |-> Off]
  /\ check = [entry |-> 0, at |-> 0]

\* A thread that is done forgets what it loaded.
Goto(t, l) ==
  /\ pc' = [pc EXCEPT ![t] = l]
  /\ snap' = IF l = "idle" THEN [snap EXCEPT ![t] = Off] ELSE snap
Take(t, l) == pc' = [pc EXCEPT ![t] = l] /\ snap' = [snap EXCEPT ![t] = saved]

-----------------------------------------------------------------------------
TimePasses ==
  /\ now < MaxTime /\ now' = now + 1
  /\ UNCHANGED <<saved, edits, resets, entries, current, armed, jobs, pc, snap, check>>

Save ==
  /\ edits < MaxEdits /\ edits' = edits + 1
  /\ saved' \in (Sensors \cup {Off}) \ {saved}
  /\ resets' = IF saved.cooldown = saved'.cooldown THEN resets ELSE resets + 1
  /\ UNCHANGED <<now, entries, current, armed, jobs, pc, snap, check>>

JobEnds ==
  /\ \E j \in DOMAIN jobs : jobs[j].active /\ jobs' = [jobs EXCEPT ![j].active = FALSE]
  /\ UNCHANGED <<world, entries, current, armed, pc, snap, check>>

-----------------------------------------------------------------------------
(* tick: _sync_jobs.                                                       *)

\* _sensor_entry_for: a change of the cooldown (or interval, or type) makes a new one.
Fits(s) == current # 0 /\ entries[current].cooldown = s.cooldown

EntryFor(s) ==
  IF Fits(s) THEN UNCHANGED <<entries, current>>
  ELSE entries' = Append(entries, Fresh(s)) /\ current' = Len(entries) + 1

Begin(t) ==
  /\ pc[t] = (IF t = Checker THEN "tick" ELSE "idle")
  /\ Take(t, "prune")
  /\ UNCHANGED <<world, entries, current, armed, jobs, check>>

Prune(t) ==
  /\ pc[t] = "prune"
  /\ IF snap[t] = Off /\ current # 0
     THEN current' = 0 /\ armed' = FALSE
     ELSE UNCHANGED <<current, armed>>
  /\ Goto(t, IF snap[t] = Off THEN "idle" ELSE "entry")
  /\ UNCHANGED <<world, entries, jobs, check>>

MakeEntry(t) ==
  /\ pc[t] = "entry"
  /\ EntryFor(snap[t])
  /\ Goto(t, "look")
  /\ UNCHANGED <<world, armed, jobs, check>>

\* _upsert_sensor_job: a job that is there is only given its interval.
Look(t) ==
  /\ pc[t] = "look"
  /\ Goto(t, IF armed THEN "idle" ELSE "add")
  /\ UNCHANGED <<world, entries, current, armed, jobs, check>>

Add(t) ==
  /\ pc[t] = "add"
  /\ armed' = TRUE
  /\ Goto(t, "idle")
  /\ UNCHANGED <<world, entries, current, jobs, check>>

-----------------------------------------------------------------------------
(* A check: _run_sensor_workflow, _evaluate_sensor_and_maybe_submit.       *)

Fire ==
  /\ armed /\ pc[Checker] = "idle"
  /\ Goto(Checker, "load")
  /\ UNCHANGED <<world, entries, current, armed, jobs, check>>

Load ==
  /\ pc[Checker] = "load"
  /\ check' = [entry |-> 0, at |-> now]
  /\ Take(Checker, IF saved = Off THEN "tick" ELSE "check")
  /\ UNCHANGED <<world, entries, current, armed, jobs>>

Busy(e) == e.last # 0 /\ jobs[e.last].active
Cooling(e) == e.at # 0 /\ check.at - e.at < e.cooldown

Check ==
  /\ pc[Checker] = "check"
  /\ EntryFor(snap[Checker])
  /\ check' = [check EXCEPT !.entry = current']
  /\ Goto(Checker, IF Busy(entries'[current']) \/ Cooling(entries'[current']) THEN "idle" ELSE "probe")
  /\ UNCHANGED <<world, armed, jobs>>

Probe ==
  /\ pc[Checker] = "probe"
  /\ \E answer \in {"submit", "idle"} : Goto(Checker, answer)
  /\ UNCHANGED <<world, entries, current, armed, jobs, check>>

\* The probe or the submission raises: the error is put on the entry there is
\* by then, or on a new one.
Fails ==
  /\ pc[Checker] \in {"probe", "submit"}
  /\ EntryFor(snap[Checker])
  /\ Goto(Checker, "idle")
  /\ UNCHANGED <<world, armed, jobs, check>>

Submit ==
  /\ pc[Checker] = "submit"
  /\ Len(jobs) < MaxJobs
  /\ jobs' = Append(jobs, [entry |-> check.entry, at |-> check.at, active |-> TRUE])
  /\ Goto(Checker, "record")
  /\ UNCHANGED <<world, entries, current, armed, check>>

\* On the entry the check took.
Record ==
  /\ pc[Checker] = "record"
  /\ entries' = [entries EXCEPT ![check.entry].at = check.at, ![check.entry].last = Len(jobs)]
  /\ Goto(Checker, "idle")
  /\ UNCHANGED <<world, current, armed, jobs, check>>

Sync(t) == Begin(t) \/ Prune(t) \/ MakeEntry(t) \/ Look(t) \/ Add(t)
Next ==
  \/ TimePasses \/ Save \/ JobEnds
  \/ \E t \in Threads : Sync(t)
  \/ Fire \/ Load \/ Check \/ Probe \/ Fails \/ Submit \/ Record

Spec == Init /\ [][Next]_vars

-----------------------------------------------------------------------------
\* While a sensor keeps its entry, as it does through edits of its probe and
\* the ticks and failures of other threads, its jobs never overlap and the
\* checks that started them are its cooldown apart (scheduler.py:679-689).
Paced ==
  \A a, b \in DOMAIN jobs :
    a < b /\ (resets = 0 \/ jobs[a].entry = jobs[b].entry) =>
      ~jobs[a].active /\ jobs[b].at - jobs[a].at >= entries[jobs[a].entry].cooldown
=============================================================================
