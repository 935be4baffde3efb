--------------------------- MODULE SensorTriggers ---------------------------
(***************************************************************************)
(* The event triggers of a workflow: _tick_sensors of scheduler.py over    *)
(* evaluate_sensor of sensors.py, for one trigger.  A tick copies the      *)
(* trigger's state under the lock, evaluates it against the world without  *)
(* the lock, writes the new state back under the lock, and then submits.   *)
(*                                                                         *)
(* The world is a file that is written, touched, removed, or an upstream   *)
(* workflow whose runs start, are persisted when they end, and may be      *)
(* deleted.  Runs are numbered in the order of their started_at, by which  *)
(* list_workflow_runs sorts them.                                          *)
(***************************************************************************)
EXTENDS Naturals, FiniteSets, FiniteSetsExt

CONSTANTS
  Triggers,   \* the triggers to check, each a record of its kind, "exists",
              \* "newer_than" or "workflow_success", and its check_size
  Tickers,    \* threads that tick at the same time
  Deletes,    \* whether upstream runs are deleted
  MaxEvents,  \* bound: changes of the file, upstream runs
  MaxFails    \* bound: submissions that fail

Files == {"exists", "newer_than"}
TriggersAssumption ==
  Triggers \subseteq [kind : Files \cup {"workflow_success"}, check_size : BOOLEAN]
BoundsAssumption == {MaxEvents, MaxFails} \subseteq Nat

VARIABLES
  trigger,  \* the trigger, which stays
  file,   \* its mtime and size, and how many times it appeared; Missing
  clock,  \* the changes of the file so far: the mtimes grow
  born,   \* the appearances so far
  runs,   \* the upstream runs: "running", "success", "failed", "deleted"
  state,  \* _sensor_states of the trigger
  pc, seen, found,  \* of each tick: the state it copied, what it evaluated
  jobs, fails       \* history: how many jobs were submitted for each event

vars == <<trigger, file, clock, born, runs, state, pc, seen, found, jobs, fails>>
world == <<trigger, file, clock, born, runs>>

Events  == 1..MaxEvents
Sizes   == {1, 2}
Missing == [mtime |-> 0, size |-> 0, born |-> 0]
Never   == [mtime |-> 0, size |-> 0, run |-> 0]
Nothing == [fired |-> FALSE, event |-> 0, new |-> Never]

Init ==
  /\ trigger \in Triggers
  /\ file = Missing /\ clock = 0 /\ born = 0
  /\ runs = <<>>
  /\ state = Never
  /\ pc = [t \in Tickers |-> "idle"]
  /\ seen = [t \in Tickers |-> Never]
  /\ found = [t \in Tickers |-> Nothing]
  /\ jobs = [e \in Events |-> 0] /\ fails = 0

-----------------------------------------------------------------------------
(* The world.                                                              *)

\* The file is written: it appears, or it is replaced or touched in place.
WriteFile ==
  /\ trigger.kind \in Files
  /\ clock < MaxEvents
  /\ clock' = clock + 1
  /\ born' = IF file = Missing THEN born + 1 ELSE born
  /\ \E s \in Sizes : file' = [mtime |-> clock', size |-> s, born |-> born']
  /\ UNCHANGED <<trigger, runs, state, pc, seen, found, jobs, fails>>

RemoveFile ==
  /\ file # Missing
  /\ file' = Missing
  /\ UNCHANGED <<trigger, clock, born, runs, state, pc, seen, found, jobs, fails>>

StartRun ==
  /\ trigger.kind = "workflow_success"
  /\ Cardinality(DOMAIN runs) < MaxEvents
  /\ runs' = [r \in 1..Cardinality(DOMAIN runs) + 1 |->
                IF r \in DOMAIN runs THEN runs[r] ELSE "running"]
  /\ UNCHANGED <<trigger, file, clock, born, state, pc, seen, found, jobs, fails>>

EndRun ==
  /\ \E r \in DOMAIN runs, s \in {"success", "failed"} :
       runs[r] = "running" /\ runs' = [runs EXCEPT ![r] = s]
  /\ UNCHANGED <<trigger, file, clock, born, state, pc, seen, found, jobs, fails>>

DeleteRun ==
  /\ Deletes
  /\ \E r \in DOMAIN runs :
       runs[r] \in {"success", "failed"} /\ runs' = [runs EXCEPT ![r] = "deleted"]
  /\ UNCHANGED <<trigger, file, clock, born, state, pc, seen, found, jobs, fails>>

-----------------------------------------------------------------------------
(* evaluate_sensor, on a copy s of the trigger's state.                    *)

Quiet(s)       == [fired |-> FALSE, event |-> 0, new |-> s]
Fires(e, s)    == [fired |-> TRUE, event |-> e, new |-> s]
FileSeen(s)    == [s EXCEPT !.mtime = file.mtime, !.size = file.size]

\* A missing file resets what was seen of it.
Forget(s) == [s EXCEPT !.mtime = 0, !.size = 0]

EvaluateExists(s) ==
  IF s.mtime > 0 THEN Quiet(s) ELSE Fires(file.born, FileSeen(s))

\* Mutant: sizes are compared instead of mtimes.
Newer_BySize(s) == file.size > s.size
Newer(s) == file.mtime > s.mtime

EvaluateNewer(s) ==
  IF ~Newer(s) \/ (trigger.check_size /\ file.size = s.size) THEN Quiet(s)
  ELSE Fires(file.mtime, FileSeen(s))

\* Only the success that started last is looked at.
Successes == {r \in DOMAIN runs : runs[r] = "success"}

Known(r, s) == r = s.run

EvaluateSuccess(s) ==
  IF Successes = {} \/ Known(Max(Successes), s) THEN Quiet(s)
  ELSE Fires(Max(Successes), [s EXCEPT !.run = Max(Successes)])

Evaluation(s) ==
  IF trigger.kind = "workflow_success" THEN EvaluateSuccess(s)
  ELSE IF file = Missing THEN Quiet(Forget(s))
  ELSE IF trigger.kind = "exists" THEN EvaluateExists(s)
  ELSE EvaluateNewer(s)

-----------------------------------------------------------------------------
(* _tick_sensors.                                                          *)

Goto(t, l) == pc' = [pc EXCEPT ![t] = l]

Read(t) ==
  /\ pc[t] = "idle"
  /\ seen' = [seen EXCEPT ![t] = state]
  /\ Goto(t, "evaluate")
  /\ UNCHANGED <<world, state, found, jobs, fails>>

Evaluate(t) ==
  /\ pc[t] = "evaluate"
  /\ found' = [found EXCEPT ![t] = Evaluation(seen[t])]
  /\ seen' = [seen EXCEPT ![t] = Never]
  /\ Goto(t, "write")
  /\ UNCHANGED <<world, state, jobs, fails>>

Write(t) ==
  /\ pc[t] = "write"
  /\ state' = found[t].new
  /\ IF found[t].fired
     THEN Goto(t, "submit") /\ UNCHANGED found
     ELSE Goto(t, "idle") /\ found' = [found EXCEPT ![t] = Nothing]
  /\ UNCHANGED <<world, seen, jobs, fails>>

Submit(t) ==
  /\ pc[t] = "submit"
  /\ jobs' = [jobs EXCEPT ![found[t].event] = @ + 1]
  /\ found' = [found EXCEPT ![t] = Nothing]
  /\ Goto(t, "idle")
  /\ UNCHANGED <<world, state, seen, fails>>

\* The exception is logged and the tick goes on.
SubmitFails(t) ==
  /\ pc[t] = "submit"
  /\ fails < MaxFails
  /\ fails' = fails + 1
  /\ found' = [found EXCEPT ![t] = Nothing]
  /\ Goto(t, "idle")
  /\ UNCHANGED <<world, state, seen, jobs>>

Tick(t) == Read(t) \/ Evaluate(t) \/ Write(t) \/ Submit(t) \/ SubmitFails(t)
Next == \/ WriteFile \/ RemoveFile \/ StartRun \/ EndRun \/ DeleteRun
        \/ \E t \in Tickers : Tick(t)

\* The interval job ticks again and again; an upstream run ends some day.
Spec == Init /\ [][Next]_vars /\ WF_vars(EndRun) /\ \A t \in Tickers : WF_vars(Tick(t))

-----------------------------------------------------------------------------
\* What the trigger remembers of the file is of one of its versions, or all of
\* it is forgotten.
TypeOK ==
  /\ clock \in 0..MaxEvents /\ born \in 0..clock
  /\ file = Missing \/ file \in [mtime : 1..clock, size : Sizes, born : {born}]
  /\ state.mtime \in 0..clock /\ state.run \in {0} \cup DOMAIN runs
  /\ state.mtime = 0 <=> state.size = 0
  /\ \A t \in Tickers : pc[t] = "submit" <=> pc[t] # "write" /\ found[t].fired

\* Each event is served by one job at most (sensors.py:5-9): an appearance or a
\* version of a file, and a success of the upstream workflow, which is served
\* again only because a later run, the one the trigger remembers, was deleted,
\* once for each.  It holds with one tick at a time.
FiresOnce == \A e \in Events : jobs[e] <=
  1 + Cardinality({r \in DOMAIN runs : r > e /\ runs[r] = "deleted"})

\* A file that stays is served in the end ("each time it lands again",
\* sensors.py:6), unless a submission failed: by a job for its last version, or
\* with check_size by one for an earlier version of its size.
Served ==
  \/ jobs[file.mtime] > 0
  \/ trigger.check_size /\ state.size = file.size /\ jobs[state.mtime] > 0
LastIsServed == trigger.kind = "newer_than" /\ file # Missing /\ fails = 0 => Served
LastFileIsServed == <>[]LastIsServed

-----------------------------------------------------------------------------
(* What the documentation says and the code does not do.                   *)

\* sensors.py:9: it fires "each time a success run of the upstream workflow
\* appears"; only the one that started last is looked at.
EverySuccessFires ==
  \A e \in Events : [](e \in Successes => <>(jobs[e] > 0))
=============================================================================
