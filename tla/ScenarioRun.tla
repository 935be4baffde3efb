------------------------------ MODULE ScenarioRun ------------------------------
(***************************************************************************)
(* Requests over one test scenario and one data source: writing its        *)
(* tables, recording its comparisons as tasks, running them, and checking  *)
(* the last results against what the scenario expects (scenarios/          *)
(* orchestrator, recorder, verifier; api/scenarios).  A request that does  *)
(* it all creates new tasks under the same names each time; the check      *)
(* finds tasks by name and results by task.  Nothing keeps requests apart. *)
(* What it judges is the summary stored with a result, which is the        *)
(* placeholder of zeros and never filled (module CompareRun).              *)
(***************************************************************************)
EXTENDS Naturals, Integers, Sequences, FiniteSets, SequencesExt, FiniteSetsExt

CONSTANTS
  Requests,
  Kinds,      \* subset of {"all", "materialize", "record", "verify"}
  Workloads,  \* sequence of [recorded, verified: its name when recorded and when looked
              \* for; complete, expects: BOOLEAN; tol, pct, want: the expected count]
  MaxRuns     \* bound: results

Tables == <<"source", "target">>

VARIABLES
  kind, at, todo,  \* of a request: what it does, where it is and what is left there
  db,              \* table to the request that wrote it
  tasks,           \* recorded tasks in the order of the store
  runs,            \* results, in the order they started: [task, source, target, summary]
  mine,            \* the tasks a request recorded
  seen,            \* the tasks a check has read
  verdict,         \* of a request: workload to [status, run]
  ok,              \* of a request: what it reports
  alone, lost      \* requests no other met so far; requests that could not record a task
vars == <<kind, at, todo, db, tasks, runs, mine, seen, verdict, ok, alone, lost>>

Active(r) == at[r] \notin {"new", "done"}
Compares == SelectSeq([i \in DOMAIN Workloads |-> i], LAMBDA i : Workloads[i].complete)

Goto(r, phase, work) == at' = [at EXCEPT ![r] = phase] /\ todo' = [todo EXCEPT ![r] = work]

Begin(r) ==
  /\ at[r] = "new"
  /\ \E k \in Kinds :
       /\ kind' = [kind EXCEPT ![r] = k]
       /\ CASE k \in {"all", "materialize"} -> Goto(r, "materialize", Tables) /\ UNCHANGED seen
            [] k = "record" -> Goto(r, "record", Compares) /\ UNCHANGED seen
            [] k = "verify" -> Goto(r, "verify", [i \in DOMAIN Workloads |-> i]) /\ seen' = [seen EXCEPT ![r] = tasks]
  /\ alone' = IF \E q \in Requests : Active(q) THEN {q \in alone : ~Active(q)} \ {r} ELSE alone
  /\ UNCHANGED <<db, tasks, runs, mine, verdict, ok, lost>>

\* A table is dropped, created and filled; a failure ends the request.
Materialize(r) ==
  /\ at[r] = "materialize" /\ todo[r] # <<>>
  /\ db' = [db EXCEPT ![Head(todo[r])] = r]
  /\ todo' = [todo EXCEPT ![r] = Tail(@)]
  /\ UNCHANGED <<kind, at, tasks, runs, mine, seen, verdict, ok, alone, lost>>

MaterializeFails(r) ==
  /\ at[r] = "materialize" /\ todo[r] # <<>>
  /\ Goto(r, "done", <<>>) /\ ok' = [ok EXCEPT ![r] = FALSE]
  /\ UNCHANGED <<kind, db, tasks, runs, mine, seen, verdict, alone, lost>>

Materialized(r) ==
  /\ at[r] = "materialize" /\ todo[r] = <<>>
  /\ IF kind[r] = "all" THEN Goto(r, "record", Compares) ELSE Goto(r, "done", <<>>)
  /\ UNCHANGED <<kind, db, tasks, runs, mine, seen, verdict, ok, alone, lost>>

\* A task that cannot be stored is a warning.
record_scenario(r) ==
  /\ at[r] = "record" /\ todo[r] # <<>>
  /\ \/ /\ tasks' = Append(tasks, Workloads[Head(todo[r])].recorded)
        /\ mine' = [mine EXCEPT ![r] = Append(@, Len(tasks) + 1)]
        /\ UNCHANGED lost
     \/ /\ lost' = lost \cup {r}
        /\ UNCHANGED <<tasks, mine>>
  /\ todo' = [todo EXCEPT ![r] = Tail(@)]
  /\ UNCHANGED <<kind, at, db, runs, seen, verdict, ok, alone>>

Recorded(r) ==
  /\ at[r] = "record" /\ todo[r] = <<>>
  /\ IF kind[r] = "all" THEN Goto(r, "run", mine[r]) ELSE Goto(r, "done", <<>>)
  /\ UNCHANGED <<kind, db, tasks, runs, mine, seen, verdict, ok, alone, lost>>

\* Whatever the comparison counted, the summary that is stored says 0.
Compared(task) ==
  runs' = Append(runs, [task |-> task, source |-> db["source"], target |-> db["target"], summary |-> 0])

\* One task that fails does not keep the others from running.
RunTask(r) ==
  /\ at[r] = "run" /\ todo[r] # <<>>
  /\ \/ Len(runs) < MaxRuns /\ Compared(Head(todo[r])) /\ UNCHANGED ok
     \/ ok' = [ok EXCEPT ![r] = FALSE] /\ UNCHANGED runs
  /\ todo' = [todo EXCEPT ![r] = Tail(@)]
  /\ UNCHANGED <<kind, at, db, tasks, mine, seen, verdict, alone, lost>>

AllRun(r) ==
  /\ at[r] = "run" /\ todo[r] = <<>>
  /\ Goto(r, "verify", [i \in DOMAIN Workloads |-> i])
  /\ seen' = [seen EXCEPT ![r] = tasks]
  /\ UNCHANGED <<kind, db, tasks, runs, mine, verdict, ok, alone, lost>>

\* Anyone may run a recorded task.
UserRuns ==
  /\ Len(runs) < MaxRuns
  /\ \E task \in DOMAIN tasks : Compared(task)
  /\ UNCHANGED <<kind, at, todo, db, tasks, mine, seen, verdict, ok, alone, lost>>

-----------------------------------------------------------------------------
abs(n) == IF n < 0 THEN -n ELSE n

_resolve_tolerance(w) == Max({0, w.tol, (w.want * w.pct) \div 100})

\* Mutant: the task of a name that comes first.
TasksBySuffix_First(list, name) == {t \in DOMAIN list : list[t] = name /\ \A u \in 1..(t - 1) : list[u] # name}

\* Of tasks of one name the dictionary keeps the one that comes last.
TasksBySuffix(list, name) == {t \in DOMAIN list : list[t] = name /\ \A u \in (t + 1)..Len(list) : list[u] # name}

Latest(task) == {n \in DOMAIN runs : runs[n].task = task /\ \A m \in (n + 1)..Len(runs) : runs[m].task # task}

\* Judged by the stored summary: what expects no difference passes, and what
\* expects some fails, whatever the comparison has counted.
Verdict(r, w) ==
  LET found == UNION {Latest(t) : t \in TasksBySuffix(seen[r], w.verified)}
      run == runs[CHOOSE n \in found : TRUE]
  IN CASE ~w.expects -> [status |-> "no_expected"]
       [] w.expects /\ TasksBySuffix(seen[r], w.verified) = {} -> [status |-> "no_task"]
       [] w.expects /\ TasksBySuffix(seen[r], w.verified) # {} /\ found = {} -> [status |-> "no_run"]
       [] OTHER -> [status |-> IF abs(run.summary - w.want) <= _resolve_tolerance(w) THEN "pass" ELSE "fail", run |-> run]

\* One workload that fails fails the report.
StillOk(r, v) == ok[r] /\ v.status # "fail"

verify_scenario(r) ==
  /\ at[r] = "verify" /\ todo[r] # <<>>
  /\ LET v == Verdict(r, Workloads[Head(todo[r])])
     IN /\ verdict' = [verdict EXCEPT ![r] = Append(@, v)]
        /\ ok' = [ok EXCEPT ![r] = StillOk(r, v)]
  /\ todo' = [todo EXCEPT ![r] = Tail(@)]
  /\ UNCHANGED <<kind, at, db, tasks, runs, mine, seen, alone, lost>>

Verified(r) ==
  /\ at[r] = "verify" /\ todo[r] = <<>>
  /\ Goto(r, "done", <<>>)
  /\ UNCHANGED <<kind, db, tasks, runs, mine, seen, verdict, ok, alone, lost>>

-----------------------------------------------------------------------------
Init ==
  /\ kind = [r \in Requests |-> ""] /\ at = [r \in Requests |-> "new"] /\ todo = [r \in Requests |-> <<>>]
  /\ db = [t \in ToSet(Tables) |-> ""] /\ tasks = <<>> /\ runs = <<>>
  /\ mine = [r \in Requests |-> <<>>] /\ seen = [r \in Requests |-> <<>>] /\ verdict = [r \in Requests |-> <<>>]
  /\ ok = [r \in Requests |-> TRUE] /\ alone = Requests /\ lost = {}

Step(r) ==
  \/ Begin(r) \/ Materialize(r) \/ MaterializeFails(r) \/ Materialized(r) \/ record_scenario(r)
  \/ Recorded(r) \/ RunTask(r) \/ AllRun(r) \/ verify_scenario(r) \/ Verified(r)

Next == UserRuns \/ \E r \in Requests : Step(r)

Spec == Init /\ [][Next]_vars

-----------------------------------------------------------------------------
Ended(r) == kind[r] = "all" /\ at[r] = "done"

(* A request that no other met and that could record its tasks checks, for *)
(* every workload whose name is its own, a result of a task it recorded    *)
(* itself, of two tables it wrote itself, or none where its task failed to *)
(* run: tasks and results of earlier requests under the same names do not  *)
(* stand in for it.  It reports success only if none of these failed.      *)
ChecksItsOwn ==
  \A r \in Requests : Ended(r) /\ verdict[r] # <<>> /\ r \in alone /\ r \notin lost =>
    \A i \in DOMAIN Workloads : LET w == Workloads[i]
                                   v == verdict[r][i] IN
      w.complete /\ w.expects /\ w.recorded = w.verified
        /\ (\A j \in DOMAIN Workloads \ {i} : Workloads[j].recorded # w.recorded)
      => /\ v.status \in {"pass", "fail", "no_run"}
         /\ v.status # "no_run" => v.run.task \in ToSet(mine[r]) /\ v.run.source = r /\ v.run.target = r
         /\ ok[r] => v.status = "pass"

(* A step that fails makes the report fail (the docstring at               *)
(* orchestrator.py:62): a task that could not be recorded too.             *)
FailureIsReported == \A r \in Requests : Ended(r) /\ r \in lost => ~ok[r]
=============================================================================
