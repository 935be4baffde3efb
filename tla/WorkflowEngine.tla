--------------------------- MODULE WorkflowEngine ---------------------------
(***************************************************************************)
(* Runs of a workflow: run_workflow in app/services/workflow_engine.py,    *)
(* called again and again by the loop of _run_workflow_job (jobs.py), with *)
(* the rerun endpoint of app/api/workflow_runs.py in front of it.          *)
(*                                                                         *)
(* One workflow, its definition edited between and during the runs.  The   *)
(* engine works on the definition it loaded, visits the nodes in the order *)
(* of Dag!OrderOf and polls cancel_check before each node.  The output of  *)
(* a node is abstracted to the number of the run that produced it, and a   *)
(* node remembers which outputs of its upstream nodes it was given.  The   *)
(* `when' of a node, its config and its runner are abstracted to the ways  *)
(* they can end.                                                           *)
(***************************************************************************)
EXTENDS Dag

CONSTANTS
  Definitions,  \* the graphs the workflow may be saved with
  MaxRuns,      \* bound: calls of run_workflow
  MaxEdits,     \* bound: saves of the workflow
  MaxRetries    \* max_retries of the job

BoundsAssumption == MaxRuns \in Nat /\ MaxEdits \in Nat /\ MaxRetries \in Nat
DefinitionsAssumption ==
  \A g \in Definitions : IsFiniteSet(NodesOf(g)) /\ NodesOf(g) \subseteq Nat \ {0}

VARIABLES
  saved, edits,       \* the stored workflow, and how often it was edited
  pc,                 \* "idle", "queued", "run" (between nodes), "node", "done"
  runNo, retries,     \* calls of run_workflow so far, retry_count of the job
  cancelRequested,    \* of the job
  resume, from,       \* resume_from and from_node_id (NoRun, 0: a full run)
  last,               \* the run persisted last
  deps, order, pos,   \* the loaded graph, execution_order, the place in it
  targets,            \* rerun_targets; every node in a full run
  status, reused, blocked,  \* of the nodes of this run
  output, given,      \* the number of the run that made each output; what
                      \* each node that ran was given by the others
  cancelled, verdict  \* of this run

request == <<saved, edits, runNo, retries, resume, from, last, deps, order, targets>>
vars == <<request, pc, cancelRequested, pos, status, reused, blocked, output,
          given, cancelled, verdict>>

Ids   == UNION {NodesOf(g) : g \in Definitions}
NoRun == [status |-> <<>>, output |-> <<>>, given |-> <<>>]
Absent(run, n) == n \notin DOMAIN run.status
PreviousStatus(run, n) == IF Absent(run, n) THEN "missing" ELSE run.status[n]

Node  == order[pos]
Here  == pc = "run" /\ pos <= Len(order)

Init ==
  /\ saved \in Definitions
  /\ edits = 0 /\ runNo = 0 /\ retries = 0
  /\ pc = "idle" /\ cancelRequested = FALSE
  /\ resume = NoRun /\ from = 0 /\ last = NoRun
  /\ deps = <<>> /\ order = <<>> /\ pos = 0 /\ targets = {}
  /\ status = <<>> /\ reused = {} /\ blocked = {}
  /\ output = <<>> /\ given = <<>>
  /\ cancelled = FALSE /\ verdict = "none"

-----------------------------------------------------------------------------
(* The clients: the workflow is edited, run, rerun from a node, cancelled. *)

\* update_workflow: ensure_workflow_node_targets rejects what cannot be sorted, but a
\* workflow saved before that check may be invalid.
Edit ==
  /\ edits < MaxEdits
  /\ saved' \in {g \in Definitions \ {saved} : Valid(g)}
  /\ edits' = edits + 1
  /\ UNCHANGED <<pc, runNo, retries, cancelRequested, resume, from, last, deps,
                 order, pos, targets, status, reused, blocked, output, given,
                 cancelled, verdict>>

\* submit_workflow_run: a new job, to be run from node f of run r.
Submit(r, f) ==
  /\ pc = "idle"
  /\ runNo + MaxRetries < MaxRuns
  /\ pc' = "queued"
  /\ resume' = r /\ from' = f
  /\ retries' = 0 /\ cancelRequested' = FALSE
  /\ UNCHANGED <<saved, edits, runNo, last, deps, order, pos, targets, status,
                 reused, blocked, output, given, cancelled, verdict>>

RequestRun == Submit(NoRun, 0)

\* The endpoint's check: every ancestor succeeded in the run to resume.
CanRerun(f) == \A a \in Ancestors(saved, f) : PreviousStatus(last, a) = "success"

RequestRerun ==
  /\ last # NoRun
  /\ \E f \in NodesOf(saved) : CanRerun(f) /\ Submit(last, f)

RequestCancel ==
  /\ pc \in {"queued", "run", "node"}
  /\ cancelRequested' = TRUE
  /\ UNCHANGED <<request, pc, pos, status, reused, blocked, output, given,
                 cancelled, verdict>>

-----------------------------------------------------------------------------
(* run_workflow.                                                           *)

\* The job ends without a run when the cancel came first.
GiveUp ==
  /\ pc = "queued"
  /\ cancelRequested
  /\ pc' = "idle"
  /\ UNCHANGED <<request, cancelRequested, pos, status, reused, blocked, output,
                 given, cancelled, verdict>>

\* Up to the loop: the stored workflow is loaded and sorted; one that cannot
\* be sorted, and a node to rerun from that an edit has removed, fail the run.
Loadable == Valid(saved) /\ (from = 0 \/ from \in NodesOf(saved))

Load ==
  /\ pc = "queued"
  /\ ~cancelRequested
  /\ runNo < MaxRuns
  /\ runNo' = runNo + 1
  /\ deps' = saved /\ pos' = 1
  /\ reused' = {} /\ blocked' = {} /\ cancelled' = FALSE
  /\ output' = [n \in NodesOf(saved) |-> 0]
  /\ given' = [n \in NodesOf(saved) |-> <<>>]
  /\ IF Loadable
     THEN /\ status' = [n \in NodesOf(saved) |-> "pending"]
          /\ order' = OrderOf(saved)
          /\ targets' = IF from = 0 THEN NodesOf(saved) ELSE Descendants(saved, from)
          /\ verdict' = "running" /\ pc' = "run"
     ELSE /\ status' = [n \in NodesOf(saved) |-> "skipped"]
          /\ order' = <<>> /\ targets' = {}
          /\ verdict' = "failed" /\ pc' = "done"
  /\ UNCHANGED <<saved, edits, retries, cancelRequested, resume, from, last>>

\* The loop goes to the next node; only a failure blocks the downstream nodes.
Leave(n, end, blocks) ==
  /\ status' = [status EXCEPT ![n] = end]
  /\ blocked' = IF blocks THEN blocked \cup {n} ELSE blocked
  /\ pos' = pos + 1
  /\ pc' = "run"
  /\ UNCHANGED <<request, cancelRequested, verdict>>

\* Mutant: a rerun visits every node anew.
Reusing_Never(n) == FALSE
Reusing(n) == n \notin targets

Reusable(n) == PreviousStatus(resume, n) = "success"

Reuse ==
  /\ Here
  /\ Reusing(Node)
  /\ IF Reusable(Node)
     THEN /\ Leave(Node, "success", FALSE)
          /\ reused' = reused \cup {Node}
          /\ output' = [output EXCEPT ![Node] = resume.output[Node]]
          /\ given' = [given EXCEPT ![Node] = resume.given[Node]]
     ELSE /\ Leave(Node, "failed", TRUE)
          /\ UNCHANGED <<reused, output, given>>
  /\ UNCHANGED cancelled

Blocked(n) == deps[n] \cap blocked # {}

SkipBlocked ==
  /\ Here
  /\ ~Reusing(Node) /\ Blocked(Node)
  /\ Leave(Node, "skipped", TRUE)
  /\ UNCHANGED <<reused, output, given, cancelled>>

Runnable == Here /\ ~Reusing(Node) /\ ~Blocked(Node)

SkipCancelled ==
  /\ Runnable
  /\ cancelRequested
  /\ Leave(Node, "skipped", TRUE)
  /\ cancelled' = TRUE
  /\ UNCHANGED <<reused, output, given>>

\* No runner, a `when' that cannot be evaluated, an unresolved variable.
FailEarly ==
  /\ Runnable
  /\ ~cancelRequested
  /\ Leave(Node, "failed", TRUE)
  /\ UNCHANGED <<reused, output, given, cancelled>>

\* `when' is false: the node is skipped and blocks nothing.
SkipByWhen ==
  /\ Runnable
  /\ ~cancelRequested
  /\ Leave(Node, "skipped", FALSE)
  /\ UNCHANGED <<reused, output, given, cancelled>>

Start ==
  /\ Runnable
  /\ ~cancelRequested
  /\ status' = [status EXCEPT ![Node] = "running"]
  /\ given' = [given EXCEPT ![Node] = [d \in deps[Node] |-> output[d]]]
  /\ pc' = "node"
  /\ UNCHANGED <<request, cancelRequested, pos, reused, blocked, output,
                 cancelled, verdict>>

\* The runner returns or raises.
Succeed ==
  /\ pc = "node"
  /\ output' = [output EXCEPT ![Node] = runNo]
  /\ Leave(Node, "success", FALSE)
  /\ UNCHANGED <<reused, given, cancelled>>

Fail ==
  /\ pc = "node"
  /\ Leave(Node, "failed", TRUE)
  /\ UNCHANGED <<reused, output, given, cancelled>>

Verdict == IF cancelled THEN "cancelled"
           ELSE IF \E n \in NodesOf(deps) : status[n] = "failed" THEN "failed"
           ELSE "success"

Finish ==
  /\ pc = "run" /\ pos > Len(order)
  /\ verdict' = Verdict
  /\ pc' = "done"
  /\ UNCHANGED <<request, cancelRequested, pos, status, reused, blocked, output,
                 given, cancelled>>

\* An exception that neither evaluate_when's nor _interpolate's handler names
\* (an unknown filter, a comparison of a string and a number) leaves
\* run_workflow: there is no run to persist.
Escape ==
  /\ Runnable
  /\ ~cancelRequested
  /\ verdict' = "raised"
  /\ pc' = "done"
  /\ UNCHANGED <<request, cancelRequested, pos, status, reused, blocked, output,
                 given, cancelled>>

-----------------------------------------------------------------------------
(* _run_workflow_job: the run is persisted, and the job retries or ends; what   *)
(* run_workflow kept is gone.                                              *)

Retries == verdict \in {"failed", "raised"} /\ retries < MaxRetries /\ ~cancelRequested

EndRun ==
  /\ pc = "done"
  /\ last' = IF verdict = "raised" THEN last
             ELSE [status |-> status, output |-> output, given |-> given]
  /\ IF Retries
     THEN retries' = retries + 1 /\ pc' = "queued"
     ELSE pc' = "idle" /\ UNCHANGED retries
  /\ deps' = <<>> /\ order' = <<>> /\ pos' = 0 /\ targets' = {}
  /\ status' = <<>> /\ reused' = {} /\ blocked' = {}
  /\ output' = <<>> /\ given' = <<>>
  /\ cancelled' = FALSE /\ verdict' = "none"
  /\ UNCHANGED <<saved, edits, runNo, cancelRequested, resume, from>>

Engine == \/ GiveUp \/ Load \/ Reuse \/ SkipBlocked \/ SkipCancelled \/ FailEarly
          \/ SkipByWhen \/ Start \/ Succeed \/ Fail \/ Finish \/ Escape \/ EndRun
Next == Edit \/ RequestRun \/ RequestRerun \/ RequestCancel \/ Engine

Spec == Init /\ [][Next]_vars

-----------------------------------------------------------------------------
Settled == {"success", "failed", "skipped"}
TypeOK ==
  /\ saved \in Definitions /\ deps \in Definitions \cup {<<>>}
  /\ runNo \in 0..MaxRuns /\ retries \in 0..MaxRetries /\ edits \in 0..MaxEdits
  /\ pc \in {"idle", "queued", "run", "node", "done"}
  /\ status \in [NodesOf(deps) -> Settled \cup {"pending", "running"}]
  /\ output \in [NodesOf(deps) -> 0..MaxRuns]
  /\ reused \cup blocked \subseteq NodesOf(deps)
  /\ from \in Ids \cup {0}
  /\ cancelRequested \in BOOLEAN /\ cancelled \in BOOLEAN
  /\ verdict \in {"none", "running", "success", "failed", "cancelled", "raised"}

Ended   == pc = "done" /\ verdict # "raised"
Partial == from \in NodesOf(deps)
SkippedByWhen(n) == status[n] = "skipped" /\ n \notin blocked

\* A node runs only on settled inputs: each upstream node succeeded, in this
\* run or in the one it resumes, or was skipped by its own `when'; and in a
\* full run nothing upstream, however far, has failed.
NoInputFromFailure == pc = "node" =>
  /\ \A d \in deps[Node] : status[d] = "success" \/ SkippedByWhen(d)
  /\ from = 0 => \A a \in Ancestors(deps, Node) : status[a] # "failed"

\* A rerun executes the chosen node and what depends on it, nothing else, and
\* keeps no old output of those.
RerunScope == Partial =>
  /\ pc = "node" => from \in {Node} \cup Ancestors(deps, Node)
  /\ \A n \in reused : from \notin {n} \cup Ancestors(deps, n)

\* However runs and reruns are chained, a run that ended is consistent: what a
\* successful node was given by an upstream node is the output the run shows
\* for that node.  (While the workflow is not edited: an edit adds inputs to
\* nodes whose outputs a rerun then reuses.)
OutputsAreConsistent == Ended /\ edits = 0 =>
  \A n \in NodesOf(deps) : status[n] = "success" =>
    /\ output[n] \in 1..runNo
    /\ \A d \in deps[n] : status[d] = "success" => given[n][d] = output[d]

\* The endpoint's check does its job while the workflow is not edited after
\* it: a rerun that was accepted is never stopped before its own node by
\* something upstream.
RerunReachesItsNode == Ended /\ edits = 0 /\ Partial /\ ~cancelled =>
  (status[from] = "skipped" => from \notin blocked)

\* A run is reported a success only if every node has an output or was left
\* out by its own `when', and a failure only if some node failed.  Branches are
\* independent: without a cancel, a node is blocked only by a failure upstream.
VerdictMeansDone == Ended =>
  /\ verdict = "success" =>
       \A n \in NodesOf(deps) : status[n] = "success" \/ SkippedByWhen(n)
  /\ verdict = "failed" /\ pos > 1 => \E n \in NodesOf(deps) : status[n] = "failed"
  /\ ~cancelled /\ pos > 1 => \A n \in NodesOf(deps) :
       status[n] = "skipped" /\ n \in blocked =>
         \E a \in Ancestors(deps, n) : status[a] = "failed"

-----------------------------------------------------------------------------
(* What the documentation says and the engine does not do.                 *)

\* workflow_engine.py:7-8: "a node whose upstream is FAILED or SKIPPED is
\* itself SKIPPED (transitively)".
SkipsCascade == Ended =>
  \A n \in NodesOf(deps) :
    (\E d \in deps[n] : status[d] \in {"failed", "skipped"}) => status[n] = "skipped"

\* workflow_engine.py:8: "Unrelated branches continue."
UnrelatedBranchesContinue == pc = "done" /\ ~cancelRequested =>
  \A n \in NodesOf(deps) : status[n] = "pending" =>
    \E a \in {n} \cup Ancestors(deps, n) : status[a] = "failed"

\* workflow_engine.py:8-9: "The whole run is FAILED if any node ended FAILED,
\* or if cancel was requested."
CancelFailsTheRun == Ended /\ cancelRequested => verdict # "success"

\* workflow_engine.py:142-143: the nodes outside a rerun "inherit the previous
\* run's outputs (status=success, reused=True)", provided every ancestor of
\* the chosen node had succeeded.
OthersInherit == Ended /\ Partial =>
  \A n \in NodesOf(deps) \ targets : status[n] = "success" /\ n \in reused
=============================================================================
