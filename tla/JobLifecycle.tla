---------------------------- MODULE JobLifecycle ----------------------------
(***************************************************************************)
(* What app/services/jobs.py promises about a job, with no threads, locks, *)
(* futures or table: it is submitted once, worked on in at most            *)
(* MaxRetries + 1 attempts, one at a time, and gets one result, which is   *)
(* shown until its time to live is over.  Nothing works on a job that has  *)
(* a result, and at most one attempt starts after somebody asked to cancel *)
(* it.  JobManager is shown to implement this.                             *)
(***************************************************************************)
EXTENDS Naturals

CONSTANTS Jobs, MaxRetries

VARIABLES
  outcome,   \* "none" before submission, "open", then the result
  shown,     \* the jobs a caller can see
  wanted,    \* whether somebody asked to cancel
  running,   \* the jobs whose work goes on
  attempts,  \* how often their work was started
  late       \* how often after a cancel request

jobVars == <<outcome, shown, wanted, running, attempts, late>>

Results == {"success", "failed", "cancelled"}

Init ==
  /\ outcome = [j \in Jobs |-> "none"]
  /\ shown = {} /\ running = {}
  /\ wanted = [j \in Jobs |-> FALSE]
  /\ attempts = [j \in Jobs |-> 0]
  /\ late = [j \in Jobs |-> 0]

Submit(j) ==
  /\ outcome[j] = "none"
  /\ outcome' = [outcome EXCEPT ![j] = "open"]
  /\ shown' = shown \cup {j}
  /\ UNCHANGED <<wanted, running, attempts, late>>

RequestCancel(j) ==
  /\ j \in shown /\ outcome[j] = "open"
  /\ wanted' = [wanted EXCEPT ![j] = TRUE]
  /\ UNCHANGED <<outcome, shown, running, attempts, late>>

Begin(j) ==
  /\ j \in shown /\ outcome[j] = "open" /\ j \notin running
  /\ attempts[j] <= MaxRetries[j]
  /\ wanted[j] => late[j] = 0
  /\ running' = running \cup {j}
  /\ attempts' = [attempts EXCEPT ![j] = @ + 1]
  /\ late' = [late EXCEPT ![j] = IF wanted[j] THEN @ + 1 ELSE @]
  /\ UNCHANGED <<outcome, shown, wanted>>

End(j) ==
  /\ j \in running
  /\ running' = running \ {j}
  /\ UNCHANGED <<outcome, shown, wanted, attempts, late>>

\* A job cancelled before it started was never worked on.
Resolve(j, o) ==
  /\ j \in shown /\ outcome[j] = "open" /\ j \notin running
  /\ IF o = "cancelled" THEN wanted[j] ELSE attempts[j] > 0
  /\ outcome' = [outcome EXCEPT ![j] = o]
  /\ UNCHANGED <<shown, wanted, running, attempts, late>>

Forget(E) ==
  /\ \A j \in E : j \in shown /\ outcome[j] \in Results
  /\ shown' = shown \ E
  /\ UNCHANGED <<outcome, wanted, running, attempts, late>>

\* A restart stops all work and leaves no open job in sight.  What was saved
\* last may be older than what memory held: a job may be missing, an old one
\* may be back, and one that was saved without its result has failed.  No job
\* comes back as a success without having been worked on, or as cancelled
\* without a request.
Restart ==
  /\ running' = {}
  /\ \A j \in Jobs : outcome[j] = "none" => outcome'[j] = "none"
  /\ \A j \in Jobs : outcome'[j] # outcome[j] => outcome'[j] \in Results
  /\ outcome' \in [Jobs -> {"none", "open"} \cup Results]
  /\ shown' \in SUBSET {j \in Jobs : outcome'[j] \in Results}
  /\ wanted' \in [Jobs -> BOOLEAN]
  /\ \A j \in Jobs : CASE outcome'[j] = "success"   -> attempts[j] > 0
                       [] outcome'[j] = "cancelled" -> wanted'[j]
                       [] OTHER                     -> TRUE
  /\ UNCHANGED <<attempts, late>>

Next ==
  \/ \E j \in Jobs : Submit(j) \/ RequestCancel(j) \/ Begin(j) \/ End(j)
  \/ \E j \in Jobs, o \in Results : Resolve(j, o)
  \/ \E E \in SUBSET shown : Forget(E)
  \/ Restart

Spec == Init /\ [][Next]_jobVars
=============================================================================
