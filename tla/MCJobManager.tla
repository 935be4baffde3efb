---------------------------- MODULE MCJobManager ----------------------------
(***************************************************************************)
(* Instances of JobManager for TLC.  One job is enough for the races of a  *)
(* client, or two, with a worker, and of their saves with each other.      *)
(* What is live is checked for a job of each kind by itself: with a        *)
(* compare job two clients submit, cancel and poll at once; a workflow is  *)
(* retried, and the kinds differ in their work and after it, for which one *)
(* client is enough.  part says which of these a behaviour is one of.      *)
(***************************************************************************)
EXTENDS JobManager, TLC

CONSTANTS j1, w1, w2, c1, c2

VARIABLE part

\* A compare task, that may be retried once.
OneJob   == {j1}
KindC    == j1 :> "compare"
RetryOne == j1 :> 1
RetryNot == j1 :> 0

ThreadSymmetry == Permutations(Workers) \cup Permutations(Clients)

RacesInit == part = "races" /\ Init
RacesNext == Next /\ UNCHANGED part
Races     == RacesInit /\ [][RacesNext]_<<vars, part>>

-----------------------------------------------------------------------------
W == INSTANCE JobManager WITH Clients <- {c1}, Kind <- (j1 :> "workflow"), MaxRetries <- RetryOne
X == INSTANCE JobManager WITH Clients <- {c1}, Kind <- (j1 :> "excel_export")

AloneInit ==
  \/ part = "compare" /\ Init
  \/ part = "workflow" /\ W!Init
  \/ part = "export" /\ X!Init

AloneNext ==
  \/ part = "compare" /\ Next /\ UNCHANGED part
  \/ part = "workflow" /\ W!Next /\ UNCHANGED part
  \/ part = "export" /\ X!Next /\ UNCHANGED part

\* The fairness of JobManager, for the threads of the part.
Persists(t) ==
  \/ part = "compare" /\ Persist(t)
  \/ part = "workflow" /\ t # c2 /\ W!Persist(t)
  \/ part = "export" /\ t # c2 /\ X!Persist(t)
Continues(t) ==
  \/ part = "compare" /\ Continue(t)
  \/ part = "workflow" /\ t # c2 /\ W!Continue(t)
  \/ part = "export" /\ t # c2 /\ X!Continue(t)
Advances ==
  \/ part = "compare" /\ Advance(w1)
  \/ part = "workflow" /\ W!Advance(w1)
  \/ part = "export" /\ X!Advance(w1)
EndsWork ==
  \/ part = "compare" /\ WorkEnds(w1)
  \/ part = "workflow" /\ W!WorkEnds(w1)
  \/ part = "export" /\ X!WorkEnds(w1)

Alone ==
  /\ AloneInit /\ [][AloneNext]_<<vars, part>>
  /\ \A t \in {w1, c1, c2} : WF_<<vars, part>>(Persists(t) /\ UNCHANGED part)
  /\ \A t \in {c1, c2} : WF_<<vars, part>>(Continues(t) /\ UNCHANGED part)
  /\ WF_<<vars, part>>(Advances /\ UNCHANGED part) /\ SF_<<vars, part>>(EndsWork /\ UNCHANGED part)

\* A cancel request that comes while a job waits is honoured, and so is one
\* that comes while a compare job works.
CancelIsHonoured == CancelWhileQueuedNeverRuns /\ (part = "compare" => CancelDuringWorkDenied)
=============================================================================
