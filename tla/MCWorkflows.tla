----------------------------- MODULE MCWorkflows -----------------------------
(***************************************************************************)
(* The modules of workflows, of comparisons and of the test scenarios made *)
(* for them, side by side, with small values of their constants.  They     *)
(* share no state: part says which of them a behaviour is one of.  The     *)
(* workflow engine, the sort and a comparison have variables of their own  *)
(* here; x1, x2, ... are those of the others.                              *)
(***************************************************************************)
EXTENDS WorkflowEngine, TLC

CONSTANTS
  Graphs,            \* of the sort
  Values, Alike,     \* of the comparisons
  Sources, Targets,
  Batch, CheckEvery

VARIABLES
  part,
  graph, inDegree, ready, sorted, answer,           \* of the sort
  streaming, source, target, left, right, emitted,  \* of a comparison, with pc and verdict
  engine, format, index, buffer, count, closing, dir, opened, lost, disk, meta, deleted,
  x1, x2, x3, x4, x5, x6, x7, x8, x9, x10, x11, x12

sortVars    == <<graph, inDegree, ready, sorted, answer>>
sharedVars  == <<pc, verdict>>
engineOnly  == <<request, cancelRequested, pos, status, reused, blocked, output, given, cancelled>>
compareOnly == <<streaming, source, target, left, right, emitted, engine, format, index, buffer, count,
                 closing, dir, opened, lost, disk, meta, deleted>>
After8      == <<x9, x10, x11, x12>>
After7      == <<x8, After8>>
After4      == <<x5, x6, x7, After7>>
others      == <<x1, x2, x3, x4, After4>>
named       == <<sharedVars, engineOnly, sortVars, compareOnly>>
suiteVars   == <<part, named, others>>

\* Every graph of at most three nodes, with self-references, cycles and
\* unknown nodes, and the graphs of four nodes with at most one upstream node
\* each, two for the first and the last.
AtMost(k) == UNION {kSubset(m, 1..4) : m \in 0..k}
SmallGraphs ==
  UNION {[S -> SUBSET (1..3)] : S \in SUBSET (1..3)} \union
  {f \in [1..4 -> AtMost(2)] : \A n \in 2..3 : Cardinality(f[n]) <= 1}
Sort == INSTANCE TopologicalSort WITH g <- graph, order <- sorted, verdict <- answer

\* A join, a chain, an edge and a cycle that was stored before the check on
\* saving, between which edits move edges, remove a node or close the cycle.
SmallDefinitions ==
  {<<{}, {}, {1, 2}>>, <<{}, {1}, {2}>>, <<{3}, {1}, {2}>>, [n \in {1, 3} |-> IF n = 1 THEN {} ELSE {1}]}

\* Sides of up to two rows, in any order and with duplicates, and some of
\* three; a source has one value, a target the same one, one within the
\* tolerance, or another.
Some(k, v) == [key |-> k, value |-> v]
Upto(n, S) == UNION {[1..m -> S] : m \in 0..n}
WithinTolerance == {<<"a", "a">>, <<"a", "a+">>}
SmallSources == Upto(2, {Some(k, "a") : k \in 1..3}) \union {<<Some(1, "a"), Some(2, "a"), Some(3, "a")>>}
SmallTargets ==
  Upto(1, {Some(k, v) : k \in 1..3, v \in {"a", "a+", "b"}}) \union
  Upto(2, {Some(k, "a") : k \in 1..3}) \union
  {<<Some(1, "a+"), Some(2, "b")>>, <<Some(1, "b"), Some(3, "b")>>,
   <<Some(1, "b"), Some(2, "b"), Some(3, "b")>>, <<Some(1, "a"), Some(2, "a"), Some(3, "a+")>>}
C == INSTANCE CompareRun WITH i <- left, j <- right

\* Three tables, one of which refers to a table declared after it, one empty
\* or derived or not; a chain of derived tables in the wrong order; and a
\* cycle, which is not accepted.  No anomaly, one, or two of one table.
Table(name, rows, derives, fk) == [name |-> name, rows |-> rows, derives |-> derives, fk |-> fk]
TableSets ==
  {<<Table("b", 2, "", "a"), Table("a", n, "", ""), Table("c", m, d, "")>> : n \in {0, 2}, m \in 0..2, d \in {"", "a"}}
  \union {<<Table("c", 0, "b", ""), Table("b", 2, "a", ""), Table("a", 2, "", "")>>,
        <<Table("a", 2, "", "b"), Table("b", 2, "", "a")>>}
Anomalies ==
  [kind : {"missing_rows", "extra_rows", "value_drift", "null_drift", "duplicate_pk", "type_mismatch"},
   table : {"a", "c"}, count : {1}]
Data == INSTANCE ScenarioData WITH
       Scenarios <- [tables : TableSets,
                     anomalies : {<<>>} \union {<<a>> : a \in Anomalies}
                                 \union {<<a, b>> : a, b \in {x \in Anomalies : x.table = "a"}}],
       scenario <- x1, mode <- x2, todo <- x3, faults <- x4, data <- x5, pool <- x6, db <- x7

\* The scenario that is shipped: all of its anomalies are in a derived table.
Shipped == INSTANCE ScenarioData WITH
       Scenarios <- {[tables |-> <<Table("a", 2, "", ""), Table("c", 0, "a", "")>>,
                      anomalies |-> <<[kind |-> k, table |-> "c", count |-> 1]>>] : k \in {"missing_rows", "extra_rows", "duplicate_pk"}},
       scenario <- x1, mode <- x2, todo <- x3, faults <- x4, data <- x5, pool <- x6, db <- x7

\* A workload that expects so many differences.
Workload(name, want) ==
  [recorded |-> name, verified |-> name, complete |-> TRUE, expects |-> TRUE, tol |-> 0, pct |-> 10, want |-> want]
Running == INSTANCE ScenarioRun WITH
       Requests <- {"r", "s"}, Kinds <- {"all", "verify"}, Workloads <- <<Workload("v", 10), Workload("w", 0)>>, MaxRuns <- 2,
       kind <- x1, at <- x2, todo <- x3, db <- x4, tasks <- x5, runs <- x6, mine <- x7, seen <- x8, verdict <- x9,
       ok <- x10, alone <- x11, lost <- x12

Store == INSTANCE ScenarioStore WITH
       Ids <- {"a", "b"}, Editors <- {"e", "f"}, MaxSaves <- 4, file <- x1, at <- x2, lost <- x3, saves <- x4

\* Columns to fill, with values, that are not drawn, of a derived table, of
\* text, and with a distribution; calls for some of them.
Column(r, n, v, d) == [realistic |-> r, numeric |-> n, values |-> v, dist |-> d]
Fill == INSTANCE ScenarioFill WITH
       Tables <- <<<<Column(TRUE, TRUE, FALSE, FALSE), Column(TRUE, TRUE, TRUE, FALSE), Column(FALSE, TRUE, FALSE, FALSE)>>,
                   <<Column(TRUE, TRUE, FALSE, FALSE)>>,
                   <<Column(TRUE, FALSE, FALSE, FALSE), Column(TRUE, TRUE, FALSE, TRUE)>>>>,
       Derived <- {2}, Described <- {1}, MaxCalls <- 4,
       scope <- x1, provider <- x2, t <- x3, p <- x4, c <- x5, calls <- x6, filled <- x7, described <- x8

-----------------------------------------------------------------------------
\* The variables a part does not use.
NoSort == graph = 0 /\ inDegree = 0 /\ ready = 0 /\ sorted = 0 /\ answer = 0
NoPlace == pc = 0 /\ verdict = 0
NoEngine ==
  /\ saved = 0 /\ edits = 0 /\ runNo = 0 /\ retries = 0 /\ resume = 0 /\ from = 0 /\ last = 0 /\ deps = 0
  /\ order = 0 /\ targets = 0 /\ cancelRequested = 0 /\ pos = 0 /\ status = 0 /\ reused = 0 /\ blocked = 0
  /\ output = 0 /\ given = 0 /\ cancelled = 0
NoCompare ==
  /\ streaming = 0 /\ source = 0 /\ target = 0 /\ left = 0 /\ right = 0 /\ emitted = 0 /\ engine = 0
  /\ format = 0 /\ index = 0 /\ buffer = 0 /\ count = 0 /\ closing = 0 /\ dir = 0 /\ opened = 0 /\ lost = 0
  /\ disk = 0 /\ meta = 0 /\ deleted = 0
NoNamed == NoSort /\ NoPlace /\ NoEngine /\ NoCompare
Unused(n) ==
  /\ n < 4 => x1 = 0 /\ x2 = 0 /\ x3 = 0 /\ x4 = 0
  /\ n < 7 => x5 = 0 /\ x6 = 0 /\ x7 = 0
  /\ n < 8 => x8 = 0
  /\ n < 12 => x9 = 0 /\ x10 = 0 /\ x11 = 0 /\ x12 = 0

SuiteInit ==
  \/ part = "sort" /\ Sort!Init /\ NoPlace /\ NoEngine /\ NoCompare /\ Unused(0)
  \/ part = "engine" /\ Init /\ NoSort /\ NoCompare /\ Unused(0)
  \/ part = "compare" /\ C!Init /\ NoSort /\ NoEngine /\ Unused(0)
  \/ part = "data" /\ Data!Init /\ NoNamed /\ Unused(7)
  \/ part = "shipped" /\ Shipped!Init /\ NoNamed /\ Unused(7)
  \/ part = "run" /\ Running!Init /\ NoNamed /\ Unused(12)
  \/ part = "store" /\ Store!Init /\ NoNamed /\ Unused(4)
  \/ part = "fill" /\ Fill!Init /\ NoNamed /\ Unused(8)

SuiteNext ==
  \/ part = "sort" /\ Sort!Next /\ UNCHANGED <<part, sharedVars, engineOnly, compareOnly, others>>
  \/ part = "engine" /\ Next /\ UNCHANGED <<part, sortVars, compareOnly, others>>
  \/ part = "compare" /\ C!Next /\ UNCHANGED <<part, sortVars, engineOnly, others>>
  \/ part = "data" /\ Data!Next /\ UNCHANGED <<part, named, After7>>
  \/ part = "shipped" /\ Shipped!Next /\ UNCHANGED <<part, named, After7>>
  \/ part = "run" /\ Running!Next /\ UNCHANGED <<part, named>>
  \/ part = "store" /\ Store!Next /\ UNCHANGED <<part, named, After4>>
  \/ part = "fill" /\ Fill!Next /\ UNCHANGED <<part, named, After8>>

SuiteSpec == SuiteInit /\ [][SuiteNext]_suiteVars

ASSUME SuiteAssumption ==
  /\ Sort!GraphsAssumption
  /\ BoundsAssumption /\ DefinitionsAssumption
  /\ C!BoundsAssumption /\ C!ValuesAssumption /\ C!RowsAssumption
  /\ Store!IdsAssumption

-----------------------------------------------------------------------------
\* The sort accepts the acyclic, well-formed graphs and puts every node after
\* its upstream nodes; what is up and downstream of a node is the least
\* closed set.
GraphsAreRight == part = "sort" => Sort!SortIsRight /\ Sort!ReachIsLeast

\* Nodes run on settled inputs only, a rerun reaches its node and touches
\* what is downstream of it and nothing else, the outputs of a run fit
\* together, and a run succeeds only when all of it is done.
RunsAreSound == part = "engine" =>
  /\ NoInputFromFailure /\ VerdictMeansDone
  /\ RerunScope /\ RerunReachesItsNode /\ OutputsAreConsistent

\* Both ways of comparing give what the definition of a comparison gives, or
\* refuse what they must.
EventsAreReference == part = "compare" => C!EventsAreReference

\* A result that the history lists is complete, and the index of the runs
\* agrees with the files.
ResultsAreWhole == part = "compare" => C!ListedIsComplete /\ C!IndexMatchesDisk

\* The summary in a stored result counts its rows.
SummaryIsFilled == part = "compare" => C!SummaryIsFilled

\* The tables that are made are those the scenario declares, in either mode.
DataIsAsDeclared == part = "data" => Data!DataIsAsDeclared

\* Streaming the scenario that is shipped makes the same tables as in memory.
StreamingIsEquivalent == part = "shipped" => Shipped!StreamingIsEquivalent

\* A request that no other met judges the results its own tasks gave of its own
\* tables, not those of earlier requests under the same names.
ChecksAreOwn == part = "run" => Running!ChecksItsOwn

\* What users wrote is kept: a scenario saved last is the one that is found,
\* and filling a scenario leaves what it gives as it is.
WhatIsGivenIsKept ==
  /\ part = "store" => Store!SavedIsFound
  /\ part = "fill" => Fill!FillKeepsWhatIsGiven
=============================================================================
