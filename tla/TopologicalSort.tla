-------------------------- MODULE TopologicalSort --------------------------
(***************************************************************************)
(* The loop of topological_order in app/services/workflow_engine.py, which *)
(* decides whether a workflow can be saved (api/_shared.py) and in which   *)
(* order run_workflow visits its nodes.  `ready' is kept sorted by         *)
(* bisect.insort and popped at its head: it is a set whose minimum is      *)
(* taken.                                                                  *)
(***************************************************************************)
EXTENDS Dag

CONSTANT Graphs  \* the graphs to sort

GraphsAssumption == \A d \in Graphs : IsFiniteSet(NodesOf(d)) /\ NodesOf(d) \subseteq Nat \ {0}

VARIABLES g, inDegree, ready, order, verdict

vars == <<g, inDegree, ready, order, verdict>>

Placed == Places(order)

Init ==
  /\ g \in Graphs
  /\ order = <<>>
  /\ inDegree = [n \in NodesOf(g) |-> 0]
  /\ ready = {}
  /\ verdict = "counting"

\* in_degree and children are built, and malformed graphs rejected on the way.
Count ==
  /\ verdict = "counting"
  /\ IF WellFormed(g)
     THEN /\ inDegree' = [n \in NodesOf(g) |-> Cardinality(g[n])]
          /\ ready' = {n \in NodesOf(g) : g[n] = {}}
          /\ verdict' = "sorting"
     ELSE /\ verdict' = "rejected"
          /\ UNCHANGED <<inDegree, ready>>
  /\ UNCHANGED <<g, order>>

\* ready.pop(0) of a sorted list.
\* Mutant: the list was not kept sorted.
First_Unsorted(S) == Max(S)
First(S) == Min(S)

\* The children whose last upstream node was just placed.
Freed(n) == {c \in NodesOf(g) : n \in g[c] /\ inDegree[c] = 1}

Place ==
  /\ verdict = "sorting"
  /\ ready # {}
  /\ LET n == First(ready) IN
     /\ order' = Append(order, n)
     /\ inDegree' = [c \in NodesOf(g) |->
                       IF n \in g[c] THEN inDegree[c] - 1 ELSE inDegree[c]]
     /\ ready' = (ready \ {n}) \cup Freed(n)
  /\ UNCHANGED <<g, verdict>>

\* The queue is empty: a node that was never placed waits on a cycle.
Complete == Len(order) = Cardinality(NodesOf(g))

Conclude ==
  /\ verdict = "sorting"
  /\ ready = {}
  /\ verdict' = IF Complete THEN "accepted" ELSE "rejected"
  /\ UNCHANGED <<g, inDegree, ready, order>>

Next == Count \/ Place \/ Conclude
Spec == Init /\ [][Next]_vars

TypeOK ==
  /\ g \in Graphs
  /\ inDegree \in [NodesOf(g) -> Nat]
  /\ ready \subseteq NodesOf(g)
  /\ order \in Seq(NodesOf(g))
  /\ verdict \in {"counting", "sorting", "accepted", "rejected"}

\* The loop's invariant: no node is placed twice or before a node it depends
\* on, in_degree counts the upstream nodes not yet placed, and ready holds
\* the nodes whose count reached zero.
LoopInvariant ==
  /\ TypeOK
  /\ \A i, j \in 1..Len(order) : order[j] \in g[order[i]] => j < i
  /\ Cardinality(Placed) = Len(order)
  /\ verdict = "sorting" =>
       /\ \A n \in NodesOf(g) : inDegree[n] = Cardinality(g[n] \ Placed)
       /\ ready = {n \in NodesOf(g) \ Placed : inDegree[n] = 0}

\* A graph is rejected exactly when it names an unknown node or has a cycle,
\* and the order of any other is the deterministic one that the documentation
\* promises: of the nodes that are ready, the smallest array index runs first.
SortIsRight ==
  /\ verdict = "accepted" => Valid(g) /\ order = OrderOf(g)
  /\ verdict = "rejected" => ~Valid(g)

\* The two reachability helpers agree with the relation they compute: the
\* least sets closed under "child of" and "parent of".
ReachIsLeast == verdict = "accepted" =>
  \A s \in NodesOf(g) :
    /\ Descendants(g, s) =
         {n \in NodesOf(g) : \A S \in SUBSET NodesOf(g) :
            (s \in S /\ \A m \in S : Children(g)[m] \subseteq S) => n \in S}
    /\ Ancestors(g, s) =
         UNION {g[n] : n \in {m \in NodesOf(g) : s \in Descendants(g, m)}}
=============================================================================
