-------------------------------- MODULE Dag --------------------------------
(***************************************************************************)
(* A workflow as a graph, and what app/services/workflow_engine.py derives *)
(* from it.  A graph maps the nodes that are present to the nodes named in *)
(* their depends_on.  A node is its index in the array `nodes', so that    *)
(* "the smallest array index first" is the order of the numbers; a name in *)
(* depends_on that is not in the domain is an unknown node.                *)
(***************************************************************************)
EXTENDS Naturals, Sequences, FiniteSets, FiniteSetsExt

NodesOf(g) == DOMAIN g

\* The checks made while in_degree is built: no self-reference, no unknown
\* node in depends_on.
WellFormed(g) == \A n \in NodesOf(g) : n \notin g[n] /\ g[n] \subseteq NodesOf(g)

\* A cycle is a set of nodes each of which waits for another one of the set.
Cyclic(g) == \E S \in SUBSET NodesOf(g) : S # {} /\ \A n \in S : g[n] \cap S # {}

Valid(g) == WellFormed(g) /\ ~Cyclic(g)

\* children: of each node, those that depend on it.
Children(g) == [n \in NodesOf(g) |-> {c \in NodesOf(g) : n \in g[c]}]

\* The stack of nodes to visit, a layer at a time: what is met from S by
\* going from a node n to those of next[n], in k steps and in any number.
Layers(next, S) ==
  LET reach[k \in Nat] ==
        IF k = 0 THEN S
        ELSE reach[k - 1] \cup UNION {next[n] : n \in reach[k - 1] \cap DOMAIN next}
  IN  reach
Reach(next, S) == Layers(next, S)[Cardinality(DOMAIN next)]

\* _transitive_descendants: start and every node that depends on it.
Descendants(g, start) == Reach(Children(g), {start})

\* transitive_ancestors: what start depends on, unknown nodes included.
Ancestors(g, start) == Reach(g, IF start \in NodesOf(g) THEN g[start] ELSE {})

\* The order topological_order returns for a valid graph: at each place the
\* smallest index all of whose upstream nodes come before it.  The loop that
\* computes it is in TopologicalSort.
Places(s) == {s[i] : i \in 1..Len(s)}
ReadyAfter(g, s) == {n \in NodesOf(g) \ Places(s) : g[n] \subseteq Places(s)}
Orders(g) ==
  LET first[k \in Nat] ==
        IF k = 0 THEN <<>> ELSE Append(first[k - 1], Min(ReadyAfter(g, first[k - 1])))
  IN  first
OrderOf(g) == Orders(g)[Cardinality(NodesOf(g))]
=============================================================================
