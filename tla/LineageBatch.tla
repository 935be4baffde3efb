---------------------------- MODULE LineageBatch ----------------------------
(***************************************************************************)
(* The lineage analysis of several scripts: the edges between tables, the  *)
(* scripts that must run before others, the order they may run in, the     *)
(* cycles among them, what a change of a table reaches, and the tables     *)
(* with more than one writer.                                              *)
(*                                                                         *)
(* Of a script that could be analysed we keep the moves of its mappings,   *)
(* from source to target table, the other tables it reads, and which of    *)
(* its targets are temporary.                                              *)
(***************************************************************************)
EXTENDS Integers, Sequences, FiniteSets, SequencesExt

CONSTANTS
  Scripts,    \* scripts: [ok, moves, other, temp]
  MaxFiles    \* bound: scripts of a batch

VARIABLE files   \* the scripts, in the order they were given
vars == <<files>>

Nodes == DOMAIN files

-----------------------------------------------------------------------------
(* Tables.                                                                 *)

Ok(f) == files[f].ok
Writes(f) == IF Ok(f) THEN {m[2] : m \in files[f].moves} ELSE {}
Reads(f) == IF Ok(f) THEN {m[1] : m \in files[f].moves} \cup files[f].other ELSE {}
Temporary == UNION {files[f].temp : f \in {g \in Nodes : Ok(g)}}

\* A table read but in no mapping conditions every table its script writes.
FieldEdges(f) == files[f].moves
ConditionEdges(f) == (Reads(f) \ {m[1] : m \in files[f].moves}) \X Writes(f)
TableEdges == UNION {FieldEdges(f) \cup ConditionEdges(f) : f \in {g \in Nodes : Ok(g)}}

\* Per target: a table that moves data there is no mere dependency.
Group(target) ==
  LET moved == {e[1] : e \in {d \in UNION {FieldEdges(f) : f \in {g \in Nodes : Ok(g)}} : d[2] = target}}
  IN [sources |-> moved, dependencies |-> {e[1] : e \in {d \in TableEdges : d[2] = target}} \ moved]

Next1(edges, S) == {e[2] : e \in {d \in edges : d[1] \in S}}

\* What the frontier reaches: breadth first, each node once.
Reach(edges, from) ==
  LET nodes == UNION {{e[1], e[2]} : e \in edges}
      reach[seen \in SUBSET nodes, frontier \in SUBSET nodes] ==
        LET new == Next1(edges, frontier) \ seen
        IN IF new = {} THEN seen ELSE reach[seen \cup new, new]
  IN reach[from, from]

\* The tables a change of a table reaches; the table itself is not among them.
Impact(t) == Reach(TableEdges, Next1(TableEdges, {t})) \ {t}

-----------------------------------------------------------------------------
(* Scripts.                                                                *)

\* Mutant: the tables a script only reads are not looked at.
ScriptEdges_FieldsOnly ==
  {e \in Nodes \X Nodes : e[1] # e[2] /\ Writes(e[1]) \cap {m[1] : m \in files[e[2]].moves} # {}}

\* A script that writes a table runs before the others that read it.
ScriptEdges == {e \in Nodes \X Nodes : e[1] # e[2] /\ Writes(e[1]) \cap Reads(e[2]) # {}}
EdgeTables(e) == Writes(e[1]) \cap Reads(e[2])

Downstream(f) == Reach(ScriptEdges, Next1(ScriptEdges, {f})) \ {f}
Upstream(f) == LET back == {<<e[2], e[1]>> : e \in ScriptEdges}
               IN Reach(back, Next1(back, {f})) \ {f}

Targets(f) == SelectSeq([i \in Nodes |-> i], LAMBDA g : <<f, g>> \in ScriptEdges)

\* Kahn's algorithm: the queue is served in order and never shortened.
TopologicalOrder ==
  LET incoming == [g \in Nodes |-> Cardinality({e \in ScriptEdges : e[2] = g})]
      serve[queue \in Seq(Nodes), i \in Nat, indegree \in [Nodes -> Int]] ==
        IF i > Len(queue) THEN queue
        ELSE LET t == Targets(queue[i])
                 left == [g \in Nodes |-> IF Contains(t, g) THEN indegree[g] - 1 ELSE indegree[g]]
             IN serve[queue \o SelectSeq(t, LAMBDA g : left[g] = 0), i + 1, left]
  IN serve[SelectSeq([i \in Nodes |-> i], LAMBDA g : incoming[g] = 0), 1, incoming]

Rotations(c) == {[i \in DOMAIN c |-> c[1 + ((i + k) % Len(c))]] : k \in 0..(Len(c) - 1)}

\* The search has met n again: the cycle, unless it was found in another rotation.
AddCycle(s, n) ==
  LET cycle == SubSeq(s.visiting, CHOOSE i \in DOMAIN s.visiting : s.visiting[i] = n, Len(s.visiting))
  IN IF Rotations(cycle) \cap s.cycles # {} THEN s ELSE [s EXCEPT !.cycles = @ \cup {cycle}]

Enter(s, n) == [s EXCEPT !.visiting = Append(@, n)]
Leave(s, n) == [s EXCEPT !.visiting = Front(@), !.visited = @ \cup {n}]

\* The depth-first search for cycles, from the nodes of a sequence in turn.
Searches == [visiting : Seq(Nodes), visited : SUBSET Nodes, cycles : SUBSET Seq(Nodes)]
Cycles ==
  LET visit[s \in Searches, nodes \in Seq(Nodes)] ==
        IF nodes = <<>> THEN s
        ELSE LET n == Head(nodes)
                 after == IF Contains(s.visiting, n) THEN AddCycle(s, n)
                          ELSE IF n \in s.visited THEN s
                          ELSE Leave(visit[Enter(s, n), Targets(n)], n)
             IN visit[after, Tail(nodes)]
  IN visit[[visiting |-> <<>>, visited |-> {}, cycles |-> {}], [i \in Nodes |-> i]].cycles

-----------------------------------------------------------------------------
(* Warnings, and the lists of the report.                                  *)

WritersOf(t) == {f \in Nodes : t \in Writes(f)}
ReadersOf(t) == {f \in Nodes : t \in Reads(f)}
AllTables == UNION {Writes(f) \cup Reads(f) : f \in Nodes}

WriteConflicts ==
  {[table |-> t, severity |-> IF ReadersOf(t) # {} THEN "high" ELSE "medium"] :
     t \in {u \in AllTables : Cardinality(WritersOf(u)) > 1}}

FinalProducts == {t \in AllTables \ Temporary : WritersOf(t) # {} /\ ReadersOf(t) = {}}
ExternalSources == {t \in AllTables \ Temporary : ReadersOf(t) # {} /\ WritersOf(t) = {}}

Inputs == {t \in AllTables : ReadersOf(t) # {} /\ WritersOf(t) = {}}
Outputs == {t \in AllTables : WritersOf(t) # {}}
PrimaryRole(t) == IF ReadersOf(t) # {} THEN "intermediate" ELSE "target"

-----------------------------------------------------------------------------
Init == files = <<>>

AddScript == Len(files) < MaxFiles /\ \E s \in Scripts : files' = Append(files, s)

Next == AddScript
Spec == Init /\ [][Next]_vars

-----------------------------------------------------------------------------
\* A path of one edge or more.
Path(edges, a, b) == b \in Reach(edges, Next1(edges, {a}))

(* The order holds every script exactly if no cycle is reported, and puts  *)
(* a script after those it depends on; a reported cycle is one; and what   *)
(* is upstream of a script has it downstream.                              *)
DagIsRight ==
  /\ Cycles = {} <=> ToSet(TopologicalOrder) = Nodes
  /\ IsInjective(TopologicalOrder)
  /\ \A i, j \in DOMAIN TopologicalOrder : <<TopologicalOrder[i], TopologicalOrder[j]>> \in ScriptEdges => i < j
  /\ \A c \in Cycles : \A i \in DOMAIN c : <<c[i], c[1 + (i % Len(c))]>> \in ScriptEdges
  /\ Cycles # {} => \E f \in Nodes : Path(ScriptEdges, f, f)
  /\ \A f, g \in Nodes : g \in Downstream(f) <=> f \in Upstream(g)

(* What a change of a table reaches is written by a script that also reads *)
(* a table reached before, so that each step of the impact is a script the *)
(* dependency edges order: if the table is written by another script than  *)
(* the one that makes the next step, the two are joined by an edge.        *)
ImpactFollowsScripts ==
  \A t \in AllTables : \A u \in Impact(t) :
    /\ u \in Outputs
    /\ \E f \in WritersOf(u) : \E r \in Reads(f) :
         /\ r = t \/ r \in Impact(t)
         /\ \A g \in WritersOf(r) : g = f \/ <<g, f>> \in ScriptEdges

(* The lists of the report agree with the edges and with the warnings: a   *)
(* source of an edge is an input or intermediate, an input that is not a   *)
(* temporary table is an external source, and a final product is written   *)
(* and read by nobody.                                                     *)
BatchIsConsistent ==
  /\ DagIsRight
  /\ ImpactFollowsScripts
  /\ \A e \in TableEdges : /\ e[1] \in Inputs \/ (e[1] \in Outputs /\ PrimaryRole(e[1]) = "intermediate")
                           /\ e[2] \in Outputs
                           /\ e[1] \in Group(e[2]).sources \cup Group(e[2]).dependencies
  /\ Inputs \ Temporary = ExternalSources
  /\ \A t \in FinalProducts : PrimaryRole(t) = "target" /\ Impact(t) = {}
  /\ \A c \in WriteConflicts : c.severity = "high" <=> PrimaryRole(c.table) = "intermediate"
=============================================================================
