----------------------------- MODULE LineageGraph -----------------------------
(***************************************************************************)
(* What is looked up in recorded lineage: the part of the graph of tables  *)
(* around an asset (lineage_graph_query, lineage_index), the chain of      *)
(* columns up or down from one (assets), and how often a column is read    *)
(* and written.                                                            *)
(*                                                                         *)
(* Lineage is a sequence of mappings of one column each: into a table,     *)
(* from some tables, by a reference that may name its table.  A table has  *)
(* one column, which stands under the table's name.                        *)
(***************************************************************************)
EXTENDS Naturals, Sequences, FiniteSets, SequencesExt, FiniteSetsExt, Functions

CONSTANTS
  Mappings,     \* [target, tables, ref] a run may record; ref is "" or a table
  MaxMappings,  \* bound on their number
  Asset, MaxDepth, MaxNodes  \* what is asked for: from here, up to so deep, up to so many

VARIABLE mappings

Init == mappings = <<>>
AddMapping(m) == Len(mappings) < MaxMappings /\ mappings' = Append(mappings, m)
Next == \E m \in Mappings : AddMapping(m)
Spec == Init /\ [][Next]_mappings

-----------------------------------------------------------------------------
(* The graph of tables: every edge once, in the order it was first seen.   *)

EdgesOf(m) == [i \in 1..Cardinality(m.tables) |-> <<SetToSeq(m.tables)[i], m.target>>]
TableEdges == FoldLeft(LAMBDA edges, e : IF Contains(edges, e) THEN edges ELSE Append(edges, e),
                       <<>>, FlattenSeq([i \in DOMAIN mappings |-> EdgesOf(mappings[i])]))

\* Mutant: one step too far.
Enough_OneMore(d, depth) == d > depth
Enough(d, depth) == d >= depth

\* An edge is kept even where the table it leads to is one too many.
Follow(st, e, neighbour, d, most) ==
  IF st.truncated \/ Contains(st.edges, e) THEN st
  ELSE LET kept == [st EXCEPT !.edges = Append(@, e)] IN
       IF neighbour \in st.visited THEN kept
       ELSE IF Cardinality(st.visited) >= most THEN [kept EXCEPT !.truncated = TRUE]
       ELSE [kept EXCEPT !.visited = @ \cup {neighbour}, !.queue = Append(@, <<neighbour, d + 1>>)]

\* One turn of the loop: a table that is near enough is looked at.
Turn(st, direction, depth, most) ==
  LET node == Head(st.queue)[1]
      d == Head(st.queue)[2]
      popped == [st EXCEPT !.queue = Tail(@)]
      down == FoldLeft(LAMBDA s, e : IF e[1] = node THEN Follow(s, e, e[2], d, most) ELSE s, popped,
                       IF direction = "upstream" THEN <<>> ELSE TableEdges)
      up == FoldLeft(LAMBDA s, e : IF e[2] = node THEN Follow(s, e, e[1], d, most) ELSE s, down,
                     IF direction = "downstream" THEN <<>> ELSE TableEdges)
  IN IF st.truncated \/ st.queue = <<>> THEN st ELSE IF Enough(d, depth) THEN popped ELSE up

\* A table has its turn once, and there are no more of them than most.
bfs_subgraph(direction, depth, most) ==
  LET walk[k \in Nat] == IF k = 0 THEN [queue |-> <<<<Asset, 0>>>>, visited |-> {Asset}, edges |-> <<>>, truncated |-> FALSE]
                         ELSE Turn(walk[k - 1], direction, depth, most)
  IN walk[most]

-----------------------------------------------------------------------------
(* The chains of columns.                                                  *)

\* A reference without a table is of the only one there is.
ColumnSource(m) ==
  IF m.ref # "" THEN m.ref ELSE IF Cardinality(m.tables) = 1 THEN CHOOSE t \in m.tables : TRUE ELSE ""
Recorded(from, to) == {i \in DOMAIN mappings : mappings[i].target = to /\ ColumnSource(mappings[i]) = from}
Weight(from, to) == IF from = to THEN 0 ELSE Cardinality(Recorded(from, to))
Columns == UNION {{mappings[i].target, ColumnSource(mappings[i])} : i \in DOMAIN mappings} \ {""}
FirstSeen(from, to) == Min(Recorded(from, to))

Take(st, n, hop, most) ==
  IF st.truncated \/ n \in st.visited THEN st
  ELSE [st EXCEPT !.visited = @ \cup {n}, !.found = Append(@, [column |-> n, hop |-> hop + 1]),
                  !.queue = Append(@, <<n, hop + 1>>), !.truncated = Len(st.found) + 1 >= most]

\* The heaviest edge first.
Neighbours(node, up) ==
  LET W(n) == IF up THEN Weight(n, node) ELSE Weight(node, n)
      At(n) == IF up THEN FirstSeen(n, node) ELSE FirstSeen(node, n)
  IN SetToSortSeq({n \in Columns : W(n) > 0}, LAMBDA x, y : W(x) > W(y) \/ (W(x) = W(y) /\ At(x) < At(y)))

Hop(st, up, depth, most) ==
  LET node == Head(st.queue)[1]
      hop == Head(st.queue)[2]
      popped == [st EXCEPT !.queue = Tail(@)]
  IN IF st.truncated \/ st.queue = <<>> THEN st
     ELSE IF hop >= depth THEN popped
     ELSE FoldLeft(LAMBDA s, n : Take(s, n, hop, most), popped, Neighbours(node, up))

_bfs_column_chain(up, depth, most) ==
  LET chain[k \in Nat] == IF k = 0 THEN [queue |-> <<<<Asset, 0>>>>, visited |-> {Asset}, found |-> <<>>, truncated |-> FALSE]
                          ELSE Hop(chain[k - 1], up, depth, most)
  IN chain[most + 1]

-----------------------------------------------------------------------------
(* How often a column is read and written.                                 *)

\* Of several tables, a reference counts for the one it names only.
Names(m, t) == t \in m.tables /\ (Cardinality(m.tables) > 1 => m.ref = t)
Reads(t) == Cardinality({i \in DOMAIN mappings : Names(mappings[i], t)})
Written(t) == Cardinality({i \in DOMAIN mappings : mappings[i].target = t})

-----------------------------------------------------------------------------
\* What lies within so many steps of the asset.
Within(Near(_), depth) ==
  LET w[k \in 0..depth] == IF k = 0 THEN {Asset} ELSE w[k - 1] \cup UNION {Near(n) : n \in w[k - 1]} IN w[depth]

Near(direction, n) ==
  (IF direction = "upstream" THEN {} ELSE {e[2] : e \in {f \in ToSet(TableEdges) : f[1] = n}}) \cup
  (IF direction = "downstream" THEN {} ELSE {e[1] : e \in {f \in ToSet(TableEdges) : f[2] = n}})

(* The subgraph has the tables within the depth, as many as are allowed,   *)
(* and the edges of those nearer than the depth; it says so when it leaves *)
(* tables out, and then one edge may lead to a table it does not have.     *)
SubgraphIsRight ==
  \A direction \in {"upstream", "downstream", "both"}, depth \in 0..MaxDepth, most \in 1..MaxNodes :
    LET r == bfs_subgraph(direction, depth, most)
        near(k) == Within(LAMBDA n : Near(direction, n), k)
        inner == IF depth = 0 THEN {} ELSE near(depth - 1)
    IN /\ r.visited \subseteq near(depth) /\ Cardinality(r.visited) <= most
       /\ r.truncated <=> r.visited # near(depth)
       /\ ~r.truncated => ToSet(r.edges) = {e \in ToSet(TableEdges) :
                            \/ e[1] \in inner /\ direction # "upstream"
                            \/ e[2] \in inner /\ direction # "downstream"}
       /\ Cardinality({e \in ToSet(r.edges) : ~(ToSet(e) \subseteq r.visited)}) = IF r.truncated THEN 1 ELSE 0

(* A chain has the columns within the depth, each once and at its distance,*)
(* unless it was cut at the most there may be; and a column is read and    *)
(* written at least as often as chains lead from and to it.                *)
ChainsAreRight ==
  /\ \A up \in BOOLEAN, depth \in 1..MaxDepth, most \in 1..MaxNodes :
       LET r == _bfs_column_chain(up, depth, most)
           near(k) == Within(LAMBDA n : ToSet(Neighbours(n, up)), k)
       IN /\ \A i \in DOMAIN r.found : r.found[i].column \in near(r.found[i].hop) \ near(r.found[i].hop - 1)
          /\ Len(r.found) = Cardinality({r.found[i].column : i \in DOMAIN r.found})
          /\ IF r.truncated THEN Len(r.found) = most ELSE Len(r.found) = Cardinality(near(depth)) - 1
  /\ \A t \in Columns : /\ Written(t) >= MapThenSumSet(LAMBDA n : Weight(n, t), Columns)
                        /\ Reads(t) >= MapThenSumSet(LAMBDA n : Weight(t, n), Columns)
=============================================================================
