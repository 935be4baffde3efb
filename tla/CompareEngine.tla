--------------------------- MODULE CompareEngine ---------------------------
(***************************************************************************)
(* app/compare/engine.py: two sequences of keyed rows are sorted into four *)
(* buckets, one event per row or pair of rows.  compare_sorted_row_events  *)
(* merges two sides that must arrive in key order; compare_rows_streaming  *)
(* indexes both sides first.  Both are generators: between an event and    *)
(* the next the caller runs, and a side that is out of order is noticed    *)
(* only when the generator is resumed.                                     *)
(*                                                                         *)
(* A row is a key and a value.  What _row_changes makes of two values,     *)
(* under the column mappings, the tolerance and the normalisations, is the *)
(* relation Alike, which need be neither symmetric nor transitive.         *)
(***************************************************************************)
EXTENDS Naturals, Sequences, FiniteSets

CONSTANTS
  Values,            \* the values of a row's columns outside the key
  Alike,             \* pairs of them between which there are no changes
  Sources, Targets   \* the sequences of rows either side may deliver

Rows == [key : Nat, value : Values]
None == "none"

ValuesAssumption == None \notin Values /\ Alike \subseteq Values \X Values
RowsAssumption   == Sources \cup Targets \subseteq Seq(Rows)

VARIABLES
  streaming,       \* stream_compare: merge instead of index
  source, target,  \* the rows of the two sides
  i, j,            \* the next row of either
  emitted,         \* the events so far
  engine           \* "idle", "compare", "yielded", "done", "failed"

input == <<streaming, source, target>>
engineVars == <<input, i, j, emitted, engine>>

Buckets == {"only_source", "only_target", "diff", "same"}
OnlySource(s) == [bucket |-> "only_source", key |-> s.key, source |-> s.value, target |-> None]
OnlyTarget(t) == [bucket |-> "only_target", key |-> t.key, source |-> None, target |-> t.value]
Pair(s, t) ==
  [bucket |-> IF <<s.value, t.value>> \in Alike THEN "same" ELSE "diff",
   key |-> s.key, source |-> s.value, target |-> t.value]

RowsOf(rows) == {rows[n] : n \in DOMAIN rows}
KeysOf(rows) == {rows[n].key : n \in DOMAIN rows}

EngineInit ==
  /\ streaming \in BOOLEAN
  /\ source \in Sources /\ target \in Targets
  /\ i = 1 /\ j = 1
  /\ emitted = <<>>
  /\ engine = "idle"

HasSource == i <= Len(source)
HasTarget == j <= Len(target)

-----------------------------------------------------------------------------
\* _index_rows refuses a side with a duplicate key.
Distinct(rows) == \A m, n \in DOMAIN rows : m # n => rows[m].key # rows[n].key

Begin ==
  /\ engine = "idle"
  /\ engine' = IF streaming \/ (Distinct(source) /\ Distinct(target))
               THEN "compare" ELSE "failed"
  /\ UNCHANGED <<input, i, j, emitted>>

Yield(e) ==
  /\ engine = "compare"
  /\ emitted' = Append(emitted, e)
  /\ engine' = "yielded"
  /\ UNCHANGED <<input, i, j>>

\* The merge: the smaller key first, and what is left of one side at the end.
MergeSource ==
  /\ streaming /\ HasSource
  /\ HasTarget => source[i].key < target[j].key
  /\ Yield(OnlySource(source[i]))

MergeTarget ==
  /\ streaming /\ HasTarget
  /\ HasSource => target[j].key < source[i].key
  /\ Yield(OnlyTarget(target[j]))

MergePair ==
  /\ streaming /\ HasSource /\ HasTarget
  /\ source[i].key = target[j].key
  /\ Yield(Pair(source[i], target[j]))

\* The index: the source rows in order, then the targets nothing was found for.
LookUp ==
  /\ ~streaming /\ HasSource
  /\ \/ /\ source[i].key \notin KeysOf(target)
        /\ Yield(OnlySource(source[i]))
     \/ \E t \in RowsOf(target) :
          t.key = source[i].key /\ Yield(Pair(source[i], t))

LookUpTarget ==
  /\ ~streaming /\ ~HasSource /\ HasTarget
  /\ target[j].key \notin KeysOf(source)
  /\ Yield(OnlyTarget(target[j]))

SkipTarget ==
  /\ engine = "compare"
  /\ ~streaming /\ ~HasSource /\ HasTarget
  /\ target[j].key \in KeysOf(source)
  /\ j' = j + 1
  /\ UNCHANGED <<input, i, emitted, engine>>

FromSource(e) == e.bucket # "only_target"
FromTarget(e) == e.bucket # "only_source"

\* Mutant: equal neighbours are in order.
InOrder_Loose(rows, n) == 1 < n /\ n <= Len(rows) => rows[n - 1].key <= rows[n].key
\* _ensure_sorted_key, for the n-th row of a side.
InOrder(rows, n) == 1 < n /\ n <= Len(rows) => rows[n - 1].key < rows[n].key

Last == emitted[Len(emitted)]

\* The generator is resumed: the next rows, and their keys.
Advance ==
  /\ engine = "yielded"
  /\ i' = IF FromSource(Last) THEN i + 1 ELSE i
  /\ j' = IF FromTarget(Last) /\ (streaming \/ ~FromSource(Last)) THEN j + 1 ELSE j
  /\ engine' = IF streaming => InOrder(source, i') /\ InOrder(target, j')
               THEN "compare" ELSE "failed"
  /\ UNCHANGED <<input, emitted>>

Finish ==
  /\ engine = "compare" /\ ~HasSource /\ ~HasTarget
  /\ engine' = "done"
  /\ UNCHANGED <<input, i, j, emitted>>

Event == MergeSource \/ MergeTarget \/ MergePair \/ LookUp \/ LookUpTarget

-----------------------------------------------------------------------------
EngineTypeOK ==
  /\ streaming \in BOOLEAN /\ source \in Sources /\ target \in Targets
  /\ i \in 1..(Len(source) + 1) /\ j \in 1..(Len(target) + 1)
  /\ emitted \in Seq([bucket : Buckets, key : Nat, source : Values \cup {None},
                      target : Values \cup {None}])
  /\ engine \in {"idle", "compare", "yielded", "done", "failed"}

\* What comparing two sides means, whatever the algorithm.
Reference ==
  {OnlySource(s) : s \in {r \in RowsOf(source) : r.key \notin KeysOf(target)}} \cup
  {OnlyTarget(t) : t \in {r \in RowsOf(target) : r.key \notin KeysOf(source)}} \cup
  {Pair(p[1], p[2]) :
     p \in {q \in RowsOf(source) \X RowsOf(target) : q[1].key = q[2].key}}

Increasing(rows) == \A m, n \in DOMAIN rows : m < n => rows[m].key < rows[n].key
Acceptable(rows) == IF streaming THEN Increasing(rows) ELSE Distinct(rows)

\* compare_sorted_row_events and compare_rows_streaming agree with the
\* definition, and so with each other: a comparison that gets to its end has
\* emitted every event of the reference and each of them once.  Sides out of
\* order (streaming) or with duplicate keys are refused, always, and no others.
EventsAreReference ==
  /\ engine = "done" =>
       /\ Acceptable(source) /\ Acceptable(target)
       /\ RowsOf(emitted) = Reference /\ Len(emitted) = Cardinality(Reference)
  /\ engine = "failed" => ~(Acceptable(source) /\ Acceptable(target))
=============================================================================
