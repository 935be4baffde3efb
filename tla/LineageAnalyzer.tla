--------------------------- MODULE LineageAnalyzer ---------------------------
(***************************************************************************)
(* What the lineage analysis of one script reports: the edges between its  *)
(* tables, parsed from its statements and inferred from cursor loops,      *)
(* functions, triggers and bulk collects, and how each target is refreshed.*)
(*                                                                         *)
(* A statement is what its text says: a record of its kind, its target and *)
(* the tables in its select list and in its conditions.  Where it stands   *)
(* is apart: its line, its procedure ("" at the top level), the tables of  *)
(* the cursor loop around it (module LineageSegments).                     *)
(***************************************************************************)
EXTENDS Naturals, Sequences, FiniteSets, SequencesExt, FiniteSetsExt

CONSTANTS
  Texts,       \* statements: [dml, target, reads, conds, where, calls, into, uses]
  Places,      \* [proc, loop]: the procedure and the cursor tables
  Kind,        \* procedure to "PROCEDURE", "FUNCTION" or "TRIGGER"
  TriggerOn,   \* the table the triggers are on
  MaxLines     \* bound: statements of a script

VARIABLE script   \* a statement a line: [text, proc, loop]
vars == <<script>>

Inserts == {"INSERT", "OVERWRITE", "REPLACE", "CTAS"}
NoTable == ""

-----------------------------------------------------------------------------
(* Which statements are analysed: a text counts once, at the top level     *)
(* before the procedures; in the procedures too, a text counts once.       *)

TopLevel == {i \in DOMAIN script : script[i].proc = ""}
Segments == {i \in DOMAIN script : script[i].proc # "" /\
                ~\E j \in 1..(i - 1) : script[j].proc # "" /\ script[j].text = script[i].text}

Earlier(i, j) == \/ script[i].proc = "" /\ script[j].proc # ""
                 \/ (script[i].proc = "" <=> script[j].proc = "") /\ i < j
Analysed == {i \in TopLevel \cup Segments : script[i].text.dml # "TRUNCATE" /\
                ~\E j \in TopLevel \cup Segments : Earlier(j, i) /\ script[j].text = script[i].text}

-----------------------------------------------------------------------------
(* Table-level mappings, edges and groups.                                 *)

PhysicalTables(t) == (t.reads \cup t.conds) \ {t.target}

UpdateSources(t) == (t.reads \cup t.conds) \ {t.target}

\* The tables a statement moves data from.  A DELETE or UPDATE depends on
\* every table it names but its own; a MERGE on those of USING.
MappedSources(t) ==
  CASE t.dml \in Inserts \cup {"TEMP", "MERGE"} -> t.reads
    [] t.dml \in {"UPDATE", "DELETE"}           -> UpdateSources(t)
    [] OTHER                                    -> {}

GraphEdges ==
  UNION {{[source |-> s, target |-> script[i].text.target, line |-> i, type |-> script[i].text.dml] :
            s \in MappedSources(script[i].text)} : i \in Analysed}

Pairs(edges) == {<<e.source, e.target>> : e \in edges}

\* The first INSERT, UPDATE, MERGE or DELETE target in a text.
DmlTarget(t) == IF t.dml \in {"SELECT", "TRUNCATE", "CTAS", "TEMP"} THEN NoTable ELSE t.target

\* The pairs a builder infers, less those there is an edge for.
Inferred(pairs, type, edges) ==
  {[source |-> p[1], target |-> p[2], line |-> 0, type |-> type] : p \in {q \in pairs : q[2] # NoTable} \ Pairs(edges)}

Flow(i, sources) == sources \X {DmlTarget(script[i].text)}

CursorEdges(edges) ==
  Inferred(UNION {Flow(i, script[i].loop) : i \in Segments}, "CURSOR_LOOP_INSERT", edges)

\* The names after FROM and JOIN in a text: the target of a DELETE FROM is one
\* of them, the table a MERGE is USING is not.
_extract_cursor_select_tables(t) ==
  CASE t.dml = "DELETE" -> {t.target} \cup t.reads \cup t.conds
    [] t.dml = "MERGE"  -> t.conds
    [] OTHER            -> t.reads \cup t.conds

FunctionReads(f) ==
  UNION {_extract_cursor_select_tables(script[i].text) : i \in {j \in Segments : script[j].proc = f}}
Functions == {script[i].proc : i \in {j \in Segments : Kind[script[j].proc] = "FUNCTION"}}

UdfEdges(edges) ==
  Inferred(UNION {Flow(i, UNION {FunctionReads(f) : f \in Functions \cap script[i].text.calls}) : i \in Analysed},
           "UDF_CALL", edges)

\* Variables are filled by any procedure of the script and seen by all.
BulkTables(v) ==
  UNION {_extract_cursor_select_tables(script[i].text) : i \in {j \in Segments : script[j].text.into = v}}

BulkEdges(edges) ==
  Inferred(UNION {Flow(i, UNION {BulkTables(v) : v \in script[i].text.uses}) : i \in {j \in Segments : script[j].text.into = ""}},
           "BULK_COLLECT", edges)

TriggerEdges(edges) ==
  Inferred(UNION {Flow(i, {TriggerOn}) : i \in {j \in Segments : Kind[script[j].proc] = "TRIGGER"}}, "TRIGGER", edges)

\* Each builder sees the edges of those before it.
AllEdges ==
  LET e1 == GraphEdges
      e2 == e1 \cup CursorEdges(e1)
      e3 == e2 \cup UdfEdges(e2)
      e4 == e3 \cup BulkEdges(e3)
  IN e4 \cup TriggerEdges(e4)

\* The tables that only condition what is written to a target.
DependencyTables(target) ==
  UNION {PhysicalTables(script[i].text) \ MappedSources(script[i].text) :
           i \in {j \in Analysed : script[j].text.target = target /\ MappedSources(script[j].text) # {}}}
    \ {e.source : e \in {d \in AllEdges : d.target = target}}

-----------------------------------------------------------------------------
(* How a target is refreshed.                                              *)

\* A statement at the top level whose text a procedure has too counts there.
TopStatements == {i \in TopLevel : /\ ~\E j \in Segments : script[j].text = script[i].text
                                   /\ ~\E j \in TopLevel : j < i /\ script[j].text = script[i].text}

Op(i, order) == [order |-> order, target |-> script[i].text.target, dml |-> script[i].text.dml,
                 where |-> script[i].text.where, proc |-> script[i].proc]
Writes(i) == script[i].text.dml \notin {"SELECT", "TEMP"}

TopOps == {Op(i, Cardinality({j \in TopStatements : j <= i})) : i \in {k \in TopStatements : Writes(k)}}
\* By line; a thousand times the line, so that those of one line have room.
ProcedureOps == {Op(i, i * 1000) : i \in {k \in Segments : Writes(k)}}
OpsOf(target) == {o \in TopOps \cup ProcedureOps : o.target = target}

FollowedBy(ops, earlier, later) == \E a, b \in ops : a.dml \in earlier /\ b.dml \in later /\ a.order < b.order

\* Within a procedure, or with one of the two at the top level.
FollowedWithinScope(ops, earlier, later) ==
  \/ \E p \in {o.proc : o \in ops} \ {""} : FollowedBy({o \in ops : o.proc = p}, earlier, later)
  \/ \E a, b \in ops : a.dml \in earlier /\ b.dml \in later /\ a.order < b.order /\ "" \in {a.proc, b.proc}

Counted(ops, kinds) == Cardinality({o \in ops : o.dml \in kinds})

RefreshMode(target) ==
  LET ops == OpsOf(target)
      inserts == Counted(ops, Inserts)   updates == Counted(ops, {"UPDATE"})   merges == Counted(ops, {"MERGE"})
      deleted == FollowedWithinScope(ops, {"DELETE"}, Inserts)
  IN CASE FollowedWithinScope(ops, {"TRUNCATE"}, Inserts) -> "truncate_insert"
       [] OTHER ->
     CASE deleted /\ (\E o \in ops : o.dml = "DELETE" /\ ~o.where) -> "delete_insert"
       [] deleted /\ ~\E o \in ops : o.dml = "DELETE" /\ ~o.where -> "delete_insert_partial"
       [] OTHER ->
     CASE merges > 0 /\ inserts = 0 /\ updates = 0 -> "merge"
       [] updates > 0 /\ inserts = 0 /\ merges = 0 -> "update"
       [] inserts > 0 /\ updates = 0 /\ merges = 0 -> "append"
       [] inserts + updates + merges = 0 -> "none"
       [] OTHER -> "mixed"

-----------------------------------------------------------------------------
(* The roles of the tables and the two lists of the report.                *)

TargetSummary == {o.target : o \in TopOps \cup ProcedureOps}
ReadSet == UNION {PhysicalTables(script[i].text) \cup MappedSources(script[i].text) : i \in Analysed}
Role(t) == IF t \in TargetSummary /\ t \in ReadSet THEN "intermediate"
           ELSE IF t \in TargetSummary THEN "target" ELSE "source_fact"
Listed == ReadSet \cup TargetSummary
Outputs == {t \in Listed : t \in TargetSummary}
Inputs == Listed \ Outputs

-----------------------------------------------------------------------------
Init == script = <<>>

AddStatement ==
  /\ Len(script) < MaxLines
  /\ \E t \in Texts, p \in Places :
       script' = Append(script, [text |-> t, proc |-> p.proc, loop |-> p.loop])

Next == AddStatement
Spec == Init /\ [][Next]_vars

-----------------------------------------------------------------------------
\* No text stands twice.
EachTextOnce == \A i, j \in DOMAIN script : script[i].text = script[j].text => i = j

\* TRUNCATE or DELETE of the target on one line, INSERT on a later one.
Precedes(target, earlier, Scope(_, _)) ==
  \E i, j \in DOMAIN script :
    /\ i < j /\ script[i].text.target = target /\ script[j].text.target = target
    /\ script[i].text.dml \in earlier /\ script[j].text.dml \in Inserts /\ Scope(script[i].proc, script[j].proc)

\* The mode says that the target is emptied first, and how.
ModeAgrees(target, Scope(_, _)) ==
  /\ RefreshMode(target) = "truncate_insert" <=> Precedes(target, {"TRUNCATE"}, Scope)
  /\ RefreshMode(target) \in {"delete_insert", "delete_insert_partial"} <=>
       Precedes(target, {"DELETE"}, Scope) /\ ~Precedes(target, {"TRUNCATE"}, Scope)

SameScope(p, q) == p = q

(* A target written only at the top level, or only in procedures, is       *)
(* reported as emptied and loaded exactly if the script does so in that    *)
(* order within one procedure or at the top level: the order is that of    *)
(* the lines, and two procedures are not taken together.                   *)
RefreshModeIsRight ==
  EachTextOnce =>
    \A t \in TargetSummary :
      (\A i, j \in DOMAIN script : script[i].text.target = t /\ script[j].text.target = t =>
                                     (script[i].proc = "" <=> script[j].proc = ""))
        => ModeAgrees(t, SameScope)

(* Stated by the comment of _has_followed_by_within_scope, not by what it  *)
(* does: a target emptied in a procedure and loaded at the top level after *)
(* it, or the reverse, is emptied and loaded.                              *)
TopLevelJoinsProcedures ==
  EachTextOnce => \A t \in TargetSummary : ModeAgrees(t, LAMBDA p, q : p = q \/ "" \in {p, q})

\* Data flows into the target of line i from these tables.
FlowsInto(i) ==
  LET t == script[i].text
      dml == DmlTarget(t) # NoTable
  IN MappedSources(t)
     \cup (IF dml /\ script[i].proc # "" THEN script[i].loop ELSE {})
     \cup (IF dml THEN UNION {script[j].text.reads \cup script[j].text.conds :
                                j \in {k \in DOMAIN script : script[k].proc \in t.calls /\ Kind[script[k].proc] = "FUNCTION"}} ELSE {})
     \cup (IF dml /\ script[i].proc # "" /\ t.into = "" THEN UNION {script[j].text.reads \cup script[j].text.conds :
                                j \in {k \in DOMAIN script : script[k].text.into \in t.uses /\ script[k].proc # ""}} ELSE {})
     \cup (IF dml /\ Kind[script[i].proc] = "TRIGGER" THEN {TriggerOn} ELSE {})

Flows == UNION {FlowsInto(i) \X {script[i].text.target} : i \in DOMAIN script}

\* No function some line calls deletes or merges.
CallsOnlyRead ==
  \A i, j \in DOMAIN script : script[j].proc \in script[i].text.calls => script[j].text.dml \notin {"DELETE", "MERGE"}

(* The report of a script is the script: its edges are the flows of its    *)
(* lines, if the functions that are called only read, insert or update;    *)
(* none of them is inferred beside another edge of the same two tables;    *)
(* and its outputs are the tables some line writes for good.               *)
ReportIsTheScript ==
  EachTextOnce =>
    /\ CallsOnlyRead => Pairs(AllEdges) = Flows
    /\ \A e, f \in AllEdges : e.line = 0 /\ <<e.source, e.target>> = <<f.source, f.target>> => e = f
    /\ Outputs = {script[i].text.target : i \in {j \in DOMAIN script : Writes(j)}}
    /\ \A e \in AllEdges : e.line > 0 => e.source \in Inputs \/ Role(e.source) = "intermediate"

(* Stated by the docstring of _udf_supplemental_edges, not by what it      *)
(* does: of a function that is called, what it reads flows on.  It reads   *)
(* names after FROM, so that what a function deletes from flows on too,    *)
(* and what it merges from does not.                                       *)
CallsAreReads == EachTextOnce => Pairs(AllEdges) = Flows
=============================================================================
