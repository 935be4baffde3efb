----------------------------- MODULE ScenarioData -----------------------------
(***************************************************************************)
(* The data of a test scenario (scenarios/generator, materializer): the    *)
(* order of its tables, their rows with foreign keys drawn from the rows   *)
(* of other tables, tables derived from others, and the anomalies put in.  *)
(* There are two ways: all data is generated and then written ("memory"),  *)
(* or each table is written as it is generated and a derived one is copied *)
(* inside the database ("stream", the default).                            *)
(*                                                                         *)
(* A row is its key, the key it refers to and one more value.  What is     *)
(* drawn at random is any choice.  Batches, types and dialects are left    *)
(* out, and of the foreign keys three options of _fk_value: match_rate     *)
(* below 1, which puts in values that are no key, fk_unique, which draws a *)
(* key once, and fk_distribution.  A derived table declares no columns of  *)
(* its own: those would be referred to in memory, and give nothing when it *)
(* is streamed, as the copy enters no pool.                                *)
(***************************************************************************)
EXTENDS Naturals, Sequences, FiniteSets, SequencesExt, FiniteSetsExt, Functions

CONSTANTS
  Scenarios  \* records [tables, anomalies]: sequences of [name, rows, derives, fk] and of
             \* [kind, table, count]; derives and fk are "" or the name of a table

VARIABLES
  scenario, mode,
  todo,    \* tables still to be generated, in order
  faults,  \* anomalies still to be put into the data in memory
  data,    \* table to its rows, in memory
  pool,    \* table to the keys others may refer to
  db       \* table to its rows, in the database
vars == <<scenario, mode, todo, faults, data, pool, db>>

Null == <<"null">>
Table(name) == CHOOSE t \in ToSet(scenario.tables) : t.name = name
Names == {scenario.tables[i].name : i \in DOMAIN scenario.tables}
With(f, x, v) == [y \in DOMAIN f \cup {x} |-> IF y = x THEN v ELSE f[y]]

-----------------------------------------------------------------------------
(* Which scenarios are accepted, and the order of the tables.              *)

RefersTo(s) == {<<t.name, t.fk>> : t \in {u \in ToSet(s.tables) : u.fk # ""}}

\* Tables are taken away whose references are all gone.
Acyclic(names, edges) ==
  LET gone[k \in Nat] ==
        IF k = 0 THEN {} ELSE {n \in names : \A e \in edges : e[1] = n => e[2] \in gone[k - 1]}
  IN gone[Cardinality(names)] = names

_check_fk_references(s) ==
  LET names == {s.tables[i].name : i \in DOMAIN s.tables}
  IN /\ \A e \in RefersTo(s) : e[2] \in names /\ e[1] # e[2]
     /\ Acyclic(names, RefersTo(s))

\* Mutant: foreign keys do not order the tables.
Parents_Derived(t) == <<t.derives>>
Parents(t) == <<t.derives, t.fk>>

\* A table comes after those it is derived from and refers to.
Visit ==
  LET visit[order \in Seq(Names), name \in STRING] ==
        IF name \notin Names \/ Contains(order, name) THEN order
        ELSE Append(FoldLeft(LAMBDA o, p : IF p = name THEN o ELSE visit[o, p], order, Parents(Table(name))), name)
  IN visit

_resolve_order == FoldLeft(LAMBDA o, t : Visit[o, t.name], <<>>, scenario.tables)

-----------------------------------------------------------------------------
(* Rows.                                                                   *)

Row(key, ref) == [key |-> key, ref |-> ref, val |-> "v"]
Keys(rows) == {rows[i].key : i \in DOMAIN rows}

\* _fk_value with match_rate 1 and without fk_unique: any key that the pool has.
\* Nothing to refer to gives no value.
Candidates(t) ==
  IF t.fk = "" \/ t.fk \notin DOMAIN pool THEN {Null}
  ELSE IF pool[t.fk] = {} THEN {Null} ELSE pool[t.fk]

FreshRows(t) == {[i \in 1..t.rows |-> Row(<<t.name, i>>, ref[i])] : ref \in [1..t.rows -> Candidates(t)]}

Limited(t, rows) == IF t.rows > 0 /\ t.rows < Len(rows) THEN SubSeq(rows, 1, t.rows) ELSE rows

Drift(row) == IF row.val = "v" THEN [row EXCEPT !.val = "drift"] ELSE row
Changed(kind, row) ==
  CASE kind = "value_drift" -> Drift(row)
    [] kind = "null_drift" -> [row EXCEPT !.val = "null"]
    [] kind = "type_mismatch" -> [row EXCEPT !.val = "text"]

Some(n, S) == kSubset(Min({n, Cardinality(S)}), S)
Without(rows, at) == [i \in 1..Cardinality(DOMAIN rows \ at) |-> rows[SetToSortSeq(DOMAIN rows \ at, <)[i]]]
Extra(t, rows, n) ==
  {rows \o [j \in 1..n |-> [rows[pick[j]] EXCEPT !.key = <<t, "x", Len(rows) + j>>]] : pick \in [1..n -> DOMAIN rows]}
Twice(rows, n) ==
  {rows \o [j \in 1..n |-> [rows[pick[j][1]] EXCEPT !.key = rows[pick[j][2]].key]] :
     pick \in [1..n -> (DOMAIN rows) \X (DOMAIN rows)]}

\* One anomaly put into rows that exist.
_apply_anomaly(a, rows) ==
  IF a.count = 0 \/ rows = <<>> THEN {rows}
  ELSE CASE a.kind = "missing_rows" -> {Without(rows, at) : at \in Some(a.count, DOMAIN rows)}
         [] a.kind = "extra_rows" -> Extra(a.table, rows, a.count)
         [] a.kind = "duplicate_pk" -> Twice(rows, a.count)
         [] OTHER -> {[i \in DOMAIN rows |-> IF i \in at THEN Changed(a.kind, rows[i]) ELSE rows[i]] :
                        at \in Some(a.count, DOMAIN rows)}

-----------------------------------------------------------------------------
(* In memory: all tables, then all anomalies, then the database.           *)

GenerateTable ==
  /\ mode = "memory" /\ todo # <<>>
  /\ LET t == Table(Head(todo)) IN
       \E rows \in IF t.derives \in DOMAIN data THEN {Limited(t, data[t.derives])} ELSE FreshRows(t) :
         /\ data' = With(data, t.name, rows)
         /\ pool' = IF t.derives = "" THEN With(pool, t.name, Keys(rows)) ELSE pool
  /\ todo' = Tail(todo)
  /\ UNCHANGED <<scenario, mode, faults, db>>

ApplyAnomaly ==
  /\ mode = "memory" /\ todo = <<>> /\ faults # <<>>
  /\ IF Head(faults).table \notin DOMAIN data THEN UNCHANGED data
     ELSE \E rows \in _apply_anomaly(Head(faults), data[Head(faults).table]) :
            data' = With(data, Head(faults).table, rows)
  /\ faults' = Tail(faults)
  /\ UNCHANGED <<scenario, mode, todo, pool, db>>

apply_plan ==
  /\ mode = "memory" /\ todo = <<>> /\ faults = <<>> /\ db # data
  /\ db' = data
  /\ UNCHANGED <<scenario, mode, todo, faults, data, pool>>

-----------------------------------------------------------------------------
(* Streaming: the anomalies of a table are put in while its rows are made; *)
(* what others refer to is what was written.                               *)

Faults(name, kind) == SelectSeq(scenario.anomalies, LAMBDA a : a.table = name /\ a.kind = kind)
CountOf(name, kind) == FoldLeft(LAMBDA n, a : n + a.count, 0, Faults(name, kind))

\* The rows an anomaly hits are drawn before there are any, of the number
\* declared; what two of the same kind hit may overlap.
Hit(t, kind) ==
  FoldLeft(LAMBDA S, a : {x \cup y : x \in S, y \in Some(a.count, 1..t.rows)}, {{}}, Faults(t.name, kind))

\* Values drift first, then they become null, then text; rows that are
\* missing are left out.
Inline(t, rows) ==
  LET Put(kind, at, row, i) == IF i \in at THEN Changed(kind, row) ELSE row
      Made(drift, null, text) ==
        [i \in DOMAIN rows |-> Put("type_mismatch", text, Put("null_drift", null, Put("value_drift", drift, rows[i], i), i), i)]
  IN {Without(Made(drift, null, text), out) : out \in Hit(t, "missing_rows"), drift \in Hit(t, "value_drift"),
        null \in Hit(t, "null_drift"), text \in Hit(t, "type_mismatch")}

\* Few rows are kept as models of the rows that come on top: where none is
\* kept, the additional rows are fresh ones and there is no row twice.
OnTop(t, rows, models) ==
  LET n == CountOf(t.name, "extra_rows")
      d == CountOf(t.name, "duplicate_pk")
      extra == IF models = {} THEN {Row(<<>>, ref) : ref \in Candidates(t)} ELSE models
      twice == IF models = {} THEN {<<>>}
               ELSE {[j \in 1..d |-> [pick[j][1] EXCEPT !.key = pick[j][2].key]] : pick \in [1..d -> models \X models]}
  IN {rows \o [j \in 1..n |-> [pick[j] EXCEPT !.key = <<t.name, "x", j>>]] \o tail :
        pick \in [1..n -> extra], tail \in twice}

StreamTable ==
  /\ mode = "stream" /\ todo # <<>>
  /\ LET t == Table(Head(todo))
         written == \E made \in FreshRows(t) : \E kept \in Inline(t, made) :
                    \E models \in SUBSET ToSet(kept) : \E rows \in OnTop(t, kept, models) :
                      /\ db' = With(db, t.name, IF t.rows = 0 THEN <<>> ELSE rows)
                      /\ pool' = With(pool, t.name, Keys(IF t.rows = 0 THEN <<>> ELSE rows))
         \* INSERT ... SELECT ... LIMIT: any of the rows of the parent
         copied == \E out \in IF t.rows > 0 /\ t.rows < Len(db[t.derives])
                               THEN kSubset(Len(db[t.derives]) - t.rows, DOMAIN db[t.derives]) ELSE {{}} :
                      /\ db' = With(db, t.name, Without(db[t.derives], out))
                      /\ UNCHANGED pool
     IN IF t.derives \in Names THEN copied ELSE written
  /\ todo' = Tail(todo)
  /\ UNCHANGED <<scenario, mode, faults, data>>

-----------------------------------------------------------------------------
Init ==
  /\ scenario \in {s \in Scenarios : _check_fk_references(s)}
  /\ mode \in {"memory", "stream"}
  /\ todo = _resolve_order /\ faults = scenario.anomalies
  /\ data = <<>> /\ pool = <<>> /\ db = <<>>

Next == GenerateTable \/ ApplyAnomaly \/ apply_plan \/ StreamTable

Spec == Init /\ [][Next]_vars

-----------------------------------------------------------------------------
Written == todo = <<>> /\ DOMAIN db = Names

\* How many rows the way in memory gives a table.
Base ==
  LET base[name \in Names] ==
        LET t == Table(name) IN
        IF t.derives \notin Names THEN t.rows
        ELSE IF t.rows > 0 /\ t.rows < base[t.derives] THEN t.rows ELSE base[t.derives]
  IN base
RowCount(t) ==
  FoldLeft(LAMBDA n, a : IF a.table # t.name \/ n = 0 THEN n
                         ELSE CASE a.kind = "missing_rows" -> n - Min({a.count, n})
                                [] a.kind \in {"extra_rows", "duplicate_pk"} -> n + a.count
                                [] OTHER -> n,
           Base[t.name], scenario.anomalies)

(* A table in memory has as many rows as its anomalies make of it; a       *)
(* streamed one too, unless it is derived, has keys twice or two anomalies *)
(* take rows away. A row refers to a row that was made for the other       *)
(* table, and when streamed, to one that is in the database; only an empty *)
(* table leaves it nothing to refer to. A derived table that is streamed   *)
(* has rows of the table it is from.                                       *)
DataIsAsDeclared ==
  Written => \A t \in ToSet(scenario.tables) :
    /\ (mode = "memory" \/ (t.derives \notin Names /\ CountOf(t.name, "duplicate_pk") = 0
                              /\ Len(Faults(t.name, "missing_rows")) < 2)) => Len(db[t.name]) = RowCount(t)
    /\ t.derives \notin Names /\ t.fk # "" => \A i \in DOMAIN db[t.name] :
         IF pool[t.fk] = {} THEN db[t.name][i].ref = Null
         ELSE /\ db[t.name][i].ref \in pool[t.fk]
              /\ mode = "stream" => db[t.name][i].ref \in Keys(db[t.fk])
    /\ mode = "stream" /\ t.derives \in Names => ToSet(db[t.name]) \subseteq ToSet(db[t.derives])

(* Streaming gives every table the rows the other way gives it (the        *)
(* docstring at materializer.py:238).                                      *)
StreamingIsEquivalent ==
  Written /\ mode = "stream" => \A t \in ToSet(scenario.tables) : Len(db[t.name]) = RowCount(t)
=============================================================================
