------------------------------- MODULE Preflight -------------------------------
(***************************************************************************)
(* The check of a statement before a comparison runs it (sql_preflight;    *)
(* api/tasks): rules over the parsed statement, some of which forbid the   *)
(* run, and a warning if the database expects many more rows than allowed. *)
(* A comparison that streams merges the two results in the order of the    *)
(* keys, so the statement must sort by them.  A rule that forbids stops a  *)
(* comparison only where DATAOPS_SQL_PREFLIGHT_ENFORCE is set, which it is *)
(* not by default; elsewhere it is advice.                                 *)
(*                                                                         *)
(* Of a statement there is what the rules look at: how it sorts, itself    *)
(* and somewhere inside, and its other features.  A sort column is that of *)
(* the result, or one of that name of another table (b.id beside a.id).    *)
(***************************************************************************)
EXTENDS Naturals, Sequences, FiniteSets, SequencesExt

CONSTANTS
  Columns,
  MaxItems  \* bound: columns sorted by, and keys

NamesAssumption == "" \notin Columns

Features == {"write", "unparsable", "star", "where", "wide", "group", "distinct", "window", "union"}

VARIABLES
  sql,      \* [features, order, inner]: sequences of [col, foreign, func, desc]
  keys, large, stream, mode,
  estimate  \* the rows the database expects: "few", where it gives none too, or "many"
vars == <<sql, keys, large, stream, mode, estimate>>

Has(f) == f \in sql.features

\* The outermost ORDER BY there is.
FirstOrder == IF sql.order # <<>> THEN sql.order ELSE sql.inner

\* The bare names: of which table a column is does not count.
_ordered_column_names(order) == [i \in DOMAIN order |-> IF order[i].func THEN "" ELSE order[i].col]
\* Mutant: the keys may stand anywhere in ORDER BY.
_order_covers_keys_anywhere(order) == ToSet(keys) \subseteq ToSet(_ordered_column_names(order))

_order_covers_keys(order) == IsPrefix(keys, _ordered_column_names(order))

Streams == stream /\ mode = "compare"
Rules ==
  LET wide == IF large THEN "block" ELSE "warn" IN
  (IF Has("star") THEN {<<"select_star", wide>>} ELSE {})
  \cup (IF Has("where") THEN {} ELSE {<<"no_where", wide>>})
  \cup (IF Streams /\ FirstOrder = <<>> THEN {<<"stream_no_order", "block">>} ELSE {})
  \cup (IF Streams /\ FirstOrder # <<>> /\ keys # <<>> /\ ~_order_covers_keys(FirstOrder)
        THEN {<<"order_missing_keys", "block">>} ELSE {})
  \cup (IF Has("wide") THEN {<<"wide_select", "warn">>} ELSE {})
  \cup (IF sql.features \cap {"distinct", "group", "window", "union"} # {} THEN {<<"expensive_ops", "warn">>} ELSE {})
  \cup (IF \E i \in DOMAIN FirstOrder : FirstOrder[i].func THEN {<<"order_func_wrapped", "warn">>} ELSE {})

\* Mutant: every rule must forbid it, not one of them.
_decide_all(rules) ==
  LET blocks == {r \in rules : r[2] = "block"}
  IN [blocking |-> blocks # {},
      risk |-> IF blocks # {} /\ \A r \in blocks : r[1] \in {"stream_no_order", "order_missing_keys"} THEN 3
               ELSE IF blocks # {} THEN 2 ELSE IF rules # {} THEN 1 ELSE 0]

_decide(rules) ==
  LET blocks == {r \in rules : r[2] = "block"}
  IN [blocking |-> blocks # {},
      risk |-> IF \E r \in blocks : r[1] \in {"stream_no_order", "order_missing_keys"} THEN 3
               ELSE IF blocks # {} THEN 2 ELSE IF rules # {} THEN 1 ELSE 0]

\* What cannot be parsed gets a warning and is not looked at any further.
assess_sql ==
  IF Has("write") THEN _decide({<<"not_readonly", "block">>})
  ELSE IF Has("unparsable") THEN _decide({<<"parse_failed", "warn">>})
  ELSE _decide(Rules)

assess_with_explain ==
  IF assess_sql.blocking \/ estimate # "many" THEN assess_sql
  ELSE [assess_sql EXCEPT !.risk = IF @ = 0 THEN 1 ELSE @]

-----------------------------------------------------------------------------
Items == {i \in [col : Columns, foreign : BOOLEAN, func : BOOLEAN, desc : BOOLEAN] :
            Cardinality({b \in {"foreign", "func", "desc"} : i[b]}) <= 1}

AddItem ==
  /\ \E item \in Items :
       \/ Len(sql.order) < MaxItems /\ sql' = [sql EXCEPT !.order = Append(@, item)]
       \/ sql.inner = <<>> /\ ~item.foreign /\ ~item.func /\ ~item.desc /\ sql' = [sql EXCEPT !.inner = <<item>>]
  /\ UNCHANGED <<keys, large, stream, mode, estimate>>

AddFeature ==
  /\ \E f \in Features \ {"where"} : sql.features \subseteq {"where"} /\ sql' = [sql EXCEPT !.features = @ \cup {f}]
  /\ UNCHANGED <<keys, large, stream, mode, estimate>>

AddKey ==
  /\ Len(keys) < MaxItems
  /\ \E c \in Columns \ ToSet(keys) : keys' = Append(keys, c)
  /\ UNCHANGED <<sql, large, stream, mode, estimate>>

AskForMore ==
  /\ \/ large' = TRUE /\ UNCHANGED stream
     \/ stream' = TRUE /\ UNCHANGED large
  /\ UNCHANGED <<sql, keys, mode, estimate>>

Init ==
  /\ sql \in [features : {{}, {"where"}}, order : {<<>>}, inner : {<<>>}]
  /\ keys = <<>> /\ large = FALSE /\ stream = FALSE
  /\ mode \in {"preview", "compare"} /\ estimate \in {"few", "many"}

Next == AddItem \/ AddFeature \/ AddKey \/ AskForMore

Spec == Init /\ [][Next]_vars

-----------------------------------------------------------------------------
\* The rows come in ascending order of the keys.
Sorted ==
  IsPrefix([i \in DOMAIN keys |-> [col |-> keys[i], foreign |-> FALSE, func |-> FALSE, desc |-> FALSE]], sql.order)

(* A statement that parses, and that sorts, if anything in it sorts, its   *)
(* own result, by columns of that result and upwards, gives a streaming    *)
(* comparison its rows in the order of the keys wherever no rule forbids   *)
(* it, whatever its other features are.                                    *)
AcceptedIsSorted ==
  /\ Streams /\ ~Has("unparsable") /\ ~assess_with_explain.blocking
  /\ sql.inner = <<>> /\ (\A i \in DOMAIN sql.order : ~sql.order[i].desc /\ ~sql.order[i].foreign)
  => Sorted

(* So it does always (the message at sql_preflight.py:124); it does not    *)
(* with an inner ORDER BY, DESC, or another table's column of that name.   *)
StreamIsSorted == Streams /\ ~assess_with_explain.blocking => Sorted

(* A larger task, a stream and a further key never make the judgement a    *)
(* milder one.                                                             *)
NeverMilder == AddKey \/ AskForMore => assess_with_explain'.risk >= assess_with_explain.risk
RiskIsMonotone == [][NeverMilder]_vars
=============================================================================
