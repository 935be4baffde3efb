--------------------------- MODULE LineageColumns ---------------------------
(***************************************************************************)
(* From which tables the columns of a query come.  A query is a chain of   *)
(* WITH clauses and a last SELECT; the analysis keeps one map of aliases   *)
(* for the whole statement, one of the columns of the WITH clauses and one *)
(* of their tables, and looks a column up in the three in turn.            *)
(*                                                                         *)
(* Subqueries with an alias are treated as WITH clauses are.  Stars are    *)
(* left out.                                                               *)
(***************************************************************************)
EXTENDS Naturals, Sequences, FiniteSets, SequencesExt, FiniteSetsExt

CONSTANTS
  Tables,      \* tables
  Schema,      \* table to its columns
  Aliases,     \* aliases a FROM may use
  CteNames,    \* the names of the WITH clauses, in order
  Columns      \* the names of output columns

VARIABLES
  ctes,        \* the WITH clauses: [name, from, out, refs]
  last         \* the last SELECT, a sequence of none or one
vars == <<ctes, last>>

\* A SELECT: from is a set of [rel, alias], alias "" when there is none; it
\* has one output column, out, an expression of the columns refs: [of, col].
NoAlias == ""

Names == {ctes[i].name : i \in DOMAIN ctes}
Selects == ToSet(ctes) \cup ToSet(last)
AllFrom == UNION {s.from : s \in Selects}

-----------------------------------------------------------------------------
(* The maps of a statement.                                                *)

AliasNames == ({f.alias : f \in AllFrom} \cup Names) \ {NoAlias}
Physical(t) == t \notin Names /\ t \notin AliasNames

\* Alias or name to table, over the whole statement; of two tables with one
\* alias only one stays (the last in the text, which the model leaves open).
AliasMap ==
  LET entries == {f \in AllFrom : Physical(f.rel)}
  IN [a \in ({f.alias : f \in entries} \cup {f.rel : f \in entries}) \ {NoAlias} |->
        IF \E f \in entries : f.alias = a THEN (CHOOSE f \in entries : f.alias = a).rel ELSE a]

At(map, a) == IF a \in DOMAIN map THEN map[a] ELSE a

\* The physical tables inside each WITH clause.
DerivedTables == [n \in Names |-> {f.rel : f \in {g \in UNION {ctes[i].from : i \in {j \in DOMAIN ctes : ctes[j].name = n}} : Physical(g.rel)}}]

Direct(s) == {f.rel : f \in s.from}
WithColumn(schema, tables, c) == {t \in tables \cap DOMAIN schema : c \in schema[t]}

\* The tables of a column, by its qualifier or by the tables of the FROM:
\* columns maps <<relation, column>> to tables, derived a relation to tables.
Lookup(r, aliases, columns, derived, direct, schema) ==
  LET resolved == At(aliases, r.of)
      only == CHOOSE t \in direct : TRUE
      Through(rel) == IF <<rel, r.col>> \in DOMAIN columns THEN columns[<<rel, r.col>>] ELSE derived[rel]
      Known(rel) == <<rel, r.col>> \in DOMAIN columns \/ rel \in DOMAIN derived
  IN IF r.of # NoAlias
     THEN IF Known(r.of) THEN Through(r.of) ELSE IF Known(resolved) THEN Through(resolved) ELSE {resolved}
     ELSE IF Cardinality(direct) = 1 THEN IF Known(only) THEN Through(only) ELSE {only}
     ELSE WithColumn(schema, direct, r.col)

SourceTables(s, aliases, columns, derived, schema) ==
  UNION {Lookup(r, aliases, columns, derived, Direct(s), schema) : r \in s.refs}

\* Mutant: the aliases of the whole statement.
LocalAliases_Global(s, earlier) == AliasMap

\* Inside a WITH clause an alias of an earlier clause stands for it.
LocalAliases(s, earlier) ==
  LET own == {f \in s.from : f.rel \in earlier /\ f.alias # NoAlias}
  IN [a \in DOMAIN AliasMap \cup {f.alias : f \in own} |->
        IF \E f \in own : f.alias = a THEN (CHOOSE f \in own : f.alias = a).rel ELSE AliasMap[a]]

\* The columns of the first n clauses; <<name, "*">> are the tables of its FROM.
DerivedColumns[n \in 0..Len(CteNames)] ==
  IF n = 0 \/ n > Len(ctes) THEN <<>>
  ELSE LET before == DerivedColumns[n - 1]
           s == ctes[n]
           tables == [a \in {k[1] : k \in DOMAIN before} |-> before[<<a, "*">>]]
           found == SourceTables(s, LocalAliases(s, DOMAIN tables), before, tables, <<>>)
       IN [k \in DOMAIN before \cup {<<s.name, s.out>>, <<s.name, "*">>} |->
             IF k[1] # s.name THEN before[k] ELSE IF k[2] = "*" THEN Direct(s) ELSE found]

\* What the report says of the column of the last SELECT: aliases that were
\* not resolved are dropped when the edges are made.
Reported ==
  SourceTables(last[1], AliasMap, DerivedColumns[Len(ctes)], DerivedTables, Schema) \ AliasNames

-----------------------------------------------------------------------------
(* Legal queries.                                                          *)

Output(rel) == IF rel \in Tables THEN Schema[rel]
               ELSE {ctes[i].out : i \in {j \in DOMAIN ctes : ctes[j].name = rel}}
Called(f) == IF f.alias = NoAlias THEN f.rel ELSE f.alias

\* A column of the FROM, qualified, or not if it has it in one relation.
Refs(from) ==
  UNION {{[of |-> Called(f), col |-> c] : c \in Output(f.rel)} : f \in from} \cup
  {[of |-> NoAlias, col |-> c] : c \in {d \in UNION {Output(f.rel) : f \in from} :
                                          Cardinality({f \in from : d \in Output(f.rel)}) = 1}}

\* One or two relations of different names; an expression of one column of each at most.
LegalSelects(name) ==
  LET rels == Tables \cup Names
      single == {{f} : f \in [rel : rels, alias : Aliases \cup {NoAlias}]}
      froms == single \cup {a \cup b : a, b \in single}
      legal == {from \in froms : \A f, g \in from : Called(f) = Called(g) \/ f.rel = g.rel => f = g}
  IN UNION {{[name |-> name, from |-> from, out |-> c, refs |-> refs] :
               c \in Columns, refs \in {R \in SUBSET Refs(from) : Cardinality(R) \in 1..Cardinality(from)}} : from \in legal}

Init == ctes = <<>> /\ last = <<>>

AddClause ==
  /\ last = <<>> /\ Len(ctes) < Len(CteNames)
  /\ \E s \in LegalSelects(CteNames[Len(ctes) + 1]) : ctes' = Append(ctes, s)
  /\ UNCHANGED last

AddSelect ==
  /\ last = <<>>
  /\ \E s \in LegalSelects("") : last' = <<s>>
  /\ UNCHANGED ctes

Next == AddClause \/ AddSelect
Spec == Init /\ [][Next]_vars

-----------------------------------------------------------------------------
\* The tables a column of a SELECT really comes from.
Truth[n \in 0..(Len(CteNames) + 1)] ==
  IF n = 0 THEN [r \in {} |-> {}]
  ELSE IF n > Len(ctes) THEN Truth[n - 1]
  ELSE LET Of(f) == IF f.rel \in Tables THEN {f.rel} ELSE Truth[n - 1][f.rel]
           Meant(r) == IF r.of = NoAlias THEN CHOOSE f \in ctes[n].from : r.col \in Output(f.rel)
                       ELSE CHOOSE f \in ctes[n].from : Called(f) = r.of
       IN [k \in DOMAIN Truth[n - 1] \cup {ctes[n].name} |->
             IF k = ctes[n].name THEN UNION {Of(Meant(r)) : r \in ctes[n].refs} ELSE Truth[n - 1][k]]

TrueTables ==
  LET Of(f) == IF f.rel \in Tables THEN {f.rel} ELSE Truth[Len(ctes)][f.rel]
      Meant(r) == IF r.of = NoAlias THEN CHOOSE f \in last[1].from : r.col \in Output(f.rel)
                  ELSE CHOOSE f \in last[1].from : Called(f) = r.of
  IN UNION {Of(Meant(r)) : r \in last[1].refs}

\* No alias stands for two relations, nor for one at one place and is the
\* name of another.
AliasesAreUnique ==
  \A f, g \in AllFrom : f.alias = g.alias /\ f.alias # NoAlias => f.rel = g.rel

\* The last SELECT gives no alias to a WITH clause and qualifies its columns
\* where it has two relations; so do the clauses.
Plain == /\ \A f \in last[1].from : f.rel \in Names => f.alias = NoAlias
         /\ \A s \in Selects : Cardinality(s.from) > 1 => \A r \in s.refs : r.of # NoAlias

(* If no alias is used for two relations, the tables reported for a column *)
(* are among those it comes from, through any chain of WITH clauses; and   *)
(* they are all of them if, moreover, the query is plain.                  *)
SourcesAreTrue ==
  last # <<>> /\ AliasesAreUnique => Reported \subseteq TrueTables /\ (Plain => Reported = TrueTables)
=============================================================================
