-------------------------------- MODULE SlowSql --------------------------------
(***************************************************************************)
(* The analysis of a slow statement (services/slow_sql, plan_history;      *)
(* api/slow_sql): the plan the database gives is judged by rules, the      *)
(* judgements get advice, the plan is kept, and the last two plans of the  *)
(* statement are compared.  Beside it, the statistics of the statements    *)
(* that ran (services/sql_stats): they are kept per template in the order  *)
(* of the last use; where there are too many, the older half is dropped.   *)
(* And the indexes advised for the tables a plan reads in full             *)
(* (services/slow_sql_enhance): the columns of a table in WHERE and JOIN   *)
(* conditions that no index leads with and that stand somewhere outside a  *)
(* function.  The plan names a table by its alias, or by its name where it *)
(* has none; everything is found through that.                             *)
(*                                                                         *)
(* A row of a plan is the table, the words the rules look for, and how     *)
(* many rows it is about, of which the rules know 10,000 and 100,000.  A   *)
(* column whose table is not said, or is a derived one, is left out, as is *)
(* the case of names.                                                      *)
(***************************************************************************)
EXTENDS Naturals, Sequences, FiniteSets, SequencesExt, FiniteSetsExt

CONSTANTS
  Plans,    \* set of records [dialect, rows]: rows of [table, words, size]
  MaxPlans, \* bound: analyses
  MaxTime,  \* bound: seconds
  Templates, Times,
  MAX_DISTINCT,  \* most templates that are kept
  MaxRecords,    \* bound: statements recorded
  Refs,          \* [db, name, alias] a statement may have in FROM; "" for none
  Columns, Indexes,  \* its columns; the indexes there may be: <<table, sequence of columns>>
  MaxRefs, MaxUses   \* bounds

MaxAssumption == MAX_DISTINCT \in Nat \ {0}

VARIABLES
  now,
  count,     \* analyses so far
  analyzed,  \* the last analysis: [plan, issues, suggestions]
  history,   \* plans kept: [ts, plan]
  stats,     \* sequence of [t, count, failed, total, most, least]
  log,       \* history: what was recorded, a sequence of [t, ms, ok]
  refs,      \* of the statement advised on, in the order in which they are found
  uses,      \* its uses of columns, a sequence of [alias, col, where, wrapped]
  indexes    \* those there are
plans  == <<now, count, analyzed, history>>
usage  == <<stats, log>>
advice == <<refs, uses, indexes>>
vars   == <<plans, usage, advice>>

Many == 10001
TooMany == 100001

-----------------------------------------------------------------------------
(* The rules of a dialect, in the order in which a row is judged.          *)

Codes(dialect) ==
  CASE dialect = "mysql" -> <<"full_table_scan", "filesort", "using_temporary", "high_row_scan">>
    [] dialect = "dm" -> <<"full_table_scan", "index_range_scan", "hash_group", "stream_group", "nested_loop_large", "sort_cost">>
    [] dialect = "oracle" -> <<"full_table_scan", "sort_order_by", "sort_group_by", "nested_loops_high_card", "high_cost", "high_row_scan">>

mysql_issue(code, row) ==
  CASE code = "full_table_scan" -> "all" \in row.words
    [] code = "filesort" -> "filesort" \in row.words
    [] code = "using_temporary" -> "using temporary" \in row.words
    [] code = "high_row_scan" -> row.size >= Many /\ row.words \cap {"all", "index"} # {}

dm_issue(code, row) ==
  CASE code = "full_table_scan" -> "CSCN" \in row.words
    [] code = "index_range_scan" -> "CSCN" \notin row.words /\ row.words \cap {"SSEK", "CSEK"} # {}
    [] code = "hash_group" -> "HAGR" \in row.words
    [] code = "stream_group" -> "SAGR" \in row.words
    [] code = "nested_loop_large" -> "NEST LOOP" \in row.words /\ row.size >= Many
    [] code = "sort_cost" -> "SORT" \in row.words

FullScan(row) == {"TABLE ACCESS", "FULL"} \subseteq row.words
oracle_issue(code, row) ==
  CASE code = "full_table_scan" -> FullScan(row)
    [] code = "sort_order_by" -> {"SORT", "ORDER"} \subseteq row.words
    [] code = "sort_group_by" -> "SORT" \in row.words /\ row.words \cap {"GROUP", "UNIQUE"} # {}
    [] code = "nested_loops_high_card" -> "NESTED LOOPS" \in row.words /\ row.size >= Many
    [] code = "high_cost" -> "costly" \in row.words /\ "SELECT STATEMENT" \notin row.words
    [] code = "high_row_scan" -> FullScan(row) /\ row.size >= TooMany

detect_issues(plan) ==
  LET Fires(code, row) == CASE plan.dialect = "mysql" -> mysql_issue(code, row)
                            [] plan.dialect = "dm" -> dm_issue(code, row)
                            [] plan.dialect = "oracle" -> oracle_issue(code, row)
      OfRow(row) == LET codes == SelectSeq(Codes(plan.dialect), LAMBDA c : Fires(c, row))
                    IN [i \in DOMAIN codes |-> [code |-> codes[i], table |-> IF plan.dialect = "dm" THEN "" ELSE row.table]]
  IN FlattenSeq([i \in DOMAIN plan.rows |-> OfRow(plan.rows[i])])

\* Advice that is given once for every table, and once altogether.
PerTable == {"full_table_scan", "filesort", "sort_order_by", "high_row_scan"}
Once == {"using_temporary", "sort_group_by", "nested_loops_high_card", "high_cost", "hash_group", "nested_loop_large", "sort_cost"}

\* Mutant: advice is deduplicated by code whatever the table.
Tag_Code(issue) == <<issue.code, "">>
Tag(issue) == IF issue.code \in PerTable THEN <<issue.code, issue.table>> ELSE <<issue.code, "">>

\* The first issue of a tag is the one that is answered.
build_suggestions(issues) ==
  FoldLeft(LAMBDA out, i : IF i.code \notin PerTable \cup Once \/ Contains(out, Tag(i)) THEN out ELSE Append(out, Tag(i)),
           <<>>, issues)

-----------------------------------------------------------------------------
save_plan(plan) == history' = Append(history, [ts |-> now, plan |-> plan])

\* The plan is kept, unless that fails, which changes nothing of the answer.
analyze ==
  /\ count < MaxPlans /\ count' = count + 1
  /\ \E plan \in Plans :
       /\ history # <<>> => plan.dialect = history[1].plan.dialect
       /\ LET issues == detect_issues(plan)
          IN analyzed' = [plan |-> plan, issues |-> issues, suggestions |-> build_suggestions(issues)]
       /\ save_plan(plan) \/ UNCHANGED history
  /\ UNCHANGED <<now, usage, advice>>

Tick == now < MaxTime /\ now' = now + 1 /\ UNCHANGED <<count, analyzed, history, usage, advice>>

-----------------------------------------------------------------------------
(* The statistics.                                                         *)

New(t) == [t |-> t, count |-> 0, failed |-> 0, total |-> 0, most |-> 0, least |-> 0]

_evict_half(all) == SubSeq(all, 1 + Len(all) \div 2, Len(all))

MoveToEnd(all, t) == SelectSeq(all, LAMBDA s : s.t # t) \o SelectSeq(all, LAMBDA s : s.t = t)

\* A least time of 0 counts as none yet.
Updated(s, ms, ok) ==
  [s EXCEPT !.count = @ + 1, !.failed = IF ok THEN @ ELSE @ + 1, !.total = @ + ms,
            !.most = Max({@, ms}), !.least = IF @ = 0 THEN ms ELSE Min({@, ms})]

record(t, ms, ok) ==
  LET known == \E i \in DOMAIN stats : stats[i].t = t
      grown == IF known THEN stats ELSE Append(stats, New(t))
      kept == MoveToEnd(IF ~known /\ Len(grown) > MAX_DISTINCT THEN _evict_half(grown) ELSE grown, t)
  IN stats' = [i \in DOMAIN kept |-> IF kept[i].t = t THEN Updated(kept[i], ms, ok) ELSE kept[i]]

Ran ==
  /\ Len(log) < MaxRecords
  /\ \E t \in Templates, ms \in Times, ok \in BOOLEAN :
       record(t, ms, ok) /\ log' = Append(log, [t |-> t, ms |-> ms, ok |-> ok])
  /\ UNCHANGED <<plans, advice>>

-----------------------------------------------------------------------------
(* The advice on indexes.                                                 *)

Full(r) == <<r.db, r.name>>
Exposed(r) == IF r.alias = "" THEN r.name ELSE r.alias

\* The first to take a name keeps it, be it an alias or the name of a table.
SetDefault(map, name, full) == IF \E m \in map : m[1] = name THEN map ELSE map \cup {<<name, full>>}
alias_to_full == FoldLeft(LAMBDA map, r : SetDefault(SetDefault(map, Exposed(r), Full(r)), r.name, Full(r)), {}, refs)
Resolves(alias, full) == <<alias, full>> \in alias_to_full

\* Conditions of WHERE come before those of JOIN.
InOrder == SelectSeq(uses, LAMBDA u : u.where) \o SelectSeq(uses, LAMBDA u : ~u.where)
Usage(full) ==
  LET own == SelectSeq(InOrder, LAMBDA u : Resolves(u.alias, full))
      cols(S) == {u.col : u \in S}
  IN [full |-> full,
      alias |-> IF own = <<>> THEN "" ELSE own[1].alias,
      keys |-> cols(ToSet(own)),
      weight |-> Cardinality(cols({u \in ToSet(own) : u.where})) + Cardinality(cols({u \in ToSet(own) : ~u.where})),
      unwrapped |-> cols({u \in ToSet(own) : ~u.wrapped})]
extract_table_usage == {Usage(m[2]) : m \in alias_to_full}

\* A name of the plan is a whole name, an alias or the last part of a name.
Named(name) ==
  LET whole == {u \in extract_table_usage : u.full = <<"", name>>}
      alias == {u \in extract_table_usage : u.alias = name /\ u.full[2] # name}
      base == {u \in extract_table_usage : u.full[2] = name}
  IN IF whole # {} THEN whole
     ELSE IF alias # {} THEN alias
     ELSE {u \in base : \A v \in base : v.weight <= u.weight}

_index_covers(index, col) == index[2][1] = col

Candidates(u) ==
  {c \in u.keys \cap u.unwrapped : ~\E index \in indexes : index[1] = u.full /\ _index_covers(index, c)}

-----------------------------------------------------------------------------

AddRef ==
  /\ Len(refs) < MaxRefs /\ uses = <<>>
  /\ \E r \in Refs : (\A i \in DOMAIN refs : Exposed(refs[i]) # Exposed(r)) /\ refs' = Append(refs, r)
  /\ UNCHANGED <<plans, usage, uses, indexes>>

AddUse ==
  /\ Len(uses) < MaxUses
  /\ \E i \in DOMAIN refs, c \in Columns, where, wrapped \in BOOLEAN :
       uses' = Append(uses, [alias |-> Exposed(refs[i]), col |-> c, where |-> where, wrapped |-> wrapped])
  /\ UNCHANGED <<plans, usage, refs, indexes>>

-----------------------------------------------------------------------------
Init ==
  /\ now = 0 /\ count = 0 /\ history = <<>>
  /\ analyzed = [plan |-> [dialect |-> "dm", rows |-> <<>>], issues |-> <<>>, suggestions |-> <<>>]
  /\ stats = <<>> /\ log = <<>>
  /\ refs = <<>> /\ uses = <<>> /\ indexes \in SUBSET Indexes

Next == analyze \/ Tick \/ Ran \/ AddRef \/ AddUse

Spec == Init /\ [][Next]_vars

-----------------------------------------------------------------------------
\* ORDER BY ts DESC: within one second the plan that was kept first comes first.
\* Mutant: ORDER BY ts.
Before_Oldest(p, q) == history[p].ts < history[q].ts \/ (history[p].ts = history[q].ts /\ p < q)
Before(p, q) == history[p].ts > history[q].ts \/ (history[p].ts = history[q].ts /\ p < q)
list_plans_for_sql(limit) ==
  LET all == SetToSortSeq(DOMAIN history, Before)
  IN SubSeq(all, 1, IF Len(all) < limit THEN Len(all) ELSE limit)

CodesOf(plan) == {i.code : i \in ToSet(detect_issues(plan))}

\* Rows of plans are compared position by position.
diff_plans(a, b) ==
  LET Largest(p) == Max({0} \cup {p.rows[i].size : i \in DOMAIN p.rows})
  IN [change |-> <<Largest(a), Largest(b)>>,
      changed |-> {i \in DOMAIN a.rows \cap DOMAIN b.rows : a.rows[i].words # b.rows[i].words},
      resolved |-> CodesOf(a) \ CodesOf(b), introduced |-> CodesOf(b) \ CodesOf(a)]

\* What the user is shown: the newest two of the list, the older one first.
Shown == LET two == list_plans_for_sql(2)
         IN diff_plans(history[two[2]].plan, history[two[1]].plan)

IsTheLastStep ==
  LET n == Len(history) a == history[n - 1].plan b == history[n].plan IN
  /\ (CodesOf(a) \ Shown.resolved) \cup Shown.introduced = CodesOf(b)
  /\ Shown = diff_plans(a, b)

(* What the comparison of the last two plans shows as solved and as new    *)
(* leads from the plan before the last to the last one, where these were   *)
(* not kept within one second.                                             *)
DiffIsTheLastStep ==
  LET n == Len(history) IN
  n >= 2 /\ (\A i \in 1..(n - 1) : history[i].ts # history[n].ts) /\ (n > 2 => history[n - 2].ts # history[n - 1].ts)
    => IsTheLastStep

(* So it does always (slow_sql.py:147: plan_a is the older of the two).    *)
DiffIsOfTheLast == Len(history) >= 2 => IsTheLastStep

(* Every judgement that has an advice gets it, for its own table where the *)
(* advice is about a table, and none is given twice.                       *)
AdviceIsComplete ==
  LET given == analyzed.suggestions IN
  /\ \A i \in ToSet(analyzed.issues) :
       /\ i.code \in PerTable => Contains(given, <<i.code, i.table>>)
       /\ i.code \in Once => \E g \in ToSet(given) : g[1] = i.code
  /\ IsInjective(given)
  /\ \A g \in ToSet(given) : \E i \in ToSet(analyzed.issues) : g = Tag(i)

LastUse(t) == Max({0} \cup {i \in DOMAIN log : log[i].t = t})
OfTemplate(t) == SelectSeq(log, LAMBDA r : r.t = t)
Sum(records) == FoldLeft(LAMBDA n, r : n + r.ms, 0, records)
MostOf(records) == Max({0} \cup {r.ms : r \in ToSet(records)})

(* The templates that are kept are the ones used last, the last one among  *)
(* them, in the order of use; and the figures of each are those of its     *)
(* last uses, as many as it counts.                                        *)
KeepsTheRecent ==
  LET kept == {stats[i].t : i \in DOMAIN stats} IN
  /\ Len(stats) <= MAX_DISTINCT
  /\ \A t \in kept, u \in Templates \ kept : LastUse(t) > LastUse(u)
  /\ log # <<>> => Last(log).t \in kept
  /\ \A i, j \in DOMAIN stats : i < j => LastUse(stats[i].t) < LastUse(stats[j].t)
  /\ \A i \in DOMAIN stats :
       LET all == OfTemplate(stats[i].t)
           last == SubSeq(all, Len(all) - stats[i].count + 1, Len(all))
       IN /\ stats[i].total = Sum(last) /\ stats[i].most = MostOf(last)
          /\ stats[i].failed = Len(SelectSeq(last, LAMBDA r : ~r.ok))

\* Names by which the code tells tables apart: no alias is another table's
\* name, and no two tables have one name in two schemas.
Plain ==
  \A i, j \in DOMAIN refs : i # j => /\ refs[i].alias # refs[j].name
                                     /\ refs[i].name = refs[j].name => refs[i].db = refs[j].db

Wanted(r) ==
  {c \in Columns :
     /\ \E i \in DOMAIN uses, q \in ToSet(refs) :
          Full(q) = Full(r) /\ uses[i].alias = Exposed(q) /\ uses[i].col = c /\ ~uses[i].wrapped
     /\ ~\E index \in indexes : index[1] = Full(r) /\ Head(index[2]) = c}

(* Of a statement whose names are plain, a name of the plan leads to its   *)
(* own table, and the columns advised for it are those an index would      *)
(* serve: used as they are, and led with by none that is there.  A table   *)
(* that stands in the statement more than once, under aliases, may be      *)
(* found by one of these only.                                             *)
AdviceIsUsable ==
  Plain => \A i \in DOMAIN refs : LET r == refs[i] found == Named(Exposed(r)) IN
    /\ \A u \in found : u.full = Full(r) /\ Candidates(u) = Wanted(r)
    /\ Wanted(r) # {} /\ (\A j \in DOMAIN refs \ {i} : Full(refs[j]) # Full(r)) => found # {}
    /\ Wanted(r) # {} => \E j \in DOMAIN refs : Full(refs[j]) = Full(r) /\ Named(Exposed(refs[j])) # {}
=============================================================================
