-------------------------------- MODULE MCSql --------------------------------
(***************************************************************************)
(* Small instances of the modules that read and judge SQL (Spec), and of   *)
(* those around recorded lineage and metadata (CatalogSpec).  They share   *)
(* no state: part says which of them a behaviour is one of, and the        *)
(* variables of the others stay 0.  Names that several of them use stand   *)
(* for one variable; x1, x2, ... are those of the modules whose data is    *)
(* written out here.                                                       *)
(***************************************************************************)
EXTENDS Naturals, Sequences, FiniteSets, TLC

CONSTANTS
  KeyColumns, MaxItems,                                             \* Preflight
  Runs, Readers, Asked, TTL, MaxTicks,                              \* RunCaches
  Casts,  \* part to [runs, readers, asked]: who takes part in it
  Editors, Values, MaxChanges,                                      \* AspectHistory
  Objects, Requests, Queries, Limits,                               \* MetadataCache
  Tables, Unknown, AskedColumns, Fragments, MaxFragments, MaxJobs, MaxRequests,
  Savers, Beside, \* LineageAI: who saves settings, and who does so beside analyses
  Loads           \* part to [jobs, answered]: its jobs, and whether answers come to them

VARIABLES
  part,
  sql, keys, large, stream, mode, estimate,
  now, dir, writers, payloads, columns, index, owner, readers, blurred,
  row, trail, pending,
  cache, requests, known,
  raced,
  file, saves, analysis, jobs, threads, made, hasKey, collided,
  x1, x2, x3, x4, x5, x6, x7, x8, x9

statement == <<sql, keys, large, stream, mode, estimate>>
caches    == <<now, dir, writers, payloads, columns, index, owner, readers, blurred>>
marks     == <<row, trail, pending>>
metadata  == <<cache, requests, known>>
assistant == <<file, saves, analysis, jobs, threads, made, hasKey, collided>>
After1 == <<x2, x3, x4, x5, x6, x7, x8, x9>>
After2 == <<x3, x4, x5, x6, x7, x8, x9>>
After5 == <<x6, x7, x8, x9>>
others == <<x1, After1>>

vars == <<part, statement, caches, marks, metadata, raced, assistant, others>>

P == INSTANCE Preflight WITH Columns <- KeyColumns
C == INSTANCE RunCaches
Trail == INSTANCE AspectHistory
M == INSTANCE MetadataCache
Answers == INSTANCE LineageAI WITH Columns <- AskedColumns, Savers <- Beside
\* An assistant with nothing to ask.
Settings == INSTANCE LineageAI WITH Columns <- <<>>, Fragments <- {<<>>}

\* Every plan of two rows out of these, for each database, judged once.
Row(table, words, size) == [table |-> table, words |-> words, size |-> size]
Plan(dialect, rows) == [dialect |-> dialect, rows |-> rows]
MysqlRows ==
  {Row(t, w, s) : t \in {"t", "u"}, s \in {1, 10001},
     w \in {{"all"}, {"all", "filesort", "using temporary"}, {"index"}, {"ref", "using temporary"}}}
DmRows ==
  {Row("", w, s) : w \in {{"CSCN", "SSEK"}, {"SSEK"}, {"HAGR"}, {"SAGR", "SORT"}, {"NEST LOOP"}}, s \in {1, 10001}}
OracleRows ==
  {Row(t, w, s) : t \in {"t", "u"}, s \in {1, 10001, 100001},
     w \in {{"TABLE ACCESS", "FULL", "costly"}, {"SORT", "ORDER"}, {"SORT", "GROUP"}, {"NESTED LOOPS"}}}
Judged == INSTANCE SlowSql WITH
  Plans <- {Plan("mysql", <<a, b>>) : a, b \in MysqlRows} \cup {Plan("dm", <<a, b>>) : a, b \in DmRows}
           \cup {Plan("oracle", <<a, b>>) : a, b \in OracleRows},
  MaxPlans <- 1, MaxTime <- 0, Templates <- {}, Times <- {}, MAX_DISTINCT <- 1, MaxRecords <- 0,
  Refs <- {}, Columns <- {}, Indexes <- {}, MaxRefs <- 0, MaxUses <- 0,
  now <- x1, count <- x2, analyzed <- x3, history <- x4, stats <- x5, log <- x6,
  refs <- x7, uses <- x8, indexes <- x9

\* Four plans of a statement, of which some are kept within one second.
Kept == INSTANCE SlowSql WITH
  Plans <- {Plan("mysql", <<>>), Plan("mysql", <<Row("t", {"all"}, 1)>>), Plan("mysql", <<Row("u", {"ref"}, 10001)>>),
            Plan("mysql", <<Row("u", {"index", "filesort"}, 10001)>>)},
  MaxPlans <- 4, MaxTime <- 3, Templates <- {}, Times <- {}, MAX_DISTINCT <- 1, MaxRecords <- 0,
  Refs <- {}, Columns <- {}, Indexes <- {}, MaxRefs <- 0, MaxUses <- 0,
  now <- x1, count <- x2, analyzed <- x3, history <- x4, stats <- x5, log <- x6,
  refs <- x7, uses <- x8, indexes <- x9

\* No plan, and statements that ran.
Stats == INSTANCE SlowSql WITH
  Plans <- {}, MaxPlans <- 0, MaxTime <- 0,
  Templates <- {"a", "b", "c"}, Times <- {0, 2}, MAX_DISTINCT <- 2, MaxRecords <- 4,
  Refs <- {}, Columns <- {}, Indexes <- {}, MaxRefs <- 0, MaxUses <- 0,
  now <- x1, count <- x2, analyzed <- x3, history <- x4, stats <- x5, log <- x6,
  refs <- x7, uses <- x8, indexes <- x9

\* A table under no alias and under two, one of another schema and one more.
Ref(db, name, alias) == [db |-> db, name |-> name, alias |-> alias]
I == INSTANCE SlowSql WITH
  Plans <- {}, MaxPlans <- 0, MaxTime <- 0, Templates <- {}, Times <- {}, MAX_DISTINCT <- 1, MaxRecords <- 0,
  Refs <- {Ref("", "t", ""), Ref("", "t", "x"), Ref("", "t", "y"), Ref("s", "t", "z"), Ref("s", "u", "x"), Ref("", "u", "")},
  Columns <- {"a", "b"}, MaxRefs <- 2, MaxUses <- 2,
  Indexes <- {<<<<"", "t">>, <<"a", "b">>>>, <<<<"", "t">>, <<"b">>>>, <<<<"s", "u">>, <<"b", "a">>>>},
  now <- x1, count <- x2, analyzed <- x3, history <- x4, stats <- x5, log <- x6,
  refs <- x7, uses <- x8, indexes <- x9

\* Three statements, the last in the outermost block; two queries of loops
\* and one declared cursor, each of a table of its own.
G == INSTANCE LineageSegments WITH
       Dml <- {"d1", "d2", "last"}, Queries <- {"q1", "q2"}, Cursors <- {"c1"},
       From <- ("q1" :> {"a"} @@ "q2" :> {"b"} @@ "c1" :> {"c"}),
       Forms <- {"procedure", "package", "anonymous"}, MaxWords <- 20,
       form <- x1, declared <- x2, body <- x3, open <- x4, written <- x5

\* Every way a statement may read, write, delete, create or fill a variable.
Text(dml, target, reads) ==
  [dml |-> dml, target |-> target, reads |-> reads, conds |-> {}, where |-> FALSE,
   calls |-> {}, into |-> "", uses |-> {}]
LineTexts ==
  {Text("TRUNCATE", "t", {}), Text("DELETE", "t", {}), Text("INSERT", "t", {"a"}), Text("MERGE", "t", {"b"}),
   Text("UPDATE", "t", {"b"}), Text("TEMP", "m", {"a"}), Text("INSERT", "u", {"t", "m"}),
   [Text("DELETE", "t", {}) EXCEPT !.where = TRUE, !.conds = {"a"}],
   [Text("INSERT", "t", {}) EXCEPT !.calls = {"f"}], [Text("INSERT", "t", {}) EXCEPT !.uses = {"v"}],
   [Text("SELECT", "", {"b"}) EXCEPT !.into = "v"]}
Kind == ("" :> "" @@ "p" :> "PROCEDURE" @@ "f" :> "FUNCTION" @@ "g" :> "TRIGGER")
A == INSTANCE LineageAnalyzer WITH
       Texts <- LineTexts, Places <- [proc : {"", "p", "f"}, loop : {{}}] \union {[proc |-> "g", loop |-> {"c"}]},
       Kind <- Kind, TriggerOn <- "a", MaxLines <- 3, script <- x1

\* Scripts of one move between three tables, of a chain, of a second target,
\* of a temporary table, and one that failed.
Script(moves, other) == [ok |-> TRUE, moves |-> moves, other |-> other, temp |-> {}]
B == INSTANCE LineageBatch WITH
       Scripts <- {Script({m}, {}) : m \in {"x", "y", "z"} \X {"x", "y", "z"}} \union
                  {Script({<<"x", "y">>, <<"y", "z">>}, {}), Script({<<"x", "y">>}, {"z"}),
                   [Script({<<"z", "m">>, <<"m", "x">>}, {}) EXCEPT !.temp = {"m"}],
                   [Script({<<"x", "y">>}, {}) EXCEPT !.ok = FALSE]},
       MaxFiles <- 3, files <- x1

\* Two WITH clauses over two tables without a column in common.
O == INSTANCE LineageColumns WITH
       Tables <- {"t", "u"}, Schema <- ("t" :> {"x"} @@ "u" :> {"y"}), Aliases <- {"a"},
       CteNames <- <<"c", "d">>, Columns <- {"x"}, ctes <- x1, last <- x2

\* Chains, a cycle, a table into itself and joins, with a reference that
\* names its table and one that does not.
Mapping(target, tables, ref) == [target |-> target, tables |-> tables, ref |-> ref]
Graph == INSTANCE LineageGraph WITH
       Mappings <- {Mapping("b", {"a"}, ""), Mapping("c", {"b"}, ""), Mapping("d", {"c"}, ""), Mapping("a", {"d"}, ""),
                    Mapping("a", {"b"}, ""), Mapping("a", {"a"}, ""),
                    Mapping("b", {"b", "a"}, "a"), Mapping("c", {"a", "d"}, ""), Mapping("d", {"a", "c"}, "c")},
       MaxMappings <- 4, Asset <- "a", MaxDepth <- 2, MaxNodes <- 3, mappings <- x1

-----------------------------------------------------------------------------
\* The variables of a module that has no part in the behaviour.
NoStatement == sql = 0 /\ keys = 0 /\ large = 0 /\ stream = 0 /\ mode = 0 /\ estimate = 0
NoCaches ==
  /\ now = 0 /\ dir = 0 /\ writers = 0 /\ payloads = 0 /\ columns = 0 /\ index = 0
  /\ owner = 0 /\ readers = 0 /\ blurred = 0
NoMarks == row = 0 /\ trail = 0 /\ pending = 0
NoMetadata == cache = 0 /\ requests = 0 /\ known = 0
NoAssistant ==
  /\ file = 0 /\ saves = 0 /\ analysis = 0 /\ jobs = 0 /\ threads = 0 /\ made = 0
  /\ hasKey = 0 /\ collided = 0
NoCatalog == NoCaches /\ NoMarks /\ NoMetadata /\ raced = 0 /\ NoAssistant
Rest(n) ==
  /\ n < 1 => x1 = 0
  /\ n < 2 => x2 = 0
  /\ n < 5 => x3 = 0 /\ x4 = 0 /\ x5 = 0
  /\ n < 9 => x6 = 0 /\ x7 = 0 /\ x8 = 0 /\ x9 = 0

Init ==
  /\ NoCatalog
  /\ \/ part = "preflight" /\ P!Init /\ Rest(0)
     \/ part = "segments" /\ G!Init /\ Rest(5) /\ NoStatement
     \/ part = "analysis" /\ A!Init /\ Rest(1) /\ NoStatement
     \/ part = "batch" /\ B!Init /\ Rest(1) /\ NoStatement
     \/ part = "columns" /\ O!Init /\ Rest(2) /\ NoStatement
     \/ part = "judged" /\ Judged!Init /\ NoStatement
     \/ part = "kept" /\ Kept!Init /\ NoStatement
     \/ part = "stats" /\ Stats!Init /\ NoStatement
     \/ part = "advice" /\ I!Init /\ NoStatement

Next ==
  /\ UNCHANGED <<part, caches, marks, metadata, raced, assistant>>
  /\ \/ part = "preflight" /\ P!Next /\ UNCHANGED others
     \/ /\ \/ part = "segments" /\ G!Next /\ UNCHANGED After5
           \/ part = "analysis" /\ A!Next /\ UNCHANGED After1
           \/ part = "batch" /\ B!Next /\ UNCHANGED After1
           \/ part = "columns" /\ O!Next /\ UNCHANGED After2
           \/ part = "judged" /\ Judged!Next
           \/ part = "kept" /\ Kept!Next
           \/ part = "stats" /\ Stats!Next
           \/ part = "advice" /\ I!Next
        /\ UNCHANGED statement

Spec == Init /\ [][Next]_vars

CatalogInit ==
  /\ NoStatement
  /\ \/ part \in DOMAIN Casts /\ C!Init
        /\ NoMarks /\ NoMetadata /\ raced = 0 /\ NoAssistant /\ Rest(0)
     \/ part = "aspects" /\ Trail!Init
        /\ NoCaches /\ NoMetadata /\ NoAssistant /\ Rest(0)
     \/ part = "metadata" /\ M!Init
        /\ NoCaches /\ NoMarks /\ NoAssistant /\ Rest(0)
     \/ part \in DOMAIN Loads /\ Answers!Init
        /\ NoCaches /\ NoMarks /\ NoMetadata /\ raced = 0 /\ Rest(0)
     \/ part = "settings" /\ Settings!Init
        /\ NoCaches /\ NoMarks /\ NoMetadata /\ raced = 0 /\ Rest(0)
     \/ part = "graph" /\ Graph!Init /\ Rest(1) /\ NoCatalog

\* The runs and the lookups of a part.
InCast(cast) ==
  /\ \A r \in Runs \ cast.runs : writers[r] = "new"
  /\ \A r \in Readers : readers[r] = C!Idle \/ (r \in cast.readers /\ readers[r].want \in cast.asked)

\* The jobs of a part.
InLoad(load) ==
  /\ Cardinality(DOMAIN threads) <= load.jobs
  /\ ~load.answered => \A id \in DOMAIN threads :
       threads[id].edges = {} /\ threads[id].hints = {} /\ Len(threads[id].todo) <= 1

CatalogNext ==
  /\ UNCHANGED <<part, statement>>
  /\ \/ /\ part \in DOMAIN Casts /\ C!Next /\ InCast(Casts[part])'
        /\ UNCHANGED <<marks, metadata, raced, assistant, others>>
     \/ /\ part = "aspects" /\ Trail!Next
        /\ UNCHANGED <<caches, metadata, assistant, others>>
     \/ /\ part = "metadata" /\ M!Next
        /\ UNCHANGED <<caches, marks, assistant, others>>
     \/ /\ part \in DOMAIN Loads /\ Answers!Next /\ InLoad(Loads[part])'
        /\ UNCHANGED <<caches, marks, metadata, raced, others>>
     \/ /\ part = "settings" /\ Settings!Next
        /\ UNCHANGED <<caches, marks, metadata, raced, others>>
     \/ /\ part = "graph" /\ Graph!Next
        /\ UNCHANGED <<caches, marks, metadata, raced, assistant, After1>>

CatalogSpec == CatalogInit /\ [][CatalogNext]_vars

ASSUME InstancesAssumption ==
  /\ Judged!MaxAssumption /\ Kept!MaxAssumption /\ Stats!MaxAssumption
  /\ P!NamesAssumption /\ C!TTLAssumption /\ M!ObjectsAssumption /\ Answers!LimitsAssumption
  /\ DOMAIN Casts \cap DOMAIN Loads = {}
  /\ (DOMAIN Casts \cup DOMAIN Loads) \cap {"aspects", "metadata", "settings", "graph"} = {}

-----------------------------------------------------------------------------
\* A statement of a script is read whole, once, and under the cursors of the
\* loops it is in; and what a report says of a target is what the statements
\* do to it: how it is refreshed, from which tables and in which order.
ScriptsAreRead ==
  /\ part = "segments" => G!StatementsKeepTheirLoop
  /\ part = "analysis" => A!RefreshModeIsRight /\ A!ReportIsTheScript

\* The order, the chains and the conflicts of a batch follow from the
\* reports of its scripts.
BatchIsConsistent == part = "batch" => B!BatchIsConsistent

\* The tables given for a column are among those it is computed from, and all
\* of them where the query is plain; unless an alias names two relations.
SourcesAreTrue == part = "columns" => O!SourcesAreTrue

\* What a plan shows is advised on, and an index that is advised serves the
\* columns it is for and is not there.
AdviceIsRight ==
  /\ part = "judged" => Judged!AdviceIsComplete
  /\ part = "advice" => I!AdviceIsUsable

\* The difference of two plans is that of the last two kept, and statistics
\* keep the statements seen last.
LastIsKept ==
  /\ part = "kept" => Kept!DiffIsTheLastStep
  /\ part = "stats" => Stats!KeepsTheRecent

\* A comparison that is let through reads sorted rows.
AcceptedIsSorted == part = "preflight" => P!AcceptedIsSorted

\* A statement is not judged less of a risk for reading more.
RiskIsMonotone == [][part = "preflight" => P!NeverMilder]_vars

-----------------------------------------------------------------------------
\* When every change of the runs has returned, a cache that counts as fresh was
\* built from the runs there are.
CachesAreTrue == part \in DOMAIN Casts => C!CachesAreTrue

\* A lookup in the graph gives the tables within its depth and its bounds, the
\* edges between them, and the chains of a column.
LookupsAreRight == part = "graph" => Graph!SubgraphIsRight /\ Graph!ChainsAreRight

\* The records of a mark's changes follow from one another and end in it.
TrailIsWhole == part = "aspects" => Trail!TrailIsWhole

\* A job of the language model is forgotten only for a newer one, only edges
\* and columns that were asked for and are known come out of it, and saving
\* the settings keeps the key.
AnswersAreGuarded ==
  /\ part \in DOMAIN Loads => Answers!LostOnlyToNewer /\ Answers!InferenceIsGuarded
  /\ part = "settings" => Settings!KeyIsKept

\* A search gives the listings fetched last, the best first, unless a scope
\* changed under the request that saved it.
SearchFindsTheFetched == part = "metadata" => M!SearchFindsTheFetched
-----------------------------------------------------------------------------
(* The small instance.                                                     *)

\* Two runs and a reader that looks for the parsed runs and the columns; one
\* run and two readers, whose lookups of two caches wait for each other.
RunsOrReaders ==
  [runs |-> [runs |-> {"a", "b"}, readers |-> {"r"}, asked |-> {"payloads", "columns"}],
   readers |-> [runs |-> {"a"}, readers |-> {"r", "q"}, asked |-> {"columns", "index"}]]

\* A table of a named schema, one of the default schema, and a column.
Listing(scope, key, schema, table, words, inSchema) ==
  [scope |-> scope, key |-> key, schema |-> schema, table |-> table, at |-> 1, words |-> words, inSchema |-> inSchema]
ThreeListings ==
  {Listing("tables", "s", 1, 1, {"x", "s"}, {"s"}), Listing("tables", "__default__", 0, 2, {"x"}, {}),
   Listing("columns", "s.1", 1, 1, {"x", "s"}, {"s"})}
SomeWords == {{"x"}, {"s"}, {"x", "s"}}

\* No fragment, or two of each kind that is asked about, and a column: five
\* calls, of which the limit leaves three.
OneColumn == <<"c">>
NoneOrTwo == {<<>>, <<"", "", "low", "string_literal", "high">>}

\* Two jobs whose calls are answered in any way; four that get no answers and
\* meet in the table.
AnsweredOrMany ==
  [answers |-> [jobs |-> 2, answered |-> TRUE], table |-> [jobs |-> 4, answered |-> FALSE]]
=============================================================================
