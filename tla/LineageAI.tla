------------------------------ MODULE LineageAI ------------------------------
(***************************************************************************)
(* The assistant of the lineage analysis: what an analysis hands to a      *)
(* language model, the threads that wait for its answers, the table of     *)
(* their jobs, which forgets the oldest, and the file of the settings.     *)
(*                                                                         *)
(* A fragment is a piece of SQL the parser gave up on, with the confidence *)
(* of dynamic SQL or "" for a parse error.  The prompts, the protocols of  *)
(* the providers and the wording of the answers are left out: an answer is *)
(* any list over known and unknown tables, no list at all, or a failure.   *)
(***************************************************************************)
EXTENDS Naturals, Sequences, FiniteSets, SequencesExt, FiniteSetsExt

CONSTANTS
  Tables, Unknown,   \* tables of the script, and names that are not its tables
  Columns,           \* the columns whose table the parser could not tell, a sequence
  Fragments,         \* sequences of confidences an analysis may have
  MaxFragments,      \* at most so many fragments of a kind are asked about
  MaxJobs,           \* the size of the table of jobs
  Savers,            \* requests that save the settings
  MaxRequests        \* bound: no analysis once so many jobs are made

LimitsAssumption ==
  /\ MaxJobs \in Nat \ {0} /\ MaxFragments \in Nat
  /\ \A fragments \in Fragments : IsFiniteSet(DOMAIN fragments)

VARIABLES
  file,      \* the settings on disk: [provider, key, infer], or Nothing
  saves,     \* saver to [pc, key, infer, read]
  analysis,  \* the analysis between its two parts: [asked], or Nothing
  jobs,      \* the table, oldest first: [id, status, edges, hints]
  threads,   \* id to [kind, able, todo, edges, hints, calls]
  \* history:
  made,      \* jobs in the order they came into the table, a sequence of ids
  hasKey,    \* what the saves that ended say of the key
  collided   \* two saves have overlapped
vars == <<file, saves, analysis, jobs, threads, made, hasKey, collided>>

Nothing == [none |-> TRUE]
Default == [provider |-> "off", key |-> FALSE, infer |-> FALSE]
Idle == [pc |-> "idle", key |-> "keep", infer |-> FALSE, read |-> Default]

\* An empty file reads as no settings.
Config == IF file = Nothing THEN Default ELSE file

-----------------------------------------------------------------------------
(* The table of jobs.                                                      *)

Evicted(table) == SubSeq(table, 1 + Max({1, MaxJobs \div 5}), Len(table))

Room(table) == IF Len(table) >= MaxJobs THEN Evicted(table) ELSE table
IndexOf(table, id) == {i \in DOMAIN table : table[i].id = id}

\* A job that is still there keeps its place; another comes last.
Stored(table, job) ==
  LET kept == Room(table)
      at == IndexOf(kept, job.id)
  IN IF at = {} THEN Append(kept, job) ELSE [kept EXCEPT ![CHOOSE i \in at : TRUE] = job]

StoreAiJob(job) ==
  /\ jobs' = Stored(jobs, job)
  /\ made' = IF IndexOf(Room(jobs), job.id) = {} THEN Append(made, job.id) ELSE made

Job(id, status, edges, hints) == [id |-> id, status |-> status, edges |-> edges, hints |-> hints]

-----------------------------------------------------------------------------
(* What is asked, and what is kept of the answers.                         *)

Triggers == {"unresolved", "low", "string_literal"}

\* Mutant: a call for each fragment, however many there are.
CallsFor_Each(fragments, kinds) ==
  [k \in 1..Cardinality({i \in DOMAIN fragments : fragments[i] \in kinds}) |-> "fragment"]

\* A call for each fragment of these kinds, but no more than MaxFragments.
CallsFor(fragments, kinds) ==
  [k \in 1..Min({Cardinality({i \in DOMAIN fragments : fragments[i] \in kinds}), MaxFragments}) |-> "fragment"]

\* One more for the columns.
Calls(fragments) ==
  CallsFor(fragments, {""}) \o CallsFor(fragments, Triggers) \o (IF Columns = <<>> THEN <<>> ELSE <<"columns">>)

\* A source that is not a table of the script is left open.
ValidEdges(answer) ==
  {[source |-> IF e.source \in Tables THEN e.source ELSE "", target |-> e.target] :
     e \in {f \in answer : f.target \in Tables}}

\* The first valid hint for a column.
ValidHints(answer) ==
  LET valid == {j \in DOMAIN answer : answer[j].table \in Tables}
  IN {answer[i] : i \in {j \in valid : ~\E k \in valid : k < j /\ answer[k].column = answer[j].column}}

Answers == {S \in SUBSET [source : Tables \cup Unknown, target : Tables \cup Unknown] : Cardinality(S) <= 1}
HintLists == {<<>>} \cup {<<h, g>> : h, g \in [column : ToSet(Columns), table : Tables \cup Unknown]}

-----------------------------------------------------------------------------
(* Analyses.                                                               *)

NextId == Cardinality(DOMAIN threads) + 1
Start(id, kind, able, todo) ==
  threads' = [i \in DOMAIN threads \cup {id} |->
                IF i = id THEN [kind |-> kind, able |-> able, todo |-> todo, edges |-> {}, hints |-> {}, calls |-> 0]
                ELSE threads[i]]

\* The inference first, if it was asked for, is enabled and has something to do.
Analyze(asked, fragments) ==
  /\ analysis = Nothing /\ NextId <= MaxRequests
  /\ analysis' = [asked |-> asked]
  /\ IF asked /\ (fragments # <<>> \/ Columns # <<>>) /\ Config.infer
     THEN /\ StoreAiJob(Job(NextId, "pending", {}, {}))
          /\ Start(NextId, "inference", Config.provider = "http" /\ Config.key,
                   IF Config.provider \in {"http", "mock"} THEN Calls(fragments) ELSE <<>>)
     ELSE UNCHANGED <<jobs, made, threads>>
  /\ UNCHANGED <<file, saves, hasKey, collided>>

\* Then the enrichment, by the settings as they are now.
Complete(config) == config.provider = "mock" \/ (config.provider = "http" /\ config.key)
Enrich ==
  /\ analysis # Nothing
  /\ analysis' = Nothing
  /\ IF analysis.asked /\ Complete(Config)
     THEN /\ StoreAiJob(Job(NextId, "pending", {}, {}))
          /\ Start(NextId, "enrichment", TRUE, <<>>)
     ELSE UNCHANGED <<jobs, made, threads>>
  /\ UNCHANGED <<file, saves, hasKey, collided>>

-----------------------------------------------------------------------------
(* Threads.                                                                *)

Still == UNCHANGED <<file, saves, analysis, hasKey, collided>>
Live(id, kind) == id \in DOMAIN threads /\ threads[id].kind = kind

Running(id) ==
  /\ Live(id, "inference")
  /\ StoreAiJob(Job(id, "running", {}, {}))
  /\ threads' = [threads EXCEPT ![id].kind = "running"]
  /\ Still

\* A call that fails, for want of a key too, leaves only a warning.
Call(id) ==
  /\ Live(id, "running") /\ threads[id].todo # <<>>
  /\ LET t == threads[id]
         After(edges, hints) == [t EXCEPT !.todo = Tail(@), !.calls = @ + 1, !.edges = @ \cup edges, !.hints = @ \cup hints]
     IN \/ threads' = [threads EXCEPT ![id] = After({}, {})]
        \/ /\ t.able /\ Head(t.todo) # "columns"
           /\ \E a \in Answers : threads' = [threads EXCEPT ![id] = After(ValidEdges(a), {})]
        \/ /\ t.able /\ Head(t.todo) = "columns"
           /\ \E a \in HintLists : threads' = [threads EXCEPT ![id] = After({}, ValidHints(a))]
  /\ UNCHANGED <<jobs, made>> /\ Still

End(id, status) ==
  /\ StoreAiJob(Job(id, status, threads[id].edges, threads[id].hints))
  /\ threads' = [threads EXCEPT ![id] = [@ EXCEPT !.kind = "ended", !.edges = {}, !.hints = {}]]
  /\ Still

EndInference(id) == Live(id, "running") /\ threads[id].todo = <<>> /\ End(id, "ok")
EndEnrichment(id) == Live(id, "enrichment") /\ \E status \in {"success", "error"} : End(id, status)

-----------------------------------------------------------------------------
(* Settings.  Each request reads the file, then empties and rewrites it.   *)

Saving == {s \in Savers : saves[s].pc \notin {"idle", "done"}}
Untouched == UNCHANGED <<analysis, jobs, threads, made>>

BeginSave(s, key, infer) ==
  /\ saves[s].pc = "idle"
  /\ saves' = [saves EXCEPT ![s] = [pc |-> "read", key |-> key, infer |-> infer, read |-> Config]]
  /\ collided' = (collided \/ Saving # {})
  /\ UNCHANGED <<file, hasKey>> /\ Untouched

Truncate(s) ==
  /\ saves[s].pc = "read"
  /\ file' = Nothing
  /\ saves' = [saves EXCEPT ![s].pc = "write"]
  /\ UNCHANGED <<hasKey, collided>> /\ Untouched

NextKey(save) == IF save.key = "keep" THEN save.read.key ELSE save.key = "set"
Write(s) ==
  /\ saves[s].pc = "write"
  /\ file' = [provider |-> "http", key |-> NextKey(saves[s]), infer |-> saves[s].infer]
  /\ saves' = [saves EXCEPT ![s] = [Idle EXCEPT !.pc = "done"]]
  /\ hasKey' = IF saves[s].key = "keep" THEN hasKey ELSE saves[s].key = "set"
  /\ UNCHANGED collided /\ Untouched

-----------------------------------------------------------------------------
Init ==
  /\ file \in {Nothing, [provider |-> "mock", key |-> FALSE, infer |-> TRUE], [provider |-> "http", key |-> TRUE, infer |-> TRUE]}
  /\ saves = [s \in Savers |-> Idle]
  /\ analysis = Nothing /\ jobs = <<>> /\ threads = <<>> /\ made = <<>>
  /\ hasKey = Config.key /\ collided = FALSE

Next ==
  \/ \E asked \in BOOLEAN, f \in Fragments : Analyze(asked, f)
  \/ Enrich
  \/ \E id \in DOMAIN threads : Running(id) \/ Call(id) \/ EndInference(id) \/ EndEnrichment(id)
  \/ \E s \in Savers : \/ \E key \in {"keep", "set", "clear"}, infer \in BOOLEAN : BeginSave(s, key, infer)
                       \/ Truncate(s) \/ Write(s)

Spec == Init /\ [][Next]_vars

-----------------------------------------------------------------------------
(* The table is bounded, and a job that is not in it was pushed out by     *)
(* jobs that came after it, as many as the table keeps; a late answer of   *)
(* a forgotten job comes in as the newest.                                 *)
LostOnlyToNewer ==
  /\ Len(jobs) <= MaxJobs
  /\ \A id \in ToSet(made) : IndexOf(jobs, id) = {} =>
       LET last == Max({i \in DOMAIN made : made[i] = id})
       IN Cardinality({made[i] : i \in (last + 1)..Len(made)}) >= MaxJobs - Max({1, MaxJobs \div 5})

(* Whatever a model answers, the edges of a job lead to tables of the      *)
(* script, from one of them or from nowhere, a column is given one table,  *)
(* and there were no more calls than the limits allow.                     *)
InferenceIsGuarded ==
  /\ \A i \in DOMAIN jobs : \A e \in jobs[i].edges : e.target \in Tables /\ e.source \in Tables \cup {""}
  /\ \A i \in DOMAIN jobs : \A g, h \in jobs[i].hints : g.table \in Tables /\ (g.column = h.column => g = h)
  /\ \A id \in DOMAIN threads : threads[id].calls <= 2 * MaxFragments + 1

(* Unless two saves overlapped, the key on disk is what the saves that     *)
(* ended made of it: the empty file between two steps of a save is read by *)
(* analyses only.                                                          *)
KeyIsKept ==
  ~collided /\ (\A s \in Savers : saves[s].pc # "write") => Config.key = hasKey
=============================================================================
