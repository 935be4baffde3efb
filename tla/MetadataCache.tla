---------------------------- MODULE MetadataCache ----------------------------
(***************************************************************************)
(* The workbench's cache of one data source's metadata, and the search in  *)
(* it.  A request reads the cache, asks the database outside of any lock   *)
(* when the cache does not answer it, and writes back the whole scope it   *)
(* had read with its key added.  A refresh empties a scope or removes the  *)
(* file.  When the entries were fetched is left out.                       *)
(***************************************************************************)
EXTENDS Naturals, Sequences, FiniteSets, Functions

CONSTANTS
  Objects,   \* [scope, key, schema, table, at, words, inSchema]: what the database may have
  Requests,  \* requests for metadata
  Queries,   \* sets of words asked for
  Limits     \* numbers of hits asked for

\* An object is told by its scope, its schema, its table and its place there; the
\* name of a schema has the same words wherever it stands.
ObjectsAssumption ==
  /\ IsFiniteSet(Objects) /\ Limits \subseteq Nat
  /\ \A o \in Objects : o.scope \in {"tables", "columns", "views"} /\ {o.schema, o.table, o.at} \subseteq Nat
  /\ \A o, p \in Objects :
       /\ o.schema = p.schema => o.inSchema = p.inSchema
       /\ <<o.scope, o.schema, o.table, o.at>> = <<p.scope, p.schema, p.table, p.at>> => o = p

VARIABLES
  cache,     \* scope to key to objects; empty without an entry in the file
  requests,  \* request to [scope, key, items, live], or Nothing
  known,     \* history: what requests fetched since a refresh, until raced
  raced      \* history: a scope changed under a request that then saved it
vars == <<cache, requests, known, raced>>

Scopes  == {o.scope : o \in Objects}
Nothing == [none |-> TRUE]
Empty   == [s \in Scopes |-> <<>>]

\* A request the cache answers changes nothing; refresh asks past the cache.
Ask(r, s, k, refresh) ==
  /\ requests[r] = Nothing
  /\ refresh \/ k \notin DOMAIN cache[s]
  /\ requests' = [requests EXCEPT ![r] = [scope |-> s, key |-> k, items |-> cache[s], live |-> Nothing]]
  /\ UNCHANGED <<cache, known, raced>>

\* The database may list any of them by now.
Fetch(r) ==
  /\ requests[r] # Nothing /\ requests[r].live = Nothing
  /\ \E listed \in SUBSET {o \in Objects : o.scope = requests[r].scope /\ o.key = requests[r].key} :
       requests' = [requests EXCEPT ![r].live = [objects |-> listed]]
  /\ UNCHANGED <<cache, known, raced>>

\* The entry there was, if any, is the answer.
FetchFails(r) ==
  /\ requests[r] # Nothing /\ requests[r].live = Nothing
  /\ requests' = [requests EXCEPT ![r] = Nothing]
  /\ UNCHANGED <<cache, known, raced>>

\* Mutant: the other keys of the scope are dropped.
Merged_Alone(items, k, objects) == [key \in {k} |-> objects]
Merged(items, k, objects) == [key \in DOMAIN items \union {k} |-> IF key = k THEN objects ELSE items[key]]

Save(r) ==
  LET q == requests[r] IN
  /\ q # Nothing /\ q.live # Nothing
  /\ cache' = [cache EXCEPT ![q.scope] = Merged(q.items, q.key, q.live.objects)]
  /\ raced' = (raced \/ cache[q.scope] # q.items)
  /\ known' = IF raced' THEN {} ELSE
       {e \in known : <<e.scope, e.key>> # <<q.scope, q.key>>}
       \union {[scope |-> q.scope, key |-> q.key, objects |-> q.live.objects]}
  /\ requests' = [requests EXCEPT ![r] = Nothing]

Refresh(scopes) ==
  /\ cache' = [s \in Scopes |-> IF s \in scopes THEN <<>> ELSE cache[s]]
  /\ known' = {e \in known : e.scope \notin scopes}
  /\ UNCHANGED <<requests, raced>>

\* The file cannot be removed: the refresh is answered all the same.
RefreshFails == UNCHANGED vars

Init ==
  /\ cache = Empty /\ known = {} /\ raced = FALSE
  /\ requests = [r \in Requests |-> Nothing]

Next ==
  \/ \E r \in Requests : Fetch(r) \/ FetchFails(r) \/ Save(r)
  \/ \E r \in Requests, o \in Objects, refresh \in BOOLEAN : Ask(r, o.scope, o.key, refresh)
  \/ Refresh(Scopes)
  \/ RefreshFails
  \/ \E s \in Scopes : Refresh({s})

Spec == Init /\ [][Next]_vars

-----------------------------------------------------------------------------
(* Search, in the cache alone. *)
Weight(scope) == CASE scope = "tables" -> 50 [] scope = "columns" -> 40 [] scope = "views" -> 30
_schema_bonus(o, words) == IF words \intersect o.inSchema # {} THEN 10 ELSE 0
Score(o, words) == Weight(o.scope) + _schema_bonus(o, words)

Hits(scope, words) ==
  {o \in UNION Range(cache[scope]) : words \subseteq o.words}

Ahead(o, p, words) ==
  \/ Score(o, words) > Score(p, words)
  \/ Score(o, words) = Score(p, words) /\ o.schema < p.schema
  \/ Score(o, words) = Score(p, words) /\ o.schema = p.schema /\ o.table < p.table
  \/ Score(o, words) = Score(p, words) /\ o.schema = p.schema /\ o.table = p.table /\ o.at < p.at

search_metadata(words, kinds, limit) ==
  LET found == UNION {Hits(scope, words) : scope \in kinds}
      all   == [i \in 1..Cardinality(found) |->
                  CHOOSE o \in found : Cardinality({p \in found : Ahead(p, o, words)}) = i - 1]
  IN IF words = {} THEN <<>> ELSE SubSeq(all, 1, IF limit < Len(all) THEN limit ELSE Len(all))

(* Unless a scope changed under a request that then saved it, a search for *)
(* some words gives what the last fetches since the refresh listed: no     *)
(* listing that another request or the refresh of another scope took away, *)
(* and none the limit cut for a hit that weighs less, but for a match of   *)
(* the schema's name.                                                      *)
SearchFindsTheFetched ==
  ~raced => \A words \in Queries, kinds \in SUBSET Scopes, limit \in Limits :
    LET fetched == {o \in UNION {e.objects : e \in known} : words # {} /\ words \subseteq o.words /\ o.scope \in kinds}
        hits    == search_metadata(words, kinds, limit)
    IN /\ Range(hits) \subseteq fetched /\ IsInjective(hits)
       /\ Len(hits) = limit \/ Range(hits) = fetched
       /\ \A i \in DOMAIN hits, o \in fetched : o \in Range(hits) \/ Weight(o.scope) <= Weight(hits[i].scope) + 10
       /\ \A i, j \in DOMAIN hits : i < j => Score(hits[i], words) >= Score(hits[j], words)
=============================================================================
