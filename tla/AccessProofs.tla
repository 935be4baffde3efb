---------------------------- MODULE AccessProofs ----------------------------
(***************************************************************************)
(* Proofs about the modules that MCAccess puts side by side, for every     *)
(* value of their constants.                                               *)
(***************************************************************************)
EXTENDS MCAccess, FiniteSetTheorems, NaturalsInduction, WellFoundedInduction, TLAPS

-----------------------------------------------------------------------------
(* A behaviour is one of its part.                                         *)

LEMMA InitOfPart ==
  ASSUME Init
  PROVE  /\ part = "files" => F!Init
         /\ part = "sessions" => S!Init
         /\ part = "rate" => L!Init
         /\ part = "factor" => M!Init
         /\ part = "projects" => P!Init
         /\ part = "admission" => A!Init
  BY DEF Init

LEMMA StepOfPart ==
  ASSUME [Next]_vars
  PROVE  /\ part' = part
         /\ part = "files" => [F!Next]_(F!vars)
         /\ part = "sessions" => [S!Next]_(S!vars)
         /\ part = "rate" => [L!Next]_(L!vars)
         /\ part = "factor" => [M!Next]_(M!vars)
         /\ part = "projects" => [P!Next]_(P!vars)
         /\ part = "admission" => [A!Next]_(A!vars)
<1>1. CASE UNCHANGED vars
  BY <1>1 DEF vars, files, sessions, rates, factors, projects, admission, F!vars, S!vars, L!vars, M!vars, P!vars, A!vars
<1>2. CASE Next
  BY <1>2 DEF Next, Files, Session, Rate, Factor, Project, Admit
<1>3. QED BY <1>1, <1>2

-----------------------------------------------------------------------------
(* The users' file.                                                        *)

Records  == [Ids -> Nat]
InStore  == {"stat", "load", "found", "restat", "reload", "replace", "restamp"}
PastIt   == {"raw", "open", "write", "drop"}
InDelete == {"take", "restat", "reload", "replace", "restamp"}
Writing  == {"write", "drop"}

FileTypeOK ==
  /\ file \in [data : Records, mtime : Nat, torn : BOOLEAN]
  /\ cache \in [data : Records, mtime : Nat]
  /\ lock \in Threads \cup {F!Free}
  /\ pc \in [Threads -> {"idle", "find", "take"} \cup InStore \cup PastIt]
  /\ op \in [Threads -> F!Calls] /\ id \in [Threads -> Ids \cup {F!NoId}]
  /\ read \in [Threads -> Records] /\ found \in [Threads -> Nat]
  /\ writes \in Nat /\ kept \in Records /\ overlapped \in BOOLEAN

\* Who is in the store holds its lock; a place goes with what is done there.
PlaceInv ==
  \A t \in Threads :
    /\ pc[t] \in InStore => lock = t
    /\ pc[t] # "idle" => id[t] \in Ids
    /\ pc[t] \in PastIt => op[t] \in F!Patches
    /\ pc[t] \in InDelete => op[t] = "delete"

\* The cache is made under an mtime the file has had.  What a deletion is about
\* to cache is the file, but for a writer who waits for the lock to drop it.
CacheInv ==
  /\ cache.mtime <= file.mtime
  /\ \A t \in Threads : pc[t] \in {"load", "reload"} => found[t] <= file.mtime
  /\ F!ServedIsCurrent
  /\ \A t \in Threads : pc[t] = "restamp" /\ read[t] # F!Content =>
                          \E u \in Threads : pc[u] \in Writing

\* The one handler that changes the file starts from what was kept, and differs
\* from it in its record only.
KeptInv ==
  ~overlapped =>
    /\ \A t, u \in Threads : F!Changing(t) /\ F!Changing(u) => t = u
    /\ (\A t \in Threads : pc[t] \notin Writing \cup {"restamp"}) => F!Content = kept
    /\ \A t \in Threads :
         /\ pc[t] \in {"replace", "open"} => read[t] = F!Content
         /\ pc[t] \in Writing \cup {"restamp"} => \A i \in Ids \ {id[t]} : read[t][i] = kept[i]
         /\ pc[t] \in {"drop", "restamp"} => F!Content = read[t]
         /\ pc[t] = "restamp" => read[t][id[t]] = F!Absent

FileInv == FileTypeOK /\ PlaceInv /\ CacheInv /\ KeptInv

FileAction(t) ==
  \/ F!Begin(t) \/ F!Take(t) \/ F!ReadCache(t) \/ F!Stat(t) \/ F!ReadFile(t) \/ F!Found(t)
  \/ F!DeleteReplaces(t) \/ F!DeleteCaches(t) \/ F!DeleteMissing(t)
  \/ F!ReadRaw(t) \/ F!Gone(t) \/ F!Truncate(t) \/ F!WriteInPlace(t) \/ F!DropCache(t)

\* A step of one thread is none of the others'.
LEMMA OthersWait ==
  ASSUME FileTypeOK, NEW t \in Threads, FileAction(t), NEW u \in Threads \ {t}
  PROVE  pc'[u] = pc[u] /\ op'[u] = op[u] /\ id'[u] = id[u] /\ read'[u] = read[u] /\ found'[u] = found[u]
  BY DEF FileTypeOK, FileAction, F!Begin, F!Take, F!ReadCache, F!Stat, F!ReadFile, F!Found, F!DeleteReplaces, F!DeleteCaches,
     F!DeleteMissing, F!ReadRaw, F!Gone, F!Truncate, F!WriteInPlace, F!DropCache, F!GoTo, F!local, F!past

\* What the file holds is data of records.
LEMMA ContentType == ASSUME FileTypeOK PROVE F!Content \in Records /\ F!Empty \in Records /\ F!Nothing \in [data : Records, mtime : Nat]
<1>1. F!Empty \in Records
  BY DEF F!Empty, Records, F!Absent
<1>2. F!Content \in Records
  BY <1>1 DEF F!Content, FileTypeOK
<1>3. QED BY <1>1, <1>2 DEF F!Nothing

\* A change keeps the types and never sets the mtime back.
LEMMA ChangeType ==
  ASSUME FileTypeOK, NEW d \in Records, NEW b \in BOOLEAN, F!Change(d, b)
  PROVE  /\ file' \in [data : Records, mtime : Nat, torn : BOOLEAN]
         /\ file.mtime <= file'.mtime
         /\ b = FALSE => F!Content' = d
<1>1. PICK tick \in {0, 1} : file' = [data |-> d, torn |-> b, mtime |-> file.mtime + tick]
  BY DEF F!Change
<1>2. file.mtime \in Nat
  BY DEF FileTypeOK
<1>3. file.mtime + tick \in Nat /\ file.mtime <= file.mtime + tick
  BY <1>2
<1>4. file'.mtime = file.mtime + tick /\ file'.torn = b /\ file'.data = d
  BY <1>1
<1>5. b = FALSE => F!Content' = d
  BY <1>4 DEF F!Content
<1>6. QED BY <1>1, <1>3, <1>4, <1>5

LEMMA FileTypeStep ==
  ASSUME FileTypeOK, PlaceInv, NEW t \in Threads, FileAction(t)
  PROVE  FileTypeOK'
<1> USE DEF FileTypeOK, F!GoTo, F!local, F!past, InStore, PastIt
<1>1. CASE F!Begin(t)
  BY <1>1 DEF F!Begin
<1>2. CASE F!Take(t) \/ F!ReadCache(t) \/ F!Stat(t)
  BY <1>2 DEF F!Take, F!ReadCache, F!Stat
<1>3. CASE F!ReadFile(t)
  BY <1>3, ContentType DEF F!ReadFile
<1>4. CASE F!Found(t)
  <2>1. read[t][id[t]] \in Nat
    BY <1>4 DEF F!Found, PlaceInv, Records
  <2>2. found' \in [Threads -> Nat]
    BY <1>4, <2>1 DEF F!Found
  <2>3. op[t] # "get" => F!AfterFind[op[t]] \in {"take", "raw"}
    BY DEF F!AfterFind, F!Calls, F!Patches
  <2>4. pc' \in [Threads -> {"idle", "find", "take"} \cup InStore \cup PastIt]
    BY <1>4, <2>3 DEF F!Found
  <2>5. QED BY <1>4, <2>2, <2>4 DEF F!Found
<1>5. CASE F!DeleteReplaces(t)
  <2> DEFINE next == [read[t] EXCEPT ![id[t]] = F!Absent]
  <2>1. next \in Records
    BY DEF Records, F!Absent
  <2>2. F!Change(next, FALSE) /\ read' = [read EXCEPT ![t] = next] /\ writes' = writes + 1
    BY <1>5 DEF F!DeleteReplaces
  <2> HIDE DEF next
  <2>3. file' \in [data : Records, mtime : Nat, torn : BOOLEAN]
    BY <2>1, <2>2, ChangeType
  <2>4. UNCHANGED <<cache, lock, op, id, found, kept, overlapped>> /\ pc' = [pc EXCEPT ![t] = "restamp"]
    BY <1>5 DEF F!DeleteReplaces
  <2>5. QED BY <2>1, <2>2, <2>3, <2>4
<1>6. CASE F!DeleteCaches(t)
  <2>1. kept' \in Records
    BY <1>6 DEF F!DeleteCaches, Records, F!Absent
  <2>2. QED BY <1>6, <2>1 DEF F!DeleteCaches
<1>7. CASE F!DeleteMissing(t) \/ F!Gone(t)
  BY <1>7 DEF F!DeleteMissing, F!Gone
<1>8. CASE F!ReadRaw(t)
  BY <1>8, ContentType DEF F!ReadRaw
<1>9. CASE F!Truncate(t)
  <2>1. writes' \in Nat /\ writes' = writes + 1
    BY <1>9 DEF F!Truncate
  <2>2. F!Patched(t, writes') \in Records
    BY <2>1 DEF F!Patched, Records
  <2>3. file' \in [data : Records, mtime : Nat, torn : BOOLEAN]
    BY <1>9, ChangeType DEF F!Truncate
  <2>4. read' \in [Threads -> Records]
    BY <1>9, <2>2 DEF F!Truncate
  <2>5. QED BY <1>9, <2>1, <2>3, <2>4 DEF F!Truncate
<1>10. CASE F!WriteInPlace(t)
  <2>1. file' \in [data : Records, mtime : Nat, torn : BOOLEAN]
    BY <1>10, ChangeType DEF F!WriteInPlace
  <2>2. QED BY <1>10, <2>1 DEF F!WriteInPlace
<1>11. CASE F!DropCache(t)
  <2>1. read[t][id[t]] \in Nat
    BY <1>11 DEF F!DropCache, PlaceInv, Records
  <2>2. kept' \in Records
    BY <1>11, <2>1 DEF F!DropCache, Records
  <2>3. QED BY <1>11, <2>2, ContentType DEF F!DropCache
<1>12. QED BY <1>1, <1>2, <1>3, <1>4, <1>5, <1>6, <1>7, <1>8, <1>9, <1>10, <1>11 DEF FileAction

LEMMA FilePlaceStep ==
  ASSUME F!ThreadsAssumption, FileTypeOK, PlaceInv, NEW t \in Threads, FileAction(t)
  PROVE  PlaceInv'
<1>1. ASSUME NEW u \in Threads, u # t
      PROVE  (/\ pc[u] \in InStore => lock = u
              /\ pc[u] # "idle" => id[u] \in Ids
              /\ pc[u] \in PastIt => op[u] \in F!Patches
              /\ pc[u] \in InDelete => op[u] = "delete")'
  <2>1. pc'[u] = pc[u] /\ op'[u] = op[u] /\ id'[u] = id[u]
    BY <1>1, OthersWait
  <2>2. lock' = lock \/ lock = F!Free \/ lock = t
    BY DEF FileAction, F!Begin, F!Take, F!ReadCache, F!Stat, F!ReadFile, F!Found, F!DeleteReplaces, F!DeleteCaches,
       F!DeleteMissing, F!ReadRaw, F!Gone, F!Truncate, F!WriteInPlace, F!DropCache, PlaceInv, InStore
  <2>3. QED BY <1>1, <2>1, <2>2 DEF PlaceInv, F!ThreadsAssumption
<1>2. (/\ pc[t] \in InStore => lock = t
       /\ pc[t] # "idle" => id[t] \in Ids
       /\ pc[t] \in PastIt => op[t] \in F!Patches
       /\ pc[t] \in InDelete => op[t] = "delete")'
  <2>0. /\ pc[t] # "idle" => id[t] \in Ids
        /\ pc[t] \in PastIt => op[t] \in F!Patches
        /\ pc[t] \in InDelete => op[t] = "delete"
    BY DEF PlaceInv
  <2>1. CASE F!Begin(t)
    BY <2>1 DEF F!Begin, FileTypeOK, F!GoTo, InStore, PastIt, InDelete
  <2>2. CASE F!Found(t)
    <3>0. \/ pc' = [pc EXCEPT ![t] = "idle"]
          \/ pc' = [pc EXCEPT ![t] = F!AfterFind[op[t]]] /\ op[t] # "get"
      <4>1. CASE op[t] # "get" /\ (read[t][id[t]] # F!Absent) = (op[t] # "create")
        BY <2>2, <4>1 DEF F!Found, F!GoTo
      <4>2. CASE ~(op[t] # "get" /\ (read[t][id[t]] # F!Absent) = (op[t] # "create"))
        BY <2>2, <4>2 DEF F!Found, F!GoTo
      <4>3. QED BY <4>1, <4>2
    <3>1. pc'[t] = "idle" \/ (pc'[t] = F!AfterFind[op[t]] /\ op[t] # "get")
      BY <3>0 DEF FileTypeOK
    <3>2. pc[t] = "found" /\ UNCHANGED <<op, id>> /\ op[t] \in F!Calls
      BY <2>2 DEF F!Found, FileTypeOK
    <3>a. /\ F!AfterFind["delete"] = "take" /\ F!AfterFind["create"] = "raw"
          /\ F!AfterFind["update"] = "raw" /\ F!AfterFind["fields"] = "raw"
      BY DEF F!AfterFind
    <3>3. \/ pc'[t] = "idle"
          \/ pc'[t] = "take" /\ op[t] = "delete"
          \/ pc'[t] = "raw" /\ op[t] \in F!Patches
      BY <3>1, <3>2, <3>a DEF F!Calls, F!Patches
    <3>4. QED BY <2>0, <3>2, <3>3 DEF InStore, PastIt, InDelete
  <2>3. CASE ~F!Begin(t) /\ ~F!Found(t)
    <3>1. UNCHANGED <<op, id>> /\ pc[t] # "idle"
      BY <2>3 DEF FileAction, F!Take, F!ReadCache, F!Stat, F!ReadFile, F!DeleteReplaces, F!DeleteCaches,
         F!DeleteMissing, F!ReadRaw, F!Gone, F!Truncate, F!WriteInPlace, F!DropCache, F!local
    <3>2. CASE F!Take(t) \/ F!ReadCache(t) \/ F!Stat(t) \/ F!ReadFile(t)
      <4>1. /\ pc'[t] \in InStore /\ pc[t] \notin PastIt
            /\ pc'[t] \in InDelete => pc[t] \in InDelete
        BY <3>2 DEF F!Take, F!ReadCache, F!Stat, F!ReadFile, FileTypeOK, F!GoTo, InStore, PastIt, InDelete
      <4>2. lock' = t
        BY <3>2 DEF F!Take, F!ReadCache, F!Stat, F!ReadFile, PlaceInv, InStore
      <4>3. pc'[t] \notin PastIt
        BY <4>1 DEF InStore, PastIt
      <4>4. QED BY <2>0, <3>1, <4>1, <4>2, <4>3
    <3>3. CASE F!DeleteReplaces(t) \/ F!DeleteCaches(t) \/ F!DeleteMissing(t)
      <4>1. /\ pc'[t] \in {"restamp", "idle"} /\ pc[t] \in InDelete /\ pc[t] \in InStore
            /\ pc'[t] = "restamp" => lock' = lock
        BY <3>3 DEF F!DeleteReplaces, F!DeleteCaches, F!DeleteMissing, FileTypeOK, F!GoTo, InDelete, InStore
      <4>2. QED BY <2>0, <3>1, <4>1 DEF PlaceInv, InStore, PastIt, InDelete
    <3>4. CASE F!ReadRaw(t) \/ F!Gone(t) \/ F!Truncate(t) \/ F!WriteInPlace(t) \/ F!DropCache(t)
      <4>1. pc'[t] \in PastIt \cup {"idle"} /\ pc[t] \in PastIt
        BY <3>4 DEF F!ReadRaw, F!Gone, F!Truncate, F!WriteInPlace, F!DropCache, FileTypeOK, F!GoTo, PastIt
      <4>2. QED BY <2>0, <3>1, <4>1 DEF InStore, PastIt, InDelete
    <3>5. QED BY <2>3, <3>2, <3>3, <3>4 DEF FileAction
  <2>4. QED BY <2>1, <2>2, <2>3
<1>3. QED BY <1>1, <1>2 DEF PlaceInv

\* The steps that touch neither the file nor the cache, nor end a change.
LEMMA CacheSame ==
  ASSUME FileTypeOK, CacheInv, UNCHANGED <<file, cache>>, NEW t \in Threads, FileAction(t),
         pc[t] \notin Writing \cup {"restamp"},
         pc'[t] \notin {"load", "reload", "restamp"}
  PROVE  CacheInv'
<1>1. F!Content' = F!Content
  BY DEF F!Content
<1>2. \A u \in Threads \ {t} : pc'[u] = pc[u] /\ read'[u] = read[u] /\ found'[u] = found[u]
  BY OthersWait
<1>3. ASSUME NEW u \in Threads, pc[u] \in Writing \cup {"restamp"} PROVE pc'[u] = pc[u]
  BY <1>2, <1>3
<1>4. F!ServedIsCurrent'
  <2>1. SUFFICES ASSUME (cache # F!Nothing /\ cache.mtime = file.mtime /\ cache.data # F!Content)'
                 PROVE  \E u \in Threads : pc'[u] \in {"write", "drop", "restamp"}
    BY DEF F!ServedIsCurrent
  <2>2. PICK u \in Threads : pc[u] \in {"write", "drop", "restamp"}
    BY <1>1, <2>1 DEF CacheInv, F!ServedIsCurrent, F!Nothing, F!Empty
  <2>3. QED BY <1>3, <2>2 DEF Writing
<1>5. ASSUME NEW u \in Threads, (pc[u] = "restamp" /\ read[u] # F!Content)'
      PROVE  \E v \in Threads : pc'[v] \in Writing
  <2>1. u # t /\ pc[u] = "restamp" /\ read[u] # F!Content
    BY <1>1, <1>2, <1>5
  <2>2. PICK v \in Threads : pc[v] \in Writing
    BY <2>1 DEF CacheInv
  <2>3. QED BY <1>3, <2>2
<1>6. \A u \in Threads : pc'[u] \in {"load", "reload"} => found'[u] <= file'.mtime
  BY <1>2 DEF CacheInv
<1>7. QED BY <1>4, <1>5, <1>6 DEF CacheInv

\* A step after which somebody is writing, or caching what he deletes from.
LEMMA CacheWhileWriting ==
  ASSUME FileTypeOK, PlaceInv, CacheInv, NEW t \in Threads, FileAction(t), UNCHANGED cache,
         file.mtime <= file'.mtime, file'.mtime \in Nat,
         \/ pc'[t] \in Writing
         \/ pc'[t] = "restamp" /\ read'[t] = F!Content' /\ lock = t
  PROVE  CacheInv'
<1>2. \A u \in Threads \ {t} : pc'[u] = pc[u] /\ read'[u] = read[u] /\ found'[u] = found[u]
  BY OthersWait
<1>3. /\ cache.mtime \in Nat /\ file.mtime \in Nat
      /\ \A u \in Threads : found[u] \in Nat
  BY DEF FileTypeOK
<1>4. cache'.mtime <= file'.mtime
  BY <1>3 DEF CacheInv
<1>5. F!ServedIsCurrent'
  BY DEF F!ServedIsCurrent, Writing
<1>6. ASSUME NEW u \in Threads, (pc[u] \in {"load", "reload"})' PROVE (found[u] <= file.mtime)'
  <2>1. u # t
    BY <1>6 DEF Writing
  <2>2. found'[u] = found[u] /\ found[u] <= file.mtime
    BY <1>2, <1>6, <2>1 DEF CacheInv
  <2>3. QED BY <1>3, <2>2
<1>7. ASSUME NEW u \in Threads, (pc[u] = "restamp" /\ read[u] # F!Content)'
      PROVE  \E v \in Threads : pc'[v] \in Writing
  <2>1. CASE pc'[t] \in Writing
    BY <2>1
  <2>2. CASE pc'[t] = "restamp" /\ read'[t] = F!Content' /\ lock = t
    <3>1. u # t /\ pc[u] = "restamp"
      BY <1>2, <1>7, <2>2
    <3>2. lock = u
      BY <3>1 DEF PlaceInv, InStore
    <3>3. QED BY <2>2, <3>1, <3>2
  <2>3. QED BY <2>1, <2>2
<1>8. QED BY <1>4, <1>5, <1>6, <1>7 DEF CacheInv

\* Every step keeps the cache current or on the way to be dropped.
LEMMA CacheStep ==
  ASSUME F!ThreadsAssumption, FileTypeOK, PlaceInv, CacheInv, NEW t \in Threads, FileAction(t)
  PROVE  CacheInv'
<1>0. \A u \in Threads \ {t} : pc'[u] = pc[u] /\ read'[u] = read[u] /\ found'[u] = found[u]
  BY OthersWait
<1>t. /\ pc \in [Threads -> {"idle", "find", "take"} \cup InStore \cup PastIt]
      /\ found \in [Threads -> Nat] /\ file.mtime \in Nat /\ cache.mtime \in Nat
      /\ read \in [Threads -> Records]
  BY DEF FileTypeOK
<1> USE DEF F!GoTo
<1>1. CASE F!Begin(t) \/ F!Take(t) \/ F!ReadCache(t) \/ F!DeleteMissing(t) \/ F!ReadRaw(t) \/ F!Gone(t)
  <2>1. pc[t] \notin Writing \cup {"restamp"} /\ pc'[t] \notin {"load", "reload", "restamp"}
    BY <1>1, <1>t DEF F!Begin, F!Take, F!ReadCache, F!DeleteMissing, F!ReadRaw, F!Gone, Writing
  <2>2. UNCHANGED <<file, cache>>
    BY <1>1 DEF F!Begin, F!Take, F!ReadCache, F!DeleteMissing, F!ReadRaw, F!Gone
  <2>3. QED BY <2>1, <2>2, CacheSame
<1>2. CASE F!Found(t)
  <2>1. UNCHANGED <<file, cache>> /\ pc[t] = "found"
    BY <1>2 DEF F!Found
  <2>2. \A c \in F!Calls : c = "get" \/ F!AfterFind[c] \in {"take", "raw"}
    <3>1. /\ F!AfterFind["delete"] = "take" /\ F!AfterFind["create"] = "raw"
          /\ F!AfterFind["update"] = "raw" /\ F!AfterFind["fields"] = "raw"
      BY DEF F!AfterFind
    <3>2. QED BY <3>1 DEF F!Calls, F!Patches
  <2>3. op[t] \in F!Calls
    BY DEF FileTypeOK
  <2>4. pc'[t] \in {"idle", "take", "raw"}
    <3>1. CASE op[t] # "get" /\ (read[t][id[t]] # F!Absent) = (op[t] # "create")
      BY <1>2, <1>t, <2>2, <2>3, <3>1 DEF F!Found
    <3>2. CASE ~(op[t] # "get" /\ (read[t][id[t]] # F!Absent) = (op[t] # "create"))
      BY <1>2, <1>t, <3>2 DEF F!Found
    <3>3. QED BY <3>1, <3>2
  <2>5. QED BY <2>1, <2>4, CacheSame DEF Writing
<1>3. CASE F!Stat(t)
  <2>1. /\ UNCHANGED <<file, cache, read>> /\ pc[t] \in {"stat", "restat"} /\ pc'[t] \in {"load", "reload"}
        /\ found'[t] = file.mtime
    BY <1>3, <1>t DEF F!Stat
  <2>2. F!Content' = F!Content
    BY <2>1 DEF F!Content
  <2>3. ASSUME NEW u \in Threads, pc[u] \in Writing \cup {"restamp"} PROVE pc'[u] = pc[u]
    BY <1>0, <2>1, <2>3 DEF Writing
  <2>4. F!ServedIsCurrent'
    BY <2>1, <2>2, <2>3 DEF CacheInv, F!ServedIsCurrent, Writing, F!Nothing, F!Empty
  <2>5. \A u \in Threads : pc'[u] \in {"load", "reload"} => found'[u] <= file'.mtime
    <3>1. file.mtime <= file.mtime
      BY <1>t
    <3>2. QED BY <1>0, <2>1, <3>1 DEF CacheInv
  <2>6. ASSUME NEW u \in Threads, (pc[u] = "restamp" /\ read[u] # F!Content)'
        PROVE  \E v \in Threads : pc'[v] \in Writing
    <3>1. pc[u] = "restamp" /\ read[u] # F!Content
      BY <1>0, <2>1, <2>2, <2>6
    <3>2. PICK v \in Threads : pc[v] \in Writing
      BY <3>1 DEF CacheInv
    <3>3. QED BY <2>3, <3>2
  <2>7. QED BY <2>1, <2>4, <2>5, <2>6 DEF CacheInv
<1>4. CASE F!ReadFile(t)
  <2>1. /\ UNCHANGED file /\ pc[t] \in {"load", "reload"} /\ pc'[t] \in {"found", "replace"}
        /\ cache' = [data |-> F!Content, mtime |-> found[t]]
    BY <1>4, <1>t DEF F!ReadFile
  <2>2. F!Content' = F!Content /\ cache'.data = F!Content /\ cache'.mtime = found[t] /\ found[t] <= file.mtime
    BY <2>1 DEF F!Content, CacheInv
  <2>3. lock = t
    BY <2>1 DEF PlaceInv, InStore
  <2>4. F!ServedIsCurrent'
    BY <2>2 DEF F!ServedIsCurrent
  <2>5. \A u \in Threads : pc'[u] \in {"load", "reload"} => found'[u] <= file'.mtime
    BY <1>0, <2>1 DEF CacheInv
  <2>6. \A u \in Threads : pc'[u] # "restamp"
    BY <1>0, <2>1, <2>3 DEF PlaceInv, InStore
  <2>7. QED BY <2>1, <2>2, <2>4, <2>5, <2>6 DEF CacheInv
<1>5. CASE F!DeleteReplaces(t)
  <2> DEFINE next == [read[t] EXCEPT ![id[t]] = F!Absent]
  <2>1. /\ F!Change(next, FALSE) /\ UNCHANGED cache /\ pc[t] = "replace" /\ pc'[t] = "restamp"
        /\ read'[t] = next
    BY <1>5, <1>t DEF F!DeleteReplaces
  <2>2. next \in Records
    BY <1>t DEF Records, F!Absent
  <2> HIDE DEF next
  <2>3. file.mtime <= file'.mtime /\ file'.mtime \in Nat /\ F!Content' = next
    BY <2>1, <2>2, ChangeType
  <2>4. lock = t
    BY <2>1 DEF PlaceInv, InStore
  <2>5. QED BY <2>1, <2>3, <2>4, CacheWhileWriting
<1>6. CASE F!DeleteCaches(t)
  <2>1. /\ UNCHANGED <<file, read>> /\ pc[t] = "restamp" /\ pc'[t] = "idle"
        /\ cache' = [data |-> read[t], mtime |-> file.mtime]
    BY <1>6, <1>t DEF F!DeleteCaches, F!local
  <2>2. F!Content' = F!Content /\ cache'.data = read[t] /\ cache'.mtime = file.mtime
    BY <2>1 DEF F!Content
  <2>3. lock = t
    BY <2>1 DEF PlaceInv, InStore
  <2>4. F!ServedIsCurrent'
    <3>1. CASE read[t] = F!Content
      BY <2>2, <3>1 DEF F!ServedIsCurrent
    <3>2. CASE read[t] # F!Content
      <4>1. PICK v \in Threads : pc[v] \in Writing
        BY <2>1, <3>2 DEF CacheInv
      <4>2. pc'[v] = pc[v]
        BY <1>0, <2>1, <4>1 DEF Writing
      <4>3. QED BY <4>1, <4>2 DEF F!ServedIsCurrent, Writing
    <3>3. QED BY <3>1, <3>2
  <2>5. \A u \in Threads : pc'[u] \in {"load", "reload"} => found'[u] <= file'.mtime
    BY <1>0, <2>1 DEF CacheInv
  <2>6. \A u \in Threads : pc'[u] # "restamp"
    BY <1>0, <2>1, <2>3 DEF PlaceInv, InStore
  <2>7. cache'.mtime <= file'.mtime
    BY <1>t, <2>1, <2>2
  <2>8. QED BY <2>4, <2>5, <2>6, <2>7 DEF CacheInv
<1>7. CASE F!Truncate(t)
  <2>1. F!Change(file.data, TRUE) /\ UNCHANGED cache /\ pc'[t] = "write" /\ file.data \in Records
    BY <1>7, <1>t DEF F!Truncate, FileTypeOK
  <2>2. file.mtime <= file'.mtime /\ file'.mtime \in Nat
    BY <2>1, ChangeType
  <2>3. QED BY <2>1, <2>2, CacheWhileWriting DEF Writing
<1>8. CASE F!WriteInPlace(t)
  <2>1. F!Change(read[t], FALSE) /\ UNCHANGED cache /\ pc'[t] = "drop" /\ read[t] \in Records
    BY <1>8, <1>t DEF F!WriteInPlace
  <2>2. file.mtime <= file'.mtime /\ file'.mtime \in Nat
    BY <2>1, ChangeType
  <2>3. QED BY <2>1, <2>2, CacheWhileWriting DEF Writing
<1>9. CASE F!DropCache(t)
  <2>1. /\ UNCHANGED file /\ pc[t] = "drop" /\ pc'[t] = "idle" /\ lock = F!Free
        /\ cache' = F!Nothing
    BY <1>9, <1>t DEF F!DropCache
  <2>2. F!ServedIsCurrent'
    BY <2>1 DEF F!ServedIsCurrent, F!Nothing, F!Empty
  <2>3. \A u \in Threads : pc'[u] \in {"load", "reload"} => found'[u] <= file'.mtime
    BY <1>0, <2>1 DEF CacheInv
  <2>4. \A u \in Threads : pc'[u] # "restamp"
    BY <1>0, <2>1 DEF PlaceInv, InStore, F!ThreadsAssumption
  <2>5. cache'.mtime <= file'.mtime
    <3>1. cache'.mtime = 0
      BY <2>1 DEF F!Nothing
    <3>2. QED BY <1>t, <2>1, <3>1
  <2>6. QED BY <2>2, <2>3, <2>4, <2>5 DEF CacheInv
<1>10. QED BY <1>1, <1>2, <1>3, <1>4, <1>5, <1>6, <1>7, <1>8, <1>9 DEF FileAction

\* Who deletes or goes past the store does so alone, as long as no two overlapped.
LEMMA ChangesAlone ==
  ASSUME FileTypeOK, PlaceInv, KeptInv, ~overlapped, NEW t \in Threads, pc[t] \in PastIt \cup InDelete,
         NEW u \in Threads \ {t}
  PROVE  ~F!Changing(u) /\ pc[u] \notin PastIt \cup InDelete
<1>1. \A v \in Threads : pc[v] \in PastIt \cup InDelete => F!Changing(v)
  BY DEF PlaceInv, F!Changing, PastIt, InDelete, F!Patches
<1>2. QED BY <1>1 DEF KeptInv

\* The steps before a change of the file, and those of readers.
LEMMA KeptSame ==
  ASSUME FileTypeOK, KeptInv, NEW t \in Threads, FileAction(t), UNCHANGED <<file, kept>>,
         pc[t] \notin Writing \cup {"restamp"},
         pc'[t] \notin Writing \cup {"restamp", "replace", "open"},
         ~overlapped' => ~overlapped /\ (F!Changing(t)' => \A u \in Threads \ {t} : ~F!Changing(u))
  PROVE  KeptInv'
<1> SUFFICES ASSUME ~overlapped' PROVE KeptInv'
  BY DEF KeptInv
<1>1. ~overlapped /\ F!Content' = F!Content
  BY DEF F!Content
<1>2. \A u \in Threads \ {t} : /\ pc'[u] = pc[u] /\ op'[u] = op[u] /\ id'[u] = id[u] /\ read'[u] = read[u]
                               /\ F!Changing(u)' <=> F!Changing(u)
  BY OthersWait DEF F!Changing
<1>3. ASSUME NEW u \in Threads, NEW v \in Threads, F!Changing(u)', F!Changing(v)' PROVE u = v
  <2>1. CASE u = t \/ v = t
    BY <1>2, <1>3, <2>1
  <2>2. CASE u # t /\ v # t
    BY <1>1, <1>2, <1>3, <2>2 DEF KeptInv
  <2>3. QED BY <2>1, <2>2
<1>4. (\A u \in Threads : pc'[u] \notin Writing \cup {"restamp"}) => F!Content' = kept'
  <2>1. SUFFICES ASSUME \A u \in Threads : pc'[u] \notin Writing \cup {"restamp"} PROVE F!Content' = kept'
    OBVIOUS
  <2>2. \A u \in Threads : pc[u] \notin Writing \cup {"restamp"}
    BY <1>2, <2>1
  <2>3. QED BY <1>1, <2>2 DEF KeptInv
<1>5. ASSUME NEW u \in Threads
      PROVE  (/\ pc[u] \in {"replace", "open"} => read[u] = F!Content
              /\ pc[u] \in Writing \cup {"restamp"} => \A i \in Ids \ {id[u]} : read[u][i] = kept[i]
              /\ pc[u] \in {"drop", "restamp"} => F!Content = read[u]
              /\ pc[u] = "restamp" => read[u][id[u]] = F!Absent)'
  <2>1. CASE u = t
    BY <2>1 DEF Writing
  <2>2. CASE u # t
    BY <1>1, <1>2, <2>2 DEF KeptInv
  <2>3. QED BY <2>1, <2>2
<1>6. QED BY <1>3, <1>4, <1>5 DEF KeptInv

\* The steps of the one handler that deletes or goes past the store.
LEMMA KeptAlone ==
  ASSUME FileTypeOK, PlaceInv, KeptInv, NEW t \in Threads, FileAction(t), ~overlapped, overlapped' = overlapped,
         pc[t] \in PastIt \cup InDelete,
         pc'[t] \notin Writing \cup {"restamp"} => F!Content' = kept',
         pc'[t] \in {"replace", "open"} => read'[t] = F!Content',
         pc'[t] \in Writing \cup {"restamp"} => \A i \in Ids \ {id'[t]} : read'[t][i] = kept'[i],
         pc'[t] \in {"drop", "restamp"} => F!Content' = read'[t],
         pc'[t] = "restamp" => read'[t][id'[t]] = F!Absent
  PROVE  KeptInv'
<1>1. \A u \in Threads \ {t} : ~F!Changing(u) /\ pc[u] \notin PastIt \cup InDelete
  BY ChangesAlone
<1>2. \A u \in Threads \ {t} : ~F!Changing(u)' /\ pc'[u] \notin PastIt \cup InDelete
  BY <1>1, OthersWait DEF F!Changing
<1>3. \A u, v \in Threads : F!Changing(u)' /\ F!Changing(v)' => u = v
  BY <1>2
<1>4. (\A u \in Threads : pc'[u] \notin Writing \cup {"restamp"}) => F!Content' = kept'
  OBVIOUS
<1>5. ASSUME NEW u \in Threads
      PROVE  (/\ pc[u] \in {"replace", "open"} => read[u] = F!Content
              /\ pc[u] \in Writing \cup {"restamp"} => \A i \in Ids \ {id[u]} : read[u][i] = kept[i]
              /\ pc[u] \in {"drop", "restamp"} => F!Content = read[u]
              /\ pc[u] = "restamp" => read[u][id[u]] = F!Absent)'
  <2>1. CASE u = t
    BY <2>1
  <2>2. CASE u # t
    BY <1>2, <2>2 DEF PastIt, InDelete, Writing
  <2>3. QED BY <2>1, <2>2
<1>6. QED BY <1>3, <1>4, <1>5 DEF KeptInv

\* While one handler deletes or goes past the store, it knows what the others kept.
LEMMA AloneFindsKept ==
  ASSUME FileTypeOK, PlaceInv, CacheInv, KeptInv, ~overlapped, NEW t \in Threads,
         pc[t] \in PastIt \cup InDelete, pc[t] \notin Writing \cup {"restamp"}
  PROVE  /\ F!Content = kept
         /\ cache # F!Nothing /\ cache.mtime = file.mtime => cache.data = F!Content
<1>1. \A u \in Threads : pc[u] \notin Writing \cup {"restamp"}
  BY ChangesAlone DEF PastIt, InDelete, Writing
<1>2. QED BY <1>1 DEF KeptInv, CacheInv, F!ServedIsCurrent, Writing

\* Every step keeps what the handlers that returned left behind.
LEMMA KeptStep ==
  ASSUME FileTypeOK, PlaceInv, CacheInv, KeptInv, NEW t \in Threads, FileAction(t)
  PROVE  KeptInv'
<1>t. /\ pc \in [Threads -> {"idle", "find", "take"} \cup InStore \cup PastIt]
      /\ op \in [Threads -> F!Calls] /\ read \in [Threads -> Records] /\ kept \in Records
  BY DEF FileTypeOK
<1> USE DEF F!GoTo
<1>1. CASE F!Begin(t)
  <2>1. PICK c \in F!Calls : /\ op' = [op EXCEPT ![t] = c]
                           /\ overlapped' = (overlapped \/ (c # "get" /\ \E u \in Threads : F!Changing(u)))
    BY <1>1 DEF F!Begin
  <2>2. UNCHANGED <<file, kept>> /\ pc[t] = "idle" /\ pc'[t] = "find" /\ op'[t] = c
    BY <1>1, <1>t, <2>1 DEF F!Begin
  <2>3. ~overlapped' => ~overlapped /\ (F!Changing(t)' => \A u \in Threads \ {t} : ~F!Changing(u))
    BY <2>1, <2>2 DEF F!Changing
  <2>4. QED BY <2>2, <2>3, KeptSame DEF Writing
<1>2. CASE F!Found(t) \/ ((F!Take(t) \/ F!ReadCache(t) \/ F!Stat(t) \/ F!ReadFile(t)) /\ pc[t] \in {"find", "stat", "load"})
  <2>1. UNCHANGED <<file, kept, overlapped, op>> /\ pc[t] \in {"find", "stat", "load", "found"}
    BY <1>2 DEF F!Found, F!Take, F!ReadCache, F!Stat, F!ReadFile, F!local, F!past
  <2>2. pc'[t] \notin Writing \cup {"restamp", "replace", "open"}
    <3>1. CASE F!Found(t)
      <4>1. pc'[t] = "idle" \/ (pc'[t] = F!AfterFind[op[t]] /\ op[t] # "get")
        <5>1. CASE op[t] # "get" /\ (read[t][id[t]] # F!Absent) = (op[t] # "create")
          BY <1>t, <3>1, <5>1 DEF F!Found
        <5>2. CASE ~(op[t] # "get" /\ (read[t][id[t]] # F!Absent) = (op[t] # "create"))
          BY <1>t, <3>1, <5>2 DEF F!Found
        <5>3. QED BY <5>1, <5>2
      <4>2. /\ F!AfterFind["delete"] = "take" /\ F!AfterFind["create"] = "raw"
            /\ F!AfterFind["update"] = "raw" /\ F!AfterFind["fields"] = "raw"
        BY DEF F!AfterFind
      <4>3. op[t] \in F!Calls
        BY <1>t
      <4>4. QED BY <4>1, <4>2, <4>3 DEF F!Calls, F!Patches, Writing
    <3>2. CASE ~F!Found(t)
      BY <1>2, <1>t, <3>2 DEF F!Take, F!ReadCache, F!Stat, F!ReadFile, Writing
    <3>3. QED BY <3>1, <3>2
  <2>3. F!Changing(t)' => F!Changing(t)
    BY <2>1 DEF F!Changing
  <2>4. ~overlapped' => ~overlapped /\ (F!Changing(t)' => \A u \in Threads \ {t} : ~F!Changing(u))
    BY <2>1, <2>3 DEF KeptInv
  <2>5. QED BY <2>1, <2>2, <2>4, KeptSame DEF Writing
<1>3. CASE ~F!Begin(t) /\ ~F!Found(t) /\ pc[t] \notin {"find", "stat", "load"}
  <2>1. pc[t] \in PastIt \cup InDelete /\ overlapped' = overlapped /\ UNCHANGED id
    BY <1>3 DEF FileAction, F!Take, F!ReadCache, F!Stat, F!ReadFile, F!DeleteReplaces, F!DeleteCaches, F!DeleteMissing,
       F!ReadRaw, F!Gone, F!Truncate, F!WriteInPlace, F!DropCache, PastIt, InDelete, F!local, F!past
  <2> SUFFICES ASSUME ~overlapped PROVE KeptInv'
    BY <2>1 DEF KeptInv
  <2>2. CASE F!Take(t) \/ F!Stat(t) \/ F!DeleteMissing(t) \/ F!Gone(t)
    <3>1. /\ UNCHANGED <<file, kept>> /\ pc[t] \notin Writing \cup {"restamp"}
          /\ pc'[t] \notin Writing \cup {"restamp", "replace", "open"}
      BY <1>3, <1>t, <2>2 DEF F!Take, F!Stat, F!DeleteMissing, F!Gone, Writing, F!local, F!past
    <3>2. F!Content' = kept'
      BY <2>1, <3>1, AloneFindsKept DEF F!Content
    <3>3. QED BY <2>1, <3>1, <3>2, KeptAlone DEF Writing
  <2>3. CASE F!ReadCache(t) \/ F!ReadFile(t) \/ F!ReadRaw(t)
    <3>1. /\ UNCHANGED <<file, kept>> /\ pc[t] \notin Writing \cup {"restamp"}
          /\ pc'[t] \in {"replace", "open"}
      BY <1>3, <1>t, <2>3 DEF F!ReadCache, F!ReadFile, F!ReadRaw, Writing, F!local, F!past
    <3>2. F!Content' = F!Content /\ F!Content = kept
      BY <2>1, <3>1, AloneFindsKept DEF F!Content
    <3>3. read'[t] = F!Content
      <4>1. CASE F!ReadCache(t)
        <5>1. cache # F!Nothing /\ cache.mtime = file.mtime /\ read'[t] = cache.data
          BY <1>t, <4>1 DEF F!ReadCache
        <5>2. QED BY <2>1, <3>1, <5>1, AloneFindsKept
      <4>2. CASE F!ReadFile(t) \/ F!ReadRaw(t)
        BY <1>t, <4>2 DEF F!ReadFile, F!ReadRaw
      <4>3. QED BY <2>3, <4>1, <4>2
    <3>4. QED BY <2>1, <3>1, <3>2, <3>3, KeptAlone DEF Writing
  <2>4. CASE F!DeleteReplaces(t)
    <3> DEFINE next == [read[t] EXCEPT ![id[t]] = F!Absent]
    <3>1. /\ F!Change(next, FALSE) /\ UNCHANGED kept /\ pc[t] = "replace" /\ pc'[t] = "restamp"
          /\ read'[t] = next
      BY <1>t, <2>4 DEF F!DeleteReplaces
    <3>2. read[t] = kept
      BY <2>1, <3>1, AloneFindsKept DEF KeptInv, Writing
    <3>3. next \in Records /\ id[t] \in Ids
      BY <1>t, <3>1 DEF Records, F!Absent, PlaceInv
    <3>4. next[id[t]] = F!Absent /\ \A i \in Ids \ {id[t]} : next[i] = kept[i]
      BY <1>t, <3>2, <3>3 DEF Records
    <3> HIDE DEF next
    <3>5. F!Content' = next
      BY <3>1, <3>3, ChangeType
    <3>6. QED BY <2>1, <3>1, <3>4, <3>5, KeptAlone DEF Writing
  <2>5. CASE F!Truncate(t)
    <3>1. UNCHANGED kept /\ pc[t] = "open" /\ pc'[t] = "write" /\ read'[t] = F!Patched(t, writes')
      BY <1>t, <2>5 DEF F!Truncate
    <3>2. read[t] = kept
      BY <2>1, <3>1, AloneFindsKept DEF KeptInv, Writing
    <3>3. \A i \in Ids \ {id[t]} : F!Patched(t, writes')[i] = kept[i]
      BY <1>t, <3>2 DEF F!Patched, Records
    <3>4. QED BY <2>1, <3>1, <3>3, KeptAlone DEF Writing
  <2>6. CASE F!WriteInPlace(t)
    <3>1. /\ UNCHANGED <<kept, read>> /\ pc[t] = "write" /\ pc'[t] = "drop" /\ read[t] \in Records
          /\ F!Change(read[t], FALSE)
      BY <1>t, <2>6 DEF F!WriteInPlace, F!local, F!past
    <3>2. F!Content' = read[t]
      BY <3>1, ChangeType
    <3>3. \A i \in Ids \ {id[t]} : read[t][i] = kept[i]
      BY <3>1 DEF KeptInv, Writing
    <3>4. QED BY <2>1, <3>1, <3>2, <3>3, KeptAlone DEF Writing
  <2>7. CASE F!DropCache(t) \/ F!DeleteCaches(t)
    <3>1. /\ UNCHANGED file /\ pc[t] \in {"drop", "restamp"} /\ pc'[t] = "idle"
          /\ kept' = [kept EXCEPT ![id[t]] = read[t][id[t]]]
      BY <1>t, <2>7 DEF F!DropCache, F!DeleteCaches, KeptInv
    <3>2. F!Content = read[t] /\ \A i \in Ids \ {id[t]} : read[t][i] = kept[i]
      BY <3>1 DEF KeptInv, Writing
    <3>3. read[t] = kept' /\ id[t] \in Ids
      <4>1. id[t] \in Ids /\ read[t] \in Records
        BY <1>t, <3>1 DEF PlaceInv
      <4>2. kept' \in [Ids -> Nat] /\ \A i \in Ids : kept'[i] = read[t][i]
        BY <1>t, <3>1, <3>2, <4>1 DEF Records
      <4>3. QED BY <4>1, <4>2 DEF Records
    <3>4. F!Content' = kept'
      BY <3>1, <3>2, <3>3 DEF F!Content
    <3>5. QED BY <2>1, <3>1, <3>4, KeptAlone DEF Writing
  <2>8. QED BY <1>3, <2>2, <2>3, <2>4, <2>5, <2>6, <2>7 DEF FileAction
<1>4. QED BY <1>1, <1>2, <1>3 DEF FileAction, F!DeleteReplaces, F!DeleteCaches, F!DeleteMissing, F!ReadRaw, F!Gone,
  F!Truncate, F!WriteInPlace, F!DropCache

\* FileInv is inductive.
LEMMA FileStep == F!ThreadsAssumption /\ FileInv /\ [F!Next]_(F!vars) => FileInv'
<1> SUFFICES ASSUME F!ThreadsAssumption, FileInv, [F!Next]_(F!vars) PROVE FileInv'
  OBVIOUS
<1>1. CASE UNCHANGED F!vars
  BY <1>1 DEF F!vars, FileInv, FileTypeOK, PlaceInv, CacheInv, F!ServedIsCurrent, KeptInv, F!Content, F!Changing
<1>2. CASE \E t \in Threads : FileAction(t)
  BY <1>2, FileTypeStep, FilePlaceStep, CacheStep, KeptStep DEF FileInv
<1>3. QED BY <1>1, <1>2 DEF F!Next, FileAction

LEMMA FileInit == F!Init => FileInv
<1> SUFFICES ASSUME F!Init PROVE FileInv
  OBVIOUS
<1>1. F!Empty \in Records
  BY DEF F!Empty, Records, F!Absent
<1>2. FileTypeOK
  BY <1>1 DEF F!Init, FileTypeOK, F!Nothing, F!Calls, F!Patches
<1>3. \A t \in Threads : pc[t] = "idle"
  BY DEF F!Init
<1>4. PlaceInv
  BY <1>3 DEF PlaceInv, InStore, PastIt, InDelete
<1>5. cache = F!Nothing /\ cache.mtime = 0 /\ file.mtime = 1 /\ F!Content = F!Empty /\ kept = F!Empty
  BY DEF F!Init, F!Nothing, F!Content
<1>6. CacheInv
  BY <1>3, <1>5 DEF CacheInv, F!ServedIsCurrent
<1>7. KeptInv
  BY <1>3, <1>5 DEF KeptInv, F!Changing, Writing
<1>8. QED BY <1>2, <1>4, <1>6, <1>7 DEF FileInv

\* What the store serves is the file, unless a handler is on its way to drop the
\* cache, and what was written is kept unless two handlers met: for any number of
\* threads and records, whatever the granularity of mtimes, and with a file that
\* is empty while it is written.
THEOREM StoreIsCurrentAlways == Spec => []StoreIsCurrent
<1>1. Init => (part = "files" => FileInv)
  BY InitOfPart, FileInit
<1>2. (part = "files" => FileInv) /\ [Next]_vars => (part = "files" => FileInv)'
  BY StepOfPart, FileStep, InstancesAssumption
<1>3. FileInv => F!StoreIsCurrent
  <2>1. SUFFICES ASSUME FileInv PROVE F!StoreIsCurrent
    OBVIOUS
  <2>2. F!ServedIsCurrent
    BY <2>1 DEF FileInv, CacheInv
  <2>3. F!NothingIsLost
    <3>1. SUFFICES ASSUME ~overlapped, \A t \in Threads : ~F!Changing(t) PROVE F!Content = kept
      BY DEF F!NothingIsLost
    <3>2. \A t \in Threads : pc[t] \notin Writing \cup {"restamp"}
      BY <2>1, <3>1 DEF FileInv, PlaceInv, PastIt, InDelete, Writing, F!Changing, F!Patches
    <3>3. QED BY <2>1, <3>1, <3>2 DEF FileInv, KeptInv
  <2>4. QED BY <2>2, <2>3 DEF F!StoreIsCurrent
<1>4. (part = "files" => FileInv) => StoreIsCurrent
  BY <1>3 DEF StoreIsCurrent
<1>5. QED BY <1>1, <1>2, <1>4, PTL DEF Spec

-----------------------------------------------------------------------------
(* What the history lists.                                                 *)

\* A task belongs to a project or to nobody.
TasksInv == part = "projects" => \A k \in DOMAIN task : task[k] \in P!Places

LEMMA PutKeeps ==
  ASSUME NEW m, NEW x, NEW v, NEW S0, v \in S0, \A k \in DOMAIN m : m[k] \in S0
  PROVE  \A k \in DOMAIN P!Put(m, x, v) : P!Put(m, x, v)[k] \in S0
  BY DEF P!Put

LEMMA TasksStep == ASSUME TasksInv, [Next]_vars PROVE TasksInv'
<1> SUFFICES ASSUME part = "projects", [P!Next]_(P!vars), \A k \in DOMAIN task : task[k] \in P!Places
             PROVE  \A k \in DOMAIN task' : task'[k] \in P!Places
  BY StepOfPart DEF TasksInv
<1>1. CASE UNCHANGED P!vars
  BY <1>1 DEF P!vars
<1> SUFFICES ASSUME NEW u \in Users, UNCHANGED task \/ P!CreateTask(u) \/ P!CopyTask(u) \/ P!UpdateTask(u) \/ P!DeleteTask(u)
             PROVE  \A k \in DOMAIN task' : task'[k] \in P!Places
  BY <1>1 DEF P!Next, P!CreateProject, P!UpdateProject, P!DeleteProject, P!RunTask, P!Discard, P!MakeLink, P!FollowLink
<1>2. CASE P!CreateTask(u)
  BY <1>2, PutKeeps DEF P!CreateTask
<1>3. CASE P!CopyTask(u)
  BY <1>3, PutKeeps DEF P!CopyTask, P!Reachable
<1>4. CASE P!UpdateTask(u)
  BY <1>4, PutKeeps DEF P!UpdateTask, P!Reachable
<1>5. CASE P!DeleteTask(u)
  BY <1>5 DEF P!DeleteTask, P!Drop
<1>6. QED BY <1>2, <1>3, <1>4, <1>5

\* What the history lists for a user (list_result_history) is what the gates of
\* the results let him open, while tasks are created, moved and deleted: for every
\* set of users, roles, projects, tasks and results.
THEOREM HistoryIsWhatOpensAlways == Spec => []HistoryIsWhatOpens
<1>1. Init => TasksInv
  BY InitOfPart DEF TasksInv, P!Init
<1>2. TasksInv => HistoryIsWhatOpens
  <2> SUFFICES ASSUME part = "projects", TasksInv, NEW u \in Users
               PROVE  LET opens == {r \in DOMAIN result : P!MayOpen(u, r)}
                      IN /\ opens \subseteq P!History(u, P!Global)
                         /\ \A p \in P!Places : \A r \in P!History(u, p) :
                              r \in opens \/ (P!Admin(u) /\ P!ResultProject(r) = P!Unresolved)
    BY DEF HistoryIsWhatOpens, P!HistoryIsWhatOpens
  <2>1. ASSUME NEW r \in DOMAIN result, P!MayOpen(u, r) PROVE r \in P!History(u, P!Global)
    BY <2>1 DEF P!MayOpen, P!CanAccess, P!ResultProject, P!History, P!OfProject, P!AccessibleTasks
  <2>2. ASSUME NEW p \in P!Places, NEW r \in P!History(u, p)
        PROVE  P!MayOpen(u, r) \/ (P!Admin(u) /\ P!ResultProject(r) = P!Unresolved)
    BY <2>2, InstancesAssumption DEF P!MayOpen, P!CanAccess, P!ResultProject, P!History, P!AccessibleTasks, TasksInv, P!PlacesAssumption
  <2>3. QED BY <2>1, <2>2 DEF P!History
<1>3. QED BY <1>1, <1>2, TasksStep, PTL DEF Spec

-----------------------------------------------------------------------------
(* The second factor.                                                      *)

Printed == UNION {M!Sheet(n) : n \in 1..issued.sheets}
SentCodes == M!AllCodes \cup {M!TimeCode(n) : n \in 1..MaxSecrets} \cup {<<0, "none">>}

FactorTypeOK ==
  LET users == [secret : Nat, enabled : BOOLEAN, codes : SUBSET M!AllCodes] IN
  /\ user \in users
  /\ req \in [Threads -> [op : {"none", "enroll", "verify", "regenerate", "disable", "recover", "consume", "time"},
                          code : SentCodes, first : BOOLEAN, read : users]]
  /\ issued \in [secrets : 0..MaxSecrets, sheets : 0..MaxSecrets]
  /\ used \in [M!AllCodes -> Nat] /\ overlapped \in BOOLEAN
  /\ over \in [secrets : SUBSET (1..issued.secrets), sheets : SUBSET (1..issued.sheets)]

\* As long as handlers come one after the other: what one of them has checked is
\* still so, the secret is not one that was given up, and a recovery code that
\* counts is of a sheet that is not over, and unused.
FactorInv ==
  /\ FactorTypeOK
  /\ ~overlapped =>
       /\ \A t, u \in Threads : req[t] # M!NoRequest /\ req[u] # M!NoRequest => t = u
       /\ user.enabled => user.secret # 0
       /\ user.codes \subseteq Printed
       /\ \A c \in M!AllCodes : used[c] <= 1 /\ (used[c] # 0 => c \in Printed \ user.codes)
       /\ \A n \in over.sheets : M!Sheet(n) \cap user.codes = {}
       /\ user.secret \notin over.secrets /\ late = {}
       /\ \A t \in Threads :
            /\ req[t].op \in {"verify", "regenerate"} => user.secret # 0
            /\ req[t].op = "consume" => req[t].read = user /\ req[t].code \in user.codes
            /\ req[t].op = "time" => req[t].read = user

FactorStep(t) ==
  \/ M!Enroll(t) \/ M!Verify(t) \/ M!Regenerate(t) \/ M!Disable(t) \/ M!Challenge(t)
  \/ M!EnrollWrites(t) \/ M!VerifyWrites(t) \/ M!RegenerateWrites(t) \/ M!DisableWrites(t)
  \/ M!Match(t) \/ M!Consume(t) \/ M!OpenByTime(t) \/ M!RefuseByTime(t)

\* A sheet is among the codes there are, and shares none with another.
LEMMA SheetFacts ==
  ASSUME NEW n \in 1..MaxSecrets
  PROVE  /\ M!Sheet(n) \subseteq M!AllCodes
         /\ \A m : m # n => M!Sheet(m) \cap M!Sheet(n) = {}
  BY DEF M!Sheet, M!AllCodes, M!Sheets

LEMMA FactorTypeStep ==
  ASSUME FactorTypeOK, NEW t \in Threads, FactorStep(t)
  PROVE  FactorTypeOK'
<1> DEFINE users == [secret : Nat, enabled : BOOLEAN, codes : SUBSET M!AllCodes]
           requests == [op : {"none", "enroll", "verify", "regenerate", "disable", "recover", "consume", "time"},
                        code : SentCodes, first : BOOLEAN, read : users]
<1> USE InstancesAssumption DEF FactorTypeOK, M!SecretsAssumption
<1>1. M!NoUser \in users /\ M!NoRequest \in requests
  BY DEF M!NoUser, M!NoRequest, SentCodes
<1>2. ASSUME NEW r \in requests, M!Begin(t, r) PROVE FactorTypeOK'
  BY <1>2 DEF M!Begin
<1>3. CASE M!Enroll(t)
  BY <1>1, <1>2, <1>3 DEF M!Enroll
<1>4. CASE M!Verify(t)
  BY <1>1, <1>2, <1>4 DEF M!Verify
<1>5. CASE M!Regenerate(t)
  BY <1>1, <1>2, <1>5 DEF M!Regenerate
<1>6. CASE M!Disable(t)
  BY <1>1, <1>2, <1>6 DEF M!Disable
<1>7. CASE M!Challenge(t)
  <2>1. ASSUME NEW c \in SentCodes, NEW o \in {"recover", "time"}, NEW u \in users
        PROVE  [M!NoRequest EXCEPT !.op = o, !.code = c, !.read = u] \in requests
    BY <1>1, <2>1 DEF M!NoRequest
  <2>2. ASSUME NEW c \in SentCodes PROVE [M!NoRequest EXCEPT !.op = "recover", !.code = c] \in requests
    BY <1>1, <2>2 DEF M!NoRequest
  <2>3. user \in users /\ M!AllCodes \subseteq SentCodes
        /\ \A n \in 1..issued.secrets : M!TimeCode(n) \in SentCodes
    BY DEF SentCodes
  <2> HIDE DEF requests, users, FactorTypeOK
  <2>4. QED BY <1>2, <1>7, <2>1, <2>2, <2>3 DEF M!Challenge
<1>8. CASE M!EnrollWrites(t)
  <2>1. /\ issued' \in [secrets : 0..MaxSecrets, sheets : 0..MaxSecrets] /\ issued'.sheets = issued.sheets
        /\ issued'.secrets = issued.secrets + 1 /\ issued.secrets \in Nat
    BY <1>8 DEF M!EnrollWrites
  <2>2. user' \in users
    <3>1. issued.secrets + 1 \in Nat /\ user \in users
      OBVIOUS
    <3>2. user' = [user EXCEPT !.secret = issued.secrets + 1, !.enabled = FALSE]
      BY <1>8 DEF M!EnrollWrites
    <3> HIDE DEF FactorTypeOK
    <3>3. QED BY <3>1, <3>2
  <2>3. req' \in [Threads -> requests] /\ UNCHANGED <<used, overlapped>>
    BY <1>1, <1>8 DEF M!EnrollWrites, M!Finish
  <2>4. over' \in [secrets : SUBSET (1..issued'.secrets), sheets : SUBSET (1..issued'.sheets)]
    <3>1. over' = [over EXCEPT !.secrets = 1..issued.secrets]
      BY <1>8 DEF M!EnrollWrites
    <3>2. 1..issued.secrets \subseteq 1..issued'.secrets
      BY <2>1
    <3>3. over \in [secrets : SUBSET (1..issued.secrets), sheets : SUBSET (1..issued.sheets)]
      OBVIOUS
    <3> HIDE DEF FactorTypeOK
    <3>4. QED BY <2>1, <3>1, <3>2, <3>3
  <2>5. QED BY <2>1, <2>2, <2>3, <2>4
<1>9. ASSUME M!PrintCodes(t)
      PROVE  /\ issued' \in [secrets : 0..MaxSecrets, sheets : 0..MaxSecrets]
             /\ over' \in [secrets : SUBSET (1..issued'.secrets), sheets : SUBSET (1..issued'.sheets)]
             /\ M!Sheet(issued.sheets + 1) \subseteq M!AllCodes
  <2>1. issued.sheets + 1 \in 1..MaxSecrets /\ issued' = [issued EXCEPT !.sheets = issued.sheets + 1]
    BY <1>9 DEF M!PrintCodes
  <2>2. /\ issued' \in [secrets : 0..MaxSecrets, sheets : 0..MaxSecrets]
        /\ issued'.secrets = issued.secrets /\ issued'.sheets = issued.sheets + 1
    BY <2>1
  <2>3. 1..issued.sheets \subseteq 1..issued'.sheets
    BY <2>2
  <2>4. over' \in [secrets : SUBSET (1..issued'.secrets), sheets : SUBSET (1..issued'.sheets)]
    <3>1. over' = [over EXCEPT !.sheets = 1..issued.sheets]
      BY <1>9 DEF M!PrintCodes
    <3>2. over \in [secrets : SUBSET (1..issued.secrets), sheets : SUBSET (1..issued.sheets)]
      OBVIOUS
    <3> HIDE DEF FactorTypeOK
    <3>3. QED BY <2>2, <2>3, <3>1, <3>2
  <2>5. QED BY <2>1, <2>2, <2>4, SheetFacts
<1>10. CASE M!VerifyWrites(t)
  <2>1. req' \in [Threads -> requests] /\ UNCHANGED <<used, overlapped>>
    BY <1>1, <1>10 DEF M!VerifyWrites, M!Finish
  <2>2. CASE M!PrintCodes(t) /\ user' = [user EXCEPT !.enabled = TRUE, !.codes = M!Sheet(issued.sheets + 1)]
    <3>1. user' \in users
      <4>1. user \in users
        OBVIOUS
      <4> HIDE DEF FactorTypeOK
      <4>2. QED BY <1>9, <2>2, <4>1
    <3>2. QED BY <1>9, <2>1, <2>2, <3>1
  <2>3. CASE user' = [user EXCEPT !.enabled = TRUE] /\ UNCHANGED <<issued, over>>
    BY <2>1, <2>3
  <2>4. QED BY <1>10, <2>2, <2>3 DEF M!VerifyWrites
<1>11. CASE M!RegenerateWrites(t)
  BY <1>1, <1>9, <1>11 DEF M!RegenerateWrites, M!Finish
<1>12. CASE M!DisableWrites(t)
  BY <1>1, <1>12 DEF M!DisableWrites, M!Finish
<1>13. CASE M!Match(t)
  BY <1>1, <1>13 DEF M!Match
<1>14. CASE M!Consume(t)
  <2>1. user' \in users
    BY <1>14 DEF M!Consume, M!Spent
  <2>2. used' \in [M!AllCodes -> Nat]
    <3> DEFINE c == req[t].code
    <3>1. used' = [used EXCEPT ![c] = used[c] + 1]
      BY <1>14 DEF M!Consume
    <3>2. c \in M!AllCodes => used[c] + 1 \in Nat
      OBVIOUS
    <3>3. used \in [M!AllCodes -> Nat]
      OBVIOUS
    <3> HIDE DEF FactorTypeOK, c
    <3>4. QED BY <3>1, <3>2, <3>3
  <2>3. QED BY <1>1, <1>14, <2>1, <2>2 DEF M!Consume, M!Finish
<1>15. CASE M!OpenByTime(t) \/ M!RefuseByTime(t)
  BY <1>1, <1>15 DEF M!OpenByTime, M!RefuseByTime, M!Finish
<1>16. QED
  BY <1>3, <1>4, <1>5, <1>6, <1>7, <1>8, <1>10, <1>11, <1>12, <1>13, <1>14, <1>15 DEF FactorStep

LEMMA FactorInvStep ==
  ASSUME FactorInv, NEW t \in Threads, FactorStep(t)
  PROVE  FactorInv'
<1>0. FactorTypeOK /\ FactorTypeOK'
  BY FactorTypeStep DEF FactorInv
<1> SUFFICES ASSUME ~overlapped' PROVE FactorInv'
  BY <1>0 DEF FactorInv
<1>1. ~overlapped
  BY <1>0 DEF FactorTypeOK, FactorStep, M!Enroll, M!Verify, M!Regenerate, M!Disable, M!Challenge, M!Begin,
     M!EnrollWrites, M!VerifyWrites, M!RegenerateWrites, M!DisableWrites, M!Match, M!Consume,
     M!OpenByTime, M!RefuseByTime
<1>2. ASSUME NEW r, M!Begin(t, r), r.op \in {"verify", "regenerate"} => user.secret # 0, r.op # "consume",
             r.op = "time" => r.read = user
      PROVE  FactorInv'
  <2>1. \A u \in Threads : req[u] = M!NoRequest
    BY <1>0, <1>2 DEF FactorTypeOK, M!Begin
  <2>2. \A u \in Threads : req'[u] = IF u = t THEN r ELSE M!NoRequest
    BY <1>0, <1>2, <2>1 DEF FactorTypeOK, M!Begin
  <2>3. UNCHANGED <<user, issued, used, over, late>>
    BY <1>2 DEF M!Begin
  <2>4. M!NoRequest.op = "none" /\ Printed' = Printed
    BY <2>3 DEF M!NoRequest, Printed
  <2>5. \A u \in Threads : /\ req'[u].op \in {"verify", "regenerate"} => user.secret # 0
                           /\ req'[u].op # "consume" /\ (req'[u].op = "time" => req'[u].read = user)
    BY <1>2, <2>2, <2>4
  <2>6. \A v, u \in Threads : req'[v] # M!NoRequest /\ req'[u] # M!NoRequest => v = u
    BY <2>2
  <2>7. QED BY <1>0, <1>1, <2>3, <2>4, <2>5, <2>6 DEF FactorInv
<1>3. /\ \A o \in {"enroll", "regenerate", "disable"} : [M!NoRequest EXCEPT !.op = o].op = o
      /\ \A b : [M!NoRequest EXCEPT !.op = "verify", !.first = b].op = "verify"
      /\ \A c : [M!NoRequest EXCEPT !.op = "recover", !.code = c].op = "recover"
  BY DEF M!NoRequest
<1>4. CASE M!Enroll(t)
  <2>1. M!Begin(t, [M!NoRequest EXCEPT !.op = "enroll"])
    BY <1>4 DEF M!Enroll
  <2>2. QED BY <1>2, <1>3, <2>1
<1>5. CASE M!Verify(t)
  BY <1>2, <1>3, <1>5 DEF M!Verify
<1>6. CASE M!Regenerate(t)
  <2>1. M!Begin(t, [M!NoRequest EXCEPT !.op = "regenerate"]) /\ user.secret # 0
    BY <1>6 DEF M!Regenerate
  <2>2. QED BY <1>2, <1>3, <2>1
<1>7. CASE M!Disable(t)
  <2>1. M!Begin(t, [M!NoRequest EXCEPT !.op = "disable"])
    BY <1>7 DEF M!Disable
  <2>2. QED BY <1>2, <1>3, <2>1
<1>71. CASE M!Challenge(t)
  <2>1. CASE \E c \in M!AllCodes : M!Begin(t, [M!NoRequest EXCEPT !.op = "recover", !.code = c])
    BY <1>2, <1>3, <2>1
  <2>2. CASE \E n \in 1..issued.secrets :
               M!Begin(t, [M!NoRequest EXCEPT !.op = "time", !.code = M!TimeCode(n), !.read = user])
    <3>1. PICK n \in 1..issued.secrets :
                 M!Begin(t, [M!NoRequest EXCEPT !.op = "time", !.code = M!TimeCode(n), !.read = user])
      BY <2>2
    <3> DEFINE q == [M!NoRequest EXCEPT !.op = "time", !.code = M!TimeCode(n), !.read = user]
    <3>2. q.op = "time" /\ q.read = user
      BY DEF M!NoRequest
    <3>3. M!Begin(t, q)
      BY <3>1
    <3> HIDE DEF q
    <3>4. QED BY <1>2, <3>2, <3>3
  <2>3. QED BY <1>71, <2>1, <2>2 DEF M!Challenge
\* A handler that ends is the only one there was.
<1>8. ASSUME NEW o, M!Finish(t, o), o # "none"
      PROVE  \A u \in Threads : req'[u] = M!NoRequest /\ (u # t => req[u] = M!NoRequest)
  <2>1. req[t] # M!NoRequest
    BY <1>8 DEF M!Finish, M!NoRequest
  <2>2. \A u \in Threads : u # t => req[u] = M!NoRequest
    BY <1>1, <2>1 DEF FactorInv
  <2>3. req' = [req EXCEPT ![t] = M!NoRequest]
    BY <1>8 DEF M!Finish
  <2>4. DOMAIN req = Threads
    BY <1>0 DEF FactorTypeOK
  <2>5. QED BY <2>2, <2>3, <2>4
<1> SUFFICES ASSUME M!EnrollWrites(t) \/ M!VerifyWrites(t) \/ M!RegenerateWrites(t) \/ M!DisableWrites(t)
                    \/ M!Match(t) \/ M!Consume(t) \/ M!OpenByTime(t) \/ M!RefuseByTime(t)
             PROVE  FactorInv'
  BY <1>4, <1>5, <1>6, <1>7, <1>71 DEF FactorInv, FactorStep
<1>9. \A n \in Nat : n > issued.sheets => M!Sheet(n) \cap Printed = {}
  BY <1>0 DEF Printed, M!Sheet, FactorTypeOK
<1>10. CASE M!EnrollWrites(t)
  <2>1. /\ user'.secret = issued.secrets + 1 /\ user'.enabled = FALSE /\ user'.codes = user.codes
        /\ over'.secrets = 1..issued.secrets /\ over'.sheets = over.sheets
        /\ issued'.sheets = issued.sheets /\ UNCHANGED <<used, late>> /\ issued.secrets \in Nat
    BY <1>0, <1>10 DEF FactorTypeOK, M!EnrollWrites
  <2>2. (\A u \in Threads : req'[u] = M!NoRequest) /\ M!NoRequest.op = "none"
    BY <1>8, <1>10 DEF M!EnrollWrites, M!NoRequest
  <2>3. user'.secret \notin over'.secrets
    BY <2>1
  <2>4. QED BY <1>0, <1>1, <2>1, <2>2, <2>3 DEF FactorInv, Printed
<1>11. ASSUME M!PrintCodes(t), user'.codes = M!Sheet(issued.sheets + 1), used' = used
       PROVE  /\ user'.codes \subseteq Printed' /\ Printed \subseteq Printed'
              /\ \A c \in M!AllCodes : used'[c] <= 1 /\ (used'[c] # 0 => c \in Printed' \ user'.codes)
              /\ \A n \in over'.sheets : M!Sheet(n) \cap user'.codes = {}
             /\ over'.secrets = over.secrets
  <2>1. issued.sheets \in Nat /\ issued'.sheets = issued.sheets + 1
    BY <1>0, <1>11 DEF M!PrintCodes, FactorTypeOK
  <2>2. M!Sheet(issued.sheets + 1) \subseteq Printed' /\ Printed \subseteq Printed'
    BY <2>1 DEF Printed
  <2>3. M!Sheet(issued.sheets + 1) \cap Printed = {}
    BY <1>9, <2>1
  <2>4. over'.sheets \subseteq 1..issued.sheets /\ over'.secrets = over.secrets
    BY <1>0, <1>11 DEF FactorTypeOK, M!PrintCodes
  <2>5. \A n \in over'.sheets : M!Sheet(n) \cap M!Sheet(issued.sheets + 1) = {}
    BY <2>1, <2>4 DEF M!Sheet
  <2>6. QED BY <1>1, <1>11, <2>2, <2>3, <2>4, <2>5 DEF FactorInv
<1>12. CASE M!VerifyWrites(t)
  <2>1. user.secret # 0 /\ req[t].op = "verify" /\ user'.secret = user.secret /\ late' = late
    <3>1. req[t].op = "verify"
      BY <1>12 DEF M!VerifyWrites, M!Finish
    <3>2. user'.secret = user.secret /\ late' = late
      BY <1>0, <1>12 DEF FactorTypeOK, M!VerifyWrites
    <3>3. QED BY <1>1, <3>1, <3>2 DEF FactorInv
  <2>2. \A u \in Threads : req'[u] = M!NoRequest
    BY <1>8, <1>12 DEF M!VerifyWrites
  <2>3. M!NoRequest.op = "none"
    BY DEF M!NoRequest
  <2>4. CASE req[t].first
    <3>1. M!PrintCodes(t) /\ user'.codes = M!Sheet(issued.sheets + 1) /\ used' = used
      BY <1>0, <1>12, <2>4 DEF FactorTypeOK, M!VerifyWrites
    <3>2. QED BY <1>0, <1>1, <1>11, <2>1, <2>2, <2>3, <3>1 DEF FactorInv
  <2>5. CASE ~req[t].first
    <3>1. user'.codes = user.codes /\ UNCHANGED <<issued, over, used>>
      BY <1>0, <1>12, <2>5 DEF FactorTypeOK, M!VerifyWrites
    <3>2. QED BY <1>0, <1>1, <2>1, <2>2, <2>3, <3>1 DEF FactorInv, Printed
  <2>6. QED BY <2>4, <2>5
<1>13. CASE M!RegenerateWrites(t)
  <2>1. /\ M!PrintCodes(t) /\ user'.codes = M!Sheet(issued.sheets + 1) /\ used' = used /\ late' = late
        /\ user'.secret = user.secret /\ user'.enabled = user.enabled
    BY <1>0, <1>13 DEF FactorTypeOK, M!RegenerateWrites
  <2>2. (\A u \in Threads : req'[u] = M!NoRequest) /\ M!NoRequest.op = "none"
    BY <1>8, <1>13 DEF M!RegenerateWrites, M!NoRequest
  <2>3. QED BY <1>0, <1>1, <1>11, <2>1, <2>2 DEF FactorInv
<1>14. CASE M!DisableWrites(t)
  <2>1. /\ user'.secret = 0 /\ user'.enabled = FALSE /\ user'.codes = {}
        /\ over' = [secrets |-> 1..issued.secrets, sheets |-> 1..issued.sheets] /\ UNCHANGED <<issued, used, late>>
    BY <1>14 DEF M!DisableWrites, M!NoUser
  <2>2. (\A u \in Threads : req'[u] = M!NoRequest) /\ M!NoRequest.op = "none"
    BY <1>8, <1>14 DEF M!DisableWrites, M!NoRequest
  <2>3. user'.secret \notin over'.secrets
    BY <2>1
  <2>4. QED BY <1>0, <1>1, <2>1, <2>2, <2>3 DEF FactorInv, Printed
<1>15. CASE M!Match(t)
  <2>1. UNCHANGED <<user, issued, used, over, late>>
    BY <1>15 DEF M!Match
  <2>2. \A u \in Threads : u # t => req'[u] = req[u]
    BY <1>0, <1>15 DEF FactorTypeOK, M!Match
  <2>3. req[t] # M!NoRequest /\ M!NoRequest.op = "none"
    BY <1>15 DEF M!Match, M!NoRequest
  <2>4. CASE req[t].code \in user.codes
    <3>1. req'[t].op = "consume" /\ req'[t].read = user /\ req'[t].code = req[t].code
      BY <1>0, <1>15, <2>4 DEF FactorTypeOK, M!Match
    <3>2. QED BY <1>0, <1>1, <2>1, <2>2, <2>3, <2>4, <3>1 DEF FactorInv, Printed
  <2>5. CASE req[t].code \notin user.codes
    <3>1. req'[t] = M!NoRequest
      BY <1>0, <1>15, <2>5 DEF FactorTypeOK, M!Match
    <3>2. QED BY <1>0, <1>1, <2>1, <2>2, <2>3, <3>1 DEF FactorInv, Printed
  <2>6. QED BY <2>4, <2>5
<1>16. CASE M!Consume(t)
  <2> DEFINE c == req[t].code
  <2>1. req[t].read = user /\ c \in user.codes /\ UNCHANGED <<issued, over, late>>
    BY <1>1, <1>16 DEF FactorInv, M!Consume, M!Finish
  <2>2. user' = [user EXCEPT !.codes = @ \ {c}]
    BY <1>16, <2>1 DEF M!Consume, M!Spent
  <2>3. user'.codes = user.codes \ {c} /\ user'.enabled = user.enabled /\ user'.secret = user.secret
    BY <1>0, <2>2 DEF FactorTypeOK
  <2>4. c \in M!AllCodes /\ used[c] = 0 /\ c \in Printed
    BY <1>0, <1>1, <2>1 DEF FactorInv, FactorTypeOK
  <2>5. used' = [used EXCEPT ![c] = 1]
    BY <1>16, <2>4 DEF M!Consume
  <2>6. \A d \in M!AllCodes : used'[d] = IF d = c THEN 1 ELSE used[d]
    BY <1>0, <2>5 DEF FactorTypeOK
  <2>7. \A u \in Threads : req'[u] = M!NoRequest
    BY <1>8, <1>16 DEF M!Consume
  <2>8. M!NoRequest.op = "none" /\ Printed' = Printed
    BY <2>1 DEF M!NoRequest, Printed
  <2> HIDE DEF c
  <2>9. QED BY <1>0, <1>1, <2>1, <2>3, <2>4, <2>6, <2>7, <2>8 DEF FactorInv
<1>17. CASE M!OpenByTime(t) \/ M!RefuseByTime(t)
  <2>1. UNCHANGED <<user, issued, used, over>> /\ req[t].op = "time"
    BY <1>17 DEF M!OpenByTime, M!RefuseByTime, M!Finish
  <2>2. (\A u \in Threads : req'[u] = M!NoRequest) /\ M!NoRequest.op = "none"
    BY <1>8, <1>17 DEF M!OpenByTime, M!RefuseByTime, M!NoRequest
  <2>3. late' = {}
    <3>1. req[t].read = user /\ user.secret \notin over.secrets /\ late = {}
      BY <1>1, <2>1 DEF FactorInv
    <3>2. QED BY <1>17, <3>1 DEF M!OpenByTime, M!RefuseByTime
  <2>4. QED BY <1>0, <1>1, <2>1, <2>2, <2>3 DEF FactorInv, Printed
<1>18. QED BY <1>10, <1>12, <1>13, <1>14, <1>15, <1>16, <1>17

LEMMA FactorInvariant == Spec => [](part = "factor" => FactorInv)
<1>1. Init => (part = "factor" => FactorInv)
  <2> SUFFICES ASSUME M!Init PROVE FactorInv
    BY InitOfPart
  <2> USE InstancesAssumption DEF M!SecretsAssumption
  <2>1. FactorTypeOK
    <3>1. M!NoUser \in [secret : Nat, enabled : BOOLEAN, codes : SUBSET M!AllCodes]
      BY DEF M!NoUser
    <3>2. /\ used \in [M!AllCodes -> Nat] /\ issued \in [secrets : 0..MaxSecrets, sheets : 0..MaxSecrets]
          /\ over = [secrets |-> {}, sheets |-> {}]
      BY DEF M!Init
    <3>3. M!NoRequest \in [op : {"none", "enroll", "verify", "regenerate", "disable", "recover", "consume", "time"},
                            code : SentCodes, first : BOOLEAN,
                            read : [secret : Nat, enabled : BOOLEAN, codes : SUBSET M!AllCodes]]
      BY <3>1 DEF M!NoRequest, SentCodes
    <3>4. issued.secrets = 0 /\ issued.sheets = 0
      BY DEF M!Init
    <3>5. over \in [secrets : SUBSET (1..issued.secrets), sheets : SUBSET (1..issued.sheets)]
      BY <3>2, <3>4
    <3>6. QED BY <3>1, <3>2, <3>3, <3>5 DEF M!Init, FactorTypeOK
  <2>2. QED BY <2>1 DEF M!Init, FactorInv, M!NoUser, M!NoRequest
<1>2. (part = "factor" => FactorInv) /\ [Next]_vars => (part = "factor" => FactorInv)'
  <2> SUFFICES ASSUME FactorInv, [M!Next]_(M!vars) PROVE FactorInv'
    BY StepOfPart
  <2>1. CASE UNCHANGED M!vars
    BY <2>1 DEF M!vars, FactorInv, FactorTypeOK, Printed
  <2>2. CASE M!Next
    BY <2>2, FactorInvStep DEF M!Next, FactorStep
  <2>3. QED BY <2>1, <2>2
<1>3. QED BY <1>1, <1>2, PTL DEF Spec

-----------------------------------------------------------------------------
(* The rate limit.                                                         *)

RateTypeOK ==
  /\ now \in Nat
  /\ hits \in [Keys -> Seq(Nat)] /\ passed \in [Keys -> Seq(Nat)]
  /\ asked \in [Threads -> [keys : Seq(Keys), time : Nat]]

\* What is left of the queue of a key are the times of the last requests that
\* passed, each read at most MaxLag before the request did; what was dropped of
\* it had passed so long ago that no stretch of the window reaches it any more.
QueueInv(k) ==
  LET p == Len(passed[k])
      d == Len(passed[k]) - Len(hits[k]) IN
  /\ d >= 0
  /\ \A i \in 1..p : passed[k][i] <= now
  /\ \A i \in 1..d : passed[k][i] + Window - MaxLag < now
  /\ \A i \in 1..Len(hits[k]) : hits[k][i] <= passed[k][d + i] /\ passed[k][d + i] <= hits[k][i] + MaxLag
  /\ \A i, j \in 1..p : i <= j /\ passed[k][j] <= passed[k][i] + Window - MaxLag => j - i < Limit[k]

RateInv ==
  /\ RateTypeOK
  /\ \A t \in Threads : L!Asking(t) => asked[t].time <= now /\ now <= asked[t].time + MaxLag
  /\ \A k \in Keys : QueueInv(k)

\* A set of numbers that is not empty has a least one.
LEMMA LeastNat ==
  ASSUME NEW B, B \subseteq Nat, B # {}
  PROVE  \E m \in B : \A n \in B : m <= n
<1>1. IsWellFoundedOn(OpToRel(<, Nat), Nat)
  BY NatLessThanWellFounded
<1>2. \E m \in B : \A n \in B : <<n, m>> \notin OpToRel(<, Nat)
  BY <1>1, WFMin
<1>3. \A m, n \in Nat : <<n, m>> \in OpToRel(<, Nat) <=> n < m
  BY DEF OpToRel
<1>4. \A m, n \in Nat : ~(n < m) => m <= n
  OBVIOUS
<1>5. QED BY <1>2, <1>3, <1>4

\* Expire drops a front part of the queue, all of it out of the window.
LEMMA ExpireDrops ==
  ASSUME NEW q \in Seq(Nat), NEW c \in Int
  PROVE  \E d \in 0..Len(q) :
           /\ L!Expire(q, c) \in Seq(Nat) /\ Len(L!Expire(q, c)) = Len(q) - d
           /\ \A i \in 1..(Len(q) - d) : L!Expire(q, c)[i] = q[d + i]
           /\ \A i \in 1..d : q[i] < c
<1> DEFINE inside == {i \in DOMAIN q : q[i] >= c}
<1>1. CASE inside = {}
  <2>1. L!Expire(q, c) = <<>>
    BY <1>1 DEF L!Expire
  <2>2. \A i \in 1..Len(q) : q[i] < c
    BY <1>1
  <2>3. QED BY <2>1, <2>2
<1>2. CASE inside # {}
  <2> DEFINE m == CHOOSE i \in inside : \A j \in inside : i <= j
  <2>1. m \in inside /\ \A j \in inside : m <= j
    <3>1. inside \subseteq Nat
      OBVIOUS
    <3>2. \E i \in inside : \A j \in inside : i <= j
      BY <1>2, <3>1, LeastNat
    <3>3. QED BY <3>2
  <2>2. L!Expire(q, c) = SubSeq(q, m, Len(q))
    BY <1>2 DEF L!Expire
  <2> HIDE DEF m
  <2>3. m \in 1..Len(q)
    BY <2>1
  <2>4. \A i \in 1..(m - 1) : q[i] < c
    BY <2>1, <2>3
  <2>5. /\ SubSeq(q, m, Len(q)) \in Seq(Nat) /\ Len(SubSeq(q, m, Len(q))) = Len(q) - (m - 1)
        /\ \A i \in 1..(Len(q) - (m - 1)) : SubSeq(q, m, Len(q))[i] = q[(m - 1) + i]
    BY <2>3
  <2>6. m - 1 \in 0..Len(q)
    BY <2>3
  <2> DEFINE d == m - 1
  <2>7. /\ L!Expire(q, c) \in Seq(Nat) /\ Len(L!Expire(q, c)) = Len(q) - d
        /\ \A i \in 1..(Len(q) - d) : L!Expire(q, c)[i] = q[d + i]
        /\ \A i \in 1..d : q[i] < c
    BY <2>2, <2>4, <2>5
  <2> HIDE DEF d
  <2>8. d \in 0..Len(q)
    BY <2>6 DEF d
  <2>9. QED BY <2>7, <2>8
<1>3. QED BY <1>1, <1>2

LEMMA RateTypeStep ==
  ASSUME RateTypeOK, [L!Next]_(L!vars)
  PROVE  RateTypeOK'
<1> USE DEF RateTypeOK
<1>1. CASE UNCHANGED L!vars
  BY <1>1 DEF L!vars
<1>2. CASE L!Tick
  BY <1>2 DEF L!Tick
<1>3. ASSUME NEW t \in Threads, L!Request(t) PROVE RateTypeOK'
  <2>1. PICK ip, name \in Keys : \E keys \in {<<ip>>, <<ip, name>>} : asked' = [asked EXCEPT ![t] = [keys |-> keys, time |-> now]]
    BY <1>3 DEF L!Request
  <2>2. PICK keys \in {<<ip>>, <<ip, name>>} : asked' = [asked EXCEPT ![t] = [keys |-> keys, time |-> now]]
    BY <2>1
  <2>3. <<ip>> \in Seq(Keys) /\ <<ip, name>> \in Seq(Keys)
    OBVIOUS
  <2>4. [keys |-> keys, time |-> now] \in [keys : Seq(Keys), time : Nat]
    BY <2>2, <2>3
  <2>5. asked' \in [Threads -> [keys : Seq(Keys), time : Nat]]
    BY <2>2, <2>4
  <2>6. QED BY <1>3, <2>5 DEF L!Request
<1>4. ASSUME NEW t \in Threads, L!Asking(t)
      PROVE  /\ Head(asked[t].keys) \in Keys /\ Tail(asked[t].keys) \in Seq(Keys)
             /\ L!Live(t, Head(asked[t].keys)) \in Seq(Nat)
  <2>1. Head(asked[t].keys) \in Keys /\ Tail(asked[t].keys) \in Seq(Keys)
    BY <1>4 DEF L!Asking
  <2>2. asked[t].time - Window \in Int
    BY InstancesAssumption DEF L!WindowAssumption
  <2>3. QED BY <2>1, <2>2, ExpireDrops DEF L!Live
<1>5. ASSUME NEW t \in Threads, L!Pass(t) PROVE RateTypeOK'
  <2> DEFINE k == Head(asked[t].keys)
  <2>1. Append(L!Live(t, k), asked[t].time) \in Seq(Nat) /\ Append(passed[k], now) \in Seq(Nat)
    BY <1>4, <1>5 DEF L!Pass
  <2>2. hits' \in [Keys -> Seq(Nat)] /\ passed' \in [Keys -> Seq(Nat)]
    BY <1>5, <2>1 DEF L!Pass
  <2>3. asked' \in [Threads -> [keys : Seq(Keys), time : Nat]]
    BY <1>4, <1>5 DEF L!Pass, L!Idle
  <2>4. QED BY <1>5, <2>2, <2>3 DEF L!Pass
<1>6. ASSUME NEW t \in Threads, L!Refuse(t) PROVE RateTypeOK'
  BY <1>4, <1>6 DEF L!Refuse, L!Idle
<1>7. QED BY <1>1, <1>2, <1>3, <1>5, <1>6 DEF L!Next

\* What is left of a queue once it was expired satisfies QueueInv as the queue
\* did, and shows every request that a request passing now could count.
LEMMA LiveFacts ==
  ASSUME RateInv, NEW t \in Threads, L!Asking(t), NEW k \in Keys
  PROVE  LET live == L!Live(t, k)
             p == Len(passed[k])
             d == Len(passed[k]) - Len(live) IN
         /\ live \in Seq(Nat) /\ d >= 0
         /\ \A i \in 1..d : passed[k][i] + Window - MaxLag < now
         /\ \A i \in 1..Len(live) : live[i] <= passed[k][d + i] /\ passed[k][d + i] <= live[i] + MaxLag
<1> DEFINE live == L!Live(t, k)
           p == Len(passed[k])
           h == Len(hits[k])
           cutoff == asked[t].time - Window
<1>1. Window \in Nat /\ MaxLag \in Nat /\ now \in Nat /\ asked[t].time \in Nat /\ asked[t].time <= now
  BY InstancesAssumption DEF L!WindowAssumption, RateInv, RateTypeOK
<1>2. hits[k] \in Seq(Nat) /\ passed[k] \in Seq(Nat) /\ QueueInv(k)
  BY DEF RateInv, RateTypeOK
<1>3. p \in Nat /\ h \in Nat /\ h <= p
  BY <1>2 DEF QueueInv
<1>4. PICK e \in 0..h :
        /\ live \in Seq(Nat) /\ Len(live) = h - e
        /\ \A i \in 1..(h - e) : live[i] = hits[k][e + i]
        /\ \A i \in 1..e : hits[k][i] < cutoff
  <2>1. cutoff \in Int
    BY <1>1
  <2>2. live = L!Expire(hits[k], cutoff)
    BY DEF L!Live
  <2> HIDE DEF live, cutoff
  <2>3. QED BY <1>2, <2>1, <2>2, ExpireDrops
<1>41. (\A i \in 1..p : passed[k][i] \in Nat) /\ (\A i \in 1..h : hits[k][i] \in Nat)
  BY <1>2
<1>5. /\ \A i \in 1..(p - h) : passed[k][i] + Window - MaxLag < now
      /\ \A i \in 1..h : hits[k][i] <= passed[k][(p - h) + i] /\ passed[k][(p - h) + i] <= hits[k][i] + MaxLag
  BY <1>2 DEF QueueInv
<1> HIDE DEF live, p, h
<1>6. p - Len(live) = (p - h) + e
  BY <1>3, <1>4
<1>7. ASSUME NEW i \in 1..((p - h) + e) PROVE passed[k][i] + Window - MaxLag < now
  <2>1. CASE i <= p - h
    BY <1>3, <1>5, <2>1
  <2>2. CASE i > p - h
    <3> DEFINE n == i - (p - h)
    <3>1. n \in 1..e /\ n \in 1..h /\ i = (p - h) + n
      BY <1>3, <1>4, <2>2
    <3>2. i \in 1..p
      BY <1>3, <1>4
    <3>3. passed[k][i] \in Nat /\ hits[k][n] \in Nat
      BY <1>41, <3>1, <3>2
    <3>4. hits[k][n] < cutoff /\ passed[k][i] <= hits[k][n] + MaxLag
      BY <1>4, <1>5, <3>1
    <3> HIDE DEF n
    <3>5. QED BY <1>1, <3>3, <3>4
  <2>3. QED BY <1>3, <2>1, <2>2
<1>8. ASSUME NEW i \in 1..Len(live)
      PROVE  live[i] <= passed[k][((p - h) + e) + i] /\ passed[k][((p - h) + e) + i] <= live[i] + MaxLag
  <2>1. e + i \in 1..h /\ ((p - h) + e) + i = (p - h) + (e + i) /\ live[i] = hits[k][e + i]
    BY <1>3, <1>4
  <2>2. QED BY <1>5, <2>1
<1> DEFINE out == p - Len(live)
<1>9. out = (p - h) + e /\ out >= 0 /\ live \in Seq(Nat)
  BY <1>3, <1>4, <1>6
<1> HIDE DEF out
<1>10. /\ \A i \in 1..out : passed[k][i] + Window - MaxLag < now
       /\ \A i \in 1..Len(live) : live[i] <= passed[k][out + i] /\ passed[k][out + i] <= live[i] + MaxLag
  BY <1>7, <1>8, <1>9
<1>11. QED BY <1>9, <1>10 DEF live, p, out

LEMMA AppendFacts ==
  ASSUME NEW q \in Seq(Nat), NEW v
  PROVE  /\ Len(Append(q, v)) = Len(q) + 1
         /\ \A i \in 1..Len(q) : Append(q, v)[i] = q[i]
         /\ Append(q, v)[Len(q) + 1] = v
  OBVIOUS

\* A pass and a refusal leave QueueInv true of the key they are about.
LEMMA RefuseStep ==
  ASSUME RateInv, RateTypeOK', NEW t \in Threads, L!Refuse(t), NEW k \in Keys, k = Head(asked[t].keys)
  PROVE  QueueInv(k)'
<1>1. hits'[k] = L!Live(t, k) /\ UNCHANGED <<now, passed>>
  BY DEF L!Refuse, RateInv, RateTypeOK
<1>2. L!Asking(t)
  BY DEF L!Refuse
<1>3. QueueInv(k)
  BY DEF RateInv
<1>4. QED BY <1>1, <1>2, <1>3, LiveFacts DEF QueueInv

LEMMA PassStep ==
  ASSUME RateInv, RateTypeOK', NEW t \in Threads, L!Pass(t), NEW k \in Keys, k = Head(asked[t].keys)
  PROVE  QueueInv(k)'
<1> DEFINE live == L!Live(t, k)
           n == Len(live)
           p == Len(passed[k])
           time == asked[t].time
<1>1. hits'[k] = Append(live, time) /\ passed'[k] = Append(passed[k], now) /\ now' = now
  BY DEF L!Pass, RateInv, RateTypeOK
<1>2. L!Asking(t) /\ n < Limit[k]
  BY DEF L!Pass
<1>3. /\ Window \in Nat /\ MaxLag \in Nat /\ now \in Nat /\ time \in Nat /\ time <= now /\ now <= time + MaxLag
      /\ Limit[k] \in Nat
  BY <1>2, InstancesAssumption DEF L!WindowAssumption, RateInv, RateTypeOK
<1>4. /\ live \in Seq(Nat) /\ passed[k] \in Seq(Nat) /\ p - n >= 0
      /\ \A i \in 1..(p - n) : passed[k][i] + Window - MaxLag < now
      /\ \A i \in 1..n : live[i] <= passed[k][(p - n) + i] /\ passed[k][(p - n) + i] <= live[i] + MaxLag
  BY <1>2, LiveFacts DEF RateInv, RateTypeOK
<1>5. /\ \A i \in 1..p : passed[k][i] \in Nat /\ passed[k][i] <= now
      /\ \A i, j \in 1..p : i <= j /\ passed[k][j] <= passed[k][i] + Window - MaxLag => j - i < Limit[k]
  <2>1. QueueInv(k)
    BY DEF RateInv
  <2>2. \A i \in 1..p : passed[k][i] <= now
    BY <2>1 DEF QueueInv
  <2>3. \A i, j \in 1..p : i <= j /\ passed[k][j] <= passed[k][i] + Window - MaxLag => j - i < Limit[k]
    BY <2>1 DEF QueueInv
  <2>4. \A i \in 1..p : passed[k][i] \in Nat
    BY <1>4
  <2>5. QED BY <2>2, <2>3, <2>4
<1>6. /\ Len(passed'[k]) = p + 1 /\ Len(hits'[k]) = n + 1
      /\ \A i \in 1..p : passed'[k][i] = passed[k][i]
      /\ passed'[k][p + 1] = now
      /\ \A i \in 1..n : hits'[k][i] = live[i]
      /\ hits'[k][n + 1] = time
  <2> HIDE DEF live, time
  <2>1. /\ Len(Append(passed[k], now)) = p + 1 /\ Append(passed[k], now)[p + 1] = now
        /\ \A i \in 1..p : Append(passed[k], now)[i] = passed[k][i]
    BY <1>4, AppendFacts
  <2>2. /\ Len(Append(live, time)) = n + 1 /\ Append(live, time)[n + 1] = time
        /\ \A i \in 1..n : Append(live, time)[i] = live[i]
    BY <1>4, AppendFacts
  <2>3. QED BY <1>1, <2>1, <2>2
<1>7. n \in Nat /\ p \in Nat
  BY <1>4
<1> HIDE DEF live, n, p, time
<1>8. \A i \in 1..(p + 1) : passed'[k][i] \in Nat /\ passed'[k][i] <= now
  <2> TAKE i \in 1..(p + 1)
  <2>1. CASE i \in 1..p
    BY <1>5, <1>6, <2>1
  <2>2. CASE i = p + 1
    BY <1>3, <1>6, <2>2
  <2>3. QED BY <1>7, <2>1, <2>2
<1>9. \A i \in 1..(p - n) : passed'[k][i] + Window - MaxLag < now
  BY <1>4, <1>6, <1>7
<1>10. ASSUME NEW i \in 1..(n + 1)
       PROVE  hits'[k][i] <= passed'[k][(p - n) + i] /\ passed'[k][(p - n) + i] <= hits'[k][i] + MaxLag
  <2>1. CASE i = n + 1
    BY <1>3, <1>6, <1>7, <2>1
  <2>2. CASE i \in 1..n
    <3>1. (p - n) + i \in 1..p
      BY <1>4, <1>7, <2>2
    <3>2. QED BY <1>4, <1>6, <2>2, <3>1
  <2>3. QED BY <1>7, <2>1, <2>2
<1>11. ASSUME NEW i \in 1..(p + 1), NEW j \in 1..(p + 1), i <= j, passed'[k][j] <= passed'[k][i] + Window - MaxLag
       PROVE  j - i < Limit[k]
  <2>1. CASE j \in 1..p
    <3>1. i \in 1..p
      BY <1>7, <1>11, <2>1
    <3>2. QED BY <1>5, <1>6, <1>11, <2>1, <3>1
  <2>2. CASE j = p + 1
    <3>1. ~(i \in 1..(p - n))
      BY <1>3, <1>6, <1>8, <1>9, <1>11, <2>2
    <3>2. i > p - n
      BY <1>7, <3>1
    <3>3. QED BY <1>2, <1>3, <1>7, <2>2, <3>2 DEF n
  <2>3. QED BY <1>7, <2>1, <2>2
<1>12. (p + 1) - (n + 1) = p - n
  BY <1>7
<1>13. QED BY <1>1, <1>4, <1>6, <1>8, <1>9, <1>10, <1>11, <1>12 DEF QueueInv

LEMMA RateStep == RateInv /\ [L!Next]_(L!vars) => RateInv'
<1> SUFFICES ASSUME RateInv, [L!Next]_(L!vars) PROVE RateInv'
  OBVIOUS
<1>1. RateTypeOK /\ RateTypeOK'
  BY RateTypeStep DEF RateInv
<1>2. CASE UNCHANGED L!vars
  BY <1>1, <1>2 DEF L!vars, RateInv, QueueInv, L!Asking
<1>3. CASE L!Tick
  <2>1. now' = now + 1 /\ UNCHANGED <<hits, asked, passed>> /\ now \in Nat /\ MaxLag \in Nat /\ Window \in Nat
    BY <1>1, <1>3, InstancesAssumption DEF L!Tick, RateTypeOK, L!WindowAssumption
  <2>2. \A t \in Threads : L!Asking(t)' => asked'[t].time <= now' /\ now' <= asked'[t].time + MaxLag
    <3>1. \A t \in Threads : L!Asking(t) => asked[t].time \in Nat /\ now - asked[t].time < MaxLag /\ asked[t].time <= now
      BY <1>1, <1>3 DEF L!Tick, RateTypeOK, RateInv
    <3>2. QED BY <2>1, <3>1 DEF L!Asking
  <2>3. ASSUME NEW k \in Keys PROVE QueueInv(k)'
    <3>1. QueueInv(k) /\ passed[k] \in Seq(Nat) /\ hits[k] \in Seq(Nat)
      BY <1>1 DEF RateInv, RateTypeOK
    <3>2. /\ \A i \in 1..Len(passed[k]) : passed[k][i] \in Nat
          /\ Len(passed[k]) \in Nat /\ Len(hits[k]) \in Nat
      BY <3>1
    <3>3. 1..(Len(passed[k]) - Len(hits[k])) \subseteq 1..Len(passed[k])
      <4>1. \A a, b \in Nat : 1..(a - b) \subseteq 1..a
        OBVIOUS
      <4>2. QED BY <3>2, <4>1
    <3>4. \A i \in 1..Len(passed[k]) : passed[k][i] <= now + 1
      BY <2>1, <3>1, <3>2 DEF QueueInv
    <3>5. \A i \in 1..(Len(passed[k]) - Len(hits[k])) : passed[k][i] + Window - MaxLag < now + 1
      <4>1. \A i \in 1..(Len(passed[k]) - Len(hits[k])) : passed[k][i] + Window - MaxLag < now
        BY <3>1 DEF QueueInv
      <4>2. \A n \in Nat : n + Window - MaxLag < now => n + Window - MaxLag < now + 1
        BY <2>1
      <4>3. QED BY <3>2, <3>3, <4>1, <4>2
    <3>6. QED BY <2>1, <3>1, <3>4, <3>5 DEF QueueInv
  <2>4. QED BY <1>1, <2>2, <2>3 DEF RateInv
<1>4. ASSUME NEW t \in Threads, L!Request(t) PROVE RateInv'
  <2>1. UNCHANGED <<now, hits, passed>>
    BY <1>4 DEF L!Request
  <2>2. \A u \in Threads : asked'[u] = asked[u] \/ asked'[u].time = now
    BY <1>1, <1>4 DEF L!Request, RateTypeOK
  <2>3. now \in Nat /\ now <= now + MaxLag
    BY <1>1, InstancesAssumption DEF RateTypeOK, L!WindowAssumption
  <2>4. \A u \in Threads : L!Asking(u)' => asked'[u].time <= now' /\ now' <= asked'[u].time + MaxLag
    BY <2>1, <2>2, <2>3 DEF RateInv, L!Asking
  <2>5. \A k \in Keys : QueueInv(k)'
    BY <2>1 DEF RateInv, QueueInv
  <2>6. QED BY <1>1, <2>4, <2>5 DEF RateInv
<1>5. ASSUME NEW t \in Threads, L!Pass(t) \/ L!Refuse(t) PROVE RateInv'
  <2>0. Head(asked[t].keys) \in Keys
    BY <1>1, <1>5 DEF L!Pass, L!Refuse, L!Asking, RateTypeOK
  <2> PICK k \in Keys : k = Head(asked[t].keys)
    BY <2>0
  <2>1. now' = now
    BY <1>5 DEF L!Pass, L!Refuse
  <2>2. ASSUME NEW c \in Keys \ {k} PROVE QueueInv(c)'
    <3>1. hits'[c] = hits[c] /\ passed'[c] = passed[c]
      BY <1>1, <1>5 DEF L!Pass, L!Refuse, RateTypeOK
    <3>2. QED BY <2>1, <3>1 DEF QueueInv, RateInv
  <2>3. QueueInv(k)'
    BY <1>1, <1>5, <2>1, PassStep, RefuseStep
  <2>4. \A u \in Threads : asked'[u] = asked[u] \/ asked'[u].time = now \/ asked'[u] = L!Idle
    BY <1>1, <1>5 DEF L!Pass, L!Refuse, RateTypeOK
  <2>5. now \in Nat /\ now <= now + MaxLag /\ L!Idle.keys = <<>>
    BY <1>1, InstancesAssumption DEF RateTypeOK, L!WindowAssumption, L!Idle
  <2>6. \A u \in Threads : L!Asking(u)' => asked'[u].time <= now' /\ now' <= asked'[u].time + MaxLag
    BY <2>1, <2>4, <2>5 DEF L!Asking, RateInv
  <2>7. \A c \in Keys : QueueInv(c)'
    BY <2>2, <2>3
  <2>8. QED BY <1>1, <2>6, <2>7 DEF RateInv
<1>6. QED BY <1>2, <1>3, <1>4, <1>5 DEF L!Next

LEMMA RateInit == L!Init => RateInv
<1> SUFFICES ASSUME L!Init PROVE RateInv
  OBVIOUS
<1>1. RateTypeOK
  BY DEF L!Init, RateTypeOK, L!Idle
<1>2. \A t \in Threads : ~L!Asking(t)
  BY DEF L!Init, L!Asking, L!Idle
<1>3. \A k \in Keys : QueueInv(k)
  BY DEF L!Init, QueueInv
<1>4. QED BY <1>1, <1>2, <1>3 DEF RateInv

\* The modules' own Cardinality is the library's.
LEMMA SameCardinality ==
  ASSUME NEW B
  PROVE  L!Cardinality(B) = Cardinality(B) /\ A!Cardinality(B) = Cardinality(B)
  BY DEF L!Cardinality, A!Cardinality, Cardinality

\* What passed too close together is fewer than the limit.
LEMMA RateInvHolds == RateInv => L!RateHolds
<1> USE DEF L!RateHolds
<1> HAVE RateInv
<1> TAKE k \in Keys
<1> TAKE i \in DOMAIN passed[k]
<1> DEFINE close == {j \in DOMAIN passed[k] : j >= i /\ passed[k][j] <= passed[k][i] + Window - MaxLag}
<1>1. Limit[k] \in Nat \ {0}
  BY InstancesAssumption DEF L!WindowAssumption
<1>2. DOMAIN passed[k] = 1..Len(passed[k]) /\ Len(passed[k]) \in Nat
  BY DEF RateInv, RateTypeOK
<1>3. \A j \in close : j - i < Limit[k]
  BY <1>2 DEF RateInv, QueueInv
<1>4. close \subseteq i..(i + Limit[k] - 1)
  BY <1>1, <1>2, <1>3
<1>5. IsFiniteSet(i..(i + Limit[k] - 1)) /\ Cardinality(i..(i + Limit[k] - 1)) = Limit[k]
  <2>1. i \in Int /\ i + Limit[k] - 1 \in Int /\ ~(i > i + Limit[k] - 1) /\ (i + Limit[k] - 1) - i + 1 = Limit[k]
    BY <1>1, <1>2
  <2>2. QED BY <2>1, FS_Interval
<1>6. Cardinality(close) <= Cardinality(i..(i + Limit[k] - 1))
  BY <1>4, <1>5, FS_Subset
<1> HIDE DEF close
<1>7. Cardinality(close) <= Limit[k]
  BY <1>5, <1>6
<1>8. L!Cardinality(close) <= Limit[k]
  BY <1>7, SameCardinality
<1>9. QED BY <1>8 DEF close

LEMMA RateInvariant == Spec => [](part = "rate" => RateInv)
<1>1. Init => (part = "rate" => RateInv)
  BY InitOfPart, RateInit
<1>2. (part = "rate" => RateInv) /\ [Next]_vars => (part = "rate" => RateInv)'
  BY StepOfPart, RateStep
<1>3. QED BY <1>1, <1>2, PTL DEF Spec

\* RateLimiter.check lets no more requests of a key through in a window than its
\* limit, whatever order late threads enter their times in.  Unless two handlers
\* met, mfa_challenge takes a recovery code once, and no code of a secret that was
\* replaced or given up; one of the secret in force it takes each time it is sent.
\* For any number of threads, keys, limits and codes, and any window.
THEOREM LoginIsGuardedAlways == Spec => []LoginIsGuarded
<1>1. (part = "rate" => RateInv) /\ (part = "factor" => FactorInv) => LoginIsGuarded
  <2>1. FactorInv => M!SecondFactorHolds
    BY DEF FactorInv, M!SecondFactorHolds
  <2>2. QED BY <2>1, RateInvHolds DEF LoginIsGuarded
<1>2. QED BY <1>1, RateInvariant, FactorInvariant, PTL

-----------------------------------------------------------------------------
(* Sessions.                                                               *)

TokenStates == [exp : Nat, next : Nat, revoked : BOOLEAN]
WithAccess  == {"stepup", "revoke", "prune", "chain"}
WithRefresh == {"issue", "replace", "branch"}

SessionTypeOK ==
  /\ now \in Nat /\ account \in BOOLEAN
  /\ access \in Seq(Nat) /\ refresh \in Seq(TokenStates) /\ parent \in Seq(Nat)
  /\ Len(parent) = Len(refresh) /\ \A k \in 1..Len(parent) : parent[k] < k
  /\ req \in [Threads -> [at : {"idle"} \cup WithAccess \cup WithRefresh, tok : Nat, fresh : Nat]]
  /\ \A t \in Threads :
       /\ S!at(t) \in WithAccess => S!tok(t) \in 1..Len(access)
       /\ S!at(t) \in WithRefresh => S!tok(t) \in 1..Len(refresh)
  /\ ended \subseteq 1..Len(access) /\ replayed \subseteq 1..Len(refresh)

\* A token that a logout is past revoking is revoked, or has expired.
OutInv ==
  /\ \A t \in Threads : S!at(t) \in {"prune", "chain"} => S!tok(t) \in revoked \/ access[S!tok(t)] < now
  /\ \A a \in ended : a \in revoked \/ access[a] < now

\* A token has at most one rotation under way, and one child: the one that
\* replaced_by names, or is about to.
Links(p) ==
  /\ \A t, u \in Threads : S!Rotating(t, p) /\ S!Rotating(u, p) => t = u
  /\ \A t \in Threads, k \in 1..Len(parent) : S!Rotating(t, p) /\ parent[k] = p => S!at(t) = "replace" /\ S!fresh(t) = k
  /\ \A k \in 1..Len(parent) : parent[k] = p =>
       \/ refresh[p].next = k
       \/ \E t \in Threads : S!at(t) = "replace" /\ S!tok(t) = p /\ S!fresh(t) = k

LinkInv == \A p \in 1..Len(parent) : p \notin contested => Links(p)

\* A token that ReplayEndsTheFamily says is ended.
Dead(k) == refresh[k].revoked \/ k \in escaped

\* A token that a rotation has issued and not yet answered with: nobody has it.
Unknown(f) ==
  /\ f \in 1..Len(refresh) /\ refresh[f].next = 0
  /\ \A k \in 1..Len(parent) : parent[k] # f
  /\ \A t \in Threads : S!at(t) \in WithRefresh => S!tok(t) # f

FreshInv == \A u \in Threads : S!at(u) = "replace" => Unknown(S!fresh(u))

\* What is issued for a token that is dead is dead, and a replay kills the sign-in.
DeadInv ==
  \A k \in 1..Len(parent) :
    parent[k] # 0 /\ parent[k] \notin contested => (Dead(parent[k]) => Dead(k))

RootInv == \A j \in replayed : S!Family(j) \cap contested = {} => Dead(S!Root(j))

SessionInv == SessionTypeOK /\ OutInv /\ LinkInv /\ FreshInv /\ DeadInv /\ RootInv

SessionAction(t) ==
  \/ S!BeginStepUp(t) \/ S!StepUp(t) \/ S!WrongPassword(t)
  \/ S!BeginLogout(t) \/ S!RevokeActive(t) \/ S!PruneRevoked(t) \/ S!RevokeChain(t)
  \/ S!Verify(t) \/ S!FindReplay(t) \/ S!RevokeBranch(t) \/ S!Issue(t) \/ S!Replace(t)

\* A sequence that is defined by its indices.
LEMMA IndexedIsSeq ==
  ASSUME NEW n \in Nat, NEW V, NEW f \in [1..n -> V]
  PROVE  f \in Seq(V) /\ Len(f) = n /\ DOMAIN f = 1..n
  OBVIOUS

LEMMA AppendIs ==
  ASSUME NEW V, NEW q \in Seq(V), NEW v \in V
  PROVE  /\ Append(q, v) \in Seq(V) /\ Len(Append(q, v)) = Len(q) + 1 /\ Len(q) \in Nat
         /\ DOMAIN Append(q, v) = 1..(Len(q) + 1) /\ DOMAIN q = 1..Len(q)
         /\ \A i \in 1..Len(q) : Append(q, v)[i] = q[i]
         /\ Append(q, v)[Len(q) + 1] = v
  OBVIOUS

LEMMA RevokeAllIs ==
  ASSUME SessionTypeOK, NEW B
  PROVE  /\ S!RevokeAll(B) \in Seq(TokenStates) /\ Len(S!RevokeAll(B)) = Len(refresh)
         /\ \A k \in 1..Len(refresh) :
              /\ S!RevokeAll(B)[k].next = refresh[k].next
              /\ S!RevokeAll(B)[k].revoked = (k \in B \/ refresh[k].revoked)
<1>1. refresh \in Seq(TokenStates) /\ Len(refresh) \in Nat /\ DOMAIN refresh = 1..Len(refresh)
  BY DEF SessionTypeOK
<1>2. \A k \in 1..Len(refresh) : refresh[k] \in TokenStates
  BY <1>1
<1>3. \A r \in TokenStates : /\ [r EXCEPT !.revoked = TRUE] \in TokenStates
                            /\ [r EXCEPT !.revoked = TRUE].next = r.next
                            /\ [r EXCEPT !.revoked = TRUE].revoked = TRUE
  BY DEF TokenStates
<1>4. S!RevokeAll(B) = [k \in 1..Len(refresh) |-> IF k \in B THEN [refresh[k] EXCEPT !.revoked = TRUE] ELSE refresh[k]]
  BY <1>1 DEF S!RevokeAll, S!Issued
<1>5. S!RevokeAll(B) \in [1..Len(refresh) -> TokenStates]
  BY <1>2, <1>3, <1>4
<1>6. S!RevokeAll(B) \in Seq(TokenStates) /\ Len(S!RevokeAll(B)) = Len(refresh)
  BY <1>1, <1>5, IndexedIsSeq
<1>7. ASSUME NEW k \in 1..Len(refresh)
      PROVE  /\ S!RevokeAll(B)[k].next = refresh[k].next
             /\ S!RevokeAll(B)[k].revoked = (k \in B \/ refresh[k].revoked)
  <2>1. refresh[k].revoked \in BOOLEAN
    BY <1>2 DEF TokenStates
  <2>2. S!RevokeAll(B)[k] = IF k \in B THEN [refresh[k] EXCEPT !.revoked = TRUE] ELSE refresh[k]
    BY <1>4
  <2>3. CASE k \in B
    BY <1>2, <1>3, <2>2, <2>3
  <2>4. CASE k \notin B
    BY <2>1, <2>2, <2>4
  <2>5. QED BY <2>3, <2>4
<1>8. QED BY <1>6, <1>7

LEMMA SessionTypeStep ==
  ASSUME SessionTypeOK, [S!Next]_(S!vars)
  PROVE  SessionTypeOK'
<1> DEFINE requests == [at : {"idle"} \cup WithAccess \cup WithRefresh, tok : Nat, fresh : Nat]
<1>0. AccessTTL \in Nat /\ RefreshTTL \in Nat
  BY InstancesAssumption DEF S!TTLAssumption
<1>1. /\ access \in Seq(Nat) /\ refresh \in Seq(TokenStates) /\ parent \in Seq(Nat)
      /\ now \in Nat /\ Len(access) \in Nat /\ Len(refresh) \in Nat /\ Len(parent) = Len(refresh)
      /\ S!NoRequest \in requests /\ S!NoRequest.at = "idle" /\ S!Issued = 1..Len(refresh) /\ DOMAIN access = 1..Len(access)
  BY DEF SessionTypeOK, S!NoRequest, WithAccess, WithRefresh, S!Issued
<1>2. now + AccessTTL \in Nat /\ [exp |-> now + RefreshTTL, next |-> 0, revoked |-> FALSE] \in TokenStates
  BY <1>0, <1>1 DEF TokenStates
<1>3. /\ S!NewAccess \in Seq(Nat) /\ Len(S!NewAccess) = Len(access) + 1
      /\ S!NewRefresh \in Seq(TokenStates) /\ Len(S!NewRefresh) = Len(refresh) + 1
  BY <1>1, <1>2, AppendIs DEF S!NewAccess, S!NewRefresh
<1> USE DEF S!at, S!tok, S!fresh
<1>7. /\ now \in Nat /\ account \in BOOLEAN /\ \A k \in 1..Len(parent) : parent[k] < k
      /\ req \in [Threads -> requests]
      /\ ended \subseteq 1..Len(access) /\ replayed \subseteq 1..Len(refresh)
  BY DEF SessionTypeOK, requests
<1>71. \A t \in Threads : S!at(t) \in WithAccess => S!tok(t) \in 1..Len(access)
  BY DEF SessionTypeOK
<1>72. \A t \in Threads : S!at(t) \in WithRefresh => S!tok(t) \in 1..Len(refresh)
  BY DEF SessionTypeOK
\* The parts of the type, each of which a step keeps by itself: what is issued is
\* added at the end.
<1> DEFINE Tables == /\ now' \in Nat /\ account' \in BOOLEAN
                     /\ access' \in Seq(Nat) /\ Len(access') >= Len(access)
                     /\ refresh' \in Seq(TokenStates) /\ Len(refresh') >= Len(refresh)
           Parents == /\ parent' \in Seq(Nat) /\ Len(parent') = Len(refresh')
                      /\ \A k \in 1..Len(parent') : parent'[k] < k
           Requests == /\ req' \in [Threads -> requests]
                       /\ \A t \in Threads :
                            \/ req'[t] = req[t]
                            \/ req'[t].at \notin WithAccess \cup WithRefresh
                            \/ req'[t].at \in WithAccess /\ req'[t].tok \in 1..Len(access)
                            \/ req'[t].at \in WithRefresh /\ req'[t].tok \in 1..Len(refresh)
           Marks == ended' \subseteq 1..Len(access) /\ replayed' \subseteq 1..Len(refresh)
<1>4. ASSUME Tables, Parents, Requests, Marks PROVE SessionTypeOK'
  <2>1. Len(access') \in Nat /\ Len(refresh') \in Nat
    BY <1>4
  <2>2. 1..Len(access) \subseteq 1..Len(access') /\ 1..Len(refresh) \subseteq 1..Len(refresh')
    BY <1>1, <1>4, <2>1
  <2>3. \A t \in Threads :
          /\ req'[t].at \in WithAccess => req'[t].tok \in 1..Len(access')
          /\ req'[t].at \in WithRefresh => req'[t].tok \in 1..Len(refresh')
    BY <1>4, <1>71, <1>72, <2>2 DEF WithAccess, WithRefresh
  <2>4. QED BY <1>4, <2>2, <2>3 DEF SessionTypeOK
<1>41. UNCHANGED <<now, account>> /\ UNCHANGED access /\ UNCHANGED refresh => Tables
  BY <1>1, <1>7
<1>42. UNCHANGED <<now, account>> /\ UNCHANGED access /\ refresh' \in Seq(TokenStates) /\ Len(refresh') = Len(refresh) => Tables
  BY <1>1, <1>7
<1>43. UNCHANGED parent /\ Len(refresh') = Len(refresh) => Parents
  BY <1>1, <1>7
<1>44. UNCHANGED req => Requests
  BY <1>7
<1>45. UNCHANGED <<ended, replayed>> => Marks
  BY <1>7
<1> HIDE DEF requests
<1>5. ASSUME NEW a \in WithAccess \cup WithRefresh, NEW k \in Nat
      PROVE  LET r == [S!NoRequest EXCEPT !.at = a, !.tok = k] IN r \in requests /\ r.at = a /\ r.tok = k
  <2>1. S!NoRequest \in requests
    BY DEF S!NoRequest, requests
  <2>2. \A q \in requests : LET r == [q EXCEPT !.at = a, !.tok = k] IN r \in requests /\ r.at = a /\ r.tok = k
    BY DEF requests
  <2>3. QED BY <2>1, <2>2
<1> DEFINE Goes(t, r) == req' = [req EXCEPT ![t] = r] /\ r \in requests
<1>13. ASSUME NEW t \in Threads, NEW r, Goes(t, r),
              \/ r.at = "idle"
              \/ r.at \in WithAccess /\ r.tok \in 1..Len(access)
              \/ r.at \in WithRefresh /\ r.tok \in 1..Len(refresh)
       PROVE  Requests
  <2>1. "idle" \notin WithAccess \cup WithRefresh
    BY DEF WithAccess, WithRefresh
  <2>2. req' \in [Threads -> requests] /\ req'[t] = r /\ \A u \in Threads : u # t => req'[u] = req[u]
    BY <1>7, <1>13
  <2>3. QED BY <1>13, <2>1, <2>2
<1> HIDE DEF Tables, Parents, Requests, Marks, Goes
<1>8. CASE UNCHANGED S!vars
  BY <1>8 DEF S!vars, SessionTypeOK
<1>9. CASE S!Tick
  <2>1. now' = now + 1 /\ UNCHANGED <<access, refresh, account, req, parent, ended, replayed>>
    BY <1>9 DEF S!Tick, S!history
  <2>2. Tables
    BY <1>1, <1>7, <2>1 DEF Tables
  <2>3. QED BY <1>4, <1>43, <1>44, <1>45, <2>1, <2>2
<1>10. CASE S!DeleteAccount
  <2>1. account' = FALSE /\ UNCHANGED <<now, access, refresh, req, parent, ended, replayed>>
    BY <1>10 DEF S!DeleteAccount, S!history
  <2>2. account' \in BOOLEAN
    BY <2>1
  <2>3. Tables
    BY <1>1, <1>7, <2>1, <2>2 DEF Tables
  <2>4. QED BY <1>4, <1>43, <1>44, <1>45, <2>1, <2>3
\* The child of a token is younger.
<1>11. ASSUME NEW k \in 0..Len(refresh), parent' = Append(parent, k), refresh' = S!NewRefresh
       PROVE  Parents /\ refresh' \in Seq(TokenStates) /\ Len(refresh') >= Len(refresh)
  <2>1. k \in Nat /\ k < Len(refresh) + 1
    BY <1>1, <1>11
  <2>2. /\ parent' \in Seq(Nat) /\ Len(parent') = Len(parent) + 1
        /\ \A i \in 1..Len(parent) : parent'[i] = parent[i]
        /\ parent'[Len(parent) + 1] = k
    BY <1>1, <1>11, <2>1, AppendIs
  <2>3. ASSUME NEW i \in 1..Len(parent') PROVE parent'[i] < i
    <3>1. i \in 1..Len(parent) \/ i = Len(parent) + 1
      BY <1>1, <2>2
    <3>2. QED BY <1>1, <1>7, <2>1, <2>2, <3>1
  <2>4. refresh' \in Seq(TokenStates) /\ Len(refresh') = Len(refresh) + 1
    BY <1>3, <1>11
  <2>5. QED BY <1>1, <2>2, <2>3, <2>4 DEF Parents
<1>12. CASE S!SignIn
  <2>1. access' = S!NewAccess /\ refresh' = S!NewRefresh /\ parent' = Append(parent, 0)
        /\ UNCHANGED <<now, account, req, ended, replayed>>
    BY <1>12 DEF S!SignIn
  <2>2. 0 \in 0..Len(refresh)
    BY <1>1
  <2>3. Parents /\ refresh' \in Seq(TokenStates) /\ Len(refresh') >= Len(refresh)
    BY <1>11, <2>1, <2>2
  <2>4. Tables
    BY <1>1, <1>3, <1>7, <2>1, <2>3 DEF Tables
  <2>5. QED BY <1>4, <1>44, <1>45, <2>1, <2>3, <2>4
<1>14. S!NoRequest \in requests /\ S!NoRequest.at = "idle"
  BY DEF S!NoRequest, requests
\* What a step of a thread does to its request.
<1>15. ASSUME NEW t \in Threads, S!BeginStepUp(t) \/ S!BeginLogout(t) PROVE SessionTypeOK'
  <2>1. PICK a \in WithAccess, k \in 1..Len(access) : req' = [req EXCEPT ![t] = [S!NoRequest EXCEPT !.at = a, !.tok = k]]
    BY <1>1, <1>15 DEF S!BeginStepUp, S!BeginLogout, S!Authenticated, WithAccess
  <2>2. UNCHANGED <<now, account, access, refresh, parent, ended, replayed>>
    BY <1>15 DEF S!BeginStepUp, S!BeginLogout, S!Authenticated, S!tables, S!history
  <2>3. k \in Nat
    BY <1>1
  <2> DEFINE r == [S!NoRequest EXCEPT !.at = a, !.tok = k]
  <2>4. r \in requests /\ r.at = a /\ r.tok = k
    BY <1>5, <2>3
  <2> HIDE DEF r
  <2>5. Goes(t, r)
    BY <2>1, <2>4 DEF Goes, r
  <2>6. Requests
    BY <1>13, <2>4, <2>5
  <2>7. QED BY <1>4, <1>41, <1>43, <1>45, <2>2, <2>6
<1>16. ASSUME NEW t \in Threads, S!Return(t) PROVE Requests
  <2>1. Goes(t, S!NoRequest)
    BY <1>14, <1>16 DEF S!Return, Goes
  <2>2. QED BY <1>13, <1>14, <2>1
<1>17. ASSUME NEW t \in Threads, S!WrongPassword(t) PROVE SessionTypeOK'
  <2>1. UNCHANGED <<now, account, access, refresh, parent, ended, replayed>>
    BY <1>17 DEF S!WrongPassword, S!tables, S!history
  <2>2. Requests
    BY <1>16, <1>17 DEF S!WrongPassword
  <2>3. QED BY <1>4, <1>41, <1>43, <1>45, <2>1, <2>2
<1>18. ASSUME NEW t \in Threads, S!StepUp(t) PROVE SessionTypeOK'
  <2>1. UNCHANGED <<now, account, refresh, parent, ended, replayed>> /\ access' = S!NewAccess
    BY <1>18 DEF S!StepUp, S!history
  <2>2. Requests
    BY <1>16, <1>18 DEF S!StepUp
  <2>3. Tables
    BY <1>1, <1>3, <1>7, <2>1 DEF Tables
  <2>4. QED BY <1>4, <1>43, <1>45, <2>1, <2>2, <2>3
<1>19. ASSUME NEW t \in Threads, S!RevokeActive(t) \/ S!PruneRevoked(t) PROVE SessionTypeOK'
  <2>1. PICK a \in {"prune", "chain"} : req' = [req EXCEPT ![t].at = a]
    BY <1>19 DEF S!RevokeActive, S!PruneRevoked, S!GoTo
  <2>2. S!at(t) \in {"revoke", "prune"} /\ UNCHANGED <<now, account, access, refresh, parent, ended, replayed>>
    BY <1>19 DEF S!RevokeActive, S!PruneRevoked, S!history
  <2> DEFINE r == [req[t] EXCEPT !.at = a]
  <2>3. a \in WithAccess /\ S!at(t) \in WithAccess
    BY <2>2 DEF WithAccess
  <2>4. r \in requests /\ r.at = a /\ r.tok = req[t].tok
    BY <1>7, <2>3 DEF requests
  <2> HIDE DEF r
  <2>5. Goes(t, r)
    BY <2>1, <2>4 DEF Goes, r
  <2>6. r.tok \in 1..Len(access)
    BY <1>71, <2>3, <2>4
  <2>7. Requests
    BY <1>13, <2>3, <2>4, <2>5, <2>6
  <2>8. QED BY <1>4, <1>41, <1>43, <1>45, <2>2, <2>7
<1>20. ASSUME NEW t \in Threads, S!RevokeChain(t) PROVE SessionTypeOK'
  <2>1. UNCHANGED <<now, account, access, parent, replayed>> /\ refresh' = S!RevokeAll(S!Issued) /\ ended' = ended \cup {S!tok(t)}
    BY <1>20 DEF S!RevokeChain
  <2>2. Marks
    BY <1>7, <1>71, <1>20, <2>1 DEF S!RevokeChain, WithAccess, Marks
  <2>3. refresh' \in Seq(TokenStates) /\ Len(refresh') = Len(refresh)
    BY <2>1, RevokeAllIs
  <2>4. Requests
    BY <1>16, <1>20 DEF S!RevokeChain
  <2>5. QED BY <1>4, <1>42, <1>43, <2>1, <2>2, <2>3, <2>4
<1>21. ASSUME NEW t \in Threads, S!Verify(t) \/ S!FindReplay(t) PROVE SessionTypeOK'
  <2>1. PICK a \in WithRefresh, k \in 1..Len(refresh) : req' = [req EXCEPT ![t] = [S!NoRequest EXCEPT !.at = a, !.tok = k]]
    BY <1>1, <1>21 DEF S!Verify, S!FindReplay, WithRefresh
  <2>2. UNCHANGED <<now, account, access, refresh, parent, ended, replayed>>
    BY <1>21 DEF S!Verify, S!FindReplay, S!tables, S!history
  <2>3. k \in Nat
    BY <1>1
  <2> DEFINE r == [S!NoRequest EXCEPT !.at = a, !.tok = k]
  <2>4. r \in requests /\ r.at = a /\ r.tok = k
    BY <1>5, <2>3
  <2> HIDE DEF r
  <2>5. Goes(t, r)
    BY <2>1, <2>4 DEF Goes, r
  <2>6. Requests
    BY <1>13, <2>4, <2>5
  <2>7. QED BY <1>4, <1>41, <1>43, <1>45, <2>2, <2>6
<1>22. ASSUME NEW t \in Threads, S!RevokeBranch(t) PROVE SessionTypeOK'
  <2>1. UNCHANGED <<now, account, access, parent, ended>> /\ refresh' = S!RevokeAll(S!Branch(S!tok(t)))
    BY <1>22 DEF S!RevokeBranch
  <2>2. Marks
    BY <1>7, <1>72, <1>22, <2>1 DEF S!RevokeBranch, WithRefresh, Marks
  <2>3. refresh' \in Seq(TokenStates) /\ Len(refresh') = Len(refresh)
    BY <2>1, RevokeAllIs
  <2>4. Requests
    BY <1>16, <1>22 DEF S!RevokeBranch
  <2>5. QED BY <1>4, <1>42, <1>43, <2>1, <2>2, <2>3, <2>4
<1>23. ASSUME NEW t \in Threads, S!Issue(t) PROVE SessionTypeOK'
  <2> DEFINE r == [req[t] EXCEPT !.at = "replace", !.fresh = Len(refresh')]
  <2>1. /\ UNCHANGED <<now, account, access, ended, replayed>> /\ refresh' = S!NewRefresh
        /\ parent' = Append(parent, S!tok(t)) /\ req' = [req EXCEPT ![t] = r] /\ S!at(t) = "issue"
    BY <1>23 DEF S!Issue
  <2>2. S!tok(t) \in 1..Len(refresh) /\ S!tok(t) \in 0..Len(refresh)
    BY <1>1, <1>72, <2>1 DEF WithRefresh
  <2>3. Parents /\ refresh' \in Seq(TokenStates) /\ Len(refresh') >= Len(refresh)
    BY <1>11, <2>1, <2>2
  <2>4. Len(refresh') \in Nat /\ "replace" \in WithRefresh
    BY <1>3, <2>1 DEF WithRefresh
  <2>5. r \in requests /\ r.at = "replace" /\ r.tok = S!tok(t)
    BY <1>7, <2>4 DEF requests
  <2> HIDE DEF r
  <2>6. Goes(t, r)
    BY <2>1, <2>5 DEF Goes, r
  <2>7. Requests
    BY <1>13, <2>2, <2>4, <2>5, <2>6
  <2>8. Tables
    BY <1>1, <1>7, <2>1, <2>3 DEF Tables
  <2>9. QED BY <1>4, <1>45, <2>1, <2>3, <2>7, <2>8
<1>24. ASSUME NEW t \in Threads, S!Replace(t) PROVE SessionTypeOK'
  <2>1. /\ UNCHANGED <<now, account, parent, ended, replayed>>
        /\ refresh' = [refresh EXCEPT ![S!tok(t)].next = S!fresh(t)] /\ S!at(t) = "replace"
    BY <1>24 DEF S!Replace, S!history
  <2>2. access' \in Seq(Nat) /\ Len(access') >= Len(access)
    BY <1>1, <1>3, <1>24 DEF S!Replace
  <2>3. S!tok(t) \in 1..Len(refresh) /\ S!fresh(t) \in Nat
    BY <1>7, <1>72, <2>1 DEF WithRefresh, requests
  <2>4. refresh' \in Seq(TokenStates) /\ Len(refresh') = Len(refresh)
    <3>1. refresh[S!tok(t)] \in TokenStates
      BY <1>1, <2>3
    <3>2. [refresh[S!tok(t)] EXCEPT !.next = S!fresh(t)] \in TokenStates
      BY <2>3, <3>1 DEF TokenStates
    <3>3. refresh' = [refresh EXCEPT ![S!tok(t)] = [refresh[S!tok(t)] EXCEPT !.next = S!fresh(t)]]
      BY <2>1
    <3>4. refresh \in [1..Len(refresh) -> TokenStates]
      BY <1>1
    <3>5. refresh' \in [1..Len(refresh) -> TokenStates]
      BY <3>2, <3>3, <3>4
    <3>6. QED BY <1>1, <3>5, IndexedIsSeq
  <2>5. Requests
    BY <1>16, <1>24 DEF S!Replace
  <2>6. Tables
    BY <1>1, <1>7, <2>1, <2>2, <2>4 DEF Tables
  <2>7. QED BY <1>4, <1>43, <1>45, <2>1, <2>4, <2>5, <2>6
<1>25. QED
  BY <1>8, <1>9, <1>10, <1>12, <1>15, <1>17, <1>18, <1>19, <1>20, <1>21, <1>22, <1>23, <1>24 DEF S!Next

\* A step of one thread is none of the others'.
LEMMA OtherRequestsWait ==
  ASSUME SessionTypeOK, NEW t \in Threads, SessionAction(t), NEW u \in Threads \ {t}
  PROVE  req'[u] = req[u]
<1>1. DOMAIN req = Threads
  BY DEF SessionTypeOK
<1>2. \E r : req' = [req EXCEPT ![t] = r]
  BY DEF SessionAction, S!BeginStepUp, S!StepUp, S!WrongPassword, S!BeginLogout, S!RevokeActive, S!PruneRevoked, S!RevokeChain,
     S!Verify, S!FindReplay, S!RevokeBranch, S!Issue, S!Replace, S!Authenticated, S!Return, S!GoTo
<1>3. QED BY <1>1, <1>2

\* A token that is out stays out: only what has expired is pruned.
LEMMA OutStaysOut ==
  ASSUME SessionTypeOK, [S!Next]_(S!vars), NEW a \in 1..Len(access), a \in revoked \/ access[a] < now
  PROVE  a \in revoked' \/ access'[a] < now'
<1>1. now \in Nat /\ access \in Seq(Nat) /\ Len(access) \in Nat /\ access[a] \in Nat /\ now + AccessTTL \in Nat
  BY InstancesAssumption DEF SessionTypeOK, S!TTLAssumption
<1>2. access' = access \/ access' = S!NewAccess
  BY DEF S!Next, S!Tick, S!DeleteAccount, S!SignIn, S!BeginStepUp, S!StepUp, S!WrongPassword, S!BeginLogout, S!RevokeActive,
     S!PruneRevoked, S!RevokeChain, S!Verify, S!FindReplay, S!RevokeBranch, S!Issue, S!Replace, S!Authenticated, S!tables,
     S!history, S!vars
<1>3. access'[a] = access[a]
  BY <1>1, <1>2, AppendIs DEF S!NewAccess
<1>4. now' = now \/ now' = now + 1
  BY DEF S!Next, S!Tick, S!DeleteAccount, S!SignIn, S!BeginStepUp, S!StepUp, S!WrongPassword, S!BeginLogout, S!RevokeActive,
     S!PruneRevoked, S!RevokeChain, S!Verify, S!FindReplay, S!RevokeBranch, S!Issue, S!Replace, S!Authenticated, S!tables,
     S!history, S!vars
<1>5. revoked \subseteq revoked' \/ (revoked' = S!Prune /\ now' = now)
  BY DEF S!Next, S!Tick, S!DeleteAccount, S!SignIn, S!BeginStepUp, S!StepUp, S!WrongPassword, S!BeginLogout, S!RevokeActive,
     S!PruneRevoked, S!RevokeChain, S!Verify, S!FindReplay, S!RevokeBranch, S!Issue, S!Replace, S!Authenticated, S!tables,
     S!history, S!vars
<1>6. a \in revoked /\ a \notin S!Prune => access[a] < now
  BY DEF S!Prune
<1>7. QED BY <1>1, <1>3, <1>4, <1>5, <1>6

LEMMA OutStep ==
  ASSUME SessionTypeOK, OutInv, [S!Next]_(S!vars)
  PROVE  OutInv'
<1>1. \A a \in 1..Len(access) : a \in revoked \/ access[a] < now => a \in revoked' \/ access'[a] < now'
  BY OutStaysOut
<1>2. \A t \in Threads : S!at(t) \in {"revoke", "prune", "chain"} => S!tok(t) \in 1..Len(access)
  BY DEF SessionTypeOK, WithAccess
<1>3. ended \subseteq 1..Len(access)
  BY DEF SessionTypeOK
<1>4. ASSUME UNCHANGED ended, UNCHANGED req PROVE OutInv'
  BY <1>1, <1>2, <1>3, <1>4 DEF OutInv, S!at, S!tok
<1>5. CASE UNCHANGED S!vars
  BY <1>4, <1>5 DEF S!vars
<1>6. CASE S!Tick \/ S!DeleteAccount \/ S!SignIn
  BY <1>4, <1>6 DEF S!Tick, S!DeleteAccount, S!SignIn, S!history
<1>7. ASSUME NEW t \in Threads, SessionAction(t) PROVE OutInv'
  <2>1. DOMAIN req = Threads /\ now \in Nat /\ \A a \in 1..Len(access) : access[a] \in Nat
    BY DEF SessionTypeOK
  <2>2. \A u \in Threads \ {t} : req'[u] = req[u]
    BY <1>7, OtherRequestsWait
  <2>3. req'[t].at \in {"prune", "chain"} => req'[t].tok \in revoked' \/ access'[req'[t].tok] < now'
    <3> SUFFICES ASSUME req'[t].at \in {"prune", "chain"} PROVE req'[t].tok \in revoked' \/ access'[req'[t].tok] < now'
      OBVIOUS
    <3>1. S!RevokeActive(t) \/ S!PruneRevoked(t)
      <4> USE <2>1 DEF S!NoRequest
      <4>1. S!Return(t) => FALSE
        BY DEF S!Return
      <4>2. S!BeginStepUp(t) \/ S!BeginLogout(t) => FALSE
        BY DEF S!BeginStepUp, S!BeginLogout, S!Authenticated
      <4>3. S!Verify(t) \/ S!FindReplay(t) => FALSE
        BY DEF S!Verify, S!FindReplay
      <4>4. S!Issue(t) => FALSE
        BY DEF S!Issue
      <4>5. QED
        BY <1>7, <4>1, <4>2, <4>3, <4>4 DEF SessionAction, S!StepUp, S!WrongPassword, S!RevokeChain, S!RevokeBranch, S!Replace
    <3>2. CASE S!PruneRevoked(t)
      <4>1. req'[t].tok = req[t].tok /\ S!at(t) = "prune"
        BY <2>1, <3>2 DEF S!PruneRevoked, S!GoTo
      <4>2. QED BY <1>1, <1>2, <4>1 DEF OutInv, S!tok
    <3>3. CASE S!RevokeActive(t)
      <4>1. req'[t].tok = req[t].tok /\ S!at(t) = "revoke" /\ access' = access /\ now' = now
        BY <2>1, <3>3 DEF S!RevokeActive, S!GoTo
      <4>2. S!Unexpired(access[S!tok(t)]) => S!tok(t) \in revoked'
        BY <3>3 DEF S!RevokeActive
      <4>3. ~S!Unexpired(access[S!tok(t)]) => access[S!tok(t)] < now
        BY <1>2, <2>1, <4>1 DEF S!Unexpired
      <4>4. QED BY <4>1, <4>2, <4>3 DEF S!tok
    <3>4. QED BY <3>1, <3>2, <3>3
  <2>4. \A a \in ended' : a \in ended \/ (S!at(t) = "chain" /\ a = S!tok(t))
    BY <1>7 DEF SessionAction, S!BeginStepUp, S!StepUp, S!WrongPassword, S!BeginLogout, S!RevokeActive, S!PruneRevoked,
       S!RevokeChain, S!Verify, S!FindReplay, S!RevokeBranch, S!Issue, S!Replace, S!Authenticated, S!history
  <2>5. QED BY <1>1, <1>2, <1>3, <2>2, <2>3, <2>4 DEF OutInv, S!at, S!tok
<1>8. QED BY <1>5, <1>6, <1>7 DEF S!Next, SessionAction

IsRotating(r) == r.at \in {"issue", "replace"}

\* A step that neither begins, issues nor ends a rotation keeps the links.
LEMMA LinksCalm ==
  ASSUME LinkInv, UNCHANGED <<parent, contested>>,
         \A k \in 1..Len(parent) : refresh'[k].next = refresh[k].next,
         \A u \in Threads : req'[u] = req[u] \/ (~IsRotating(req[u]) /\ ~IsRotating(req'[u]))
  PROVE  LinkInv'
<1> SUFFICES ASSUME NEW p \in 1..Len(parent), p \notin contested PROVE Links(p)'
  BY DEF LinkInv
<1> USE DEF S!Rotating, S!at, S!tok, S!fresh, IsRotating
<1>1. Links(p)
  BY DEF LinkInv
<1>2. \A u \in Threads : S!Rotating(u, p)' => S!Rotating(u, p) /\ req'[u] = req[u]
  OBVIOUS
<1>3. \A u \in Threads : req[u].at = "replace" => req'[u] = req[u]
  OBVIOUS
<1>4. \A t, u \in Threads : S!Rotating(t, p)' /\ S!Rotating(u, p)' => t = u
  BY <1>1, <1>2 DEF Links
<1>5. \A t \in Threads, k \in 1..Len(parent') :
        S!Rotating(t, p)' /\ parent'[k] = p => S!at(t)' = "replace" /\ S!fresh(t)' = k
  BY <1>1, <1>2 DEF Links
<1>6. \A k \in 1..Len(parent') : parent'[k] = p =>
        \/ refresh'[p].next = k
        \/ \E t \in Threads : S!at(t)' = "replace" /\ S!tok(t)' = p /\ S!fresh(t)' = k
  BY <1>1, <1>3 DEF Links
<1>7. QED BY <1>4, <1>5, <1>6 DEF Links

LEMMA LinkStep ==
  ASSUME SessionTypeOK, LinkInv, [S!Next]_(S!vars)
  PROVE  LinkInv'
<1>1. /\ refresh \in Seq(TokenStates) /\ parent \in Seq(Nat) /\ Len(refresh) \in Nat /\ Len(parent) = Len(refresh)
      /\ \A k \in 1..Len(parent) : parent[k] \in Nat /\ parent[k] < k
      /\ DOMAIN req = Threads /\ S!Issued = 1..Len(refresh)
  BY DEF SessionTypeOK, S!Issued
<1>2. \A u \in Threads : \A p : S!Rotating(u, p) => p \in 1..Len(refresh)
  BY DEF SessionTypeOK, S!Rotating, WithRefresh
<1>3. ~IsRotating(S!NoRequest)
  BY DEF IsRotating, S!NoRequest
<1>4. ASSUME S!Tick \/ S!DeleteAccount \/ UNCHANGED S!vars PROVE LinkInv'
  <2>1. UNCHANGED <<parent, contested, refresh, req>>
    BY <1>4 DEF S!Tick, S!DeleteAccount, S!vars, S!history
  <2>2. QED BY <2>1, LinksCalm
\* Steps of a thread that is not rotating, and does not begin to.
<1>5. ASSUME NEW t \in Threads, ~IsRotating(req[t]), ~IsRotating(req'[t]), SessionAction(t), UNCHANGED <<parent, contested>>,
             \A k \in 1..Len(parent) : refresh'[k].next = refresh[k].next
      PROVE  LinkInv'
  BY <1>5, OtherRequestsWait, LinksCalm
<1>6. ASSUME NEW t \in Threads, S!BeginStepUp(t) \/ S!BeginLogout(t) \/ S!FindReplay(t) PROVE LinkInv'
  <2>1. UNCHANGED <<parent, contested, refresh>> /\ S!at(t) = "idle"
    BY <1>6 DEF S!BeginStepUp, S!BeginLogout, S!FindReplay, S!Authenticated, S!tables, S!history
  <2>2. ~IsRotating(req'[t]) /\ ~IsRotating(req[t])
    BY <1>1, <1>6, <2>1 DEF S!BeginStepUp, S!BeginLogout, S!FindReplay, S!Authenticated, S!NoRequest, IsRotating, S!at
  <2>3. QED BY <1>5, <1>6, <2>1, <2>2 DEF SessionAction
<1>7. ASSUME NEW t \in Threads, S!StepUp(t) \/ S!WrongPassword(t) \/ S!RevokeActive(t) \/ S!PruneRevoked(t) PROVE LinkInv'
  <2>1. UNCHANGED <<parent, contested, refresh>> /\ S!at(t) \in {"stepup", "revoke", "prune"}
    BY <1>7 DEF S!StepUp, S!WrongPassword, S!RevokeActive, S!PruneRevoked, S!tables, S!history
  <2>2. req'[t] = S!NoRequest \/ req'[t].at \in {"prune", "chain"}
    <3>1. S!at(t) # S!NoRequest.at /\ req[t] # S!NoRequest
      BY <2>1 DEF S!NoRequest, S!at
    <3>2. req \in [Threads -> [at : {"idle"} \cup WithAccess \cup WithRefresh, tok : Nat, fresh : Nat]]
      BY DEF SessionTypeOK
    <3>3. \A a : req' = [req EXCEPT ![t].at = a] => req'[t].at = a
      BY <3>2
    <3>4. QED BY <1>1, <1>7, <3>3 DEF S!StepUp, S!WrongPassword, S!RevokeActive, S!PruneRevoked, S!Return, S!GoTo
  <2>3. ~IsRotating(req'[t]) /\ ~IsRotating(req[t])
    BY <1>3, <2>1, <2>2 DEF IsRotating, S!at
  <2>4. QED BY <1>5, <1>7, <2>1, <2>3 DEF SessionAction
<1>8. ASSUME NEW t \in Threads, S!RevokeChain(t) \/ S!RevokeBranch(t) PROVE LinkInv'
  <2>1. UNCHANGED <<parent, contested>> /\ S!at(t) \in {"chain", "branch"} /\ req'[t] = S!NoRequest
    BY <1>1, <1>8 DEF S!RevokeChain, S!RevokeBranch, S!Return
  <2>2. \E B : refresh' = S!RevokeAll(B)
    BY <1>8 DEF S!RevokeChain, S!RevokeBranch
  <2>3. \A k \in 1..Len(parent) : refresh'[k].next = refresh[k].next
    BY <1>1, <2>2, RevokeAllIs
  <2>4. ~IsRotating(req'[t]) /\ ~IsRotating(req[t])
    BY <1>3, <2>1 DEF IsRotating, S!at
  <2>5. QED BY <1>5, <1>8, <2>1, <2>3, <2>4 DEF SessionAction
<1> DEFINE new == Len(parent) + 1
\* A token that is issued has no child, and nobody uses it yet.
<1>9. ASSUME NEW k \in 0..Len(refresh), parent' = Append(parent, k), refresh' = S!NewRefresh
      PROVE  /\ Len(parent') = new /\ parent'[new] = k /\ \A i \in 1..Len(parent) : parent'[i] = parent[i]
             /\ \A i \in 1..Len(parent) : refresh'[i] = refresh[i]
             /\ \A i \in 1..Len(parent') : parent'[i] # new
             /\ new \notin 1..Len(refresh)
  <2>1. k \in Nat /\ k < new
    BY <1>1, <1>9
  <2>2. /\ Len(parent') = new /\ parent'[new] = k
        /\ \A i \in 1..Len(parent) : parent'[i] = parent[i]
    BY <1>1, <1>9, <2>1, AppendIs
  <2>3. \A i \in 1..Len(refresh) : refresh'[i] = refresh[i]
    BY <1>1, <1>9 DEF S!NewRefresh
  <2>4. ASSUME NEW i \in 1..Len(parent') PROVE parent'[i] # new
    <3>1. i = new \/ i \in 1..Len(parent)
      BY <1>1, <2>2
    <3>2. CASE i \in 1..Len(parent)
      <4>1. parent[i] < i /\ parent[i] \in Nat /\ i < new
        BY <1>1, <3>2
      <4>2. QED BY <1>1, <2>2, <3>2, <4>1
    <3>3. QED BY <2>1, <2>2, <3>1, <3>2
  <2>5. QED BY <1>1, <2>2, <2>3, <2>4
<1>10. CASE S!SignIn
  <2>1. parent' = Append(parent, 0) /\ refresh' = S!NewRefresh /\ UNCHANGED <<req, contested>> /\ 0 \in 0..Len(refresh)
    BY <1>1, <1>10 DEF S!SignIn
  <2> SUFFICES ASSUME NEW p \in 1..Len(parent'), p \notin contested PROVE Links(p)'
    BY <2>1 DEF LinkInv
  <2>2. p = new \/ p \in 1..Len(parent)
    BY <1>1, <1>9, <2>1
  <2>3. CASE p = new
    BY <1>1, <1>2, <1>9, <2>1, <2>3 DEF Links, S!Rotating, S!at, S!tok
  <2>4. CASE p \in 1..Len(parent)
    <3>1. Links(p) /\ p # 0
      BY <1>1, <2>1, <2>4 DEF LinkInv
    <3>2. \A i \in 1..Len(parent') : parent'[i] = p => i \in 1..Len(parent) /\ parent[i] = p
      BY <1>1, <1>9, <2>1, <3>1
    <3>3. refresh'[p] = refresh[p]
      BY <1>9, <2>1, <2>4
    <3>4. QED BY <2>1, <3>1, <3>2, <3>3 DEF Links, S!Rotating, S!at, S!tok, S!fresh
  <2>5. QED BY <2>2, <2>3, <2>4
<1>11. ASSUME NEW t \in Threads, S!Verify(t) PROVE LinkInv'
  <2>1. PICK j \in 1..Len(parent) :
          /\ refresh[j].next = 0 /\ S!at(t) = "idle"
          /\ req' = [req EXCEPT ![t] = [S!NoRequest EXCEPT !.at = "issue", !.tok = j]]
          /\ contested' = contested \cup {k \in {j} : \E u \in Threads : S!Rotating(u, k)}
          /\ UNCHANGED <<refresh, parent>>
    BY <1>1, <1>11 DEF S!Verify, S!tables
  <2>2. req'[t].at = "issue" /\ req'[t].tok = j /\ \A u \in Threads : u # t => req'[u] = req[u]
    BY <1>1, <2>1 DEF S!NoRequest
  <2> SUFFICES ASSUME NEW p \in 1..Len(parent), p \notin contested' PROVE Links(p)'
    BY <2>1 DEF LinkInv
  <2>3. Links(p)
    BY <2>1 DEF LinkInv
  <2>4. ~S!Rotating(t, p) /\ \A u \in Threads : u # t => (S!Rotating(u, p)' <=> S!Rotating(u, p))
    BY <2>1, <2>2 DEF S!Rotating, S!at, S!tok
  <2>5. CASE p # j
    <3>1. ~S!Rotating(t, p)'
      BY <2>2, <2>5 DEF S!Rotating, S!tok
    <3>2. \A u \in Threads : S!at(u) = "replace" => u # t
      BY <2>1
    <3>3. QED BY <2>1, <2>2, <2>3, <2>4, <3>1, <3>2 DEF Links, S!Rotating, S!at, S!tok, S!fresh
  <2>6. CASE p = j
    <3>1. \A u \in Threads : ~S!Rotating(u, j)
      BY <2>1, <2>6
    <3>2. \A k \in 1..Len(parent) : parent[k] # j
      <4>1. \A k \in 1..Len(parent) : k # 0
        BY <1>1
      <4>2. QED BY <2>1, <2>3, <2>6, <3>1, <4>1 DEF Links, S!Rotating
    <3>3. QED BY <2>1, <2>2, <2>4, <2>6, <3>1, <3>2 DEF Links
  <2>7. QED BY <2>5, <2>6
<1>12. ASSUME NEW t \in Threads, S!Issue(t) PROVE LinkInv'
  <2>1. /\ parent' = Append(parent, S!tok(t)) /\ refresh' = S!NewRefresh /\ UNCHANGED contested
        /\ S!at(t) = "issue" /\ req' = [req EXCEPT ![t].at = "replace", ![t].fresh = Len(refresh')]
    BY <1>12 DEF S!Issue
  <2>2. S!Rotating(t, S!tok(t)) /\ S!tok(t) \in 1..Len(refresh) /\ S!tok(t) \in 0..Len(refresh)
    BY <1>1, <1>2, <2>1 DEF S!Rotating
  <2>3. /\ Len(parent') = new /\ parent'[new] = S!tok(t) /\ \A i \in 1..Len(parent) : parent'[i] = parent[i]
        /\ \A i \in 1..Len(parent) : refresh'[i] = refresh[i]
        /\ \A i \in 1..Len(parent') : parent'[i] # new
        /\ new \notin 1..Len(refresh)
    BY <1>9, <2>1, <2>2
  <2>4. Len(refresh') = new
    BY <1>1, <2>1 DEF S!NewRefresh
  <2>5. /\ req'[t].at = "replace" /\ req'[t].fresh = new /\ req'[t].tok = req[t].tok
        /\ \A u \in Threads : u # t => req'[u] = req[u]
    <3>1. req \in [Threads -> [at : {"idle"} \cup WithAccess \cup WithRefresh, tok : Nat, fresh : Nat]]
      BY DEF SessionTypeOK
    <3>2. QED BY <2>1, <2>4, <3>1
  <2>6. \A u \in Threads : \A q : S!Rotating(u, q)' <=> S!Rotating(u, q)
    BY <2>1, <2>5 DEF S!Rotating, S!at, S!tok
  <2> SUFFICES ASSUME NEW p \in 1..Len(parent'), p \notin contested PROVE Links(p)'
    BY <2>1 DEF LinkInv
  <2>7. p = new \/ p \in 1..Len(parent)
    BY <1>1, <2>3
  <2>8. CASE p = new
    <3>1. \A u \in Threads : ~S!Rotating(u, p)'
      BY <1>2, <2>3, <2>6, <2>8
    <3>2. \A k \in 1..Len(parent') : parent'[k] # p
      BY <2>3, <2>8
    <3>3. QED BY <3>1, <3>2 DEF Links
  <2>9. CASE p \in 1..Len(parent)
    <3>1. Links(p) /\ refresh'[p] = refresh[p]
      BY <2>3, <2>9 DEF LinkInv
    <3>2. \A u, v \in Threads : S!Rotating(u, p)' /\ S!Rotating(v, p)' => u = v
      BY <2>6, <3>1 DEF Links
    <3>3. ASSUME NEW k \in 1..Len(parent') PROVE k = new \/ (k \in 1..Len(parent) /\ parent'[k] = parent[k])
      <4>1. k = new \/ k \in 1..Len(parent)
        BY <1>1, <2>3
      <4>2. QED BY <2>3, <4>1
    <3>4. S!tok(t) = p => \A k \in 1..Len(parent) : parent[k] # p
      BY <2>1, <2>2, <3>1 DEF Links
    <3>5. ASSUME NEW u \in Threads, NEW k \in 1..Len(parent'), S!Rotating(u, p)', parent'[k] = p
          PROVE  S!at(u)' = "replace" /\ S!fresh(u)' = k
      <4>1. S!Rotating(u, p)
        BY <2>6, <3>5
      <4>2. CASE k = new
        <5>1. S!tok(t) = p
          BY <2>3, <3>5, <4>2
        <5>2. u = t
          BY <2>2, <3>1, <4>1, <5>1 DEF Links
        <5>3. QED BY <2>5, <4>2, <5>2 DEF S!at, S!fresh
      <4>3. CASE k \in 1..Len(parent) /\ parent[k] = p
        <5>1. S!at(u) = "replace" /\ S!fresh(u) = k
          BY <3>1, <4>1, <4>3 DEF Links
        <5>2. u # t
          BY <2>1, <5>1
        <5>3. QED BY <2>5, <5>1, <5>2 DEF S!at, S!fresh
      <4>4. QED BY <3>3, <3>5, <4>2, <4>3
    <3>6. ASSUME NEW k \in 1..Len(parent'), parent'[k] = p
          PROVE  \/ refresh'[p].next = k
                 \/ \E u \in Threads : S!at(u)' = "replace" /\ S!tok(u)' = p /\ S!fresh(u)' = k
      <4>1. CASE k = new
        BY <2>3, <2>5, <3>6, <4>1 DEF S!at, S!tok, S!fresh
      <4>2. CASE k \in 1..Len(parent) /\ parent[k] = p
        <5>1. \/ refresh[p].next = k
              \/ \E u \in Threads : S!at(u) = "replace" /\ S!tok(u) = p /\ S!fresh(u) = k
          BY <3>1, <4>2 DEF Links
        <5>2. \A u \in Threads : S!at(u) = "replace" => req'[u] = req[u]
          BY <2>1, <2>5
        <5>3. QED BY <3>1, <5>1, <5>2 DEF S!at, S!tok, S!fresh
      <4>3. QED BY <3>3, <3>6, <4>1, <4>2
    <3>7. QED BY <3>2, <3>5, <3>6 DEF Links
  <2>10. QED BY <2>7, <2>8, <2>9
<1>13. ASSUME NEW t \in Threads, S!Replace(t) PROVE LinkInv'
  <2>1. /\ refresh' = [refresh EXCEPT ![S!tok(t)].next = S!fresh(t)] /\ UNCHANGED <<parent, contested>>
        /\ S!at(t) = "replace" /\ req' = [req EXCEPT ![t] = S!NoRequest]
    BY <1>13 DEF S!Replace, S!Return, S!history
  <2>2. req'[t] = S!NoRequest /\ \A u \in Threads : u # t => req'[u] = req[u]
    BY <1>1, <2>1
  <2> SUFFICES ASSUME NEW p \in 1..Len(parent), p \notin contested PROVE Links(p)'
    BY <2>1 DEF LinkInv
  <2>3. Links(p)
    BY DEF LinkInv
  <2>4. \A u \in Threads : S!Rotating(u, p)' => S!Rotating(u, p) /\ u # t /\ req'[u] = req[u]
    BY <1>3, <2>2 DEF S!Rotating, S!at, S!tok, IsRotating
  <2>5. \A u, v \in Threads : S!Rotating(u, p)' /\ S!Rotating(v, p)' => u = v
    BY <2>3, <2>4 DEF Links
  <2>6. ASSUME NEW u \in Threads, NEW k \in 1..Len(parent'), S!Rotating(u, p)', parent'[k] = p
        PROVE  S!at(u)' = "replace" /\ S!fresh(u)' = k
    BY <2>1, <2>3, <2>4, <2>6 DEF Links, S!at, S!fresh
  <2>7. ASSUME NEW k \in 1..Len(parent'), parent'[k] = p
        PROVE  \/ refresh'[p].next = k
               \/ \E u \in Threads : S!at(u)' = "replace" /\ S!tok(u)' = p /\ S!fresh(u)' = k
    <3>0. refresh[p] \in TokenStates /\ p \in DOMAIN refresh
      BY <1>1
    <3>1. CASE p = S!tok(t)
      <4>1. S!fresh(t) = k
        BY <2>1, <2>3, <2>7, <3>1 DEF Links, S!Rotating
      <4>2. refresh'[p].next = S!fresh(t)
        BY <2>1, <3>0, <3>1 DEF TokenStates
      <4>3. QED BY <4>1, <4>2
    <3>2. CASE p # S!tok(t)
      <4>1. refresh'[p] = refresh[p]
        BY <2>1, <3>0, <3>2
      <4>2. \/ refresh[p].next = k
            \/ \E u \in Threads : S!at(u) = "replace" /\ S!tok(u) = p /\ S!fresh(u) = k
        BY <2>1, <2>3, <2>7 DEF Links
      <4>3. QED BY <2>2, <3>2, <4>1, <4>2 DEF S!at, S!tok, S!fresh
    <3>3. QED BY <3>1, <3>2
  <2>8. QED BY <2>5, <2>6, <2>7 DEF Links
<1>14. QED BY <1>4, <1>6, <1>7, <1>8, <1>10, <1>11, <1>12, <1>13 DEF S!Next

\* A set with 0 and the successor of each of its numbers has them all.
LEMMA Induction ==
  ASSUME NEW T, 0 \in T, \A k \in Nat : k \in T => k + 1 \in T
  PROVE  Nat \subseteq T
<1> SUFFICES ASSUME Nat \ T # {} PROVE FALSE
  OBVIOUS
<1>1. PICK m \in Nat \ T : \A n \in Nat \ T : m <= n
  BY LeastNat
<1>2. m # 0 /\ m - 1 \in Nat /\ (m - 1) + 1 = m /\ ~(m <= m - 1)
  BY <1>1
<1>3. m - 1 \in T
  BY <1>1, <1>2
<1>4. QED BY <1>1, <1>2, <1>3

\* The values that a step makes from a beginning are those of a function.
LEMMA Iteration ==
  ASSUME NEW X, NEW a \in X, NEW s \in [X -> X]
  PROVE  \E f \in [Nat -> X] : f[0] = a /\ \A k \in Nat : f[k + 1] = s[f[k]]
<1> DEFINE Good(n, f) == f \in [0..n -> X] /\ f[0] = a /\ \A k \in 0..(n-1) : f[k + 1] = s[f[k]]
           HasGood == {n \in Nat : \E f : Good(n, f)}
<1>1. Nat \subseteq HasGood
  <2>1. 0 \in HasGood
    <3>1. Good(0, [k \in 0..0 |-> a])
      OBVIOUS
    <3>2. QED BY <3>1
  <2>2. ASSUME NEW m \in Nat, m \in HasGood PROVE m + 1 \in HasGood
    <3>1. PICK f : Good(m, f)
      BY <2>2
    <3> DEFINE h == [k \in 0..(m + 1) |-> IF k = m + 1 THEN s[f[m]] ELSE f[k]]
    <3>2. f[m] \in X
      BY <3>1
    <3>3. h \in [0..(m + 1) -> X] /\ h[0] = a
      BY <3>1, <3>2
    <3>4. ASSUME NEW k \in 0..((m + 1) - 1) PROVE h[k + 1] = s[h[k]]
      BY <3>1, <3>4
    <3>5. Good(m + 1, h)
      BY <3>3, <3>4
    <3>6. QED BY <3>5
  <2> HIDE DEF HasGood
  <2>3. QED BY <2>1, <2>2, Induction
<1>2. \A n \in Nat : \A f, h : Good(n, f) /\ Good(n + 1, h) => f[n] = h[n]
  <2> SUFFICES ASSUME NEW n \in Nat, NEW f, NEW h, Good(n, f), Good(n + 1, h) PROVE f[n] = h[n]
    OBVIOUS
  <2> DEFINE Bad == {k \in 0..n : f[k] # h[k]}
  <2>1. SUFFICES ASSUME Bad # {} PROVE FALSE
    OBVIOUS
  <2>2. PICK m \in Bad : \A k \in Bad : m <= k
    <3>1. Bad \subseteq Nat
      OBVIOUS
    <3>2. QED BY <2>1, <3>1, LeastNat
  <2>3. m # 0 /\ m \in 0..n
    OBVIOUS
  <2>4. m - 1 \in 0..(n - 1) /\ m - 1 \in 0..((n + 1) - 1) /\ (m - 1) + 1 = m /\ m - 1 \notin Bad
    BY <2>2, <2>3
  <2>5. QED BY <2>2, <2>4
<1> DEFINE G(n) == CHOOSE f : Good(n, f)
           all == [n \in Nat |-> G(n)[n]]
<1>3. ASSUME NEW n \in Nat
      PROVE  /\ G(n) \in [0..n -> X] /\ G(n)[0] = a /\ \A k \in 0..(n-1) : G(n)[k + 1] = s[G(n)[k]]
             /\ Good(n, G(n))
  <2>1. Good(n, G(n))
    <3>1. \E f : Good(n, f)
      BY <1>1
    <3> HIDE DEF Good
    <3>2. QED BY <3>1
  <2>2. QED BY <2>1
<1> HIDE DEF G, Good
<1>4. all \in [Nat -> X] /\ all[0] = a
  <2>1. \A n \in Nat : n \in 0..n
    OBVIOUS
  <2>2. QED BY <1>3, <2>1
<1>5. ASSUME NEW k \in Nat PROVE all[k + 1] = s[all[k]]
  <2>1. Good(k, G(k)) /\ Good(k + 1, G(k + 1)) /\ k + 1 \in Nat /\ k \in 0..((k + 1) - 1)
    BY <1>3
  <2>2. G(k)[k] = G(k + 1)[k]
    BY <1>2, <2>1
  <2>3. G(k + 1)[k + 1] = s[G(k + 1)[k]]
    BY <1>3, <2>1
  <2>4. QED BY <2>1, <2>2, <2>3
<1>6. QED BY <1>4, <1>5

Iterates(X, a, s) == {f \in [Nat -> X] : f[0] = a /\ \A k \in Nat : f[k + 1] = s[f[k]]}

LEMMA IteratesExist ==
  ASSUME NEW X, NEW a, NEW s, a \in X /\ s \in [X -> X]
  PROVE  Iterates(X, a, s) # {}
<1>1. \E f \in [Nat -> X] : f[0] = a /\ \A k \in Nat : f[k + 1] = s[f[k]]
  BY Iteration
<1>2. QED BY <1>1 DEF Iterates

-----------------------------------------------------------------------------
(* Families.                                                               *)

RootsOf(par) == LET root[k \in 0..Len(par)] == IF k = 0 \/ par[k] = 0 THEN k ELSE root[par[k]] IN root

LEMMA RootIs == \A j : S!Root(j) = RootsOf(parent)[j] /\ S!Root(j)' = RootsOf(parent')[j]
  BY DEF S!Root, RootsOf

\* The function that Root defines exists, as a parent is older than its child.
LEMMA RootsAre ==
  ASSUME NEW par \in Seq(Nat), \A k \in 1..Len(par) : par[k] < k
  PROVE  \A k \in 0..Len(par) :
           /\ RootsOf(par)[k] = IF k = 0 \/ par[k] = 0 THEN k ELSE RootsOf(par)[par[k]]
           /\ RootsOf(par)[k] \in 0..k
<1> DEFINE N == Len(par)
           Next1(f, k) == IF k = 0 \/ par[k] = 0 THEN k ELSE f[par[k]]
           Good(n, f) == f \in [0..n -> Nat] /\ \A k \in 0..n : f[k] = Next1(f, k) /\ f[k] <= k
           HasGood == {n \in Nat : n <= N => \E f : Good(n, f)}
           r == RootsOf(par)
<1>1. N \in Nat /\ \A k \in 1..N : par[k] \in Nat /\ par[k] \in 0..(k - 1)
  <2>1. \A k \in 1..N : par[k] \in Nat /\ par[k] < k
    OBVIOUS
  <2>2. QED BY <2>1
<1> HIDE DEF N
<1>2. 0 \in HasGood
  <2>1. Good(0, [k \in 0..0 |-> 0])
    OBVIOUS
  <2>2. QED BY <2>1
<1>3. ASSUME NEW n \in Nat, n \in HasGood PROVE n + 1 \in HasGood
  <2> SUFFICES ASSUME n + 1 <= N PROVE \E f : Good(n + 1, f)
    OBVIOUS
  <2>1. PICK f : Good(n, f)
    BY <1>1, <1>3
  <2> DEFINE h == [k \in 0..(n + 1) |-> IF k = n + 1 THEN Next1(f, n + 1) ELSE f[k]]
  <2>2. n + 1 \in 1..N /\ (par[n + 1] # 0 => par[n + 1] \in 0..n)
    BY <1>1
  <2>3. Next1(f, n + 1) \in Nat /\ Next1(f, n + 1) <= n + 1
    BY <2>1, <2>2
  <2>4. \A k \in 0..n : k \in 0..(n + 1) /\ k # n + 1
    OBVIOUS
  <2>5. h \in [0..(n + 1) -> Nat]
    BY <2>1, <2>3
  <2>6. \A k \in 0..n : h[k] = f[k]
    BY <2>4
  <2>7. h[n + 1] = Next1(h, n + 1)
    BY <2>2, <2>6
  <2>8. ASSUME NEW k \in 0..n PROVE h[k] = Next1(h, k)
    <3>1. k # 0 /\ par[k] # 0 => par[k] \in 0..n
      <4>1. k # 0 => k \in 1..N
        BY <1>1, <2>2
      <4>2. QED BY <1>1, <4>1
    <3>2. QED BY <2>1, <2>6, <3>1
  <2>9. \A k \in 0..(n + 1) : k \in 0..n \/ k = n + 1
    OBVIOUS
  <2>10. \A k \in 0..(n + 1) : h[k] <= k
    BY <2>1, <2>3, <2>6, <2>9
  <2>11. Good(n + 1, h)
    <3> HIDE DEF h
    <3>1. \A k \in 0..(n + 1) : h[k] = Next1(h, k)
      BY <2>7, <2>8, <2>9
    <3>2. QED BY <2>5, <2>10, <3>1
  <2>12. QED BY <2>11
<1>4. PICK f : Good(N, f)
  <2> HIDE DEF HasGood
  <2>1. N \in HasGood
    BY <1>1, <1>2, <1>3, Induction
  <2> HIDE DEF Good
  <2>2. N <= N
    BY <1>1
  <2>3. QED BY <2>1, <2>2 DEF HasGood
<1>5. f = [k \in 0..N |-> Next1(f, k)]
  BY <1>4
<1>6. r = [k \in 0..N |-> Next1(r, k)]
  BY <1>5 DEF RootsOf, N
<1>7. \A k \in 0..N : r[k] = Next1(r, k)
  <2> HIDE DEF r, Next1
  <2>1. QED BY <1>6
<1> HIDE DEF r
\* The first value that is out of range would come from an earlier one.
<1>8. \A k \in 0..N : r[k] \in 0..k
  <2> DEFINE Bad == {k \in 0..N : r[k] \notin 0..k}
  <2> SUFFICES ASSUME Bad # {} PROVE FALSE
    OBVIOUS
  <2>1. PICK m \in Bad : \A k \in Bad : m <= k
    <3>1. Bad \subseteq Nat
      OBVIOUS
    <3>2. QED BY <3>1, LeastNat
  <2>2. m \in 0..N /\ r[m] = Next1(r, m) /\ r[m] \notin 0..m
    BY <1>7
  <2>3. m # 0 /\ par[m] # 0
    BY <2>2
  <2>4. par[m] \in 0..(m - 1) /\ par[m] \in 0..N /\ ~(m <= par[m])
    BY <1>1, <2>2, <2>3
  <2>5. r[par[m]] \in 0..par[m]
    BY <2>1, <2>4
  <2>6. QED BY <2>2, <2>3, <2>4, <2>5
<1>9. QED BY <1>7, <1>8 DEF N, r

\* A younger token changes nobody's root.
LEMMA RootsStay ==
  ASSUME NEW par \in Seq(Nat), \A k \in 1..Len(par) : par[k] < k,
         NEW more \in Seq(Nat), \A k \in 1..Len(more) : more[k] < k,
         Len(more) >= Len(par), \A k \in 1..Len(par) : more[k] = par[k]
  PROVE  \A k \in 0..Len(par) : RootsOf(more)[k] = RootsOf(par)[k]
<1> DEFINE Bad == {k \in 0..Len(par) : RootsOf(more)[k] # RootsOf(par)[k]}
<1> SUFFICES ASSUME Bad # {} PROVE FALSE
  OBVIOUS
<1>1. PICK m \in Bad : \A k \in Bad : m <= k
  <2>1. Bad \subseteq Nat
    OBVIOUS
  <2>2. QED BY <2>1, LeastNat
<1>2. Len(par) \in Nat /\ Len(more) \in Nat /\ m \in 0..Len(par) /\ m \in 0..Len(more)
  OBVIOUS
<1>3. /\ RootsOf(par)[m] = IF m = 0 \/ par[m] = 0 THEN m ELSE RootsOf(par)[par[m]]
      /\ RootsOf(more)[m] = IF m = 0 \/ more[m] = 0 THEN m ELSE RootsOf(more)[more[m]]
  BY <1>2, RootsAre
<1>4. m # 0 /\ par[m] # 0 /\ more[m] = par[m]
  BY <1>2, <1>3
<1>5. par[m] \in 0..Len(par) /\ ~(m <= par[m])
  <2>1. m \in 1..Len(par) /\ par[m] \in Nat /\ par[m] < m
    BY <1>2, <1>4
  <2>2. QED BY <1>2, <2>1
<1>6. RootsOf(more)[par[m]] = RootsOf(par)[par[m]]
  BY <1>1, <1>5
<1>7. QED BY <1>1, <1>3, <1>4, <1>6
-----------------------------------------------------------------------------
(* Branches.                                                               *)

\* What replaced_by reaches from a token, either way, in as many steps as there
\* are tokens: a set that holds the token and loses no neighbour.
LEMMA BranchIs ==
  ASSUME SessionTypeOK, NEW j \in 1..Len(refresh)
  PROVE  /\ j \in S!Branch(j) /\ S!Branch(j) \subseteq 1..Len(refresh)
         /\ S!Neighbours(S!Branch(j)) \subseteq S!Branch(j)
<1> DEFINE Number == Len(refresh)
           All == 1..Number
           X == SUBSET All
           s == [B \in X |-> S!Neighbours(B)]
           More(B) == S!Neighbours(B)
<1>1. Number \in Nat /\ S!Issued = All
  BY DEF SessionTypeOK, S!Issued
<1>3. \A B : More(B) \in X
  BY <1>1 DEF S!Neighbours
<1>4. \A B \in X : B \subseteq More(B)
  BY <1>1 DEF S!Neighbours
<1> HIDE DEF Number
<1>2. IsFiniteSet(All) /\ Cardinality(All) = Number
  <2>1. Number \in Int /\ 1 \in Int /\ (1 > Number => Number = 0) /\ Number - 1 + 1 = Number
    BY <1>1
  <2>2. IsFiniteSet(1..Number) /\ Cardinality(1..Number) = IF 1 > Number THEN 0 ELSE Number - 1 + 1
    BY <2>1, FS_Interval
  <2>3. QED BY <2>1, <2>2
<1> HIDE DEF All
<1>5. {j} \in X /\ s \in [X -> X]
  <2>1. j \in All
    BY DEF All, Number
  <2> HIDE DEF More
  <2>2. s = [B \in X |-> More(B)]
    BY DEF More
  <2>3. QED BY <1>3, <2>1, <2>2
<1> HIDE DEF X
<1>6. PICK f \in [Nat -> X] : f[0] = {j} /\ \A k \in Nat : f[k + 1] = s[f[k]]
  <2> DEFINE start == {j}
  <2>1. start \in X /\ s \in [X -> X]
    BY <1>5
  <2> HIDE DEF s, start
  <2>2. Iterates(X, start, s) # {}
    BY <2>1, IteratesExist
  <2>3. QED BY <2>2 DEF start, Iterates
<1>7. \A k \in Nat : f[k + 1] = More(f[k])
  BY <1>6
<1> HIDE DEF s
<1> DEFINE r == LET reach[n \in Nat] == IF n = 0 THEN {j} ELSE S!Neighbours(reach[n - 1]) IN reach
<1>8. r = [n \in Nat |-> IF n = 0 THEN {j} ELSE More(r[n - 1])]
  <2>1. ASSUME NEW k \in Nat PROVE f[k] = IF k = 0 THEN {j} ELSE More(f[k - 1])
    <3>1. CASE k = 0
      BY <1>6, <3>1
    <3>2. CASE k # 0
      <4>1. k - 1 \in Nat /\ (k - 1) + 1 = k
        BY <3>2
      <4>2. QED BY <1>7, <3>2, <4>1
    <3>3. QED BY <3>1, <3>2
  <2>2. f = [n \in Nat |-> IF n = 0 THEN {j} ELSE More(f[n - 1])]
    <3> HIDE DEF More
    <3>1. QED BY <1>6, <2>1
  <2>3. QED BY <2>2
<1>9. S!Branch(j) = r[Number]
  BY DEF S!Branch, Number
<1> HIDE DEF r, More
<1>10. r[0] = {j} /\ \A k \in Nat : r[k + 1] = More(r[k])
  <2>1. r[0] = {j}
    BY <1>8
  <2>2. ASSUME NEW k \in Nat PROVE r[k + 1] = More(r[k])
    <3>1. k + 1 \in Nat /\ k + 1 # 0 /\ (k + 1) - 1 = k
      OBVIOUS
    <3>2. QED BY <1>8, <3>1
  <2>3. QED BY <2>1, <2>2
\* Until nothing is added any more, every step adds a token.
<1> DEFINE Far == {k \in Nat : /\ r[k] \in X /\ j \in r[k]
                               /\ More(r[k]) = r[k] \/ Cardinality(r[k]) >= k + 1}
<1>11. 0 \in Far
  <2>1. Cardinality({j}) = 1
    BY FS_Singleton
  <2>2. r[0] \in X /\ j \in r[0] /\ Cardinality(r[0]) = 1
    BY <1>5, <1>10, <2>1
  <2>3. QED BY <2>2
<1>12. ASSUME NEW k \in Nat, k \in Far PROVE k + 1 \in Far
  <2>1. r[k] \in X /\ r[k] \subseteq More(r[k]) /\ j \in r[k] /\ r[k + 1] = More(r[k]) /\ More(r[k]) \in X
    BY <1>3, <1>4, <1>10, <1>12
  <2>2. CASE More(r[k]) = r[k]
    BY <2>1, <2>2
  <2>3. CASE More(r[k]) # r[k] /\ Cardinality(r[k]) >= k + 1
    <3> DEFINE small == r[k]
               large == More(r[k])
    <3>1. small \subseteq large /\ small # large /\ large \subseteq All
      BY <2>1, <2>3 DEF X
    <3> HIDE DEF small, large
    <3>2. IsFiniteSet(large)
      BY <1>2, <3>1, FS_Subset
    <3>3. IsFiniteSet(small) /\ Cardinality(small) < Cardinality(large)
      <4>1. IsFiniteSet(small) /\ Cardinality(small) <= Cardinality(large) /\ Cardinality(large) # Cardinality(small)
        BY <3>1, <3>2, FS_Subset
      <4>2. Cardinality(small) \in Nat /\ Cardinality(large) \in Nat
        BY <3>2, <4>1, FS_CardinalityType
      <4>3. QED BY <4>1, <4>2
    <3>4. Cardinality(small) \in Nat /\ Cardinality(large) \in Nat /\ Cardinality(small) >= k + 1
      BY <2>3, <3>2, <3>3, FS_CardinalityType DEF small
    <3>5. Cardinality(large) >= (k + 1) + 1
      BY <3>3, <3>4
    <3>6. QED BY <2>1, <3>5 DEF large
  <2>4. QED BY <1>12, <2>2, <2>3
<1>13. Number \in Far
  <2> HIDE DEF Far
  <2>1. QED BY <1>1, <1>11, <1>12, Induction
<1>14. More(r[Number]) = r[Number]
  <2> DEFINE last == r[Number]
  <2>1. last \subseteq All
    BY <1>13 DEF X
  <2> HIDE DEF last
  <2>2. Cardinality(last) <= Number
    BY <1>2, <2>1, FS_Subset
  <2>3. Cardinality(last) \in Nat
    BY <1>2, <2>1, FS_Subset, FS_CardinalityType
  <2>4. ~(Cardinality(last) >= Number + 1)
    BY <1>1, <2>2, <2>3
  <2>5. QED BY <1>13, <2>4 DEF last
<1>15. r[Number] \subseteq 1..Len(refresh) /\ j \in r[Number]
  BY <1>13 DEF X, All, Number
<1>16. QED BY <1>9, <1>14, <1>15 DEF More
\* A sign-in is its own root, the others have the root of what they replace.
LEMMA RootFacts ==
  ASSUME SessionTypeOK
  PROVE  \A k \in 1..Len(refresh) :
           /\ S!Root(k) = IF parent[k] = 0 THEN k ELSE S!Root(parent[k])
           /\ S!Root(k) \in 1..k
           /\ parent[k] # 0 => parent[k] \in 1..Len(refresh) /\ parent[k] < k
<1>1. /\ parent \in Seq(Nat) /\ Len(refresh) = Len(parent) /\ Len(parent) \in Nat
      /\ \A k \in 1..Len(parent) : parent[k] \in Nat /\ parent[k] < k
  BY DEF SessionTypeOK
<1>2. \A k \in 0..Len(parent) :
        /\ S!Root(k) = IF k = 0 \/ parent[k] = 0 THEN k ELSE S!Root(parent[k])
        /\ S!Root(k) \in 0..k
  BY <1>1, RootsAre, RootIs
<1>3. ASSUME NEW k \in 1..Len(refresh), parent[k] # 0 PROVE parent[k] \in 1..Len(refresh) /\ parent[k] < k
  BY <1>1, <1>3
<1>4. \A k \in 1..Len(refresh) : S!Root(k) # 0
  <2> DEFINE Bad == {k \in 1..Len(refresh) : S!Root(k) = 0}
  <2> SUFFICES ASSUME Bad # {} PROVE FALSE
    OBVIOUS
  <2>1. PICK m \in Bad : \A k \in Bad : m <= k
    <3>1. Bad \subseteq Nat
      OBVIOUS
    <3>2. QED BY <3>1, LeastNat
  <2>2. m \in 0..Len(parent) /\ m # 0 /\ S!Root(m) = 0 /\ m \in Nat
    BY <1>1
  <2>3. parent[m] # 0 /\ S!Root(parent[m]) = 0
    BY <1>2, <2>2
  <2>4. parent[m] \in 1..Len(refresh) /\ parent[m] < m
    BY <1>3, <2>3
  <2>5. parent[m] \in Bad
    BY <2>3, <2>4
  <2>6. QED BY <2>1, <2>2, <2>4, <2>5
<1>5. ASSUME NEW k \in 1..Len(refresh)
      PROVE  S!Root(k) = (IF parent[k] = 0 THEN k ELSE S!Root(parent[k])) /\ S!Root(k) \in 1..k
  BY <1>1, <1>2, <1>4
<1>6. QED BY <1>3, <1>5

\* What an uncontested token of a branch was issued for is of the branch too, as long
\* as it was answered with; so the branch of a token goes up to its sign-in.
LEMMA BranchHolds ==
  ASSUME SessionTypeOK, LinkInv, FreshInv,
         NEW t \in Threads, S!at(t) = "branch", S!Family(S!tok(t)) \cap contested = {}
  PROVE  S!Root(S!tok(t)) \in S!Branch(S!tok(t))
<1> DEFINE j == S!tok(t)
           B == S!Branch(j)
           W == S!Family(j)
           Known == {k \in B \cap W : S!Answered(k)}
<1>0. j \in 1..Len(refresh)
  BY DEF SessionTypeOK, WithRefresh
<1>1. W = {k \in 1..Len(refresh) : S!Root(k) = S!Root(j)} /\ j \in W
  BY <1>0 DEF SessionTypeOK, S!Family, S!Issued
<1>2. j \in B /\ B \subseteq 1..Len(refresh) /\ S!Neighbours(B) \subseteq B
  BY <1>0, BranchIs
<1>3. W \cap contested = {}
  OBVIOUS
<1>4. j \in Known
  BY <1>1, <1>2 DEF FreshInv, Unknown, S!Answered, WithRefresh
<1> HIDE DEF B, W
<1>5. ASSUME NEW k \in Known, parent[k] # 0 PROVE parent[k] \in Known /\ parent[k] < k
  <2>1. k \in 1..Len(refresh) /\ S!Root(k) = S!Root(j) /\ k \in B
    BY <1>1
  <2>2. parent[k] \in 1..Len(refresh) /\ parent[k] < k /\ S!Root(parent[k]) = S!Root(k)
    BY <1>5, <2>1, RootFacts
  <2>3. parent[k] \in W
    BY <1>1, <2>1, <2>2
  <2>4. Links(parent[k]) /\ k \in 1..Len(parent)
    BY <1>3, <2>1, <2>2, <2>3 DEF LinkInv, SessionTypeOK
  <2>5. refresh[parent[k]].next = k
    BY <2>4 DEF Links, S!Answered
  <2>6. DOMAIN refresh = 1..Len(refresh)
    BY DEF SessionTypeOK
  <2>7. parent[k] \in S!Neighbours(B)
    BY <2>1, <2>2, <2>5, <2>6 DEF S!Neighbours, S!Issued
  <2>8. S!Answered(parent[k])
    BY <2>4 DEF FreshInv, Unknown, S!Answered
  <2>9. QED BY <1>2, <2>2, <2>3, <2>7, <2>8
<1>6. Known \subseteq 1..Len(refresh) /\ \A k \in Known : S!Root(k) = S!Root(j) /\ (parent[k] = 0 => S!Root(k) = k)
  BY <1>1, RootFacts
<1>7. Known \subseteq Nat
  BY <1>6
<1> HIDE DEF Known
<1>8. PICK m \in Known : \A k \in Known : m <= k
  BY <1>4, <1>7, LeastNat
<1>9. parent[m] = 0
  <2>1. parent[m] # 0 => parent[m] \in Known /\ parent[m] < m
    BY <1>5
  <2>2. parent[m] \in Nat /\ m \in Nat
    <3>1. m \in 1..Len(parent) /\ parent \in Seq(Nat)
      BY <1>6 DEF SessionTypeOK
    <3>2. QED BY <3>1
  <2>3. QED BY <1>8, <2>1, <2>2
<1>10. S!Root(j) = m
  BY <1>6, <1>9
<1>11. QED BY <1>8, <1>10 DEF Known, B

\* A token keeps its root, and stays ended once it is.
LEMMA FamilyStays ==
  ASSUME SessionTypeOK, SessionTypeOK', Len(refresh) <= Len(refresh'),
         \A k \in 1..Len(refresh) : parent'[k] = parent[k]
  PROVE  /\ \A k \in 1..Len(refresh) : S!Root(k)' = S!Root(k)
         /\ \A j \in 1..Len(refresh) : S!Family(j) \subseteq S!Family(j)'
<1>1. /\ parent \in Seq(Nat) /\ \A k \in 1..Len(parent) : parent[k] < k
      /\ Len(refresh) = Len(parent) /\ Len(parent) \in Nat
      /\ S!Issued = 1..Len(refresh)
  BY DEF SessionTypeOK, S!Issued
<1>2. /\ parent' \in Seq(Nat) /\ \A k \in 1..Len(parent') : parent'[k] < k
      /\ Len(refresh') = Len(parent') /\ Len(parent') \in Nat
      /\ S!Issued' = 1..Len(refresh')
  BY DEF SessionTypeOK, S!Issued
<1>3. \A k \in 0..Len(parent) : RootsOf(parent')[k] = RootsOf(parent)[k]
  BY <1>1, <1>2, RootsStay
<1>4. \A k \in 1..Len(refresh) : S!Root(k)' = S!Root(k)
  BY <1>1, <1>3, RootIs
<1>5. ASSUME NEW j \in 1..Len(refresh), NEW k \in S!Family(j) PROVE k \in S!Family(j)'
  <2>1. k \in 1..Len(refresh) /\ S!Root(k) = S!Root(j)
    BY <1>1, <1>5 DEF S!Family
  <2>2. k \in S!Issued'
    BY <1>1, <1>2, <2>1
  <2>3. S!Root(k)' = S!Root(j)'
    BY <1>4, <2>1
  <2>4. QED BY <2>2, <2>3 DEF S!Family
<1>6. QED BY <1>4, <1>5

\* What each step does to the tokens there were and to their rotations.
LEMMA TokensStep ==
  ASSUME SessionTypeOK, [S!Next]_(S!vars)
  PROVE  /\ Len(refresh) <= Len(refresh') /\ contested \subseteq contested'
         /\ \A k \in 1..Len(refresh) : parent'[k] = parent[k] /\ (Dead(k) => Dead(k)')
<1>1. /\ refresh \in Seq(TokenStates) /\ parent \in Seq(Nat) /\ Len(refresh) \in Nat /\ Len(parent) = Len(refresh)
      /\ \A k \in 1..Len(refresh) : refresh[k] \in TokenStates /\ k \in DOMAIN refresh
  BY DEF SessionTypeOK
<1>2. CASE UNCHANGED <<refresh, parent, escaped>> /\ contested \subseteq contested'
  BY <1>1, <1>2 DEF Dead
<1>3. ASSUME NEW k \in Nat, parent' = Append(parent, k), refresh' = S!NewRefresh, UNCHANGED contested, escaped \subseteq escaped'
      PROVE  /\ Len(refresh) <= Len(refresh') /\ contested \subseteq contested'
             /\ \A i \in 1..Len(refresh) : parent'[i] = parent[i] /\ (Dead(i) => Dead(i)')
  <2>1. Len(refresh') = Len(refresh) + 1 /\ \A i \in 1..Len(refresh) : refresh'[i] = refresh[i]
    BY <1>1, <1>3 DEF S!NewRefresh
  <2>2. \A i \in 1..Len(refresh) : parent'[i] = parent[i]
    BY <1>1, <1>3
  <2>3. QED BY <1>1, <1>3, <2>1, <2>2 DEF Dead
<1>4. CASE S!SignIn
  BY <1>3, <1>4 DEF S!SignIn
<1>5. ASSUME NEW t \in Threads, S!Issue(t)
      PROVE  /\ Len(refresh) <= Len(refresh') /\ contested \subseteq contested'
             /\ \A i \in 1..Len(refresh) : parent'[i] = parent[i] /\ (Dead(i) => Dead(i)')
  <2>1. S!tok(t) \in Nat
    BY DEF SessionTypeOK, S!tok
  <2>2. QED BY <1>3, <1>5, <2>1 DEF S!Issue
<1>6. ASSUME NEW t \in Threads, S!RevokeChain(t) \/ S!RevokeBranch(t)
      PROVE  /\ Len(refresh) <= Len(refresh') /\ contested \subseteq contested'
             /\ \A i \in 1..Len(refresh) : parent'[i] = parent[i] /\ (Dead(i) => Dead(i)')
  <2>1. PICK B : refresh' = S!RevokeAll(B) /\ escaped \subseteq escaped' \cup B /\ UNCHANGED <<parent, contested>>
    BY <1>6 DEF S!RevokeChain, S!RevokeBranch
  <2>2. Len(refresh') = Len(refresh) /\ \A i \in 1..Len(refresh) : refresh'[i].revoked = (i \in B \/ refresh[i].revoked)
    BY <2>1, RevokeAllIs
  <2>3. \A i \in 1..Len(refresh) : Dead(i) => Dead(i)'
    BY <2>1, <2>2 DEF Dead
  <2>4. QED BY <1>1, <2>1, <2>2, <2>3
<1>7. ASSUME NEW t \in Threads, S!Replace(t)
      PROVE  /\ Len(refresh) <= Len(refresh') /\ contested \subseteq contested'
             /\ \A i \in 1..Len(refresh) : parent'[i] = parent[i] /\ (Dead(i) => Dead(i)')
  <2>1. refresh' = [refresh EXCEPT ![S!tok(t)].next = S!fresh(t)] /\ UNCHANGED <<parent, contested, escaped>>
    BY <1>7 DEF S!Replace, S!history
  <2>2. Len(refresh') = Len(refresh)
    BY <1>1, <2>1
  <2>3. \A i \in 1..Len(refresh) : refresh'[i].revoked = refresh[i].revoked
    BY <1>1, <2>1 DEF TokenStates
  <2>4. QED BY <1>1, <2>1, <2>2, <2>3 DEF Dead
<1>8. ASSUME NEW t \in Threads,
             \/ S!BeginStepUp(t) \/ S!StepUp(t) \/ S!WrongPassword(t) \/ S!BeginLogout(t)
             \/ S!RevokeActive(t) \/ S!PruneRevoked(t) \/ S!Verify(t) \/ S!FindReplay(t)
      PROVE  UNCHANGED <<refresh, parent, escaped>> /\ contested \subseteq contested'
  BY <1>8 DEF S!BeginStepUp, S!StepUp, S!WrongPassword, S!BeginLogout, S!RevokeActive, S!PruneRevoked, S!Verify,
     S!FindReplay, S!Authenticated, S!tables, S!history
<1>9. CASE S!Tick \/ S!DeleteAccount \/ UNCHANGED S!vars
  BY <1>2, <1>9 DEF S!Tick, S!DeleteAccount, S!vars, S!history
<1>10. QED BY <1>2, <1>4, <1>5, <1>6, <1>7, <1>8, <1>9 DEF S!Next

LEMMA FreshStep ==
  ASSUME SessionTypeOK, FreshInv, [S!Next]_(S!vars)
  PROVE  FreshInv'
<1>1. /\ refresh \in Seq(TokenStates) /\ parent \in Seq(Nat) /\ Len(refresh) \in Nat /\ Len(parent) = Len(refresh)
      /\ \A k \in 1..Len(parent) : parent[k] \in Nat /\ parent[k] < k
      /\ DOMAIN req = Threads /\ S!Issued = 1..Len(refresh)
      /\ \A k \in 1..Len(refresh) : refresh[k] \in TokenStates /\ k \in DOMAIN refresh
  BY DEF SessionTypeOK, S!Issued
<1>2. req \in [Threads -> [at : {"idle"} \cup WithAccess \cup WithRefresh, tok : Nat, fresh : Nat]]
  BY DEF SessionTypeOK
<1>3. S!NoRequest.at = "idle" /\ \A a \in WithAccess \cup {"idle"} : a \notin WithRefresh
  BY DEF S!NoRequest, WithAccess, WithRefresh
<1> USE DEF S!at, S!tok, S!fresh
\* A step that issues nothing and names no successor, and lets no thread have a
\* token that was not answered with.
<1>4. ASSUME UNCHANGED parent, Len(refresh') = Len(refresh),
             \A k \in 1..Len(refresh) : refresh'[k].next = refresh[k].next \/ (\E t \in Threads : S!at(t) = "replace" /\ S!tok(t) = k),
             \A u \in Threads : \/ req'[u] = req[u]
                                \/ req'[u].at \notin WithRefresh
                                \/ req'[u].at # "replace" /\ S!Answered(req'[u].tok)
      PROVE  FreshInv'
  <2> SUFFICES ASSUME NEW u \in Threads, req'[u].at = "replace" PROVE Unknown(req[u].fresh)'
    BY DEF FreshInv
  <2>1. req'[u] = req[u] /\ Unknown(req[u].fresh)
    BY <1>4 DEF FreshInv, WithRefresh
  <2>2. \A v \in Threads : req'[v].at \in WithRefresh => req'[v].tok # req[u].fresh
    BY <1>4, <2>1 DEF Unknown, S!Answered, WithRefresh
  <2>3. refresh'[req[u].fresh].next = refresh[req[u].fresh].next
    BY <1>4, <2>1 DEF Unknown, WithRefresh
  <2>4. QED BY <1>4, <2>1, <2>2, <2>3 DEF Unknown
<1>5. ASSUME UNCHANGED <<parent, refresh>>,
             \A u \in Threads : \/ req'[u] = req[u]
                                \/ req'[u].at \notin WithRefresh
                                \/ req'[u].at # "replace" /\ S!Answered(req'[u].tok)
      PROVE  FreshInv'
  BY <1>4, <1>5
<1>6. CASE S!Tick \/ S!DeleteAccount \/ UNCHANGED S!vars
  BY <1>5, <1>6 DEF S!Tick, S!DeleteAccount, S!vars, S!history
<1>7. ASSUME NEW t \in Threads, S!Return(t)
      PROVE  \A u \in Threads : req'[u] = req[u] \/ req'[u].at \notin WithRefresh
  BY <1>1, <1>3, <1>7 DEF S!Return
<1>8. ASSUME NEW t \in Threads, S!StepUp(t) \/ S!WrongPassword(t) PROVE FreshInv'
  BY <1>5, <1>7, <1>8 DEF S!StepUp, S!WrongPassword, S!history, S!tables
<1>9. ASSUME NEW t \in Threads, S!BeginStepUp(t) \/ S!BeginLogout(t) PROVE FreshInv'
  <2>1. PICK a \in {"stepup", "revoke"}, k \in Nat : req' = [req EXCEPT ![t] = [S!NoRequest EXCEPT !.at = a, !.tok = k]]
    <3>1. access \in Seq(Nat) /\ DOMAIN access \subseteq Nat
      BY DEF SessionTypeOK
    <3>2. QED BY <1>9, <3>1 DEF S!BeginStepUp, S!BeginLogout, S!Authenticated
  <2>2. req'[t].at = a /\ \A u \in Threads : u # t => req'[u] = req[u]
    BY <1>1, <2>1 DEF S!NoRequest
  <2>3. UNCHANGED <<parent, refresh>>
    BY <1>9 DEF S!BeginStepUp, S!BeginLogout, S!Authenticated, S!history, S!tables
  <2>4. a \notin WithRefresh
    BY DEF WithRefresh
  <2>5. QED BY <1>5, <2>2, <2>3, <2>4
<1>10. ASSUME NEW t \in Threads, S!RevokeActive(t) \/ S!PruneRevoked(t) PROVE FreshInv'
  <2>1. PICK a \in {"prune", "chain"} : req' = [req EXCEPT ![t].at = a]
    BY <1>10 DEF S!RevokeActive, S!PruneRevoked, S!GoTo
  <2>2. req'[t].at = a /\ \A u \in Threads : u # t => req'[u] = req[u]
    BY <1>2, <2>1
  <2>3. UNCHANGED <<parent, refresh>>
    BY <1>10 DEF S!RevokeActive, S!PruneRevoked, S!history
  <2>4. a \notin WithRefresh
    BY DEF WithRefresh
  <2>5. QED BY <1>5, <2>2, <2>3, <2>4
<1>11. ASSUME NEW t \in Threads, S!RevokeChain(t) \/ S!RevokeBranch(t) PROVE FreshInv'
  <2>1. PICK B : refresh' = S!RevokeAll(B)
    BY <1>11 DEF S!RevokeChain, S!RevokeBranch
  <2>2. Len(refresh') = Len(refresh) /\ \A k \in 1..Len(refresh) : refresh'[k].next = refresh[k].next
    BY <2>1, RevokeAllIs
  <2>3. UNCHANGED parent /\ S!Return(t)
    BY <1>11 DEF S!RevokeChain, S!RevokeBranch
  <2>4. QED BY <1>4, <1>7, <2>2, <2>3
<1>12. ASSUME NEW t \in Threads, S!Verify(t) \/ S!FindReplay(t) PROVE FreshInv'
  <2>1. PICK a \in {"issue", "branch"}, k \in 1..Len(refresh) :
          /\ req' = [req EXCEPT ![t] = [S!NoRequest EXCEPT !.at = a, !.tok = k]]
          /\ S!Answered(k) \/ refresh[k].next # 0
    BY <1>1, <1>12 DEF S!Verify, S!FindReplay
  <2>2. req'[t].at = a /\ req'[t].tok = k /\ \A u \in Threads : u # t => req'[u] = req[u]
    BY <1>1, <2>1 DEF S!NoRequest
  <2>3. S!Answered(k)
    BY <2>1 DEF FreshInv, Unknown, S!Answered
  <2>4. UNCHANGED <<parent, refresh>>
    BY <1>12 DEF S!Verify, S!FindReplay, S!history, S!tables
  <2>5. QED BY <1>5, <2>2, <2>3, <2>4
<1>13. ASSUME NEW t \in Threads, S!Replace(t) PROVE FreshInv'
  <2>1. /\ refresh' = [refresh EXCEPT ![S!tok(t)].next = S!fresh(t)] /\ UNCHANGED parent
        /\ S!at(t) = "replace" /\ S!Return(t)
    BY <1>13 DEF S!Replace, S!history
  <2>2. Len(refresh') = Len(refresh)
    BY <1>1, <2>1
  <2>3. \A k \in 1..Len(refresh) : k # S!tok(t) => refresh'[k] = refresh[k]
    BY <1>1, <2>1
  <2>4. QED BY <1>4, <1>7, <2>1, <2>2, <2>3
\* What is issued is new to everybody, and no child of what is.
<1>14. ASSUME NEW q \in 0..Len(refresh), parent' = Append(parent, q), refresh' = S!NewRefresh,
              \A u \in Threads : S!at(u) = "replace" => S!fresh(u) # q
       PROVE  /\ Len(refresh') = Len(refresh) + 1
              /\ \A u \in Threads : S!at(u) = "replace" =>
                   /\ S!fresh(u) \in 1..Len(refresh') /\ refresh'[S!fresh(u)].next = 0
                   /\ \A k \in 1..Len(refresh') : parent'[k] # S!fresh(u)
              /\ refresh'[Len(refresh')].next = 0
              /\ \A k \in 1..Len(refresh') : parent'[k] # Len(refresh')
  <2>1. Len(refresh') = Len(refresh) + 1 /\ \A i \in 1..Len(refresh) : refresh'[i] = refresh[i]
    BY <1>1, <1>14 DEF S!NewRefresh
  <2>2. refresh'[Len(refresh) + 1].next = 0
    BY <1>1, <1>14 DEF S!NewRefresh
  <2>3. (\A i \in 1..Len(refresh) : parent'[i] = parent[i]) /\ parent'[Len(refresh) + 1] = q
    BY <1>1, <1>14
  <2>4. \A k \in 1..Len(refresh') : k \in 1..Len(refresh) \/ k = Len(refresh) + 1
    BY <1>1, <2>1
  <2>5. ASSUME NEW u \in Threads, S!at(u) = "replace"
        PROVE  /\ S!fresh(u) \in 1..Len(refresh') /\ refresh'[S!fresh(u)].next = 0
               /\ \A k \in 1..Len(refresh') : parent'[k] # S!fresh(u)
    <3>1. Unknown(S!fresh(u))
      BY <2>5 DEF FreshInv
    <3>2. S!fresh(u) \in 1..Len(refresh') /\ refresh'[S!fresh(u)].next = 0
      BY <1>1, <2>1, <3>1 DEF Unknown
    <3>3. \A k \in 1..Len(refresh') : parent'[k] # S!fresh(u)
      BY <1>1, <1>14, <2>3, <2>4, <2>5, <3>1 DEF Unknown
    <3>4. QED BY <3>2, <3>3
  <2>6. ASSUME NEW k \in 1..Len(refresh') PROVE parent'[k] # Len(refresh')
    <3>1. CASE k \in 1..Len(refresh)
      <4>1. parent'[k] = parent[k] /\ parent[k] \in Nat /\ parent[k] < k /\ k <= Len(refresh)
        BY <1>1, <2>3, <3>1
      <4>2. QED BY <1>1, <2>1, <4>1
    <3>2. CASE k = Len(refresh) + 1
      BY <1>1, <2>1, <2>3, <3>2
    <3>3. QED BY <2>4, <3>1, <3>2
  <2>7. QED BY <2>1, <2>2, <2>5, <2>6
<1>15. CASE S!SignIn
  <2>1. parent' = Append(parent, 0) /\ refresh' = S!NewRefresh /\ UNCHANGED req
    BY <1>15 DEF S!SignIn
  <2>2. 0 \in 0..Len(refresh) /\ \A u \in Threads : S!at(u) = "replace" => S!fresh(u) # 0
    BY <1>1 DEF FreshInv, Unknown
  <2>3. \A u \in Threads : S!at(u) = "replace" =>
          /\ S!fresh(u) \in 1..Len(refresh') /\ refresh'[S!fresh(u)].next = 0
          /\ \A k \in 1..Len(refresh') : parent'[k] # S!fresh(u)
    BY <1>14, <2>1, <2>2
  <2>4. Len(parent') = Len(refresh')
    BY <1>1, <2>1 DEF S!NewRefresh
  <2>5. QED BY <2>1, <2>3, <2>4 DEF FreshInv, Unknown
<1>16. ASSUME NEW t \in Threads, S!Issue(t) PROVE FreshInv'
  <2>1. /\ parent' = Append(parent, S!tok(t)) /\ refresh' = S!NewRefresh /\ S!at(t) = "issue"
        /\ req' = [req EXCEPT ![t].at = "replace", ![t].fresh = Len(refresh')]
    BY <1>16 DEF S!Issue
  <2>2. S!tok(t) \in 1..Len(refresh)
    BY <2>1 DEF SessionTypeOK, WithRefresh
  <2>3. S!tok(t) \in 0..Len(refresh) /\ \A u \in Threads : S!at(u) = "replace" => S!fresh(u) # S!tok(t)
    BY <1>1, <2>1, <2>2 DEF FreshInv, Unknown, WithRefresh
  <2>4. /\ req'[t].at = "replace" /\ req'[t].fresh = Len(refresh') /\ req'[t].tok = req[t].tok
        /\ \A u \in Threads : u # t => req'[u] = req[u]
    BY <1>2, <2>1
  <2>5. \A u \in Threads : req'[u].at = "replace" =>
          /\ req'[u].fresh \in 1..Len(refresh') /\ refresh'[req'[u].fresh].next = 0
          /\ \A k \in 1..Len(refresh') : parent'[k] # req'[u].fresh
    <3>1. Len(refresh') \in 1..Len(refresh')
      BY <1>1, <1>14, <2>1, <2>3
    <3>2. QED BY <1>14, <2>1, <2>3, <2>4, <3>1
  <2>6. \A v \in Threads : req'[v].at \in WithRefresh => req[v].at \in WithRefresh /\ req'[v].tok = req[v].tok /\ req[v].tok \in 1..Len(refresh)
    BY <2>1, <2>2, <2>4 DEF SessionTypeOK, WithRefresh
  <2>7. ASSUME NEW u \in Threads, req'[u].at = "replace", NEW v \in Threads, req'[v].at \in WithRefresh
        PROVE  req'[v].tok # req'[u].fresh
    <3>1. CASE u = t
      <4>1. Len(refresh') = Len(refresh) + 1 /\ req[v].tok <= Len(refresh)
        BY <1>1, <1>14, <2>1, <2>3, <2>6, <2>7
      <4>2. QED BY <1>1, <2>4, <2>6, <2>7, <3>1, <4>1
    <3>2. CASE u # t
      BY <2>4, <2>6, <2>7, <3>2 DEF FreshInv, Unknown
    <3>3. QED BY <3>1, <3>2
  <2>8. Len(parent') = Len(refresh')
    BY <1>1, <2>1 DEF S!NewRefresh
  <2>9. QED BY <2>5, <2>7, <2>8 DEF FreshInv, Unknown
<1>17. QED BY <1>6, <1>8, <1>9, <1>10, <1>11, <1>12, <1>13, <1>15, <1>16 DEF S!Next

LEMMA DeadStep ==
  ASSUME SessionTypeOK, LinkInv, FreshInv, DeadInv, [S!Next]_(S!vars)
  PROVE  DeadInv'
<1>0. SessionTypeOK'
  BY SessionTypeStep
<1>1. /\ refresh \in Seq(TokenStates) /\ parent \in Seq(Nat) /\ Len(refresh) \in Nat /\ Len(parent) = Len(refresh)
      /\ \A k \in 1..Len(parent) : parent[k] \in Nat /\ parent[k] < k
      /\ S!Issued = 1..Len(refresh) /\ DOMAIN refresh = 1..Len(refresh)
  BY DEF SessionTypeOK, S!Issued
<1>2. /\ Len(refresh) <= Len(refresh') /\ contested \subseteq contested'
      /\ \A k \in 1..Len(refresh) : parent'[k] = parent[k] /\ (Dead(k) => Dead(k)')
  BY TokensStep
<1>3. Len(parent') = Len(refresh') /\ Len(refresh') \in Nat
  BY <1>0 DEF SessionTypeOK
\* A step that ends no token keeps what holds of the tokens there were.
<1>4. ASSUME NEW k \in 1..Len(refresh), parent[k] # 0, parent[k] \notin contested', Dead(parent[k])' => Dead(parent[k])
      PROVE  Dead(parent[k])' => Dead(k)'
  BY <1>1, <1>2, <1>4 DEF DeadInv
<1>5. ASSUME UNCHANGED <<parent, escaped>>, Len(refresh') = Len(refresh),
             \A k \in 1..Len(refresh) : refresh'[k].revoked = refresh[k].revoked
      PROVE  DeadInv'
  <2> SUFFICES ASSUME NEW k \in 1..Len(parent'), parent'[k] # 0, parent'[k] \notin contested'
               PROVE  Dead(parent[k])' => Dead(k)'
    BY DEF DeadInv
  <2>1. k \in 1..Len(refresh) /\ parent[k] # 0 /\ parent[k] \notin contested'
    BY <1>1, <1>3, <1>5
  <2>2. parent[k] \in 1..Len(refresh)
    BY <1>1, <2>1
  <2>3. Dead(parent[k])' => Dead(parent[k])
    BY <1>5, <2>2 DEF Dead
  <2>4. QED BY <1>4, <1>5, <2>1, <2>3
<1>6. ASSUME UNCHANGED <<parent, escaped, refresh>> PROVE DeadInv'
  BY <1>5, <1>6
<1>7. CASE S!Tick \/ S!DeleteAccount \/ UNCHANGED S!vars
  BY <1>6, <1>7 DEF S!Tick, S!DeleteAccount, S!vars, S!history
<1>8. ASSUME NEW t \in Threads,
             \/ S!BeginStepUp(t) \/ S!StepUp(t) \/ S!WrongPassword(t) \/ S!BeginLogout(t)
             \/ S!RevokeActive(t) \/ S!PruneRevoked(t) \/ S!Verify(t) \/ S!FindReplay(t)
      PROVE  DeadInv'
  <2>1. UNCHANGED <<parent, escaped, refresh>>
    BY <1>8 DEF S!BeginStepUp, S!StepUp, S!WrongPassword, S!BeginLogout, S!RevokeActive, S!PruneRevoked, S!Verify,
       S!FindReplay, S!Authenticated, S!tables, S!history
  <2>2. QED BY <1>6, <2>1
<1>9. ASSUME NEW t \in Threads, S!Replace(t) PROVE DeadInv'
  <2>1. refresh' = [refresh EXCEPT ![S!tok(t)].next = S!fresh(t)] /\ UNCHANGED <<parent, escaped>>
    BY <1>9 DEF S!Replace, S!history
  <2>2. Len(refresh') = Len(refresh)
    BY <1>1, <2>1
  <2>3. \A k \in 1..Len(refresh) : refresh[k] \in TokenStates
    BY <1>1
  <2>4. \A k \in 1..Len(refresh) : refresh'[k].revoked = refresh[k].revoked
    BY <1>1, <2>1, <2>3 DEF TokenStates
  <2>5. QED BY <1>5, <2>1, <2>2, <2>4
<1>10. ASSUME NEW t \in Threads, S!RevokeChain(t) PROVE DeadInv'
  <2>1. refresh' = S!RevokeAll(S!Issued) /\ UNCHANGED parent
    BY <1>10 DEF S!RevokeChain
  <2>2. Len(refresh') = Len(refresh) /\ \A k \in 1..Len(refresh) : refresh'[k].revoked
    BY <1>1, <2>1, RevokeAllIs
  <2>3. QED BY <1>1, <2>1, <2>2 DEF DeadInv, Dead
\* A child of what is revoked is revoked with it, or escapes.
<1>11. ASSUME NEW t \in Threads, S!RevokeBranch(t) PROVE DeadInv'
  <2> DEFINE B == S!Branch(S!tok(t))
  <2>0. S!tok(t) \in 1..Len(refresh)
    BY <1>11 DEF S!RevokeBranch, SessionTypeOK, WithRefresh
  <2>1. /\ refresh' = S!RevokeAll(B) /\ UNCHANGED <<parent, contested>>
        /\ escaped' = (escaped \ B) \cup S!Unlinked(B)
    BY <1>11 DEF S!RevokeBranch
  <2>2. B \subseteq 1..Len(refresh) /\ S!Neighbours(B) \subseteq B
    BY <2>0, BranchIs
  <2> HIDE DEF B
  <2>3. Len(refresh') = Len(refresh) /\ \A k \in 1..Len(refresh) : refresh'[k].revoked = (k \in B \/ refresh[k].revoked)
    BY <2>1, RevokeAllIs
  <2> SUFFICES ASSUME NEW k \in 1..Len(parent'), parent'[k] # 0, parent'[k] \notin contested', Dead(parent[k])'
               PROVE  Dead(k)'
    BY DEF DeadInv
  <2> DEFINE p == parent[k]
  <2>4. k \in 1..Len(refresh) /\ p # 0 /\ p \notin contested /\ parent'[k] = p /\ k \in 1..Len(parent)
    BY <1>1, <2>1
  <2>5. p \in 1..Len(refresh) /\ p \in 1..Len(parent)
    BY <1>1, <2>4
  <2>6. Links(p)
    BY <2>4, <2>5 DEF LinkInv
  <2>7. p \notin S!Unlinked(B)
    <3> SUFFICES ASSUME p \in S!Unlinked(B) PROVE FALSE
      OBVIOUS
    <3>1. PICK u \in Threads : S!at(u) = "replace" /\ S!fresh(u) = p
      BY DEF S!Unlinked
    <3>2. QED BY <2>4, <3>1 DEF FreshInv, Unknown
  <2>8. CASE p \in B
    <3>1. CASE refresh[p].next = k
      <4>1. k \in S!Neighbours(B)
        BY <1>1, <2>4, <2>5, <2>8, <3>1 DEF S!Neighbours
      <4>2. QED BY <2>2, <2>3, <2>4, <4>1 DEF Dead
    <3>2. CASE \E u \in Threads : S!at(u) = "replace" /\ S!tok(u) = p /\ S!fresh(u) = k
      <4>1. k \in S!Unlinked(B)
        BY <2>8, <3>2 DEF S!Unlinked
      <4>2. QED BY <2>1, <4>1 DEF Dead
    <3>3. QED BY <2>4, <2>6, <3>1, <3>2 DEF Links
  <2>9. CASE p \notin B
    <3>1. Dead(p)' => Dead(p)
      BY <2>1, <2>3, <2>5, <2>7, <2>9 DEF Dead
    <3>2. QED BY <1>4, <2>1, <2>4, <3>1
  <2>10. QED BY <2>8, <2>9
\* A new token is dead from the beginning when what it is issued for is.
<1>12. ASSUME NEW q \in 0..Len(refresh), parent' = Append(parent, q), refresh' = S!NewRefresh,
              escaped' \subseteq escaped \cup {Len(refresh')},
              q # 0 /\ Dead(q) => Len(refresh') \in escaped'
       PROVE  DeadInv'
  <2>1. Len(refresh') = Len(refresh) + 1 /\ \A i \in 1..Len(refresh) : refresh'[i] = refresh[i]
    BY <1>1, <1>12 DEF S!NewRefresh
  <2>2. (\A i \in 1..Len(refresh) : parent'[i] = parent[i]) /\ parent'[Len(refresh) + 1] = q
    BY <1>1, <1>12
  <2>3. \A i \in 1..Len(refresh) : Dead(i)' => Dead(i)
    BY <1>1, <1>12, <2>1 DEF Dead
  <2> SUFFICES ASSUME NEW k \in 1..Len(parent'), parent'[k] # 0, parent'[k] \notin contested', Dead(parent[k])'
               PROVE  Dead(k)'
    BY DEF DeadInv
  <2>4. k \in 1..Len(refresh) \/ k = Len(refresh) + 1
    BY <1>1, <1>3, <2>1
  <2>5. CASE k \in 1..Len(refresh)
    <3>1. parent'[k] = parent[k] /\ parent[k] \in 1..Len(refresh)
      BY <1>1, <2>2, <2>5
    <3>2. QED BY <1>4, <2>3, <2>5, <3>1
  <2>6. CASE k = Len(refresh) + 1
    <3>1. parent'[k] = q /\ q \in 1..Len(refresh)
      BY <1>1, <2>2, <2>6
    <3>2. QED BY <1>12, <2>1, <2>3, <2>6, <3>1 DEF Dead
  <2>7. QED BY <2>4, <2>5, <2>6
<1>13. CASE S!SignIn
  <2>1. parent' = Append(parent, 0) /\ refresh' = S!NewRefresh /\ UNCHANGED escaped /\ 0 \in 0..Len(refresh)
    BY <1>1, <1>13 DEF S!SignIn
  <2>2. QED BY <1>12, <2>1
<1>14. ASSUME NEW t \in Threads, S!Issue(t) PROVE DeadInv'
  <2>1. /\ parent' = Append(parent, S!tok(t)) /\ refresh' = S!NewRefresh /\ S!at(t) = "issue"
        /\ escaped' = IF refresh[S!tok(t)].revoked \/ S!tok(t) \in escaped
                      THEN escaped \cup {Len(refresh')} ELSE escaped
    BY <1>14 DEF S!Issue
  <2>2. S!tok(t) \in 0..Len(refresh)
    BY <1>1, <2>1 DEF SessionTypeOK, WithRefresh
  <2>3. QED BY <1>12, <2>1, <2>2 DEF Dead
<1>15. QED BY <1>7, <1>8, <1>9, <1>10, <1>11, <1>13, <1>14 DEF S!Next

LEMMA RootStep ==
  ASSUME SessionTypeOK, LinkInv, FreshInv, RootInv, [S!Next]_(S!vars)
  PROVE  RootInv'
<1>0. SessionTypeOK'
  BY SessionTypeStep
<1>1. /\ Len(refresh) <= Len(refresh') /\ contested \subseteq contested'
      /\ \A k \in 1..Len(refresh) : parent'[k] = parent[k] /\ (Dead(k) => Dead(k)')
  BY TokensStep
<1>2. /\ \A k \in 1..Len(refresh) : S!Root(k)' = S!Root(k)
      /\ \A j \in 1..Len(refresh) : S!Family(j) \subseteq S!Family(j)'
  BY <1>0, <1>1, FamilyStays
<1>3. \A k \in 1..Len(refresh) : S!Root(k) \in 1..k
  BY RootFacts
<1>4. ASSUME NEW j \in replayed, S!Family(j)' \cap contested' = {} PROVE Dead(S!Root(j))'
  <2>1. j \in 1..Len(refresh)
    BY DEF SessionTypeOK
  <2>2. S!Family(j) \cap contested = {}
    BY <1>1, <1>2, <1>4, <2>1
  <2>3. Dead(S!Root(j)) /\ S!Root(j) \in 1..Len(refresh)
    <3>1. Len(refresh) \in Nat
      BY DEF SessionTypeOK
    <3>2. QED BY <1>3, <2>1, <2>2, <3>1 DEF RootInv
  <2>4. S!Root(j)' = S!Root(j)
    BY <1>2, <2>1
  <2>5. refresh'[S!Root(j)].revoked \/ S!Root(j) \in escaped'
    BY <1>1, <2>3 DEF Dead
  <2>6. QED BY <2>4, <2>5 DEF Dead
<1>5. CASE UNCHANGED replayed
  BY <1>4, <1>5 DEF RootInv
<1>6. ASSUME NEW t \in Threads, S!RevokeBranch(t) PROVE RootInv'
  <2>0. PICK j : j = S!tok(t)
    OBVIOUS
  <2>1. /\ refresh' = S!RevokeAll(S!Branch(j)) /\ S!at(t) = "branch" /\ replayed' = replayed \cup {j}
    BY <1>6, <2>0 DEF S!RevokeBranch
  <2>2. j \in 1..Len(refresh) /\ Len(refresh) \in Nat
    BY <2>0, <2>1 DEF SessionTypeOK, WithRefresh
  <2>3. ASSUME S!Family(j)' \cap contested' = {} PROVE Dead(S!Root(j))'
    <3>1. S!Family(j) \cap contested = {}
      BY <1>1, <1>2, <2>2, <2>3
    <3>2. S!Root(j) \in S!Branch(j)
      BY <2>0, <2>1, <3>1, BranchHolds
    <3>3. S!Root(j) \in 1..Len(refresh) /\ S!Root(j)' = S!Root(j)
      BY <1>2, <1>3, <2>2
    <3>4. refresh'[S!Root(j)].revoked
      BY <2>1, <3>2, <3>3, RevokeAllIs
    <3>5. QED BY <3>3, <3>4 DEF Dead
  <2>4. QED BY <1>4, <2>1, <2>3 DEF RootInv
<1>7. S!Next => UNCHANGED replayed \/ \E t \in Threads : S!RevokeBranch(t)
  BY DEF S!Next, S!Tick, S!DeleteAccount, S!SignIn, S!BeginStepUp, S!StepUp, S!WrongPassword, S!BeginLogout, S!RevokeActive,
     S!PruneRevoked, S!RevokeChain, S!Verify, S!FindReplay, S!Issue, S!Replace, S!Authenticated, S!tables, S!history
<1>8. UNCHANGED S!vars => UNCHANGED replayed
  BY DEF S!vars
<1>9. QED BY <1>5, <1>6, <1>7, <1>8

\* From its sign-in down, each token of the family is revoked or has escaped.
LEMMA FamilyEnds ==
  ASSUME SessionTypeOK, DeadInv, RootInv
  PROVE  S!ReplayEndsTheFamily
<1> SUFFICES ASSUME NEW j \in replayed, S!Family(j) \cap contested = {}
             PROVE  \A k \in S!Family(j) : Dead(k)
  BY DEF S!ReplayEndsTheFamily, Dead
<1>1. S!Family(j) = {k \in 1..Len(refresh) : S!Root(k) = S!Root(j)} /\ Len(refresh) = Len(parent) /\ Len(refresh) \in Nat
  BY DEF SessionTypeOK, S!Family, S!Issued
<1> DEFINE Alive == {k \in S!Family(j) : ~Dead(k)}
<1> SUFFICES ASSUME Alive # {} PROVE FALSE
  OBVIOUS
<1>2. PICK m \in Alive : \A k \in Alive : m <= k
  <2>1. Alive \subseteq Nat
    BY <1>1
  <2>2. QED BY <2>1, LeastNat
<1>3. m \in 1..Len(refresh) /\ S!Root(m) = S!Root(j) /\ ~Dead(m)
  BY <1>1
<1>4. parent[m] # 0
  <2>1. Dead(S!Root(j))
    BY DEF RootInv
  <2>2. QED BY <1>3, <2>1, RootFacts
<1>5. parent[m] \in 1..Len(refresh) /\ parent[m] < m /\ S!Root(parent[m]) = S!Root(j)
  BY <1>3, <1>4, RootFacts
<1>6. parent[m] \in S!Family(j) /\ parent[m] \notin contested
  BY <1>1, <1>5
<1>7. ~Dead(parent[m])
  BY <1>1, <1>3, <1>4, <1>6 DEF DeadInv
<1>8. parent[m] \in Alive /\ ~(m <= parent[m])
  BY <1>3, <1>5, <1>6, <1>7
<1>9. QED BY <1>2, <1>8

LEMMA SessionInit == S!Init => SessionInv
<1> SUFFICES ASSUME S!Init PROVE SessionInv
  OBVIOUS
<1>1. /\ now = 0 /\ account = TRUE /\ access = << >> /\ refresh = << >> /\ parent = << >>
      /\ req = [t \in Threads |-> S!NoRequest] /\ contested = {} /\ ended = {} /\ replayed = {}
  BY DEF S!Init
<1>2. \A t \in Threads : S!at(t) = "idle"
  BY <1>1 DEF S!at, S!NoRequest
<1>3. SessionTypeOK
  <2>1. S!NoRequest \in [at : {"idle"} \cup WithAccess \cup WithRefresh, tok : Nat, fresh : Nat]
    BY DEF S!NoRequest
  <2>2. QED BY <1>1, <1>2, <2>1 DEF SessionTypeOK, WithAccess, WithRefresh
<1>4. OutInv /\ FreshInv /\ RootInv
  BY <1>1, <1>2 DEF OutInv, FreshInv, RootInv
<1>5. LinkInv /\ DeadInv
  BY <1>1 DEF LinkInv, DeadInv
<1>6. QED BY <1>3, <1>4, <1>5 DEF SessionInv

LEMMA SessionStep == SessionInv /\ [S!Next]_(S!vars) => SessionInv'
  BY SessionTypeStep, OutStep, LinkStep, FreshStep, DeadStep, RootStep DEF SessionInv

\* A token that logout ended is never accepted again, and revoke_refresh_branch, once
\* rotate_refresh_token has found a replay, ends each token of the sign-in that a
\* rotation then under way does not let escape, unless two rotations of one token
\* met: for any number of threads and tokens, and any lifetimes, whenever accounts
\* are deleted and tokens expire.
THEOREM EndedStaysEndedAlways == Spec => []EndedStaysEnded
<1>1. Init => (part = "sessions" => SessionInv)
  BY InitOfPart, SessionInit
<1>2. (part = "sessions" => SessionInv) /\ [Next]_vars => (part = "sessions" => SessionInv)'
  BY StepOfPart, SessionStep
<1>3. (part = "sessions" => SessionInv) => EndedStaysEnded
  <2> SUFFICES ASSUME SessionInv PROVE S!LoggedOutStaysOut /\ S!ReplayEndsTheFamily
    BY DEF EndedStaysEnded
  <2>1. ASSUME NEW a \in ended PROVE ~S!Accepted(a)
    <3>1. a \in 1..Len(access) /\ now \in Nat /\ access \in Seq(Nat)
      BY <2>1 DEF SessionInv, SessionTypeOK
    <3>2. access[a] \in Nat
      BY <3>1
    <3>3. a \in revoked \/ access[a] < now
      BY <2>1 DEF SessionInv, OutInv
    <3>4. QED BY <3>1, <3>2, <3>3 DEF S!Accepted, S!Unexpired
  <2>2. S!ReplayEndsTheFamily
    BY FamilyEnds DEF SessionInv
  <2>3. QED BY <2>1, <2>2 DEF S!LoggedOutStaysOut
<1>4. QED BY <1>1, <1>2, <1>3, PTL DEF Spec

-----------------------------------------------------------------------------
(* Admission.                                                              *)

Counted == {"tasks", "owners", "decide"}

Requests == {A!NoRequest} \cup
  [at : {"count"} \cup Counted, user : Submitters, project : Projects, async : BOOLEAN, since : Nat,
   queue : BOOLEAN, deny : BOOLEAN]

\* A request that was not denied for the queue found room in it, and since then
\* the jobs are at most those more that were submitted.
AdmitInv ==
  /\ IsFiniteSet(jobs) /\ host \in [disk : BOOLEAN, memory : BOOLEAN]
  /\ req \in [Threads -> Requests]
  /\ \A t \in Threads : req[t].at \in Counted /\ ~req[t].deny => Cardinality(jobs) < QueueMax + req[t].since

LEMMA AdmitInit == A!Init => AdmitInv
<1>1. A!NoRequest.at = "idle"
  BY DEF A!NoRequest
<1>2. QED BY <1>1, FS_EmptySet DEF A!Init, AdmitInv, Requests, Counted

\* No step but a submission makes the jobs more.
LEMMA JobsStay ==
  ASSUME IsFiniteSet(jobs), A!Run \/ A!Cancel \/ A!End
  PROVE  IsFiniteSet(jobs') /\ Cardinality(jobs') <= Cardinality(jobs) /\ UNCHANGED <<host, req>>
<1>1. PICK j \in jobs : \E r : jobs' = jobs \ {j} \/ jobs' = (jobs \ {j}) \cup {r}
  BY DEF A!Run, A!Cancel, A!End
<1>2. IsFiniteSet(jobs \ {j}) /\ Cardinality(jobs \ {j}) = Cardinality(jobs) - 1
  BY <1>1, FS_RemoveElement
<1>3. Cardinality(jobs) \in Nat
  BY FS_CardinalityType
<1>4. \A r : IsFiniteSet((jobs \ {j}) \cup {r}) /\ Cardinality((jobs \ {j}) \cup {r}) <= Cardinality(jobs)
  <2> TAKE r
  <2>1. IsFiniteSet((jobs \ {j}) \cup {r}) /\ Cardinality((jobs \ {j}) \cup {r}) \in {Cardinality(jobs \ {j}), Cardinality(jobs \ {j}) + 1}
    BY <1>2, FS_AddElement
  <2>2. QED BY <1>2, <1>3, <2>1
<1>5. UNCHANGED <<host, req>>
  BY DEF A!Run, A!Cancel, A!End
<1>6. IsFiniteSet(jobs') /\ Cardinality(jobs') <= Cardinality(jobs)
  <2>1. CASE jobs' = jobs \ {j}
    BY <1>2, <1>3, <2>1
  <2>2. CASE \E r : jobs' = (jobs \ {j}) \cup {r}
    BY <1>4, <2>2
  <2>3. QED BY <1>1, <2>1, <2>2
<1>7. QED BY <1>5, <1>6

\* What one submission does to the requests that have counted.
LEMMA OvertakenIs ==
  ASSUME NEW r \in [Threads -> Requests], NEW t \in Threads
  PROVE  /\ A!Overtaken(r) \in [Threads -> Requests]
         /\ A!Overtaken(r)[t].at = r[t].at
         /\ r[t].at \in Counted => A!Overtaken(r)[t].deny = r[t].deny /\ A!Overtaken(r)[t].since = r[t].since + 1
<1>1. ASSUME NEW u \in Threads
      PROVE  LET o == IF r[u].at \in {"idle", "count"} THEN r[u] ELSE [r[u] EXCEPT !.since = r[u].since + 1] IN
             /\ o \in Requests /\ o.at = r[u].at
             /\ r[u].at \in Counted => o.deny = r[u].deny /\ o.since = r[u].since + 1
  <2>1. r[u] \in Requests /\ A!NoRequest.at = "idle"
    BY DEF A!NoRequest
  <2>2. CASE r[u].at \in {"idle", "count"}
    BY <2>1, <2>2 DEF Counted
  <2>3. CASE r[u].at \notin {"idle", "count"}
    <3>1. r[u] \in [at : {"count"} \cup Counted, user : Submitters, project : Projects, async : BOOLEAN, since : Nat,
                    queue : BOOLEAN, deny : BOOLEAN]
      BY <2>1, <2>3 DEF Requests
    <3>2. r[u].since + 1 \in Nat
      BY <3>1
    <3>3. QED BY <2>3, <3>1, <3>2 DEF Requests
  <2>4. QED BY <2>2, <2>3
<1>2. A!Overtaken(r) = [u \in Threads |-> IF r[u].at \in {"idle", "count"} THEN r[u] ELSE [r[u] EXCEPT !.since = r[u].since + 1]]
  BY DEF A!Overtaken
<1>3. QED BY <1>1, <1>2

\* A request that was not denied when it counted stays within its bound.
LEMMA Submitting ==
  ASSUME AdmitInv, NEW r \in [Threads -> Requests], req' = A!Overtaken(r), UNCHANGED host,
         \A t \in Threads : r[t] = req[t] \/ r[t].at = "idle",
         NEW j, jobs' = jobs \cup {j}
  PROVE  AdmitInv'
<1>1. IsFiniteSet(jobs) /\ Cardinality(jobs) \in Nat /\ QueueMax \in Nat
  BY FS_CardinalityType, InstancesAssumption DEF AdmitInv, A!LimitAssumption
<1>2. IsFiniteSet(jobs') /\ Cardinality(jobs') \in {Cardinality(jobs), Cardinality(jobs) + 1}
  BY <1>1, FS_AddElement
<1>3. req' \in [Threads -> Requests]
  <2>1. CASE Threads = {}
    BY <2>1 DEF A!Overtaken
  <2>2. CASE Threads # {}
    BY <2>2, OvertakenIs
  <2>3. QED BY <2>1, <2>2
<1>4. ASSUME NEW t \in Threads, req'[t].at \in Counted, ~req'[t].deny
      PROVE  Cardinality(jobs') < QueueMax + req'[t].since
  <2>1. r[t].at \in Counted /\ ~r[t].deny /\ req'[t].since = r[t].since + 1
    BY <1>4, OvertakenIs
  <2>2. r[t] = req[t]
    BY <2>1 DEF Counted
  <2>3. req[t].since \in Nat
    BY <2>1, <2>2 DEF AdmitInv, Requests, A!NoRequest, Counted
  <2>4. Cardinality(jobs) < QueueMax + req[t].since
    BY <2>1, <2>2 DEF AdmitInv
  <2>5. QED BY <1>1, <1>2, <2>1, <2>2, <2>3, <2>4
<1>5. QED BY <1>2, <1>3, <1>4 DEF AdmitInv

\* The next of what a request counts.
LEMMA Finding ==
  ASSUME AdmitInv, NEW t \in Threads, NEW from \in {"count"} \cup Counted, NEW to \in Counted,
         NEW deny \in BOOLEAN, NEW queue \in BOOLEAN, A!Find(t, from, to, deny, queue),
         from = "count" /\ ~deny => Cardinality(jobs) < QueueMax
  PROVE  AdmitInv'
<1>1. req[t].at = from /\ UNCHANGED <<jobs, host>> /\ req \in [Threads -> Requests] /\ QueueMax \in Nat
  BY InstancesAssumption DEF A!Find, AdmitInv, A!LimitAssumption
<1>2. req[t] \in [at : {"count"} \cup Counted, user : Submitters, project : Projects, async : BOOLEAN, since : Nat,
                 queue : BOOLEAN, deny : BOOLEAN]
  BY <1>1 DEF Requests, A!NoRequest, Counted
<1> DEFINE r == [req[t] EXCEPT !.at = to, !.deny = req[t].deny \/ deny, !.queue = req[t].queue \/ queue]
<1>3. r \in Requests /\ r.since = req[t].since /\ r.since \in Nat /\ r.deny = (req[t].deny \/ deny)
  <2>1. (req[t].deny \/ deny) \in BOOLEAN /\ (req[t].queue \/ queue) \in BOOLEAN
    OBVIOUS
  <2>2. QED BY <1>2, <2>1 DEF Requests
<1>4. req' = [req EXCEPT ![t] = r]
  BY DEF A!Find
<1> HIDE DEF r
<1>5. req' \in [Threads -> Requests] /\ req'[t] = r /\ \A u \in Threads : u # t => req'[u] = req[u]
  BY <1>1, <1>3, <1>4
<1>6. Cardinality(jobs) \in Nat
  BY FS_CardinalityType DEF AdmitInv
<1>7. ~r.deny => Cardinality(jobs) < QueueMax + r.since
  <2>1. CASE from = "count"
    BY <1>1, <1>3, <1>6, <2>1
  <2>2. CASE from # "count"
    BY <1>1, <1>3, <2>2 DEF AdmitInv
  <2>3. QED BY <2>1, <2>2
<1>8. QED BY <1>1, <1>5, <1>7 DEF AdmitInv

LEMMA AdmitStep == AdmitInv /\ [A!Next]_(A!vars) => AdmitInv'
<1> SUFFICES ASSUME AdmitInv, [A!Next]_(A!vars) PROVE AdmitInv'
  OBVIOUS
<1>1. /\ IsFiniteSet(jobs) /\ Cardinality(jobs) \in Nat /\ req \in [Threads -> Requests] /\ QueueMax \in Nat
      /\ A!NoRequest \in Requests /\ A!NoRequest.at = "idle" /\ DOMAIN req = Threads
  BY FS_CardinalityType, InstancesAssumption DEF AdmitInv, A!LimitAssumption, Requests, A!NoRequest
\* A step that neither submits nor counts.
<1>2. ASSUME UNCHANGED jobs, host' \in [disk : BOOLEAN, memory : BOOLEAN], req' \in [Threads -> Requests],
             \A t \in Threads : req'[t] = req[t] \/ req'[t].at \notin Counted
      PROVE  AdmitInv'
  BY <1>2 DEF AdmitInv
<1>3. CASE A!HostChanges \/ A!ResultsGrow \/ UNCHANGED A!vars
  BY <1>2, <1>3 DEF A!HostChanges, A!ResultsGrow, A!vars, AdmitInv
<1>4. CASE A!Run \/ A!Cancel \/ A!End
  <2>1. IsFiniteSet(jobs') /\ Cardinality(jobs') <= Cardinality(jobs) /\ UNCHANGED <<host, req>>
    BY <1>1, <1>4, JobsStay
  <2>2. Cardinality(jobs') \in Nat
    BY <2>1, FS_CardinalityType
  <2>3. \A t \in Threads : req[t].at \in Counted => req[t].since \in Nat
    BY <1>1 DEF Requests, Counted
  <2>4. QED BY <1>1, <2>1, <2>2, <2>3 DEF AdmitInv
<1>5. CASE A!SubmitUnguarded
  <2>1. req' = A!Overtaken(req) /\ UNCHANGED host /\ \E j : jobs' = jobs \cup {j}
    BY <1>5 DEF A!SubmitUnguarded, A!Submitted
  <2>2. QED BY <1>1, <2>1, Submitting
<1>6. ASSUME NEW t \in Threads, A!Submit(t) PROVE AdmitInv'
  <2> DEFINE r == [req EXCEPT ![t] = A!NoRequest]
  <2>1. req' = A!Overtaken(r) /\ UNCHANGED host /\ \E j : jobs' = jobs \cup {j}
    BY <1>6 DEF A!Submit, A!Submitted
  <2>2. r \in [Threads -> Requests] /\ \A u \in Threads : r[u] = req[u] \/ r[u].at = "idle"
    BY <1>1
  <2> HIDE DEF r
  <2>3. QED BY <2>1, <2>2, Submitting
<1>7. ASSUME NEW t \in Threads, A!Refuse(t) \/ A!RunHere(t) PROVE AdmitInv'
  <2>1. req' = [req EXCEPT ![t] = A!NoRequest] /\ UNCHANGED <<jobs, host>>
    BY <1>7 DEF A!Refuse, A!RunHere
  <2>2. req' \in [Threads -> Requests] /\ \A u \in Threads : req'[u] = req[u] \/ req'[u].at \notin Counted
    BY <1>1, <2>1 DEF Counted
  <2>3. QED BY <1>2, <2>1, <2>2 DEF AdmitInv
<1>8. ASSUME NEW t \in Threads, A!Return(t) PROVE AdmitInv'
  BY <1>1, <1>2, <1>8 DEF A!Return, AdmitInv
<1>9. ASSUME NEW t \in Threads, A!Ask(t) PROVE AdmitInv'
  <2>1. PICK u \in Submitters, p \in Projects, async \in BOOLEAN, shape \in A!ShapeReasons :
          req' = [req EXCEPT ![t] =
            [at |-> "count", user |-> u, project |-> p, async |-> async, since |-> 0, queue |-> shape.queue,
             deny |-> shape.deny \/ ~host.disk \/ ~host.memory]]
    BY <1>9 DEF A!Ask
  <2> DEFINE r == [at |-> "count", user |-> u, project |-> p, async |-> async, since |-> 0, queue |-> shape.queue,
                   deny |-> shape.deny \/ ~host.disk \/ ~host.memory]
  <2>2. r \in Requests /\ r.at = "count"
    <3>1. shape.queue \in BOOLEAN
      BY DEF A!ShapeReasons
    <3>2. (shape.deny \/ ~host.disk \/ ~host.memory) \in BOOLEAN
      OBVIOUS
    <3>3. QED BY <3>1, <3>2 DEF Requests
  <2> HIDE DEF r
  <2>3. req' \in [Threads -> Requests] /\ \A v \in Threads : req'[v] = req[v] \/ req'[v].at \notin Counted
    BY <1>1, <2>1, <2>2 DEF Counted, r
  <2>4. UNCHANGED <<jobs, host>>
    BY <1>9 DEF A!Ask
  <2>5. QED BY <1>2, <2>3, <2>4 DEF AdmitInv
<1>10. ASSUME NEW t \in Threads, A!Count(t) PROVE AdmitInv'
  <2>1. PICK queue \in BOOLEAN : A!Find(t, "count", "tasks", A!QueueIsFull, queue)
    BY <1>10 DEF A!Count
  <2>2. A!QueueIsFull \in BOOLEAN /\ (~A!QueueIsFull => Cardinality(jobs) < QueueMax)
    BY <1>1, SameCardinality DEF A!QueueIsFull
  <2>3. "count" \in {"count"} \cup Counted /\ "tasks" \in Counted
    BY DEF Counted
  <2>4. QED BY <2>1, <2>2, <2>3, Finding
<1>11. ASSUME NEW t \in Threads, A!CountTasks(t) \/ A!CountOwners(t) PROVE AdmitInv'
  <2>1. PICK from \in {"tasks", "owners"}, to \in {"owners", "decide"}, deny \in BOOLEAN, queue \in BOOLEAN :
          A!Find(t, from, to, deny, queue)
    <3>1. CASE A!CountTasks(t)
      <4> DEFINE many == A!Cardinality({j \in A!CompareJobs : j.project = req[t].project}) >= MaxPerProject
      <4>1. A!Find(t, "tasks", "owners", FALSE, many)
        BY <3>1 DEF A!CountTasks
      <4>2. many \in BOOLEAN
        OBVIOUS
      <4> HIDE DEF many
      <4>3. QED BY <4>1, <4>2
    <3>2. CASE A!CountOwners(t)
      <4> DEFINE many == A!Cardinality({j \in A!CompareJobs : j.user = req[t].user}) >= MaxPerUser
                 full == Quota > 0 /\ used[req[t].project] >= Quota
      <4>1. A!Find(t, "owners", "decide", full, many)
        BY <3>2 DEF A!CountOwners
      <4>2. many \in BOOLEAN /\ full \in BOOLEAN
        OBVIOUS
      <4> HIDE DEF many, full
      <4>3. QED BY <4>1, <4>2
    <3>3. QED BY <1>11, <3>1, <3>2
  <2>2. from # "count" /\ from \in {"count"} \cup Counted /\ to \in Counted
    BY DEF Counted
  <2>3. QED BY <2>1, <2>2, Finding
<1>12. QED BY <1>3, <1>4, <1>5, <1>6, <1>7, <1>8, <1>9, <1>10, <1>11 DEF A!Next

\* guard_compare_run lets a compare job into a full queue only past what was
\* submitted while its request was counting: for any limits and any number of
\* threads, whatever else is submitted.
THEOREM SubmitInTimeAlways == Spec => SubmitInTime
<1>1. Init => (part = "admission" => AdmitInv)
  BY InitOfPart, AdmitInit
<1>2. (part = "admission" => AdmitInv) /\ [Next]_vars => (part = "admission" => AdmitInv)'
  BY StepOfPart, AdmitStep
<1>3. (part = "admission" => AdmitInv) => (part = "admission" => A!SubmitInTime)
  <2> SUFFICES ASSUME AdmitInv, NEW t \in Threads, Enforce, A!Submit(t)
               PROVE  A!Cardinality(jobs) < QueueMax + req[t].since
    BY DEF A!SubmitInTime
  <2>1. req[t].at \in Counted /\ ~req[t].deny
    BY DEF A!Submit, A!Refused, Counted
  <2>2. Cardinality(jobs) < QueueMax + req[t].since
    BY <2>1 DEF AdmitInv
  <2>3. QED BY <2>2, SameCardinality
<1>4. QED BY <1>1, <1>2, <1>3, PTL DEF Spec, SubmitInTime
=============================================================================
