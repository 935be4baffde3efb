------------------------------ MODULE UserFile ------------------------------
(***************************************************************************)
(* A JSON file of records behind a JsonStore, as users.json and            *)
(* projects.json are.  The store's own methods hold its lock and cache the *)
(* file under its mtime.  The handlers that change single fields, or       *)
(* records the store cannot create, go past the store: they read the file, *)
(* write it in place without the lock, and drop the cache afterwards.      *)
(*                                                                         *)
(* Writing in place truncates the file first; who reads it then takes it   *)
(* for empty.  Mtimes have the granularity of the file system's clock, so  *)
(* that two changes may leave the same one.                                *)
(***************************************************************************)
EXTENDS Naturals

CONSTANTS
  Threads,   \* request threads
  Ids,       \* ids of records
  MaxWrites  \* bound: changes of the file

BoundAssumption == MaxWrites \in Nat

VARIABLES
  file,   \* data: id to record, mtime, torn: truncated and not yet written
  cache,  \* what the store remembers of the file, and under which mtime
  lock,   \* the thread in the store's critical section
  pc, op, id, read, found,  \* of a thread: what it does, to which record; its copy
                            \* of the file; the mtime it found or record it loaded
  writes, \* the changes so far; each writes its number into the record
  kept, overlapped  \* history: what the handlers that returned should have left
                    \* behind; whether two handlers ever changed the file at once

vars == <<file, cache, lock, pc, op, id, read, found, writes, kept, overlapped>>

Absent == 0
Free   == "free"
NoId   == "none"
ThreadsAssumption == Free \notin Threads
Empty  == [i \in Ids |-> Absent]
Nothing == [data |-> Empty, mtime |-> 0]

Patches == {"create", "update", "fields"}   \* what goes past the store
Calls   == Patches \cup {"get", "delete"}
AfterFind == [get |-> "idle", delete |-> "take", create |-> "raw", update |-> "raw", fields |-> "raw"]

Init ==
  /\ file = [data |-> Empty, mtime |-> 1, torn |-> FALSE]
  /\ cache = Nothing
  /\ lock = Free
  /\ pc = [t \in Threads |-> "idle"]
  /\ op = [t \in Threads |-> "get"]
  /\ id = [t \in Threads |-> NoId]
  /\ read = [t \in Threads |-> Empty]
  /\ found = [t \in Threads |-> 0]
  /\ writes = 0
  /\ kept = Empty /\ overlapped = FALSE

-----------------------------------------------------------------------------
Content == IF file.torn THEN Empty ELSE file.data

\* A change of the file may or may not be one that its mtime shows.
Change(data, torn) ==
  \E tick \in {0, 1} : file' = [data |-> data, torn |-> torn, mtime |-> file.mtime + tick]

GoTo(t, where) == pc' = [pc EXCEPT ![t] = where]
local == <<op, id, read, found>>
past  == <<writes, kept, overlapped>>

Changing(t) == pc[t] # "idle" /\ op[t] # "get"

Begin(t) ==
  /\ pc[t] = "idle"
  /\ \E c \in Calls, i \in Ids :
       /\ c = "get" \/ writes < MaxWrites
       /\ op' = [op EXCEPT ![t] = c] /\ id' = [id EXCEPT ![t] = i]
       /\ overlapped' = (overlapped \/ (c # "get" /\ \E u \in Threads : Changing(u)))
  /\ GoTo(t, "find")
  /\ UNCHANGED <<file, cache, lock, read, found, writes, kept>>

-----------------------------------------------------------------------------
(* The store's methods.                                                    *)

Take(t) ==
  /\ pc[t] \in {"find", "take"} /\ lock = Free
  /\ lock' = t
  /\ GoTo(t, IF pc[t] = "find" THEN "stat" ELSE "restat")
  /\ UNCHANGED <<file, cache, local, past>>

\* _read_raw: the cache serves while the mtime is the one it was made under ...
ReadCache(t) ==
  /\ pc[t] \in {"stat", "restat"}
  /\ cache # Nothing /\ cache.mtime = file.mtime
  /\ read' = [read EXCEPT ![t] = cache.data]
  /\ GoTo(t, IF pc[t] = "stat" THEN "found" ELSE "replace")
  /\ UNCHANGED <<file, cache, lock, op, id, found, past>>

\* ... else the file is read after its mtime was.
Stat(t) ==
  /\ pc[t] \in {"stat", "restat"}
  /\ cache = Nothing \/ cache.mtime # file.mtime
  /\ found' = [found EXCEPT ![t] = file.mtime]
  /\ GoTo(t, IF pc[t] = "stat" THEN "load" ELSE "reload")
  /\ UNCHANGED <<file, cache, lock, op, id, read, past>>

ReadFile(t) ==
  /\ pc[t] \in {"load", "reload"}
  /\ cache' = [data |-> Content, mtime |-> found[t]]
  /\ read' = [read EXCEPT ![t] = Content]
  /\ GoTo(t, IF pc[t] = "load" THEN "found" ELSE "replace")
  /\ UNCHANGED <<file, lock, op, id, found, past>>

\* get, list or find_user_by_username return, and the handler answers "not
\* found" or "exists already", or goes on with the record it has got.
Found(t) ==
  LET there == read[t][id[t]] # Absent
      goesOn == op[t] # "get" /\ there = (op[t] # "create") IN
  /\ pc[t] = "found"
  /\ lock' = Free
  /\ found' = [found EXCEPT ![t] = read[t][id[t]]]
  /\ GoTo(t, IF goesOn THEN AfterFind[op[t]] ELSE "idle")
  /\ UNCHANGED <<file, cache, op, id, read, past>>

\* JsonStore.delete: the file is replaced by a complete one, and the cache is
\* what was written.
DeleteReplaces(t) ==
  LET next == [read[t] EXCEPT ![id[t]] = Absent] IN
  /\ pc[t] = "replace" /\ read[t][id[t]] # Absent
  /\ Change(next, FALSE)
  /\ read' = [read EXCEPT ![t] = next]
  /\ writes' = writes + 1
  /\ GoTo(t, "restamp")
  /\ UNCHANGED <<cache, lock, op, id, found, kept, overlapped>>

\* The stat after a replacement takes place after it, too.
DeleteCaches(t) ==
  /\ pc[t] = "restamp"
  /\ cache' = [data |-> read[t], mtime |-> file.mtime]
  /\ lock' = Free
  /\ kept' = [kept EXCEPT ![id[t]] = Absent]
  /\ GoTo(t, "idle")
  /\ UNCHANGED <<file, local, writes, overlapped>>

DeleteMissing(t) ==
  /\ pc[t] = "replace" /\ read[t][id[t]] = Absent
  /\ lock' = Free /\ GoTo(t, "idle")
  /\ UNCHANGED <<file, cache, local, past>>

-----------------------------------------------------------------------------
(* The handlers that go past the store.                                    *)

ReadRaw(t) ==
  /\ pc[t] = "raw"
  /\ read' = [read EXCEPT ![t] = Content]
  /\ GoTo(t, "open")
  /\ UNCHANGED <<file, cache, lock, op, id, found, past>>

\* A change of fields of a record that is gone is an error; update_user writes
\* the file all the same, without the record it was about.
Gone(t) ==
  /\ pc[t] = "open" /\ op[t] = "fields" /\ read[t][id[t]] = Absent
  /\ GoTo(t, "idle")
  /\ UNCHANGED <<file, cache, lock, local, past>>

Patched(t, n) ==
  IF op[t] = "update" /\ read[t][id[t]] = Absent THEN read[t] ELSE [read[t] EXCEPT ![id[t]] = n]

\* write_text opens the file, which truncates it ...
Truncate(t) ==
  /\ pc[t] = "open" /\ (op[t] = "fields" => read[t][id[t]] # Absent)
  /\ writes' = writes + 1
  /\ read' = [read EXCEPT ![t] = Patched(t, writes')]
  /\ Change(file.data, TRUE)
  /\ GoTo(t, "write")
  /\ UNCHANGED <<cache, lock, op, id, found, kept, overlapped>>

\* ... and then writes it.
WriteInPlace(t) ==
  /\ pc[t] = "write"
  /\ Change(read[t], FALSE)
  /\ GoTo(t, "drop")
  /\ UNCHANGED <<cache, lock, local, past>>

\* Mutant: a handler that returns without invalidate_cache: the mtime alone would tell.
DropCache_Trusting(t) ==
  /\ pc[t] = "drop" /\ lock = Free
  /\ kept' = [kept EXCEPT ![id[t]] = read[t][id[t]]]
  /\ GoTo(t, "idle")
  /\ UNCHANGED <<file, cache, lock, local, writes, overlapped>>

\* invalidate_cache, and the handler returns.
DropCache(t) ==
  /\ pc[t] = "drop" /\ lock = Free
  /\ cache' = Nothing
  /\ kept' = [kept EXCEPT ![id[t]] = read[t][id[t]]]
  /\ GoTo(t, "idle")
  /\ UNCHANGED <<file, lock, local, writes, overlapped>>

Next == \E t \in Threads :
  \/ Begin(t) \/ Take(t) \/ ReadCache(t) \/ Stat(t) \/ ReadFile(t) \/ Found(t)
  \/ DeleteReplaces(t) \/ DeleteCaches(t) \/ DeleteMissing(t)
  \/ ReadRaw(t) \/ Gone(t) \/ Truncate(t) \/ WriteInPlace(t) \/ DropCache(t)

Spec == Init /\ [][Next]_vars

-----------------------------------------------------------------------------
(* Properties.                                                             *)

\* The cache is never wrong for good: what the store would serve from it is the
\* file, unless a handler is on its way from its first change of the file to
\* invalidate_cache, or the store's own replacement is being recorded.
ServedIsCurrent ==
  cache # Nothing /\ cache.mtime = file.mtime /\ cache.data # Content =>
    \E t \in Threads : pc[t] \in {"write", "drop", "restamp"}

\* What handlers wrote is in the file once they returned, as long as no two of
\* them changed the file at once, whoever reads it meanwhile: deletion builds on
\* the cache, so that a stale one would bring back what was written over.
NothingIsLost ==
  ~overlapped /\ (\A t \in Threads : ~Changing(t)) => Content = kept

StoreIsCurrent == ServedIsCurrent /\ NothingIsLost

=============================================================================
