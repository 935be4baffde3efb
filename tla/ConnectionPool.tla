--------------------------- MODULE ConnectionPool ---------------------------
(***************************************************************************)
(* The connection pool of one data source: app/dbclients/pool.py, with the *)
(* editing and deletion of the data source in app/api/datasources.py.      *)
(*                                                                         *)
(* A thread loads the data source, then borrows a connection with what it  *)
(* loaded, however the data source is edited meanwhile.  Each action is    *)
(* one critical section of _pools_lock or of a pool's _lock, or one call   *)
(* outside both.  A version of the data source stands for its settings.    *)
(* The fingerprint covers the kind of the database, the host, the port,    *)
(* the user and the database: not the password, and not `extra', which for *)
(* Oracle, DB2 and DM may hold the target itself (a DSN, a connection      *)
(* string, a schema).                                                      *)
(***************************************************************************)
EXTENDS Naturals, Sequences, FiniteSets, TLC

CONSTANTS
  Threads,      \* threads that run queries
  Conns,        \* bound: connections open at one time
  Pools,        \* bound: _DatasourcePool objects alive at one time
  Versions,     \* settings the data source is saved with
  Fingerprint,  \* _datasource_fingerprint: [Versions -> ...]
  MaxSize,      \* pool_max_size
  Pings,        \* the driver is the one that is pinged (MySQL)
  MaxEdits,     \* bound: saves and deletions of the data source
  MaxInUse      \* bound: _in_use of a pool, which PingFails lets grow

None == "none"
ASSUME VersionsAssumption == DOMAIN Fingerprint = Versions /\ None \notin Versions
ASSUME SizeAssumption     == MaxSize \in Nat \ {0} /\ Pings \in BOOLEAN
ASSUME NamesAssumption    == None \notin Pools /\ None \notin Conns
ASSUME BoundsAssumption   == IsFiniteSet(Threads) /\ MaxEdits \in Nat

VARIABLES
  stored, edits, \* the saved version (None: deleted), and how many saves
  overlapped,    \* history: some edit and some thread's borrowing overlapped
  epc, popped,   \* the request that edits: "idle", "saved", "popped"; its pool
  current, fingerprint,  \* the entry of _pools: its pool and fingerprint
  stack, inUse,  \* _stack and _in_use of each pool
  version,       \* the version each connection was opened with; None when it
                 \* is closed, or not opened yet
  pc, source, pool, conn,  \* of each thread
  settled        \* history: the threads that loaded the data source while
                 \* no edit was half done

poolVars == <<current, fingerprint, stack, inUse>>
editVars == <<stored, edits, overlapped, epc, popped>>
vars == <<editVars, poolVars, version, pc, source, pool, conn, settled>>

TopOf(s)  == s[Len(s)]
PopOf(s)  == SubSeq(s, 1, Len(s) - 1)
In(s)     == {s[i] : i \in 1..Len(s)}

Idle(p)   == In(stack[p])
Held      == {conn[t] : t \in Threads} \ {None}
Opened    == {c \in Conns : version[c] # None}
Closed(S) == [c \in Conns |-> IF c \in S THEN None ELSE version[c]]

\* A pool that nothing refers to is collected at once, with its connections,
\* which the drivers close then.
Reachable == ({current, popped} \cup {pool[t] : t \in Threads}) \ {None}
Collect(stacks, uses, versions) ==
  LET gone == Pools \ Reachable'
      lost == UNION {In(stacks[p]) : p \in gone}
  IN  /\ stack' = [p \in Pools |-> IF p \in gone THEN <<>> ELSE stacks[p]]
      /\ inUse' = [p \in Pools |-> IF p \in gone THEN 0 ELSE uses[p]]
      /\ version' = [c \in Conns |-> IF c \in lost THEN None ELSE versions[c]]

Init ==
  /\ stored \in Versions /\ edits = 0 /\ overlapped = FALSE
  /\ epc = "idle" /\ popped = None
  /\ current = None
  /\ fingerprint = None
  /\ stack = [p \in Pools |-> <<>>]
  /\ inUse = [p \in Pools |-> 0]
  /\ version = [c \in Conns |-> None]
  /\ pc = [t \in Threads |-> "idle"]
  /\ source = [t \in Threads |-> None]
  /\ pool = [t \in Threads |-> None]
  /\ conn = [t \in Threads |-> None]
  /\ settled = {}

Goto(t, l) == pc' = [pc EXCEPT ![t] = l]

-----------------------------------------------------------------------------
(* update_datasource and delete_datasource: the store, then the pool.      *)

Save ==
  /\ epc = "idle" /\ stored # None
  /\ edits < MaxEdits
  /\ stored' \in (Versions \cup {None}) \ {stored}
  /\ edits' = edits + 1
  /\ overlapped' = (overlapped \/ \E t \in Threads : pc[t] # "idle")
  /\ epc' = "saved"
  /\ UNCHANGED <<popped, poolVars, version, pc, source, pool, conn, settled>>

\* invalidate takes the pool out of the table, and clears it after the unlock.
Pop ==
  /\ epc = "saved"
  /\ popped' = current /\ current' = None /\ fingerprint' = None
  /\ epc' = "popped"
  /\ UNCHANGED <<stored, edits, overlapped, stack, inUse, version, pc,
                 source, pool, conn, settled>>

Clear ==
  /\ epc = "popped"
  /\ popped' = None /\ epc' = "idle"
  /\ UNCHANGED <<stored, edits, overlapped, current, fingerprint, pc, source, pool, conn, settled>>
  /\ IF popped = None
     THEN UNCHANGED <<stack, inUse, version>>
     ELSE Collect([stack EXCEPT ![popped] = <<>>], inUse, Closed(Idle(popped)))

-----------------------------------------------------------------------------
(* borrow, by one thread.                                                  *)

LoadSource(t) ==
  /\ pc[t] = "idle"
  /\ stored # None
  /\ source' = [source EXCEPT ![t] = stored]
  /\ settled' = IF epc = "idle" THEN settled \cup {t} ELSE settled
  /\ overlapped' = (overlapped \/ epc # "idle")
  /\ Goto(t, "loaded")
  /\ UNCHANGED <<stored, edits, epc, popped, poolVars, version, pool, conn>>

\* Mutant: the fingerprint is not compared.
Fits_Any(t) == current # None
Fits(t) == current # None /\ fingerprint = Fingerprint[source[t]]

FindPool(t) ==
  /\ pc[t] = "loaded"
  /\ Fits(t)
  /\ pool' = [pool EXCEPT ![t] = current]
  /\ Goto(t, "pool")
  /\ UNCHANGED <<editVars, poolVars, version, source, conn, settled>>

\* Other settings, or no pool yet: the old pool is cleared and replaced.
ReplacePool(t) ==
  /\ pc[t] = "loaded"
  /\ ~Fits(t)
  /\ \E p \in Pools \ Reachable :
       /\ current' = p
       /\ fingerprint' = Fingerprint[source[t]]
       /\ pool' = [pool EXCEPT ![t] = p]
  /\ Goto(t, "pool")
  /\ UNCHANGED <<editVars, source, conn, settled>>
  /\ IF current = None
     THEN UNCHANGED <<stack, inUse, version>>
     ELSE Collect([stack EXCEPT ![current] = <<>>], inUse, Closed(Idle(current)))

\* acquire: the connection returned last, unless it has expired.
\* Mutant: the item is read and stays on the stack.
Popped_Peek(s) == s
Popped(s) == PopOf(s)

Acquire(t) ==
  /\ pc[t] = "pool"
  /\ stack[pool[t]] # <<>>
  /\ inUse[pool[t]] < MaxInUse
  /\ conn' = [conn EXCEPT ![t] = TopOf(stack[pool[t]])]
  /\ stack' = [stack EXCEPT ![pool[t]] = Popped(@)]
  /\ inUse' = [inUse EXCEPT ![pool[t]] = @ + 1]
  /\ Goto(t, IF Pings THEN "ping" ELSE "using")
  /\ UNCHANGED <<editVars, current, fingerprint, version, source, pool, settled>>

\* Nothing there, or all of it idle for too long: what lies deeper in the
\* stack was returned earlier, so that an expired top means an expired stack.
AcquireNothing(t) ==
  /\ pc[t] = "pool"
  /\ version' = Closed(Idle(pool[t]))
  /\ stack' = [stack EXCEPT ![pool[t]] = <<>>]
  /\ Goto(t, "connect")
  /\ UNCHANGED <<editVars, current, fingerprint, inUse, source, pool, conn, settled>>

PingWorks(t) ==
  /\ pc[t] = "ping"
  /\ Goto(t, "using")
  /\ UNCHANGED <<editVars, poolVars, version, source, pool, conn, settled>>

\* A dead connection is closed; its place in _in_use is not given back.
PingFails(t) ==
  /\ pc[t] = "ping"
  /\ version' = Closed({conn[t]})
  /\ conn' = [conn EXCEPT ![t] = None]
  /\ Goto(t, "connect")
  /\ UNCHANGED <<editVars, poolVars, source, pool, settled>>

Connect(t) ==
  /\ pc[t] = "connect"
  /\ \E c \in Conns \ Opened :
       /\ conn' = [conn EXCEPT ![t] = c]
       /\ version' = [version EXCEPT ![c] = source[t]]
  /\ Goto(t, "register")
  /\ UNCHANGED <<editVars, poolVars, source, pool, settled>>

Leave(t) ==
  /\ source' = [source EXCEPT ![t] = None]
  /\ pool' = [pool EXCEPT ![t] = None]
  /\ conn' = [conn EXCEPT ![t] = None]
  /\ settled' = settled \ {t}
  /\ Goto(t, "idle")

ConnectFails(t) ==
  /\ pc[t] = "connect"
  /\ Leave(t)
  /\ UNCHANGED <<editVars, current, fingerprint>>
  /\ Collect(stack, inUse, version)

Registered(p) == [inUse EXCEPT ![p] = @ + 1]

Register(t) ==
  /\ pc[t] = "register"
  /\ inUse[pool[t]] < MaxInUse
  /\ inUse' = Registered(pool[t])
  /\ Goto(t, "using")
  /\ UNCHANGED <<editVars, current, fingerprint, stack, version, source, pool,
                 conn, settled>>

\* release.
Full(p) == Len(stack[p]) >= MaxSize

Kept(p, broken) == ~broken /\ ~Full(p)

Release(t, broken) ==
  LET p == pool[t]
      back == Kept(p, broken)
      used == [inUse EXCEPT ![p] = IF @ = 0 THEN 0 ELSE @ - 1]
  IN  /\ pc[t] = "using"
      /\ Leave(t)
      /\ UNCHANGED <<editVars, current, fingerprint>>
      /\ Collect(IF back THEN [stack EXCEPT ![p] = Append(@, conn[t])] ELSE stack,
                 used,
                 IF broken \/ Full(p) THEN Closed({conn[t]}) ELSE version)

Step(t) ==
  \/ LoadSource(t) \/ FindPool(t) \/ ReplacePool(t)
  \/ Acquire(t) \/ AcquireNothing(t) \/ PingWorks(t) \/ PingFails(t)
  \/ Connect(t) \/ ConnectFails(t) \/ Register(t)
  \/ \E broken \in BOOLEAN : Release(t, broken)
Next == Save \/ Pop \/ Clear \/ \E t \in Threads : Step(t)
Spec == Init /\ [][Next]_vars

-----------------------------------------------------------------------------
\* A pool keeps at most max_size idle connections.
TypeOK ==
  /\ stored \in Versions \cup {None} /\ edits \in 0..MaxEdits /\ overlapped \in BOOLEAN
  /\ epc \in {"idle", "saved", "popped"}
  /\ {current, popped} \subseteq Pools \cup {None}
  /\ \A p \in Pools :
       stack[p] \in Seq(Conns) /\ Len(stack[p]) <= MaxSize /\ inUse[p] \in Nat
  /\ version \in [Conns -> Versions \cup {None}]
  /\ \A t \in Threads :
       /\ pc[t] \in {"idle", "loaded", "pool", "ping", "connect", "register", "using"}
       /\ conn[t] # None <=> pc[t] \in {"ping", "register", "using"}
       /\ pool[t] = None <=> pc[t] \in {"idle", "loaded"}

\* Every connection has one owner: no two threads hold the same one, none is
\* held and idle in a pool at once, or idle in two places.
OneOwner ==
  /\ \A t, u \in Threads : conn[t] = conn[u] /\ conn[t] # None => t = u
  /\ \A p \in Pools :
       /\ Idle(p) \cap Held = {}
       /\ Cardinality(Idle(p)) = Len(stack[p])
       /\ \A q \in Pools \ {p} : Idle(p) \cap Idle(q) = {}

\* A connection in a pool or in a thread's hands was not closed: neither an
\* edit that clears the pool nor an expiry closes what a query is using.
InUseIsOpen == Held \subseteq Opened /\ \A p \in Pools : Idle(p) \subseteq Opened

\* A query never runs on a connection whose fingerprint (host, port, user,
\* database) is another than that of the data source it was given, however that
\* was edited.
SameFingerprint == \A t \in Threads :
  pc[t] = "using" => Fingerprint[version[conn[t]]] = Fingerprint[source[t]]

\* As long as no edit overlapped a borrowing, the connection was opened with all
\* the settings the data source has, those outside the fingerprint too: a pool
\* does not outlive the edit that was over before the query began.
SameSettings == ~overlapped => \A t \in Threads :
  pc[t] = "using" => version[conn[t]] = stored

SameTarget == SameFingerprint /\ SameSettings

\* _in_use never misses a connection that is in use.
InUseNotMissed == \A p \in Pools :
  inUse[p] >= Cardinality({t \in Threads : pool[t] = p /\ pc[t] = "using"})

\* The three together: a connection in use is one query's, open and counted.
PoolIsSound == OneOwner /\ InUseIsOpen /\ InUseNotMissed

-----------------------------------------------------------------------------
(* What the comments say and the code does not do.                         *)

\* api/datasources.py:60: the pool is emptied after an edit so that later
\* queries do not run on the old credentials (pool.py:105: it is dropped when the
\* configuration changes).  A thread that loaded the data source once the edit
\* was over, and not edited since, gets a connection opened with what it loaded.
\* It may not: a thread that loaded it before fills the new pool, and where only
\* `extra' was edited that leads to the old target.
NoOldCredentials == \A t \in settled :
  pc[t] = "using" /\ source[t] = stored /\ epc = "idle" => version[conn[t]] = source[t]

\* pool.py:82 (register_external keeps _in_use exact) and 175: when nobody
\* borrows, _in_use is zero.
InUseSettles ==
  (\A t \in Threads : pc[t] = "idle") => \A p \in Pools : inUse[p] = 0

-----------------------------------------------------------------------------
(* The small instance: a data source that is saved with its first settings,*)
(* with another `extra' or password, or with another host.                 *)

HostOfVersion == [v \in Versions |-> IF v = "host" THEN "new host" ELSE "old host"]

Symmetry == Permutations(Conns) \cup Permutations(Threads) \cup Permutations(Pools)
=============================================================================
