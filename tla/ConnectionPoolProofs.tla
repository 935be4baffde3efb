------------------------ MODULE ConnectionPoolProofs ------------------------
(***************************************************************************)
(* Proofs about ConnectionPool, for any number of threads, connections,    *)
(* pools, data source versions and edits.  PoolInv is the inductive        *)
(* invariant: OneOwner follows from a stack with no connection twice, and  *)
(* SameTarget from every pool keeping to one fingerprint, which holds of a *)
(* new pool because a pool that nothing refers to is empty; and from an    *)
(* edit that overlaps no borrowing leaving neither a pool nor a thread     *)
(* with the settings of before.                                            *)
(***************************************************************************)
EXTENDS ConnectionPool, FiniteSetTheorems, SequenceTheorems, TLAPS

\* The connections of pools and threads, as ownership tells them apart: no
\* connection is in two places, and what is in a place is open.
Distinct(s) == \A i, j \in 1..Len(s) : s[i] = s[j] => i = j
Apart(stacks, held) ==
  /\ \A p \in Pools : Distinct(stacks[p])
  /\ \A p, q \in Pools : p # q => In(stacks[p]) \cap In(stacks[q]) = {}
  /\ \A p \in Pools, t \in Threads : held[t] \notin In(stacks[p])
  /\ \A t, u \in Threads : held[t] = held[u] /\ held[t] # None => t = u
Open(stacks, held, versions) ==
  /\ \A p \in Pools : \A c \in In(stacks[p]) : versions[c] # None
  /\ \A t \in Threads : held[t] # None => versions[held[t]] # None

\* A pool serves one target: the threads that were given it and the
\* connections idle in it agree on the fingerprint, and so does its entry.
Serves(p, f) ==
  /\ \A t \in Threads : pool[t] = p => Fingerprint[source[t]] = f
  /\ \A c \in Idle(p) : Fingerprint[version[c]] = f
  /\ p = current => f = fingerprint
OneTarget == \A p \in Pools : \E f : Serves(p, f)
HeldTarget ==
  \A t \in Threads : conn[t] # None => Fingerprint[version[conn[t]]] = Fingerprint[source[t]]

\* The threads whose connection _in_use counts, a ping included.
Counted(p) == {t \in Threads : pool[t] = p /\ pc[t] \in {"ping", "using"}}
CountInv == \A p \in Pools : inUse[p] >= Cardinality(Counted(p))

\* While no edit overlapped a borrowing, an edit under way finds no thread at
\* work and leaves no entry, and what pools and threads have is up to date.
Lent == {c \in Conns : (\E p \in Pools : c \in Idle(p)) \/ (\E t \in Threads : conn[t] = c)}
UpToDate == ~overlapped =>
  /\ \A t \in Threads : source[t] \in {stored, None}
  /\ epc # "idle" => \A t \in Threads : pc[t] = "idle"
  /\ epc = "popped" => current = None
  /\ epc = "idle" => \A c \in Lent : version[c] = stored

\* A pool nothing refers to is empty.
Fresh == \A p \in Pools \ Reachable : stack[p] = <<>>

\* The types, with those TypeOK leaves open.
EditShape ==
  /\ stored \in Versions \cup {None} /\ edits \in 0..MaxEdits
  /\ overlapped \in BOOLEAN /\ epc \in {"idle", "saved", "popped"}
  /\ {current, popped} \subseteq Pools \cup {None}
  /\ popped # None => epc = "popped"
Stacks == {S \in [Pools -> Seq(Conns)] : \A p \in Pools : Len(S[p]) <= MaxSize}
PoolShape ==
  /\ stack \in Stacks /\ inUse \in [Pools -> Nat]
  /\ version \in [Conns -> Versions \cup {None}]
Pc == {"idle", "loaded", "pool", "ping", "connect", "register", "using"}
ThreadShape ==
  /\ pc \in [Threads -> Pc]
  /\ source \in [Threads -> Versions \cup {None}]
  /\ pool \in [Threads -> Pools \cup {None}]
  /\ conn \in [Threads -> Conns \cup {None}]
  /\ \A t \in Threads :
       /\ source[t] = None <=> pc[t] = "idle"
       /\ conn[t] # None <=> pc[t] \in {"ping", "register", "using"}
       /\ pool[t] = None <=> pc[t] \in {"idle", "loaded"}
Shape == EditShape /\ PoolShape /\ ThreadShape

Owned   == Apart(stack, conn) /\ Open(stack, conn, version)
PoolInv == Shape /\ Owned /\ OneTarget /\ HeldTarget /\ CountInv /\ Fresh
           /\ UpToDate

-----------------------------------------------------------------------------
(* The stack of a pool.                                                    *)

\* What acquire takes from a stack, and what it leaves there.
LEMMA TopAndRest ==
  ASSUME NEW S, NEW s \in Seq(S), s # <<>>
  PROVE  /\ TopOf(s) \in In(s) /\ TopOf(s) \in S
         /\ PopOf(s) \in Seq(S) /\ Len(PopOf(s)) = Len(s) - 1
         /\ In(PopOf(s)) \subseteq In(s)
         /\ Distinct(s) => Distinct(PopOf(s)) /\ TopOf(s) \notin In(PopOf(s))
<1>1. Len(s) \in Nat \ {0} /\ \A i \in 1..Len(s) : s[i] \in S
  BY EmptySeq, ElementOfSeq
<1>2. /\ PopOf(s) \in Seq(S) /\ Len(PopOf(s)) = Len(s) - 1
      /\ \A i \in 1..Len(s) - 1 : PopOf(s)[i] = s[i]
  <2> DEFINE n == Len(s) - 1
  <2>1. n \in Nat /\ 1..n \subseteq 1..Len(s) /\ n - 1 + 1 = n
    BY <1>1
  <2>2. \A i \in 1..n : s[i] \in S
    BY <1>1, <2>1
  <2>3. /\ SubSeq(s, 1, n) \in Seq(S)
        /\ Len(SubSeq(s, 1, n)) = IF 1 <= n THEN n - 1 + 1 ELSE 0
        /\ \A i \in 1..n - 1 + 1 : SubSeq(s, 1, n)[i] = s[1 + i - 1]
    <3> HIDE DEF n
    <3>1. 1 \in Int /\ n \in Int
      BY <2>1
    <3>2. QED BY <2>2, <3>1, SubSeqProperties
  <2>4. QED BY <2>1, <2>3 DEF PopOf
<1>3. In(PopOf(s)) = {s[i] : i \in 1..Len(s) - 1}
  BY <1>1, <1>2 DEF In
<1>4. QED BY <1>1, <1>2, <1>3 DEF TopOf, In, Distinct

\* What release puts back.
LEMMA Returned ==
  ASSUME NEW S, NEW s \in Seq(S), NEW x \in S
  PROVE  /\ Append(s, x) \in Seq(S) /\ Len(Append(s, x)) = Len(s) + 1
         /\ In(Append(s, x)) = In(s) \cup {x}
         /\ Distinct(s) /\ x \notin In(s) => Distinct(Append(s, x))
<1>1. /\ Append(s, x) \in Seq(S) /\ Len(Append(s, x)) = Len(s) + 1 /\ Len(s) \in Nat
      /\ \A i \in 1..Len(s) : Append(s, x)[i] = s[i]
      /\ Append(s, x)[Len(s) + 1] = x
  OBVIOUS
<1>2. 1..Len(Append(s, x)) = 1..Len(s) \cup {Len(s) + 1}
  BY <1>1
<1>3. In(Append(s, x)) = In(s) \cup {x}
  BY <1>1, <1>2 DEF In
<1>4. ASSUME Distinct(s), x \notin In(s) PROVE Distinct(Append(s, x))
  BY <1>1, <1>2, <1>4 DEF Distinct, In
<1>5. QED BY <1>1, <1>3, <1>4

LEMMA Emptied == In(<<>>) = {} /\ Distinct(<<>>)
  BY DEF In, Distinct

\* No connection is twice in a stack whose entries differ.
LEMMA DistinctCount ==
  ASSUME NEW S, NEW s \in Seq(S), Distinct(s)
  PROVE  Cardinality(In(s)) = Len(s)
<1>1. Len(s) \in Nat /\ s \in [1..Len(s) -> In(s)]
  BY LenProperties DEF In
<1>2. s \in Bijection(1..Len(s), In(s))
  BY <1>1 DEF Distinct, In, Bijection, Injection, Surjection, IsInjective
<1>3. ExistsBijection(1..Len(s), In(s))
  BY <1>2 DEF ExistsBijection
<1>4. QED BY <1>1, <1>3, FS_CountingElements

-----------------------------------------------------------------------------
(* The initial states, and the type of every variable.                     *)

LEMMA ShapeIsTypeOK == Shape => TypeOK
  BY DEF Shape, EditShape, PoolShape, Stacks, ThreadShape, Pc, TypeOK

\* A pool that is collected is emptied and its connections close; nothing
\* happens to another.
LEMMA Collected ==
  ASSUME NEW S \in Stacks, NEW U \in [Pools -> Nat],
         NEW V \in [Conns -> Versions \cup {None}], Collect(S, U, V)
  PROVE  /\ PoolShape'
         /\ \A p \in Pools : IF p \in Reachable'
                             THEN stack'[p] = S[p] /\ inUse'[p] = U[p]
                             ELSE stack'[p] = <<>> /\ inUse'[p] = 0
         /\ \A c \in Conns : \/ version'[c] = V[c]
                             \/ \E p \in Pools \ Reachable' : c \in In(S[p])
<1>1. <<>> \in Seq(Conns) /\ Len(<<>>) = 0 /\ MaxSize \in Nat
  BY SizeAssumption
<1>2. stack' \in Stacks /\ inUse' \in [Pools -> Nat]
  BY <1>1 DEF Collect, Stacks
<1>3. version' \in [Conns -> Versions \cup {None}]
  BY DEF Collect
<1>4. QED BY <1>2, <1>3 DEF Collect, PoolShape

LEMMA ClosedType == ASSUME Shape, NEW C PROVE Closed(C) \in [Conns -> Versions \cup {None}]
  BY DEF Shape, PoolShape, Closed

LEMMA ClearedType ==
  ASSUME Shape, NEW p PROVE [stack EXCEPT ![p] = <<>>] \in Stacks
<1> DEFINE S == [stack EXCEPT ![p] = <<>>]
<1>1. <<>> \in Seq(Conns) /\ Len(<<>>) = 0 /\ MaxSize \in Nat
  BY SizeAssumption
<1>2. stack \in [Pools -> Seq(Conns)] /\ \A q \in Pools : Len(stack[q]) <= MaxSize
  BY DEF Shape, PoolShape, Stacks
<1>3. S \in [Pools -> Seq(Conns)] /\ \A q \in Pools : S[q] = stack[q] \/ S[q] = <<>>
  BY <1>1, <1>2
<1>4. \A q \in Pools : Len(S[q]) <= MaxSize
  <2> HIDE DEF S
  <2> QED BY <1>1, <1>2, <1>3
<1>5. QED BY <1>3, <1>4 DEF Stacks

LEMMA PoolInit == Init => PoolInv
<1> SUFFICES ASSUME Init PROVE PoolInv
  OBVIOUS
<1> USE DEF Init
<1>1. Shape
  <2>1. <<>> \in Seq(Conns) /\ Len(<<>>) = 0 /\ MaxSize \in Nat
    BY SizeAssumption
  <2>2. EditShape
    <3>1. 0 \in 0..MaxEdits
      BY BoundsAssumption
    <3>2. QED BY <3>1 DEF EditShape
  <2>3. PoolShape
    BY <2>1 DEF PoolShape, Stacks
  <2>4. ThreadShape
    BY DEF ThreadShape, Pc
  <2>5. QED BY <2>2, <2>3, <2>4 DEF Shape
<1>2. Owned
  BY Emptied DEF Owned, Apart, Open
<1>3. OneTarget /\ HeldTarget
  BY NamesAssumption, Emptied DEF OneTarget, Serves, Idle, HeldTarget
<1>4. CountInv
  <2>1. ASSUME NEW p \in Pools PROVE inUse[p] = 0 /\ Cardinality(Counted(p)) = 0
    <3>1. Counted(p) = {} /\ inUse[p] = 0
      BY DEF Counted
    <3>2. QED BY <3>1, FS_EmptySet
  <2>2. QED BY <2>1 DEF CountInv
<1>5. Fresh
  BY DEF Fresh
<1>6. UpToDate
  <2>1. Lent = {}
    BY NamesAssumption, Emptied DEF Lent, Idle
  <2>2. QED BY <2>1 DEF UpToDate
<1>7. QED BY <1>1, <1>2, <1>3, <1>4, <1>5, <1>6 DEF PoolInv

LEMMA EditShapeStep == EditShape /\ [Next]_vars => EditShape'
<1> SUFFICES ASSUME EditShape, [Next]_vars PROVE EditShape'
  OBVIOUS
<1> USE DEF EditShape, editVars, poolVars
<1>1. CASE UNCHANGED vars
  BY <1>1 DEF vars
<1>2. CASE Save
  <2>1. edits' \in 0..MaxEdits
    BY <1>2, BoundsAssumption DEF Save
  <2>2. QED BY <1>2, <2>1 DEF Save
<1>3. CASE Pop \/ Clear
  BY <1>3 DEF Pop, Clear
<1>4. ASSUME NEW t \in Threads, Step(t) PROVE EditShape'
  <2>1. /\ UNCHANGED <<stored, edits, epc, popped>> /\ overlapped' \in BOOLEAN
        /\ current' = current \/ current' \in Pools
    BY <1>4 DEF Step, LoadSource, FindPool, ReplacePool, Acquire, AcquireNothing, PingWorks,
      PingFails, Connect, ConnectFails, Register, Release
  <2>2. QED BY <2>1
<1>5. QED BY <1>1, <1>2, <1>3, <1>4 DEF Next

LEMMA ThreadShapeStep == Shape /\ [Next]_vars => ThreadShape'
<1> SUFFICES ASSUME Shape, [Next]_vars PROVE ThreadShape'
  OBVIOUS
<1> USE DEF Shape, ThreadShape, Pc, Goto
<1>1. CASE UNCHANGED vars \/ Save \/ Pop \/ Clear
  BY <1>1 DEF vars, Save, Pop, Clear
<1>2. ASSUME NEW t \in Threads, LoadSource(t) PROVE ThreadShape'
  BY <1>2, VersionsAssumption DEF LoadSource, EditShape
<1>3. ASSUME NEW t \in Threads, FindPool(t) PROVE ThreadShape'
  BY <1>3, NamesAssumption DEF FindPool, Fits, EditShape
<1>4. ASSUME NEW t \in Threads, ReplacePool(t) PROVE ThreadShape'
  BY <1>4, NamesAssumption DEF ReplacePool
<1>5. ASSUME NEW t \in Threads, Acquire(t) PROVE ThreadShape'
  <2>1. stack[pool[t]] \in Seq(Conns) /\ stack[pool[t]] # <<>>
    BY <1>5 DEF Acquire, PoolShape, Stacks
  <2>2. TopOf(stack[pool[t]]) \in Conns
    BY <2>1, TopAndRest
  <2>3. QED BY <1>5, <2>2, NamesAssumption DEF Acquire
<1>6. ASSUME NEW t \in Threads, AcquireNothing(t) \/ PingWorks(t) \/ PingFails(t) \/ Register(t)
      PROVE ThreadShape'
  BY <1>6 DEF AcquireNothing, PingWorks, PingFails, Register
<1>7. ASSUME NEW t \in Threads, Connect(t) PROVE ThreadShape'
  BY <1>7, NamesAssumption DEF Connect, Opened
<1>8. ASSUME NEW t \in Threads, Leave(t) PROVE ThreadShape'
  BY <1>8 DEF Leave
<1>9. QED
  BY <1>1, <1>2, <1>3, <1>4, <1>5, <1>6, <1>7, <1>8 DEF Next, Step, ConnectFails, Release

\* What a release leaves in the stacks, the counts and the versions.
LEMMA ReleaseType ==
  ASSUME Shape, NEW t \in Threads, pc[t] = "using", NEW broken
  PROVE  LET p == pool[t] IN
         /\ p \in Pools /\ conn[t] \in Conns
         /\ (IF Kept(p, broken) THEN [stack EXCEPT ![p] = Append(@, conn[t])] ELSE stack) \in Stacks
         /\ [inUse EXCEPT ![p] = IF @ = 0 THEN 0 ELSE @ - 1] \in [Pools -> Nat]
         /\ (IF broken \/ Full(p) THEN Closed({conn[t]}) ELSE version)
              \in [Conns -> Versions \cup {None}]
<1> DEFINE p == pool[t]
<1>1. p \in Pools /\ conn[t] \in Conns /\ stack[p] \in Seq(Conns) /\ Len(stack[p]) \in Nat
  BY DEF Shape, ThreadShape, PoolShape, Stacks
<1>2. Append(stack[p], conn[t]) \in Seq(Conns) /\ Len(Append(stack[p], conn[t])) = Len(stack[p]) + 1
  BY <1>1, Returned
<1>3. (IF Kept(p, broken) THEN [stack EXCEPT ![p] = Append(@, conn[t])] ELSE stack) \in Stacks
  <2>1. CASE Kept(p, broken)
    <3>1. Len(Append(stack[p], conn[t])) <= MaxSize
      BY <1>1, <1>2, <2>1, SizeAssumption DEF Kept, Full
    <3>2. QED BY <1>2, <2>1, <3>1 DEF Shape, PoolShape, Stacks
  <2>2. QED BY <2>1 DEF Shape, PoolShape
<1>4. [inUse EXCEPT ![p] = IF @ = 0 THEN 0 ELSE @ - 1] \in [Pools -> Nat]
  <2>1. inUse \in [Pools -> Nat]
    BY DEF Shape, PoolShape
  <2>2. (IF inUse[p] = 0 THEN 0 ELSE inUse[p] - 1) \in Nat
    BY <1>1, <2>1
  <2>3. QED BY <2>1, <2>2
<1>5. (IF broken \/ Full(p) THEN Closed({conn[t]}) ELSE version) \in [Conns -> Versions \cup {None}]
  BY ClosedType DEF Shape, PoolShape
<1>6. QED BY <1>1, <1>3, <1>4, <1>5

LEMMA PoolShapeStep == Shape /\ [Next]_vars => PoolShape'
<1> SUFFICES ASSUME Shape, [Next]_vars PROVE PoolShape'
  OBVIOUS
<1>t. /\ stack \in Stacks /\ inUse \in [Pools -> Nat]
      /\ version \in [Conns -> Versions \cup {None}]
  BY DEF Shape, PoolShape
<1>1. CASE UNCHANGED <<stack, inUse, version>>
  BY <1>t, <1>1 DEF PoolShape
<1>2. ASSUME NEW p, Collect([stack EXCEPT ![p] = <<>>], inUse, Closed(Idle(p))) PROVE PoolShape'
  BY <1>t, <1>2, ClosedType, ClearedType, Collected
<1>3. ASSUME NEW t \in Threads, Acquire(t) PROVE PoolShape'
  <2> DEFINE p == pool[t]
  <2>1. /\ p \in Pools /\ stack[p] \in Seq(Conns) /\ stack[p] # <<>> /\ Len(stack[p]) <= MaxSize
        /\ stack' = [stack EXCEPT ![p] = PopOf(stack[p])]
        /\ inUse' = [inUse EXCEPT ![p] = @ + 1] /\ version' = version
    BY <1>3 DEF Acquire, Popped, Shape, ThreadShape, PoolShape, Stacks
  <2>2. PopOf(stack[p]) \in Seq(Conns) /\ Len(PopOf(stack[p])) = Len(stack[p]) - 1
    BY <2>1, TopAndRest
  <2>3. Len(PopOf(stack[p])) <= MaxSize
    BY <2>1, <2>2, LenProperties, SizeAssumption
  <2>4. stack' \in Stacks
    BY <1>t, <2>1, <2>2, <2>3 DEF Stacks
  <2>5. QED BY <1>t, <2>1, <2>4 DEF PoolShape
<1>4. ASSUME NEW t \in Threads, AcquireNothing(t) PROVE PoolShape'
  BY <1>t, <1>4, ClosedType, ClearedType DEF AcquireNothing, PoolShape
<1>5. ASSUME NEW t \in Threads, PingFails(t) PROVE PoolShape'
  BY <1>t, <1>5, ClosedType DEF PingFails, poolVars, PoolShape
<1>6. ASSUME NEW t \in Threads, Connect(t) PROVE PoolShape'
  BY <1>t, <1>6 DEF Connect, poolVars, PoolShape, Shape, ThreadShape
<1>7. ASSUME NEW t \in Threads, ConnectFails(t) PROVE PoolShape'
  BY <1>t, <1>7, Collected DEF ConnectFails
<1>8. ASSUME NEW t \in Threads, Register(t) PROVE PoolShape'
  BY <1>t, <1>8 DEF Register, Registered, PoolShape, Shape, ThreadShape
<1>9. ASSUME NEW t \in Threads, NEW broken, Release(t, broken) PROVE PoolShape'
  <2> DEFINE p == pool[t]
             S == IF Kept(p, broken) THEN [stack EXCEPT ![p] = Append(@, conn[t])] ELSE stack
             U == [inUse EXCEPT ![p] = IF @ = 0 THEN 0 ELSE @ - 1]
             V == IF broken \/ Full(p) THEN Closed({conn[t]}) ELSE version
  <2>1. Collect(S, U, V) /\ pc[t] = "using"
    BY <1>9 DEF Release
  <2>2. S \in Stacks /\ U \in [Pools -> Nat] /\ V \in [Conns -> Versions \cup {None}]
    BY <2>1, ReleaseType
  <2> HIDE DEF S, U, V
  <2>3. QED BY <2>1, <2>2, Collected
<1>10. ASSUME NEW t \in Threads, LoadSource(t) \/ FindPool(t) \/ ReplacePool(t) \/ PingWorks(t)
       PROVE PoolShape'
  BY <1>1, <1>2, <1>10 DEF LoadSource, FindPool, ReplacePool, PingWorks, poolVars
<1>11. CASE UNCHANGED vars \/ Save \/ Pop \/ Clear
  BY <1>1, <1>2, <1>11 DEF vars, Save, Pop, Clear, poolVars
<1>12. QED
  BY <1>3, <1>4, <1>5, <1>6, <1>7, <1>8, <1>9, <1>10, <1>11 DEF Next, Step

LEMMA ShapeStep == Shape /\ [Next]_vars => Shape'
  BY EditShapeStep, ThreadShapeStep, PoolShapeStep DEF Shape

-----------------------------------------------------------------------------
(* Who owns a connection.                                                  *)

LEMMA IdleAreConns == ASSUME NEW S \in Stacks, NEW p \in Pools PROVE In(S[p]) \subseteq Conns
<1>1. S[p] \in Seq(Conns)
  BY DEF Stacks
<1>2. QED BY <1>1, ElementOfSeq DEF In

\* Collecting pools takes no connection that a thread or another pool has.
LEMMA CollectOwned ==
  ASSUME NEW S \in Stacks, NEW U \in [Pools -> Nat],
         NEW V \in [Conns -> Versions \cup {None}], Collect(S, U, V),
         conn' \in [Threads -> Conns \cup {None}], Apart(S, conn'), Open(S, conn', V)
  PROVE  Apart(stack', conn') /\ Open(stack', conn', version')
<1>1. /\ \A p \in Pools : IF p \in Reachable' THEN stack'[p] = S[p] ELSE stack'[p] = <<>>
      /\ \A c \in Conns : \/ version'[c] = V[c]
                          \/ \E p \in Pools \ Reachable' : c \in In(S[p])
  BY Collected
<1>2. \A p \in Pools : In(stack'[p]) = {} \/ (p \in Reachable' /\ stack'[p] = S[p])
  BY <1>1, Emptied
<1>3. Apart(stack', conn')
  BY <1>1, Emptied DEF Apart
<1>4. \A p \in Pools : \A c \in In(stack'[p]) : version'[c] # None
  BY <1>1, <1>2, IdleAreConns DEF Apart, Open
<1>5. \A t \in Threads : conn'[t] # None => version'[conn'[t]] # None
  BY <1>1 DEF Apart, Open
<1>6. QED BY <1>3, <1>4, <1>5 DEF Open

\* Clearing a pool closes nothing that is elsewhere.
LEMMA ClearOwned ==
  ASSUME Shape, Apart(stack, conn), Open(stack, conn, version), NEW p \in Pools
  PROVE  LET S == [stack EXCEPT ![p] = <<>>]
         IN  Apart(S, conn) /\ Open(S, conn, Closed(Idle(p)))
<1> DEFINE S == [stack EXCEPT ![p] = <<>>]
<1>1. /\ In(S[p]) = {} /\ Distinct(S[p])
      /\ \A q \in Pools \ {p} : S[q] = stack[q]
  BY Emptied DEF Shape, PoolShape, Stacks
<1>2. \A q \in Pools : In(stack[q]) \subseteq Conns
  BY IdleAreConns DEF Shape, PoolShape
<1>3. conn \in [Threads -> Conns \cup {None}]
  BY DEF Shape, ThreadShape
<1> HIDE DEF S
<1>4. Apart(S, conn)
  BY <1>1 DEF Apart
<1>5. \A q \in Pools : \A c \in In(S[q]) : Closed(Idle(p))[c] # None
  BY <1>1, <1>2 DEF Apart, Open, Closed, Idle
<1>6. \A t \in Threads : conn[t] # None => Closed(Idle(p))[conn[t]] # None
  BY <1>3 DEF Apart, Open, Closed, Idle
<1>7. QED BY <1>4, <1>5, <1>6 DEF Open, S

\* A thread that lets go of its connection leaves it to nobody.
LEMMA LetGo ==
  ASSUME Shape, Apart(stack, conn), Open(stack, conn, version), NEW t \in Threads,
         NEW V, V = version \/ V = Closed({conn[t]}),
         NEW H, H[t] = None, \A u \in Threads \ {t} : H[u] = conn[u]
  PROVE  /\ Apart(stack, H) /\ Open(stack, H, V)
         /\ \A u \in Threads : H[u] # conn[t] \/ H[u] = None
<1>1. conn \in [Threads -> Conns \cup {None}] /\ version \in [Conns -> Versions \cup {None}]
  BY DEF Shape, ThreadShape, PoolShape
<1>2. \A p \in Pools : In(stack[p]) \subseteq Conns
  BY IdleAreConns DEF Shape, PoolShape
<1>4. \A u \in Threads : H[u] # conn[t] \/ H[u] = None
  BY <1>1 DEF Apart
<1>5. Apart(stack, H)
  BY <1>2, NamesAssumption DEF Apart
<1>6. \A p \in Pools : \A c \in In(stack[p]) : V[c] # None
  BY <1>1, <1>2 DEF Apart, Open, Closed
<1>7. \A u \in Threads : H[u] # None => V[H[u]] # None
  BY <1>1, <1>4 DEF Open, Closed
<1>8. QED BY <1>4, <1>5, <1>6, <1>7 DEF Open

\* A connection that nobody has may go into a pool.
LEMMA PutBack ==
  ASSUME NEW S \in Stacks, NEW H, NEW V, Apart(S, H), Open(S, H, V), NEW p \in Pools,
         NEW c \in Conns, \A q \in Pools : c \notin In(S[q]),
         \A u \in Threads : H[u] # c, V[c] # None,
         NEW R, R[p] = Append(S[p], c), \A q \in Pools \ {p} : R[q] = S[q]
  PROVE  Apart(R, H) /\ Open(R, H, V)
<1>1. /\ In(Append(S[p], c)) = In(S[p]) \cup {c}
      /\ Distinct(S[p]) /\ c \notin In(S[p]) => Distinct(Append(S[p], c))
  BY Returned DEF Stacks
<1>2. In(R[p]) = In(S[p]) \cup {c} /\ Distinct(R[p])
  BY <1>1 DEF Apart
<1>3. Apart(R, H)
  <2>1. \A q \in Pools : Distinct(R[q])
    BY <1>2 DEF Apart
  <2>2. ASSUME NEW q \in Pools, NEW r \in Pools, q # r PROVE In(R[q]) \cap In(R[r]) = {}
    <3>1. c \notin In(S[q]) /\ c \notin In(S[r]) /\ In(S[q]) \cap In(S[r]) = {}
      BY <2>2 DEF Apart
    <3>2. In(R[q]) \subseteq In(S[q]) \cup {c} /\ (q # p => R[q] = S[q])
      BY <1>2
    <3>3. In(R[r]) \subseteq In(S[r]) \cup {c} /\ (r # p => R[r] = S[r])
      BY <1>2
    <3>4. QED BY <2>2, <3>1, <3>2, <3>3
  <2>3. \A q \in Pools, u \in Threads : H[u] \notin In(R[q])
    BY <1>2 DEF Apart
  <2>4. QED BY <2>1, <2>2, <2>3 DEF Apart
<1>4. Open(R, H, V)
  BY <1>2 DEF Open
<1>5. QED BY <1>3, <1>4

\* What a release hands to Collect: the connection is in its pool, closed,
\* or closed and lost with it, and in no thread's hands.
LEMMA ReleaseOwned ==
  ASSUME Shape, Owned, NEW t \in Threads, pc[t] = "using", NEW S, NEW V, NEW H,
         \/ S = stack /\ V \in {version, Closed({conn[t]})}
         \/ /\ S[pool[t]] = Append(stack[pool[t]], conn[t]) /\ V = version
            /\ \A q \in Pools \ {pool[t]} : S[q] = stack[q],
         H[t] = None, \A u \in Threads \ {t} : H[u] = conn[u]
  PROVE  Apart(S, H) /\ Open(S, H, V)
<1> DEFINE p == pool[t]
           c == conn[t]
<1>1. p \in Pools /\ c \in Conns /\ c # None /\ stack \in Stacks
  BY DEF Shape, ThreadShape, PoolShape
<1>2. V = version \/ V = Closed({c})
  OBVIOUS
<1>3. /\ Apart(stack, H) /\ Open(stack, H, V)
      /\ \A u \in Threads : H[u] # c \/ H[u] = None
  BY <1>2, LetGo DEF Owned
<1>4. CASE S = stack
  BY <1>3, <1>4
<1>5. CASE S # stack
  <2>1. S[p] = Append(stack[p], c) /\ V = version /\ \A q \in Pools \ {p} : S[q] = stack[q]
    BY <1>5
  <2>2. version[c] # None /\ \A q \in Pools : c \notin In(stack[q])
    BY <1>1 DEF Owned, Apart, Open
  <2>3. \A u \in Threads : H[u] # c
    BY <1>1, <1>3
  <2>4. QED BY <1>1, <1>3, <2>1, <2>2, <2>3, PutBack
<1>6. QED BY <1>4, <1>5

LEMMA OwnedStep == Shape /\ Owned /\ [Next]_vars => Owned'
<1> SUFFICES ASSUME Shape, Owned, [Next]_vars PROVE Owned'
  OBVIOUS
<1>t. /\ stack \in Stacks /\ inUse \in [Pools -> Nat]
      /\ version \in [Conns -> Versions \cup {None}]
      /\ conn \in [Threads -> Conns \cup {None}] /\ pool \in [Threads -> Pools \cup {None}]
      /\ conn' \in [Threads -> Conns \cup {None}]
  BY ThreadShapeStep DEF Shape, PoolShape, ThreadShape
<1>i. \A p \in Pools : In(stack[p]) \subseteq Conns
  BY <1>t, IdleAreConns
<1>1. CASE UNCHANGED <<stack, conn, version>>
  BY <1>1 DEF Owned
<1>2. ASSUME NEW p \in Pools, conn' = conn,
             Collect([stack EXCEPT ![p] = <<>>], inUse, Closed(Idle(p))) PROVE Owned'
  <2> DEFINE S == [stack EXCEPT ![p] = <<>>]
  <2>1. S \in Stacks /\ Closed(Idle(p)) \in [Conns -> Versions \cup {None}]
    BY ClosedType, ClearedType
  <2>2. Apart(S, conn') /\ Open(S, conn', Closed(Idle(p)))
    BY <1>2, ClearOwned DEF Owned
  <2>3. Collect(S, inUse, Closed(Idle(p)))
    BY <1>2
  <2> HIDE DEF S
  <2>4. QED BY <1>t, <2>1, <2>2, <2>3, CollectOwned DEF Owned
<1>3. ASSUME NEW t \in Threads, Acquire(t) PROVE Owned'
  <2> DEFINE p == pool[t]
             c == TopOf(stack[p])
  <2>1. /\ p \in Pools /\ stack[p] \in Seq(Conns) /\ stack[p] # <<>>
        /\ stack' = [stack EXCEPT ![p] = PopOf(stack[p])]
        /\ conn' = [conn EXCEPT ![t] = c] /\ version' = version
    BY <1>3 DEF Acquire, Popped, Shape, ThreadShape, PoolShape, Stacks
  <2>2. /\ c \in In(stack[p]) /\ c \in Conns
        /\ In(PopOf(stack[p])) \subseteq In(stack[p])
        /\ Distinct(PopOf(stack[p])) /\ c \notin In(PopOf(stack[p]))
    BY <2>1, TopAndRest DEF Owned, Apart
  <2>3. /\ stack'[p] = PopOf(stack[p]) /\ \A q \in Pools \ {p} : stack'[q] = stack[q]
        /\ conn'[t] = c /\ \A u \in Threads \ {t} : conn'[u] = conn[u]
    BY <1>t, <2>1 DEF Stacks
  <2> HIDE DEF c, p
  <2>4. Apart(stack', conn')
    <3>1. \A q \in Pools : Distinct(stack'[q]) /\ In(stack'[q]) \subseteq In(stack[q])
      BY <2>2, <2>3 DEF Owned, Apart
    <3>2. \A q, r \in Pools : q # r => In(stack'[q]) \cap In(stack'[r]) = {}
      BY <3>1 DEF Owned, Apart
    <3>3. \A q \in Pools : c \notin In(stack'[q])
      BY <2>1, <2>2, <2>3 DEF Owned, Apart
    <3>4. \A q \in Pools, u \in Threads : conn'[u] \notin In(stack'[q])
      BY <2>3, <3>1, <3>3 DEF Owned, Apart
    <3>5. \A u \in Threads : conn[u] # c
      BY <2>1, <2>2 DEF Owned, Apart
    <3>6. \A u, v \in Threads : conn'[u] = conn'[v] /\ conn'[u] # None => u = v
      BY <2>3, <3>5 DEF Owned, Apart
    <3>7. QED BY <3>1, <3>2, <3>4, <3>6 DEF Apart
  <2>5. Open(stack', conn', version')
    BY <2>1, <2>2, <2>3 DEF Owned, Open
  <2>6. QED BY <2>4, <2>5 DEF Owned
<1>4. ASSUME NEW t \in Threads, AcquireNothing(t) PROVE Owned'
  <2>1. /\ pool[t] \in Pools /\ conn' = conn /\ version' = Closed(Idle(pool[t]))
        /\ stack' = [stack EXCEPT ![pool[t]] = <<>>]
    BY <1>4 DEF AcquireNothing, Shape, ThreadShape
  <2>2. QED BY <2>1, ClearOwned DEF Owned
<1>5. ASSUME NEW t \in Threads, PingFails(t) PROVE Owned'
  <2>1. /\ version' = Closed({conn[t]}) /\ stack' = stack
        /\ conn'[t] = None /\ \A u \in Threads \ {t} : conn'[u] = conn[u]
    BY <1>t, <1>5 DEF PingFails, poolVars
  <2>2. QED BY <2>1, LetGo DEF Owned
<1>6. ASSUME NEW t \in Threads, Connect(t) PROVE Owned'
  <2>1. PICK c \in Conns \ Opened : conn' = [conn EXCEPT ![t] = c]
                                    /\ version' = [version EXCEPT ![c] = source[t]]
    BY <1>6 DEF Connect
  <2>2. version[c] = None /\ c # None /\ stack' = stack /\ source[t] # None
    BY <1>6, <2>1, NamesAssumption DEF Connect, Opened, poolVars, Shape, ThreadShape
  <2>3. /\ \A p \in Pools : c \notin In(stack[p])
        /\ \A u \in Threads : conn[u] # c
    BY <2>1, <2>2 DEF Owned, Open
  <2>4. conn'[t] = c /\ \A u \in Threads \ {t} : conn'[u] = conn[u]
    BY <1>t, <2>1
  <2>5. Apart(stack', conn')
    BY <2>2, <2>3, <2>4 DEF Owned, Apart
  <2>6. Open(stack', conn', version')
    BY <1>t, <1>i, <2>1, <2>2, <2>3, <2>4 DEF Owned, Open
  <2>7. QED BY <2>5, <2>6 DEF Owned
<1>7. ASSUME NEW t \in Threads, ConnectFails(t) PROVE Owned'
  <2>1. /\ Collect(stack, inUse, version)
        /\ conn'[t] = None /\ \A u \in Threads \ {t} : conn'[u] = conn[u]
    BY <1>t, <1>7 DEF ConnectFails, Leave
  <2>2. Apart(stack, conn') /\ Open(stack, conn', version)
    BY <2>1, LetGo DEF Owned
  <2>3. QED BY <1>t, <2>1, <2>2, CollectOwned DEF Owned
<1>8. ASSUME NEW t \in Threads, NEW broken, Release(t, broken) PROVE Owned'
  <2> DEFINE p == pool[t]
             S == IF Kept(p, broken) THEN [stack EXCEPT ![p] = Append(@, conn[t])] ELSE stack
             U == [inUse EXCEPT ![p] = IF @ = 0 THEN 0 ELSE @ - 1]
             V == IF broken \/ Full(p) THEN Closed({conn[t]}) ELSE version
  <2>1. Collect(S, U, V) /\ pc[t] = "using" /\ conn' = [conn EXCEPT ![t] = None]
    BY <1>8 DEF Release, Leave
  <2>2. S \in Stacks /\ U \in [Pools -> Nat] /\ V \in [Conns -> Versions \cup {None}]
    BY <2>1, ReleaseType
  <2>3. Apart(S, conn') /\ Open(S, conn', V)
    <3>1. \/ S = stack /\ V \in {version, Closed({conn[t]})}
          \/ /\ S[p] = Append(stack[p], conn[t]) /\ V = version
             /\ \A q \in Pools \ {p} : S[q] = stack[q]
      <4>1. CASE Kept(p, broken)
        <5>1. p \in Pools /\ stack \in [Pools -> Seq(Conns)] /\ V = version
          BY <2>1, <4>1 DEF Kept, Shape, ThreadShape, PoolShape, Stacks
        <5>2. QED BY <4>1, <5>1
      <4>2. CASE ~Kept(p, broken)
        BY <4>2
      <4>3. QED BY <4>1, <4>2
    <3>2. conn'[t] = None /\ \A u \in Threads \ {t} : conn'[u] = conn[u]
      BY <1>t, <2>1
    <3> HIDE DEF S, V
    <3>3. QED BY <2>1, <3>1, <3>2, ReleaseOwned
  <2> HIDE DEF S, U, V
  <2>4. QED BY <1>t, <2>1, <2>2, <2>3, CollectOwned DEF Owned
<1>9. ASSUME NEW t \in Threads,
             LoadSource(t) \/ FindPool(t) \/ ReplacePool(t) \/ PingWorks(t) \/ Register(t)
      PROVE  Owned'
  <2>1. CASE ReplacePool(t)
    <3>1. conn' = conn
      BY <2>1 DEF ReplacePool
    <3>2. current = None \/ current \in Pools
      BY DEF Shape, EditShape
    <3>3. QED BY <1>1, <1>2, <2>1, <3>1, <3>2 DEF ReplacePool
  <2>2. QED BY <1>1, <1>9, <2>1 DEF LoadSource, FindPool, PingWorks, Register, poolVars
<1>10. CASE UNCHANGED vars \/ Save \/ Pop
  BY <1>1, <1>10 DEF vars, Save, Pop, poolVars
<1>11. CASE Clear
  <2>1. conn' = conn /\ (popped = None \/ popped \in Pools)
    BY <1>11 DEF Clear, Shape, EditShape
  <2>2. QED BY <1>1, <1>2, <1>11, <2>1 DEF Clear
<1>12. QED
  BY <1>3, <1>4, <1>5, <1>6, <1>7, <1>8, <1>9, <1>10, <1>11 DEF Next, Step

-----------------------------------------------------------------------------
(* Pools nothing refers to, and the count of the connections in use.       *)

LEMMA FreshStep == Shape /\ Fresh /\ [Next]_vars => Fresh'
<1> SUFFICES ASSUME Shape, Fresh, [Next]_vars PROVE Fresh'
  OBVIOUS
<1>1. ASSUME UNCHANGED stack, Reachable \subseteq Reachable' PROVE Fresh'
  BY <1>1 DEF Fresh
<1>2. ASSUME NEW S, NEW U, NEW V, Collect(S, U, V) PROVE Fresh'
  BY <1>2 DEF Collect, Fresh
<1>3. CASE UNCHANGED vars \/ Save \/ Pop
  BY <1>1, <1>3 DEF vars, Save, Pop, editVars, poolVars, Reachable, Shape, EditShape
<1>4. CASE Clear
  <2>1. CASE popped = None
    <3>1. UNCHANGED <<stack, current, pool>> /\ popped' = popped
      BY <1>4, <2>1 DEF Clear
    <3>2. QED BY <1>1, <3>1 DEF Reachable
  <2>2. QED BY <1>2, <1>4, <2>1 DEF Clear
<1>5. ASSUME NEW t \in Threads, ReplacePool(t) PROVE Fresh'
  <2>1. CASE current = None
    <3>1. UNCHANGED stack /\ popped' = popped /\ \A u \in Threads : pool'[u] = pool[u] \/ pool[u] = None
      BY <1>5, <2>1 DEF ReplacePool, editVars, Shape, ThreadShape
    <3>2. Reachable \subseteq Reachable'
      BY <2>1, <3>1 DEF Reachable
    <3>3. QED BY <1>1, <3>1, <3>2
  <2>2. QED BY <1>2, <1>5, <2>1 DEF ReplacePool
<1>6. ASSUME NEW t \in Threads, FindPool(t) PROVE Fresh'
  <2>1. UNCHANGED <<stack, current, popped>> /\ \A u \in Threads : pool'[u] = pool[u] \/ pool[u] = None
    BY <1>6 DEF FindPool, editVars, poolVars, Shape, ThreadShape
  <2>2. QED BY <1>1, <2>1 DEF Reachable
<1>7. ASSUME NEW t \in Threads, Acquire(t) \/ AcquireNothing(t) PROVE Fresh'
  <2>1. /\ UNCHANGED <<current, popped, pool>> /\ pool[t] \in Reachable
        /\ \A p \in Pools \ {pool[t]} : stack'[p] = stack[p]
    BY <1>7, NamesAssumption DEF Acquire, AcquireNothing, editVars, Reachable, Shape, ThreadShape, PoolShape, Stacks
  <2>2. QED BY <2>1 DEF Fresh, Reachable
<1>8. ASSUME NEW t \in Threads, LoadSource(t) \/ PingWorks(t) \/ PingFails(t) \/ Connect(t) \/ Register(t)
      PROVE  Fresh'
  BY <1>1, <1>8 DEF LoadSource, PingWorks, PingFails, Connect, Register, editVars, poolVars, Reachable
<1>9. ASSUME NEW t \in Threads, ConnectFails(t) \/ \E broken \in BOOLEAN : Release(t, broken)
      PROVE  Fresh'
  BY <1>2, <1>9 DEF ConnectFails, Release
<1>10. QED BY <1>3, <1>4, <1>5, <1>6, <1>7, <1>8, <1>9 DEF Next, Step

LEMMA CountedIsFinite ==
  ASSUME NEW p PROVE IsFiniteSet(Counted(p)) /\ Cardinality(Counted(p)) \in Nat
<1>1. Counted(p) \in SUBSET Threads
  BY DEF Counted
<1>2. QED BY <1>1, BoundsAssumption, FS_Subset, FS_CardinalityType

\* When a thread takes its place among the counted it is counted, and when
\* it leaves it was.
LEMMA CountUp ==
  ASSUME NEW p, NEW t, Counted(p)' = Counted(p) \cup {t}, inUse[p] \in Nat,
         inUse[p] >= Cardinality(Counted(p)), inUse'[p] = inUse[p] + 1
  PROVE  inUse'[p] >= Cardinality(Counted(p))'
<1>1. Cardinality(Counted(p) \cup {t}) = Cardinality(Counted(p)) + 1
      \/ Cardinality(Counted(p) \cup {t}) = Cardinality(Counted(p))
  BY CountedIsFinite, FS_AddElement
<1>2. Cardinality(Counted(p)') = Cardinality(Counted(p) \cup {t})
  OBVIOUS
<1>3. Cardinality(Counted(p)) \in Nat /\ Cardinality(Counted(p) \cup {t}) \in Nat
  BY CountedIsFinite, FS_AddElement, FS_CardinalityType
<1>4. QED BY <1>1, <1>2, <1>3

LEMMA CountDown ==
  ASSUME NEW p, NEW t \in Counted(p), Counted(p)' = Counted(p) \ {t}, inUse[p] \in Nat,
         inUse[p] >= Cardinality(Counted(p)),
         inUse'[p] = IF inUse[p] = 0 THEN 0 ELSE inUse[p] - 1
  PROVE  inUse'[p] >= Cardinality(Counted(p))'
<1>1. Cardinality(Counted(p) \ {t}) = Cardinality(Counted(p)) - 1
  BY CountedIsFinite, FS_RemoveElement
<1>2. Cardinality(Counted(p)') = Cardinality(Counted(p) \ {t})
  OBVIOUS
<1>3. Cardinality(Counted(p)) \in Nat /\ Cardinality(Counted(p) \ {t}) \in Nat
  BY CountedIsFinite, FS_RemoveElement, FS_CardinalityType
<1>4. QED BY <1>1, <1>2, <1>3

LEMMA CountSame ==
  ASSUME NEW p, Counted(p)' \subseteq Counted(p), inUse[p] \in Nat,
         inUse[p] >= Cardinality(Counted(p)), inUse'[p] = inUse[p]
  PROVE  inUse'[p] >= Cardinality(Counted(p))'
<1>1. Cardinality(Counted(p)') <= Cardinality(Counted(p)) /\ Cardinality(Counted(p)') \in Nat
  BY CountedIsFinite, FS_Subset, FS_CardinalityType
<1>2. Cardinality(Counted(p)) \in Nat
  BY CountedIsFinite
<1>3. QED BY <1>1, <1>2

\* A pool that is collected has no thread to count.
LEMMA CountGone ==
  ASSUME NEW p \in Pools, p \notin Reachable', inUse'[p] = 0
  PROVE  inUse'[p] >= Cardinality(Counted(p))'
<1>1. Counted(p)' = {}
  BY NamesAssumption DEF Counted, Reachable
<1>2. Cardinality(Counted(p)') = 0
  BY <1>1, FS_EmptySet
<1>3. QED BY <1>2

LEMMA CountStep == Shape /\ CountInv /\ [Next]_vars => CountInv'
<1> SUFFICES ASSUME Shape, CountInv, [Next]_vars, NEW p \in Pools
             PROVE  inUse'[p] >= Cardinality(Counted(p))'
  BY DEF CountInv
<1> USE DEF Goto
<1>t. /\ stack \in Stacks /\ inUse \in [Pools -> Nat]
      /\ version \in [Conns -> Versions \cup {None}]
      /\ pool \in [Threads -> Pools \cup {None}] /\ pc \in [Threads -> Pc]
  BY DEF Shape, PoolShape, ThreadShape
<1>i. inUse[p] \in Nat /\ inUse[p] >= Cardinality(Counted(p))
  BY <1>t DEF CountInv
<1>1. ASSUME UNCHANGED inUse, Counted(p)' \subseteq Counted(p)
      PROVE  inUse'[p] >= Cardinality(Counted(p))'
  BY <1>1, <1>i, CountSame
<1>2. ASSUME NEW S \in Stacks, NEW V \in [Conns -> Versions \cup {None}],
             Collect(S, inUse, V), Counted(p)' \subseteq Counted(p)
      PROVE  inUse'[p] >= Cardinality(Counted(p))'
  <2>1. IF p \in Reachable' THEN inUse'[p] = inUse[p] ELSE inUse'[p] = 0
    BY <1>t, <1>2, Collected
  <2>2. QED BY <1>i, <1>2, <2>1, CountSame, CountGone
<1>3. ASSUME UNCHANGED <<inUse, pool, pc>> PROVE inUse'[p] >= Cardinality(Counted(p))'
  BY <1>1, <1>3 DEF Counted
<1>4. CASE UNCHANGED vars \/ Save \/ Pop
  BY <1>3, <1>4 DEF vars, Save, Pop, poolVars
<1>5. CASE Clear
  <2>1. Counted(p)' = Counted(p)
    BY <1>5 DEF Clear, Counted
  <2>2. QED BY <1>1, <1>2, <1>5, <2>1, ClosedType, ClearedType DEF Clear
<1>6. ASSUME NEW t \in Threads, LoadSource(t) \/ FindPool(t) \/ PingFails(t) \/ AcquireNothing(t)
                                \/ Connect(t) \/ PingWorks(t)
      PROVE  inUse'[p] >= Cardinality(Counted(p))'
  <2>1. Counted(p)' \subseteq Counted(p)
    BY <1>t, <1>6 DEF LoadSource, FindPool, PingFails, AcquireNothing, Connect, PingWorks, Counted
  <2>2. UNCHANGED inUse
    BY <1>6 DEF LoadSource, FindPool, PingFails, AcquireNothing, Connect, PingWorks, poolVars
  <2>3. QED BY <1>1, <2>1, <2>2
<1>7. ASSUME NEW t \in Threads, ReplacePool(t) PROVE inUse'[p] >= Cardinality(Counted(p))'
  <2>1. Counted(p)' \subseteq Counted(p)
    BY <1>t, <1>7 DEF ReplacePool, Counted
  <2>2. QED BY <1>1, <1>2, <1>7, <2>1, ClosedType, ClearedType DEF ReplacePool
<1>8. ASSUME NEW t \in Threads, Acquire(t) \/ Register(t)
      PROVE  inUse'[p] >= Cardinality(Counted(p))'
  <2>1. /\ inUse' = [inUse EXCEPT ![pool[t]] = @ + 1] /\ pool' = pool
        /\ \E to \in {"ping", "using"} : pc' = [pc EXCEPT ![t] = to]
    BY <1>8 DEF Acquire, Register, Registered
  <2>2. CASE p = pool[t]
    <3>1. inUse'[p] = inUse[p] + 1
      BY <1>t, <2>1, <2>2
    <3>2. Counted(p)' = Counted(p) \cup {t}
      BY <1>t, <2>1, <2>2 DEF Counted
    <3>3. QED BY <1>i, <3>1, <3>2, CountUp
  <2>3. CASE p # pool[t]
    <3>1. Counted(p)' = Counted(p) /\ inUse'[p] = inUse[p]
      BY <1>t, <2>1, <2>3 DEF Counted
    <3>2. QED BY <1>i, <3>1, CountSame
  <2>4. QED BY <2>2, <2>3
<1>9. ASSUME NEW t \in Threads, ConnectFails(t) PROVE inUse'[p] >= Cardinality(Counted(p))'
  <2>1. Counted(p)' \subseteq Counted(p)
    BY <1>t, <1>9 DEF ConnectFails, Leave, Counted
  <2>2. QED BY <1>t, <1>2, <1>9, <2>1 DEF ConnectFails
<1>10. ASSUME NEW t \in Threads, NEW broken, Release(t, broken)
       PROVE  inUse'[p] >= Cardinality(Counted(p))'
  <2> DEFINE S == IF Kept(pool[t], broken) THEN [stack EXCEPT ![pool[t]] = Append(@, conn[t])] ELSE stack
             U == [inUse EXCEPT ![pool[t]] = IF @ = 0 THEN 0 ELSE @ - 1]
             V == IF broken \/ Full(pool[t]) THEN Closed({conn[t]}) ELSE version
  <2>1. Collect(S, U, V) /\ pc[t] = "using" /\ pc' = [pc EXCEPT ![t] = "idle"]
        /\ pool' = [pool EXCEPT ![t] = None]
    BY <1>10 DEF Release, Leave
  <2>2. S \in Stacks /\ U \in [Pools -> Nat] /\ V \in [Conns -> Versions \cup {None}]
    BY <2>1, ReleaseType
  <2>3. U[p] = IF p # pool[t] THEN inUse[p] ELSE IF inUse[p] = 0 THEN 0 ELSE inUse[p] - 1
    BY <1>t
  <2> HIDE DEF S, U, V
  <2>4. IF p \in Reachable' THEN inUse'[p] = U[p] ELSE inUse'[p] = 0
    BY <2>1, <2>2, Collected
  <2>5. CASE p \notin Reachable'
    BY <2>4, <2>5, CountGone
  <2>6. CASE p \in Reachable' /\ p # pool[t]
    <3>1. Counted(p)' \subseteq Counted(p)
      BY <1>t, <2>1 DEF Counted
    <3>2. QED BY <1>i, <2>3, <2>4, <2>6, <3>1, CountSame
  <2>7. CASE p \in Reachable' /\ p = pool[t]
    <3>1. t \in Counted(p) /\ Counted(p)' = Counted(p) \ {t}
      BY <1>t, <2>1, <2>7, NamesAssumption DEF Counted
    <3>2. QED BY <1>i, <2>3, <2>4, <2>7, <3>1, CountDown
  <2>8. QED BY <2>5, <2>6, <2>7
<1>11. QED
  BY <1>4, <1>5, <1>6, <1>7, <1>8, <1>9, <1>10 DEF Next, Step

-----------------------------------------------------------------------------
(* What a pool connects to.                                                *)

\* The same of what a step hands to Collect.
PoolsAgree(S, V) ==
  \A p \in Pools : \E f :
    /\ \A t \in Threads : pool'[t] = p => Fingerprint[source'[t]] = f
    /\ \A c \in In(S[p]) : Fingerprint[V[c]] = f
    /\ p = current' => f = fingerprint'
HeldAgree(V) ==
  \A t \in Threads : conn'[t] # None => Fingerprint[V[conn'[t]]] = Fingerprint[source'[t]]

\* Collecting pools changes no version of a connection that is left.
LEMMA CollectTarget ==
  ASSUME NEW S \in Stacks, NEW U \in [Pools -> Nat],
         NEW V \in [Conns -> Versions \cup {None}], Collect(S, U, V),
         conn' \in [Threads -> Conns \cup {None}], Apart(S, conn'),
         PoolsAgree(S, V), HeldAgree(V)
  PROVE  (OneTarget /\ HeldTarget)'
<1>1. /\ \A p \in Pools : IF p \in Reachable' THEN stack'[p] = S[p] ELSE stack'[p] = <<>>
      /\ \A c \in Conns : \/ version'[c] = V[c]
                          \/ \E p \in Pools \ Reachable' : c \in In(S[p])
  BY Collected
<1>2. ASSUME NEW p \in Pools, NEW c \in In(stack'[p])
      PROVE  c \in In(S[p]) /\ version'[c] = V[c]
  <2>1. p \in Reachable' /\ stack'[p] = S[p]
    BY <1>1, <1>2, Emptied
  <2>2. \A q \in Pools \ Reachable' : c \notin In(S[q])
    BY <1>2, <2>1 DEF Apart
  <2>3. QED BY <1>1, <1>2, <2>1, <2>2, IdleAreConns
<1>3. ASSUME NEW p \in Pools PROVE \E f : Serves(p, f)'
  <2>1. PICK f : /\ \A t \in Threads : pool'[t] = p => Fingerprint[source'[t]] = f
                 /\ \A c \in In(S[p]) : Fingerprint[V[c]] = f
                 /\ p = current' => f = fingerprint'
    BY DEF PoolsAgree
  <2>2. Serves(p, f)'
    BY <1>2, <2>1 DEF Serves, Idle
  <2>3. QED BY <2>2
<1>4. HeldTarget'
  BY <1>1 DEF HeldTarget, HeldAgree, Apart
<1>5. QED BY <1>3, <1>4 DEF OneTarget

LEMMA TargetStep ==
  Shape /\ Owned /\ Fresh /\ OneTarget /\ HeldTarget /\ [Next]_vars => (OneTarget /\ HeldTarget)'
<1> SUFFICES ASSUME Shape, Owned, Fresh, OneTarget, HeldTarget, [Next]_vars
             PROVE  (OneTarget /\ HeldTarget)'
  OBVIOUS
<1> USE DEF Goto
<1>t. /\ stack \in Stacks /\ inUse \in [Pools -> Nat]
      /\ version \in [Conns -> Versions \cup {None}]
      /\ pool \in [Threads -> Pools \cup {None}] /\ pc \in [Threads -> Pc]
      /\ source \in [Threads -> Versions \cup {None}]
      /\ conn \in [Threads -> Conns \cup {None}] /\ conn' \in [Threads -> Conns \cup {None}]
  BY ThreadShapeStep DEF Shape, PoolShape, ThreadShape
<1>i. \A p \in Pools : Idle(p) \subseteq Conns
  BY <1>t, IdleAreConns DEF Idle
\* A step that gives no thread, connection or entry to a pool.
<1>1. ASSUME \A t \in Threads : /\ pool'[t] \in {pool[t], None}
                                /\ pool'[t] # None => source'[t] = source[t],
             \A p \in Pools : In(stack'[p]) \subseteq Idle(p),
             \A p \in Pools : \A c \in In(stack'[p]) : version'[c] = version[c],
             current' = None \/ UNCHANGED <<current, fingerprint>>
      PROVE  OneTarget'
  <2>1. ASSUME NEW p \in Pools, NEW f, Serves(p, f) PROVE Serves(p, f)'
    BY <1>1, <2>1, NamesAssumption DEF Serves, Idle
  <2>2. QED BY <2>1 DEF OneTarget
<1>2. ASSUME NEW t \in Threads, LoadSource(t) PROVE (OneTarget /\ HeldTarget)'
  <2>1. pool[t] = None /\ conn[t] = None
    BY <1>2 DEF LoadSource, Shape, ThreadShape
  <2>2. \A u \in Threads : u # t => source'[u] = source[u]
    BY <1>t, <1>2 DEF LoadSource
  <2>3. OneTarget'
    BY <1>1, <1>2, <2>1, <2>2 DEF LoadSource, poolVars, Idle
  <2>4. HeldTarget'
    BY <1>2, <2>1, <2>2 DEF LoadSource, HeldTarget
  <2>5. QED BY <2>3, <2>4
<1>3. ASSUME NEW t \in Threads, FindPool(t) PROVE (OneTarget /\ HeldTarget)'
  <2>1. /\ UNCHANGED <<stack, version, source, conn, current, fingerprint>>
        /\ pool' = [pool EXCEPT ![t] = current] /\ fingerprint = Fingerprint[source[t]]
    BY <1>3 DEF FindPool, Fits, poolVars
  <2>2. ASSUME NEW p \in Pools, NEW f, Serves(p, f) PROVE Serves(p, f)'
    BY <1>t, <2>1, <2>2 DEF Serves, Idle
  <2>3. QED BY <2>1, <2>2 DEF OneTarget, HeldTarget
<1>4. ASSUME NEW t \in Threads, ReplacePool(t) PROVE (OneTarget /\ HeldTarget)'
  <2>1. PICK p \in Pools \ Reachable : /\ current' = p /\ fingerprint' = Fingerprint[source[t]]
                                       /\ pool' = [pool EXCEPT ![t] = p]
    BY <1>4 DEF ReplacePool
  <2>2. UNCHANGED <<source, conn>> /\ stack[p] = <<>> /\ p # current
        /\ \A u \in Threads : pool[u] # p
    BY <1>4, <2>1, NamesAssumption DEF ReplacePool, Fresh, Reachable
  <2>3. ASSUME NEW q \in Pools
        PROVE  \E f : /\ \A u \in Threads : pool'[u] = q => Fingerprint[source'[u]] = f
                      /\ q # p => \A c \in Idle(q) : Fingerprint[version[c]] = f
                      /\ q = current' => f = fingerprint'
    <3>1. CASE q = p
      BY <1>t, <2>1, <2>2, <3>1
    <3>2. CASE q # p
      <4>1. PICK f : Serves(q, f)
        BY DEF OneTarget
      <4>2. QED BY <1>t, <2>1, <2>2, <3>2, <4>1 DEF Serves
    <3>3. QED BY <3>1, <3>2
  <2>4. CASE current = None
    <3>1. UNCHANGED <<stack, version>>
      BY <1>4, <2>4 DEF ReplacePool
    <3>2. ASSUME NEW q \in Pools PROVE \E f : Serves(q, f)'
      <4>1. PICK f : /\ \A u \in Threads : pool'[u] = q => Fingerprint[source'[u]] = f
                     /\ q # p => \A c \in Idle(q) : Fingerprint[version[c]] = f
                     /\ q = current' => f = fingerprint'
        BY <2>3
      <4>2. Serves(q, f)'
        BY <2>2, <3>1, <4>1, Emptied DEF Serves, Idle
      <4>3. QED BY <4>2
    <3>3. QED BY <2>2, <3>1, <3>2 DEF OneTarget, HeldTarget
  <2>5. CASE current # None
    <3> DEFINE S == [stack EXCEPT ![current] = <<>>]
               V == Closed(Idle(current))
    <3>1. Collect(S, inUse, V) /\ S \in Stacks /\ V \in [Conns -> Versions \cup {None}]
          /\ current \in Pools
      BY <1>4, <2>5, ClosedType, ClearedType DEF ReplacePool, Shape, EditShape
    <3>2. Apart(S, conn')
      BY <2>2, <3>1, ClearOwned DEF Owned
    <3>3. /\ S[p] = <<>> /\ \A q \in Pools : In(S[q]) \subseteq Idle(q)
          /\ \A q \in Pools : q # current => S[q] = stack[q]
          /\ In(S[current]) = {}
      BY <1>t, <2>1, <2>2, <3>1, Emptied DEF Stacks, Idle
    <3>4. \A q \in Pools : \A c \in In(S[q]) : V[c] = version[c]
      BY <1>i, <3>1, <3>3 DEF Closed, Owned, Apart, Idle
    <3>5. \A u \in Threads : conn'[u] # None => Fingerprint[V[conn'[u]]] = Fingerprint[source'[u]]
      BY <1>t, <2>2, <3>1 DEF Closed, Owned, Apart, Idle, HeldTarget
    <3> HIDE DEF S, V
    <3>6. ASSUME NEW q \in Pools
          PROVE  \E f : /\ \A u \in Threads : pool'[u] = q => Fingerprint[source'[u]] = f
                        /\ \A c \in In(S[q]) : Fingerprint[V[c]] = f
                        /\ q = current' => f = fingerprint'
      <4>1. PICK f : /\ \A u \in Threads : pool'[u] = q => Fingerprint[source'[u]] = f
                     /\ q # p => \A c \in Idle(q) : Fingerprint[version[c]] = f
                     /\ q = current' => f = fingerprint'
        BY <2>3
      <4>2. \A c \in In(S[q]) : Fingerprint[V[c]] = f
        BY <3>3, <3>4, <4>1, Emptied
      <4>3. QED BY <4>1, <4>2
    <3>7. PoolsAgree(S, V) /\ HeldAgree(V)
      BY <3>5, <3>6 DEF PoolsAgree, HeldAgree
    <3>8. QED BY <1>t, <3>1, <3>2, <3>7, CollectTarget
  <2>6. QED BY <2>4, <2>5
<1>5. ASSUME NEW t \in Threads, Acquire(t) PROVE (OneTarget /\ HeldTarget)'
  <2> DEFINE p == pool[t]
             c == TopOf(stack[p])
  <2>1. /\ p \in Pools /\ stack[p] \in Seq(Conns) /\ stack[p] # <<>>
        /\ stack' = [stack EXCEPT ![p] = PopOf(stack[p])]
        /\ conn' = [conn EXCEPT ![t] = c] /\ UNCHANGED <<version, pool, source, current, fingerprint>>
    BY <1>5 DEF Acquire, Popped, Shape, ThreadShape, PoolShape, Stacks
  <2>2. c \in Idle(p) /\ In(PopOf(stack[p])) \subseteq Idle(p)
    BY <2>1, TopAndRest DEF Idle
  <2>3. \A q \in Pools : In(stack'[q]) \subseteq Idle(q)
    BY <1>t, <2>1, <2>2 DEF Stacks, Idle
  <2>4. OneTarget'
    BY <1>1, <2>1, <2>3
  <2>5. Fingerprint[version[c]] = Fingerprint[source[t]]
    BY <2>1, <2>2 DEF OneTarget, Serves
  <2>6. conn'[t] = c /\ \A u \in Threads \ {t} : conn'[u] = conn[u]
    BY <1>t, <2>1
  <2>7. HeldTarget'
    BY <2>1, <2>5, <2>6 DEF HeldTarget
  <2>8. QED BY <2>4, <2>7
<1>6. ASSUME NEW t \in Threads, AcquireNothing(t) PROVE (OneTarget /\ HeldTarget)'
  <2> DEFINE p == pool[t]
  <2>1. /\ p \in Pools /\ stack' = [stack EXCEPT ![p] = <<>>] /\ version' = Closed(Idle(p))
        /\ UNCHANGED <<conn, pool, source, current, fingerprint>>
    BY <1>6 DEF AcquireNothing, Shape, ThreadShape
  <2>2. In(stack'[p]) = {} /\ \A q \in Pools \ {p} : stack'[q] = stack[q]
    BY <1>t, <2>1, Emptied DEF Stacks
  <2>3. \A q \in Pools : In(stack'[q]) \subseteq Idle(q)
    BY <2>2 DEF Idle
  <2>4. \A q \in Pools : \A c \in In(stack'[q]) : version'[c] = version[c]
    BY <1>i, <2>1, <2>2 DEF Closed, Owned, Apart, Idle
  <2>5. OneTarget'
    BY <1>1, <2>1, <2>3, <2>4
  <2>6. HeldTarget'
    BY <1>t, <2>1 DEF Closed, Owned, Apart, Idle, HeldTarget
  <2>7. QED BY <2>5, <2>6
<1>7. ASSUME NEW t \in Threads, PingFails(t) PROVE (OneTarget /\ HeldTarget)'
  <2>1. /\ version' = Closed({conn[t]}) /\ conn'[t] = None
        /\ \A u \in Threads \ {t} : conn'[u] = conn[u]
        /\ UNCHANGED <<stack, pool, source, current, fingerprint>>
    BY <1>t, <1>7 DEF PingFails, poolVars
  <2>2. \A q \in Pools : \A c \in In(stack'[q]) : version'[c] = version[c]
    BY <1>i, <2>1 DEF Closed, Owned, Apart, Idle
  <2>3. OneTarget'
    BY <1>1, <2>1, <2>2 DEF Idle
  <2>4. HeldTarget'
    BY <1>t, <2>1 DEF Closed, Owned, Apart, HeldTarget
  <2>5. QED BY <2>3, <2>4
<1>8. ASSUME NEW t \in Threads, Connect(t) PROVE (OneTarget /\ HeldTarget)'
  <2>1. PICK c \in Conns \ Opened : conn' = [conn EXCEPT ![t] = c]
                                    /\ version' = [version EXCEPT ![c] = source[t]]
    BY <1>8 DEF Connect
  <2>2. UNCHANGED <<stack, pool, source, current, fingerprint>> /\ version[c] = None
    BY <1>8, <2>1 DEF Connect, poolVars, Opened
  <2>3. \A q \in Pools : \A d \in In(stack'[q]) : version'[d] = version[d]
    BY <1>i, <1>t, <2>1, <2>2 DEF Owned, Open, Idle
  <2>4. OneTarget'
    BY <1>1, <2>2, <2>3 DEF Idle
  <2>5. HeldTarget'
    BY <1>t, <2>1, <2>2 DEF Owned, Open, HeldTarget
  <2>6. QED BY <2>4, <2>5
<1>9. ASSUME NEW t \in Threads, PingWorks(t) \/ Register(t) PROVE (OneTarget /\ HeldTarget)'
  BY <1>1, <1>9 DEF PingWorks, Register, poolVars, Idle, HeldTarget
<1>10. CASE UNCHANGED vars \/ Save \/ Pop
  BY <1>1, <1>10 DEF vars, Save, Pop, poolVars, Idle, HeldTarget
<1>11. ASSUME NEW t \in Threads, ConnectFails(t) PROVE (OneTarget /\ HeldTarget)'
  <2>1. Collect(stack, inUse, version) /\ UNCHANGED <<current, fingerprint>> /\ Leave(t)
    BY <1>11 DEF ConnectFails
  <2>2. /\ conn'[t] = None /\ pool'[t] = None
        /\ \A u \in Threads \ {t} : conn'[u] = conn[u] /\ pool'[u] = pool[u] /\ source'[u] = source[u]
    BY <1>t, <2>1 DEF Leave
  <2>3. Apart(stack, conn')
    BY <2>2, LetGo DEF Owned
  <2>4. ASSUME NEW p \in Pools
        PROVE  \E f : /\ \A u \in Threads : pool'[u] = p => Fingerprint[source'[u]] = f
                      /\ \A c \in In(stack[p]) : Fingerprint[version[c]] = f
                      /\ p = current' => f = fingerprint'
    <3>1. PICK f : Serves(p, f)
      BY DEF OneTarget
    <3>2. QED BY <2>1, <2>2, <3>1, NamesAssumption DEF Serves, Idle
  <2>5. \A u \in Threads : conn'[u] # None => Fingerprint[version[conn'[u]]] = Fingerprint[source'[u]]
    BY <2>2 DEF HeldTarget
  <2>6. PoolsAgree(stack, version) /\ HeldAgree(version)
    BY <2>4, <2>5 DEF PoolsAgree, HeldAgree
  <2>7. QED BY <1>t, <2>1, <2>3, <2>6, CollectTarget
<1>12. ASSUME NEW t \in Threads, NEW broken, Release(t, broken) PROVE (OneTarget /\ HeldTarget)'
  <2> DEFINE p == pool[t]
             S == IF Kept(p, broken) THEN [stack EXCEPT ![p] = Append(@, conn[t])] ELSE stack
             U == [inUse EXCEPT ![p] = IF @ = 0 THEN 0 ELSE @ - 1]
             V == IF broken \/ Full(p) THEN Closed({conn[t]}) ELSE version
  <2>1. /\ Collect(S, U, V) /\ pc[t] = "using" /\ UNCHANGED <<current, fingerprint>> /\ Leave(t)
    BY <1>12 DEF Release
  <2>2. /\ S \in Stacks /\ U \in [Pools -> Nat] /\ V \in [Conns -> Versions \cup {None}]
        /\ p \in Pools /\ conn[t] \in Conns /\ conn[t] # None
    BY <2>1, ReleaseType, NamesAssumption
  <2>3. /\ conn'[t] = None /\ pool'[t] = None
        /\ \A u \in Threads \ {t} : conn'[u] = conn[u] /\ pool'[u] = pool[u] /\ source'[u] = source[u]
    BY <1>t, <2>1 DEF Leave
  <2>4. \/ S = stack /\ V \in {version, Closed({conn[t]})}
        \/ /\ S[p] = Append(stack[p], conn[t]) /\ V = version
           /\ \A q \in Pools \ {p} : S[q] = stack[q]
    <3>1. CASE Kept(p, broken)
      <4>1. stack \in [Pools -> Seq(Conns)] /\ V = version
        BY <1>t, <3>1 DEF Kept, Stacks
      <4>2. QED BY <2>2, <3>1, <4>1
    <3>2. CASE ~Kept(p, broken)
      BY <3>2
    <3>3. QED BY <3>1, <3>2
  <2>5. In(Append(stack[p], conn[t])) = Idle(p) \cup {conn[t]}
    BY <1>t, <2>2, Returned DEF Stacks, Idle
  <2> HIDE DEF S, U, V
  <2>6. Apart(S, conn')
    BY <2>1, <2>3, <2>4, ReleaseOwned
  <2>7. ASSUME NEW q \in Pools, NEW c \in In(S[q])
        PROVE  \/ c \in Idle(q) /\ V[c] = version[c]
               \/ c = conn[t] /\ q = p /\ V[c] = version[c]
    <3>1. CASE S = stack /\ V \in {version, Closed({conn[t]})}
      <4>1. c \in Idle(q) /\ c \in Conns /\ c # conn[t]
        BY <1>i, <2>7, <3>1 DEF Owned, Apart, Idle
      <4>2. QED BY <3>1, <4>1 DEF Closed
    <3>2. CASE /\ S[p] = Append(stack[p], conn[t]) /\ V = version
               /\ \A r \in Pools \ {p} : S[r] = stack[r]
      BY <2>5, <2>7, <3>2 DEF Idle
    <3>3. QED BY <2>4, <3>1, <3>2
  <2>8. ASSUME NEW q \in Pools
        PROVE  \E f : /\ \A u \in Threads : pool'[u] = q => Fingerprint[source'[u]] = f
                      /\ \A c \in In(S[q]) : Fingerprint[V[c]] = f
                      /\ q = current' => f = fingerprint'
    <3>1. PICK f : Serves(q, f)
      BY DEF OneTarget
    <3>2. \A c \in In(S[q]) : Fingerprint[V[c]] = f
      BY <2>2, <2>7, <3>1 DEF Serves, HeldTarget
    <3>3. QED BY <2>1, <2>3, <3>1, <3>2, NamesAssumption DEF Serves
  <2>9. \A u \in Threads : conn'[u] # None => Fingerprint[V[conn'[u]]] = Fingerprint[source'[u]]
    BY <1>t, <2>3, <2>4 DEF HeldTarget, Closed, Owned, Apart
  <2>10. PoolsAgree(S, V) /\ HeldAgree(V)
    BY <2>8, <2>9 DEF PoolsAgree, HeldAgree
  <2>11. QED BY <1>t, <2>1, <2>2, <2>6, <2>10, CollectTarget
<1>13. CASE Clear
  <2>1. UNCHANGED <<conn, pool, source, current, fingerprint>>
    BY <1>13 DEF Clear
  <2>2. CASE popped = None
    BY <1>1, <1>13, <2>1, <2>2 DEF Clear, Idle, HeldTarget
  <2>3. CASE popped # None
    <3> DEFINE S == [stack EXCEPT ![popped] = <<>>]
               V == Closed(Idle(popped))
    <3>1. Collect(S, inUse, V) /\ S \in Stacks /\ V \in [Conns -> Versions \cup {None}]
          /\ popped \in Pools
      BY <1>13, <2>3, ClosedType, ClearedType DEF Clear, Shape, EditShape
    <3>2. Apart(S, conn')
      BY <2>1, <3>1, ClearOwned DEF Owned
    <3>3. In(S[popped]) = {} /\ \A q \in Pools : q # popped => S[q] = stack[q]
      BY <1>t, <3>1, Emptied DEF Stacks
    <3>4. \A q \in Pools : \A c \in In(S[q]) : c \in Idle(q) /\ V[c] = version[c]
      BY <1>i, <3>1, <3>3 DEF Closed, Owned, Apart, Idle
    <3>5. \A u \in Threads : conn'[u] # None => Fingerprint[V[conn'[u]]] = Fingerprint[source'[u]]
      BY <1>t, <2>1, <3>1 DEF Closed, Owned, Apart, Idle, HeldTarget
    <3> HIDE DEF S, V
    <3>6. ASSUME NEW q \in Pools
          PROVE  \E f : /\ \A u \in Threads : pool'[u] = q => Fingerprint[source'[u]] = f
                        /\ \A c \in In(S[q]) : Fingerprint[V[c]] = f
                        /\ q = current' => f = fingerprint'
      BY <2>1, <3>4 DEF OneTarget, Serves
    <3>7. PoolsAgree(S, V) /\ HeldAgree(V)
      BY <3>5, <3>6 DEF PoolsAgree, HeldAgree
    <3>8. QED BY <1>t, <3>1, <3>2, <3>7, CollectTarget
  <2>4. QED BY <2>2, <2>3
<1>14. QED
  BY <1>2, <1>3, <1>4, <1>5, <1>6, <1>7, <1>8, <1>9, <1>10, <1>11, <1>12, <1>13 DEF Next, Step

-----------------------------------------------------------------------------
(* The settings a connection was opened with, while no edit overlaps.      *)

\* Collecting pools gives nobody a connection.
LEMMA CollectLent ==
  ASSUME NEW S \in Stacks, NEW U \in [Pools -> Nat],
         NEW V \in [Conns -> Versions \cup {None}], Collect(S, U, V)
  PROVE  /\ \A p \in Pools : Idle(p)' \subseteq In(S[p])
         /\ \A c \in Conns : version'[c] \in {V[c], None}
<1>1. \A p \in Pools : stack'[p] \in {S[p], <<>>}
  BY Collected
<1>2. \A p \in Pools : Idle(p)' \subseteq In(S[p])
  BY <1>1, Emptied DEF Idle
<1>3. \A c \in Conns : version'[c] \in {V[c], None}
  BY DEF Collect
<1>4. QED BY <1>2, <1>3

\* A step of a thread, other than opening a connection, gives nobody a new one
\* and opens none: what pools and threads have then they had before.
LEMMA NothingNew ==
  ASSUME Shape, Owned', NEW t \in Threads, Step(t), ~Connect(t)
  PROVE  \A c \in Lent' : c \in Lent /\ version'[c] = version[c]
<1>t. /\ stack \in Stacks /\ inUse \in [Pools -> Nat]
      /\ version \in [Conns -> Versions \cup {None}]
      /\ pool \in [Threads -> Pools \cup {None}] /\ conn \in [Threads -> Conns \cup {None}]
  BY DEF Shape, PoolShape, ThreadShape
<1>1. \A c \in Lent' : c \in Conns /\ version'[c] # None
  BY NamesAssumption DEF Lent, Owned, Open, Idle
<1> DEFINE Only == /\ \A c \in Conns : version'[c] \in {version[c], None}
                   /\ \A p \in Pools : Idle(p)' \subseteq Lent
                   /\ \A u \in Threads : conn'[u] \in Lent \cup {None}
<1>2. ASSUME Only PROVE \A c \in Lent' : c \in Lent /\ version'[c] = version[c]
  <2>1. Lent' \subseteq Lent
    BY <1>2, NamesAssumption DEF Lent
  <2>2. QED BY <1>1, <1>2, <2>1
<1> SUFFICES Only
  BY <1>2
<1>3. /\ \A p \in Pools : Idle(p) \subseteq Lent
      /\ \A u \in Threads : conn[u] \in Lent \cup {None}
  BY <1>t, IdleAreConns DEF Lent, Idle
<1>4. \A C : \A c \in Conns : Closed(C)[c] \in {version[c], None}
  BY DEF Closed
<1>5. \A p, q \in Pools : In([stack EXCEPT ![p] = <<>>][q]) \subseteq Lent
  BY <1>t, <1>3, Emptied DEF Stacks, Idle
<1>6. ASSUME NEW p \in Pools, Collect([stack EXCEPT ![p] = <<>>], inUse, Closed(Idle(p))),
             UNCHANGED conn
      PROVE  Only
  <2> DEFINE S == [stack EXCEPT ![p] = <<>>]
             V == Closed(Idle(p))
  <2>1. S \in Stacks /\ V \in [Conns -> Versions \cup {None}]
    BY ClosedType, ClearedType
  <2>2. (\A q \in Pools : In(S[q]) \subseteq Lent) /\ \A c \in Conns : V[c] \in {version[c], None}
    BY <1>4, <1>5
  <2>3. Collect(S, inUse, V)
    BY <1>6
  <2> HIDE DEF S, V
  <2>4. (\A q \in Pools : Idle(q)' \subseteq Lent) /\ \A c \in Conns : version'[c] \in {version[c], None}
    BY <1>t, <2>1, <2>2, <2>3, CollectLent
  <2>5. QED BY <1>3, <1>6, <2>4
<1>7. CASE LoadSource(t) \/ FindPool(t) \/ PingWorks(t) \/ Register(t)
  BY <1>3, <1>7 DEF LoadSource, FindPool, PingWorks, Register, poolVars, Idle
<1>8. CASE ReplacePool(t)
  <2>1. CASE current = None
    BY <1>3, <1>8, <2>1 DEF ReplacePool, Idle
  <2>2. CASE current # None
    BY <1>6, <1>8, <2>2 DEF ReplacePool, Shape, EditShape
  <2>3. QED BY <2>1, <2>2
<1>9. CASE Acquire(t)
  <2> DEFINE p == pool[t]
  <2>1. /\ p \in Pools /\ stack[p] \in Seq(Conns) /\ stack[p] # <<>>
        /\ stack' = [stack EXCEPT ![p] = PopOf(stack[p])] /\ UNCHANGED version
        /\ conn' = [conn EXCEPT ![t] = TopOf(stack[p])]
    BY <1>9 DEF Acquire, Popped, Shape, ThreadShape, PoolShape, Stacks
  <2>2. TopOf(stack[p]) \in Idle(p) /\ In(PopOf(stack[p])) \subseteq Idle(p)
    BY <2>1, TopAndRest DEF Idle
  <2>3. \A q \in Pools : Idle(q)' \subseteq Idle(q)
    BY <1>t, <2>1, <2>2 DEF Stacks, Idle
  <2>4. \A u \in Threads : conn'[u] \in Lent \cup {None}
    BY <1>t, <1>3, <2>1, <2>2
  <2>5. QED BY <1>3, <2>1, <2>3, <2>4
<1>10. CASE AcquireNothing(t)
  <2>1. /\ pool[t] \in Pools /\ stack' = [stack EXCEPT ![pool[t]] = <<>>] /\ UNCHANGED conn
        /\ version' = Closed(Idle(pool[t]))
    BY <1>10 DEF AcquireNothing, Shape, ThreadShape
  <2>2. QED BY <1>3, <1>4, <1>5, <2>1 DEF Idle
<1>11. CASE PingFails(t)
  <2>1. /\ version' = Closed({conn[t]}) /\ UNCHANGED stack
        /\ conn' = [conn EXCEPT ![t] = None]
    BY <1>11 DEF PingFails, poolVars
  <2>2. QED BY <1>t, <1>3, <1>4, <2>1 DEF Idle
<1>12. CASE ConnectFails(t)
  <2>1. Collect(stack, inUse, version) /\ conn' = [conn EXCEPT ![t] = None]
    BY <1>12 DEF ConnectFails, Leave
  <2>2. (\A p \in Pools : Idle(p)' \subseteq Lent) /\ \A c \in Conns : version'[c] \in {version[c], None}
    BY <1>t, <1>3, <2>1, CollectLent DEF Idle
  <2>3. \A u \in Threads : conn'[u] \in Lent \cup {None}
    BY <1>t, <1>3, <2>1
  <2>4. QED BY <2>2, <2>3
<1>13. ASSUME NEW broken, Release(t, broken) PROVE Only
  <2> DEFINE p == pool[t]
             S == IF Kept(p, broken) THEN [stack EXCEPT ![p] = Append(@, conn[t])] ELSE stack
             U == [inUse EXCEPT ![p] = IF @ = 0 THEN 0 ELSE @ - 1]
             V == IF broken \/ Full(p) THEN Closed({conn[t]}) ELSE version
  <2>1. Collect(S, U, V) /\ pc[t] = "using" /\ conn' = [conn EXCEPT ![t] = None]
    BY <1>13 DEF Release, Leave
  <2>2. /\ S \in Stacks /\ U \in [Pools -> Nat] /\ V \in [Conns -> Versions \cup {None}]
        /\ p \in Pools /\ conn[t] \in Conns /\ conn[t] # None
    BY <2>1, ReleaseType, NamesAssumption
  <2>3. In(Append(stack[p], conn[t])) = Idle(p) \cup {conn[t]}
    BY <1>t, <2>2, Returned DEF Stacks, Idle
  <2>4. \A q \in Pools : In(S[q]) \subseteq Lent
    <3>1. \A q \in Pools : S[q] = stack[q] \/ (q = p /\ S[q] = Append(stack[p], conn[t]))
      <4>1. stack \in [Pools -> Seq(Conns)]
        BY <1>t DEF Stacks
      <4>2. QED BY <2>2, <4>1
    <3> HIDE DEF S
    <3>2. ASSUME NEW q \in Pools PROVE In(S[q]) \subseteq Lent
      <4>1. CASE S[q] = stack[q]
        BY <1>3, <4>1 DEF Idle
      <4>2. CASE q = p /\ S[q] = Append(stack[p], conn[t])
        BY <1>3, <2>2, <2>3, <4>2
      <4>3. QED BY <3>1, <4>1, <4>2
    <3>3. QED BY <3>2
  <2>5. \A c \in Conns : V[c] \in {version[c], None}
    BY <1>4
  <2> HIDE DEF S, U, V
  <2>6. (\A q \in Pools : Idle(q)' \subseteq Lent) /\ \A c \in Conns : version'[c] \in {version[c], None}
    BY <2>1, <2>2, <2>4, <2>5, CollectLent
  <2>7. \A u \in Threads : conn'[u] \in Lent \cup {None}
    BY <1>t, <1>3, <2>1
  <2>8. QED BY <2>6, <2>7
<1>14. QED
  BY <1>7, <1>8, <1>9, <1>10, <1>11, <1>12, <1>13 DEF Step

LEMMA UpToDateStep ==
  Shape /\ Owned /\ Fresh /\ UpToDate /\ [Next]_vars => UpToDate'
<1> SUFFICES ASSUME Shape, Owned, Fresh, UpToDate, [Next]_vars, ~overlapped' PROVE UpToDate'
  BY DEF UpToDate
<1>t. /\ source \in [Threads -> Versions \cup {None}] /\ conn \in [Threads -> Conns \cup {None}]
      /\ overlapped \in BOOLEAN /\ epc \in {"idle", "saved", "popped"}
      /\ version \in [Conns -> Versions \cup {None}] /\ stack \in Stacks
      /\ pool \in [Threads -> Pools \cup {None}]
      /\ \A t \in Threads : /\ source[t] = None <=> pc[t] = "idle"
                            /\ pc[t] = "idle" => conn[t] = None /\ pool[t] = None
  BY DEF Shape, EditShape, PoolShape, ThreadShape
<1>o. Owned' /\ Shape'
  BY OwnedStep, ShapeStep
<1>1. CASE UNCHANGED vars
  BY <1>1 DEF vars, editVars, poolVars, UpToDate, Lent, Idle
<1>2. CASE Save
  BY <1>t, <1>2 DEF Save, poolVars, UpToDate
<1>3. CASE Pop
  BY <1>3 DEF Pop, UpToDate
<1>4. CASE Clear
  <2>1. /\ ~overlapped /\ epc = "popped" /\ current = None /\ UNCHANGED <<stored, overlapped, source, pool, conn, pc, current>>
        /\ \A t \in Threads : pc[t] = "idle"
        /\ epc' = "idle" /\ popped' = None
    BY <1>4 DEF Clear, UpToDate
  <2>2. \A t \in Threads : conn'[t] = None /\ pool'[t] = None /\ source'[t] = None
    BY <1>t, <2>1
  <2>3. Reachable' = {}
    BY <2>1, <2>2 DEF Reachable
  <2>4. \A p \in Pools : stack'[p] = <<>>
    <3>1. CASE popped = None
      <4>1. Reachable = {} /\ UNCHANGED stack
        BY <1>4, <2>1, <2>3, <3>1 DEF Clear, Reachable
      <4>2. QED BY <4>1 DEF Fresh
    <3>2. CASE popped # None
      BY <1>4, <2>3, <3>2 DEF Clear, Collect
    <3>3. QED BY <3>1, <3>2
  <2>5. Lent' = {}
    BY <2>2, <2>4, Emptied, NamesAssumption DEF Lent, Idle
  <2>6. QED BY <2>1, <2>2, <2>5 DEF UpToDate
<1>5. ASSUME NEW t \in Threads, Step(t) PROVE UpToDate'
  <2>1. CASE LoadSource(t)
    <3>1. /\ ~overlapped /\ epc = "idle" /\ UNCHANGED <<stored, epc>>
          /\ source' = [source EXCEPT ![t] = stored]
      BY <1>t, <2>1 DEF LoadSource
    <3>2. ~Connect(t)
      BY <2>1 DEF LoadSource, Connect
    <3>3. \A c \in Lent' : c \in Lent /\ version'[c] = version[c]
      BY <1>5, <1>o, <3>2, NothingNew
    <3>4. QED BY <1>t, <3>1, <3>3 DEF UpToDate
  <2>2. CASE ~LoadSource(t)
    <3>1. /\ UNCHANGED <<stored, epc, overlapped>> /\ pc[t] # "idle"
          /\ \A u \in Threads : source'[u] \in {source[u], None}
      BY <1>t, <1>5, <2>2 DEF Step, FindPool, ReplacePool, Acquire, AcquireNothing, PingWorks,
        PingFails, Connect, ConnectFails, Register, Release, Leave, editVars
    <3>2. ~overlapped /\ epc = "idle" /\ epc' = "idle"
      BY <3>1 DEF UpToDate
    <3>3. \A c \in Lent' : version'[c] = stored
      <4>1. CASE Connect(t)
        <5>1. PICK c \in Conns \ Opened : conn' = [conn EXCEPT ![t] = c]
                                          /\ version' = [version EXCEPT ![c] = source[t]]
          BY <4>1 DEF Connect
        <5>2. source[t] = stored /\ UNCHANGED stack
          BY <1>t, <3>1, <3>2, <4>1 DEF UpToDate, Connect, poolVars
        <5>3. \A d \in Lent' : d \in Conns /\ (d \in Lent \/ d = c)
          BY <1>t, <5>1, <5>2 DEF Lent, Idle
        <5>4. QED BY <1>t, <3>2, <5>1, <5>2, <5>3 DEF UpToDate
      <4>2. CASE ~Connect(t)
        BY <1>5, <1>o, <3>2, <4>2, NothingNew DEF UpToDate
      <4>3. QED BY <4>1, <4>2
    <3>4. QED BY <3>1, <3>2, <3>3 DEF UpToDate
  <2>3. QED BY <2>1, <2>2
<1>6. QED BY <1>1, <1>2, <1>3, <1>4, <1>5 DEF Next

-----------------------------------------------------------------------------
LEMMA PoolInvariance == Spec => []PoolInv
<1>1. PoolInv /\ [Next]_vars => PoolInv'
  BY ShapeStep, OwnedStep, TargetStep, CountStep, FreshStep, UpToDateStep DEF PoolInv
<1>2. QED BY PoolInit, <1>1, PTL DEF Spec

\* Every variable of the pool keeps its type, and no pool keeps more idle
\* connections than pool_max_size.
THEOREM PoolTypeCorrect == Spec => []TypeOK
<1>1. PoolInv => TypeOK
  BY ShapeIsTypeOK DEF PoolInv
<1>2. QED BY <1>1, PoolInvariance, PTL

\* A connection in use is one query's, open and counted: of two threads, two
\* pools, or a thread and a pool, only one has it, nobody has closed it, and
\* _in_use does not miss it, whatever edits, expiries and failed pings fall
\* between the critical sections.
THEOREM PoolStaysSound == Spec => []PoolIsSound
<1>1. ASSUME PoolInv PROVE OneOwner
  <2>1. \A t, u \in Threads : conn[t] = conn[u] /\ conn[t] # None => t = u
    BY <1>1 DEF PoolInv, Owned, Apart
  <2>2. ASSUME NEW p \in Pools
        PROVE  /\ Idle(p) \cap Held = {}
               /\ Cardinality(Idle(p)) = Len(stack[p])
               /\ \A q \in Pools \ {p} : Idle(p) \cap Idle(q) = {}
    <3>1. Distinct(stack[p]) /\ stack[p] \in Seq(Conns)
      BY <1>1 DEF PoolInv, Owned, Apart, Shape, PoolShape, Stacks
    <3>2. Cardinality(Idle(p)) = Len(stack[p])
      BY <3>1, DistinctCount DEF Idle
    <3>3. Idle(p) \cap Held = {} /\ \A q \in Pools \ {p} : Idle(p) \cap Idle(q) = {}
      BY <1>1 DEF PoolInv, Owned, Apart, Idle, Held
    <3>4. QED BY <3>2, <3>3
  <2>3. QED BY <2>1, <2>2 DEF OneOwner
<1>2. ASSUME PoolInv PROVE InUseIsOpen
  <2>1. /\ conn \in [Threads -> Conns \cup {None}] /\ \A p \in Pools : Idle(p) \subseteq Conns
    BY <1>2, IdleAreConns DEF PoolInv, Shape, ThreadShape, PoolShape, Idle
  <2>2. QED BY <1>2, <2>1 DEF PoolInv, Owned, Open, InUseIsOpen, Held, Opened, Idle
<1>3. ASSUME PoolInv PROVE InUseNotMissed
  <2> SUFFICES ASSUME NEW p \in Pools
               PROVE  inUse[p] >= Cardinality({t \in Threads : pool[t] = p /\ pc[t] = "using"})
    BY DEF InUseNotMissed
  <2> DEFINE U == {t \in Threads : pool[t] = p /\ pc[t] = "using"}
  <2>1. U \in SUBSET Counted(p)
    BY DEF Counted
  <2>2. Cardinality(U) <= Cardinality(Counted(p)) /\ Cardinality(U) \in Nat
    BY <2>1, CountedIsFinite, FS_Subset, FS_CardinalityType
  <2>3. inUse[p] \in Nat /\ inUse[p] >= Cardinality(Counted(p)) /\ Cardinality(Counted(p)) \in Nat
    BY <1>3, CountedIsFinite DEF PoolInv, Shape, PoolShape, CountInv
  <2>4. QED BY <2>2, <2>3
<1>4. PoolInv => PoolIsSound
  BY <1>1, <1>2, <1>3 DEF PoolIsSound
<1>5. QED BY <1>4, PoolInvariance, PTL

\* A query runs only on a connection with the fingerprint (host, port, user,
\* database) of the data source it was given, however that is edited while it
\* borrows.  What lies outside the fingerprint (the password, and the target that
\* some drivers take from `extra') is that of the saved data source as long as
\* no edit and no borrowing overlapped.
THEOREM QueriesReachTheirTarget == Spec => []SameTarget
<1>1. ASSUME PoolInv PROVE SameFingerprint
  BY <1>1 DEF PoolInv, Shape, ThreadShape, HeldTarget, SameFingerprint
<1>2. ASSUME PoolInv PROVE SameSettings
  <2> SUFFICES ASSUME ~overlapped, NEW t \in Threads, pc[t] = "using" PROVE version[conn[t]] = stored
    BY DEF SameSettings
  <2>1. conn[t] \in Lent /\ epc = "idle"
    BY <1>2 DEF PoolInv, Shape, ThreadShape, EditShape, UpToDate, Lent
  <2>2. QED BY <1>2, <2>1 DEF PoolInv, UpToDate
<1>3. PoolInv => SameTarget
  BY <1>1, <1>2 DEF SameTarget
<1>4. QED BY <1>3, PoolInvariance, PTL
=============================================================================
