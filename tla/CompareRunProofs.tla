-------------------------- MODULE CompareRunProofs --------------------------
(***************************************************************************)
(* What CompareRun promises, for sides of any length, any relation between *)
(* values and any sizes of the flushes: both engines compute the           *)
(* reference, the index says what is on disk, and a result that is listed  *)
(* is the whole reference.  EngineInv is inductive for the engine; PlaceInv*)
(* and IndexInv are for the record of the run; RunInv, with what the writer*)
(* holds and has flushed, is for all of it.                                *)
(***************************************************************************)
EXTENDS MCWorkflows, FiniteSetTheorems, FunctionTheorems, TLAPS

-----------------------------------------------------------------------------
(* Proofs: the engine.                                                     *)

\* The size of a set is the same in the instance.
LEMMA SameCardinality == \A S : C!Cardinality(S) = Cardinality(S)
BY DEF C!Cardinality, Cardinality

Compares == C!Begin \/ C!Event \/ C!Advance \/ C!SkipTarget \/ C!Finish
Started  == engine \in {"compare", "yielded", "done"}

EngineTypes ==
  /\ streaming \in BOOLEAN /\ source \in Seq(C!Rows) /\ target \in Seq(C!Rows)
  /\ left \in 1..(Len(source) + 1) /\ right \in 1..(Len(target) + 1)
  /\ emitted \in Seq([bucket : C!Buckets, key : Nat, source : Values \cup {C!None}, target : Values \cup {C!None}])
  /\ engine \in {"idle", "compare", "yielded", "done", "failed"}

\* The first n rows of a side are in order.
Sorted(rows, n) == \A k, l \in DOMAIN rows : k < l /\ l <= n => rows[k].key < rows[l].key

\* The event that was yielded is about the rows the engine stands at.
AtRows(e) ==
  /\ C!FromSource(e) => C!HasSource /\ source[left].key = e.key
  /\ ~C!FromSource(e) => C!HasTarget /\ target[right].key = e.key
  /\ streaming /\ C!FromTarget(e) => C!HasTarget /\ target[right].key = e.key
  /\ streaming /\ ~C!FromTarget(e) /\ C!HasTarget => e.key < target[right].key
  /\ streaming /\ ~C!FromSource(e) /\ C!HasSource => e.key < source[left].key
  /\ ~streaming /\ ~C!FromSource(e) => ~C!HasSource

\* What was checked of the sides so far: the rows that were fetched, or all.
CheckedInv ==
  /\ engine = "idle" => left = 1 /\ right = 1 /\ emitted = <<>>
  /\ engine = "done" => left = Len(source) + 1 /\ right = Len(target) + 1
  /\ Started => IF streaming THEN Sorted(source, left) /\ Sorted(target, right)
                             ELSE C!Distinct(source) /\ C!Distinct(target)
  /\ engine = "failed" => ~(C!Acceptable(source) /\ C!Acceptable(target))
  /\ engine = "yielded" => emitted # <<>> /\ AtRows(C!Last)

\* The keys whose rows are behind the engine.
Passed(k) == (\E m \in DOMAIN source : m < left /\ source[m].key = k) \/
             (\E n \in DOMAIN target : n < right /\ target[n].key = k)

\* The merge has every key behind it that is smaller than one ahead.
Merged ==
  streaming => /\ \A m \in DOMAIN source, n \in DOMAIN target : m < left /\ right <= n => source[m].key < target[n].key
               /\ \A m \in DOMAIN source, n \in DOMAIN target : n < right /\ left <= m => target[n].key < source[m].key

\* Of sides that are accepted, the events emitted are those of the keys passed,
\* and the one that was yielded is new.
EmittedInv ==
  C!Acceptable(source) /\ C!Acceptable(target) /\ Started =>
    /\ Merged
    /\ ~streaming /\ C!HasSource => right = 1
    /\ engine # "yielded" => C!RowsOf(emitted) = {e \in C!Reference : Passed(e.key)}
    /\ engine = "yielded" => /\ C!RowsOf(emitted) = {e \in C!Reference : Passed(e.key)} \cup {C!Last}
                             /\ C!Last \in C!Reference /\ ~Passed(C!Last.key)
    /\ IsFiniteSet(C!RowsOf(emitted)) /\ Cardinality(C!RowsOf(emitted)) = Len(emitted)

EngineInv == EngineTypes /\ CheckedInv /\ EmittedInv

-----------------------------------------------------------------------------
\* An event of the reference is one of these three.
LEMMA ReferenceIs ==
  ASSUME NEW e
  PROVE  e \in C!Reference <=>
           \/ \E m \in DOMAIN source : e = C!OnlySource(source[m]) /\ source[m].key \notin C!KeysOf(target)
           \/ \E n \in DOMAIN target : e = C!OnlyTarget(target[n]) /\ target[n].key \notin C!KeysOf(source)
           \/ \E m \in DOMAIN source, n \in DOMAIN target :
                source[m].key = target[n].key /\ e = C!Pair(source[m], target[n])
<1>1. e \in {C!OnlySource(s) : s \in {r \in C!RowsOf(source) : r.key \notin C!KeysOf(target)}} <=>
        \E m \in DOMAIN source : e = C!OnlySource(source[m]) /\ source[m].key \notin C!KeysOf(target)
  BY DEF C!RowsOf
<1>2. e \in {C!OnlyTarget(t) : t \in {r \in C!RowsOf(target) : r.key \notin C!KeysOf(source)}} <=>
        \E n \in DOMAIN target : e = C!OnlyTarget(target[n]) /\ target[n].key \notin C!KeysOf(source)
  BY DEF C!RowsOf
<1>3. e \in {C!Pair(p[1], p[2]) : p \in {q \in C!RowsOf(source) \X C!RowsOf(target) : q[1].key = q[2].key}} <=>
        \E m \in DOMAIN source, n \in DOMAIN target :
          source[m].key = target[n].key /\ e = C!Pair(source[m], target[n])
  <2>1. ASSUME NEW m \in DOMAIN source, NEW n \in DOMAIN target,
               source[m].key = target[n].key, e = C!Pair(source[m], target[n])
        PROVE  \E p \in {q \in C!RowsOf(source) \X C!RowsOf(target) : q[1].key = q[2].key} : e = C!Pair(p[1], p[2])
    <3>1. <<source[m], target[n]>> \in {q \in C!RowsOf(source) \X C!RowsOf(target) : q[1].key = q[2].key}
      BY <2>1 DEF C!RowsOf
    <3>2. QED BY <2>1, <3>1
  <2>2. ASSUME NEW p \in {q \in C!RowsOf(source) \X C!RowsOf(target) : q[1].key = q[2].key}, e = C!Pair(p[1], p[2])
        PROVE  \E m \in DOMAIN source, n \in DOMAIN target :
                 source[m].key = target[n].key /\ e = C!Pair(source[m], target[n])
    <3>1. p[1] \in C!RowsOf(source) /\ p[2] \in C!RowsOf(target) /\ p[1].key = p[2].key
      OBVIOUS
    <3>2. PICK m \in DOMAIN source : p[1] = source[m]
      BY <3>1 DEF C!RowsOf
    <3>3. PICK n \in DOMAIN target : p[2] = target[n]
      BY <3>1 DEF C!RowsOf
    <3>4. QED BY <2>2, <3>1, <3>2, <3>3
  <2>3. QED BY <2>1, <2>2
<1>4. QED BY <1>1, <1>2, <1>3 DEF C!Reference

\* The keys and the sides of the three kinds of events.
LEMMA EventsAre ==
  ASSUME NEW s \in C!Rows, NEW t \in C!Rows
  PROVE  /\ C!OnlySource(s).key = s.key /\ C!FromSource(C!OnlySource(s)) /\ ~C!FromTarget(C!OnlySource(s))
         /\ C!OnlyTarget(t).key = t.key /\ ~C!FromSource(C!OnlyTarget(t)) /\ C!FromTarget(C!OnlyTarget(t))
         /\ C!Pair(s, t).key = s.key /\ C!FromSource(C!Pair(s, t)) /\ C!FromTarget(C!Pair(s, t))
  BY DEF C!OnlySource, C!OnlyTarget, C!Pair, C!FromSource, C!FromTarget

LEMMA EventTypes ==
  ASSUME NEW s \in C!Rows, NEW t \in C!Rows
  PROVE  {C!OnlySource(s), C!OnlyTarget(t), C!Pair(s, t)} \subseteq
           [bucket : C!Buckets, key : Nat, source : Values \cup {C!None}, target : Values \cup {C!None}]
  BY DEF C!OnlySource, C!OnlyTarget, C!Pair, C!Buckets, C!Rows

\* Sides that are accepted have each key once, whichever way they are compared.
LEMMA AcceptableIsDistinct ==
  ASSUME NEW rows \in Seq(C!Rows), C!Acceptable(rows)
  PROVE  C!Distinct(rows)
<1>1. \A m \in DOMAIN rows : rows[m].key \in Nat
  <2>1. \A m \in DOMAIN rows : rows[m] \in C!Rows
    OBVIOUS
  <2>2. QED BY <2>1 DEF C!Rows
<1>2. DOMAIN rows = 1..Len(rows) /\ Len(rows) \in Nat
  OBVIOUS
<1>3. CASE streaming
  <2>1. SUFFICES ASSUME NEW m \in DOMAIN rows, NEW n \in DOMAIN rows, m # n PROVE rows[m].key # rows[n].key
    BY DEF C!Distinct
  <2>2. m < n \/ n < m
    BY <1>2, <2>1
  <2>3. rows[m].key < rows[n].key \/ rows[n].key < rows[m].key
    BY <1>3, <2>2 DEF C!Acceptable, C!Increasing
  <2>4. QED BY <1>1, <2>3
<1>4. CASE ~streaming
  BY <1>4 DEF C!Acceptable
<1>5. QED BY <1>3, <1>4

\* Of such sides, the reference has one event of a key.
LEMMA OneEventPerKey ==
  ASSUME source \in Seq(C!Rows), target \in Seq(C!Rows), C!Distinct(source), C!Distinct(target),
         NEW e \in C!Reference, NEW f \in C!Reference, e.key = f.key
  PROVE  e = f
<1> DEFINE S(x, m) == m \in DOMAIN source /\ x = C!OnlySource(source[m]) /\ source[m].key = x.key
                                          /\ source[m].key \notin C!KeysOf(target)
           T(x, n) == n \in DOMAIN target /\ x = C!OnlyTarget(target[n]) /\ target[n].key = x.key
                                          /\ target[n].key \notin C!KeysOf(source)
           P(x, m, n) == m \in DOMAIN source /\ n \in DOMAIN target /\ x = C!Pair(source[m], target[n])
                           /\ source[m].key = x.key /\ target[n].key = x.key
<1>1. /\ \A m \in DOMAIN source : source[m] \in C!Rows
      /\ \A n \in DOMAIN target : target[n] \in C!Rows
  OBVIOUS
<1>2. \A x \in C!Reference : (\E m : S(x, m)) \/ (\E n : T(x, n)) \/ (\E m, n : P(x, m, n))
  <2>1. SUFFICES ASSUME NEW x \in C!Reference PROVE (\E m : S(x, m)) \/ (\E n : T(x, n)) \/ (\E m, n : P(x, m, n))
    OBVIOUS
  <2>2. CASE \E m \in DOMAIN source : x = C!OnlySource(source[m]) /\ source[m].key \notin C!KeysOf(target)
    BY <1>1, <2>2 DEF C!OnlySource
  <2>3. CASE \E n \in DOMAIN target : x = C!OnlyTarget(target[n]) /\ target[n].key \notin C!KeysOf(source)
    BY <1>1, <2>3 DEF C!OnlyTarget
  <2>4. CASE \E m \in DOMAIN source, n \in DOMAIN target :
               source[m].key = target[n].key /\ x = C!Pair(source[m], target[n])
    <3>1. PICK m \in DOMAIN source, n \in DOMAIN target :
               source[m].key = target[n].key /\ x = C!Pair(source[m], target[n])
      BY <2>4
    <3>2. x.key = source[m].key
      BY <3>1 DEF C!Pair
    <3>3. P(x, m, n)
      BY <3>1, <3>2
    <3>4. QED BY <3>3
  <2>5. QED BY <2>2, <2>3, <2>4, ReferenceIs
<1>3. /\ \A m \in DOMAIN source : source[m].key \in C!KeysOf(source)
      /\ \A n \in DOMAIN target : target[n].key \in C!KeysOf(target)
  BY DEF C!KeysOf
<1>4. /\ \A m, l \in DOMAIN source : source[m].key = source[l].key => m = l
      /\ \A n, l \in DOMAIN target : target[n].key = target[l].key => n = l
  BY DEF C!Distinct
<1>5. CASE \E m : S(e, m)
  BY <1>2, <1>3, <1>4, <1>5
<1>6. CASE \E n : T(e, n)
  BY <1>2, <1>3, <1>4, <1>6
<1>7. CASE \E m, n : P(e, m, n)
  BY <1>2, <1>3, <1>4, <1>7
<1>8. QED BY <1>2, <1>5, <1>6, <1>7

-----------------------------------------------------------------------------
\* What a step of the run does to the engine is a step of the engine or none.
LEMMA RunDrivesEngine ==
  ASSUME [C!Next]_(C!vars)
  PROVE  Compares \/ UNCHANGED C!engineVars
  BY DEF C!Next, C!vars, C!writerVars, Compares, C!Reserve, C!MarkRunning, C!Read, C!ReadFails, C!MemoryAborts, C!Compare, C!Resume, C!Refuse,
     C!Compared, C!Write, C!CleanUp, C!FlushRest, C!Measure, C!OpenMeta, C!Publish, C!WriteExcel, C!FinalizeIndex, C!Stop, C!Delete

\* One more event: the set of the events grows by it.
LEMMA OneMoreEvent ==
  ASSUME EngineTypes, NEW e, emitted' = Append(emitted, e),
         e \in [bucket : C!Buckets, key : Nat, source : Values \cup {C!None}, target : Values \cup {C!None}]
  PROVE  /\ C!RowsOf(emitted') = C!RowsOf(emitted) \cup {e}
         /\ Len(emitted') = Len(emitted) + 1 /\ C!Last' = e /\ emitted' # <<>>
         /\ emitted' \in Seq([bucket : C!Buckets, key : Nat, source : Values \cup {C!None}, target : Values \cup {C!None}])
<1> DEFINE Es == [bucket : C!Buckets, key : Nat, source : Values \cup {C!None}, target : Values \cup {C!None}]
<1>1. emitted \in Seq(Es) /\ e \in Es
  BY DEF EngineTypes
<1> HIDE DEF Es
<1>2. /\ emitted' \in Seq(Es) /\ Len(emitted') = Len(emitted) + 1 /\ emitted'[Len(emitted) + 1] = e
      /\ \A k \in 1..Len(emitted) : emitted'[k] = emitted[k]
      /\ DOMAIN emitted = 1..Len(emitted) /\ DOMAIN emitted' = 1..(Len(emitted) + 1) /\ Len(emitted) \in Nat
  BY <1>1
<1>3. 1..(Len(emitted) + 1) = 1..Len(emitted) \cup {Len(emitted) + 1}
  BY <1>2
<1>4. C!RowsOf(emitted') = C!RowsOf(emitted) \cup {e}
  BY <1>2, <1>3 DEF C!RowsOf
<1>5. C!Last' = e
  BY <1>2 DEF C!Last
<1>6. emitted' # <<>>
  BY <1>2
<1>7. QED BY <1>2, <1>4, <1>5, <1>6 DEF Es

\* An event that the engine may yield is of a key it has not passed.
LEMMA YieldKeeps ==
  ASSUME EngineInv, NEW e, C!Yield(e), e.key \in Nat,
         e \in [bucket : C!Buckets, key : Nat, source : Values \cup {C!None}, target : Values \cup {C!None}],
         AtRows(e), C!Acceptable(source) /\ C!Acceptable(target) => e \in C!Reference /\ ~Passed(e.key)
  PROVE  EngineInv'
<1>1. /\ engine = "compare" /\ engine' = "yielded" /\ emitted' = Append(emitted, e)
      /\ UNCHANGED <<streaming, source, target, left, right>>
  BY DEF C!Yield, C!input
<1>2. EngineTypes /\ CheckedInv /\ EmittedInv
  BY DEF EngineInv
<1>3. /\ C!RowsOf(emitted') = C!RowsOf(emitted) \cup {e} /\ Len(emitted') = Len(emitted) + 1 /\ C!Last' = e
      /\ emitted' # <<>>
      /\ emitted' \in Seq([bucket : C!Buckets, key : Nat, source : Values \cup {C!None}, target : Values \cup {C!None}])
  BY <1>1, <1>2, OneMoreEvent
<1>4. EngineTypes'
  BY <1>1, <1>2, <1>3 DEF EngineTypes
<1>5. CheckedInv'
  <2>1. AtRows(C!Last)'
    BY <1>1, <1>3 DEF AtRows, C!HasSource, C!HasTarget
  <2>2. Started /\ Started'
    BY <1>1 DEF Started
  <2>3. QED BY <1>1, <1>2, <1>3, <2>1, <2>2 DEF CheckedInv, Sorted, C!Distinct, C!Acceptable, C!Increasing
<1>6. EmittedInv'
  <2>a. (C!Acceptable(source) /\ C!Acceptable(target))' => C!Acceptable(source) /\ C!Acceptable(target)
    BY <1>1 DEF C!Acceptable, C!Increasing, C!Distinct
  <2>b. C!Reference' = C!Reference
    BY <1>1 DEF C!Reference, C!RowsOf, C!KeysOf
  <2>c. (C!HasSource' => C!HasSource) /\ (Passed(e.key) <=> Passed(C!Last.key)')
    BY <1>1, <1>3 DEF C!HasSource, Passed
  <2>d. {f \in C!Reference : Passed(f.key)}' = {f \in C!Reference : Passed(f.key)}
    BY <1>1, <2>b DEF Passed
  <2>1. SUFFICES ASSUME C!Acceptable(source), C!Acceptable(target)
                 PROVE  /\ Merged' /\ (~streaming /\ C!HasSource => right = 1)
                        /\ C!RowsOf(emitted') = {f \in C!Reference : Passed(f.key)} \cup {e}
                        /\ e \in C!Reference /\ ~Passed(e.key)
                        /\ IsFiniteSet(C!RowsOf(emitted')) /\ Cardinality(C!RowsOf(emitted')) = Len(emitted')
    BY <1>1, <1>3, <2>a, <2>b, <2>c, <2>d DEF EmittedInv
  <2>2. /\ Merged /\ (~streaming /\ C!HasSource => right = 1)
        /\ C!RowsOf(emitted) = {f \in C!Reference : Passed(f.key)}
        /\ IsFiniteSet(C!RowsOf(emitted)) /\ Cardinality(C!RowsOf(emitted)) = Len(emitted)
    BY <1>1, <1>2, <2>1 DEF EmittedInv, Started
  <2>3. e \notin C!RowsOf(emitted)
    BY <2>1, <2>2
  <2>4. IsFiniteSet(C!RowsOf(emitted')) /\ Cardinality(C!RowsOf(emitted')) = Len(emitted')
    <3> DEFINE R == C!RowsOf(emitted)
    <3>1. IsFiniteSet(R) /\ e \notin R /\ Cardinality(R) = Len(emitted)
      BY <2>2, <2>3
    <3> HIDE DEF R
    <3>2. IsFiniteSet(R \cup {e}) /\ Cardinality(R \cup {e}) = Cardinality(R) + 1
      BY <3>1, FS_AddElement
    <3>3. QED BY <1>3, <3>1, <3>2 DEF R
  <2>5. Merged'
    BY <1>1, <2>2 DEF Merged
  <2>6. QED BY <1>3, <2>1, <2>2, <2>4, <2>5
<1>7. QED BY <1>4, <1>5, <1>6 DEF EngineInv

\* What the rows and the positions are, for the steps that need no more.
LEMMA RowFacts ==
  ASSUME EngineTypes
  PROVE  /\ DOMAIN source = 1..Len(source) /\ Len(source) \in Nat /\ left \in Nat \ {0}
         /\ DOMAIN target = 1..Len(target) /\ Len(target) \in Nat /\ right \in Nat \ {0}
         /\ \A m \in DOMAIN source : source[m] \in C!Rows /\ source[m].key \in Nat
         /\ \A n \in DOMAIN target : target[n] \in C!Rows /\ target[n].key \in Nat
         /\ C!HasSource => left \in DOMAIN source
         /\ C!HasTarget => right \in DOMAIN target
<1>1. source \in Seq(C!Rows) /\ target \in Seq(C!Rows) /\ left \in 1..(Len(source) + 1) /\ right \in 1..(Len(target) + 1)
  BY DEF EngineTypes
<1>2. /\ DOMAIN source = 1..Len(source) /\ Len(source) \in Nat
      /\ DOMAIN target = 1..Len(target) /\ Len(target) \in Nat
  BY <1>1
<1>3. left \in Nat \ {0} /\ right \in Nat \ {0}
  BY <1>1, <1>2
<1>4. (C!HasSource => left \in DOMAIN source) /\ (C!HasTarget => right \in DOMAIN target)
  BY <1>1, <1>2, <1>3 DEF C!HasSource, C!HasTarget
<1>5. /\ \A m \in DOMAIN source : source[m] \in C!Rows
      /\ \A n \in DOMAIN target : target[n] \in C!Rows
  BY <1>1
<1>6. \A r \in C!Rows : r.key \in Nat
  BY DEF C!Rows
<1>7. QED BY <1>2, <1>3, <1>4, <1>5, <1>6

\* Before a yield of sides that are accepted.
LEMMA BeforeYield ==
  ASSUME EngineInv, engine = "compare", C!Acceptable(source), C!Acceptable(target)
  PROVE  /\ Merged /\ (~streaming /\ C!HasSource => right = 1)
         /\ \A m, l \in DOMAIN source : source[m].key = source[l].key => m = l
         /\ \A n, l \in DOMAIN target : target[n].key = target[l].key => n = l
         /\ streaming => C!Increasing(source) /\ C!Increasing(target)
<1>1. C!Distinct(source) /\ C!Distinct(target)
  BY AcceptableIsDistinct DEF EngineInv, EngineTypes
<1>2. QED BY <1>1 DEF EngineInv, EmittedInv, Started, C!Distinct, C!Acceptable

LEMMA MergeSourceKeeps == ASSUME EngineInv, C!MergeSource PROVE EngineInv'
<1> DEFINE e == C!OnlySource(source[left])
<1>1. streaming /\ C!HasSource /\ (C!HasTarget => source[left].key < target[right].key) /\ C!Yield(e)
  BY DEF C!MergeSource
<1>2. EngineTypes /\ engine = "compare"
  BY <1>1 DEF EngineInv, C!Yield
<1>3. source[left] \in C!Rows /\ left \in DOMAIN source /\ source[left].key \in Nat
  BY <1>1, <1>2, RowFacts
<1>4. /\ e.key = source[left].key /\ C!FromSource(e) /\ ~C!FromTarget(e)
      /\ e \in [bucket : C!Buckets, key : Nat, source : Values \cup {C!None}, target : Values \cup {C!None}]
  <2>1. ASSUME NEW s \in C!Rows
        PROVE  /\ C!OnlySource(s).key = s.key /\ C!FromSource(C!OnlySource(s)) /\ ~C!FromTarget(C!OnlySource(s))
               /\ C!OnlySource(s) \in [bucket : C!Buckets, key : Nat, source : Values \cup {C!None}, target : Values \cup {C!None}]
    BY EventsAre, EventTypes
  <2>2. QED BY <1>3, <2>1
<1>5. ASSUME C!Acceptable(source), C!Acceptable(target)
      PROVE  e \in C!Reference /\ ~Passed(e.key)
  <2>1. /\ Merged /\ C!Increasing(source) /\ C!Increasing(target)
        /\ \A m, l \in DOMAIN source : source[m].key = source[l].key => m = l
    BY <1>1, <1>2, <1>5, BeforeYield
  <2>2. \A n \in DOMAIN target : n < right => target[n].key < source[left].key
    BY <1>1, <1>2, <1>3, <2>1, RowFacts DEF Merged
  <2>3. \A n \in DOMAIN target : right <= n => source[left].key < target[n].key
    <3>1. SUFFICES ASSUME NEW n \in DOMAIN target, right <= n PROVE source[left].key < target[n].key
      OBVIOUS
    <3>2. C!HasTarget /\ right \in DOMAIN target /\ right \in Nat /\ n \in Nat
      BY <1>2, <3>1, RowFacts DEF C!HasTarget
    <3>3. right = n \/ target[right].key < target[n].key
      BY <2>1, <3>1, <3>2 DEF C!Increasing
    <3>4. target[right].key \in Nat /\ target[n].key \in Nat
      BY <1>2, <3>2, <3>1, RowFacts
    <3>5. QED BY <1>1, <1>3, <3>2, <3>3, <3>4
  <2>4. \A n \in DOMAIN target : source[left].key # target[n].key
    BY <1>2, <1>3, <2>2, <2>3, RowFacts
  <2>5. e \in C!Reference
    BY <1>3, <2>4, ReferenceIs DEF C!KeysOf
  <2>7. ~Passed(source[left].key)
    BY <1>2, <1>3, <2>1, <2>4, RowFacts DEF Passed
  <2>8. QED BY <1>4, <2>5, <2>7
<1>r. AtRows(e)
  BY <1>1, <1>4 DEF AtRows
<1> HIDE DEF e
<1>6. QED BY <1>1, <1>3, <1>4, <1>5, <1>r, YieldKeeps

LEMMA MergeTargetKeeps == ASSUME EngineInv, C!MergeTarget PROVE EngineInv'
<1> DEFINE e == C!OnlyTarget(target[right])
<1>1. streaming /\ C!HasTarget /\ (C!HasSource => target[right].key < source[left].key) /\ C!Yield(e)
  BY DEF C!MergeTarget
<1>2. EngineTypes /\ engine = "compare"
  BY <1>1 DEF EngineInv, C!Yield
<1>3. target[right] \in C!Rows /\ right \in DOMAIN target /\ target[right].key \in Nat
  BY <1>1, <1>2, RowFacts
<1>4. /\ e.key = target[right].key /\ ~C!FromSource(e) /\ C!FromTarget(e)
      /\ e \in [bucket : C!Buckets, key : Nat, source : Values \cup {C!None}, target : Values \cup {C!None}]
  <2>1. ASSUME NEW s \in C!Rows
        PROVE  /\ C!OnlyTarget(s).key = s.key /\ ~C!FromSource(C!OnlyTarget(s)) /\ C!FromTarget(C!OnlyTarget(s))
               /\ C!OnlyTarget(s) \in [bucket : C!Buckets, key : Nat, source : Values \cup {C!None}, target : Values \cup {C!None}]
    BY EventsAre, EventTypes
  <2>2. QED BY <1>3, <2>1
<1>5. ASSUME C!Acceptable(source), C!Acceptable(target)
      PROVE  e \in C!Reference /\ ~Passed(e.key)
  <2>1. /\ Merged /\ C!Increasing(source) /\ C!Increasing(target)
        /\ \A m, l \in DOMAIN target : target[m].key = target[l].key => m = l
    BY <1>1, <1>2, <1>5, BeforeYield
  <2>2. \A m \in DOMAIN source : m < left => source[m].key < target[right].key
    BY <1>1, <1>2, <1>3, <2>1, RowFacts DEF Merged
  <2>3. \A m \in DOMAIN source : left <= m => target[right].key < source[m].key
    <3>1. SUFFICES ASSUME NEW m \in DOMAIN source, left <= m PROVE target[right].key < source[m].key
      OBVIOUS
    <3>2. C!HasSource /\ left \in DOMAIN source /\ left \in Nat /\ m \in Nat
      BY <1>2, <3>1, RowFacts DEF C!HasSource
    <3>3. left = m \/ source[left].key < source[m].key
      BY <2>1, <3>1, <3>2 DEF C!Increasing
    <3>4. source[left].key \in Nat /\ source[m].key \in Nat
      BY <1>2, <3>2, <3>1, RowFacts
    <3>5. QED BY <1>1, <1>3, <3>2, <3>3, <3>4
  <2>4. \A m \in DOMAIN source : source[m].key # target[right].key
    BY <1>2, <1>3, <2>2, <2>3, RowFacts
  <2>5. e \in C!Reference
    BY <1>3, <2>4, ReferenceIs DEF C!KeysOf
  <2>7. ~Passed(target[right].key)
    BY <1>2, <1>3, <2>1, <2>4, RowFacts DEF Passed
  <2>8. QED BY <1>4, <2>5, <2>7
<1>r. AtRows(e)
  BY <1>1, <1>4 DEF AtRows
<1> HIDE DEF e
<1>6. QED BY <1>1, <1>3, <1>4, <1>5, <1>r, YieldKeeps

LEMMA MergePairKeeps == ASSUME EngineInv, C!MergePair PROVE EngineInv'
<1> DEFINE e == C!Pair(source[left], target[right])
<1>1. streaming /\ C!HasSource /\ C!HasTarget /\ source[left].key = target[right].key /\ C!Yield(e)
  BY DEF C!MergePair
<1>2. EngineTypes /\ engine = "compare"
  BY <1>1 DEF EngineInv, C!Yield
<1>3. /\ source[left] \in C!Rows /\ left \in DOMAIN source /\ source[left].key \in Nat
      /\ target[right] \in C!Rows /\ right \in DOMAIN target
  BY <1>1, <1>2, RowFacts
<1>4. /\ e.key = source[left].key /\ C!FromSource(e) /\ C!FromTarget(e)
      /\ e \in [bucket : C!Buckets, key : Nat, source : Values \cup {C!None}, target : Values \cup {C!None}]
  <2>1. ASSUME NEW s \in C!Rows, NEW t \in C!Rows
        PROVE  /\ C!Pair(s, t).key = s.key /\ C!FromSource(C!Pair(s, t)) /\ C!FromTarget(C!Pair(s, t))
               /\ C!Pair(s, t) \in [bucket : C!Buckets, key : Nat, source : Values \cup {C!None}, target : Values \cup {C!None}]
    BY EventsAre, EventTypes
  <2>2. QED BY <1>3, <2>1
<1>5. ASSUME C!Acceptable(source), C!Acceptable(target)
      PROVE  e \in C!Reference /\ ~Passed(e.key)
  <2>1. /\ \A m, l \in DOMAIN source : source[m].key = source[l].key => m = l
        /\ \A m, l \in DOMAIN target : target[m].key = target[l].key => m = l
    BY <1>2, <1>5, BeforeYield
  <2>2. e \in C!Reference
    BY <1>1, <1>3, ReferenceIs
  <2>4. ~Passed(source[left].key)
    BY <1>1, <1>2, <1>3, <2>1, RowFacts DEF Passed
  <2>5. QED BY <1>4, <2>2, <2>4
<1>r. AtRows(e)
  BY <1>1, <1>4 DEF AtRows
<1> HIDE DEF e
<1>6. QED BY <1>1, <1>3, <1>4, <1>5, <1>r, YieldKeeps

\* A source row looked up among the targets, with or without one found.
LEMMA LookUpKeeps == ASSUME EngineInv, C!LookUp PROVE EngineInv'
<1>1. ~streaming /\ C!HasSource
  BY DEF C!LookUp
<1>2. EngineTypes /\ engine = "compare"
  BY DEF EngineInv, C!Yield, C!LookUp
<1>3. source[left] \in C!Rows /\ left \in DOMAIN source /\ source[left].key \in Nat
  BY <1>1, <1>2, RowFacts
<1>4. ASSUME C!Acceptable(source), C!Acceptable(target) PROVE ~Passed(source[left].key)
  <2>1. /\ \A m, l \in DOMAIN source : source[m].key = source[l].key => m = l
        /\ right = 1
    BY <1>1, <1>2, <1>4, BeforeYield
  <2>2. QED BY <1>2, <1>3, <2>1, RowFacts DEF Passed
<1>5. CASE source[left].key \notin C!KeysOf(target) /\ C!Yield(C!OnlySource(source[left]))
  <2> DEFINE e == C!OnlySource(source[left])
  <2>1. ASSUME NEW s \in C!Rows
        PROVE  /\ C!OnlySource(s).key = s.key /\ C!FromSource(C!OnlySource(s))
               /\ C!OnlySource(s) \in [bucket : C!Buckets, key : Nat, source : Values \cup {C!None}, target : Values \cup {C!None}]
    BY EventsAre, EventTypes
  <2>2. /\ e.key = source[left].key /\ C!FromSource(e)
        /\ e \in [bucket : C!Buckets, key : Nat, source : Values \cup {C!None}, target : Values \cup {C!None}]
    BY <1>3, <2>1
  <2>3. e \in C!Reference
    BY <1>3, <1>5, ReferenceIs
  <2>4. AtRows(e)
    BY <1>1, <2>2 DEF AtRows
  <2> HIDE DEF e
  <2>5. C!Yield(e)
    BY <1>5 DEF e
  <2>6. QED BY <1>3, <1>4, <2>2, <2>3, <2>4, <2>5, YieldKeeps
<1>6. ASSUME NEW t \in C!RowsOf(target), t.key = source[left].key, C!Yield(C!Pair(source[left], t)) PROVE EngineInv'
  <2> DEFINE e == C!Pair(source[left], t)
  <2>1. PICK n \in DOMAIN target : t = target[n]
    BY DEF C!RowsOf
  <2>2. t \in C!Rows
    BY <1>2, <2>1, RowFacts
  <2>3. ASSUME NEW s \in C!Rows, NEW u \in C!Rows
        PROVE  /\ C!Pair(s, u).key = s.key /\ C!FromSource(C!Pair(s, u))
               /\ C!Pair(s, u) \in [bucket : C!Buckets, key : Nat, source : Values \cup {C!None}, target : Values \cup {C!None}]
    BY EventsAre, EventTypes
  <2>4. /\ e.key = source[left].key /\ C!FromSource(e)
        /\ e \in [bucket : C!Buckets, key : Nat, source : Values \cup {C!None}, target : Values \cup {C!None}]
    BY <1>3, <2>2, <2>3
  <2>5. e \in C!Reference
    BY <1>3, <1>6, <2>1, ReferenceIs
  <2>6. AtRows(e)
    BY <1>1, <2>4 DEF AtRows
  <2> HIDE DEF e
  <2>7. C!Yield(e)
    BY <1>6 DEF e
  <2>8. QED BY <1>3, <1>4, <2>4, <2>5, <2>6, <2>7, YieldKeeps
<1>7. QED BY <1>5, <1>6 DEF C!LookUp

LEMMA LookUpTargetKeeps == ASSUME EngineInv, C!LookUpTarget PROVE EngineInv'
<1> DEFINE e == C!OnlyTarget(target[right])
<1>1. ~streaming /\ ~C!HasSource /\ C!HasTarget /\ target[right].key \notin C!KeysOf(source) /\ C!Yield(e)
  BY DEF C!LookUpTarget
<1>2. EngineTypes /\ engine = "compare"
  BY <1>1 DEF EngineInv, C!Yield
<1>3. target[right] \in C!Rows /\ right \in DOMAIN target /\ target[right].key \in Nat
  BY <1>1, <1>2, RowFacts
<1>4. /\ e.key = target[right].key /\ ~C!FromSource(e)
      /\ e \in [bucket : C!Buckets, key : Nat, source : Values \cup {C!None}, target : Values \cup {C!None}]
  <2>1. ASSUME NEW s \in C!Rows
        PROVE  /\ C!OnlyTarget(s).key = s.key /\ ~C!FromSource(C!OnlyTarget(s))
               /\ C!OnlyTarget(s) \in [bucket : C!Buckets, key : Nat, source : Values \cup {C!None}, target : Values \cup {C!None}]
    BY EventsAre, EventTypes
  <2>2. QED BY <1>3, <2>1
<1>5. ASSUME C!Acceptable(source), C!Acceptable(target)
      PROVE  e \in C!Reference /\ ~Passed(e.key)
  <2>1. \A m, l \in DOMAIN target : target[m].key = target[l].key => m = l
    BY <1>2, <1>5, BeforeYield
  <2>2. \A m \in DOMAIN source : source[m].key # target[right].key
    BY <1>1 DEF C!KeysOf
  <2>3. e \in C!Reference
    BY <1>1, <1>3, ReferenceIs
  <2>5. ~Passed(target[right].key)
    BY <1>2, <1>3, <2>1, <2>2, RowFacts DEF Passed
  <2>6. QED BY <1>4, <2>3, <2>5
<1>r. AtRows(e)
  BY <1>1, <1>4 DEF AtRows
<1> HIDE DEF e
<1>6. QED BY <1>1, <1>3, <1>4, <1>5, <1>r, YieldKeeps

LEMMA EngineStarts == ASSUME C!RowsAssumption, C!EngineInit PROVE EngineInv
<1>1. EngineTypes
  <2>1. source \in Seq(C!Rows) /\ target \in Seq(C!Rows) /\ left = 1 /\ right = 1 /\ emitted = <<>>
    BY DEF C!EngineInit, C!RowsAssumption
  <2>2. Len(source) \in Nat /\ Len(target) \in Nat
    BY <2>1
  <2>3. left \in 1..(Len(source) + 1) /\ right \in 1..(Len(target) + 1)
    BY <2>1, <2>2
  <2>4. QED BY <2>1, <2>3 DEF C!EngineInit, EngineTypes
<1>2. CheckedInv /\ EmittedInv
  BY DEF C!EngineInit, CheckedInv, EmittedInv, Started
<1>3. QED BY <1>1, <1>2 DEF EngineInv

LEMMA BeginKeeps == ASSUME EngineInv, C!Begin PROVE EngineInv'
<1>1. /\ engine = "idle" /\ left = 1 /\ right = 1 /\ emitted = <<>> /\ UNCHANGED <<streaming, source, target, left, right, emitted>>
      /\ EngineTypes
  BY DEF C!Begin, C!input, EngineInv, CheckedInv
<1>2. CASE streaming \/ (C!Distinct(source) /\ C!Distinct(target))
  <2>1. engine' = "compare"
    BY <1>2 DEF C!Begin
  <2>2. EngineTypes'
    BY <1>1, <2>1 DEF EngineTypes
  <2>3. Sorted(source, left)' /\ Sorted(target, right)'
    BY <1>1, RowFacts DEF Sorted
  <2>4. CheckedInv'
    BY <1>1, <1>2, <2>1, <2>3 DEF CheckedInv, C!Distinct
  <2>5. Merged' /\ (C!HasSource' => right' = 1) /\ C!RowsOf(emitted') = {}
    BY <1>1, RowFacts DEF Merged, C!RowsOf
  <2>6. \A k : ~Passed(k)'
    BY <1>1, RowFacts DEF Passed
  <2>7. IsFiniteSet(C!RowsOf(emitted')) /\ Cardinality(C!RowsOf(emitted')) = 0 /\ Len(emitted') = 0
    BY <1>1, <2>5, FS_EmptySet
  <2>8. EmittedInv'
    BY <2>1, <2>5, <2>6, <2>7 DEF EmittedInv
  <2>9. QED BY <2>2, <2>4, <2>8 DEF EngineInv
<1>3. CASE ~(streaming \/ (C!Distinct(source) /\ C!Distinct(target)))
  <2>1. engine' = "failed"
    BY <1>3 DEF C!Begin
  <2>2. EngineTypes'
    BY <1>1, <2>1 DEF EngineTypes
  <2>3. QED BY <1>1, <1>3, <2>1, <2>2 DEF EngineInv, CheckedInv, EmittedInv, Started, C!Acceptable, C!Distinct
<1>4. QED BY <1>2, <1>3

LEMMA SkipTargetKeeps == ASSUME EngineInv, C!SkipTarget PROVE EngineInv'
<1>1. /\ engine = "compare" /\ engine' = "compare" /\ ~streaming /\ ~C!HasSource /\ C!HasTarget
      /\ target[right].key \in C!KeysOf(source) /\ right' = right + 1
      /\ UNCHANGED <<streaming, source, target, left, emitted>>
      /\ EngineTypes /\ CheckedInv /\ EmittedInv
  BY DEF C!SkipTarget, C!input, EngineInv
<1>2. EngineTypes'
  <2>1. right' \in 1..(Len(target) + 1)
    BY <1>1, RowFacts DEF C!HasTarget
  <2>2. QED BY <1>1, <2>1 DEF EngineTypes
<1>3. CheckedInv'
  BY <1>1 DEF CheckedInv, Started, C!Distinct
<1>4. \A k : Passed(k)' <=> Passed(k)
  <2>1. PICK m \in DOMAIN source : source[m].key = target[right].key
    BY <1>1 DEF C!KeysOf
  <2>2. m < left
    BY <1>1, RowFacts DEF C!HasSource
  <2>3. \A n \in DOMAIN target : n < right + 1 <=> n < right \/ n = right
    BY <1>1, RowFacts
  <2>4. QED BY <1>1, <2>1, <2>2, <2>3 DEF Passed
<1>5. EmittedInv'
  <2>1. (C!Acceptable(source) /\ C!Acceptable(target))' => C!Acceptable(source) /\ C!Acceptable(target)
    BY <1>1 DEF C!Acceptable, C!Increasing, C!Distinct
  <2>2. C!Reference' = C!Reference
    BY <1>1 DEF C!Reference, C!RowsOf, C!KeysOf
  <2>3. Merged' /\ ~C!HasSource'
    BY <1>1 DEF Merged, C!HasSource
  <2>4. {f \in C!Reference : Passed(f.key)}' = {f \in C!Reference : Passed(f.key)}
    BY <1>4, <2>2
  <2>5. SUFFICES ASSUME C!Acceptable(source), C!Acceptable(target)
                 PROVE  /\ C!RowsOf(emitted) = {f \in C!Reference : Passed(f.key)}
                        /\ IsFiniteSet(C!RowsOf(emitted)) /\ Cardinality(C!RowsOf(emitted)) = Len(emitted)
    BY <1>1, <2>1, <2>3, <2>4 DEF EmittedInv
  <2>6. QED BY <1>1, <2>5 DEF EmittedInv, Started
<1>6. QED BY <1>2, <1>3, <1>5 DEF EngineInv

LEMMA FinishKeeps == ASSUME EngineInv, C!Finish PROVE EngineInv'
<1>1. /\ engine = "compare" /\ engine' = "done" /\ ~C!HasSource /\ ~C!HasTarget
      /\ UNCHANGED <<streaming, source, target, left, right, emitted>> /\ EngineTypes /\ CheckedInv /\ EmittedInv
  BY DEF C!Finish, C!input, EngineInv
<1>2. EngineTypes'
  BY <1>1 DEF EngineTypes
<1>3. left = Len(source) + 1 /\ right = Len(target) + 1
  <2>1. left \in 1..(Len(source) + 1) /\ right \in 1..(Len(target) + 1)
    BY <1>1 DEF EngineTypes
  <2>2. QED BY <1>1, <2>1, RowFacts DEF C!HasSource, C!HasTarget
<1>4. CheckedInv'
  BY <1>1, <1>3 DEF CheckedInv, Started, Sorted, C!Distinct
<1>5. EmittedInv'
  <2>1. (C!Acceptable(source) /\ C!Acceptable(target))' => C!Acceptable(source) /\ C!Acceptable(target)
    BY <1>1 DEF C!Acceptable, C!Increasing, C!Distinct
  <2>2. C!Reference' = C!Reference
    BY <1>1 DEF C!Reference, C!RowsOf, C!KeysOf
  <2>3. (Merged => Merged') /\ ~C!HasSource'
    BY <1>1 DEF Merged, C!HasSource
  <2>4. {f \in C!Reference : Passed(f.key)}' = {f \in C!Reference : Passed(f.key)}
    BY <1>1, <2>2 DEF Passed
  <2>5. SUFFICES ASSUME C!Acceptable(source), C!Acceptable(target)
                 PROVE  /\ Merged /\ C!RowsOf(emitted) = {f \in C!Reference : Passed(f.key)}
                        /\ IsFiniteSet(C!RowsOf(emitted)) /\ Cardinality(C!RowsOf(emitted)) = Len(emitted)
    BY <1>1, <2>1, <2>3, <2>4 DEF EmittedInv
  <2>6. QED BY <1>1, <2>5 DEF EmittedInv, Started
<1>6. QED BY <1>2, <1>4, <1>5 DEF EngineInv

\* The generator is resumed: one more key is passed, that of the event.
LEMMA AdvanceKeeps == ASSUME EngineInv, C!Advance PROVE EngineInv'
<1> DEFINE k == C!Last.key
<1>1. /\ engine = "yielded" /\ UNCHANGED <<streaming, source, target, emitted>>
      /\ EngineTypes /\ CheckedInv /\ EmittedInv /\ emitted # <<>> /\ AtRows(C!Last)
  BY DEF C!Advance, C!input, EngineInv, CheckedInv
<1>2. /\ C!FromSource(C!Last) => left' = left + 1
      /\ ~C!FromSource(C!Last) => left' = left
      /\ C!FromTarget(C!Last) /\ (streaming \/ ~C!FromSource(C!Last)) => right' = right + 1
      /\ ~(C!FromTarget(C!Last) /\ (streaming \/ ~C!FromSource(C!Last))) => right' = right
      /\ C!FromSource(C!Last) \/ C!FromTarget(C!Last)
  BY DEF C!Advance, C!FromSource, C!FromTarget
<1>3. /\ C!FromSource(C!Last) => C!HasSource /\ left \in DOMAIN source /\ source[left].key = k
      /\ C!FromTarget(C!Last) /\ (streaming \/ ~C!FromSource(C!Last)) => C!HasTarget /\ right \in DOMAIN target /\ target[right].key = k
      /\ streaming /\ ~C!FromTarget(C!Last) /\ C!HasTarget => k < target[right].key
      /\ streaming /\ ~C!FromSource(C!Last) /\ C!HasSource => k < source[left].key
      /\ ~streaming /\ ~C!FromSource(C!Last) => ~C!HasSource
  BY <1>1, RowFacts DEF AtRows
<1>t. EngineTypes /\ engine' \in {"compare", "failed"}
  BY <1>1 DEF C!Advance
<1> HIDE DEF k
<1>4. EngineTypes'
  <2>1. left' \in 1..(Len(source) + 1) /\ right' \in 1..(Len(target) + 1)
    BY <1>2, <1>3, <1>t, RowFacts DEF EngineTypes
  <2>2. QED BY <1>1, <1>t, <2>1 DEF EngineTypes
<1>5. \A x : Passed(x)' <=> Passed(x) \/ x = k
  <2>1. \A x : (\E m \in DOMAIN source : m < left' /\ source[m].key = x) <=>
               \/ \E m \in DOMAIN source : m < left /\ source[m].key = x
               \/ C!FromSource(C!Last) /\ x = k
    BY <1>2, <1>3, <1>t, RowFacts
  <2>2. \A x : (\E n \in DOMAIN target : n < right' /\ target[n].key = x) <=>
               \/ \E n \in DOMAIN target : n < right /\ target[n].key = x
               \/ C!FromTarget(C!Last) /\ (streaming \/ ~C!FromSource(C!Last)) /\ x = k
    BY <1>2, <1>3, <1>t, RowFacts
  <2>3. QED BY <1>1, <1>2, <2>1, <2>2 DEF Passed
<1>6. CASE engine' = "compare"
  <2>1. streaming => C!InOrder(source, left') /\ C!InOrder(target, right')
    BY <1>6 DEF C!Advance
  <2>2. CheckedInv'
    <3>1. IF streaming THEN Sorted(source, left) /\ Sorted(target, right) ELSE C!Distinct(source) /\ C!Distinct(target)
      BY <1>1 DEF CheckedInv, Started
    <3>2. ASSUME streaming PROVE Sorted(source, left') /\ Sorted(target, right')
      <4>1. Sorted(source, left) /\ Sorted(target, right) /\ C!InOrder(source, left') /\ C!InOrder(target, right')
        BY <2>1, <3>1, <3>2
      <4>2. Sorted(source, left')
        <5>1. CASE left' = left
          BY <4>1, <5>1
        <5>2. CASE left' = left + 1
          <6>1. SUFFICES ASSUME NEW m \in DOMAIN source, NEW l \in DOMAIN source, m < l, l = left + 1
                         PROVE  source[m].key < source[l].key
            BY <1>t, <4>1, <5>2, RowFacts DEF Sorted
          <6>2. left \in DOMAIN source /\ left < l /\ source[left].key < source[l].key
            BY <1>t, <4>1, <5>2, <6>1, RowFacts DEF C!InOrder
          <6>3. m = left \/ source[m].key < source[left].key
            BY <1>t, <4>1, <6>1, <6>2, RowFacts DEF Sorted
          <6>4. QED BY <1>t, <6>1, <6>2, <6>3, RowFacts
        <5>3. QED BY <1>2, <5>1, <5>2
      <4>3. Sorted(target, right')
        <5>1. CASE right' = right
          BY <4>1, <5>1
        <5>2. CASE right' = right + 1
          <6>1. SUFFICES ASSUME NEW m \in DOMAIN target, NEW l \in DOMAIN target, m < l, l = right + 1
                         PROVE  target[m].key < target[l].key
            BY <1>t, <4>1, <5>2, RowFacts DEF Sorted
          <6>2. right \in DOMAIN target /\ right < l /\ target[right].key < target[l].key
            BY <1>t, <4>1, <5>2, <6>1, RowFacts DEF C!InOrder
          <6>3. m = right \/ target[m].key < target[right].key
            BY <1>t, <4>1, <6>1, <6>2, RowFacts DEF Sorted
          <6>4. QED BY <1>t, <6>1, <6>2, <6>3, RowFacts
        <5>3. QED BY <1>2, <5>1, <5>2
      <4>4. QED BY <4>2, <4>3
    <3>3. QED BY <1>1, <1>6, <3>1, <3>2 DEF CheckedInv, Sorted, C!Distinct
  <2>3. EmittedInv'
    <3>1. (C!Acceptable(source) /\ C!Acceptable(target))' => C!Acceptable(source) /\ C!Acceptable(target)
      BY <1>1 DEF C!Acceptable, C!Increasing, C!Distinct
    <3>2. C!Reference' = C!Reference
      BY <1>1 DEF C!Reference, C!RowsOf, C!KeysOf
    <3>3. SUFFICES ASSUME C!Acceptable(source), C!Acceptable(target)
                   PROVE  /\ Merged' /\ (~streaming' /\ C!HasSource' => right' = 1)
                          /\ C!RowsOf(emitted) = {f \in C!Reference : Passed(f.key)}'
                          /\ IsFiniteSet(C!RowsOf(emitted)) /\ Cardinality(C!RowsOf(emitted)) = Len(emitted)
      BY <1>1, <1>6, <3>1 DEF EmittedInv, C!RowsOf
    <3>4. /\ Merged /\ (~streaming /\ C!HasSource => right = 1)
          /\ C!RowsOf(emitted) = {f \in C!Reference : Passed(f.key)} \cup {C!Last}
          /\ C!Last \in C!Reference
          /\ IsFiniteSet(C!RowsOf(emitted)) /\ Cardinality(C!RowsOf(emitted)) = Len(emitted)
      BY <1>1, <3>3 DEF EmittedInv, Started
    <3>5. {f \in C!Reference : Passed(f.key)}' = {f \in C!Reference : Passed(f.key)} \cup {C!Last}
      <4>1. C!Distinct(source) /\ C!Distinct(target) /\ source \in Seq(C!Rows) /\ target \in Seq(C!Rows)
        BY <1>t, <3>3, AcceptableIsDistinct DEF EngineTypes
      <4>2. \A f \in C!Reference : f.key = k => f = C!Last
        BY <3>4, <4>1, OneEventPerKey DEF k
      <4>3. QED BY <1>5, <3>2, <3>4, <4>2 DEF k
    <3>6. ~streaming' /\ C!HasSource' => right' = 1
      <4>1. SUFFICES ASSUME ~streaming, C!HasSource' PROVE right' = 1
        BY <1>1
      <4>2. C!HasSource
        BY <1>1, <1>2, <1>t, <4>1, RowFacts DEF C!HasSource
      <4>3. QED BY <1>2, <1>3, <3>4, <4>1, <4>2
    <3>7. ASSUME streaming PROVE Merged'
      <4>1. C!Increasing(source) /\ C!Increasing(target)
        BY <3>3, <3>7 DEF C!Acceptable
      <4>k. k \in Nat
        BY <1>2, <1>3, <1>t, <3>7, RowFacts
      <4>2. ASSUME NEW m \in DOMAIN source, NEW n \in DOMAIN target, m < left', right' <= n
            PROVE  source[m].key < target[n].key
        <5>1. CASE m < left
          BY <1>2, <1>t, <3>4, <3>7, <4>2, <5>1, RowFacts DEF Merged
        <5>2. CASE ~(m < left)
          <6>1. C!FromSource(C!Last) /\ source[m].key = k
            BY <1>2, <1>3, <1>t, <4>2, <5>2, RowFacts
          <6>2. k < target[n].key
            <7>1. CASE C!FromTarget(C!Last)
              <8>1. right < n /\ right \in DOMAIN target /\ target[right].key = k
                BY <1>2, <1>3, <1>t, <3>7, <4>2, <7>1, RowFacts
              <8>2. QED BY <4>1, <8>1 DEF C!Increasing
            <7>2. CASE ~C!FromTarget(C!Last)
              <8>1. C!HasTarget /\ right \in DOMAIN target /\ right <= n /\ k < target[right].key
                BY <1>2, <1>3, <1>t, <3>7, <4>2, <7>2, RowFacts DEF C!HasTarget
              <8>2. right = n \/ target[right].key < target[n].key
                BY <1>t, <4>1, <8>1, RowFacts DEF C!Increasing
              <8>3. QED BY <1>t, <4>k, <8>1, <8>2, RowFacts
            <7>3. QED BY <7>1, <7>2
          <6>3. QED BY <6>1, <6>2
        <5>3. QED BY <5>1, <5>2
      <4>3. ASSUME NEW m \in DOMAIN source, NEW n \in DOMAIN target, n < right', left' <= m
            PROVE  target[n].key < source[m].key
        <5>1. CASE n < right
          BY <1>2, <1>t, <3>4, <3>7, <4>3, <5>1, RowFacts DEF Merged
        <5>2. CASE ~(n < right)
          <6>1. C!FromTarget(C!Last) /\ target[n].key = k
            BY <1>2, <1>3, <1>t, <4>3, <5>2, RowFacts
          <6>2. k < source[m].key
            <7>1. CASE C!FromSource(C!Last)
              <8>1. left < m /\ left \in DOMAIN source /\ source[left].key = k
                BY <1>2, <1>3, <1>t, <4>3, <7>1, RowFacts
              <8>2. QED BY <4>1, <8>1 DEF C!Increasing
            <7>2. CASE ~C!FromSource(C!Last)
              <8>1. C!HasSource /\ left \in DOMAIN source /\ left <= m /\ k < source[left].key
                BY <1>2, <1>3, <1>t, <3>7, <4>3, <7>2, RowFacts DEF C!HasSource
              <8>2. left = m \/ source[left].key < source[m].key
                BY <1>t, <4>1, <8>1, RowFacts DEF C!Increasing
              <8>3. QED BY <1>t, <4>k, <8>1, <8>2, RowFacts
            <7>3. QED BY <7>1, <7>2
          <6>3. QED BY <6>1, <6>2
        <5>3. QED BY <5>1, <5>2
      <4>4. QED BY <1>1, <4>2, <4>3 DEF Merged
    <3>8. Merged'
      BY <1>1, <3>7 DEF Merged
    <3>9. QED BY <3>4, <3>5, <3>6, <3>8
  <2>4. QED BY <1>4, <2>2, <2>3 DEF EngineInv
<1>7. CASE engine' = "failed"
  <2>1. streaming /\ ~(C!InOrder(source, left') /\ C!InOrder(target, right'))
    BY <1>7 DEF C!Advance
  <2>2. ASSUME ~C!InOrder(source, left') PROVE ~C!Increasing(source)
    <3>1. left' - 1 \in DOMAIN source /\ left' \in DOMAIN source /\ left' - 1 < left' /\ ~(source[left' - 1].key < source[left'].key)
      BY <1>2, <1>t, <2>2, RowFacts DEF C!InOrder
    <3>2. QED BY <3>1 DEF C!Increasing
  <2>3. ASSUME ~C!InOrder(target, right') PROVE ~C!Increasing(target)
    <3>1. right' - 1 \in DOMAIN target /\ right' \in DOMAIN target /\ right' - 1 < right' /\ ~(target[right' - 1].key < target[right'].key)
      BY <1>2, <1>t, <2>3, RowFacts DEF C!InOrder
    <3>2. QED BY <3>1 DEF C!Increasing
  <2>4. ~(C!Acceptable(source) /\ C!Acceptable(target))
    BY <2>1, <2>2, <2>3 DEF C!Acceptable
  <2>5. CheckedInv' /\ EmittedInv'
    BY <1>1, <1>7, <2>4 DEF CheckedInv, EmittedInv, Started, C!Acceptable, C!Increasing, C!Distinct
  <2>6. QED BY <1>4, <2>5 DEF EngineInv
<1>8. QED BY <1>t, <1>6, <1>7

LEMMA EngineKeeps == ASSUME EngineInv, [C!Next]_(C!vars) PROVE EngineInv'
<1>1. CASE UNCHANGED C!engineVars
  <2>1. UNCHANGED <<streaming, source, target, left, right, emitted, engine>> /\ EngineTypes /\ CheckedInv /\ EmittedInv
    BY <1>1 DEF C!engineVars, C!input, EngineInv
  <2>2. EngineTypes'
    BY <2>1 DEF EngineTypes
  <2>3. CheckedInv'
    BY <2>1 DEF CheckedInv, Started, Sorted, C!Distinct, C!Acceptable, C!Increasing, AtRows, C!HasSource, C!HasTarget, C!Last
  <2>4. EmittedInv'
    <3>1. (C!Acceptable(source) /\ C!Acceptable(target))' => C!Acceptable(source) /\ C!Acceptable(target)
      BY <2>1 DEF C!Acceptable, C!Increasing, C!Distinct
    <3>2. C!Reference' = C!Reference
      BY <2>1 DEF C!Reference, C!RowsOf, C!KeysOf
    <3>3. {f \in C!Reference : Passed(f.key)}' = {f \in C!Reference : Passed(f.key)}
      BY <2>1, <3>2 DEF Passed
    <3>4. (C!HasSource' => C!HasSource) /\ C!Last' = C!Last /\ (Merged => Merged') /\ (Passed(C!Last.key)' => Passed(C!Last.key))
      BY <2>1 DEF C!HasSource, C!Last, Merged, Passed
    <3>5. Started' => Started
      BY <2>1 DEF Started
    <3>6. C!RowsOf(emitted)' = C!RowsOf(emitted)
      BY <2>1 DEF C!RowsOf
    <3>7. QED BY <2>1, <3>1, <3>2, <3>3, <3>4, <3>5, <3>6 DEF EmittedInv
  <2>5. QED BY <2>2, <2>3, <2>4 DEF EngineInv
<1>2. CASE Compares
  BY <1>2, BeginKeeps, MergeSourceKeeps, MergeTargetKeeps, MergePairKeeps, LookUpKeeps, LookUpTargetKeeps, AdvanceKeeps,
     SkipTargetKeeps, FinishKeeps DEF Compares, C!Event
<1>3. QED BY <1>1, <1>2, RunDrivesEngine

\* What the engine keeps makes its events the reference.
LEMMA EngineInvMeansReference ==
  ASSUME EngineInv
  PROVE  C!EventsAreReference
<1>2. ASSUME engine = "done"
      PROVE  /\ C!Acceptable(source) /\ C!Acceptable(target)
             /\ C!RowsOf(emitted) = C!Reference /\ Len(emitted) = Cardinality(C!Reference)
  <2>1. /\ left = Len(source) + 1 /\ right = Len(target) + 1
        /\ IF streaming THEN Sorted(source, left) /\ Sorted(target, right) ELSE C!Distinct(source) /\ C!Distinct(target)
        /\ EngineTypes
    BY <1>2 DEF EngineInv, CheckedInv, Started
  <2>2. C!Acceptable(source) /\ C!Acceptable(target)
    <3>1. /\ \A m, l \in DOMAIN source : m < l => l <= Len(source) + 1
          /\ \A m, l \in DOMAIN target : m < l => l <= Len(target) + 1
      BY <2>1, RowFacts
    <3>2. QED BY <2>1, <3>1 DEF Sorted, C!Acceptable, C!Increasing
  <2>3. C!RowsOf(emitted) = {e \in C!Reference : Passed(e.key)} /\ Cardinality(C!RowsOf(emitted)) = Len(emitted)
    BY <1>2, <2>2 DEF EngineInv, EmittedInv, Started
  <2>4. \A e \in C!Reference : Passed(e.key)
    <3>1. SUFFICES ASSUME NEW e \in C!Reference PROVE Passed(e.key)
      OBVIOUS
    <3>2. (\E m \in DOMAIN source : source[m].key = e.key) \/ (\E n \in DOMAIN target : target[n].key = e.key)
      <4>1. CASE \E m \in DOMAIN source : e = C!OnlySource(source[m]) /\ source[m].key \notin C!KeysOf(target)
        BY <4>1 DEF C!OnlySource
      <4>2. CASE \E n \in DOMAIN target : e = C!OnlyTarget(target[n]) /\ target[n].key \notin C!KeysOf(source)
        BY <4>2 DEF C!OnlyTarget
      <4>3. ASSUME NEW m \in DOMAIN source, NEW n \in DOMAIN target, e = C!Pair(source[m], target[n])
            PROVE  source[m].key = e.key
        BY <4>3 DEF C!Pair
      <4>4. QED BY <4>1, <4>2, <4>3, ReferenceIs
    <3>3. QED BY <2>1, <3>2, RowFacts DEF Passed
  <2>5. C!RowsOf(emitted) = C!Reference
    BY <2>3, <2>4
  <2>6. QED BY <2>2, <2>3, <2>5
<1>3. engine = "failed" => ~(C!Acceptable(source) /\ C!Acceptable(target))
  BY DEF EngineInv, CheckedInv
<1>4. QED BY <1>2, <1>3, SameCardinality DEF C!EventsAreReference

\* Both ways of comparing give the reference when they get to their end, each
\* event once, and fail only for sides that must be refused: for sides of any
\* length and any relation between values, and whatever stops the run.
THEOREM ComparesByReference == ASSUME C!RowsAssumption PROVE C!Spec => []C!EventsAreReference
<1>1. C!Init => EngineInv
  BY EngineStarts DEF C!Init
<1>2. EngineInv /\ [C!Next]_(C!vars) => EngineInv'
  BY EngineKeeps
<1>3. EngineInv => C!EventsAreReference
  BY EngineInvMeansReference
<1>4. QED BY <1>1, <1>2, <1>3, PTL DEF C!Spec

-----------------------------------------------------------------------------
(* Proofs: the writer and the record of the run.                           *)

Events == [bucket : C!Buckets, key : Nat, source : Values \cup {C!None}, target : Values \cup {C!None}]

WriterTypes ==
  /\ format \in {"json", "parquet", "count_only"}
  /\ buffer \in [C!Buckets -> Seq(Events)] /\ disk \in [C!Buckets -> Seq(Events)] /\ count \in [C!Buckets -> Nat]
  /\ closing \in Seq(C!Buckets) /\ opened \subseteq C!Buckets /\ lost \subseteq opened

\* No exception has been raised yet.
Going == pc \in {"reserve", "mark", "read", "compare", "write", "finalize", "meta", "publish", "excel"}

\* Where run_task is goes with where the engine is, and with what is there of a result.
PlaceInv ==
  /\ pc \in {"reserve", "mark", "read"} => engine = "idle" /\ ~dir /\ disk = C!Empty
  /\ pc \in {"reserve", "mark", "read", "compare", "write"} => closing = C!BucketNames
  /\ pc \in {"finalize", "meta", "publish", "excel"} => engine = "done"
  /\ pc = "write" => engine = "yielded"
  /\ pc \in {"write", "cleanup", "finalize"} => format # "json"
  /\ pc = "excel" => format = "json"
  /\ pc \notin {"publish", "excel", "index", "ended", "stopped"} => meta = C!NoMeta
  /\ index \in C!Terminal => pc = "ended"

\* The events of a bucket that the writer has been given.
Written == IF pc = "write" THEN C!RowsOf(emitted) \ {C!Last} ELSE C!RowsOf(emitted)
WrittenTo(b) == {e \in Written : e.bucket = b}

\* Of sides that are accepted, each bucket holds these, once each: in memory, or
\* on disk and in the buffer, unless a file was deleted.
RowsInv ==
  C!Acceptable(source) /\ C!Acceptable(target) /\ Going => \A b \in C!Buckets :
    /\ format = "json" => C!RowsOf(buffer[b]) = WrittenTo(b) /\ Len(buffer[b]) = Cardinality(WrittenTo(b))
    /\ format # "json" => count[b] = Cardinality(WrittenTo(b))
    /\ format # "json" /\ lost = {} /\ C!Mode(b) = "full" =>
         /\ C!RowsOf(disk[b]) \cup C!RowsOf(buffer[b]) = WrittenTo(b)
         /\ Len(disk[b]) + Len(buffer[b]) = Cardinality(WrittenTo(b))

\* What finalize has flushed, and that no file it has measured is missing.
ClosedInv ==
  format # "json" =>
    /\ \A b \in C!Buckets : b \notin opened => disk[b] = <<>>
    /\ \A b \in C!Buckets : pc = "finalize" => b \in C!RowsOf(closing) \/ buffer[b] = <<>>
    /\ \A b \in C!Buckets : pc \in {"meta", "publish"} => buffer[b] = <<>>
    /\ pc = "meta" /\ dir => lost = {}
    /\ pc = "publish" /\ meta = C!Torn => lost = {}

ListedInv == C!Listed => pc \in {"excel", "index", "ended", "stopped"} /\ C!ListedIsComplete

\* What the index is going to say, and says.
IndexInv ==
  /\ pc = "cleanup" => verdict = "aborted_guard"
  /\ pc = "publish" => meta = C!Torn \/ deleted
  /\ pc = "excel" => C!Listed \/ deleted
  /\ (pc = "index" /\ verdict = "success") \/ index = "success" => C!Listed \/ deleted
  /\ (pc = "index" /\ verdict = "aborted_guard") \/ index = "aborted_guard" => ~dir /\ disk = C!Empty /\ meta = C!NoMeta

RunInv == EngineInv /\ WriterTypes /\ PlaceInv /\ RowsInv /\ ClosedInv /\ ListedInv /\ IndexInv

-----------------------------------------------------------------------------
\* What the engine's steps leave and do, as the run sees them.
LEMMA EngineSteps ==
  /\ C!Begin => engine = "idle" /\ engine' # "yielded" /\ UNCHANGED <<streaming, source, target, emitted>>
  /\ C!Event => engine = "compare" /\ engine' = "yielded" /\ UNCHANGED <<streaming, source, target>>
  /\ C!Advance \/ C!SkipTarget => engine \in {"yielded", "compare"} /\ UNCHANGED <<streaming, source, target, emitted>>
  /\ C!Finish => engine = "compare" /\ engine' = "done" /\ UNCHANGED <<streaming, source, target, emitted>>
  BY DEF C!Begin, C!Event, C!MergeSource, C!MergeTarget, C!MergePair, C!LookUp, C!LookUpTarget, C!Yield, C!Advance, C!SkipTarget, C!Finish, C!input

\* An event is appended to those that were emitted before.
LEMMA EventAppends ==
  ASSUME EngineTypes, C!Event
  PROVE  \E e \in Events : emitted' = Append(emitted, e)
<1>1. /\ \A m \in DOMAIN source : source[m] \in C!Rows
      /\ \A n \in DOMAIN target : target[n] \in C!Rows
      /\ \A t \in C!RowsOf(target) : t \in C!Rows
      /\ C!HasSource => left \in DOMAIN source
      /\ C!HasTarget => right \in DOMAIN target
  BY DEF EngineTypes, C!HasSource, C!HasTarget, C!RowsOf
<1>2. \A s, t \in C!Rows : C!OnlySource(s) \in Events /\ C!OnlyTarget(t) \in Events /\ C!Pair(s, t) \in Events
  BY EventTypes DEF Events
<1>3. CASE C!MergeSource
  <2>1. C!OnlySource(source[left]) \in Events /\ emitted' = Append(emitted, C!OnlySource(source[left]))
    BY <1>1, <1>2, <1>3 DEF C!MergeSource, C!Yield
  <2>2. QED BY <2>1
<1>4. CASE C!MergeTarget
  <2>1. C!OnlyTarget(target[right]) \in Events /\ emitted' = Append(emitted, C!OnlyTarget(target[right]))
    BY <1>1, <1>2, <1>4 DEF C!MergeTarget, C!Yield
  <2>2. QED BY <2>1
<1>5. CASE C!MergePair
  <2>1. C!Pair(source[left], target[right]) \in Events /\ emitted' = Append(emitted, C!Pair(source[left], target[right]))
    BY <1>1, <1>2, <1>5 DEF C!MergePair, C!Yield
  <2>2. QED BY <2>1
<1>6. CASE C!LookUp
  <2>1. CASE C!Yield(C!OnlySource(source[left]))
    <3>1. C!OnlySource(source[left]) \in Events /\ emitted' = Append(emitted, C!OnlySource(source[left]))
      BY <1>1, <1>2, <1>6, <2>1 DEF C!LookUp, C!Yield
    <3>2. QED BY <3>1
  <2>2. ASSUME NEW t \in C!RowsOf(target), C!Yield(C!Pair(source[left], t))
        PROVE  \E e \in Events : emitted' = Append(emitted, e)
    <3>1. C!Pair(source[left], t) \in Events /\ emitted' = Append(emitted, C!Pair(source[left], t))
      BY <1>1, <1>2, <1>6, <2>2 DEF C!LookUp, C!Yield
    <3>2. QED BY <3>1
  <2>3. QED BY <1>6, <2>1, <2>2 DEF C!LookUp
<1>7. CASE C!LookUpTarget
  <2>1. C!OnlyTarget(target[right]) \in Events /\ emitted' = Append(emitted, C!OnlyTarget(target[right]))
    BY <1>1, <1>2, <1>7 DEF C!LookUpTarget, C!Yield
  <2>2. QED BY <2>1
<1>8. QED BY <1>3, <1>4, <1>5, <1>6, <1>7 DEF C!Event

LEMMA LastIsEvent == ASSUME EngineInv, engine = "yielded" PROVE C!Last \in Events /\ C!Last \in C!RowsOf(emitted)
<1>1. emitted # <<>> /\ emitted \in Seq(Events)
  BY DEF EngineInv, CheckedInv, EngineTypes, Events
<1>2. emitted[Len(emitted)] \in Events /\ Len(emitted) \in DOMAIN emitted
  BY <1>1
<1>3. QED BY <1>2 DEF C!Last, C!RowsOf

-----------------------------------------------------------------------------
LEMMA WriterTypesStart == ASSUME C!Init PROVE WriterTypes
<1>1. \A b \in C!Buckets : <<>> \in Seq(Events)
  OBVIOUS
<1>2. C!BucketNames \in Seq(C!Buckets)
  BY DEF C!BucketNames, C!Buckets
<1>3. QED BY <1>1, <1>2 DEF C!Init, WriterTypes, C!Empty, C!Zero

LEMMA FlushTypes ==
  ASSUME WriterTypes, NEW b \in C!Buckets, NEW rows \in Seq(Events), C!Flush(b, rows)
  PROVE  /\ buffer' \in [C!Buckets -> Seq(Events)] /\ disk' \in [C!Buckets -> Seq(Events)]
         /\ opened' \subseteq C!Buckets /\ opened \subseteq opened'
<1>1. C!Stored(b, rows) \in Seq(Events)
  BY DEF C!Stored, WriterTypes
<1>2. <<>> \in Seq(Events)
  OBVIOUS
<1>3. QED BY <1>1, <1>2 DEF C!Flush, WriterTypes

LEMMA WriterTypesKeep == ASSUME EngineInv, PlaceInv, WriterTypes, [C!Next]_(C!vars) PROVE WriterTypes'
<1>e. C!Empty \in [C!Buckets -> Seq(Events)]
  BY DEF C!Empty
<1>1. CASE UNCHANGED <<format, buffer, count, closing, opened, lost, disk>>
  BY <1>1 DEF WriterTypes
<1>2. CASE C!Compare
  <2>1. PICK e \in Events : emitted' = Append(emitted, e)
    BY <1>2, EventAppends DEF C!Compare, EngineInv
  <2>2. C!Last' = e
    BY <2>1, OneMoreEvent DEF EngineInv, Events
  <2>3. /\ UNCHANGED <<format, count, closing, opened, lost, disk>>
        /\ UNCHANGED buffer \/ C!Collect(C!Last')
    BY <1>2 DEF C!Compare
  <2>4. e.bucket \in C!Buckets
    BY DEF Events
  <2>5. ASSUME buffer' = [buffer EXCEPT ![e.bucket] = Append(@, e)] PROVE buffer' \in [C!Buckets -> Seq(Events)]
    <3>1. buffer[e.bucket] \in Seq(Events)
      BY <2>4 DEF WriterTypes
    <3>2. Append(buffer[e.bucket], e) \in Seq(Events)
      BY <3>1
    <3>3. QED BY <2>5, <3>2 DEF WriterTypes
  <2>6. QED BY <2>2, <2>3, <2>5 DEF WriterTypes, C!Collect
<1>3. CASE C!Write
  <2>1. engine = "yielded"
    BY <1>3 DEF C!Write, PlaceInv
  <2>2. C!Last \in Events
    BY <2>1, LastIsEvent
  <2>3. C!Last.bucket \in C!Buckets
    BY <2>2 DEF Events
  <2> DEFINE b == C!Last.bucket
             rows == Append(buffer[b], C!Last)
  <2>4. rows \in Seq(Events)
    <3>1. buffer[b] \in Seq(Events)
      BY <2>3 DEF WriterTypes
    <3>2. QED BY <2>2, <3>1
  <2>5. /\ count' = [count EXCEPT ![b] = @ + 1] /\ UNCHANGED <<format, closing, lost>>
        /\ C!Keep(b, rows) \/ C!Flush(b, rows) \/ UNCHANGED <<buffer, disk, opened>>
    BY <1>3 DEF C!Write, C!FlushFails
  <2>6. count' \in [C!Buckets -> Nat]
    BY <2>3, <2>5 DEF WriterTypes
  <2> HIDE DEF b, rows
  <2>7. b \in C!Buckets
    BY <2>3 DEF b
  <2>8. CASE C!Keep(b, rows)
    BY <2>4, <2>5, <2>6, <2>7, <2>8 DEF C!Keep, WriterTypes
  <2>9. CASE C!Flush(b, rows)
    <3>1. /\ buffer' \in [C!Buckets -> Seq(Events)] /\ disk' \in [C!Buckets -> Seq(Events)]
          /\ opened' \subseteq C!Buckets /\ opened \subseteq opened'
      BY <2>4, <2>7, <2>9, FlushTypes
    <3>2. QED BY <2>5, <2>6, <3>1 DEF WriterTypes
  <2>10. CASE UNCHANGED <<buffer, disk, opened>>
    BY <2>5, <2>6, <2>10 DEF WriterTypes
  <2>11. QED BY <2>5, <2>8, <2>9, <2>10
<1>4. CASE C!FlushRest
  <2>1. closing \in Seq(C!Buckets) /\ closing # <<>> /\ closing' = Tail(closing)
    BY <1>4 DEF C!FlushRest, WriterTypes
  <2> DEFINE b == Head(closing)
  <2>2. b \in C!Buckets /\ closing' \in Seq(C!Buckets)
    BY <2>1
  <2>3. /\ UNCHANGED <<format, count, lost>>
        /\ C!Flush(b, buffer[b]) \/ UNCHANGED <<buffer, disk, opened>>
    BY <1>4 DEF C!FlushRest, C!FlushFails
  <2> HIDE DEF b
  <2>4. buffer[b] \in Seq(Events)
    BY <2>2 DEF WriterTypes
  <2>5. CASE C!Flush(b, buffer[b])
    <3>1. /\ buffer' \in [C!Buckets -> Seq(Events)] /\ disk' \in [C!Buckets -> Seq(Events)]
          /\ opened' \subseteq C!Buckets /\ opened \subseteq opened'
      BY <2>2, <2>4, <2>5, FlushTypes
    <3>2. QED BY <2>2, <2>3, <3>1 DEF WriterTypes
  <2>6. CASE UNCHANGED <<buffer, disk, opened>>
    BY <2>2, <2>3, <2>6 DEF WriterTypes
  <2>7. QED BY <2>3, <2>5, <2>6
<1>5. CASE C!CleanUp \/ C!Delete
  BY <1>e, <1>5 DEF C!CleanUp, C!Delete, WriterTypes
<1>6. CASE C!Publish
  BY <1>6 DEF C!Publish, WriterTypes
<1>7. QED BY <1>1, <1>2, <1>3, <1>4, <1>5, <1>6
  DEF C!Next, C!vars, C!writerVars, C!Reserve, C!MarkRunning, C!Read, C!ReadFails, C!MemoryAborts, C!Resume, C!Refuse, C!Compared, C!Measure, C!OpenMeta,
      C!WriteExcel, C!FinalizeIndex, C!Stop

-----------------------------------------------------------------------------
LEMMA PlaceStarts == ASSUME C!Init PROVE PlaceInv /\ IndexInv
  BY DEF C!Init, C!EngineInit, PlaceInv, IndexInv, C!Terminal, C!Listed, C!NoMeta

LEMMA PlaceKeeps == ASSUME PlaceInv, [C!Next]_(C!vars) PROVE PlaceInv'
<1>1. C!Reserve \/ C!MarkRunning \/ C!Read \/ C!ReadFails \/ C!MemoryAborts \/ C!Refuse => PlaceInv'
  BY EngineSteps DEF PlaceInv, C!Reserve, C!MarkRunning, C!Read, C!ReadFails, C!MemoryAborts, C!Refuse, C!End, C!Terminal, C!writerVars,
     C!engineVars
<1>2. C!Compare \/ C!Resume \/ C!Compared => PlaceInv'
  BY EngineSteps DEF PlaceInv, C!Compare, C!Resume, C!Compared, C!Collect, C!writerVars
<1>3. C!Write => PlaceInv'
  BY DEF PlaceInv, C!Write, C!DiskAborts, C!GoOn, C!FlushFails, C!End, C!Terminal, C!engineVars
<1>4. C!FlushRest \/ C!CleanUp \/ C!Measure => PlaceInv'
  BY DEF PlaceInv, C!FlushRest, C!FlushFails, C!CleanUp, C!Measure, C!End, C!engineVars
<1>5. C!OpenMeta \/ C!Publish \/ C!WriteExcel \/ C!FinalizeIndex => PlaceInv'
  BY DEF PlaceInv, C!OpenMeta, C!Publish, C!WriteExcel, C!FinalizeIndex, C!End, C!engineVars
<1>6. C!Stop \/ C!Delete => PlaceInv'
  BY DEF PlaceInv, C!Stop, C!Delete, C!engineVars, C!writerVars
<1>7. UNCHANGED C!vars => PlaceInv'
  BY DEF PlaceInv, C!vars, C!engineVars, C!writerVars
<1>8. QED BY <1>1, <1>2, <1>3, <1>4, <1>5, <1>6, <1>7 DEF C!Next

LEMMA IndexKeeps == ASSUME PlaceInv, IndexInv, [C!Next]_(C!vars) PROVE IndexInv'
<1>1. C!Reserve \/ C!MarkRunning \/ C!Read \/ C!ReadFails \/ C!MemoryAborts \/ C!Refuse => IndexInv'
  BY DEF PlaceInv, IndexInv, C!Reserve, C!MarkRunning, C!Read, C!ReadFails, C!MemoryAborts, C!Refuse, C!End, C!Terminal, C!writerVars, C!Listed, C!NoMeta
<1>2. C!Compare \/ C!Resume \/ C!Compared => IndexInv'
  BY DEF PlaceInv, IndexInv, C!Compare, C!Resume, C!Compared, C!Collect, C!writerVars, C!Listed, C!Terminal
<1>3. C!Write => IndexInv'
  BY DEF PlaceInv, IndexInv, C!Write, C!DiskAborts, C!GoOn, C!FlushFails, C!End, C!Terminal, C!Listed
<1>4. C!FlushRest \/ C!CleanUp \/ C!Measure => IndexInv'
  BY DEF PlaceInv, IndexInv, C!FlushRest, C!FlushFails, C!CleanUp, C!Measure, C!End, C!Listed, C!Terminal
<1>5. C!OpenMeta \/ C!Publish => IndexInv'
  BY DEF PlaceInv, IndexInv, C!OpenMeta, C!Publish, C!End, C!Listed, C!Torn, C!Envelope, C!Terminal
<1>6. C!WriteExcel \/ C!FinalizeIndex => IndexInv'
  BY DEF PlaceInv, IndexInv, C!WriteExcel, C!FinalizeIndex, C!Settled, C!End, C!Listed, C!Terminal
<1>7. C!Stop \/ C!Delete => IndexInv'
  BY DEF PlaceInv, IndexInv, C!Stop, C!Delete, C!Listed, C!writerVars, C!Terminal
<1>8. UNCHANGED C!vars => IndexInv'
  BY DEF IndexInv, C!vars, C!engineVars, C!writerVars, C!Listed
<1>9. QED BY <1>1, <1>2, <1>3, <1>4, <1>5, <1>6, <1>7, <1>8 DEF C!Next

\* The index never calls a run a success without its result, nor an aborted one
\* aborted while something of it is left: whatever fails and whenever it stops.
THEOREM IndexTellsTheDisk == C!Spec => []C!IndexMatchesDisk
<1>1. C!Init => PlaceInv /\ IndexInv
  BY PlaceStarts
<1>2. PlaceInv /\ IndexInv /\ [C!Next]_(C!vars) => (PlaceInv /\ IndexInv)'
  BY PlaceKeeps, IndexKeeps
<1>3. IndexInv => C!IndexMatchesDisk
  BY DEF IndexInv, C!IndexMatchesDisk
<1>4. QED BY <1>1, <1>2, <1>3, PTL DEF C!Spec

-----------------------------------------------------------------------------
\* A step that leaves the events and the rows alone, and where the writer is.
LEMMA RowsStand ==
  ASSUME RowsInv, UNCHANGED <<streaming, source, target, emitted, format, buffer, count, disk, lost>>,
         Going' => Going /\ (pc' = "write" <=> pc = "write")
  PROVE  RowsInv'
<1>1. SUFFICES ASSUME (C!Acceptable(source) /\ C!Acceptable(target) /\ Going)' PROVE RowsInv'
  BY DEF RowsInv
<1>2. C!Acceptable(source) /\ C!Acceptable(target) /\ Going
  BY <1>1 DEF C!Acceptable, C!Increasing, C!Distinct
<1>3. C!RowsOf(emitted') = C!RowsOf(emitted) /\ C!Last' = C!Last
  BY DEF C!RowsOf, C!Last
<1>4. \A b \in C!Buckets : WrittenTo(b)' = WrittenTo(b)
  BY <1>1, <1>3 DEF WrittenTo, Written
<1>5. \A b \in C!Buckets : C!RowsOf(buffer'[b]) = C!RowsOf(buffer[b]) /\ C!RowsOf(disk'[b]) = C!RowsOf(disk[b])
  BY DEF C!RowsOf
<1>6. QED BY <1>2, <1>4, <1>5 DEF RowsInv, C!Mode

\* One more row.
LEMMA AppendRow ==
  ASSUME NEW rows \in Seq(Events), NEW e \in Events
  PROVE  C!RowsOf(Append(rows, e)) = C!RowsOf(rows) \cup {e} /\ Len(Append(rows, e)) = Len(rows) + 1
<1>1. /\ DOMAIN rows = 1..Len(rows) /\ Len(rows) \in Nat
      /\ DOMAIN Append(rows, e) = 1..(Len(rows) + 1) /\ Len(Append(rows, e)) = Len(rows) + 1
      /\ Append(rows, e)[Len(rows) + 1] = e
      /\ \A k \in 1..Len(rows) : Append(rows, e)[k] = rows[k]
  OBVIOUS
<1>2. 1..(Len(rows) + 1) = 1..Len(rows) \cup {Len(rows) + 1}
  BY <1>1
<1>3. QED BY <1>1, <1>2 DEF C!RowsOf

LEMMA JoinRows ==
  ASSUME NEW a \in Seq(Events), NEW c \in Seq(Events)
  PROVE  C!RowsOf(a \o c) = C!RowsOf(a) \cup C!RowsOf(c) /\ Len(a \o c) = Len(a) + Len(c)
<1>1. /\ DOMAIN a = 1..Len(a) /\ Len(a) \in Nat /\ DOMAIN c = 1..Len(c) /\ Len(c) \in Nat
      /\ DOMAIN (a \o c) = 1..(Len(a) + Len(c)) /\ Len(a \o c) = Len(a) + Len(c)
      /\ \A k \in 1..(Len(a) + Len(c)) : (a \o c)[k] = IF k <= Len(a) THEN a[k] ELSE c[k - Len(a)]
  OBVIOUS
<1>2. ASSUME NEW k \in 1..(Len(a) + Len(c)) PROVE (a \o c)[k] \in C!RowsOf(a) \cup C!RowsOf(c)
  <2>1. CASE k <= Len(a)
    BY <1>1, <2>1 DEF C!RowsOf
  <2>2. CASE ~(k <= Len(a))
    <3>1. k - Len(a) \in 1..Len(c)
      BY <1>1, <2>2
    <3>2. QED BY <1>1, <2>2, <3>1 DEF C!RowsOf
  <2>3. QED BY <2>1, <2>2
<1>3. ASSUME NEW k \in 1..Len(a) PROVE a[k] \in C!RowsOf(a \o c)
  <2>1. k \in 1..(Len(a) + Len(c)) /\ (a \o c)[k] = a[k]
    BY <1>1
  <2>2. QED BY <1>1, <2>1 DEF C!RowsOf
<1>4. ASSUME NEW k \in 1..Len(c) PROVE c[k] \in C!RowsOf(a \o c)
  <2>1. Len(a) + k \in 1..(Len(a) + Len(c)) /\ ~(Len(a) + k <= Len(a)) /\ (Len(a) + k) - Len(a) = k
    BY <1>1
  <2>2. (a \o c)[Len(a) + k] = c[k]
    BY <1>1, <2>1
  <2>3. QED BY <1>1, <2>1, <2>2 DEF C!RowsOf
<1>5. QED BY <1>1, <1>2, <1>3, <1>4 DEF C!RowsOf

LEMMA AddOne == \A m, n \in Nat : m + (n + 1) = (m + n) + 1
  OBVIOUS

LEMMA EmptyRows == C!RowsOf(<<>>) = {} /\ Len(<<>>) = 0
  BY DEF C!RowsOf

\* One event more in the set of a bucket.
LEMMA OneMoreRow ==
  ASSUME NEW S, IsFiniteSet(S), NEW e, e \notin S, NEW T, T = S \cup {e}
  PROVE  Cardinality(T) = Cardinality(S) + 1 /\ Cardinality(S) \in Nat
  BY FS_AddElement, FS_CardinalityType

\* Written grows by the new event, in its bucket.
LEMMA WrittenGrows ==
  ASSUME NEW e \in Events, IsFiniteSet(Written), e \notin Written, Written' = Written \cup {e}
  PROVE  \A b \in C!Buckets :
           /\ b = e.bucket => /\ WrittenTo(b)' = WrittenTo(b) \cup {e}
                              /\ Cardinality(WrittenTo(b)') = Cardinality(WrittenTo(b)) + 1
           /\ b # e.bucket => WrittenTo(b)' = WrittenTo(b)
           /\ Cardinality(WrittenTo(b)) \in Nat
<1>1. SUFFICES ASSUME NEW b \in C!Buckets
               PROVE  /\ b = e.bucket => /\ WrittenTo(b)' = WrittenTo(b) \cup {e}
                                         /\ Cardinality(WrittenTo(b)') = Cardinality(WrittenTo(b)) + 1
                      /\ b # e.bucket => WrittenTo(b)' = WrittenTo(b)
                      /\ Cardinality(WrittenTo(b)) \in Nat
  OBVIOUS
<1>2. WrittenTo(b) \subseteq Written
  BY DEF WrittenTo
<1>3. IsFiniteSet(WrittenTo(b)) /\ e \notin WrittenTo(b)
  BY <1>2, FS_Subset
<1>4. b = e.bucket => WrittenTo(b)' = WrittenTo(b) \cup {e}
  BY DEF WrittenTo
<1>5. b # e.bucket => WrittenTo(b)' = WrittenTo(b)
  BY DEF WrittenTo
<1>6. Cardinality(WrittenTo(b)) \in Nat
  BY <1>3, FS_CardinalityType
<1>7. ASSUME b = e.bucket PROVE Cardinality(WrittenTo(b)') = Cardinality(WrittenTo(b)) + 1
  BY <1>3, <1>4, <1>7, OneMoreRow
<1>8. QED BY <1>4, <1>5, <1>6, <1>7

\* An event is not among those emitted before it.
LEMMA CompareKeepsRows == ASSUME EngineInv, EngineInv', PlaceInv, WriterTypes, RowsInv, C!Compare PROVE RowsInv'
<1>1. /\ engine = "compare" /\ engine' = "yielded" /\ UNCHANGED <<streaming, source, target, format, count, disk, lost>>
      /\ pc = "compare" /\ C!Event
      /\ IF format = "json" THEN pc' = "compare" /\ C!Collect(C!Last') ELSE pc' = "write" /\ UNCHANGED buffer
  BY EngineSteps DEF C!Compare
<1>2. PICK e \in Events : emitted' = Append(emitted, e)
  BY <1>1, EventAppends DEF EngineInv
<1>3. C!RowsOf(emitted') = C!RowsOf(emitted) \cup {e} /\ C!Last' = e
  BY <1>2, OneMoreEvent DEF EngineInv, Events
<1>4. SUFFICES ASSUME (C!Acceptable(source) /\ C!Acceptable(target) /\ Going)' PROVE RowsInv'
  BY DEF RowsInv
<1>5. C!Acceptable(source) /\ C!Acceptable(target) /\ Going
  BY <1>1, <1>4 DEF C!Acceptable, C!Increasing, C!Distinct, Going
<1>6. e \notin C!RowsOf(emitted) /\ IsFiniteSet(C!RowsOf(emitted))
  <2>1. C!RowsOf(emitted) = {f \in C!Reference : Passed(f.key)} /\ IsFiniteSet(C!RowsOf(emitted))
    BY <1>1, <1>5 DEF EngineInv, EmittedInv, Started
  <2>2. ~Passed(C!Last.key)'
    BY <1>1, <1>4 DEF EngineInv, EmittedInv, Started
  <2>3. Passed(C!Last.key)' <=> Passed(e.key)
    <3>1. left' = left /\ right' = right
      BY <1>1 DEF C!Event, C!MergeSource, C!MergeTarget, C!MergePair, C!LookUp, C!LookUpTarget, C!Yield
    <3>2. QED BY <1>1, <1>3, <3>1 DEF Passed
  <2>4. QED BY <2>1, <2>2, <2>3
<1>7. Written = C!RowsOf(emitted)
  BY <1>1 DEF Written
<1>8. CASE format = "json"
  <2>1. Written' = Written \cup {e} /\ e \notin Written /\ IsFiniteSet(Written)
    BY <1>1, <1>3, <1>6, <1>7, <1>8 DEF Written
  <2>2. buffer' = [buffer EXCEPT ![e.bucket] = Append(@, e)] /\ e.bucket \in C!Buckets
    BY <1>1, <1>3, <1>8 DEF C!Collect, Events
  <2>3. \A b \in C!Buckets : /\ b = e.bucket => buffer'[b] = Append(buffer[b], e)
                             /\ b # e.bucket => buffer'[b] = buffer[b]
                             /\ buffer[b] \in Seq(Events)
    BY <2>2 DEF WriterTypes
  <2>4. ASSUME NEW b \in C!Buckets
        PROVE  C!RowsOf(buffer'[b]) = WrittenTo(b)' /\ Len(buffer'[b]) = Cardinality(WrittenTo(b)')
    <3>1. C!RowsOf(buffer[b]) = WrittenTo(b) /\ Len(buffer[b]) = Cardinality(WrittenTo(b))
      BY <1>5, <1>8 DEF RowsInv
    <3>2. CASE b = e.bucket
      <4>1. /\ C!RowsOf(buffer'[b]) = C!RowsOf(buffer[b]) \cup {e} /\ Len(buffer'[b]) = Len(buffer[b]) + 1
        <5>0. e \in Events
          BY <1>2
        <5>a. buffer'[b] = Append(buffer[b], e)
          BY <2>3, <3>2
        <5>b. buffer[b] \in Seq(Events)
          BY <2>3
        <5>1. buffer[b] \in Seq(Events) /\ e \in Events /\ buffer'[b] = Append(buffer[b], e)
          BY <5>0, <5>a, <5>b
        <5> DEFINE rows == buffer[b]
        <5> HIDE DEF rows
        <5>2. rows \in Seq(Events) /\ buffer'[b] = Append(rows, e) /\ rows = buffer[b]
          BY <5>1 DEF rows
        <5>3. C!RowsOf(Append(rows, e)) = C!RowsOf(rows) \cup {e} /\ Len(Append(rows, e)) = Len(rows) + 1
          BY <5>1, <5>2, AppendRow
        <5>4. QED BY <5>2, <5>3
      <4>2. /\ WrittenTo(b)' = WrittenTo(b) \cup {e}
            /\ Cardinality(WrittenTo(b)') = Cardinality(WrittenTo(b)) + 1
        BY <2>1, <3>2, WrittenGrows
      <4>3. QED BY <3>1, <4>1, <4>2
    <3>3. CASE b # e.bucket
      <4>1. WrittenTo(b)' = WrittenTo(b)
        BY <2>1, <3>3, WrittenGrows
      <4>2. QED BY <2>3, <3>1, <3>3, <4>1
    <3>4. QED BY <3>2, <3>3
  <2>5. QED BY <1>1, <1>8, <2>4 DEF RowsInv
<1>9. CASE format # "json"
  <2>1. Written' = Written
    BY <1>1, <1>3, <1>6, <1>7, <1>9 DEF Written
  <2>2. \A b \in C!Buckets : WrittenTo(b)' = WrittenTo(b)
    BY <2>1 DEF WrittenTo
  <2>3. UNCHANGED buffer
    BY <1>1, <1>9
  <2>4. \A b \in C!Buckets : C!RowsOf(buffer[b])' = C!RowsOf(buffer[b]) /\ C!RowsOf(disk[b])' = C!RowsOf(disk[b])
    BY <1>1, <2>3 DEF C!RowsOf
  <2>5. QED BY <1>1, <1>5, <1>9, <2>2, <2>3, <2>4 DEF RowsInv, C!Mode
<1>10. QED BY <1>8, <1>9

\* What a flush leaves of a bucket's rows, and of the others.
LEMMA FlushedRows ==
  ASSUME WriterTypes, NEW b \in C!Buckets, NEW rows \in Seq(Events), C!Flush(b, rows), lost = {}
  PROVE  \A c \in C!Buckets :
           /\ c = b => /\ C!RowsOf(disk'[c]) \cup C!RowsOf(buffer'[c]) = C!RowsOf(disk[c]) \cup C!RowsOf(rows)
                       /\ Len(disk'[c]) + Len(buffer'[c]) = Len(disk[c]) + Len(rows)
           /\ c # b => disk'[c] = disk[c] /\ buffer'[c] = buffer[c]
<1>1. /\ disk' = [disk EXCEPT ![b] = disk[b] \o rows] /\ buffer' = [buffer EXCEPT ![b] = <<>>]
      /\ disk[b] \in Seq(Events)
  BY DEF C!Flush, C!Stored, WriterTypes
<1>2. /\ \A c \in C!Buckets : c # b => disk'[c] = disk[c] /\ buffer'[c] = buffer[c]
      /\ disk'[b] = disk[b] \o rows /\ buffer'[b] = <<>>
  BY <1>1 DEF WriterTypes
<1>3. C!RowsOf(disk[b] \o rows) = C!RowsOf(disk[b]) \cup C!RowsOf(rows) /\ Len(disk[b] \o rows) = Len(disk[b]) + Len(rows)
  BY <1>1, JoinRows
<1>4. Len(disk[b]) + Len(rows) + 0 = Len(disk[b]) + Len(rows)
  BY <1>1
<1>5. QED BY <1>2, <1>3, <1>4, EmptyRows

LEMMA WriteKeepsRows == ASSUME EngineInv, PlaceInv, WriterTypes, RowsInv, C!Write PROVE RowsInv'
<1>1. /\ pc = "write" /\ engine = "yielded" /\ format # "json"
      /\ UNCHANGED <<streaming, source, target, emitted, format, lost>>
  BY DEF C!Write, PlaceInv, C!engineVars, C!input
<1>2. C!Last \in Events /\ C!Last \in C!RowsOf(emitted)
  BY <1>1, LastIsEvent
<1>3. SUFFICES ASSUME (C!Acceptable(source) /\ C!Acceptable(target) /\ Going)' PROVE RowsInv'
  BY DEF RowsInv
<1>4. C!Acceptable(source) /\ C!Acceptable(target) /\ Going
  BY <1>1, <1>3 DEF C!Acceptable, C!Increasing, C!Distinct, Going
<1>5. pc' = "compare"
  BY <1>3 DEF C!Write, C!DiskAborts, C!GoOn, C!FlushFails, C!End, Going
<1> DEFINE e == C!Last
           b == e.bucket
           rows == Append(buffer[b], e)
<1>6. b \in C!Buckets /\ e \in Events
  BY <1>2 DEF Events
<1>7. /\ count' = [count EXCEPT ![b] = @ + 1]
      /\ \/ b = "same" /\ format = "count_only" /\ UNCHANGED <<buffer, disk>>
         \/ C!Mode(b) = "full" /\ (C!Keep(b, rows) \/ C!Flush(b, rows))
  BY <1>5 DEF C!Write, C!FlushFails, C!End, C!Mode
<1>8. Written' = Written \cup {e} /\ e \notin Written /\ IsFiniteSet(Written)
  <2>1. Written = C!RowsOf(emitted) \ {C!Last} /\ Written' = C!RowsOf(emitted')
    BY <1>1, <1>5 DEF Written
  <2>2. IsFiniteSet(C!RowsOf(emitted))
    BY <1>1, <1>4 DEF EngineInv, EmittedInv, Started
  <2>3. IsFiniteSet(C!RowsOf(emitted) \ {C!Last})
    BY <2>2, FS_Subset
  <2>4. C!RowsOf(emitted') = C!RowsOf(emitted)
    BY <1>1
  <2>5. QED BY <1>2, <2>1, <2>3, <2>4
<1> HIDE DEF e
<1>9. \A c \in C!Buckets :
        /\ c = b => WrittenTo(c)' = WrittenTo(c) \cup {e} /\ Cardinality(WrittenTo(c)') = Cardinality(WrittenTo(c)) + 1
        /\ c # b => WrittenTo(c)' = WrittenTo(c)
        /\ Cardinality(WrittenTo(c)) \in Nat
  BY <1>6, <1>8, WrittenGrows
<1> HIDE DEF b
<1>10. \A c \in C!Buckets : count'[c] = Cardinality(WrittenTo(c)')
  <2>1. \A c \in C!Buckets : count[c] = Cardinality(WrittenTo(c))
    BY <1>1, <1>4 DEF RowsInv
  <2>2. \A c \in C!Buckets : count'[c] = IF c = b THEN count[c] + 1 ELSE count[c]
    BY <1>7 DEF WriterTypes
  <2>3. QED BY <1>9, <2>1, <2>2
<1>11. /\ buffer[b] \in Seq(Events) /\ disk[b] \in Seq(Events)
  BY <1>6 DEF WriterTypes
<1>12. rows \in Seq(Events) /\ C!RowsOf(rows) = C!RowsOf(buffer[b]) \cup {e} /\ Len(rows) = Len(buffer[b]) + 1
  BY <1>6, <1>11, AppendRow
<1> HIDE DEF rows
<1>13. ASSUME lost = {}, NEW c \in C!Buckets, C!Mode(c) = "full"
       PROVE  /\ C!RowsOf(disk'[c]) \cup C!RowsOf(buffer'[c]) = WrittenTo(c)'
              /\ Len(disk'[c]) + Len(buffer'[c]) = Cardinality(WrittenTo(c)')
  <2>1. /\ C!RowsOf(disk[c]) \cup C!RowsOf(buffer[c]) = WrittenTo(c)
        /\ Len(disk[c]) + Len(buffer[c]) = Cardinality(WrittenTo(c))
    BY <1>1, <1>4, <1>13 DEF RowsInv
  <2>2. CASE b = "same" /\ format = "count_only" /\ UNCHANGED <<buffer, disk>>
    <3>1. c # b
      BY <1>13, <2>2 DEF C!Mode
    <3>2. QED BY <1>9, <2>1, <2>2, <3>1
  <2>3. CASE C!Keep(b, rows)
    <3>1. UNCHANGED disk /\ buffer' = [buffer EXCEPT ![b] = rows]
      BY <2>3 DEF C!Keep
    <3>2. CASE c = b
      <4>1. disk'[c] = disk[c] /\ buffer'[c] = rows
        BY <3>1, <3>2 DEF WriterTypes
      <4>2. C!RowsOf(disk'[c]) \cup C!RowsOf(buffer'[c]) = WrittenTo(c)'
        BY <1>9, <1>12, <2>1, <3>2, <4>1
      <4>3. /\ Len(disk[c]) \in Nat /\ Len(buffer[c]) \in Nat /\ Len(rows) = Len(buffer[c]) + 1
            /\ Cardinality(WrittenTo(c)') = Cardinality(WrittenTo(c)) + 1
        BY <1>9, <1>11, <1>12, <3>2
      <4>4. Len(disk'[c]) + Len(buffer'[c]) = Cardinality(WrittenTo(c)')
        <5>1. Len(disk[c]) + (Len(buffer[c]) + 1) = (Len(disk[c]) + Len(buffer[c])) + 1
          BY <4>3, AddOne
        <5>2. QED BY <2>1, <4>1, <4>3, <5>1
      <4>5. QED BY <4>2, <4>4
    <3>3. CASE c # b
      <4>1. disk'[c] = disk[c] /\ buffer'[c] = buffer[c]
        BY <3>1, <3>3 DEF WriterTypes
      <4>2. QED BY <1>9, <2>1, <3>3, <4>1
    <3>4. QED BY <3>2, <3>3
  <2>4. CASE C!Flush(b, rows)
    <3>1. /\ c = b => /\ C!RowsOf(disk'[c]) \cup C!RowsOf(buffer'[c]) = C!RowsOf(disk[c]) \cup C!RowsOf(rows)
                      /\ Len(disk'[c]) + Len(buffer'[c]) = Len(disk[c]) + Len(rows)
          /\ c # b => disk'[c] = disk[c] /\ buffer'[c] = buffer[c]
      BY <1>6, <1>12, <1>13, <2>4, FlushedRows
    <3>2. CASE c = b
      <4>1. C!RowsOf(disk'[c]) \cup C!RowsOf(buffer'[c]) = WrittenTo(c)'
        BY <1>9, <1>12, <2>1, <3>1, <3>2
      <4>2. /\ Len(disk[c]) \in Nat /\ Len(buffer[c]) \in Nat /\ Len(rows) = Len(buffer[c]) + 1
            /\ Cardinality(WrittenTo(c)') = Cardinality(WrittenTo(c)) + 1
        BY <1>9, <1>11, <1>12, <3>2
      <4>3. Len(disk'[c]) + Len(buffer'[c]) = Cardinality(WrittenTo(c)')
        <5>1. Len(disk[c]) + (Len(buffer[c]) + 1) = (Len(disk[c]) + Len(buffer[c])) + 1
          BY <4>2, AddOne
        <5>2. QED BY <2>1, <3>1, <3>2, <4>2, <5>1
      <4>4. QED BY <4>1, <4>3
    <3>3. CASE c # b
      BY <1>9, <2>1, <3>1, <3>3
    <3>4. QED BY <3>2, <3>3
  <2>5. QED BY <1>7, <2>2, <2>3, <2>4
<1>14. QED BY <1>1, <1>10, <1>13 DEF RowsInv, C!Mode

LEMMA FlushRestKeepsRows == ASSUME WriterTypes, PlaceInv, RowsInv, C!FlushRest PROVE RowsInv'
<1>1. /\ pc = "finalize" /\ format # "json" /\ UNCHANGED <<streaming, source, target, emitted, format, count, lost>>
      /\ closing \in Seq(C!Buckets) /\ closing # <<>>
  BY DEF C!FlushRest, PlaceInv, WriterTypes, C!engineVars, C!input
<1> DEFINE b == Head(closing)
<1>2. b \in C!Buckets
  BY <1>1
<1>3. \/ C!Flush(b, buffer[b]) /\ pc' = pc
      \/ UNCHANGED <<buffer, disk>>
  BY DEF C!FlushRest, C!FlushFails
<1> HIDE DEF b
<1>4. buffer[b] \in Seq(Events)
  BY <1>2 DEF WriterTypes
<1>5. CASE UNCHANGED <<buffer, disk>>
  <2>1. Going' => Going /\ (pc' = "write" <=> pc = "write")
    BY <1>1 DEF C!FlushRest, C!FlushFails, C!End, Going
  <2>2. QED BY <1>1, <1>5, <2>1, RowsStand
<1>6. CASE C!Flush(b, buffer[b]) /\ pc' = pc
  <2>1. SUFFICES ASSUME (C!Acceptable(source) /\ C!Acceptable(target) /\ Going)' PROVE RowsInv'
    BY DEF RowsInv
  <2>2. C!Acceptable(source) /\ C!Acceptable(target) /\ Going
    BY <1>1, <1>6, <2>1 DEF C!Acceptable, C!Increasing, C!Distinct, Going
  <2>3. Written' = Written
    BY <1>1, <1>6 DEF Written, C!RowsOf
  <2>4. \A c \in C!Buckets : WrittenTo(c)' = WrittenTo(c)
    BY <2>3 DEF WrittenTo
  <2>5. ASSUME lost = {}, NEW c \in C!Buckets
        PROVE  /\ C!RowsOf(disk'[c]) \cup C!RowsOf(buffer'[c]) = C!RowsOf(disk[c]) \cup C!RowsOf(buffer[c])
               /\ Len(disk'[c]) + Len(buffer'[c]) = Len(disk[c]) + Len(buffer[c])
    BY <1>2, <1>4, <1>6, <2>5, FlushedRows
  <2>6. QED BY <1>1, <2>2, <2>4, <2>5 DEF RowsInv, C!Mode
<1>7. QED BY <1>3, <1>5, <1>6

LEMMA RowsStart == ASSUME C!Init PROVE RowsInv
<1>1. SUFFICES ASSUME NEW b \in C!Buckets
               PROVE  /\ C!RowsOf(buffer[b]) = WrittenTo(b) /\ Len(buffer[b]) = Cardinality(WrittenTo(b))
                      /\ count[b] = Cardinality(WrittenTo(b))
                      /\ C!RowsOf(disk[b]) \cup C!RowsOf(buffer[b]) = WrittenTo(b)
                      /\ Len(disk[b]) + Len(buffer[b]) = Cardinality(WrittenTo(b))
  BY DEF RowsInv
<1>2. buffer[b] = <<>> /\ disk[b] = <<>> /\ count[b] = 0
  BY DEF C!Init, C!Empty, C!Zero
<1>3. emitted = <<>> /\ pc = "reserve"
  BY DEF C!Init, C!EngineInit
<1>4. WrittenTo(b) = {}
  BY <1>3, EmptyRows DEF WrittenTo, Written
<1>5. QED BY <1>2, <1>4, EmptyRows, FS_EmptySet

\* A deletion takes the files; the rows are all there still only if there were none.
LEMMA DeleteKeepsRows == ASSUME WriterTypes, ClosedInv, RowsInv, C!Delete PROVE RowsInv'
<1>1. /\ UNCHANGED <<streaming, source, target, emitted, format, count, buffer, pc>>
      /\ lost' = opened /\ disk' = C!Empty
  BY DEF C!Delete, C!engineVars, C!input
<1>2. SUFFICES ASSUME (C!Acceptable(source) /\ C!Acceptable(target) /\ Going)' PROVE RowsInv'
  BY DEF RowsInv
<1>3. C!Acceptable(source) /\ C!Acceptable(target) /\ Going
  BY <1>1, <1>2 DEF C!Acceptable, C!Increasing, C!Distinct, Going
<1>4. Written' = Written
  BY <1>1 DEF Written, C!RowsOf, C!Last
<1>5. \A c \in C!Buckets : WrittenTo(c)' = WrittenTo(c)
  BY <1>4 DEF WrittenTo
<1>6. ASSUME lost' = {}, format # "json" PROVE lost = {} /\ disk' = disk
  <2>1. opened = {} /\ lost = {}
    BY <1>1, <1>6 DEF WriterTypes
  <2>2. \A b \in C!Buckets : disk[b] = <<>>
    BY <1>6, <2>1 DEF ClosedInv
  <2>3. QED BY <1>1, <2>1, <2>2 DEF WriterTypes, C!Empty
<1>7. \A c \in C!Buckets : C!RowsOf(buffer[c])' = C!RowsOf(buffer[c]) /\ C!Mode(c)' = C!Mode(c)
  BY <1>1 DEF C!RowsOf, C!Mode
<1>8. ASSUME disk' = disk PROVE \A c \in C!Buckets : C!RowsOf(disk[c])' = C!RowsOf(disk[c])
  BY <1>8 DEF C!RowsOf
<1>9. QED BY <1>1, <1>3, <1>5, <1>6, <1>7, <1>8 DEF RowsInv

LEMMA RowsKeep ==
  ASSUME EngineInv, EngineInv', PlaceInv, WriterTypes, ClosedInv, RowsInv, [C!Next]_(C!vars)
  PROVE  RowsInv'
<1>1. CASE C!Reserve \/ C!MarkRunning \/ C!Read \/ C!ReadFails \/ C!MemoryAborts \/ C!Resume \/ C!Refuse \/ C!Compared \/ C!CleanUp
             \/ C!Measure \/ C!OpenMeta \/ C!WriteExcel \/ C!FinalizeIndex \/ C!Stop
  <2>0. CASE C!CleanUp
    BY <2>0 DEF C!CleanUp, RowsInv, Going
  <2>1. CASE C!Reserve \/ C!MarkRunning \/ C!Read \/ C!ReadFails \/ C!MemoryAborts \/ C!Resume \/ C!Refuse \/ C!Compared
    <3>1. UNCHANGED <<streaming, source, target, emitted, format, buffer, count, disk, lost>>
      BY <2>1, EngineSteps DEF C!Reserve, C!MarkRunning, C!Read, C!ReadFails, C!MemoryAborts, C!Resume, C!Refuse, C!Compared, C!engineVars,
         C!writerVars, C!input
    <3>2. Going' => Going /\ (pc' = "write" <=> pc = "write")
      BY <2>1 DEF C!Reserve, C!MarkRunning, C!Read, C!ReadFails, C!MemoryAborts, C!Resume, C!Refuse, C!Compared, C!End, Going
    <3>3. QED BY <3>1, <3>2, RowsStand
  <2>2. CASE C!Measure \/ C!OpenMeta \/ C!WriteExcel \/ C!FinalizeIndex \/ C!Stop
    <3>1. UNCHANGED <<streaming, source, target, emitted, format, buffer, count, disk, lost>>
      BY <2>2 DEF C!Measure, C!OpenMeta, C!WriteExcel, C!FinalizeIndex, C!Stop, C!engineVars, C!writerVars, C!input
    <3>2. Going' => Going /\ (pc' = "write" <=> pc = "write")
      BY <2>2 DEF C!Measure, C!OpenMeta, C!WriteExcel, C!FinalizeIndex, C!Stop, C!End, Going
    <3>3. QED BY <3>1, <3>2, RowsStand
  <2>3. QED BY <1>1, <2>0, <2>1, <2>2
<1>2. CASE C!Publish
  <2>1. UNCHANGED <<streaming, source, target, emitted, format, buffer, count, lost>>
    BY <1>2 DEF C!Publish, C!engineVars, C!input
  <2>2. Going' => Going /\ (pc' = "write" <=> pc = "write")
    BY <1>2 DEF C!Publish, C!End, Going
  <2>3. CASE UNCHANGED disk
    BY <2>1, <2>2, <2>3, RowsStand
  <2>4. CASE ~UNCHANGED disk
    <3>1. format = "json" /\ pc = "publish"
      BY <1>2, <2>4 DEF C!Publish
    <3>2. SUFFICES ASSUME (C!Acceptable(source) /\ C!Acceptable(target) /\ Going)' PROVE RowsInv'
      BY DEF RowsInv
    <3>3. C!Acceptable(source) /\ C!Acceptable(target) /\ Going
      BY <2>1, <2>2, <3>2 DEF C!Acceptable, C!Increasing, C!Distinct
    <3>4. Written' = Written
      BY <2>1, <2>2, <3>1, <3>2 DEF Written, C!RowsOf
    <3>5. \A c \in C!Buckets : WrittenTo(c)' = WrittenTo(c) /\ C!RowsOf(buffer[c])' = C!RowsOf(buffer[c])
      BY <2>1, <3>4 DEF WrittenTo, C!RowsOf
    <3>6. QED BY <2>1, <3>1, <3>3, <3>5 DEF RowsInv
  <2>5. QED BY <2>3, <2>4
<1>3. CASE UNCHANGED C!vars
  <2>1. UNCHANGED <<streaming, source, target, emitted, format, buffer, count, disk, lost, pc>>
    BY <1>3 DEF C!vars, C!engineVars, C!writerVars, C!input
  <2>2. Going' => Going /\ (pc' = "write" <=> pc = "write")
    BY <2>1 DEF Going
  <2>3. QED BY <2>1, <2>2, RowsStand
<1>4. QED BY <1>1, <1>2, <1>3, CompareKeepsRows, WriteKeepsRows, FlushRestKeepsRows, DeleteKeepsRows DEF C!Next

-----------------------------------------------------------------------------
LEMMA ClosedStarts == ASSUME C!Init PROVE ClosedInv
  BY DEF C!Init, ClosedInv, C!Empty

LEMMA ClosedStands ==
  ASSUME ClosedInv, UNCHANGED <<format, opened, disk, buffer, closing, lost>>,
         pc' \notin {"finalize", "meta", "publish"} \/ (UNCHANGED <<pc, dir, meta>>)
  PROVE  ClosedInv'
  BY DEF ClosedInv, C!RowsOf

LEMMA ClosedKeeps == ASSUME EngineInv, PlaceInv, WriterTypes, ClosedInv, [C!Next]_(C!vars) PROVE ClosedInv'
<1>1. CASE format = "json"
  <2>1. format' = format
    BY DEF C!Next, C!vars, C!writerVars, C!Reserve, C!MarkRunning, C!Read, C!ReadFails, C!MemoryAborts, C!Compare, C!Resume, C!Refuse,
       C!Compared, C!Write, C!CleanUp, C!FlushRest, C!Measure, C!OpenMeta, C!Publish, C!WriteExcel, C!FinalizeIndex, C!Stop, C!Delete
  <2>2. QED BY <1>1, <2>1 DEF ClosedInv
<1>2. CASE format # "json"
  <2>1. CASE C!Reserve \/ C!MarkRunning \/ C!Read \/ C!ReadFails \/ C!MemoryAborts \/ C!Compare \/ C!Resume \/ C!Refuse
    <3>1. UNCHANGED <<format, opened, disk, buffer, closing, lost>> /\ pc' \notin {"finalize", "meta", "publish"}
      BY <1>2, <2>1 DEF C!Reserve, C!MarkRunning, C!Read, C!ReadFails, C!MemoryAborts, C!Compare, C!Resume, C!Refuse, C!End, C!writerVars
    <3>2. QED BY <3>1, ClosedStands
  <2>2. CASE C!WriteExcel \/ C!FinalizeIndex \/ C!Stop \/ UNCHANGED C!vars
    <3>1. /\ UNCHANGED <<format, opened, disk, buffer, closing, lost>>
          /\ pc' \notin {"finalize", "meta", "publish"} \/ UNCHANGED <<pc, dir, meta>>
      BY <1>2, <2>2 DEF C!WriteExcel, C!FinalizeIndex, C!Stop, C!End, C!vars, C!writerVars
    <3>2. QED BY <3>1, ClosedStands
  <2>3. CASE C!Publish
    BY <1>2, <2>3 DEF C!Publish, C!End, ClosedInv
  <2>4. CASE C!Compared
    <3>1. /\ UNCHANGED <<format, opened, disk, buffer, closing, lost>> /\ pc' = "finalize" /\ closing = C!BucketNames
      BY <1>2, <2>4 DEF C!Compared, PlaceInv
    <3>2. \A b \in C!Buckets : b \in C!RowsOf(closing)'
      <4>1. C!BucketNames[1] = "only_source" /\ C!BucketNames[2] = "only_target" /\ C!BucketNames[3] = "diff"
              /\ C!BucketNames[4] = "same" /\ DOMAIN C!BucketNames = 1..4
        BY DEF C!BucketNames
      <4>2. C!RowsOf(C!BucketNames) = C!Buckets
        BY <4>1 DEF C!RowsOf, C!Buckets
      <4>3. C!RowsOf(closing)' = C!RowsOf(C!BucketNames)
        BY <3>1 DEF C!RowsOf
      <4>4. QED BY <4>2, <4>3
    <3>3. QED BY <3>1, <3>2 DEF ClosedInv
  <2>5. CASE C!Write
    <3>1. C!Last.bucket \in C!Buckets
      BY <2>5, LastIsEvent DEF C!Write, PlaceInv, Events
    <3> DEFINE b == C!Last.bucket
    <3>2. /\ pc' \notin {"finalize", "meta", "publish"} /\ UNCHANGED format
          /\ \/ opened' = opened \cup {b} /\ disk' = [disk EXCEPT ![b] = C!Stored(b, Append(buffer[b], C!Last))]
             \/ UNCHANGED <<opened, disk>>
      BY <2>5 DEF C!Write, C!DiskAborts, C!GoOn, C!FlushFails, C!End, C!Keep, C!Flush
    <3> HIDE DEF b
    <3>3. \A c \in C!Buckets : c \notin opened' => disk'[c] = <<>>
      BY <1>2, <3>1, <3>2 DEF ClosedInv, WriterTypes
    <3>4. QED BY <3>2, <3>3 DEF ClosedInv
  <2>6. CASE C!CleanUp
    <3>1. pc' \notin {"finalize", "meta", "publish"} /\ disk' = C!Empty /\ UNCHANGED format
      BY <2>6 DEF C!CleanUp
    <3>2. QED BY <3>1 DEF ClosedInv, C!Empty
  <2>7. CASE C!FlushRest
    <3>1. closing \in Seq(C!Buckets) /\ closing # <<>> /\ closing' = Tail(closing) /\ pc = "finalize" /\ UNCHANGED format
      BY <2>7 DEF C!FlushRest, WriterTypes
    <3> DEFINE b == Head(closing)
    <3>2. b \in C!Buckets /\ \A c \in C!RowsOf(closing) : c = b \/ c \in C!RowsOf(closing')
      <4>1. /\ closing[1] = b /\ b \in C!Buckets /\ DOMAIN closing = 1..Len(closing) /\ Len(closing) \in Nat \ {0}
            /\ DOMAIN closing' = 1..(Len(closing) - 1)
            /\ \A k \in 1..(Len(closing) - 1) : closing'[k] = closing[k + 1]
        BY <3>1
      <4>2. ASSUME NEW k \in 1..Len(closing), k # 1 PROVE closing[k] \in C!RowsOf(closing')
        <5>1. k - 1 \in 1..(Len(closing) - 1) /\ (k - 1) + 1 = k
          BY <4>1, <4>2
        <5>2. closing'[k - 1] = closing[k]
          BY <4>1, <5>1
        <5>3. QED BY <4>1, <5>1, <5>2 DEF C!RowsOf
      <4>3. QED BY <4>1, <4>2 DEF C!RowsOf
    <3>3. \/ pc' = "index" /\ UNCHANGED <<opened, disk>>
          \/ /\ pc' = "finalize" /\ opened' = opened \cup {b}
             /\ disk' = [disk EXCEPT ![b] = C!Stored(b, buffer[b])] /\ buffer' = [buffer EXCEPT ![b] = <<>>]
          \/ pc' = "finalize" /\ buffer[b] = <<>> /\ UNCHANGED <<buffer, opened, disk>>
      BY <2>7 DEF C!FlushRest, C!FlushFails, C!Flush, C!End
    <3> HIDE DEF b
    <3>4. \A c \in C!Buckets : c \notin opened' => disk'[c] = <<>>
      BY <1>2, <3>2, <3>3 DEF ClosedInv, WriterTypes
    <3>5. ASSUME NEW c \in C!Buckets, pc' = "finalize" PROVE c \in C!RowsOf(closing') \/ buffer'[c] = <<>>
      <4>1. c \in C!RowsOf(closing) \/ buffer[c] = <<>>
        BY <1>2, <3>1 DEF ClosedInv
      <4>2. QED BY <3>2, <3>3, <3>5, <4>1 DEF WriterTypes
    <3>6. pc' \notin {"meta", "publish"}
      BY <3>3
    <3>7. QED BY <3>4, <3>5, <3>6 DEF ClosedInv
  <2>8. CASE C!Measure
    <3>1. /\ UNCHANGED <<format, opened, disk, buffer, lost>> /\ pc = "finalize" /\ closing = <<>>
          /\ \/ pc' = "meta" /\ lost = {}
             \/ pc' = "index"
      BY <2>8 DEF C!Measure, C!End
    <3>2. \A b \in C!Buckets : buffer[b] = <<>>
      BY <1>2, <3>1, EmptyRows DEF ClosedInv
    <3>3. QED BY <1>2, <3>1, <3>2 DEF ClosedInv
  <2>9. CASE C!OpenMeta
    <3>1. /\ UNCHANGED <<format, opened, disk, buffer, lost>> /\ pc = "meta"
          /\ (pc' = "publish" /\ dir) \/ pc' = "index"
      BY <1>2, <2>9 DEF C!OpenMeta, C!End
    <3>2. QED BY <1>2, <3>1 DEF ClosedInv
  <2>10. CASE C!Delete
    <3>1. /\ UNCHANGED <<format, opened, buffer, closing, pc>> /\ disk' = C!Empty /\ dir' = FALSE /\ meta' = C!NoMeta
      BY <2>10 DEF C!Delete
    <3>2. meta' # C!Torn
      BY <3>1 DEF C!NoMeta, C!Torn
    <3>3. \A b \in C!Buckets : disk'[b] = <<>>
      BY <3>1 DEF C!Empty
    <3>4. C!RowsOf(closing)' = C!RowsOf(closing)
      BY <3>1 DEF C!RowsOf
    <3>5. QED BY <1>2, <3>1, <3>2, <3>3, <3>4 DEF ClosedInv
  <2>11. QED BY <2>1, <2>2, <2>3, <2>4, <2>5, <2>6, <2>7, <2>8, <2>9, <2>10 DEF C!Next
<1>3. QED BY <1>1, <1>2

-----------------------------------------------------------------------------
\* Events of which each row of a side has one are as many as the rows.
LEMMA OnePerRow ==
  ASSUME NEW rows \in Seq(C!Rows), C!Distinct(rows), NEW S,
         \A e \in S : \E m \in DOMAIN rows : rows[m].key = e.key,
         \A m \in DOMAIN rows : \E e \in S : e.key = rows[m].key,
         \A e, f \in S : e.key = f.key => e = f
  PROVE  IsFiniteSet(S) /\ Cardinality(S) = Len(rows)
<1> DEFINE row == [e \in S |-> CHOOSE m \in DOMAIN rows : rows[m].key = e.key]
<1>1. \A e \in S : row[e] \in DOMAIN rows /\ rows[row[e]].key = e.key
  OBVIOUS
<1>2. DOMAIN rows = 1..Len(rows) /\ Len(rows) \in Nat
  OBVIOUS
<1>3. row \in [S -> 1..Len(rows)]
  BY <1>1, <1>2
<1> HIDE DEF row
<1>4. ASSUME NEW e \in S, NEW f \in S, row[e] = row[f] PROVE e = f
  <2>1. rows[row[e]].key = e.key /\ rows[row[f]].key = f.key
    BY <1>1
  <2>2. e.key = f.key
    BY <1>4, <2>1
  <2>3. QED BY <2>2
<1>5. ASSUME NEW m \in 1..Len(rows) PROVE \E e \in S : row[e] = m
  <2>1. PICK e \in S : e.key = rows[m].key
    BY <1>2
  <2>2. row[e] \in DOMAIN rows /\ rows[row[e]].key = rows[m].key
    BY <1>1, <2>1
  <2>3. row[e] = m
    BY <1>2, <2>2 DEF C!Distinct
  <2>4. QED BY <2>3
<1>6. row \in Bijection(S, 1..Len(rows))
  <2>1. row \in Injection(S, 1..Len(rows))
    BY <1>3, <1>4, Fun_IsInj
  <2>2. row \in Surjection(S, 1..Len(rows))
    BY <1>3, <1>5, Fun_IsSurj
  <2>3. QED BY <2>1, <2>2 DEF Bijection
<1>7. ExistsBijection(1..Len(rows), S)
  <2>1. ExistsBijection(S, 1..Len(rows))
    BY <1>6 DEF ExistsBijection
  <2>2. QED BY <2>1, Fun_ExistsBijSymmetric
<1>8. IsFiniteSet(1..Len(rows)) /\ Cardinality(1..Len(rows)) = Len(rows)
  BY <1>2, FS_Interval
<1>9. QED BY <1>7, <1>8, FS_Bijection

\* Three sets apart from each other.
LEMMA ThreeParts ==
  ASSUME NEW S, NEW A, NEW B, NEW D, IsFiniteSet(S), S = A \cup B \cup D,
         A \cap B = {}, A \cap D = {}, B \cap D = {}
  PROVE  Cardinality(S) = Cardinality(A) + Cardinality(B) + Cardinality(D)
<1>1. IsFiniteSet(A) /\ IsFiniteSet(B) /\ IsFiniteSet(D) /\ IsFiniteSet(A \cup B)
  <2>1. A \subseteq S /\ B \subseteq S /\ D \subseteq S /\ (A \cup B) \subseteq S
    OBVIOUS
  <2>2. QED BY <2>1, FS_Subset
<1>2. /\ Cardinality(A) \in Nat /\ Cardinality(B) \in Nat /\ Cardinality(D) \in Nat
      /\ Cardinality(A \cup B) \in Nat
  BY <1>1, FS_CardinalityType
<1>3. Cardinality(A \cup B) = Cardinality(A) + Cardinality(B) - Cardinality(A \cap B)
  BY <1>1, FS_Union
<1>4. Cardinality((A \cup B) \cup D) = Cardinality(A \cup B) + Cardinality(D) - Cardinality((A \cup B) \cap D)
  BY <1>1, FS_Union
<1>5. Cardinality((A \cup B) \cap D) = 0 /\ Cardinality(A \cap B) = 0 /\ S = (A \cup B) \cup D
  <2>1. (A \cup B) \cap D = {} /\ A \cap B = {} /\ S = (A \cup B) \cup D
    OBVIOUS
  <2>2. QED BY <2>1, FS_EmptySet
<1>6. Cardinality(A \cup B) = Cardinality(A) + Cardinality(B)
  BY <1>2, <1>3, <1>5
<1>7. Cardinality((A \cup B) \cup D) = Cardinality(A \cup B) + Cardinality(D)
  BY <1>2, <1>4, <1>5
<1>8. QED BY <1>5, <1>6, <1>7

Expected(b) == {e \in C!Reference : e.bucket = b}

\* The reference has an event for each row of the source, and one for each row
\* of the target: what the tallies of the streaming loop count.
LEMMA ReferenceCounts ==
  ASSUME EngineTypes, C!Distinct(source), C!Distinct(target)
  PROVE  /\ Len(source) = Cardinality(Expected("same")) + Cardinality(Expected("diff"))
                            + Cardinality(Expected("only_source"))
         /\ Len(target) = Cardinality(Expected("same")) + Cardinality(Expected("diff"))
                            + Cardinality(Expected("only_target"))
<1>1. /\ source \in Seq(C!Rows) /\ target \in Seq(C!Rows)
      /\ \A m \in DOMAIN source : source[m] \in C!Rows
      /\ \A n \in DOMAIN target : target[n] \in C!Rows
  BY RowFacts DEF EngineTypes
<1>2. \A e, f \in C!Reference : e.key = f.key => e = f
  BY <1>1, OneEventPerKey
<1>3. ASSUME NEW e \in C!Reference
      PROVE  /\ e.bucket \in C!Buckets
             /\ e.bucket # "only_target" => \E m \in DOMAIN source : source[m].key = e.key
             /\ e.bucket # "only_source" => \E n \in DOMAIN target : target[n].key = e.key
  <2>1. ASSUME NEW m \in DOMAIN source, e = C!OnlySource(source[m])
        PROVE  e.bucket = "only_source" /\ source[m].key = e.key
    BY <2>1 DEF C!OnlySource
  <2>2. ASSUME NEW n \in DOMAIN target, e = C!OnlyTarget(target[n])
        PROVE  e.bucket = "only_target" /\ target[n].key = e.key
    BY <2>2 DEF C!OnlyTarget
  <2>3. ASSUME NEW m \in DOMAIN source, NEW n \in DOMAIN target, source[m].key = target[n].key,
               e = C!Pair(source[m], target[n])
        PROVE  e.bucket \in {"same", "diff"} /\ source[m].key = e.key /\ target[n].key = e.key
    BY <2>3 DEF C!Pair
  <2>4. QED BY <2>1, <2>2, <2>3, ReferenceIs DEF C!Buckets
<1>4. ASSUME NEW m \in DOMAIN source
      PROVE  \E e \in C!Reference : e.key = source[m].key /\ e.bucket # "only_target"
  <2>1. CASE source[m].key \notin C!KeysOf(target)
    <3>1. C!OnlySource(source[m]) \in C!Reference
      BY <2>1, ReferenceIs
    <3>2. C!OnlySource(source[m]).key = source[m].key /\ C!OnlySource(source[m]).bucket # "only_target"
      BY DEF C!OnlySource
    <3>3. QED BY <3>1, <3>2
  <2>2. ASSUME NEW n \in DOMAIN target, target[n].key = source[m].key
        PROVE  \E e \in C!Reference : e.key = source[m].key /\ e.bucket # "only_target"
    <3>1. C!Pair(source[m], target[n]) \in C!Reference
      BY <2>2, ReferenceIs
    <3>2. C!Pair(source[m], target[n]).key = source[m].key /\ C!Pair(source[m], target[n]).bucket # "only_target"
      BY DEF C!Pair
    <3>3. QED BY <3>1, <3>2
  <2>3. QED BY <2>1, <2>2 DEF C!KeysOf
<1>5. ASSUME NEW n \in DOMAIN target
      PROVE  \E e \in C!Reference : e.key = target[n].key /\ e.bucket # "only_source"
  <2>1. CASE target[n].key \notin C!KeysOf(source)
    <3>1. C!OnlyTarget(target[n]) \in C!Reference
      BY <2>1, ReferenceIs
    <3>2. C!OnlyTarget(target[n]).key = target[n].key /\ C!OnlyTarget(target[n]).bucket # "only_source"
      BY DEF C!OnlyTarget
    <3>3. QED BY <3>1, <3>2
  <2>2. ASSUME NEW m \in DOMAIN source, source[m].key = target[n].key
        PROVE  \E e \in C!Reference : e.key = target[n].key /\ e.bucket # "only_source"
    <3>1. C!Pair(source[m], target[n]) \in C!Reference
      BY <2>2, ReferenceIs
    <3>2. C!Pair(source[m], target[n]).key = target[n].key /\ C!Pair(source[m], target[n]).bucket # "only_source"
      BY <2>2 DEF C!Pair
    <3>3. QED BY <3>1, <3>2
  <2>3. QED BY <2>1, <2>2 DEF C!KeysOf
<1> DEFINE FromS == {e \in C!Reference : e.bucket # "only_target"}
           FromT == {e \in C!Reference : e.bucket # "only_source"}
<1>6. IsFiniteSet(FromS) /\ Cardinality(FromS) = Len(source)
  BY <1>1, <1>2, <1>3, <1>4, OnePerRow
<1>7. IsFiniteSet(FromT) /\ Cardinality(FromT) = Len(target)
  BY <1>1, <1>2, <1>3, <1>5, OnePerRow
<1>8. /\ FromS = Expected("same") \cup Expected("diff") \cup Expected("only_source")
      /\ FromT = Expected("same") \cup Expected("diff") \cup Expected("only_target")
  BY <1>3 DEF Expected, C!Buckets
<1>9. /\ Expected("same") \cap Expected("diff") = {} /\ Expected("same") \cap Expected("only_source") = {}
      /\ Expected("diff") \cap Expected("only_source") = {} /\ Expected("same") \cap Expected("only_target") = {}
      /\ Expected("diff") \cap Expected("only_target") = {}
  BY DEF Expected
<1> HIDE DEF FromS, FromT
<1>10. QED BY <1>6, <1>7, <1>8, <1>9, ThreeParts

-----------------------------------------------------------------------------
\* The file that makes the run a result says and holds what the reference does.
LEMMA PublishesTheReference ==
  ASSUME EngineInv, C!EventsAreReference, PlaceInv, WriterTypes, ClosedInv, RowsInv, C!Publish, meta = C!Torn
  PROVE  C!Listed' => C!ListedIsComplete'
<1>1. SUFFICES ASSUME C!Listed' PROVE C!ListedIsComplete'
  OBVIOUS
<1>2. /\ pc = "publish" /\ engine = "done" /\ UNCHANGED <<streaming, source, target, format>>
      /\ meta' = C!Envelope /\ disk' = IF format = "json" THEN buffer ELSE disk
  BY <1>1 DEF C!Publish, PlaceInv, C!Listed, C!Torn, C!engineVars, C!input
<1>3. /\ C!Acceptable(source) /\ C!Acceptable(target) /\ C!RowsOf(emitted) = C!Reference
      /\ C!Distinct(source) /\ C!Distinct(target)
  BY <1>2, AcceptableIsDistinct, SameCardinality DEF C!EventsAreReference, EngineInv, EngineTypes
<1>4. \A b \in C!Buckets : WrittenTo(b) = Expected(b)
  BY <1>2, <1>3 DEF WrittenTo, Written, Expected
<1>5. Going
  BY <1>2 DEF Going
<1>6. \A b \in C!Buckets : C!RowsIn(b) = Cardinality(Expected(b))
  BY <1>3, <1>4, <1>5 DEF C!RowsIn, RowsInv
<1>7. ASSUME NEW b \in C!Buckets, C!Mode(b) = "full"
      PROVE  C!RowsOf(disk'[b]) = Expected(b) /\ Len(disk'[b]) = Cardinality(Expected(b))
  <2>1. CASE format = "json"
    BY <1>2, <1>3, <1>4, <1>5, <2>1 DEF RowsInv
  <2>2. CASE format # "json"
    <3>1. lost = {} /\ buffer[b] = <<>> /\ disk' = disk
      BY <1>2, <2>2 DEF ClosedInv
    <3>2. /\ C!RowsOf(disk[b]) \cup C!RowsOf(buffer[b]) = Expected(b)
          /\ Len(disk[b]) + Len(buffer[b]) = Cardinality(Expected(b))
      BY <1>3, <1>4, <1>5, <1>7, <2>2, <3>1 DEF RowsInv
    <3>3. disk[b] \in Seq(Events) /\ Len(disk[b]) \in Nat
      BY DEF WriterTypes
    <3>4. Len(disk[b]) + 0 = Len(disk[b])
      BY <3>3
    <3>5. QED BY <3>1, <3>2, <3>4, EmptyRows
  <2>3. QED BY <2>1, <2>2
<1>8. C!SourceRows = Len(source) /\ C!TargetRows = Len(target)
  <2>1. {"same", "diff", "only_source", "only_target"} \subseteq C!Buckets
    BY DEF C!Buckets
  <2>2. CASE streaming
    <3>1. /\ Len(source) = C!RowsIn("same") + C!RowsIn("diff") + C!RowsIn("only_source")
          /\ Len(target) = C!RowsIn("same") + C!RowsIn("diff") + C!RowsIn("only_target")
      BY <1>3, <1>6, <2>1, ReferenceCounts DEF EngineInv
    <3>2. QED BY <2>2, <3>1 DEF C!SourceRows, C!TargetRows
  <2>3. CASE ~streaming
    BY <2>3 DEF C!SourceRows, C!TargetRows
  <2>4. QED BY <2>2, <2>3 DEF EngineInv, EngineTypes
<1>9. /\ meta'.source = Len(source) /\ meta'.target = Len(target)
      /\ \A b \in C!Buckets : meta'.rows[b] = Cardinality(Expected(b))
  BY <1>2, <1>6, <1>8 DEF C!Envelope
<1>10. \A b \in C!Buckets : {e \in C!Reference : e.bucket = b}' = Expected(b) /\ C!Mode(b)' = C!Mode(b)
  BY <1>2 DEF Expected, C!Reference, C!RowsOf, C!KeysOf, C!Mode
<1>11. \A b \in C!Buckets : C!RowsOf(disk[b])' = C!RowsOf(disk'[b])
  BY DEF C!RowsOf
<1>12. QED BY <1>2, <1>7, <1>9, <1>10, <1>11, SameCardinality DEF C!ListedIsComplete

\* A result stays what it is.
LEMMA ListedStands ==
  ASSUME ListedInv, UNCHANGED <<streaming, source, target, format, disk, meta>>,
         C!Listed => pc' \in {"excel", "index", "ended", "stopped"}
  PROVE  ListedInv'
<1>1. SUFFICES ASSUME C!Listed' PROVE pc' \in {"excel", "index", "ended", "stopped"} /\ C!ListedIsComplete'
  BY DEF ListedInv
<1>2. C!Listed /\ C!ListedIsComplete
  BY <1>1 DEF ListedInv, C!Listed
<1>3. \A b \in C!Buckets : {e \in C!Reference : e.bucket = b}' = {e \in C!Reference : e.bucket = b}
  BY DEF C!Reference, C!RowsOf, C!KeysOf
<1>4. \A b \in C!Buckets : C!RowsOf(disk[b])' = C!RowsOf(disk[b]) /\ C!Mode(b)' = C!Mode(b)
  BY DEF C!RowsOf, C!Mode
<1>5. QED BY <1>1, <1>2, <1>3, <1>4 DEF C!ListedIsComplete, C!Listed

LEMMA ListedKeeps ==
  ASSUME EngineInv, C!EventsAreReference, PlaceInv, WriterTypes, ClosedInv, RowsInv, ListedInv, IndexInv, [C!Next]_(C!vars)
  PROVE  ListedInv'
<1>1. CASE UNCHANGED <<streaming, source, target, format, disk, meta>> /\ (pc' = pc \/ pc' \in {"index", "ended", "stopped"})
  BY <1>1, ListedStands DEF ListedInv
<1>2. CASE meta' = C!NoMeta
  BY <1>2 DEF ListedInv, C!Listed, C!NoMeta
<1>3. CASE C!Publish
  <2>1. CASE meta = C!Torn
    <3>1. C!Listed' => C!ListedIsComplete'
      BY <1>3, <2>1, PublishesTheReference
    <3>2. pc' \in {"excel", "index"}
      BY <1>3 DEF C!Publish, C!End
    <3>3. QED BY <3>1, <3>2 DEF ListedInv
  <2>2. CASE meta # C!Torn
    <3>1. UNCHANGED <<streaming, source, target, format, disk, meta>> /\ pc' \in {"excel", "index"}
      BY <1>3, <2>2 DEF C!Publish, C!End, C!engineVars, C!input
    <3>2. QED BY <3>1, ListedStands
  <2>3. QED BY <2>1, <2>2
<1>4. CASE C!OpenMeta
  <2>1. meta' = C!Torn \/ (UNCHANGED <<streaming, source, target, format, disk, meta>> /\ pc' = "index")
    BY <1>4 DEF C!OpenMeta, C!End, C!engineVars, C!input
  <2>2. QED BY <1>1, <2>1 DEF ListedInv, C!Listed, C!Torn
<1>5. CASE C!Reserve \/ C!MarkRunning \/ C!Read \/ C!Compare \/ C!Resume \/ C!Compared \/ C!Write \/ C!CleanUp \/ C!FlushRest \/ C!Measure
  <2>1. meta = C!NoMeta /\ UNCHANGED meta
    BY <1>5 DEF PlaceInv, C!Reserve, C!MarkRunning, C!Read, C!Compare, C!Resume, C!Compared, C!Write, C!CleanUp, C!FlushRest, C!Measure, C!writerVars
  <2>2. QED BY <1>2, <2>1
<1>6. CASE C!ReadFails \/ C!MemoryAborts \/ C!Refuse \/ C!WriteExcel \/ C!FinalizeIndex \/ C!Stop \/ UNCHANGED C!vars
  <2>1. UNCHANGED <<streaming, source, target, format, disk, meta>> /\ (pc' = pc \/ pc' \in {"index", "ended", "stopped"})
    BY <1>6 DEF C!ReadFails, C!MemoryAborts, C!Refuse, C!WriteExcel, C!FinalizeIndex, C!Stop, C!End, C!vars, C!writerVars, C!engineVars, C!input
  <2>2. QED BY <1>1, <2>1
<1>7. CASE C!Delete
  BY <1>2, <1>7 DEF C!Delete
<1>8. QED BY <1>3, <1>4, <1>5, <1>6, <1>7 DEF C!Next

\* The run starts right, and every step keeps what is kept of it.
LEMMA RunInvHolds ==
  ASSUME C!RowsAssumption
  PROVE  (C!Init => RunInv) /\ (RunInv /\ [C!Next]_(C!vars) => RunInv')
<1>1. ASSUME C!Init PROVE RunInv
  <2>1. ListedInv
    BY <1>1 DEF C!Init, ListedInv, C!Listed, C!NoMeta
  <2>2. EngineInv
    BY <1>1, EngineStarts DEF C!Init
  <2>3. QED BY <1>1, <2>1, <2>2, WriterTypesStart, PlaceStarts, RowsStart, ClosedStarts DEF RunInv
<1>2. ASSUME RunInv, [C!Next]_(C!vars) PROVE RunInv'
  <2>1. C!EventsAreReference
    BY <1>2, EngineInvMeansReference DEF RunInv
  <2>2. EngineInv /\ WriterTypes /\ PlaceInv /\ RowsInv /\ ClosedInv /\ ListedInv /\ IndexInv
    BY <1>2 DEF RunInv
  <2>3. EngineInv'
    BY <1>2, <2>2, EngineKeeps
  <2>4. RowsInv'
    BY <1>2, <2>2, <2>3, RowsKeep
  <2>5. WriterTypes' /\ PlaceInv' /\ ClosedInv' /\ ListedInv' /\ IndexInv'
    BY <1>2, <2>1, <2>2, WriterTypesKeep, PlaceKeeps, ClosedKeeps, ListedKeeps, IndexKeeps
  <2>6. QED BY <2>3, <2>4, <2>5 DEF RunInv
<1>3. QED BY <1>1, <1>2

\* A result that is listed is the right one and all of it, whatever the mode and the
\* format, however the rows fell into flushes, whatever failed before, wherever
\* the process stopped and whenever somebody deleted it.
THEOREM ResultsAreComplete == ASSUME C!RowsAssumption PROVE C!Spec => []C!ListedIsComplete
<1>1. RunInv => C!ListedIsComplete
  BY DEF RunInv, ListedInv, C!ListedIsComplete
<1>2. QED BY <1>1, RunInvHolds, PTL DEF C!Spec

-----------------------------------------------------------------------------
(* The comparison as a part of MCWorkflows.                                *)

LEMMA CompareStarts == ASSUME SuiteInit PROVE part = "compare" => C!Init
BY DEF SuiteInit

LEMMA CompareStep ==
  ASSUME [SuiteNext]_suiteVars
  PROVE  part' = part /\ (part = "compare" => [C!Next]_(C!vars))
<1>1. CASE UNCHANGED suiteVars
  BY <1>1 DEF suiteVars, named, sharedVars, compareOnly, C!vars, C!engineVars, C!input, C!writerVars
<1>2. CASE SuiteNext
  BY <1>2 DEF SuiteNext
<1>3. QED BY <1>1, <1>2

\* What is kept of a comparison, in a behaviour of the suite.
LEMMA CompareInvHolds ==
  (SuiteInit => (part = "compare" => RunInv)) /\
  ((part = "compare" => RunInv) /\ [SuiteNext]_suiteVars => (part = "compare" => RunInv)')
<1>1. SuiteInit => (part = "compare" => RunInv)
  BY SuiteAssumption, CompareStarts, RunInvHolds
<1>2. (part = "compare" => RunInv) /\ [SuiteNext]_suiteVars => (part = "compare" => RunInv)'
  BY SuiteAssumption, CompareStep, RunInvHolds
<1>3. QED BY <1>1, <1>2

\* compare_sorted_row_events and compare_rows_streaming give the reference and each
\* event of it once, or refuse what they must: for sides of any length, and any
\* relation between values.
THEOREM EventsAreReferenceAlways == SuiteSpec => []EventsAreReference
<1>1. (part = "compare" => RunInv) => EventsAreReference
  BY EngineInvMeansReference DEF RunInv, EventsAreReference
<1>2. QED BY <1>1, CompareInvHolds, PTL DEF SuiteSpec

\* A result that the history lists is the whole reference, and what run_index says of
\* a run agrees with its files: for every size of the batches and of the sides, a
\* failure, a stop or a deletion at any point.
THEOREM ResultsAreWholeAlways == SuiteSpec => []ResultsAreWhole
<1>1. (part = "compare" => RunInv) => ResultsAreWhole
  BY DEF RunInv, ListedInv, IndexInv, ResultsAreWhole, C!ListedIsComplete, C!IndexMatchesDisk
<1>2. QED BY <1>1, CompareInvHolds, PTL DEF SuiteSpec
=============================================================================
