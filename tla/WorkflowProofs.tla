--------------------------- MODULE WorkflowProofs ---------------------------
(***************************************************************************)
(* Proofs about the sort of a workflow (TopologicalSort), about what is up *)
(* and downstream of a node (Dag), and about the runs of WorkflowEngine.   *)
(*                                                                         *)
(* The operators of Dag are defined by recursion over the natural numbers. *)
(* What such a function is, and what all of its values have in common, is  *)
(* had here from the least number of a set, without an induction theorem   *)
(* that takes an operator.                                                 *)
(*                                                                         *)
(* The runs keep two invariants.  RunInv says where the loop is in the     *)
(* order, and that what it blocked has a cause.  UneditedInv says of a     *)
(* workflow that is not edited that the run that is resumed, and so the    *)
(* one that is made of it, fit together.                                   *)
(***************************************************************************)
EXTENDS MCWorkflows, FiniteSetTheorems, WellFoundedInduction, TLAPS

-----------------------------------------------------------------------------
(* Induction over the natural numbers, by the least counterexample, and    *)
(* what it says of functions that are defined by recursion.                *)

\* A set of numbers that is not empty has a least one.
LEMMA LeastNat ==
  ASSUME NEW S, S \subseteq Nat, S # {}
  PROVE  \E m \in S : \A n \in S : m <= n
<1>1. IsWellFoundedOn(OpToRel(<, Nat), Nat)
  BY NatLessThanWellFounded
<1>2. \E m \in S : \A n \in S : <<n, m>> \notin OpToRel(<, Nat)
  BY <1>1, WFMin
<1>3. \A m, n \in Nat : <<n, m>> \in OpToRel(<, Nat) <=> n < m
  BY DEF OpToRel
<1>4. \A m, n \in Nat : ~(n < m) => m <= n
  OBVIOUS
<1>5. QED BY <1>2, <1>3, <1>4

\* A set with 0 and the successor of each of its numbers has them all.
LEMMA Induction ==
  ASSUME NEW S, 0 \in S, \A k \in Nat : k \in S => k + 1 \in S
  PROVE  Nat \subseteq S
<1> SUFFICES ASSUME Nat \ S # {} PROVE FALSE
  OBVIOUS
<1>1. PICK m \in Nat \ S : \A n \in Nat \ S : m <= n
  BY LeastNat
<1>2. m # 0 /\ m - 1 \in Nat /\ (m - 1) + 1 = m /\ ~(m <= m - 1)
  BY <1>1
<1>3. m - 1 \in S
  BY <1>1, <1>2
<1>4. QED BY <1>1, <1>2, <1>3

\* The values that a step makes from a beginning are those of a function.
LEMMA Iteration ==
  ASSUME NEW X, NEW a \in X, NEW s \in [X -> X]
  PROVE  \E f \in [Nat -> X] : f[0] = a /\ \A k \in Nat : f[k + 1] = s[f[k]]
<1> DEFINE Good(n, f) == f \in [0..n -> X] /\ f[0] = a /\ \A k \in 0..(n-1) : f[k + 1] = s[f[k]]
           HasGood == {n \in Nat : \E f : Good(n, f)}
<1>1. Nat \subseteq HasGood
  <2>1. 0 \in HasGood
    <3>1. Good(0, [k \in 0..0 |-> a])
      OBVIOUS
    <3>2. QED BY <3>1
  <2>2. ASSUME NEW m \in Nat, m \in HasGood PROVE m + 1 \in HasGood
    <3>1. PICK f : Good(m, f)
      BY <2>2
    <3> DEFINE h == [k \in 0..(m + 1) |-> IF k = m + 1 THEN s[f[m]] ELSE f[k]]
    <3>2. f[m] \in X
      BY <3>1
    <3>3. h \in [0..(m + 1) -> X] /\ h[0] = a
      BY <3>1, <3>2
    <3>4. ASSUME NEW k \in 0..((m + 1) - 1) PROVE h[k + 1] = s[h[k]]
      BY <3>1, <3>4
    <3>5. Good(m + 1, h)
      BY <3>3, <3>4
    <3>6. QED BY <3>5
  <2> HIDE DEF HasGood
  <2>3. QED BY <2>1, <2>2, Induction
<1>2. \A n \in Nat : \A f, h : Good(n, f) /\ Good(n + 1, h) => f[n] = h[n]
  <2> SUFFICES ASSUME NEW n \in Nat, NEW f, NEW h, Good(n, f), Good(n + 1, h) PROVE f[n] = h[n]
    OBVIOUS
  <2> DEFINE Bad == {k \in 0..n : f[k] # h[k]}
  <2>1. SUFFICES ASSUME Bad # {} PROVE FALSE
    OBVIOUS
  <2>2. PICK m \in Bad : \A k \in Bad : m <= k
    <3>1. Bad \subseteq Nat
      OBVIOUS
    <3>2. QED BY <2>1, <3>1, LeastNat
  <2>3. m # 0 /\ m \in 0..n
    OBVIOUS
  <2>4. m - 1 \in 0..(n - 1) /\ m - 1 \in 0..((n + 1) - 1) /\ (m - 1) + 1 = m /\ m - 1 \notin Bad
    BY <2>2, <2>3
  <2>5. QED BY <2>2, <2>4
<1> DEFINE G(n) == CHOOSE f : Good(n, f)
           F == [n \in Nat |-> G(n)[n]]
<1>3. ASSUME NEW n \in Nat
      PROVE  /\ G(n) \in [0..n -> X] /\ G(n)[0] = a /\ \A k \in 0..(n-1) : G(n)[k + 1] = s[G(n)[k]]
             /\ Good(n, G(n))
  <2>1. Good(n, G(n))
    <3>1. \E f : Good(n, f)
      BY <1>1
    <3> HIDE DEF Good
    <3>2. QED BY <3>1
  <2>2. QED BY <2>1
<1> HIDE DEF G, Good
<1>4. F \in [Nat -> X] /\ F[0] = a
  <2>1. \A n \in Nat : n \in 0..n
    OBVIOUS
  <2>2. QED BY <1>3, <2>1
<1>5. ASSUME NEW k \in Nat PROVE F[k + 1] = s[F[k]]
  <2>1. Good(k, G(k)) /\ Good(k + 1, G(k + 1)) /\ k + 1 \in Nat /\ k \in 0..((k + 1) - 1)
    BY <1>3
  <2>2. G(k)[k] = G(k + 1)[k]
    BY <1>2, <2>1
  <2>3. G(k + 1)[k + 1] = s[G(k + 1)[k]]
    BY <1>3, <2>1
  <2>4. QED BY <2>1, <2>2, <2>3
<1>6. QED BY <1>4, <1>5

-----------------------------------------------------------------------------
(* Reach: the least set that holds S and is closed under next.             *)

Closed(next, T) == \A n \in T \cap DOMAIN next : next[n] \subseteq T

\* The layers are what their definition says.
LEMMA LayersAre ==
  ASSUME NEW next, NEW S
  PROVE  /\ Layers(next, S)[0] = S
         /\ \A k \in Nat : Layers(next, S)[k + 1] =
              Layers(next, S)[k] \cup UNION {next[n] : n \in Layers(next, S)[k] \cap DOMAIN next}
<1> DEFINE U == S \cup UNION {next[n] : n \in DOMAIN next}
           More(T) == T \cup UNION {next[n] : n \in T \cap DOMAIN next}
           X == SUBSET U
           s == [T \in X |-> More(T)]
           r == Layers(next, S)
<1>1. S \in X /\ s \in [X -> X]
  OBVIOUS
<1> HIDE DEF X
<1>2. PICK f \in [Nat -> X] : f[0] = S /\ \A k \in Nat : f[k + 1] = s[f[k]]
  <2> HIDE DEF s
  <2>1. QED BY <1>1, Iteration
<1>3. \A k \in Nat : f[k + 1] = More(f[k])
  BY <1>2
<1> HIDE DEF s
<1>4. f = [k \in Nat |-> IF k = 0 THEN S ELSE More(f[k - 1])]
  <2>1. ASSUME NEW k \in Nat PROVE f[k] = IF k = 0 THEN S ELSE More(f[k - 1])
    <3>1. CASE k = 0
      BY <1>2, <3>1
    <3>2. CASE k # 0
      <4>1. k - 1 \in Nat /\ (k - 1) + 1 = k
        BY <3>2
      <4>2. QED BY <1>3, <3>2, <4>1
    <3>3. QED BY <3>1, <3>2
  <2> HIDE DEF More
  <2>2. QED BY <1>2, <2>1
<1>5. r = [k \in Nat |-> IF k = 0 THEN S ELSE More(r[k - 1])]
  BY <1>4 DEF Layers
<1>6. r[0] = S
  BY <1>5
<1>7. ASSUME NEW k \in Nat PROVE r[k + 1] = More(r[k])
  <2>1. k + 1 \in Nat /\ k + 1 # 0 /\ (k + 1) - 1 = k
    OBVIOUS
  <2> HIDE DEF r, More
  <2>2. QED BY <1>5, <2>1
<1>8. QED BY <1>6, <1>7

\* A layer keeps what it had, and stays the same exactly when it is closed.
LEMMA LayersGrow ==
  ASSUME NEW next, NEW S, NEW k \in Nat
  PROVE  /\ Layers(next, S)[k] \subseteq Layers(next, S)[k + 1]
         /\ Closed(next, Layers(next, S)[k]) => Layers(next, S)[k + 1] = Layers(next, S)[k]
         /\ Layers(next, S)[k + 1] = Layers(next, S)[k] => Closed(next, Layers(next, S)[k])
<1> DEFINE r == Layers(next, S)
<1>1. r[k + 1] = r[k] \cup UNION {next[n] : n \in r[k] \cap DOMAIN next}
  BY LayersAre
<1> HIDE DEF r
<1>2. QED BY <1>1 DEF Closed, r

\* Reach holds what it starts from.
LEMMA ReachHolds ==
  ASSUME NEW next, NEW S, IsFiniteSet(DOMAIN next)
  PROVE  S \subseteq Reach(next, S)
<1> DEFINE r == Layers(next, S)
           Holds == {k \in Nat : S \subseteq r[k]}
<1>1. 0 \in Holds
  BY LayersAre
<1>2. ASSUME NEW k \in Nat, k \in Holds PROVE k + 1 \in Holds
  BY <1>2, LayersGrow
<1> HIDE DEF Holds
<1>3. Nat \subseteq Holds
  BY <1>1, <1>2, Induction
<1>4. Cardinality(DOMAIN next) \in Nat
  BY FS_CardinalityType
<1>5. QED BY <1>3, <1>4 DEF Reach, Holds

\* Reach is within every closed set that holds what it starts from.
LEMMA ReachIsLeastSet ==
  ASSUME NEW next, NEW S, IsFiniteSet(DOMAIN next), NEW T, S \subseteq T, Closed(next, T)
  PROVE  Reach(next, S) \subseteq T
<1> DEFINE r == Layers(next, S)
           Inside == {k \in Nat : r[k] \subseteq T}
<1>1. 0 \in Inside
  BY LayersAre
<1>2. ASSUME NEW k \in Nat, k \in Inside PROVE k + 1 \in Inside
  <2>1. r[k + 1] = r[k] \cup UNION {next[n] : n \in r[k] \cap DOMAIN next}
    BY LayersAre
  <2> HIDE DEF r
  <2>2. QED BY <1>2, <2>1 DEF Closed
<1> HIDE DEF Inside
<1>3. Nat \subseteq Inside
  BY <1>1, <1>2, Induction
<1>4. Cardinality(DOMAIN next) \in Nat
  BY FS_CardinalityType
<1>5. QED BY <1>3, <1>4 DEF Reach, Inside

\* As many layers as there are nodes are enough: until it is closed, each of
\* them has one node more than the last.
LEMMA ReachIsClosed ==
  ASSUME NEW next, NEW S, IsFiniteSet(DOMAIN next), S \subseteq DOMAIN next, Closed(next, DOMAIN next)
  PROVE  Closed(next, Reach(next, S)) /\ Reach(next, S) \subseteq DOMAIN next
<1> DEFINE r == Layers(next, S)
           N == DOMAIN next
           Far == {k \in Nat : /\ r[k] \subseteq N
                               /\ Closed(next, r[k]) \/ Cardinality(r[k]) >= k}
<1>1. 0 \in Far
  <2>1. r[0] = S
    BY LayersAre
  <2>2. IsFiniteSet(S) /\ Cardinality(S) \in Nat
    BY FS_Subset, FS_CardinalityType
  <2> HIDE DEF r
  <2>3. QED BY <2>1, <2>2
<1>2. ASSUME NEW k \in Nat, k \in Far PROVE k + 1 \in Far
  <2>1. /\ r[k + 1] = r[k] \cup UNION {next[n] : n \in r[k] \cap DOMAIN next}
        /\ r[k] \subseteq r[k + 1]
        /\ Closed(next, r[k]) => r[k + 1] = r[k]
        /\ r[k + 1] = r[k] => Closed(next, r[k])
    BY LayersAre, LayersGrow
  <2> HIDE DEF r
  <2>2. r[k + 1] \subseteq N /\ IsFiniteSet(r[k + 1])
    <3>1. r[k + 1] \subseteq N
      BY <1>2, <2>1 DEF Closed
    <3>2. QED BY <3>1, FS_Subset
  <2>3. CASE Closed(next, r[k])
    <3>1. r[k + 1] = r[k]
      BY <2>1, <2>3
    <3>2. Closed(next, r[k + 1])
      BY <2>3, <3>1
    <3>3. QED BY <2>2, <3>2
  <2>4. CASE r[k + 1] # r[k] /\ Cardinality(r[k]) >= k
    <3>1. IsFiniteSet(r[k]) /\ Cardinality(r[k]) \in Nat /\ Cardinality(r[k + 1]) \in Nat
      BY <2>1, <2>2, FS_Subset, FS_CardinalityType
    <3>2. Cardinality(r[k]) < Cardinality(r[k + 1])
      <4>1. r[k] \subseteq r[k + 1] /\ r[k] # r[k + 1]
        BY <2>1, <2>4
      <4>2. QED BY <2>2, <3>1, <4>1, FS_Subset
    <3>3. Cardinality(r[k + 1]) >= k + 1
      BY <2>4, <3>1, <3>2
    <3>4. QED BY <2>2, <3>3
  <2>5. QED BY <1>2, <2>1, <2>3, <2>4
<1>3. Nat \subseteq Far
  <2> HIDE DEF Far
  <2>1. QED BY <1>1, <1>2, Induction
<1> DEFINE K == Cardinality(N)
<1>4. K \in Nat
  BY FS_CardinalityType
<1>5. r[K] \subseteq N /\ (Closed(next, r[K]) \/ Cardinality(r[K]) >= K)
  BY <1>3, <1>4
<1>6. CASE Cardinality(r[K]) >= K
  <2> HIDE DEF K
  <2>1. IsFiniteSet(r[K]) /\ Cardinality(r[K]) \in Nat
    BY <1>5, FS_Subset, FS_CardinalityType
  <2>2. r[K] = N
    <3>1. r[K] # N => Cardinality(r[K]) < Cardinality(N)
      <4> DEFINE RK == r[K]
      <4>1. RK \subseteq N /\ IsFiniteSet(N)
        BY <1>5
      <4> HIDE DEF RK, N
      <4>2. RK # N => Cardinality(RK) < Cardinality(N)
        BY <4>1, FS_Subset, FS_CardinalityType
      <4>3. QED BY <4>2 DEF RK
    <3>2. QED BY <1>4, <1>6, <2>1, <3>1 DEF K
  <2>3. QED BY <2>2 DEF Reach, K
<1>7. QED BY <1>5, <1>6 DEF Reach

-----------------------------------------------------------------------------
(* Up and downstream of a node.                                            *)

Graph(g) == IsFiniteSet(NodesOf(g)) /\ WellFormed(g)

\* transitive_ancestors: the least set with the upstream nodes of n that is
\* closed under depends_on.
LEMMA AncestorsAreLeast ==
  ASSUME NEW g, Graph(g), NEW n \in NodesOf(g)
  PROVE  /\ g[n] \subseteq Ancestors(g, n)
         /\ Ancestors(g, n) \subseteq NodesOf(g)
         /\ \A m \in Ancestors(g, n) : g[m] \subseteq Ancestors(g, n)
         /\ \A T : (g[n] \subseteq T /\ \A m \in T \cap NodesOf(g) : g[m] \subseteq T)
                     => Ancestors(g, n) \subseteq T
<1>1. IsFiniteSet(DOMAIN g) /\ g[n] \subseteq DOMAIN g /\ Closed(g, DOMAIN g)
  BY DEF Graph, WellFormed, NodesOf, Closed
<1>2. Ancestors(g, n) = Reach(g, g[n])
  BY DEF Ancestors
<1>3. Closed(g, Reach(g, g[n])) /\ Reach(g, g[n]) \subseteq DOMAIN g /\ g[n] \subseteq Reach(g, g[n])
  BY <1>1, ReachIsClosed, ReachHolds
<1>4. ASSUME NEW T, g[n] \subseteq T, \A m \in T \cap NodesOf(g) : g[m] \subseteq T
      PROVE  Reach(g, g[n]) \subseteq T
  <2>1. Closed(g, T)
    BY <1>4 DEF Closed, NodesOf
  <2>2. QED BY <1>1, <1>4, <2>1, ReachIsLeastSet
<1>5. QED BY <1>2, <1>3, <1>4 DEF Closed, NodesOf

\* _transitive_descendants: the least set with s that is closed under children.
LEMMA DescendantsAreLeast ==
  ASSUME NEW g, Graph(g), NEW s \in NodesOf(g)
  PROVE  /\ s \in Descendants(g, s)
         /\ Descendants(g, s) \subseteq NodesOf(g)
         /\ \A m \in Descendants(g, s), c \in NodesOf(g) : m \in g[c] => c \in Descendants(g, s)
         /\ \A T : (s \in T /\ \A m \in T, c \in NodesOf(g) : m \in g[c] => c \in T)
                     => Descendants(g, s) \subseteq T
<1> DEFINE next == Children(g)
<1>1. /\ DOMAIN next = NodesOf(g)
      /\ \A m \in NodesOf(g) : \A c : c \in next[m] <=> c \in NodesOf(g) /\ m \in g[c]
  BY DEF Children
<1> HIDE DEF next
<1>2. IsFiniteSet(DOMAIN next) /\ {s} \subseteq DOMAIN next /\ Closed(next, DOMAIN next)
  BY <1>1 DEF Graph, Closed
<1>3. Closed(next, Reach(next, {s})) /\ Reach(next, {s}) \subseteq DOMAIN next /\ {s} \subseteq Reach(next, {s})
  BY <1>2, ReachIsClosed, ReachHolds
<1>4. ASSUME NEW T, s \in T, \A m \in T, c \in NodesOf(g) : m \in g[c] => c \in T
      PROVE  Reach(next, {s}) \subseteq T
  <2>1. Closed(next, T) /\ {s} \subseteq T
    BY <1>1, <1>4 DEF Closed
  <2>2. QED BY <1>2, <2>1, ReachIsLeastSet
<1>5. Descendants(g, s) = Reach(next, {s})
  BY DEF Descendants, next
<1>6. \A m \in Reach(next, {s}), c \in NodesOf(g) : m \in g[c] => c \in Reach(next, {s})
  BY <1>1, <1>3 DEF Closed
<1> DEFINE D == Reach(next, {s})
<1> HIDE DEF D
<1>7. s \in D /\ D \subseteq NodesOf(g)
  BY <1>1, <1>3 DEF D
<1>8. \A m \in D, c \in NodesOf(g) : m \in g[c] => c \in D
  BY <1>6 DEF D
<1>9. \A T : (s \in T /\ \A m \in T, c \in NodesOf(g) : m \in g[c] => c \in T) => D \subseteq T
  <2>1. ASSUME NEW T, s \in T, \A m \in T, c \in NodesOf(g) : m \in g[c] => c \in T PROVE D \subseteq T
    BY <1>4, <2>1 DEF D
  <2>2. QED BY <2>1
<1>10. Descendants(g, s) = D
  BY <1>5 DEF D
<1>11. QED BY <1>7, <1>8, <1>9, <1>10

\* What is upstream of an upstream node is upstream, and nothing else is.
LEMMA AncestorsOfAncestors ==
  ASSUME NEW g, Graph(g), NEW n \in NodesOf(g)
  PROVE  /\ \A m \in Ancestors(g, n) : Ancestors(g, m) \subseteq Ancestors(g, n)
         /\ \A a \in Ancestors(g, n) : \E d \in g[n] : a = d \/ a \in Ancestors(g, d)
<1>1. ASSUME NEW m \in Ancestors(g, n) PROVE Ancestors(g, m) \subseteq Ancestors(g, n)
  <2>1. m \in NodesOf(g) /\ g[m] \subseteq Ancestors(g, n) /\ \A k \in Ancestors(g, n) : g[k] \subseteq Ancestors(g, n)
    BY AncestorsAreLeast
  <2>2. QED BY <2>1, AncestorsAreLeast
<1> DEFINE T == g[n] \cup UNION {Ancestors(g, d) : d \in g[n]}
<1>2. Ancestors(g, n) \subseteq T
  <2>1. ASSUME NEW m \in T PROVE g[m] \subseteq T
    <3>1. CASE m \in g[n]
      <4>1. m \in NodesOf(g)
        BY <3>1 DEF Graph, WellFormed
      <4>2. g[m] \subseteq Ancestors(g, m)
        BY <4>1, AncestorsAreLeast
      <4>3. QED BY <3>1, <4>2
    <3>2. ASSUME NEW d \in g[n], m \in Ancestors(g, d) PROVE g[m] \subseteq T
      <4>1. d \in NodesOf(g)
        BY <3>2 DEF Graph, WellFormed
      <4>2. g[m] \subseteq Ancestors(g, d)
        BY <3>2, <4>1, AncestorsAreLeast
      <4>3. QED BY <3>2, <4>2
    <3>3. QED BY <3>1, <3>2
  <2> HIDE DEF T
  <2>2. g[n] \subseteq T
    BY DEF T
  <2>3. QED BY <2>1, <2>2, AncestorsAreLeast
<1>3. QED BY <1>1, <1>2

\* The two helpers are each other's converse.
LEMMA DownstreamIsUpstream ==
  ASSUME NEW g, Graph(g), NEW s \in NodesOf(g), NEW n \in NodesOf(g)
  PROVE  n \in Descendants(g, s) <=> s \in {n} \cup Ancestors(g, n)
<1> DEFINE D == Descendants(g, s)
<1>1. ASSUME n \in D PROVE s \in {n} \cup Ancestors(g, n)
  <2> DEFINE T == {k \in NodesOf(g) : s \in {k} \cup Ancestors(g, k)}
  <2>1. ASSUME NEW m \in T, NEW c \in NodesOf(g), m \in g[c] PROVE c \in T
    <3>1. m \in Ancestors(g, c)
      BY <2>1, AncestorsAreLeast
    <3>2. Ancestors(g, m) \subseteq Ancestors(g, c)
      BY <3>1, AncestorsOfAncestors
    <3>3. QED BY <2>1, <3>1, <3>2
  <2>2. s \in T
    OBVIOUS
  <2> HIDE DEF T
  <2>3. Descendants(g, s) \subseteq T
    BY <2>1, <2>2, DescendantsAreLeast
  <2>4. QED BY <1>1, <2>3 DEF T
<1>2. ASSUME n \notin D PROVE s \notin {n} \cup Ancestors(g, n)
  <2> DEFINE T == NodesOf(g) \ D
  <2>1. s \in D /\ \A m \in D, c \in NodesOf(g) : m \in g[c] => c \in D
    BY DescendantsAreLeast
  <2>2. \A c \in NodesOf(g) : g[c] \subseteq NodesOf(g)
    BY DEF Graph, WellFormed
  <2> HIDE DEF D
  <2>3. g[n] \subseteq T /\ \A m \in T \cap NodesOf(g) : g[m] \subseteq T
    BY <1>2, <2>1, <2>2
  <2> HIDE DEF T
  <2>4. Ancestors(g, n) \subseteq T
    BY <2>3, AncestorsAreLeast
  <2>5. QED BY <1>2, <2>1, <2>4 DEF T
<1>3. QED BY <1>1, <1>2

\* No node of an acyclic graph is upstream of itself.
LEMMA NotItsOwnAncestor ==
  ASSUME NEW g, Graph(g), ~Cyclic(g), NEW n \in NodesOf(g)
  PROVE  n \notin Ancestors(g, n)
<1>1. SUFFICES ASSUME n \in Ancestors(g, n) PROVE FALSE
  OBVIOUS
<1> DEFINE S == {m \in NodesOf(g) : n \in Ancestors(g, m)}
<1>2. ASSUME NEW m \in S PROVE g[m] \cap S # {}
  <2>1. PICK d \in g[m] : n = d \/ n \in Ancestors(g, d)
    BY AncestorsOfAncestors
  <2>2. d \in NodesOf(g)
    BY DEF Graph, WellFormed
  <2>3. d \in S
    BY <1>1, <2>1, <2>2
  <2>4. QED BY <2>3
<1>3. S \in SUBSET NodesOf(g) /\ S # {}
  BY <1>1
<1> HIDE DEF S
<1>4. QED BY <1>2, <1>3 DEF Cyclic

-----------------------------------------------------------------------------
(* OrderOf: the order of a valid graph.                                    *)

Before(s, i) == {s[j] : j \in 1..(i - 1)}

\* Every node once, each after the nodes it depends on.
Sorted(g, s) ==
  /\ s \in Seq(NodesOf(g))
  /\ \A i \in 1..Len(s) : s[i] \notin Before(s, i) /\ g[s[i]] \subseteq Before(s, i)

\* Min is what its name says, for numbers.
LEMMA MinIsLeast ==
  ASSUME NEW S, S \subseteq Nat, S # {}
  PROVE  Min(S) \in S /\ \A n \in S : Min(S) <= n
BY LeastNat DEF Min

\* In a graph without cycles some node is ready until all are placed.
LEMMA SomeNodeIsReady ==
  ASSUME NEW g, ~Cyclic(g), NEW s, NodesOf(g) \ Places(s) # {}, \A n \in NodesOf(g) : g[n] \subseteq NodesOf(g)
  PROVE  ReadyAfter(g, s) # {}
<1> DEFINE S == NodesOf(g) \ Places(s)
<1>1. S \in SUBSET NodesOf(g) /\ S # {}
  OBVIOUS
<1>2. PICK n \in S : g[n] \cap S = {}
  BY <1>1 DEF Cyclic
<1>3. QED BY <1>2 DEF ReadyAfter

\* The orders are what their definition says.
LEMMA OrdersAre ==
  ASSUME NEW g
  PROVE  /\ Orders(g)[0] = <<>>
         /\ \A k \in Nat : Orders(g)[k + 1] = Append(Orders(g)[k], Min(ReadyAfter(g, Orders(g)[k])))
<1> DEFINE V == {Min(R) : R \in SUBSET NodesOf(g)}
           X == Seq(V)
           More(s) == Append(s, Min(ReadyAfter(g, s)))
           step == [s \in X |-> More(s)]
           r == Orders(g)
<1>1. <<>> \in X /\ step \in [X -> X]
  <2>1. ASSUME NEW s \in X PROVE More(s) \in X
    <3>1. ReadyAfter(g, s) \in SUBSET NodesOf(g)
      BY DEF ReadyAfter
    <3>2. Min(ReadyAfter(g, s)) \in V
      BY <3>1
    <3> HIDE DEF V
    <3>3. QED BY <3>2
  <2> HIDE DEF V, More
  <2>2. QED BY <2>1
<1>2. PICK f \in [Nat -> X] : f[0] = <<>> /\ \A k \in Nat : f[k + 1] = step[f[k]]
  <2> DEFINE e == <<>>
  <2>1. e \in X
    BY <1>1
  <2>2. step \in [X -> X]
    BY <1>1
  <2>3. ASSUME NEW Y, NEW b \in Y, NEW h \in [Y -> Y]
        PROVE  \E f \in [Nat -> Y] : f[0] = b /\ \A k \in Nat : f[k + 1] = h[f[k]]
    BY Iteration
  <2> HIDE DEF step, e, X
  <2>4. \E f \in [Nat -> X] : f[0] = e /\ \A k \in Nat : f[k + 1] = step[f[k]]
    BY <2>1, <2>2, <2>3
  <2>5. QED BY <2>4 DEF e
<1> HIDE DEF X
<1>3. \A k \in Nat : f[k + 1] = More(f[k])
  BY <1>2
<1> HIDE DEF step
<1>4. f = [k \in Nat |-> IF k = 0 THEN <<>> ELSE More(f[k - 1])]
  <2>1. ASSUME NEW k \in Nat PROVE f[k] = IF k = 0 THEN <<>> ELSE More(f[k - 1])
    <3>1. CASE k = 0
      BY <1>2, <3>1
    <3>2. CASE k # 0
      <4>1. k - 1 \in Nat /\ (k - 1) + 1 = k
        BY <3>2
      <4> HIDE DEF More
      <4>2. QED BY <1>3, <3>2, <4>1
    <3>3. QED BY <3>1, <3>2
  <2> HIDE DEF More
  <2>2. QED BY <1>2, <2>1
<1>5. r = [k \in Nat |-> IF k = 0 THEN <<>> ELSE More(r[k - 1])]
  BY <1>4 DEF Orders
<1>6. r[0] = <<>>
  BY <1>5
<1>7. ASSUME NEW k \in Nat PROVE r[k + 1] = More(r[k])
  <2>1. k + 1 \in Nat /\ k + 1 # 0 /\ (k + 1) - 1 = k
    OBVIOUS
  <2> HIDE DEF r, More
  <2>2. QED BY <1>5, <2>1
<1>8. QED BY <1>6, <1>7

\* One more place.
LEMMA PlaceOneMore ==
  ASSUME NEW g, NodesOf(g) \subseteq Nat, NEW s, Sorted(g, s), IsFiniteSet(Places(s)),
         Cardinality(Places(s)) = Len(s), NEW n \in ReadyAfter(g, s)
  PROVE  /\ Sorted(g, Append(s, n)) /\ Places(Append(s, n)) = Places(s) \cup {n}
         /\ Len(Append(s, n)) = Len(s) + 1
         /\ IsFiniteSet(Places(Append(s, n))) /\ Cardinality(Places(Append(s, n))) = Len(s) + 1
<1> DEFINE t == Append(s, n)
<1>1. n \in NodesOf(g) /\ n \notin Places(s) /\ g[n] \subseteq Places(s)
  BY DEF ReadyAfter
<1>2. s \in Seq(NodesOf(g)) /\ Len(s) \in Nat
  BY DEF Sorted
<1>3. /\ t \in Seq(NodesOf(g)) /\ Len(t) = Len(s) + 1
      /\ \A i \in 1..Len(s) : t[i] = s[i]
      /\ t[Len(s) + 1] = n
  BY <1>1, <1>2
<1> HIDE DEF t
<1>4. Places(t) = Places(s) \cup {n}
  <2>1. 1..Len(t) = 1..Len(s) \cup {Len(s) + 1}
    BY <1>2, <1>3
  <2>2. QED BY <1>3, <2>1 DEF Places
<1>5. /\ Before(t, Len(s) + 1) = Places(s)
      /\ \A i \in 1..Len(s) : Before(t, i) = Before(s, i)
  <2>1. (Len(s) + 1) - 1 = Len(s)
    BY <1>2
  <2>2. \A i \in 1..Len(s) : \A j \in 1..(i - 1) : j \in 1..Len(s)
    BY <1>2
  <2>3. QED BY <1>3, <2>1, <2>2 DEF Before, Places
<1>6. Sorted(g, t)
  <2>1. ASSUME NEW i \in 1..Len(t) PROVE t[i] \notin Before(t, i) /\ g[t[i]] \subseteq Before(t, i)
    <3>1. CASE i \in 1..Len(s)
      BY <1>3, <1>5, <3>1 DEF Sorted
    <3>2. CASE i = Len(s) + 1
      BY <1>1, <1>3, <1>5, <3>2
    <3>3. QED BY <1>2, <1>3, <3>1, <3>2
  <2>2. QED BY <1>3, <2>1 DEF Sorted
<1>7. IsFiniteSet(Places(t)) /\ Cardinality(Places(t)) = Len(s) + 1
  <2> DEFINE P == Places(s)
  <2>1. IsFiniteSet(P) /\ Cardinality(P) = Len(s) /\ n \notin P
    BY <1>1
  <2> HIDE DEF P
  <2>2. IsFiniteSet(P \cup {n}) /\ Cardinality(P \cup {n}) = Len(s) + 1
    BY <2>1, FS_AddElement
  <2>3. QED BY <1>4, <2>2 DEF P
<1>8. QED BY <1>3, <1>4, <1>6, <1>7 DEF t

\* While a node is missing, the places taken are in order.
LEMMA OrdersAreSorted ==
  ASSUME NEW g, Graph(g), ~Cyclic(g), NodesOf(g) \subseteq Nat, NEW k \in Nat, k <= Cardinality(NodesOf(g))
  PROVE  /\ Sorted(g, Orders(g)[k]) /\ Len(Orders(g)[k]) = k
         /\ IsFiniteSet(Places(Orders(g)[k])) /\ Cardinality(Places(Orders(g)[k])) = k
         /\ k < Cardinality(NodesOf(g)) => ReadyAfter(g, Orders(g)[k]) # {}
<1> DEFINE r == Orders(g)
           N == NodesOf(g)
           Holds(i) == /\ Sorted(g, r[i]) /\ Len(r[i]) = i
                       /\ IsFiniteSet(Places(r[i])) /\ Cardinality(Places(r[i])) = i
           Good == {i \in Nat : i <= Cardinality(N) => Holds(i)}
<1>1. IsFiniteSet(N) /\ Cardinality(N) \in Nat /\ \A n \in N : g[n] \subseteq N
  BY FS_CardinalityType DEF Graph, WellFormed
<1>2. 0 \in Good
  <2>1. r[0] = <<>> /\ Len(<<>>) = 0 /\ <<>> \in Seq(N)
    BY OrdersAre
  <2>2. Places(<<>>) = {}
    BY DEF Places
  <2>3. Sorted(g, <<>>)
    BY DEF Sorted
  <2> HIDE DEF r
  <2>4. Holds(0)
    BY <2>1, <2>2, <2>3, FS_EmptySet
  <2>5. QED BY <2>4
<1>3. ASSUME NEW i \in Nat, Holds(i), i < Cardinality(N) PROVE ReadyAfter(g, r[i]) # {}
  <2>1. N \ Places(r[i]) # {}
    <3> DEFINE P == Places(r[i])
    <3>1. IsFiniteSet(P) /\ Cardinality(P) = i
      BY <1>3
    <3> HIDE DEF P, N
    <3>2. SUFFICES ASSUME N \subseteq P PROVE FALSE
      BY DEF P
    <3>3. Cardinality(N) <= Cardinality(P)
      BY <3>1, <3>2, FS_Subset
    <3>4. QED BY <1>1, <1>3, <3>1, <3>3
  <2>2. QED BY <1>1, <2>1, SomeNodeIsReady
<1>4. ASSUME NEW i \in Nat, i \in Good PROVE i + 1 \in Good
  <2>1. SUFFICES ASSUME i + 1 <= Cardinality(N) PROVE Holds(i + 1)
    OBVIOUS
  <2>2. Holds(i) /\ i < Cardinality(N)
    BY <1>1, <1>4, <2>1
  <2> DEFINE n == Min(ReadyAfter(g, r[i]))
  <2>3. n \in ReadyAfter(g, r[i])
    <3>1. ReadyAfter(g, r[i]) \subseteq Nat
      BY DEF ReadyAfter
    <3>2. ReadyAfter(g, r[i]) # {}
      BY <1>3, <2>2
    <3>3. QED BY <3>1, <3>2, MinIsLeast
  <2>4. r[i + 1] = Append(r[i], n)
    BY OrdersAre
  <2> HIDE DEF r, n
  <2>5. QED BY <2>2, <2>3, <2>4, PlaceOneMore
<1>5. Nat \subseteq Good
  <2> HIDE DEF Good
  <2>1. QED BY <1>2, <1>4, Induction
<1>6. Holds(k)
  BY <1>5
<1>7. QED BY <1>3, <1>6

\* OrderOf(g) has every node of a valid graph.
LEMMA OrderIsSorted ==
  ASSUME NEW g, Graph(g), ~Cyclic(g), NodesOf(g) \subseteq Nat
  PROVE  /\ Sorted(g, OrderOf(g)) /\ Len(OrderOf(g)) = Cardinality(NodesOf(g))
         /\ Places(OrderOf(g)) = NodesOf(g)
<1> DEFINE K == Cardinality(NodesOf(g))
           o == Orders(g)[K]
<1>1. IsFiniteSet(NodesOf(g)) /\ K \in Nat /\ K <= K
  BY FS_CardinalityType DEF Graph
<1>2. Sorted(g, o) /\ Len(o) = K /\ IsFiniteSet(Places(o)) /\ Cardinality(Places(o)) = K
  <2> HIDE DEF K
  <2>1. K = Cardinality(NodesOf(g))
    BY DEF K
  <2>2. QED BY <1>1, <2>1, OrdersAreSorted
<1>3. Places(o) \subseteq NodesOf(g)
  <2>1. o \in Seq(NodesOf(g))
    BY <1>2 DEF Sorted
  <2> HIDE DEF o
  <2>2. QED BY <2>1 DEF Places
<1> DEFINE P == Places(o)
           N == NodesOf(g)
<1>4. P = N
  <2>1. P \subseteq N /\ IsFiniteSet(N) /\ Cardinality(P) = Cardinality(N)
    BY <1>1, <1>2, <1>3
  <2> HIDE DEF P, N
  <2>2. QED BY <2>1, FS_Subset
<1>5. QED BY <1>2, <1>4 DEF OrderOf

\* The operators on graphs are the same ones in the instance.
LEMMA SameOperators ==
  /\ \A d : Sort!NodesOf(d) = NodesOf(d)
  /\ \A d : Sort!WellFormed(d) <=> WellFormed(d)
  /\ \A d : Sort!Valid(d) <=> Valid(d)
  /\ \A d : Sort!OrderOf(d) = OrderOf(d)
  /\ \A S : Sort!Min(S) = Min(S)
  /\ \A S : Sort!Cardinality(S) = Cardinality(S)
  /\ \A d, s : Sort!Descendants(d, s) = Descendants(d, s) /\ Sort!Ancestors(d, s) = Ancestors(d, s)
  /\ \A d : Sort!Children(d) = Children(d)
<1>0. \A S : Sort!Cardinality(S) = Cardinality(S)
  BY DEF Sort!Cardinality, Cardinality
<1>1. \A d : Sort!NodesOf(d) = NodesOf(d)
  BY DEF Sort!NodesOf, NodesOf
<1>2. \A d : Sort!WellFormed(d) <=> WellFormed(d)
  BY <1>1 DEF Sort!WellFormed, WellFormed
<1>3. \A d : Sort!Cyclic(d) <=> Cyclic(d)
  BY <1>1 DEF Sort!Cyclic, Cyclic
<1>4. \A S : Sort!Min(S) = Min(S)
  BY DEF Sort!Min, Min
<1>5. \A d : Sort!OrderOf(d) = OrderOf(d)
  BY <1>0 DEF Sort!OrderOf, Sort!Orders, OrderOf, Orders, Sort!Min, Min, Sort!ReadyAfter, ReadyAfter, Sort!Places, Places, Sort!NodesOf, NodesOf
<1>6. \A d : Sort!Valid(d) <=> Valid(d)
  BY <1>2, <1>3 DEF Sort!Valid, Valid
<1>7. \A d : Sort!Children(d) = Children(d)
  BY <1>1 DEF Sort!Children, Children
<1>8. \A next, S : Sort!Reach(next, S) = Reach(next, S)
  BY <1>0 DEF Sort!Reach, Reach, Sort!Layers, Layers
<1>9. \A d, s : Sort!Descendants(d, s) = Descendants(d, s) /\ Sort!Ancestors(d, s) = Ancestors(d, s)
  BY <1>1, <1>7, <1>8 DEF Sort!Descendants, Descendants, Sort!Ancestors, Ancestors
<1>10. QED BY <1>0, <1>1, <1>2, <1>4, <1>5, <1>6, <1>7, <1>9

-----------------------------------------------------------------------------
(* The loop of topological_order.                                          *)

\* What is assumed of the graphs to sort, in terms of this module.
FiniteGraphs == \A d \in Graphs : IsFiniteSet(NodesOf(d)) /\ NodesOf(d) \subseteq Nat \ {0}

LEMMA GraphsAreFinite ==
  ASSUME Sort!GraphsAssumption
  PROVE  FiniteGraphs
<1>1. \A S : Sort!IsFiniteSet(S) <=> IsFiniteSet(S)
  BY DEF Sort!IsFiniteSet, IsFiniteSet
<1>2. QED BY <1>1, SameOperators DEF Sort!GraphsAssumption, FiniteGraphs

\* What the loop keeps: in_degree counts the upstream nodes not yet placed,
\* ready is what ReadyAfter says, and the order is OrderOf's so far.
SortInv ==
  /\ graph \in Graphs
  /\ answer \in {"counting", "sorting", "accepted", "rejected"}
  /\ answer = "counting" => sorted = <<>>
  /\ answer = "sorting" =>
       /\ WellFormed(graph)
       /\ sorted = Orders(graph)[Len(sorted)]
       /\ Sorted(graph, sorted)
       /\ IsFiniteSet(Places(sorted)) /\ Cardinality(Places(sorted)) = Len(sorted)
       /\ DOMAIN inDegree = NodesOf(graph)
       /\ \A n \in NodesOf(graph) : inDegree[n] = Cardinality(graph[n] \ Places(sorted))
       /\ ready = ReadyAfter(graph, sorted)
  /\ Sort!SortIsRight

\* Before anything is counted.
LEMMA SortStarts ==
  ASSUME FiniteGraphs, Sort!Init
  PROVE  SortInv
BY DEF Sort!Init, SortInv, Sort!SortIsRight

\* The counts are made, or the graph is rejected.
LEMMA SortCounts ==
  ASSUME FiniteGraphs, SortInv, Sort!Count
  PROVE  SortInv'
<1>1. /\ graph' = graph /\ sorted' = sorted /\ graph \in Graphs /\ sorted = <<>>
      /\ \/ /\ WellFormed(graph) /\ answer' = "sorting"
            /\ inDegree' = [n \in NodesOf(graph) |-> Cardinality(graph[n])]
            /\ ready' = {n \in NodesOf(graph) : graph[n] = {}}
         \/ ~WellFormed(graph) /\ answer' = "rejected"
  BY SameOperators DEF Sort!Count, SortInv
<1>2. CASE WellFormed(graph)
  <2>1. Places(<<>>) = {} /\ Len(<<>>) = 0 /\ Orders(graph)[0] = <<>>
    BY OrdersAre DEF Places
  <2>2. Sorted(graph, <<>>) /\ IsFiniteSet({}) /\ Cardinality({}) = 0
    BY FS_EmptySet DEF Sorted
  <2>3. ReadyAfter(graph, <<>>) = {n \in NodesOf(graph) : graph[n] = {}}
    BY <2>1 DEF ReadyAfter
  <2>4. /\ IsFiniteSet(Places(<<>>)) /\ Cardinality(Places(<<>>)) = Len(<<>>)
        /\ <<>> = Orders(graph)[Len(<<>>)]
        /\ \A n \in NodesOf(graph) : graph[n] \ Places(<<>>) = graph[n]
    BY <2>1, <2>2
  <2>5. answer' = "sorting" /\ sorted' = <<>>
    BY <1>1, <1>2
  <2>6. /\ DOMAIN inDegree' = NodesOf(graph)
        /\ \A n \in NodesOf(graph) : inDegree'[n] = Cardinality(graph[n] \ Places(<<>>))
    BY <1>1, <1>2, <2>4
  <2>7. ready' = ReadyAfter(graph, <<>>)
    BY <1>1, <1>2, <2>3
  <2>8. Sort!SortIsRight'
    BY <2>5 DEF Sort!SortIsRight
  <2>9. QED BY <1>1, <1>2, <2>2, <2>4, <2>5, <2>6, <2>7, <2>8 DEF SortInv
<1>3. CASE ~WellFormed(graph)
  <2>1. answer' = "rejected" /\ ~Valid(graph)
    BY <1>1, <1>3 DEF Valid
  <2>2. ~Valid(graph')
    BY <1>1, <2>1
  <2>3. QED BY <1>1, <2>1, <2>2, SameOperators DEF SortInv, Sort!SortIsRight
<1>4. QED BY <1>2, <1>3

\* Taking one from the count of each child counts what is left of its
\* upstream nodes, and those it frees are the ones that become ready.
LEMMA FreedAreReady ==
  ASSUME NEW d, IsFiniteSet(NodesOf(d)), WellFormed(d), NEW s, NEW t, NEW n \in ReadyAfter(d, s),
         Places(t) = Places(s) \cup {n}, \A c \in Places(s) : d[c] \subseteq Places(s)
  PROVE  /\ \A c \in NodesOf(d) : n \in d[c] =>
              Cardinality(d[c] \ Places(t)) = Cardinality(d[c] \ Places(s)) - 1
         /\ \A c \in NodesOf(d) : n \notin d[c] => d[c] \ Places(t) = d[c] \ Places(s)
         /\ \A c \in ReadyAfter(d, t) :
              \/ c \in ReadyAfter(d, s) /\ c # n
              \/ c \in NodesOf(d) /\ n \in d[c] /\ Cardinality(d[c] \ Places(s)) = 1
         /\ \A c \in ReadyAfter(d, s) : c # n => c \in ReadyAfter(d, t)
         /\ \A c \in NodesOf(d) :
              n \in d[c] /\ Cardinality(d[c] \ Places(s)) = 1 => c \in ReadyAfter(d, t)
<1>1. n \in NodesOf(d) /\ n \notin Places(s) /\ d[n] \subseteq Places(s)
  BY DEF ReadyAfter
<1>2. ASSUME NEW c \in NodesOf(d)
      PROVE  /\ IsFiniteSet(d[c] \ Places(t)) /\ Cardinality(d[c] \ Places(t)) \in Nat
             /\ n \in d[c] => Cardinality(d[c] \ Places(s)) = Cardinality(d[c] \ Places(t)) + 1
             /\ n \notin d[c] => d[c] \ Places(t) = d[c] \ Places(s)
  <2> DEFINE L == d[c] \ Places(t)
             M == d[c] \ Places(s)
  <2>1. IsFiniteSet(L) /\ n \notin L
    <3>1. L \subseteq NodesOf(d) /\ n \notin L
      BY DEF WellFormed
    <3> HIDE DEF L
    <3>2. QED BY <3>1, FS_Subset
  <2>2. Cardinality(L) \in Nat
    <3> HIDE DEF L
    <3>1. QED BY <2>1, FS_CardinalityType
  <2>3. (n \in d[c] => M = L \cup {n}) /\ (n \notin d[c] => M = L)
    BY <1>1
  <2>4. n \in d[c] => Cardinality(M) = Cardinality(L) + 1
    <3> HIDE DEF L, M
    <3>1. QED BY <2>1, <2>3, FS_AddElement
  <2>5. QED BY <2>1, <2>2, <2>3, <2>4
<1>3. \A c : c \in ReadyAfter(d, t) <=>
        \/ c \in ReadyAfter(d, s) /\ c # n
        \/ c \in NodesOf(d) /\ n \in d[c] /\ Cardinality(d[c] \ Places(s)) = 1
  <2>1. ASSUME NEW c \in NodesOf(d), n \in d[c]
        PROVE  c \notin ReadyAfter(d, s) /\ (c \in ReadyAfter(d, t) <=> Cardinality(d[c] \ Places(s)) = 1)
    <3>1. c \notin ReadyAfter(d, s) /\ c \notin Places(t)
      BY <1>1, <2>1 DEF ReadyAfter, WellFormed
    <3> DEFINE L == d[c] \ Places(t)
    <3>2. Cardinality(d[c] \ Places(s)) = Cardinality(L) + 1 /\ Cardinality(L) \in Nat /\ IsFiniteSet(L)
      BY <1>2, <2>1
    <3>3. c \in ReadyAfter(d, t) <=> L = {}
      BY <3>1 DEF ReadyAfter
    <3> HIDE DEF L
    <3>4. L = {} <=> Cardinality(L) = 0
      BY <3>2, FS_EmptySet
    <3>5. Cardinality(L) = 0 <=> Cardinality(d[c] \ Places(s)) = 1
      BY <3>2
    <3>6. QED BY <3>1, <3>3, <3>4, <3>5
  <2>2. ASSUME NEW c \in NodesOf(d), n \notin d[c]
        PROVE  c \in ReadyAfter(d, t) <=> c \in ReadyAfter(d, s) \ {n}
    BY <2>2 DEF ReadyAfter
  <2>3. ReadyAfter(d, s) \subseteq NodesOf(d) /\ ReadyAfter(d, t) \subseteq NodesOf(d)
    BY DEF ReadyAfter
  <2>4. QED BY <2>1, <2>2, <2>3
<1>4. ASSUME NEW c \in NodesOf(d), n \in d[c]
      PROVE  Cardinality(d[c] \ Places(t)) = Cardinality(d[c] \ Places(s)) - 1
  <2> DEFINE x == Cardinality(d[c] \ Places(t))
             y == Cardinality(d[c] \ Places(s))
  <2>1. x \in Nat /\ y = x + 1
    BY <1>2, <1>4
  <2> HIDE DEF x, y
  <2>2. x = y - 1
    BY <2>1
  <2>3. QED BY <2>2 DEF x, y
<1>5. \A c \in NodesOf(d) : n \notin d[c] => d[c] \ Places(t) = d[c] \ Places(s)
  BY <1>2
<1>6. QED BY <1>3, <1>4, <1>5

\* The head of the queue is placed, and its children are freed.
LEMMA SortPlaces ==
  ASSUME FiniteGraphs, SortInv, Sort!Place
  PROVE  SortInv'
<1> DEFINE n == Min(ready)
           t == Append(sorted, n)
<1>1. /\ graph \in Graphs /\ answer = "sorting" /\ ready # {}
      /\ WellFormed(graph) /\ sorted = Orders(graph)[Len(sorted)] /\ Sorted(graph, sorted)
      /\ IsFiniteSet(Places(sorted)) /\ Cardinality(Places(sorted)) = Len(sorted)
      /\ \A c \in NodesOf(graph) : inDegree[c] = Cardinality(graph[c] \ Places(sorted))
      /\ ready = ReadyAfter(graph, sorted)
  BY DEF SortInv, Sort!Place
<1>2. /\ graph' = graph /\ answer' = answer /\ sorted' = t
      /\ inDegree' = [c \in NodesOf(graph) |-> IF n \in graph[c] THEN inDegree[c] - 1 ELSE inDegree[c]]
      /\ ready' = (ready \ {n}) \cup {c \in NodesOf(graph) : n \in graph[c] /\ inDegree[c] = 1}
  BY SameOperators DEF Sort!Place, Sort!First, Sort!Freed
<1>3. IsFiniteSet(NodesOf(graph)) /\ NodesOf(graph) \subseteq Nat
  BY <1>1 DEF FiniteGraphs
<1>4. n \in ReadyAfter(graph, sorted)
  <2>1. ready \subseteq Nat
    BY <1>1, <1>3 DEF ReadyAfter
  <2>2. QED BY <1>1, <2>1, MinIsLeast
<1>5. \A c \in Places(sorted) : graph[c] \subseteq Places(sorted)
  <2>1. ASSUME NEW i \in 1..Len(sorted) PROVE graph[sorted[i]] \subseteq Places(sorted)
    <3>1. Len(sorted) \in Nat
      BY <1>1 DEF Sorted
    <3>2. Before(sorted, i) \subseteq Places(sorted)
      BY <3>1 DEF Before, Places
    <3>3. QED BY <1>1, <3>2 DEF Sorted
  <2>2. QED BY <2>1 DEF Places
<1>6. n = Min(ReadyAfter(graph, sorted))
  BY <1>1
<1> HIDE DEF n
<1>7. /\ Sorted(graph, t) /\ Places(t) = Places(sorted) \cup {n}
      /\ Len(t) = Len(sorted) + 1
      /\ IsFiniteSet(Places(t)) /\ Cardinality(Places(t)) = Len(sorted) + 1
  BY <1>1, <1>3, <1>4, PlaceOneMore
<1>8. t = Orders(graph)[Len(t)]
  <2>1. Len(sorted) \in Nat
    BY <1>1 DEF Sorted
  <2>2. Orders(graph)[Len(sorted) + 1] = Append(Orders(graph)[Len(sorted)], Min(ReadyAfter(graph, Orders(graph)[Len(sorted)])))
    BY <2>1, OrdersAre
  <2>3. QED BY <1>1, <1>6, <1>7, <2>2
<1> HIDE DEF t
<1>9. /\ \A c \in NodesOf(graph) : n \in graph[c] =>
              Cardinality(graph[c] \ Places(t)) = Cardinality(graph[c] \ Places(sorted)) - 1
      /\ \A c \in NodesOf(graph) : n \notin graph[c] => graph[c] \ Places(t) = graph[c] \ Places(sorted)
      /\ \A c \in ReadyAfter(graph, t) :
           \/ c \in ReadyAfter(graph, sorted) /\ c # n
           \/ c \in NodesOf(graph) /\ n \in graph[c] /\ Cardinality(graph[c] \ Places(sorted)) = 1
      /\ \A c \in ReadyAfter(graph, sorted) : c # n => c \in ReadyAfter(graph, t)
      /\ \A c \in NodesOf(graph) :
           n \in graph[c] /\ Cardinality(graph[c] \ Places(sorted)) = 1 => c \in ReadyAfter(graph, t)
  <2>1. IsFiniteSet(NodesOf(graph)) /\ WellFormed(graph) /\ Places(t) = Places(sorted) \cup {n}
    BY <1>1, <1>3, <1>7
  <2> DEFINE d == graph
             s == sorted
  <2>2. /\ IsFiniteSet(NodesOf(d)) /\ WellFormed(d) /\ n \in ReadyAfter(d, s)
        /\ Places(t) = Places(s) \cup {n} /\ \A c \in Places(s) : d[c] \subseteq Places(s)
    BY <1>4, <1>5, <2>1
  <2> HIDE DEF d, s
  <2>3. /\ \A c \in NodesOf(d) : n \in d[c] =>
              Cardinality(d[c] \ Places(t)) = Cardinality(d[c] \ Places(s)) - 1
    BY ONLY <2>2, FreedAreReady
  <2>4. \A c \in NodesOf(d) : n \notin d[c] => d[c] \ Places(t) = d[c] \ Places(s)
    BY ONLY <2>2, FreedAreReady
  <2>5. /\ \A c \in ReadyAfter(d, t) :
             \/ c \in ReadyAfter(d, s) /\ c # n
             \/ c \in NodesOf(d) /\ n \in d[c] /\ Cardinality(d[c] \ Places(s)) = 1
        /\ \A c \in ReadyAfter(d, s) : c # n => c \in ReadyAfter(d, t)
        /\ \A c \in NodesOf(d) :
             n \in d[c] /\ Cardinality(d[c] \ Places(s)) = 1 => c \in ReadyAfter(d, t)
    BY ONLY <2>2, FreedAreReady
  <2>6. QED BY <2>3, <2>4, <2>5 DEF d, s
<1>10. \A c \in NodesOf(graph) : inDegree'[c] = Cardinality(graph[c] \ Places(t))
  <2>1. ASSUME NEW c \in NodesOf(graph) PROVE inDegree'[c] = Cardinality(graph[c] \ Places(t))
    <3>1. CASE n \in graph[c]
      BY <1>1, <1>2, <1>9, <3>1
    <3>2. CASE n \notin graph[c]
      BY <1>1, <1>2, <1>9, <3>2
    <3>3. QED BY <3>1, <3>2
  <2>2. QED BY <2>1
<1>11. ready' = ReadyAfter(graph, t)
  <2>1. \A c : c \in ready' <=> c \in ReadyAfter(graph, t)
    BY <1>1, <1>2, <1>9
  <2>2. QED BY <2>1
<1>12. Sort!SortIsRight'
  BY <1>1, <1>2 DEF Sort!SortIsRight
<1>13. DOMAIN inDegree' = NodesOf(graph)
  BY <1>2
<1>14. QED BY <1>1, <1>2, <1>7, <1>8, <1>10, <1>11, <1>12, <1>13 DEF SortInv

\* All are placed, or those that are not wait for one another.
LEMMA SortConcludes ==
  ASSUME FiniteGraphs, SortInv, Sort!Conclude
  PROVE  SortInv'
<1> DEFINE N == NodesOf(graph)
           P == Places(sorted)
<1>1. /\ graph \in Graphs /\ WellFormed(graph) /\ ready = {} /\ ready = ReadyAfter(graph, sorted)
      /\ sorted = Orders(graph)[Len(sorted)] /\ Sorted(graph, sorted)
      /\ IsFiniteSet(P) /\ Cardinality(P) = Len(sorted) /\ IsFiniteSet(N)
  BY DEF SortInv, Sort!Conclude, FiniteGraphs
<1>2. /\ graph' = graph /\ sorted' = sorted
      /\ answer' = IF Len(sorted) = Cardinality(N) THEN "accepted" ELSE "rejected"
  BY SameOperators DEF Sort!Conclude, Sort!Complete
<1>3. P \subseteq N
  <2>1. sorted \in Seq(N)
    BY <1>1 DEF Sorted
  <2>2. QED BY <2>1 DEF Places
<1>4. Len(sorted) = Cardinality(N) <=> P = N
  <2>1. IsFiniteSet(N) /\ Cardinality(P) = Len(sorted)
    BY <1>1
  <2> HIDE DEF P, N
  <2>2. QED BY <1>3, <2>1, FS_Subset
<1>5. CASE P = N
  <2>1. ~Cyclic(graph)
    <3>1. SUFFICES ASSUME NEW S \in SUBSET N, S # {}, \A m \in S : graph[m] \cap S # {} PROVE FALSE
      BY DEF Cyclic
    <3> DEFINE I == {i \in 1..Len(sorted) : sorted[i] \in S}
    <3>2. I \subseteq Nat /\ I # {}
      BY <1>5, <3>1 DEF Places
    <3>3. PICK i \in I : \A j \in I : i <= j
      BY <3>2, LeastNat
    <3>4. PICK m \in S : m \in graph[sorted[i]]
      BY <3>1
    <3>5. m \in Before(sorted, i)
      BY <1>1, <3>4 DEF Sorted
    <3>6. PICK j \in 1..(i - 1) : m = sorted[j]
      BY <3>5 DEF Before
    <3>7. Len(sorted) \in Nat
      BY <1>1 DEF Sorted
    <3>8. j \in I /\ ~(i <= j)
      BY <3>6, <3>7
    <3>9. QED BY <3>3, <3>8
  <2>2. sorted = OrderOf(graph)
    BY <1>1, <1>4, <1>5 DEF OrderOf
  <2>3. answer' = "accepted"
    BY <1>2, <1>4, <1>5
  <2>4. QED BY <1>1, <1>2, <2>1, <2>2, <2>3, SameOperators DEF SortInv, Sort!SortIsRight, Valid
<1>6. CASE P # N
  <2>1. answer' = "rejected"
    BY <1>2, <1>4, <1>6
  <2>2. Cyclic(graph)
    <3>1. N \ P # {} /\ \A m \in N : graph[m] \subseteq N
      BY <1>1, <1>3, <1>6 DEF WellFormed
    <3>2. QED BY <1>1, <3>1, SomeNodeIsReady
  <2>3. QED BY <1>1, <1>2, <2>1, <2>2, SameOperators DEF SortInv, Sort!SortIsRight, Valid
<1>7. QED BY <1>5, <1>6

\* Every step of topological_order keeps its invariant.
LEMMA SortInvIsKept ==
  ASSUME FiniteGraphs, SortInv, [Sort!Next]_Sort!vars
  PROVE  SortInv'
<1>1. CASE Sort!Next
  BY <1>1, SortCounts, SortPlaces, SortConcludes DEF Sort!Next
<1>2. CASE UNCHANGED Sort!vars
  BY <1>2 DEF SortInv, Sort!SortIsRight, Sort!vars
<1>3. QED BY <1>1, <1>2

\* A definition is accepted exactly when it names no unknown node and has no
\* cycle, and the order is the one documented.
THEOREM TopologicalOrderIsRight ==
  ASSUME Sort!GraphsAssumption
  PROVE  Sort!Spec => []Sort!SortIsRight
<1>0. FiniteGraphs
  BY GraphsAreFinite
<1>1. Sort!Init => SortInv
  BY <1>0, SortStarts
<1>2. SortInv /\ [Sort!Next]_Sort!vars => SortInv'
  BY <1>0, SortInvIsKept
<1>3. SortInv => Sort!SortIsRight
  BY DEF SortInv
<1>4. QED BY <1>1, <1>2, <1>3, PTL DEF Sort!Spec

\* What is found downstream of a node is the least set with the node that is
\* closed under children, and upstream of it is what it is downstream of.
LEMMA SortInvMeansReachIsLeast ==
  ASSUME FiniteGraphs, SortInv
  PROVE  Sort!ReachIsLeast
<1> SUFFICES ASSUME answer = "accepted", NEW s \in NodesOf(graph)
    PROVE  /\ Descendants(graph, s) =
                {n \in NodesOf(graph) : \A S \in SUBSET NodesOf(graph) :
                   (s \in S /\ \A m \in S : Children(graph)[m] \subseteq S) => n \in S}
           /\ Ancestors(graph, s) =
                UNION {graph[n] : n \in {m \in NodesOf(graph) : s \in Descendants(graph, m)}}
  BY SameOperators DEF Sort!ReachIsLeast
<1> DEFINE N == NodesOf(graph)
           D == Descendants(graph, s)
           A == Ancestors(graph, s)
<1>1. Graph(graph)
  BY SameOperators DEF SortInv, Sort!SortIsRight, Valid, FiniteGraphs, Graph
<1>2. \A m \in N : Children(graph)[m] = {c \in N : m \in graph[c]}
  BY DEF Children
<1>3. /\ s \in D /\ D \in SUBSET N
      /\ \A m \in D, c \in N : m \in graph[c] => c \in D
      /\ \A T : (s \in T /\ \A m \in T, c \in N : m \in graph[c] => c \in T) => D \subseteq T
  BY <1>1, DescendantsAreLeast
<1> HIDE DEF D
<1>4. ASSUME NEW n \in N
      PROVE  n \in D <=> \A S \in SUBSET N :
                           (s \in S /\ \A m \in S : Children(graph)[m] \subseteq S) => n \in S
  <2>1. ASSUME n \in D, NEW S \in SUBSET N, s \in S, \A m \in S : Children(graph)[m] \subseteq S PROVE n \in S
    <3>1. \A m \in S, c \in N : m \in graph[c] => c \in S
      BY <1>2, <2>1
    <3>2. D \subseteq S
      BY <1>3, <2>1, <3>1
    <3>3. QED BY <2>1, <3>2
  <2>2. \A m \in D : Children(graph)[m] \subseteq D
    BY <1>2, <1>3
  <2>3. QED BY <1>3, <2>1, <2>2
<1>5. \A a : a \in A <=> \E n \in N : s \in Descendants(graph, n) /\ a \in graph[n]
  <2>1. \A n \in N : s \in Descendants(graph, n) <=> n \in {s} \cup A
    BY <1>1, DownstreamIsUpstream
  <2>2. /\ graph[s] \subseteq A /\ A \subseteq N
        /\ \A m \in A : graph[m] \subseteq A
        /\ \A a \in A : \E d \in graph[s] : a = d \/ a \in Ancestors(graph, d)
        /\ \A T : (graph[s] \subseteq T /\ \A m \in T \cap N : graph[m] \subseteq T) => A \subseteq T
    BY <1>1, AncestorsAreLeast, AncestorsOfAncestors
  <2> DEFINE T == UNION {graph[n] : n \in {s} \cup A}
  <2>3. A \subseteq T
    <3>1. graph[s] \subseteq T /\ \A m \in T \cap N : graph[m] \subseteq T
      BY <2>2
    <3> HIDE DEF T
    <3>2. QED BY <2>2, <3>1
  <2>4. QED BY <2>1, <2>2, <2>3
<1>6. A = UNION {graph[n] : n \in {m \in N : s \in Descendants(graph, m)}}
  BY <1>5
<1>7. QED BY <1>3, <1>4, <1>6 DEF D

\* What is found downstream of a node is the least set with the node that is
\* closed under children, and upstream of it is what it is downstream of: after
\* any sort that accepts the graph.
THEOREM ReachabilityIsLeast ==
  ASSUME Sort!GraphsAssumption
  PROVE  Sort!Spec => []Sort!ReachIsLeast
<1>0. FiniteGraphs
  BY GraphsAreFinite
<1>1. Sort!Init => SortInv
  BY <1>0, SortStarts
<1>2. SortInv /\ [Sort!Next]_Sort!vars => SortInv'
  BY <1>0, SortInvIsKept
<1>3. SortInv => Sort!ReachIsLeast
  BY <1>0, SortInvMeansReachIsLeast
<1>4. QED BY <1>1, <1>2, <1>3, PTL DEF Sort!Spec

-----------------------------------------------------------------------------
(* Runs.                                                                   *)

\* The nodes the loop has left.
Visited == Before(order, pos)

\* The loop is somewhere in the order of a loaded graph.
Underway ==
  /\ deps \in Definitions /\ Valid(deps) /\ order = OrderOf(deps)
  /\ pos \in 1..(Len(order) + 1)
  /\ pc = "node" => pos <= Len(order)
  /\ \/ from = 0 /\ targets = NodesOf(deps)
     \/ from \in NodesOf(deps) /\ targets = Descendants(deps, from)
  /\ DOMAIN status = NodesOf(deps) /\ DOMAIN output = NodesOf(deps) /\ DOMAIN given = NodesOf(deps)
  /\ runNo # 0

\* What the loop has left is settled, and what failed blocks.
Marked ==
  /\ \A n \in Visited : status[n] \in Settled
  /\ \A n \in NodesOf(deps) \ Visited : status[n] \in {"pending", "running"}
  /\ \A n \in NodesOf(deps) : status[n] = "failed" => n \in blocked
  /\ blocked \subseteq Visited
  /\ \A n \in blocked : status[n] \in {"failed", "skipped"}
  /\ reused \subseteq Visited /\ reused \cap targets = {}

\* A node that was to run and is not blocked has no blocked node upstream; one
\* that is blocked has a failed one, or there was a cancel.
Caused ==
  /\ \A n \in Visited \cap targets : n \notin blocked => deps[n] \cap blocked = {}
  /\ pc = "node" => Node \in targets /\ deps[Node] \cap blocked = {}
  /\ cancelled \/ \A n \in blocked : status[n] = "skipped" =>
                    \E a \in Ancestors(deps, n) : status[a] = "failed"

Concluded ==
  /\ pc # "done" => verdict = "running"
  /\ pc = "done" => verdict = "raised" \/ (pos = Len(order) + 1 /\ verdict = Verdict)

Visiting == Underway /\ Marked /\ Caused /\ Concluded

\* Nothing is kept between the runs, and nothing is run of what cannot be.
Nothing   == deps = <<>> /\ status = <<>> /\ reused = {} /\ blocked = {}
NotLoaded ==
  /\ verdict = "failed" /\ pos = 1 /\ deps \in Definitions
  /\ DOMAIN status = NodesOf(deps) /\ \A n \in NodesOf(deps) : status[n] = "skipped"
  /\ reused = {} /\ blocked = {}

RunInv ==
  /\ saved \in Definitions /\ runNo \in Nat /\ edits \in Nat
  /\ \/ pc \in {"idle", "queued"} /\ Nothing
     \/ pc \in {"run", "node", "done"} /\ Visiting
     \/ pc = "done" /\ NotLoaded

\* While nothing is edited: a run fits together, and a run that is resumed
\* has what its rerun needs.
Fits(g, st, out, gave) == \A n \in DOMAIN st : st[n] = "success" =>
  out[n] \in 1..runNo /\ \A d \in g[n] : st[d] = "success" => gave[n][d] = out[d]
Resumable(run) ==
  DOMAIN run.status \in {{}, NodesOf(saved)} /\ Fits(saved, run.status, run.output, run.given)

Inherited ==
  /\ Fits(deps, status, output, given)
  /\ pc = "node" => \A d \in deps[Node] : status[d] = "success" => given[Node][d] = output[d]
  /\ \A n \in NodesOf(deps) \ targets : status[n] = "success" =>
       /\ n \in DOMAIN resume.status /\ resume.status[n] = "success"
       /\ output[n] = resume.output[n] /\ given[n] = resume.given[n]
  /\ from \in NodesOf(deps) => Ancestors(deps, from) \cap blocked = {}

Stored ==
  /\ Resumable(last) /\ Resumable(resume)
  /\ from # 0 => /\ from \in NodesOf(saved)
                 /\ \A a \in Ancestors(saved, from) : PreviousStatus(resume, a) = "success"

UneditedInv == edits = 0 =>
  /\ Stored
  /\ pc \in {"run", "node", "done"} =>
       deps = saved /\ ((Visiting /\ Inherited) \/ NotLoaded)

-----------------------------------------------------------------------------
(* RunInv is kept.                                                         *)

\* The nodes before a place are closed under depends_on, and the next one is
\* not among them.
LEMMA OrderFacts ==
  ASSUME DefinitionsAssumption, NEW d \in Definitions, Valid(d), NEW p \in 1..(Len(OrderOf(d)) + 1)
  PROVE  /\ Graph(d) /\ ~Cyclic(d) /\ NodesOf(d) \subseteq Nat \ {0} /\ Len(OrderOf(d)) \in Nat
         /\ Before(OrderOf(d), 1) = {}
         /\ Before(OrderOf(d), p) \subseteq NodesOf(d)
         /\ \A n \in Before(OrderOf(d), p) : d[n] \subseteq Before(OrderOf(d), p)
         /\ p <= Len(OrderOf(d)) =>
              /\ OrderOf(d)[p] \in NodesOf(d) \ Before(OrderOf(d), p)
              /\ d[OrderOf(d)[p]] \subseteq Before(OrderOf(d), p)
              /\ Before(OrderOf(d), p + 1) = Before(OrderOf(d), p) \cup {OrderOf(d)[p]}
         /\ p = Len(OrderOf(d)) + 1 => Before(OrderOf(d), p) = NodesOf(d)
<1> DEFINE o == OrderOf(d)
<1>1. Graph(d) /\ ~Cyclic(d) /\ NodesOf(d) \subseteq Nat \ {0}
  BY DEF DefinitionsAssumption, Graph, Valid
<1>2. Sorted(d, o) /\ Places(o) = NodesOf(d)
  <2>1. NodesOf(d) \subseteq Nat
    BY <1>1
  <2>2. QED BY <1>1, <2>1, OrderIsSorted
<1>3. p \in 1..(Len(o) + 1)
  OBVIOUS
<1> HIDE DEF o
<1>4. /\ o \in Seq(NodesOf(d)) /\ Len(o) \in Nat
      /\ \A i \in 1..Len(o) : o[i] \in NodesOf(d) /\ o[i] \notin Before(o, i) /\ d[o[i]] \subseteq Before(o, i)
  BY <1>2 DEF Sorted
<1>5. Before(o, 1) = {}
  BY DEF Before
<1>6. Before(o, p) \subseteq NodesOf(d)
  BY <1>3, <1>4 DEF Before
<1>7. ASSUME NEW n \in Before(o, p) PROVE d[n] \subseteq Before(o, p)
  <2>1. PICK i \in 1..(p - 1) : n = o[i]
    BY <1>7 DEF Before
  <2>2. i \in 1..Len(o) /\ \A j \in 1..(i - 1) : j \in 1..(p - 1)
    BY <1>3, <1>4, <2>1
  <2>3. Before(o, i) \subseteq Before(o, p)
    BY <2>2 DEF Before
  <2>4. QED BY <1>4, <2>1, <2>2, <2>3
<1>8. ASSUME p <= Len(o)
      PROVE  /\ o[p] \in NodesOf(d) \ Before(o, p) /\ d[o[p]] \subseteq Before(o, p)
             /\ Before(o, p + 1) = Before(o, p) \cup {o[p]}
  <2>1. p \in 1..Len(o)
    BY <1>3, <1>4, <1>8
  <2>2. 1..((p + 1) - 1) = 1..(p - 1) \cup {p}
    BY <2>1, <1>4
  <2>3. QED BY <1>4, <2>1, <2>2 DEF Before
<1>9. ASSUME p = Len(o) + 1 PROVE Before(o, p) = NodesOf(d)
  <2>1. p - 1 = Len(o)
    BY <1>4, <1>9
  <2>2. QED BY <1>2, <2>1 DEF Before, Places
<1>10. QED BY <1>1, <1>4, <1>5, <1>6, <1>7, <1>8, <1>9 DEF o

\* The graph and the place in it.
Place(n, B) ==
  /\ Graph(deps) /\ ~Cyclic(deps) /\ Len(order) \in Nat /\ pos \in Nat
  /\ B \subseteq NodesOf(deps)
  /\ \A m \in B : deps[m] \subseteq B
  /\ n \in NodesOf(deps) \ B /\ deps[n] \subseteq B

\* The same of the place where the loop is.
LEMMA PlaceFacts ==
  ASSUME DefinitionsAssumption, Underway, pos <= Len(order)
  PROVE  Place(Node, Visited) /\ Before(order, pos + 1) = Visited \cup {Node} /\ pos + 1 \in 1..(Len(order) + 1)
BY OrderFacts DEF Underway, Place, Node, Visited

\* The loop leaves the node it is at, with the mark `end'.
Left(end) ==
  /\ pos <= Len(order) /\ pos' = pos + 1 /\ pc # "done" /\ pc' = "run"
  /\ deps' = deps /\ order' = order /\ targets' = targets /\ from' = from
  /\ runNo' = runNo /\ verdict' = verdict
  /\ DOMAIN status' = DOMAIN status /\ status'[Node] = end
  /\ \A m \in NodesOf(deps) : m # Node => status'[m] = status[m]
  /\ DOMAIN output' = DOMAIN output /\ DOMAIN given' = DOMAIN given
  /\ \/ blocked' = blocked \cup {Node} /\ end \in {"failed", "skipped"}
     \/ blocked' = blocked /\ end \in {"success", "skipped"}

\* A node is left with a mark that has a cause.
LEMMA LeavingKeeps ==
  ASSUME DefinitionsAssumption, Visiting, NEW end, Left(end),
         Node \in targets /\ Node \notin blocked' => deps[Node] \cap blocked = {},
         Node \in blocked' /\ end = "skipped" => (cancelled' \/ deps[Node] \cap blocked # {}),
         reused' = reused \/ (reused' = reused \cup {Node} /\ Node \notin targets),
         cancelled' \/ ~cancelled
  PROVE  Visiting'
<1> DEFINE n == Node
           B == Visited
<1>1. Place(n, B) /\ Before(order, pos + 1) = B \cup {n} /\ pos + 1 \in 1..(Len(order) + 1)
  BY PlaceFacts DEF Visiting, Left
<1>2. Underway'
  BY <1>1 DEF Visiting, Underway, Left
<1>3. Visited' = B \cup {n}
  <2>1. order' = order /\ pos' = pos + 1
    BY DEF Left
  <2>2. Visited' = Before(order', pos')
    BY DEF Visited
  <2>3. QED BY <1>1, <2>1, <2>2
<1>4. /\ B \subseteq NodesOf(deps) /\ n \in NodesOf(deps) /\ n \notin B /\ deps[n] \subseteq B
      /\ \A m \in B : deps[m] \subseteq B
      /\ Graph(deps)
  BY <1>1 DEF Place
<1>5. /\ deps' = deps /\ targets' = targets /\ status'[n] = end /\ pc' = "run"
      /\ \A m \in NodesOf(deps) : m # n => status'[m] = status[m]
      /\ \/ blocked' = blocked \cup {n} /\ end \in {"failed", "skipped"}
         \/ blocked' = blocked /\ end \in {"success", "skipped"}
  BY DEF Left
<1>6. /\ \A m \in B : status[m] \in Settled
      /\ \A m \in NodesOf(deps) \ B : status[m] \in {"pending", "running"}
      /\ \A m \in NodesOf(deps) : status[m] = "failed" => m \in blocked
      /\ blocked \subseteq B /\ \A m \in blocked : status[m] \in {"failed", "skipped"}
      /\ reused \subseteq B /\ reused \cap targets = {}
  BY DEF Visiting, Marked
<1>7. /\ \A m \in B \cap targets : m \notin blocked => deps[m] \cap blocked = {}
      /\ cancelled \/ \A m \in blocked : status[m] = "skipped" =>
                        \E a \in Ancestors(deps, m) : status[a] = "failed"
  BY DEF Visiting, Caused
<1>8. /\ n \in targets /\ n \notin blocked' => deps[n] \cap blocked = {}
      /\ n \in blocked' /\ end = "skipped" => (cancelled' \/ deps[n] \cap blocked # {})
      /\ reused' = reused \/ (reused' = reused \cup {n} /\ n \notin targets)
  OBVIOUS
<1> HIDE DEF n, B
<1>9. Marked'
  <2>1. \A m \in Visited' : status'[m] \in Settled
    BY <1>3, <1>4, <1>5, <1>6 DEF Settled
  <2>2. \A m \in NodesOf(deps') \ Visited' : status'[m] \in {"pending", "running"}
    BY <1>3, <1>4, <1>5, <1>6
  <2>3. \A m \in NodesOf(deps') : status'[m] = "failed" => m \in blocked'
    BY <1>4, <1>5, <1>6
  <2>4. blocked' \subseteq Visited' /\ \A m \in blocked' : status'[m] \in {"failed", "skipped"}
    BY <1>3, <1>4, <1>5, <1>6
  <2>5. reused' \subseteq Visited' /\ reused' \cap targets' = {}
    BY <1>3, <1>5, <1>6, <1>8
  <2>6. QED BY <2>1, <2>2, <2>3, <2>4, <2>5 DEF Marked
<1>10. Caused'
  <2>1. \A m \in Visited' \cap targets' : m \notin blocked' => deps'[m] \cap blocked' = {}
    BY <1>3, <1>4, <1>5, <1>6, <1>7, <1>8
  <2>2. ASSUME ~cancelled', NEW m \in blocked', status'[m] = "skipped"
        PROVE  \E a \in Ancestors(deps, m) : status'[a] = "failed"
    <3>1. ASSUME NEW k \in blocked, status[k] = "skipped"
          PROVE  \E a \in Ancestors(deps, k) : status'[a] = "failed"
      <4>1. PICK a \in Ancestors(deps, k) : status[a] = "failed"
        BY <1>7, <2>2, <3>1
      <4>2. a \in NodesOf(deps)
        BY <1>4, <1>6, <3>1, <4>1, AncestorsAreLeast
      <4>3. a # n
        BY <1>4, <1>6, <4>1, <4>2
      <4>4. QED BY <1>5, <4>1, <4>2, <4>3
    <3>2. CASE m \in blocked
      BY <1>4, <1>5, <1>6, <2>2, <3>1, <3>2
    <3>3. CASE m \notin blocked
      <4>1. m = n /\ end = "skipped"
        BY <1>5, <2>2, <3>3
      <4>2. PICK d \in deps[n] \cap blocked : TRUE
        BY <1>8, <2>2, <4>1
      <4>3. d \in NodesOf(deps) /\ d # n /\ d \in Ancestors(deps, n) /\ Ancestors(deps, d) \subseteq Ancestors(deps, n)
        BY <1>4, <4>2, AncestorsAreLeast, AncestorsOfAncestors
      <4>4. CASE status[d] = "failed"
        BY <1>5, <4>1, <4>3, <4>4
      <4>5. CASE status[d] = "skipped"
        BY <3>1, <4>1, <4>2, <4>3, <4>5
      <4>6. QED BY <1>6, <4>2, <4>4, <4>5
    <3>4. QED BY <3>2, <3>3
  <2>3. cancelled' \/ \A m \in blocked' : status'[m] = "skipped" =>
                        \E a \in Ancestors(deps', m) : status'[a] = "failed"
    BY <1>5, <2>2
  <2>4. pc' # "node"
    BY <1>5
  <2>5. QED BY <2>1, <2>3, <2>4 DEF Caused
<1>11. Concluded'
  BY DEF Visiting, Concluded, Left
<1>12. QED BY <1>2, <1>9, <1>10, <1>11 DEF Visiting

\* What Leave does, with and without blocking.
Rest == saved' = saved /\ edits' = edits /\ resume' = resume /\ last' = last

\* Leaving a node that blocks what is downstream of it.
LEMMA LeaveBlocked ==
  ASSUME DefinitionsAssumption, Visiting, pos <= Len(order), pc \in {"run", "node"},
         NEW end \in {"failed", "skipped"}, Leave(Node, end, TRUE),
         DOMAIN output' = DOMAIN output, DOMAIN given' = DOMAIN given
  PROVE  Left(end) /\ Rest /\ blocked' = blocked \cup {Node}
<1>1. Node \in DOMAIN status /\ DOMAIN status = NodesOf(deps)
  BY PlaceFacts DEF Visiting, Underway, Place
<1>2. QED BY <1>1 DEF Leave, Left, Rest, request

\* Leaving one that blocks nothing.
LEMMA LeaveOpen ==
  ASSUME DefinitionsAssumption, Visiting, pos <= Len(order), pc \in {"run", "node"},
         NEW end \in {"success", "skipped"}, Leave(Node, end, FALSE),
         DOMAIN output' = DOMAIN output, DOMAIN given' = DOMAIN given
  PROVE  Left(end) /\ Rest /\ blocked' = blocked
<1>1. Node \in DOMAIN status /\ DOMAIN status = NodesOf(deps)
  BY PlaceFacts DEF Visiting, Underway, Place
<1>2. QED BY <1>1 DEF Leave, Left, Rest, request

\* Where the loop is.
LEMMA AtNode ==
  ASSUME DefinitionsAssumption, RunInv, Here \/ pc = "node"
  PROVE  Visiting /\ pos <= Len(order) /\ pc \in {"run", "node"} /\ pc # "done"
         /\ Node \notin blocked /\ Node \in NodesOf(deps) /\ Node \in DOMAIN status
<1>1. Visiting /\ pos <= Len(order)
  BY DEF RunInv, Here, Visiting, Underway
<1>2. QED BY <1>1, PlaceFacts DEF Here, Visiting, Underway, Marked, Place

\* A node outside the rerun takes the earlier output, or fails without it.
LEMMA ReuseKeeps ==
  ASSUME DefinitionsAssumption, RunInv, Reuse
  PROVE  Visiting' /\ Rest
<1>1. /\ Visiting /\ pos <= Len(order) /\ pc \in {"run", "node"}
      /\ Node \notin targets /\ cancelled' = cancelled /\ Node \notin blocked
  BY AtNode DEF Reuse, Reusing
<1>2. CASE Reusable(Node)
  <2>1. /\ Leave(Node, "success", FALSE) /\ reused' = reused \cup {Node}
        /\ DOMAIN output' = DOMAIN output /\ DOMAIN given' = DOMAIN given
    BY <1>2 DEF Reuse
  <2>2. Left("success") /\ Rest /\ blocked' = blocked
    BY <1>1, <2>1, LeaveOpen
  <2>3. QED BY <1>1, <2>1, <2>2, LeavingKeeps
<1>3. CASE ~Reusable(Node)
  <2>1. Leave(Node, "failed", TRUE) /\ reused' = reused /\ output' = output /\ given' = given
    BY <1>3 DEF Reuse
  <2>2. Left("failed") /\ Rest
    BY <1>1, <2>1, LeaveBlocked
  <2>3. QED BY <1>1, <2>1, <2>2, LeavingKeeps
<1>4. QED BY <1>2, <1>3

\* A node is skipped for what blocks it.
LEMMA SkipBlockedKeeps ==
  ASSUME DefinitionsAssumption, RunInv, SkipBlocked
  PROVE  Visiting' /\ Rest
<1>1. /\ Visiting /\ pos <= Len(order) /\ pc \in {"run", "node"}
      /\ reused' = reused /\ output' = output /\ given' = given /\ cancelled' = cancelled
      /\ deps[Node] \cap blocked # {} /\ Leave(Node, "skipped", TRUE)
  BY AtNode DEF SkipBlocked, Blocked
<1>2. Left("skipped") /\ Rest /\ blocked' = blocked \cup {Node}
  BY <1>1, LeaveBlocked
<1>3. QED BY <1>1, <1>2, LeavingKeeps

\* A node is skipped for the cancel.
LEMMA SkipCancelledKeeps ==
  ASSUME DefinitionsAssumption, RunInv, SkipCancelled
  PROVE  Visiting' /\ Rest
<1>1. /\ Visiting /\ pos <= Len(order) /\ pc \in {"run", "node"}
      /\ reused' = reused /\ output' = output /\ given' = given /\ cancelled' = TRUE
      /\ Leave(Node, "skipped", TRUE)
  BY AtNode DEF SkipCancelled, Runnable
<1>2. Left("skipped") /\ Rest /\ blocked' = blocked \cup {Node} /\ cancelled'
  BY <1>1, LeaveBlocked
<1>3. QED BY <1>1, <1>2, LeavingKeeps

\* A node fails, before or in its runner.
LEMMA FailingKeeps ==
  ASSUME DefinitionsAssumption, RunInv, FailEarly \/ Fail
  PROVE  Visiting' /\ Rest
<1>1. /\ Visiting /\ pos <= Len(order) /\ pc \in {"run", "node"}
      /\ reused' = reused /\ output' = output /\ given' = given /\ cancelled' = cancelled
      /\ Leave(Node, "failed", TRUE)
  BY AtNode DEF FailEarly, Fail, Runnable
<1>2. Left("failed") /\ Rest /\ blocked' = blocked \cup {Node}
  BY <1>1, LeaveBlocked
<1>3. QED BY <1>1, <1>2, LeavingKeeps

\* A node is skipped for its own `when'.
LEMMA SkipByWhenKeeps ==
  ASSUME DefinitionsAssumption, RunInv, SkipByWhen
  PROVE  Visiting' /\ Rest
<1>1. /\ Visiting /\ pos <= Len(order) /\ pc \in {"run", "node"} /\ Node \notin blocked
      /\ reused' = reused /\ output' = output /\ given' = given /\ cancelled' = cancelled
      /\ deps[Node] \cap blocked = {} /\ Leave(Node, "skipped", FALSE)
  BY AtNode DEF SkipByWhen, Runnable, Blocked
<1>2. Left("skipped") /\ Rest /\ blocked' = blocked
  BY <1>1, LeaveOpen
<1>3. QED BY <1>1, <1>2, LeavingKeeps

\* A runner returns.
LEMMA SucceedKeeps ==
  ASSUME DefinitionsAssumption, RunInv, Succeed
  PROVE  Visiting' /\ Rest
<1>1. /\ Visiting /\ pos <= Len(order) /\ pc \in {"run", "node"} /\ Node \notin blocked
      /\ reused' = reused /\ given' = given /\ cancelled' = cancelled
      /\ DOMAIN output' = DOMAIN output /\ Leave(Node, "success", FALSE)
  BY AtNode DEF Succeed
<1>2. deps[Node] \cap blocked = {}
  BY <1>1 DEF Visiting, Caused, Succeed
<1>3. Left("success") /\ Rest /\ blocked' = blocked
  BY <1>1, LeaveOpen
<1>4. QED BY <1>1, <1>2, <1>3, LeavingKeeps

\* A runner is called.
LEMMA StartKeeps ==
  ASSUME DefinitionsAssumption, RunInv, Start
  PROVE  Visiting' /\ Rest
<1>1. /\ Visiting /\ pos <= Len(order) /\ Node \notin blocked /\ Node \in DOMAIN status /\ pc # "done"
      /\ Node \in targets /\ deps[Node] \cap blocked = {}
  BY AtNode DEF Start, Runnable, Reusing, Blocked
<1>2. /\ UNCHANGED <<request, cancelRequested, pos, reused, blocked, output, cancelled, verdict>>
      /\ status' = [status EXCEPT ![Node] = "running"] /\ pc' = "node"
      /\ given' = [given EXCEPT ![Node] = [d \in deps[Node] |-> output[d]]]
  BY DEF Start
<1>3. Underway'
  BY <1>1, <1>2 DEF Visiting, Underway, request
<1>4. Visited' = Visited /\ Node' = Node
  BY <1>2 DEF Visited, Node, request
<1>5. Node \notin Visited /\ DOMAIN status = NodesOf(deps) /\ blocked \subseteq Visited /\ Visited \subseteq NodesOf(deps)
  BY <1>1, PlaceFacts DEF Visiting, Marked, Place, Underway
<1>6. /\ DOMAIN status' = DOMAIN status /\ status'[Node] = "running" /\ deps' = deps /\ targets' = targets
      /\ blocked' = blocked /\ reused' = reused /\ cancelled' = cancelled /\ verdict' = verdict
      /\ \A m \in NodesOf(deps) : m # Node => status'[m] = status[m]
  BY <1>1, <1>2, <1>5 DEF request
<1> DEFINE n == Node
           B == Visited
<1>7. /\ \A m \in B : status[m] \in Settled
      /\ \A m \in NodesOf(deps) \ B : status[m] \in {"pending", "running"}
      /\ \A m \in NodesOf(deps) : status[m] = "failed" => m \in blocked
      /\ \A m \in blocked : status[m] \in {"failed", "skipped"}
      /\ reused \subseteq B /\ reused \cap targets = {}
  BY <1>1 DEF Visiting, Marked
<1>8. /\ \A m \in B \cap targets : m \notin blocked => deps[m] \cap blocked = {}
      /\ cancelled \/ \A m \in blocked : status[m] = "skipped" =>
                        \E a \in Ancestors(deps, m) : status[a] = "failed"
      /\ Graph(deps)
  BY <1>1, PlaceFacts DEF Visiting, Caused, Place
<1>9. /\ Visited' = B /\ n \notin B /\ n \in targets /\ deps[n] \cap blocked = {} /\ Node' = n
      /\ B \subseteq NodesOf(deps) /\ blocked \subseteq B /\ status'[n] = "running"
      /\ \A m \in NodesOf(deps) : m # n => status'[m] = status[m]
  BY <1>1, <1>4, <1>5, <1>6
<1> HIDE DEF n, B
<1>10. Marked'
  <2>1. \A m \in B : status'[m] = status[m]
    BY <1>9
  <2>2. \A m \in NodesOf(deps') : status'[m] = "failed" => m \in blocked'
    BY <1>6, <1>7, <1>9
  <2>3. \A m \in NodesOf(deps') \ Visited' : status'[m] \in {"pending", "running"}
    BY <1>6, <1>7, <1>9
  <2>4. QED BY <1>6, <1>7, <1>9, <2>1, <2>2, <2>3 DEF Marked
<1>11. Caused'
  <2>1. ASSUME ~cancelled, NEW m \in blocked, status'[m] = "skipped"
        PROVE  \E a \in Ancestors(deps, m) : status'[a] = "failed"
    <3>1. status[m] = "skipped" /\ m \in NodesOf(deps)
      BY <1>9, <2>1
    <3>2. PICK a \in Ancestors(deps, m) : status[a] = "failed"
      BY <1>8, <2>1, <3>1
    <3>3. a \in NodesOf(deps)
      BY <1>8, <3>1, AncestorsAreLeast
    <3>4. a # n
      BY <1>7, <1>9, <3>2, <3>3
    <3>5. QED BY <1>9, <3>2, <3>3, <3>4
  <2>2. cancelled' \/ \A m \in blocked' : status'[m] = "skipped" =>
                        \E a \in Ancestors(deps', m) : status'[a] = "failed"
    BY <1>6, <2>1
  <2>3. \A m \in Visited' \cap targets' : m \notin blocked' => deps'[m] \cap blocked' = {}
    BY <1>6, <1>8, <1>9
  <2>4. Node' \in targets' /\ deps'[Node'] \cap blocked' = {}
    BY <1>6, <1>9
  <2>5. QED BY <2>2, <2>3, <2>4 DEF Caused
<1>12. Concluded'
  BY <1>1, <1>2 DEF Visiting, Concluded
<1>13. Rest
  BY <1>2 DEF Rest, request
<1>14. QED BY <1>3, <1>10, <1>11, <1>12, <1>13 DEF Visiting

\* The loop ends, or an exception leaves it.
LEMMA EndingKeeps ==
  ASSUME DefinitionsAssumption, RunInv, Finish \/ Escape
  PROVE  Visiting' /\ Rest
<1>1. Visiting /\ pc = "run" /\ pc' = "done"
  BY DEF RunInv, Finish, Escape, Runnable, Here
<1>2. /\ UNCHANGED <<request, cancelRequested, pos, status, reused, blocked, output, given, cancelled>>
      /\ verdict' = "raised" \/ (pos > Len(order) /\ verdict' = Verdict)
  BY DEF Finish, Escape
<1>3. Underway'
  BY <1>1, <1>2 DEF Visiting, Underway, request
<1>4. Visited' = Visited
  BY <1>2 DEF Visited, request
<1>5. Marked' /\ Caused'
  BY <1>1, <1>2, <1>4 DEF Visiting, Marked, Caused, request
<1>6. Concluded'
  <2>1. Len(order) \in Nat /\ pos \in 1..(Len(order) + 1)
    BY <1>1, OrderFacts DEF Visiting, Underway
  <2>2. pos > Len(order) => pos = Len(order) + 1
    BY <2>1
  <2>3. Verdict' = Verdict
    BY <1>2 DEF Verdict, request
  <2>4. QED BY <1>1, <1>2, <2>2, <2>3 DEF Concluded, request
<1>7. Rest
  BY <1>2 DEF Rest, request
<1>8. QED BY <1>3, <1>5, <1>6, <1>7 DEF Visiting

\* The definition is loaded and sorted, or cannot be.
LEMMA LoadKeeps ==
  ASSUME DefinitionsAssumption, RunInv, Load
  PROVE  /\ RunInv' /\ saved' = saved /\ edits' = edits /\ resume' = resume /\ last' = last
         /\ from' = from /\ deps' = saved /\ runNo' = runNo + 1
         /\ DOMAIN status' = NodesOf(saved) /\ \A n \in NodesOf(saved) : status'[n] # "success"
         /\ blocked' = {} /\ pc' # "node"
         /\ Visiting' \/ NotLoaded'
<1>1. /\ saved \in Definitions /\ runNo \in Nat /\ edits \in Nat
      /\ saved' = saved /\ edits' = edits /\ resume' = resume /\ last' = last /\ from' = from
      /\ deps' = saved /\ runNo' = runNo + 1
      /\ pos' = 1 /\ reused' = {} /\ blocked' = {} /\ cancelled' = FALSE
      /\ DOMAIN output' = NodesOf(saved) /\ DOMAIN given' = NodesOf(saved)
  BY DEF Load, RunInv
<1>2. CASE Loadable
  <2>1. /\ status' = [n \in NodesOf(saved) |-> "pending"]
        /\ order' = OrderOf(saved) /\ verdict' = "running" /\ pc' = "run"
        /\ targets' = IF from = 0 THEN NodesOf(saved) ELSE Descendants(saved, from)
        /\ Valid(saved) /\ (from = 0 \/ from \in NodesOf(saved))
    BY <1>2 DEF Load, Loadable
  <2>2. Len(OrderOf(saved)) \in Nat /\ Before(OrderOf(saved), 1) = {} /\ 0 \notin NodesOf(saved)
    <3>1. IsFiniteSet(NodesOf(saved)) /\ NodesOf(saved) \subseteq Nat \ {0} /\ Graph(saved) /\ ~Cyclic(saved)
      BY <1>1, <2>1 DEF DefinitionsAssumption, Graph, Valid
    <3>2. Sorted(saved, OrderOf(saved))
      <4>1. NodesOf(saved) \subseteq Nat
        BY <3>1
      <4>2. QED BY <3>1, <4>1, OrderIsSorted
    <3>3. QED BY <3>1, <3>2 DEF Sorted, Before
  <2>3. Visited' = {}
    <3>1. Visited' = Before(order', pos')
      BY DEF Visited
    <3>2. QED BY <1>1, <2>1, <2>2, <3>1
  <2>4. Underway'
    BY <1>1, <2>1, <2>2 DEF Underway
  <2>5. Marked'
    BY <1>1, <2>1, <2>3 DEF Marked
  <2>6. Caused'
    BY <1>1, <2>1, <2>3 DEF Caused
  <2>7. Concluded'
    BY <2>1 DEF Concluded
  <2>8. Visiting'
    BY <2>4, <2>5, <2>6, <2>7 DEF Visiting
  <2>9. RunInv'
    BY <1>1, <2>1, <2>8 DEF RunInv
  <2>10. QED BY <1>1, <2>1, <2>8, <2>9
<1>3. CASE ~Loadable
  <2>1. /\ status' = [n \in NodesOf(saved) |-> "skipped"]
        /\ verdict' = "failed" /\ pc' = "done"
    BY <1>3 DEF Load
  <2>2. NotLoaded'
    BY <1>1, <2>1 DEF NotLoaded
  <2>3. RunInv'
    BY <1>1, <2>1, <2>2 DEF RunInv
  <2>4. QED BY <1>1, <2>1, <2>2, <2>3
<1>4. QED BY <1>2, <1>3

\* The loop's steps keep RunInv.
LEMMA LoopKeeps ==
  ASSUME DefinitionsAssumption, RunInv,
         Reuse \/ SkipBlocked \/ SkipCancelled \/ FailEarly \/ SkipByWhen \/ Start \/ Succeed \/ Fail \/ Finish \/ Escape
  PROVE  RunInv' /\ Visiting' /\ Rest
<1>1. Visiting' /\ Rest
  BY ReuseKeeps, SkipBlockedKeeps, SkipCancelledKeeps, FailingKeeps, SkipByWhenKeeps, StartKeeps, SucceedKeeps, EndingKeeps
<1>2. pc' \in {"run", "node", "done"} /\ runNo' = runNo
  BY DEF Reuse, SkipBlocked, SkipCancelled, FailEarly, SkipByWhen, Start, Succeed, Fail, Finish, Escape, Leave, request
<1>3. QED BY <1>1, <1>2 DEF RunInv, Rest

\* The run is persisted, and nothing of it is kept.
LEMMA EndRunKeeps ==
  ASSUME RunInv, EndRun
  PROVE  RunInv'
<1>1. /\ pc' \in {"idle", "queued"} /\ Nothing' /\ saved' = saved /\ runNo' = runNo /\ edits' = edits
  BY DEF EndRun, Nothing
<1>2. QED BY <1>1 DEF RunInv

\* The same run goes on.
Run == <<deps, order, pos, targets, status, reused, blocked, output, given, cancelled, verdict>>

\* What is said of the run depends on the run alone.
LEMMA RunGoesOn ==
  ASSUME Run' = Run, pc' = pc, from' = from, runNo' = runNo
  PROVE  /\ Visiting' <=> Visiting
         /\ NotLoaded' <=> NotLoaded
         /\ Nothing' <=> Nothing
<1>1. Node' = Node /\ Visited' = Visited /\ Verdict' = Verdict
  BY DEF Node, Visited, Verdict, Run
<1>2. Underway' <=> Underway
  BY DEF Underway, Run
<1>3. Marked' <=> Marked
  BY <1>1 DEF Marked, Run
<1>4. Caused' <=> Caused
  BY <1>1 DEF Caused, Run
<1>5. Concluded' <=> Concluded
  BY <1>1 DEF Concluded, Run
<1>6. QED BY <1>2, <1>3, <1>4, <1>5 DEF Visiting, NotLoaded, Nothing, Run

\* Edits and cancel requests leave the run alone.
LEMMA ClientsKeep ==
  ASSUME RunInv, Edit \/ RequestCancel \/ (UNCHANGED vars)
  PROVE  RunInv'
<1>1. /\ Run' = Run /\ pc' = pc /\ from' = from /\ runNo' = runNo
      /\ saved' \in Definitions /\ edits' \in Nat
  BY DEF Edit, RequestCancel, vars, request, Run, RunInv
<1>2. QED BY <1>1, RunGoesOn DEF RunInv

\* A job is submitted while there is no run.
LEMMA SubmitKeeps ==
  ASSUME RunInv, NEW r, NEW f, Submit(r, f)
  PROVE  RunInv'
BY DEF RunInv, Submit, Nothing

\* A job ends before its run.
LEMMA GiveUpKeeps ==
  ASSUME RunInv, GiveUp
  PROVE  RunInv'
BY DEF RunInv, GiveUp, Nothing, request

\* RunInv holds at first and is kept by every step.
LEMMA RunInvHolds ==
  ASSUME DefinitionsAssumption
  PROVE  (Init => RunInv) /\ (RunInv /\ [Next]_vars => RunInv')
<1>1. Init => RunInv
  BY DEF Init, RunInv, Nothing
<1>2. ASSUME RunInv, [Next]_vars PROVE RunInv'
  <2>1. CASE Edit \/ RequestCancel \/ UNCHANGED vars
    BY <1>2, <2>1, ClientsKeep
  <2>2. CASE RequestRun \/ RequestRerun
    BY <1>2, <2>2, SubmitKeeps DEF RequestRun, RequestRerun
  <2>3. CASE GiveUp
    BY <1>2, <2>3, GiveUpKeeps
  <2>4. CASE Load
    BY <1>2, <2>4, LoadKeeps
  <2>5. CASE EndRun
    BY <1>2, <2>5, EndRunKeeps
  <2>6. CASE Reuse \/ SkipBlocked \/ SkipCancelled \/ FailEarly \/ SkipByWhen \/ Start \/ Succeed \/ Fail \/ Finish \/ Escape
    BY <1>2, <2>6, LoopKeeps
  <2>7. QED BY <1>2, <2>1, <2>2, <2>3, <2>4, <2>5, <2>6 DEF Next, Engine
<1>3. QED BY <1>1, <1>2

-----------------------------------------------------------------------------
(* What follows for every run.                                             *)

\* In a full run, nothing upstream of an unblocked node has failed.
LEMMA NothingUpstreamFailed ==
  ASSUME DefinitionsAssumption, Visiting, pc = "node", targets = NodesOf(deps)
  PROVE  \A a \in Ancestors(deps, Node) : status[a] # "failed"
<1> DEFINE n == Node
           T == {a \in Visited : a \notin blocked}
<1>1. /\ Graph(deps) /\ Visited \subseteq NodesOf(deps) /\ \A m \in Visited : deps[m] \subseteq Visited
      /\ n \in NodesOf(deps) /\ deps[n] \subseteq Visited
  BY PlaceFacts DEF Visiting, Underway, Place
<1>2. /\ \A m \in Visited \cap targets : m \notin blocked => deps[m] \cap blocked = {}
      /\ deps[n] \cap blocked = {}
      /\ \A m \in NodesOf(deps) : status[m] = "failed" => m \in blocked
  BY DEF Visiting, Caused, Marked
<1> HIDE DEF n
<1>3. deps[n] \subseteq T /\ \A m \in T \cap NodesOf(deps) : deps[m] \subseteq T
  BY <1>1, <1>2
<1> HIDE DEF T
<1>4. Ancestors(deps, n) \subseteq T
  BY <1>1, <1>3, AncestorsAreLeast
<1>5. QED BY <1>1, <1>2, <1>4 DEF T, n

\* What is before the node in the order is settled, and what failed blocks.
LEMMA RunInvMeansNoInputFromFailure ==
  ASSUME DefinitionsAssumption, RunInv
  PROVE  NoInputFromFailure
<1> SUFFICES ASSUME pc = "node" PROVE
      /\ \A d \in deps[Node] : status[d] = "success" \/ SkippedByWhen(d)
      /\ from = 0 => \A a \in Ancestors(deps, Node) : status[a] # "failed"
  BY DEF NoInputFromFailure
<1>1. Visiting
  BY DEF RunInv
<1>2. Place(Node, Visited)
  BY <1>1, PlaceFacts DEF Visiting, Underway
<1>3. ASSUME NEW d \in deps[Node] PROVE status[d] = "success" \/ SkippedByWhen(d)
  <2>1. d \notin blocked /\ d \in Visited /\ d \in NodesOf(deps)
    BY <1>1, <1>2, <1>3 DEF Visiting, Caused, Place
  <2>2. status[d] \in Settled /\ status[d] # "failed"
    BY <1>1, <2>1 DEF Visiting, Marked
  <2>3. QED BY <2>1, <2>2 DEF Settled, SkippedByWhen
<1>4. ASSUME from = 0 PROVE \A a \in Ancestors(deps, Node) : status[a] # "failed"
  <2>1. 0 \notin NodesOf(deps)
    BY <1>1 DEF Visiting, Underway, DefinitionsAssumption
  <2>2. targets = NodesOf(deps)
    BY <1>1, <1>4, <2>1 DEF Visiting, Underway
  <2>3. QED BY <1>1, <2>2, NothingUpstreamFailed
<1>5. QED BY <1>3, <1>4

\* A node is to run exactly when it is the chosen one or downstream of it.
LEMMA TargetsAreDownstream ==
  ASSUME DefinitionsAssumption, Visiting, Partial, NEW n \in NodesOf(deps)
  PROVE  n \in targets <=> from \in {n} \cup Ancestors(deps, n)
<1>1. Graph(deps) /\ 0 \notin NodesOf(deps)
  BY DEF Visiting, Underway, Valid, Graph, DefinitionsAssumption
<1>2. targets = Descendants(deps, from) /\ from \in NodesOf(deps)
  BY <1>1 DEF Visiting, Underway, Partial
<1>3. QED BY <1>1, <1>2, DownstreamIsUpstream

\* A node that runs is to run, and one that is reused is not.
LEMMA RunInvMeansRerunScope ==
  ASSUME DefinitionsAssumption, RunInv
  PROVE  RerunScope
<1> SUFFICES ASSUME Partial PROVE
      /\ pc = "node" => from \in {Node} \cup Ancestors(deps, Node)
      /\ \A n \in reused : from \notin {n} \cup Ancestors(deps, n)
  BY DEF RerunScope
<1>1. CASE Visiting
  <2>1. ASSUME pc = "node" PROVE from \in {Node} \cup Ancestors(deps, Node)
    <3>1. Node \in targets /\ Node \in NodesOf(deps)
      BY <1>1, <2>1, PlaceFacts DEF Visiting, Underway, Caused, Place
    <3>2. QED BY <1>1, <3>1, TargetsAreDownstream
  <2>2. ASSUME NEW n \in reused PROVE from \notin {n} \cup Ancestors(deps, n)
    <3>1. n \notin targets /\ n \in Visited
      BY <1>1, <2>2 DEF Visiting, Marked
    <3>2. n \in NodesOf(deps)
      BY <1>1, <3>1, OrderFacts DEF Visiting, Underway, Visited
    <3>3. QED BY <1>1, <3>1, <3>2, TargetsAreDownstream
  <2>3. QED BY <2>1, <2>2
<1>2. CASE ~Visiting
  <2>1. pc # "node" /\ reused = {}
    BY <1>2 DEF RunInv, Nothing, NotLoaded
  <2>2. QED BY <2>1
<1>3. QED BY <1>1, <1>2

\* The verdict looks at every node, as the loop has left them all.
LEMMA RunInvMeansVerdictMeansDone ==
  ASSUME DefinitionsAssumption, RunInv
  PROVE  VerdictMeansDone
<1> SUFFICES ASSUME Ended PROVE
      /\ verdict = "success" =>
           \A n \in NodesOf(deps) : status[n] = "success" \/ SkippedByWhen(n)
      /\ verdict = "failed" /\ pos > 1 => \E n \in NodesOf(deps) : status[n] = "failed"
      /\ ~cancelled /\ pos > 1 => \A n \in NodesOf(deps) :
           status[n] = "skipped" /\ n \in blocked =>
             \E a \in Ancestors(deps, n) : status[a] = "failed"
  BY DEF VerdictMeansDone
<1>1. CASE Visiting
  <2>1. pos = Len(order) + 1 /\ verdict = Verdict
    BY <1>1 DEF Visiting, Concluded, Ended
  <2>2. Visited = NodesOf(deps) /\ Graph(deps)
    BY <1>1, <2>1, OrderFacts DEF Visiting, Underway, Visited
  <2>3. /\ \A n \in NodesOf(deps) : status[n] \in Settled
        /\ cancelled \/ \A n \in blocked : status[n] = "skipped" =>
                          \E a \in Ancestors(deps, n) : status[a] = "failed"
    BY <1>1, <2>2 DEF Visiting, Marked, Caused
  <2>4. ASSUME verdict = "success", NEW n \in NodesOf(deps) PROVE status[n] = "success" \/ SkippedByWhen(n)
    <3>1. ~cancelled /\ \A m \in NodesOf(deps) : status[m] # "failed"
      BY <2>1, <2>4 DEF Verdict
    <3>2. \A m \in blocked : status[m] # "skipped"
      <4>1. blocked \subseteq NodesOf(deps)
        BY <1>1, <2>2 DEF Visiting, Marked
      <4>2. QED BY <2>2, <2>3, <3>1, <4>1, AncestorsAreLeast
    <3>3. QED BY <2>3, <3>1, <3>2 DEF Settled, SkippedByWhen
  <2>5. verdict = "failed" => \E n \in NodesOf(deps) : status[n] = "failed"
    BY <2>1 DEF Verdict
  <2>6. QED BY <2>3, <2>4, <2>5
<1>2. CASE NotLoaded
  <2>1. pos = 1 /\ verdict = "failed"
    BY <1>2 DEF NotLoaded
  <2>2. QED BY <2>1
<1>3. QED BY <1>1, <1>2 DEF RunInv, Ended

\* A node runs on settled inputs only, and in a full run nothing upstream of
\* it, however far, has failed.
THEOREM NoNodeRunsOnAFailure ==
  ASSUME DefinitionsAssumption
  PROVE  Spec => []NoInputFromFailure
BY RunInvHolds, RunInvMeansNoInputFromFailure, PTL DEF Spec

\* A rerun executes the chosen node and what depends on it, nothing else, and
\* reuses no old output of those.
THEOREM RerunsStayInScope ==
  ASSUME DefinitionsAssumption
  PROVE  Spec => []RerunScope
BY RunInvHolds, RunInvMeansRerunScope, PTL DEF Spec

\* A run is reported a success only if every node is done or was left out by
\* its own `when', a failure only if some node failed, and without a cancel a
\* node is blocked only by a failure upstream.
THEOREM VerdictsAreEarned ==
  ASSUME DefinitionsAssumption
  PROVE  Spec => []VerdictMeansDone
BY RunInvHolds, RunInvMeansVerdictMeansDone, PTL DEF Spec

-----------------------------------------------------------------------------
(* What follows while the workflow is not edited.                          *)

\* What the node that is left shows fits what is upstream of it.
LEMMA LeavingInherits ==
  ASSUME DefinitionsAssumption, Visiting, Inherited, NEW end, Left(end),
         end = "success" =>
           /\ output'[Node] \in 1..runNo
           /\ \A d \in deps[Node] : status[d] = "success" => given'[Node][d] = output[d],
         \A m \in NodesOf(deps) : m # Node => output'[m] = output[m] /\ given'[m] = given[m],
         end = "success" /\ Node \notin targets =>
           /\ Node \in DOMAIN resume.status /\ resume.status[Node] = "success"
           /\ output'[Node] = resume.output[Node] /\ given'[Node] = resume.given[Node],
         blocked' = blocked \/ (from \in NodesOf(deps) => Node \notin Ancestors(deps, from)),
         resume' = resume
  PROVE  Inherited'
<1> DEFINE n == Node
<1>1. /\ n \in NodesOf(deps) /\ n \notin Visited /\ deps[n] \subseteq Visited
      /\ \A m \in Visited : deps[m] \subseteq Visited
      /\ Visited \subseteq NodesOf(deps) /\ Graph(deps)
  BY PlaceFacts DEF Visiting, Left, Place
<1>2. /\ DOMAIN status = NodesOf(deps)
      /\ \A m \in NodesOf(deps) : status[m] = "success" => m \in Visited
  BY DEF Visiting, Underway, Marked
<1>3. /\ deps' = deps /\ targets' = targets /\ from' = from /\ runNo' = runNo /\ pc' = "run"
      /\ DOMAIN status' = DOMAIN status /\ status'[n] = end
      /\ \A m \in NodesOf(deps) : m # n => status'[m] = status[m]
      /\ blocked' = blocked \cup {n} \/ blocked' = blocked
  BY DEF Left
<1>4. /\ end = "success" =>
           /\ output'[n] \in 1..runNo
           /\ \A d \in deps[n] : status[d] = "success" => given'[n][d] = output[d]
      /\ \A m \in NodesOf(deps) : m # n => output'[m] = output[m] /\ given'[m] = given[m]
      /\ end = "success" /\ n \notin targets =>
           /\ n \in DOMAIN resume.status /\ resume.status[n] = "success"
           /\ output'[n] = resume.output[n] /\ given'[n] = resume.given[n]
      /\ blocked' = blocked \/ (from \in NodesOf(deps) => n \notin Ancestors(deps, from))
  OBVIOUS
<1>5. /\ \A m \in NodesOf(deps) : status[m] = "success" =>
           output[m] \in 1..runNo /\ \A d \in deps[m] : status[d] = "success" => given[m][d] = output[d]
      /\ \A m \in NodesOf(deps) \ targets : status[m] = "success" =>
           /\ m \in DOMAIN resume.status /\ resume.status[m] = "success"
           /\ output[m] = resume.output[m] /\ given[m] = resume.given[m]
      /\ from \in NodesOf(deps) => Ancestors(deps, from) \cap blocked = {}
  BY <1>2 DEF Inherited, Fits
<1> HIDE DEF n
<1>6. ASSUME NEW m \in NodesOf(deps), status'[m] = "success"
      PROVE  output'[m] \in 1..runNo /\ \A d \in deps[m] : status'[d] = "success" => given'[m][d] = output'[d]
  <2>1. CASE m = n
    <3>1. end = "success"
      BY <1>3, <1>6, <2>1
    <3>2. ASSUME NEW d \in deps[n], status'[d] = "success" PROVE given'[n][d] = output'[d]
      <4>1. d # n /\ d \in NodesOf(deps)
        BY <1>1, <3>2
      <4>2. status[d] = "success" /\ output'[d] = output[d]
        BY <1>3, <1>4, <3>2, <4>1
      <4>3. QED BY <1>4, <3>1, <3>2, <4>2
    <3>3. QED BY <1>4, <2>1, <3>1, <3>2
  <2>2. CASE m # n
    <3>1. status[m] = "success" /\ m \in Visited /\ output'[m] = output[m] /\ given'[m] = given[m]
      BY <1>2, <1>3, <1>4, <1>6, <2>2
    <3>2. ASSUME NEW d \in deps[m], status'[d] = "success" PROVE given'[m][d] = output'[d]
      <4>1. d # n /\ d \in NodesOf(deps)
        BY <1>1, <3>1, <3>2
      <4>2. status[d] = "success" /\ output'[d] = output[d]
        BY <1>3, <1>4, <3>2, <4>1
      <4>3. QED BY <1>5, <3>1, <3>2, <4>2
    <3>3. QED BY <1>5, <3>1, <3>2
  <2>3. QED BY <2>1, <2>2
<1>7. Fits(deps, status, output, given)'
  BY <1>2, <1>3, <1>6 DEF Fits
<1>8. \A m \in NodesOf(deps) \ targets : status'[m] = "success" =>
        /\ m \in DOMAIN resume.status /\ resume.status[m] = "success"
        /\ output'[m] = resume.output[m] /\ given'[m] = resume.given[m]
  <2>1. ASSUME NEW m \in NodesOf(deps) \ targets, status'[m] = "success"
        PROVE  /\ m \in DOMAIN resume.status /\ resume.status[m] = "success"
               /\ output'[m] = resume.output[m] /\ given'[m] = resume.given[m]
    <3>1. CASE m = n
      BY <1>3, <1>4, <2>1, <3>1
    <3>2. CASE m # n
      BY <1>3, <1>4, <1>5, <2>1, <3>2
    <3>3. QED BY <3>1, <3>2
  <2>2. QED BY <2>1
<1>9. from \in NodesOf(deps) => Ancestors(deps, from) \cap blocked' = {}
  BY <1>3, <1>4, <1>5
<1>10. QED BY <1>3, <1>7, <1>8, <1>9 DEF Inherited

\* Nothing that is to run is upstream of the chosen node.
LEMMA TargetsAreNotUpstream ==
  ASSUME DefinitionsAssumption, Visiting, from \in NodesOf(deps), NEW n \in NodesOf(deps), n \in targets
  PROVE  n \notin Ancestors(deps, from)
<1>1. Graph(deps) /\ ~Cyclic(deps)
  BY DEF Visiting, Underway, Valid, Graph, DefinitionsAssumption
<1>2. from \in {n} \cup Ancestors(deps, n)
  BY TargetsAreDownstream DEF Partial
<1>3. CASE from = n
  BY <1>1, <1>3, NotItsOwnAncestor
<1>4. CASE from \in Ancestors(deps, n)
  <2>1. Ancestors(deps, from) \subseteq Ancestors(deps, n) /\ n \notin Ancestors(deps, n)
    BY <1>1, <1>4, AncestorsOfAncestors, NotItsOwnAncestor
  <2>2. QED BY <2>1
<1>5. QED BY <1>2, <1>3, <1>4

\* What is upstream of a node that is not to run is not to run.
LEMMA ReusedAreUpstreamClosed ==
  ASSUME DefinitionsAssumption, Visiting, NEW n \in NodesOf(deps), n \notin targets, NEW d \in deps[n]
  PROVE  d \in NodesOf(deps) /\ d \notin targets
<1>1. Graph(deps)
  BY DEF Visiting, Underway, Valid, Graph, DefinitionsAssumption
<1>2. d \in NodesOf(deps)
  BY <1>1 DEF Graph, WellFormed
<1>3. from \in NodesOf(deps) /\ targets = Descendants(deps, from)
  BY DEF Visiting, Underway
<1>4. QED BY <1>1, <1>2, <1>3, DescendantsAreLeast

\* A node that is reused has its inputs reused with it.
LEMMA ReuseInherits ==
  ASSUME DefinitionsAssumption, RunInv, Stored, deps = saved, Inherited, Reuse
  PROVE  Inherited'
<1> DEFINE n == Node
<1>1. /\ Visiting /\ pos <= Len(order) /\ pc \in {"run", "node"}
      /\ n \notin targets /\ n \in NodesOf(deps)
  BY AtNode DEF Reuse, Reusing
<1>2. CASE Reusable(n)
  <2>1. /\ Leave(n, "success", FALSE)
        /\ output' = [output EXCEPT ![n] = resume.output[n]]
        /\ given' = [given EXCEPT ![n] = resume.given[n]]
        /\ DOMAIN output = NodesOf(deps) /\ DOMAIN given = NodesOf(deps)
    BY <1>1, <1>2 DEF Reuse, Visiting, Underway
  <2>2. Left("success") /\ Rest /\ blocked' = blocked
    BY <1>1, <2>1, LeaveOpen
  <2>3. n \in DOMAIN resume.status /\ resume.status[n] = "success"
    BY <1>2 DEF Reusable, PreviousStatus, Absent
  <2>4. /\ resume.output[n] \in 1..runNo
        /\ \A d \in deps[n] : resume.status[d] = "success" => resume.given[n][d] = resume.output[d]
    BY <2>3 DEF Stored, Resumable, Fits
  <2>5. /\ output'[n] = resume.output[n] /\ given'[n] = resume.given[n]
        /\ \A m \in NodesOf(deps) : m # n => output'[m] = output[m] /\ given'[m] = given[m]
    BY <1>1, <2>1
  <2>6. ASSUME NEW d \in deps[n], status[d] = "success" PROVE resume.given[n][d] = output[d]
    <3>1. d \in NodesOf(deps) \ targets
      BY <1>1, <2>6, ReusedAreUpstreamClosed
    <3>2. resume.status[d] = "success" /\ output[d] = resume.output[d]
      BY <2>6, <3>1 DEF Inherited
    <3>3. QED BY <2>4, <2>6, <3>2
  <2>7. QED BY <1>1, <2>2, <2>3, <2>4, <2>5, <2>6, LeavingInherits DEF Rest
<1>3. CASE ~Reusable(n)
  <2>1. Leave(n, "failed", TRUE) /\ output' = output /\ given' = given
    BY <1>3 DEF Reuse
  <2>2. Left("failed") /\ Rest
    BY <1>1, <2>1, LeaveBlocked
  <2>3. from \in NodesOf(deps) => n \notin Ancestors(deps, from)
    <3>1. 0 \notin NodesOf(deps)
      BY <1>1 DEF Visiting, Underway, DefinitionsAssumption
    <3>2. QED BY <1>3, <3>1 DEF Stored, Reusable
  <2>4. QED BY <1>1, <2>1, <2>2, <2>3, LeavingInherits DEF Rest
<1>4. QED BY <1>2, <1>3

\* A node that is to run is left without an output.
LEMMA SkippingInherits ==
  ASSUME DefinitionsAssumption, RunInv, Inherited,
         SkipBlocked \/ SkipCancelled \/ FailEarly \/ SkipByWhen \/ Fail
  PROVE  Inherited'
<1>1. /\ Visiting /\ pos <= Len(order) /\ pc \in {"run", "node"}
      /\ Node \in NodesOf(deps)
      /\ output' = output /\ given' = given
  BY AtNode DEF SkipBlocked, SkipCancelled, FailEarly, SkipByWhen, Fail, Runnable
<1>2. Node \in targets
  BY <1>1 DEF SkipBlocked, SkipCancelled, FailEarly, SkipByWhen, Fail, Runnable, Reusing, Visiting, Caused
<1>3. PICK end \in {"failed", "skipped"} : Left(end) /\ Rest
  <2>1. CASE SkipByWhen
    <3>1. Leave(Node, "skipped", FALSE)
      BY <2>1 DEF SkipByWhen
    <3>2. Left("skipped") /\ Rest
      BY <1>1, <3>1, LeaveOpen
    <3>3. QED BY <3>2
  <2>2. CASE SkipBlocked \/ SkipCancelled
    <3>1. Leave(Node, "skipped", TRUE)
      BY <2>2 DEF SkipBlocked, SkipCancelled
    <3>2. Left("skipped") /\ Rest
      BY <1>1, <3>1, LeaveBlocked
    <3>3. QED BY <3>2
  <2>3. CASE FailEarly \/ Fail
    <3>1. Leave(Node, "failed", TRUE)
      BY <2>3 DEF FailEarly, Fail
    <3>2. Left("failed") /\ Rest
      BY <1>1, <3>1, LeaveBlocked
    <3>3. QED BY <3>2
  <2>4. QED BY <2>1, <2>2, <2>3
<1>4. from \in NodesOf(deps) => Node \notin Ancestors(deps, from)
  BY <1>1, <1>2, TargetsAreNotUpstream
<1>5. QED BY <1>1, <1>3, <1>4, LeavingInherits DEF Rest

\* A new output, of what the node was given.
LEMMA SucceedInherits ==
  ASSUME DefinitionsAssumption, RunInv, Inherited, Succeed
  PROVE  Inherited'
<1> DEFINE n == Node
<1>1. /\ Visiting /\ pos <= Len(order) /\ pc \in {"run", "node"} /\ n \in NodesOf(deps)
      /\ Leave(n, "success", FALSE) /\ given' = given /\ DOMAIN output = NodesOf(deps)
      /\ output' = [output EXCEPT ![n] = runNo]
  BY AtNode DEF Succeed, Visiting, Underway
<1>2. n \in targets
  BY <1>1 DEF Succeed, Visiting, Caused
<1>3. Left("success") /\ Rest /\ blocked' = blocked
  BY <1>1, LeaveOpen
<1>4. output'[n] \in 1..runNo
  <2>1. runNo \in Nat /\ runNo # 0
    BY <1>1 DEF RunInv, Visiting, Underway
  <2>2. output'[n] = runNo
    BY <1>1
  <2>3. QED BY <2>1, <2>2
<1>5. \A d \in deps[n] : status[d] = "success" => given'[n][d] = output[d]
  BY <1>1 DEF Inherited, Succeed
<1>6. \A m \in NodesOf(deps) : m # n => output'[m] = output[m] /\ given'[m] = given[m]
  BY <1>1
<1>7. QED BY <1>1, <1>2, <1>3, <1>4, <1>5, <1>6, LeavingInherits DEF Rest

\* A node is given the outputs there are.
LEMMA StartInherits ==
  ASSUME DefinitionsAssumption, RunInv, Inherited, Start
  PROVE  Inherited'
<1> DEFINE n == Node
<1>1. /\ Visiting /\ n \in NodesOf(deps) /\ n \notin Visited /\ n \in targets
      /\ DOMAIN status = NodesOf(deps) /\ DOMAIN given = NodesOf(deps)
      /\ deps[n] \subseteq Visited /\ \A m \in Visited : deps[m] \subseteq Visited
  BY AtNode, PlaceFacts DEF Start, Runnable, Reusing, Visiting, Underway, Place
<1>2. /\ deps' = deps /\ targets' = targets /\ from' = from /\ runNo' = runNo /\ resume' = resume
      /\ output' = output /\ blocked' = blocked /\ Node' = n
      /\ status' = [status EXCEPT ![n] = "running"]
      /\ given' = [given EXCEPT ![n] = [d \in deps[n] |-> output[d]]]
  BY DEF Start, request, Node
<1>3. \A m \in NodesOf(deps) : status[m] = "success" => m \in Visited
  BY <1>1 DEF Visiting, Marked
<1>4. /\ DOMAIN status' = DOMAIN status
      /\ \A m \in NodesOf(deps) : status'[m] = "success" => m # n /\ status[m] = "success"
      /\ \A m \in NodesOf(deps) : m # n => given'[m] = given[m]
      /\ \A d \in deps[n] : given'[n][d] = output[d]
  BY <1>1, <1>2
<1> HIDE DEF n
<1>5. Fits(deps, status, output, given)'
  <2>1. ASSUME NEW m \in NodesOf(deps), status'[m] = "success"
        PROVE  output[m] \in 1..runNo /\ \A d \in deps[m] : status'[d] = "success" => given'[m][d] = output[d]
    <3>1. m # n /\ status[m] = "success" /\ given'[m] = given[m]
      BY <1>4, <2>1
    <3>2. \A d \in deps[m] : d \in NodesOf(deps)
      BY <1>1, <1>3, <3>1, OrderFacts DEF Visiting, Underway, Visited
    <3>3. QED BY <1>1, <1>4, <3>1, <3>2 DEF Inherited, Fits
  <2>2. QED BY <1>1, <1>2, <1>4, <2>1 DEF Fits
<1>6. \A d \in deps'[Node'] : status'[d] = "success" => given'[Node'][d] = output'[d]
  BY <1>2, <1>4
<1>7. \A m \in NodesOf(deps) \ targets : status'[m] = "success" =>
        /\ m \in DOMAIN resume.status /\ resume.status[m] = "success"
        /\ output[m] = resume.output[m] /\ given'[m] = resume.given[m]
  BY <1>4 DEF Inherited
<1>8. from \in NodesOf(deps) => Ancestors(deps, from) \cap blocked = {}
  BY DEF Inherited
<1>9. QED BY <1>2, <1>5, <1>6, <1>7, <1>8 DEF Inherited

\* Ending a run changes no node.
LEMMA EndingInherits ==
  ASSUME Inherited, Finish \/ Escape
  PROVE  Inherited'
<1>1. /\ UNCHANGED <<request, pos, status, blocked, output, given>> /\ pc' # "node"
  BY DEF Finish, Escape
<1>2. QED BY <1>1 DEF Inherited, request, Fits

\* The loop's steps keep UneditedInv.
LEMMA LoopInherits ==
  ASSUME DefinitionsAssumption, RunInv, UneditedInv,
         Reuse \/ SkipBlocked \/ SkipCancelled \/ FailEarly \/ SkipByWhen \/ Start \/ Succeed \/ Fail \/ Finish \/ Escape
  PROVE  UneditedInv'
<1>1. Visiting' /\ saved' = saved /\ edits' = edits /\ resume' = resume /\ last' = last
  BY LoopKeeps DEF Rest
<1>2. from' = from /\ runNo' = runNo /\ deps' = deps
  BY DEF Reuse, SkipBlocked, SkipCancelled, FailEarly, SkipByWhen, Start, Succeed, Fail, Finish, Escape, Leave, request
<1>3. SUFFICES ASSUME edits = 0 PROVE Stored' /\ deps' = saved' /\ Visiting' /\ Inherited'
  BY <1>1 DEF UneditedInv
<1>4. pc \in {"run", "node"} /\ Visiting
  BY AtNode DEF RunInv, Reuse, SkipBlocked, SkipCancelled, FailEarly, SkipByWhen, Start, Succeed, Fail, Finish, Escape, Runnable, Here
<1>5. ~NotLoaded
  BY <1>4 DEF NotLoaded, Visiting, Concluded
<1>6. Stored /\ deps = saved /\ Inherited
  BY <1>3, <1>4, <1>5 DEF UneditedInv
<1>7. Inherited'
  BY <1>6, ReuseInherits, SkippingInherits, SucceedInherits, StartInherits, EndingInherits
<1>8. Stored'
  BY <1>1, <1>2, <1>6 DEF Stored, Resumable, Fits, PreviousStatus, Absent
<1>9. QED BY <1>1, <1>2, <1>6, <1>7, <1>8

\* A later run knows the numbers of the earlier ones.
LEMMA LaterRunsFit ==
  ASSUME runNo \in Nat, NEW g, NEW st, NEW out, NEW gave, Fits(g, st, out, gave),
         NEW n \in DOMAIN st, st[n] = "success"
  PROVE  /\ out[n] \in 1..(runNo + 1)
         /\ \A d \in g[n] : st[d] = "success" => gave[n][d] = out[d]
<1>1. out[n] \in 1..runNo
  BY DEF Fits
<1>2. QED BY <1>1 DEF Fits

\* A run starts with no output.
LEMMA LoadInherits ==
  ASSUME DefinitionsAssumption, RunInv, UneditedInv, Load
  PROVE  UneditedInv'
<1>1. /\ saved' = saved /\ edits' = edits /\ resume' = resume /\ last' = last
      /\ from' = from /\ deps' = saved /\ runNo' = runNo + 1
      /\ DOMAIN status' = NodesOf(saved) /\ \A n \in NodesOf(saved) : status'[n] # "success"
      /\ blocked' = {} /\ pc' # "node"
      /\ Visiting' \/ NotLoaded'
  BY LoadKeeps
<1>2. SUFFICES ASSUME edits = 0 PROVE Stored' /\ ((Visiting' /\ Inherited') \/ NotLoaded')
  BY <1>1 DEF UneditedInv
<1>3. Stored /\ runNo \in Nat
  BY <1>2 DEF UneditedInv, RunInv
<1>4. Resumable(last)' /\ Resumable(resume)'
  <2>1. \A n \in DOMAIN last.status : last.status[n] = "success" =>
          /\ last.output[n] \in 1..(runNo + 1)
          /\ \A d \in saved[n] : last.status[d] = "success" => last.given[n][d] = last.output[d]
    BY <1>3, LaterRunsFit DEF Stored, Resumable
  <2>2. \A n \in DOMAIN resume.status : resume.status[n] = "success" =>
          /\ resume.output[n] \in 1..(runNo + 1)
          /\ \A d \in saved[n] : resume.status[d] = "success" => resume.given[n][d] = resume.output[d]
    BY <1>3, LaterRunsFit DEF Stored, Resumable
  <2>3. DOMAIN last.status \in {{}, NodesOf(saved)} /\ DOMAIN resume.status \in {{}, NodesOf(saved)}
    BY <1>3 DEF Stored, Resumable
  <2>4. Fits(saved, last.status, last.output, last.given)'
    BY <1>1, <2>1 DEF Fits
  <2>5. Fits(saved, resume.status, resume.output, resume.given)'
    BY <1>1, <2>2 DEF Fits
  <2>6. QED BY <1>1, <2>3, <2>4, <2>5 DEF Resumable
<1>5. Stored'
  BY <1>1, <1>3, <1>4 DEF Stored, PreviousStatus, Absent
<1>6. Inherited'
  <2>1. Fits(deps, status, output, given)'
    BY <1>1 DEF Fits
  <2>2. QED BY <1>1, <2>1 DEF Inherited
<1>7. QED BY <1>1, <1>5, <1>6

\* The run that is persisted can be resumed.
LEMMA EndRunInherits ==
  ASSUME RunInv, UneditedInv, EndRun
  PROVE  UneditedInv'
<1>1. /\ pc = "done" /\ pc' \in {"idle", "queued"}
      /\ saved' = saved /\ edits' = edits /\ resume' = resume /\ from' = from /\ runNo' = runNo
      /\ \/ last' = last
         \/ last' = [status |-> status, output |-> output, given |-> given]
  BY DEF EndRun
<1>2. SUFFICES ASSUME edits = 0 PROVE Stored'
  BY <1>1 DEF UneditedInv
<1>3. Stored /\ deps = saved /\ DOMAIN status = NodesOf(saved) /\ Fits(saved, status, output, given)
  <2>1. Stored /\ deps = saved /\ ((Visiting /\ Inherited) \/ NotLoaded)
    BY <1>1, <1>2 DEF UneditedInv
  <2>2. CASE Visiting /\ Inherited
    BY <2>1, <2>2 DEF Visiting, Underway, Inherited
  <2>3. CASE NotLoaded
    BY <2>1, <2>3 DEF NotLoaded, Fits
  <2>4. QED BY <2>1, <2>2, <2>3
<1>4. Resumable(last)'
  <2>1. CASE last' = last
    BY <1>1, <1>3, <2>1 DEF Stored, Resumable, Fits
  <2>2. CASE last' = [status |-> status, output |-> output, given |-> given]
    <3>1. last'.status = status /\ last'.output = output /\ last'.given = given
      BY <2>2
    <3>2. Fits(saved, last.status, last.output, last.given)'
      BY <1>1, <1>3, <3>1 DEF Fits
    <3>3. QED BY <1>1, <1>3, <3>1, <3>2 DEF Resumable, Fits
  <2>3. QED BY <1>1, <2>1, <2>2
<1>5. Resumable(resume)'
  BY <1>1, <1>3 DEF Stored, Resumable, Fits
<1>6. QED BY <1>1, <1>3, <1>4, <1>5 DEF Stored, PreviousStatus, Absent

\* The endpoint's check is about the run that is then resumed.
LEMMA SubmitInherits ==
  ASSUME UneditedInv, RequestRun \/ RequestRerun
  PROVE  UneditedInv'
<1>1. PICK r \in {NoRun, last}, f \in NodesOf(saved) \cup {0} :
        /\ Submit(r, f)
        /\ f # 0 => r = last /\ f \in NodesOf(saved) /\ CanRerun(f)
  BY DEF RequestRun, RequestRerun
<1>2. /\ pc' = "queued" /\ resume' = r /\ from' = f /\ saved' = saved /\ edits' = edits
      /\ runNo' = runNo /\ last' = last
  BY <1>1 DEF Submit
<1>3. SUFFICES ASSUME edits = 0 PROVE Stored'
  BY <1>2 DEF UneditedInv
<1>4. Resumable(last) /\ Resumable(NoRun)
  <2>1. NoRun.status = <<>> /\ DOMAIN NoRun.status = {}
    BY DEF NoRun
  <2>2. QED BY <1>3, <2>1 DEF UneditedInv, Stored, Resumable, Fits
<1>5. Resumable(last)' /\ Resumable(resume)'
  <2>1. Resumable(r)
    BY <1>4
  <2>2. QED BY <1>2, <1>4, <2>1 DEF Resumable, Fits
<1>6. f # 0 => f \in NodesOf(saved) /\ \A a \in Ancestors(saved, f) : PreviousStatus(r, a) = "success"
  BY <1>1 DEF CanRerun
<1>7. \A a : PreviousStatus(resume', a) = PreviousStatus(r, a)
  BY <1>2
<1>8. QED BY <1>2, <1>5, <1>6 DEF Stored, PreviousStatus, Absent

\* Cancel requests and jobs that give up leave all of it alone.
LEMMA ClientsInherit ==
  ASSUME UneditedInv, RequestCancel \/ GiveUp \/ UNCHANGED vars
  PROVE  UneditedInv'
<1>1. /\ Run' = Run /\ from' = from /\ runNo' = runNo /\ resume' = resume /\ last' = last
      /\ saved' = saved /\ edits' = edits
      /\ pc' = pc \/ pc' = "idle"
  BY DEF RequestCancel, GiveUp, vars, request, Run
<1>2. SUFFICES ASSUME edits = 0 PROVE Stored' /\ (pc' = pc => UneditedInv')
  BY <1>1 DEF UneditedInv
<1>3. Stored'
  BY <1>1, <1>2 DEF UneditedInv, Stored, Resumable, Fits, PreviousStatus, Absent
<1>4. ASSUME pc' = pc PROVE UneditedInv'
  <2>1. (Visiting' <=> Visiting) /\ (NotLoaded' <=> NotLoaded)
    BY <1>1, <1>4, RunGoesOn
  <2>2. Node' = Node
    BY <1>1 DEF Node, Run
  <2>3. Inherited' <=> Inherited
    BY <1>1, <1>4, <2>2 DEF Inherited, Fits, Run
  <2>4. QED BY <1>1, <1>2, <1>3, <1>4, <2>1, <2>3 DEF UneditedInv, Run
<1>5. QED BY <1>3, <1>4

\* UneditedInv holds at first and is kept by every step.
LEMMA UneditedInvHolds ==
  ASSUME DefinitionsAssumption
  PROVE  (Init => UneditedInv) /\ (RunInv /\ UneditedInv /\ [Next]_vars => UneditedInv')
<1>1. ASSUME Init PROVE UneditedInv
  <2>1. NoRun.status = <<>> /\ DOMAIN NoRun.status = {}
    BY DEF NoRun
  <2>2. QED BY <1>1, <2>1 DEF Init, UneditedInv, Stored, Resumable, Fits
<1>2. ASSUME RunInv, UneditedInv, [Next]_vars PROVE UneditedInv'
  <2>1. CASE Edit
    BY <1>2, <2>1 DEF Edit, RunInv, UneditedInv
  <2>2. CASE RequestCancel \/ GiveUp \/ UNCHANGED vars
    BY <1>2, <2>2, ClientsInherit
  <2>3. CASE RequestRun \/ RequestRerun
    BY <1>2, <2>3, SubmitInherits
  <2>4. CASE Load
    BY <1>2, <2>4, LoadInherits
  <2>5. CASE EndRun
    BY <1>2, <2>5, EndRunInherits
  <2>6. CASE Reuse \/ SkipBlocked \/ SkipCancelled \/ FailEarly \/ SkipByWhen \/ Start \/ Succeed \/ Fail \/ Finish \/ Escape
    BY <1>2, <2>6, LoopInherits
  <2>7. QED BY <1>2, <2>1, <2>2, <2>3, <2>4, <2>5, <2>6 DEF Next, Engine
<1>3. QED BY <1>1, <1>2

LEMMA UneditedInvMeansOutputsAreConsistent ==
  ASSUME RunInv, UneditedInv
  PROVE  OutputsAreConsistent
<1> SUFFICES ASSUME Ended, edits = 0, NEW n \in NodesOf(deps), status[n] = "success"
             PROVE  /\ output[n] \in 1..runNo
                    /\ \A d \in deps[n] : status[d] = "success" => given[n][d] = output[d]
  BY DEF OutputsAreConsistent
<1>1. (Visiting /\ Inherited) \/ NotLoaded
  BY DEF UneditedInv, Ended
<1>2. Visiting /\ Inherited
  BY <1>1 DEF NotLoaded
<1>3. QED BY <1>2 DEF Visiting, Underway, Inherited, Fits

\* However runs and reruns are chained, what a successful node was given by an
\* upstream node is the output the run shows for that node.
THEOREM ChainedRunsFitTogether ==
  ASSUME DefinitionsAssumption
  PROVE  Spec => []OutputsAreConsistent
BY UneditedInvMeansOutputsAreConsistent, RunInvHolds, UneditedInvHolds, PTL DEF Spec

LEMMA UneditedInvMeansRerunReachesItsNode ==
  ASSUME DefinitionsAssumption, RunInv, UneditedInv
  PROVE  RerunReachesItsNode
<1> SUFFICES ASSUME Ended, edits = 0, Partial, ~cancelled,
                    status[from] = "skipped", from \in blocked
             PROVE  FALSE
  BY DEF RerunReachesItsNode
<1>1. (Visiting /\ Inherited) \/ NotLoaded
  BY DEF UneditedInv, Ended
<1>2. Visiting /\ Inherited
  BY <1>1 DEF NotLoaded
<1>3. PICK a \in Ancestors(deps, from) : status[a] = "failed"
  BY <1>2 DEF Visiting, Caused
<1>4. Graph(deps) /\ from \in NodesOf(deps)
  BY <1>2 DEF Visiting, Underway, Valid, Graph, DefinitionsAssumption, Partial
<1>5. a \in NodesOf(deps)
  BY <1>3, <1>4, AncestorsAreLeast
<1>6. a \in blocked
  BY <1>2, <1>3, <1>5 DEF Visiting, Marked
<1>7. QED BY <1>2, <1>3, <1>4, <1>6 DEF Inherited

\* A rerun that was accepted is never stopped before its own node by something
\* upstream.
THEOREM AcceptedRerunsReachTheirNode ==
  ASSUME DefinitionsAssumption
  PROVE  Spec => []RerunReachesItsNode
BY UneditedInvMeansRerunReachesItsNode, RunInvHolds, UneditedInvHolds, PTL DEF Spec

-----------------------------------------------------------------------------
(* The parts of MCWorkflows: part stays, and the variables of a part take  *)
(* the steps of its module.                                                *)

LEMMA SuiteStarts ==
  ASSUME SuiteInit
  PROVE  (part = "sort" => Sort!Init) /\ (part = "engine" => Init)
BY DEF SuiteInit

LEMMA SuiteStep ==
  ASSUME [SuiteNext]_suiteVars
  PROVE  /\ part' = part
         /\ part = "sort" => [Sort!Next]_(Sort!vars)
         /\ part = "engine" => [Next]_vars
<1>1. CASE UNCHANGED suiteVars
  BY <1>1 DEF suiteVars, named, sharedVars, engineOnly, sortVars, Sort!vars, vars, request
<1>2. CASE SuiteNext
  BY <1>2 DEF SuiteNext
<1>3. QED BY <1>1, <1>2

\* The workflows that topological_order accepts are the acyclic, well-formed ones,
\* in the documented order, and what is up and downstream of a node is the least
\* closed set: for every set of graphs of finitely many nodes.
THEOREM GraphsAreRightAlways == SuiteSpec => []GraphsAreRight
<1>1. FiniteGraphs
  BY SuiteAssumption, GraphsAreFinite
<1>2. SuiteInit => (part = "sort" => SortInv)
  BY <1>1, SuiteStarts, SortStarts
<1>3. (part = "sort" => SortInv) /\ [SuiteNext]_suiteVars => (part = "sort" => SortInv)'
  BY <1>1, SuiteStep, SortInvIsKept
<1>4. (part = "sort" => SortInv) => GraphsAreRight
  BY <1>1, SortInvMeansReachIsLeast DEF GraphsAreRight, SortInv
<1>5. QED BY <1>2, <1>3, <1>4, PTL DEF SuiteSpec

\* Nodes run on settled inputs only, a verdict means what it says, a rerun reaches
\* its node and touches what is downstream of it and nothing else, and the outputs
\* of a run fit together (run_workflow and the rerun endpoint): for all definitions,
\* edits, retries and numbers of runs.
THEOREM RunsAreSoundAlways == SuiteSpec => []RunsAreSound
<1>1. SuiteInit => (part = "engine" => RunInv /\ UneditedInv)
  BY SuiteAssumption, SuiteStarts, RunInvHolds, UneditedInvHolds
<1>2. (part = "engine" => RunInv /\ UneditedInv) /\ [SuiteNext]_suiteVars => (part = "engine" => RunInv /\ UneditedInv)'
  BY SuiteAssumption, SuiteStep, RunInvHolds, UneditedInvHolds
<1>3. (part = "engine" => RunInv /\ UneditedInv) => RunsAreSound
  BY SuiteAssumption, RunInvMeansNoInputFromFailure, RunInvMeansRerunScope, RunInvMeansVerdictMeansDone,
     UneditedInvMeansOutputsAreConsistent, UneditedInvMeansRerunReachesItsNode DEF RunsAreSound
<1>4. QED BY <1>1, <1>2, <1>3, PTL DEF SuiteSpec
=============================================================================
