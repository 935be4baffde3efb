------------------------------ MODULE SqlProofs ------------------------------
(***************************************************************************)
(* Proofs about the modules around statements, recorded lineage and        *)
(* metadata that MCSql puts side by side, for every value of their         *)
(* constants.                                                              *)
(***************************************************************************)
EXTENDS MCSql, FiniteSetTheorems, WellFoundedInduction, NaturalsInduction, TLAPS

-----------------------------------------------------------------------------
(* A behaviour is one of its part.                                         *)

LEMMA CatalogInitOfPart ==
  ASSUME CatalogInit
  PROVE  /\ part \in DOMAIN Casts => C!Init
         /\ part = "aspects" => Trail!Init
         /\ part = "metadata" => M!Init
         /\ part \in DOMAIN Loads => Answers!Init
         /\ part = "settings" => Settings!Init
  BY InstancesAssumption DEF CatalogInit

LEMMA CatalogStepOfPart ==
  ASSUME [CatalogNext]_vars
  PROVE  /\ part' = part
         /\ part \in DOMAIN Casts => [C!Next]_(C!vars)
         /\ part = "aspects" => [Trail!Next]_(Trail!vars)
         /\ part = "metadata" => [M!Next]_(M!vars)
         /\ part \in DOMAIN Loads => [Answers!Next]_(Answers!vars)
         /\ part = "settings" => [Settings!Next]_(Settings!vars)
<1>1. CASE UNCHANGED vars
  BY <1>1 DEF vars, caches, marks, metadata, assistant, C!vars, Trail!vars, M!vars, Answers!vars, Settings!vars
<1>2. CASE CatalogNext
  BY <1>2, InstancesAssumption DEF CatalogNext
<1>3. QED BY <1>1, <1>2

-----------------------------------------------------------------------------
(* The check of a statement.                                               *)

StatementTypeOK ==
  /\ sql \in [features : SUBSET P!Features, order : Seq(P!Items), inner : Seq(P!Items)]
  /\ keys \in Seq(KeyColumns)
  /\ large \in BOOLEAN /\ stream \in BOOLEAN
  /\ mode \in {"preview", "compare"} /\ estimate \in {"few", "many"}

StatementInv == part = "preflight" => StatementTypeOK

LEMMA StatementInit == Init => StatementInv
<1> SUFFICES ASSUME Init, part = "preflight" PROVE StatementTypeOK
  BY DEF StatementInv
<1>1. P!Init
  BY DEF Init
<1>2. <<>> \in Seq(P!Items) /\ <<>> \in Seq(KeyColumns)
  OBVIOUS
<1>3. QED BY <1>1, <1>2 DEF P!Init, StatementTypeOK, P!Features

LEMMA PreflightStep ==
  ASSUME [Next]_vars, part = "preflight"
  PROVE  part' = part /\ [P!Next]_(P!vars)
<1>1. CASE UNCHANGED vars
  BY <1>1 DEF vars, statement, P!vars
<1>2. CASE Next
  BY <1>2 DEF Next
<1>3. QED BY <1>1, <1>2

LEMMA StatementStep == StatementInv /\ [Next]_vars => StatementInv'
<1> SUFFICES ASSUME StatementInv, [Next]_vars, part' = "preflight" PROVE StatementTypeOK'
  BY DEF StatementInv
<1>0. part' = part
  BY DEF Next, vars
<1>1. StatementTypeOK /\ [P!Next]_(P!vars)
  BY <1>0, PreflightStep DEF StatementInv
<1>2. CASE UNCHANGED P!vars
  BY <1>1, <1>2 DEF P!vars, StatementTypeOK
<1>3. CASE P!AddItem
  <2>1. PICK item \in P!Items :
          \/ sql' = [sql EXCEPT !.order = Append(@, item)]
          \/ sql' = [sql EXCEPT !.inner = <<item>>]
    BY <1>3 DEF P!AddItem
  <2>2. Append(sql.order, item) \in Seq(P!Items) /\ <<item>> \in Seq(P!Items)
    BY <1>1, <2>1 DEF StatementTypeOK
  <2>3. sql' \in [features : SUBSET P!Features, order : Seq(P!Items), inner : Seq(P!Items)]
    BY <1>1, <2>1, <2>2 DEF StatementTypeOK
  <2>4. QED BY <1>1, <1>3, <2>3 DEF P!AddItem, StatementTypeOK
<1>4. CASE P!AddFeature
  BY <1>1, <1>4 DEF P!AddFeature, StatementTypeOK
<1>5. CASE P!AddKey
  <2>1. keys' \in Seq(KeyColumns)
    BY <1>1, <1>5 DEF P!AddKey, StatementTypeOK
  <2>2. QED BY <1>1, <1>5, <2>1 DEF P!AddKey, StatementTypeOK
<1>6. CASE P!AskForMore
  BY <1>1, <1>6 DEF P!AskForMore, StatementTypeOK
<1>7. QED BY <1>1, <1>2, <1>3, <1>4, <1>5, <1>6 DEF P!Next

LEMMA SameSets ==
  \A S : /\ Answers!Cardinality(S) = Cardinality(S) /\ (Answers!IsFiniteSet(S) <=> IsFiniteSet(S))
         /\ M!Cardinality(S) = Cardinality(S) /\ (M!IsFiniteSet(S) <=> IsFiniteSet(S))
         /\ C!Cardinality(S) = Cardinality(S)
<1>1. \A S : Answers!Cardinality(S) = Cardinality(S)
  BY DEF Answers!Cardinality, Cardinality
<1>2. \A S : M!Cardinality(S) = Cardinality(S)
  BY DEF M!Cardinality, Cardinality
<1>3. \A S : C!Cardinality(S) = Cardinality(S)
  BY DEF C!Cardinality, Cardinality
<1>4. \A S : (Answers!IsFiniteSet(S) <=> IsFiniteSet(S)) /\ (M!IsFiniteSet(S) <=> IsFiniteSet(S))
  BY DEF Answers!IsFiniteSet, M!IsFiniteSet, IsFiniteSet
<1>5. QED BY <1>1, <1>2, <1>3, <1>4

LEMMA IsSequence ==
  ASSUME NEW S, NEW n \in Nat, NEW f \in [1..n -> S]
  PROVE  f \in Seq(S) /\ Len(f) = n
  OBVIOUS

\* A prefix agrees place by place.
LEMMA PrefixPlaces ==
  ASSUME NEW S, NEW T, NEW s \in Seq(S), NEW t \in Seq(T)
  PROVE  P!IsPrefix(s, t) <=> Len(s) <= Len(t) /\ \A i \in 1..Len(s) : s[i] = t[i]
<1>1. CASE ~(Len(s) <= Len(t))
  BY <1>1 DEF P!IsPrefix
<1>2. CASE Len(s) <= Len(t)
  <2>1. SubSeq(s, 1, Len(s)) = [i \in 1..Len(s) |-> s[i]] /\ SubSeq(t, 1, Len(s)) = [i \in 1..Len(s) |-> t[i]]
    BY <1>2
  <2>2. (\A i \in 1..Len(s) : s[i] = t[i]) => SubSeq(s, 1, Len(s)) = SubSeq(t, 1, Len(s))
    BY <2>1
  <2>3. SubSeq(s, 1, Len(s)) = SubSeq(t, 1, Len(s)) => (\A i \in 1..Len(s) : s[i] = t[i])
    <3> SUFFICES ASSUME SubSeq(s, 1, Len(s)) = SubSeq(t, 1, Len(s)), NEW i \in 1..Len(s) PROVE s[i] = t[i]
      OBVIOUS
    <3> DEFINE a == SubSeq(s, 1, Len(s))
               b == SubSeq(t, 1, Len(s))
    <3>1. a[i] = s[i] /\ b[i] = t[i]
      BY <2>1
    <3>2. a = b
      OBVIOUS
    <3> HIDE DEF a, b
    <3>3. QED BY <3>1, <3>2
  <2>4. QED BY <1>2, <2>2, <2>3 DEF P!IsPrefix
<1>3. QED BY <1>1, <1>2

\* Of a sort column only the fields matter here, not how many of them are set.
LEMMA ItemFields == P!Items \subseteq [col : KeyColumns, foreign : BOOLEAN, func : BOOLEAN, desc : BOOLEAN]
  BY Zenon DEF P!Items

\* The keys a rule looks for are the first names of ORDER BY, none of them in
\* a function.
LEMMA CoveredKeys ==
  ASSUME NEW order \in Seq(P!Items), NEW k \in Seq(KeyColumns)
  PROVE  P!IsPrefix(k, P!_ordered_column_names(order)) <=>
           /\ Len(k) <= Len(order)
           /\ \A i \in 1..Len(k) : ~order[i].func /\ order[i].col = k[i]
<1> DEFINE names == P!_ordered_column_names(order)
<1>1. names = [i \in 1..Len(order) |-> IF order[i].func THEN "" ELSE order[i].col]
  BY DEF P!_ordered_column_names
<1>2. /\ \A i \in 1..Len(order) : order[i].func \in BOOLEAN /\ order[i].col \in KeyColumns
      /\ Len(order) \in Nat
  <2>1. \A i \in 1..Len(order) : order[i] \in P!Items
    OBVIOUS
  <2>2. QED BY <2>1, ItemFields
<1>3. names \in Seq(KeyColumns \cup {""}) /\ Len(names) = Len(order)
  <2>1. names \in [1..Len(order) -> KeyColumns \cup {""}]
    BY <1>1, <1>2
  <2> HIDE DEF names
  <2>2. QED BY <1>2, <2>1, IsSequence
<1>5. \A i \in 1..Len(order) : names[i] = IF order[i].func THEN "" ELSE order[i].col
  BY <1>1
<1>h. P!IsPrefix(k, P!_ordered_column_names(order)) <=> P!IsPrefix(k, names)
  OBVIOUS
<1> HIDE DEF names
<1>6. P!IsPrefix(k, names) <=> Len(k) <= Len(names) /\ \A i \in 1..Len(k) : k[i] = names[i]
  <2> DEFINE N == KeyColumns \cup {""}
  <2>1. k \in Seq(KeyColumns) /\ names \in Seq(N)
    BY <1>3
  <2> HIDE DEF N
  <2>2. QED BY ONLY <2>1, PrefixPlaces
<1>7. \A i \in 1..Len(k) : k[i] # ""
  <2>1. "" \notin KeyColumns
    BY InstancesAssumption DEF P!NamesAssumption
  <2>2. \A i \in 1..Len(k) : k[i] \in KeyColumns
    OBVIOUS
  <2>3. QED BY <2>1, <2>2
<1>8. Len(k) <= Len(order) => \A i \in 1..Len(k) : i \in 1..Len(order)
  BY <1>2
<1>9. Len(k) <= Len(order) =>
        \A i \in 1..Len(k) : k[i] = names[i] <=> (~order[i].func /\ order[i].col = k[i])
  BY <1>2, <1>5, <1>7, <1>8
<1>10. QED BY <1>3, <1>6, <1>9, <1>h
\* A rule that forbids is not answered by one that does not.
LEMMA DecideBlocks ==
  ASSUME NEW rules
  PROVE  /\ P!_decide(rules).blocking <=> \E r \in rules : r[2] = "block"
         /\ P!_decide(rules).risk = IF \E r \in rules : r[2] = "block" /\ r[1] \in {"stream_no_order", "order_missing_keys"} THEN 3
                                    ELSE IF \E r \in rules : r[2] = "block" THEN 2
                                    ELSE IF rules # {} THEN 1 ELSE 0
  BY DEF P!_decide

LEMMA DecideIsMonotone ==
  ASSUME NEW rules, NEW more,
         \A r \in rules : \E s \in more : s[1] = r[1] /\ (r[2] = "block" => s[2] = "block")
  PROVE  /\ P!_decide(more).risk >= P!_decide(rules).risk
         /\ P!_decide(rules).blocking => P!_decide(more).blocking
<1>1. (\E r \in rules : r[2] = "block") => \E s \in more : s[2] = "block"
  OBVIOUS
<1>2. (\E r \in rules : r[2] = "block" /\ r[1] \in {"stream_no_order", "order_missing_keys"}) =>
        \E s \in more : s[2] = "block" /\ s[1] \in {"stream_no_order", "order_missing_keys"}
  OBVIOUS
<1>3. rules # {} => more # {}
  OBVIOUS
<1> DEFINE b(S) == \E r \in S : r[2] = "block"
           c(S) == \E r \in S : r[2] = "block" /\ r[1] \in {"stream_no_order", "order_missing_keys"}
<1>4. /\ P!_decide(rules).blocking <=> b(rules)
      /\ P!_decide(rules).risk = IF c(rules) THEN 3 ELSE IF b(rules) THEN 2 ELSE IF rules # {} THEN 1 ELSE 0
  BY DecideBlocks
<1>5. /\ P!_decide(more).blocking <=> b(more)
      /\ P!_decide(more).risk = IF c(more) THEN 3 ELSE IF b(more) THEN 2 ELSE IF more # {} THEN 1 ELSE 0
  BY DecideBlocks
<1>6. (b(rules) => b(more)) /\ (c(rules) => c(more)) /\ (c(more) => b(more))
  BY <1>1, <1>2
<1> HIDE DEF b, c
<1>7. QED BY <1>3, <1>4, <1>5, <1>6

LEMMA AcceptedSorts ==
  ASSUME StatementTypeOK
  PROVE  P!AcceptedIsSorted
<1> SUFFICES ASSUME P!Streams, ~P!Has("unparsable"), ~P!assess_with_explain.blocking,
                    sql.inner = <<>>, \A i \in DOMAIN sql.order : ~sql.order[i].desc /\ ~sql.order[i].foreign
             PROVE  P!Sorted
  BY DEF P!AcceptedIsSorted
<1>t. sql.order \in Seq(P!Items) /\ keys \in Seq(KeyColumns)
  BY DEF StatementTypeOK
<1>1. P!assess_with_explain.blocking = P!assess_sql.blocking
  <2>1. \A rules : P!_decide(rules) = [blocking |-> P!_decide(rules).blocking, risk |-> P!_decide(rules).risk]
    BY DEF P!_decide
  <2>2. \E rules : P!assess_sql = P!_decide(rules)
    BY DEF P!assess_sql
  <2>3. [P!assess_sql EXCEPT !.risk = IF @ = 0 THEN 1 ELSE @].blocking = P!assess_sql.blocking
    BY <2>1, <2>2
  <2>4. QED BY <2>3 DEF P!assess_with_explain
<1>2. ~P!_decide(P!Rules).blocking
  <2>1. P!_decide({<<"not_readonly", "block">>}).blocking
    BY DecideBlocks
  <2>2. QED BY <1>1, <2>1 DEF P!assess_sql
<1>3. ~\E r \in P!Rules : r[2] = "block"
  BY <1>2, DecideBlocks
<1>4. P!FirstOrder # <<>> /\ P!FirstOrder = sql.order
  <2>1. <<"stream_no_order", "block">> \notin P!Rules
    BY <1>3
  <2>2. QED BY <2>1 DEF P!Rules, P!FirstOrder
<1>5. keys = <<>> \/ P!_order_covers_keys(sql.order)
  <2>1. <<"order_missing_keys", "block">> \notin P!Rules
    BY <1>3
  <2>2. QED BY <1>4, <2>1 DEF P!Rules
<1>6. /\ Len(keys) <= Len(sql.order)
      /\ \A i \in 1..Len(keys) : ~sql.order[i].func /\ sql.order[i].col = keys[i]
  <2>1. CASE keys = <<>>
    BY <1>t, <2>1
  <2>2. CASE P!_order_covers_keys(sql.order)
    BY <1>t, <2>2, CoveredKeys DEF P!_order_covers_keys
  <2>3. QED BY <1>5, <2>1, <2>2
<1> DEFINE up == [i \in DOMAIN keys |-> [col |-> keys[i], foreign |-> FALSE, func |-> FALSE, desc |-> FALSE]]
<1>7. \A i \in 1..Len(keys) : sql.order[i] = [col |-> keys[i], foreign |-> FALSE, func |-> FALSE, desc |-> FALSE]
  <2> SUFFICES ASSUME NEW i \in 1..Len(keys)
               PROVE  sql.order[i] = [col |-> keys[i], foreign |-> FALSE, func |-> FALSE, desc |-> FALSE]
    OBVIOUS
  <2>1. i \in 1..Len(sql.order) /\ i \in DOMAIN sql.order
    BY <1>t, <1>6
  <2>2. sql.order[i] \in [col : KeyColumns, foreign : BOOLEAN, func : BOOLEAN, desc : BOOLEAN] /\ ~sql.order[i].desc /\ ~sql.order[i].foreign
    <3>1. sql.order[i] \in P!Items
      BY <1>t, <2>1
    <3>2. QED BY <1>t, <2>1, <3>1, ItemFields
  <2>3. QED BY <1>6, <2>2
<1>8. up \in Seq([col : KeyColumns, foreign : BOOLEAN, func : BOOLEAN, desc : BOOLEAN]) /\ Len(up) = Len(keys)
  <2>1. \A i \in 1..Len(keys) : keys[i] \in KeyColumns
    BY <1>t
  <2>2. up \in [1..Len(keys) -> [col : KeyColumns, foreign : BOOLEAN, func : BOOLEAN, desc : BOOLEAN]]
    BY <1>t, <2>1
  <2> HIDE DEF up
  <2> DEFINE U == [col : KeyColumns, foreign : BOOLEAN, func : BOOLEAN, desc : BOOLEAN]
  <2>3. up \in [1..Len(keys) -> U] /\ Len(keys) \in Nat
    BY <1>t, <2>2
  <2>4. up \in Seq(U) /\ Len(up) = Len(keys)
    <3> HIDE DEF U
    <3> QED BY <2>3, IsSequence
  <2>5. QED BY <2>4
<1>9. \A i \in 1..Len(up) : up[i] = sql.order[i]
  BY <1>t, <1>7, <1>8
<1> HIDE DEF up
<1>10. P!IsPrefix(up, sql.order)
  BY <1>t, <1>6, <1>8, <1>9, PrefixPlaces
<1>11. QED BY <1>10 DEF P!Sorted, up

LEMMA NeverGetsMilder ==
  ASSUME StatementTypeOK, P!AddKey \/ P!AskForMore
  PROVE  P!assess_with_explain'.risk >= P!assess_with_explain.risk
<1>s. sql' = sql /\ mode' = mode /\ estimate' = estimate /\ P!FirstOrder' = P!FirstOrder
  BY DEF P!AddKey, P!AskForMore, P!FirstOrder
<1>t. P!FirstOrder \in Seq(P!Items) /\ keys \in Seq(KeyColumns)
  BY DEF StatementTypeOK, P!FirstOrder
<1>l. (large => large') /\ (P!Streams => P!Streams')
  BY <1>s DEF P!AddKey, P!AskForMore, P!Streams, StatementTypeOK
<1>k. /\ keys # <<>> => keys' # <<>>
      /\ P!_order_covers_keys(P!FirstOrder)' => P!_order_covers_keys(P!FirstOrder)
  <2>1. CASE P!AskForMore
    BY <1>s, <2>1 DEF P!AskForMore, P!_order_covers_keys, P!_ordered_column_names
  <2>2. CASE P!AddKey
    <3>1. PICK c \in KeyColumns : keys' = Append(keys, c)
      BY <2>2 DEF P!AddKey
    <3>2. /\ keys' \in Seq(KeyColumns) /\ keys' # <<>> /\ Len(keys') = Len(keys) + 1
          /\ \A i \in 1..Len(keys) : keys'[i] = keys[i]
      BY <1>t, <3>1
    <3> DEFINE order == P!FirstOrder
               covered(k) == Len(k) <= Len(order) /\ \A i \in 1..Len(k) : ~order[i].func /\ order[i].col = k[i]
    <3>3. P!_order_covers_keys(order) <=> covered(keys)
      BY <1>t, CoveredKeys DEF P!_order_covers_keys
    <3>4. P!_order_covers_keys(order)' <=> covered(keys')
      <4>1. P!_order_covers_keys(order)' <=> P!IsPrefix(keys', P!_ordered_column_names(order))
        BY <1>s DEF P!_order_covers_keys, P!_ordered_column_names
      <4>2. QED BY <1>t, <3>2, <4>1, CoveredKeys
    <3>5. covered(keys') => covered(keys)
      BY <1>t, <3>2
    <3>6. QED BY <3>2, <3>3, <3>4, <3>5
  <2>3. QED BY <2>1, <2>2
<1>r. \A r \in P!Rules : \E s \in P!Rules' : s[1] = r[1] /\ (r[2] = "block" => s[2] = "block")
  <2> DEFINE wide == IF large THEN "block" ELSE "warn"
             more == IF large' THEN "block" ELSE "warn"
  <2>1. wide = "block" => more = "block"
    BY <1>l
  <2>2. ASSUME NEW r \in P!Rules
        PROVE  \E s \in P!Rules' : s[1] = r[1] /\ (r[2] = "block" => s[2] = "block")
    <3>1. CASE r = <<"select_star", wide>> /\ P!Has("star")
      <4>1. <<"select_star", more>> \in P!Rules'
        BY <1>s, <3>1 DEF P!Rules, P!Has
      <4>2. QED BY <2>1, <3>1, <4>1
    <3>2. CASE r = <<"no_where", wide>> /\ ~P!Has("where")
      <4>1. <<"no_where", more>> \in P!Rules'
        BY <1>s, <3>2 DEF P!Rules, P!Has
      <4>2. QED BY <2>1, <3>2, <4>1
    <3>3. CASE r \notin {<<"select_star", wide>>, <<"no_where", wide>>}
      <4>1. r \in P!Rules'
        BY <1>s, <1>l, <1>k, <3>3 DEF P!Rules, P!Has
      <4>2. QED BY <4>1
    <3>4. r = <<"select_star", wide>> => P!Has("star")
      BY DEF P!Rules
    <3>5. r = <<"no_where", wide>> => ~P!Has("where")
      BY DEF P!Rules
    <3>6. QED BY <3>1, <3>2, <3>3, <3>4, <3>5
  <2>3. QED BY <2>2
<1>d. /\ P!_decide(P!Rules').risk >= P!_decide(P!Rules).risk
      /\ P!_decide(P!Rules).blocking => P!_decide(P!Rules').blocking
  BY <1>r, DecideIsMonotone
<1>a. /\ P!assess_sql'.risk >= P!assess_sql.risk
      /\ P!assess_sql.blocking => P!assess_sql'.blocking
  <2>1. P!assess_sql' = IF P!Has("write") THEN P!_decide({<<"not_readonly", "block">>})
                        ELSE IF P!Has("unparsable") THEN P!_decide({<<"parse_failed", "warn">>})
                        ELSE P!_decide(P!Rules')
    BY <1>s DEF P!assess_sql, P!Has, P!_decide
  <2>2. P!assess_sql = IF P!Has("write") THEN P!_decide({<<"not_readonly", "block">>})
                       ELSE IF P!Has("unparsable") THEN P!_decide({<<"parse_failed", "warn">>})
                       ELSE P!_decide(P!Rules)
    BY DEF P!assess_sql
  <2>3. P!_decide({<<"not_readonly", "block">>}).risk \in Int /\ P!_decide({<<"parse_failed", "warn">>}).risk \in Int
    BY DecideBlocks
  <2>4. QED BY <1>d, <2>1, <2>2, <2>3
<1>b. \A a \in {P!assess_sql, P!assess_sql'} :
        /\ a = [blocking |-> a.blocking, risk |-> a.risk]
        /\ a.risk \in 0..3 /\ (a.blocking => a.risk >= 2)
  <2>1. \A rules : LET a == P!_decide(rules) IN
          a = [blocking |-> a.blocking, risk |-> a.risk] /\ a.risk \in 0..3 /\ (a.blocking => a.risk >= 2)
    <3> SUFFICES ASSUME NEW rules
                 PROVE  LET a == P!_decide(rules) IN
                        a = [blocking |-> a.blocking, risk |-> a.risk] /\ a.risk \in 0..3 /\ (a.blocking => a.risk >= 2)
      OBVIOUS
    <3>1. P!_decide(rules) = [blocking |-> P!_decide(rules).blocking, risk |-> P!_decide(rules).risk]
      BY DEF P!_decide
    <3>2. P!_decide(rules).risk \in 0..3 /\ (P!_decide(rules).blocking => P!_decide(rules).risk >= 2)
      BY DecideBlocks
    <3>3. QED BY <3>1, <3>2
  <2>2. \E rules : P!assess_sql = P!_decide(rules)
    BY DEF P!assess_sql
  <2>3. \E rules : P!assess_sql' = P!_decide(rules)
    BY DEF P!assess_sql, P!_decide
  <2>4. QED BY <2>1, <2>2, <2>3
<1>q. QED
  <2> DEFINE a == P!assess_sql
             b == P!assess_sql'
             told(x) == IF x.blocking \/ estimate # "many" THEN x.risk ELSE IF x.risk = 0 THEN 1 ELSE x.risk
  <2>1. P!assess_with_explain.risk = told(a)
    BY <1>b DEF P!assess_with_explain
  <2>2. P!assess_with_explain'.risk = told(b)
    BY <1>b, <1>s DEF P!assess_with_explain
  <2>3. a.risk \in 0..3 /\ b.risk \in 0..3 /\ (b.blocking => b.risk >= 2) /\ b.risk >= a.risk
    BY <1>a, <1>b
  <2>4. QED BY <2>1, <2>2, <2>3

\* A streaming comparison that no rule of sql_preflight forbids, of a statement
\* that sorts its own result upwards by columns of that result, reads its rows
\* sorted by the keys, for any columns, keys and length of ORDER BY.
THEOREM AcceptedAlwaysSorted == Spec => []AcceptedIsSorted
<1>1. StatementInv => AcceptedIsSorted
  BY AcceptedSorts DEF StatementInv, AcceptedIsSorted
<1>2. QED BY <1>1, StatementInit, StatementStep, PTL DEF Spec

\* A larger task, a stream or one more key never lowers the risk a statement is
\* judged to have: sql_preflight's _decide.
THEOREM RiskAlwaysMonotone == Spec => RiskIsMonotone
<1>1. StatementInv /\ [Next]_vars => [part = "preflight" => P!NeverMilder]_vars
  BY NeverGetsMilder DEF StatementInv, P!NeverMilder
<1>2. QED BY <1>1, StatementInit, StatementStep, PTL DEF Spec, RiskIsMonotone

-----------------------------------------------------------------------------
(* The trail of a mark.                                                    *)

HeldValues  == Values \cup {""}
MarkChanges == [do : {"upsert", "delete"}, new : HeldValues, old : HeldValues]
MarkRecords == [action : {"insert", "update", "delete"}, old : HeldValues, new : HeldValues]
TrailTypeOK ==
  /\ row \in HeldValues /\ trail \in Seq(MarkRecords) /\ raced \in BOOLEAN
  /\ pending \in [Editors -> {Trail!Nothing} \cup MarkChanges]

\* What was deleted was there when it was read.
DeletesWhatWas ==
  \A e \in Editors : pending[e] # Trail!Nothing /\ pending[e].do = "delete" => pending[e].new # pending[e].old

TrailInv == TrailTypeOK /\ DeletesWhatWas /\ Trail!TrailIsWhole

\* A commit that no other overlapped appends the record that the trail lacks.
LEMMA CommitExtends ==
  ASSUME TrailInv, NEW e \in Editors, Trail!Commit(e), ~raced'
  PROVE  Trail!TrailIsWhole'
<1> DEFINE c == pending[e]
<1>1. /\ c \in MarkChanges /\ ~raced /\ row = c.old /\ row' = c.new
      /\ trail' = IF Trail!Recorded(c) THEN Append(trail, Trail!Record(c)) ELSE trail
  BY DEF Trail!Commit, TrailInv, TrailTypeOK
<1>2. trail \in Seq(MarkRecords) /\ DOMAIN trail = 1..Len(trail) /\ Len(trail) \in Nat
  BY DEF TrailInv, TrailTypeOK
<1>w. /\ \A i \in 1..Len(trail) : Trail!Links(i) /\ trail[i].new # trail[i].old
      /\ row = IF trail = <<>> THEN "" ELSE trail[Len(trail)].new
  BY <1>1, <1>2 DEF TrailInv, Trail!TrailIsWhole, Trail!Last
<1>3. CASE ~Trail!Recorded(c)
  <2>1. trail' = trail /\ row' = row
    BY <1>1, <1>3 DEF Trail!Recorded
  <2>2. QED BY <1>1, <2>1 DEF TrailInv, Trail!TrailIsWhole, Trail!Links
<1>4. CASE Trail!Recorded(c)
  <2> DEFINE r == Trail!Record(c)
             n == Len(trail)
  <2>1. r.old = row /\ r.new = row' /\ r.new # r.old /\ r \in MarkRecords
    BY <1>1, <1>4 DEF TrailInv, DeletesWhatWas, Trail!Recorded, Trail!Record, Trail!Commit, MarkChanges, MarkRecords
  <2>2. /\ trail' = Append(trail, r) /\ n \in Nat /\ Len(trail') = n + 1 /\ trail'[n + 1] = r
        /\ \A i \in 1..n : trail'[i] = trail[i]
    <3>1. trail' = Append(trail, r)
      BY <1>1, <1>4
    <3> HIDE DEF r, c
    <3>2. QED BY <1>2, <2>1, <3>1
  <2>w. /\ \A i \in 1..n : /\ trail[i].old = IF i = 1 THEN "" ELSE trail[i - 1].new
                           /\ trail[i].new # trail[i].old
        /\ n = 0 => row = ""
        /\ n # 0 => row = trail[n].new
    <3>1. n = 0 => trail = <<>>
      BY <1>2
    <3>2. n # 0 => trail # <<>>
      BY <1>2
    <3>3. \A i \in 1..n : Trail!Links(i) /\ trail[i].new # trail[i].old
      BY <1>w
    <3>4. QED BY <1>w, <3>1, <3>2, <3>3 DEF Trail!Links
  <2> HIDE DEF r, c, n
  <2>3. ASSUME NEW i \in 1..(n + 1)
        PROVE  /\ trail'[i].old = IF i = 1 THEN "" ELSE trail'[i - 1].new
               /\ trail'[i].new # trail'[i].old
    <3>1. CASE i \in 1..n
      <4>1. i = 1 \/ i - 1 \in 1..n
        BY <2>2, <3>1
      <4>2. QED BY <2>w, <2>2, <3>1, <4>1
    <3>2. CASE i = n + 1
      <4>1. CASE n = 0
        <5>1. i = 1 /\ trail'[i] = r
          BY <2>2, <3>2, <4>1
        <5>2. row = ""
          BY <2>w, <4>1
        <5>3. QED BY <2>1, <5>1, <5>2
      <4>2. CASE n # 0
        <5>1. i - 1 = n /\ n \in 1..n /\ i # 1
          BY <2>2, <3>2, <4>2
        <5>2. QED BY <2>1, <2>2, <2>w, <3>2, <4>2, <5>1
      <4>3. QED BY <4>1, <4>2
    <3>3. i \in 1..n \/ i = n + 1
      BY <2>2
    <3>4. QED BY <3>1, <3>2, <3>3
  <2>4. trail' # <<>> /\ DOMAIN trail' = 1..(n + 1)
    BY <1>1, <1>2, <2>1, <2>2
  <2>5. row' = trail'[Len(trail')].new
    BY <2>1, <2>2
  <2>6. QED BY <2>3, <2>4, <2>5 DEF Trail!TrailIsWhole, Trail!Links, Trail!Last
<1>5. QED BY <1>3, <1>4

LEMMA TrailStep == TrailInv /\ [Trail!Next]_(Trail!vars) => TrailInv'
<1> SUFFICES ASSUME TrailInv, [Trail!Next]_(Trail!vars) PROVE TrailInv'
  OBVIOUS
<1>1. CASE UNCHANGED Trail!vars
  BY <1>1 DEF Trail!vars, TrailInv, TrailTypeOK, DeletesWhatWas, Trail!TrailIsWhole, Trail!Links
<1>2. ASSUME NEW e \in Editors, NEW do \in {"upsert", "delete"}, NEW new \in HeldValues,
             do = "delete" => new = "", Trail!Read(e, do, new)
      PROVE  TrailInv'
  <2>1. UNCHANGED <<row, trail, raced>>
    BY <1>2 DEF Trail!Read
  <2>2. Trail!TrailIsWhole'
    BY <2>1 DEF TrailInv, Trail!TrailIsWhole, Trail!Links
  <2> DEFINE c == [do |-> do, new |-> new, old |-> row]
  <2>3. pending' = pending \/ (pending' = [pending EXCEPT ![e] = c] /\ (do = "delete" => row # ""))
    BY <1>2 DEF Trail!Read
  <2>4. c \in MarkChanges
    BY DEF MarkChanges, TrailInv, TrailTypeOK
  <2>5. TrailTypeOK'
    BY <2>1, <2>3, <2>4 DEF TrailInv, TrailTypeOK
  <2>6. DeletesWhatWas'
    <3>1. c.do = do /\ c.new = new /\ c.old = row
      OBVIOUS
    <3> HIDE DEF c
    <3>2. \A f \in Editors : pending'[f] = pending[f] \/ (pending'[f] = c /\ (do = "delete" => row # ""))
      BY <2>3 DEF TrailInv, TrailTypeOK
    <3>3. QED BY <1>2, <3>1, <3>2 DEF TrailInv, DeletesWhatWas
  <2>7. QED BY <2>2, <2>5, <2>6 DEF TrailInv
<1>3. ASSUME NEW e \in Editors, Trail!Commit(e) PROVE TrailInv'
  <2>1. pending[e] \in MarkChanges
    BY <1>3 DEF Trail!Commit, TrailInv, TrailTypeOK
  <2>2. Trail!Record(pending[e]) \in MarkRecords
    BY <2>1 DEF Trail!Record, MarkChanges, MarkRecords
  <2>3. trail' \in Seq(MarkRecords)
    BY <1>3, <2>2 DEF Trail!Commit, TrailInv, TrailTypeOK
  <2>4. row' \in HeldValues /\ raced' \in BOOLEAN /\ pending' = [pending EXCEPT ![e] = Trail!Nothing]
    BY <1>3, <2>1 DEF Trail!Commit, MarkChanges
  <2>5. TrailTypeOK' /\ DeletesWhatWas'
    BY <2>3, <2>4 DEF TrailInv, TrailTypeOK, DeletesWhatWas
  <2>6. Trail!TrailIsWhole'
    BY <1>3, CommitExtends DEF Trail!TrailIsWhole
  <2>7. QED BY <2>5, <2>6 DEF TrailInv
<1>4. QED BY <1>1, <1>2, <1>3 DEF Trail!Next, HeldValues

LEMMA TrailAtInit == Trail!Init => TrailInv
<1> SUFFICES ASSUME Trail!Init PROVE TrailInv
  OBVIOUS
<1>1. trail = <<>>
  BY DEF Trail!Init
<1>2. trail \in Seq(MarkRecords) /\ DOMAIN trail = {}
  BY <1>1
<1>3. TrailTypeOK
  BY <1>2 DEF Trail!Init, TrailTypeOK, HeldValues
<1>4. DeletesWhatWas
  BY DEF Trail!Init, DeletesWhatWas
<1>5. Trail!TrailIsWhole
  BY <1>1, <1>2 DEF Trail!Init, Trail!TrailIsWhole
<1>6. QED BY <1>3, <1>4, <1>5 DEF TrailInv

\* However many requests change a mark, the trail is whole unless two of them
\* overlapped: asset_aspects records what it read.
THEOREM TrailStaysWhole == CatalogSpec => []TrailIsWhole
<1> DEFINE Inv == part = "aspects" => TrailInv
<1>1. CatalogInit => Inv
  BY CatalogInitOfPart, TrailAtInit
<1>2. Inv /\ [CatalogNext]_vars => Inv'
  BY CatalogStepOfPart, TrailStep
<1>3. Inv => TrailIsWhole
  BY DEF TrailInv, TrailIsWhole
<1>4. QED BY <1>1, <1>2, <1>3, PTL DEF CatalogSpec

-----------------------------------------------------------------------------
(* The jobs of the language model.                                         *)

Step5 == Answers!Max({1, MaxJobs \div 5})

GuardedEdges == [source : Tables \cup {""}, target : Tables]
GuardedHints == [column : Answers!ToSet(AskedColumns), table : Tables]
OneTable(hints) == \A g, h \in hints : g.column = h.column => g = h

JobRecords ==
  [id : Nat, status : {"pending", "running", "ok", "success", "error"},
   edges : SUBSET GuardedEdges, hints : SUBSET GuardedHints]
ThreadRecords ==
  [kind : {"inference", "running", "enrichment", "ended"}, able : BOOLEAN, todo : Seq({"fragment", "columns"}),
   edges : SUBSET GuardedEdges, hints : SUBSET GuardedHints, calls : Nat]

\* The jobs are those that came last, in their order, each once; and all that
\* came, or as many as are left when the table makes room.
TableFits(table, ids) ==
  /\ Len(table) <= MaxJobs /\ Len(table) <= Len(ids)
  /\ \A i \in 1..Len(table) : table[i].id = ids[Len(ids) - Len(table) + i]
  /\ \A i, j \in 1..Len(table) : table[i].id = table[j].id => i = j
  /\ Len(table) = Len(ids) \/ Len(table) >= MaxJobs - Step5

JobsInv ==
  /\ jobs \in Seq(JobRecords) /\ made \in Seq(Nat)
  /\ \A i \in 1..Len(jobs) : OneTable(jobs[i].hints)
  /\ TableFits(jobs, made)

\* Nothing is left to ask after the columns, and no hint is there before.
CallsLeft(t) ==
  /\ t.calls + Len(t.todo) <= 2 * MaxFragments + 1
  /\ \A i \in 1..Len(t.todo) : t.todo[i] = "columns" => i = Len(t.todo) /\ t.hints = {}
  /\ OneTable(t.hints)

ThreadsInv ==
  /\ threads \in [DOMAIN threads -> ThreadRecords]
  /\ DOMAIN threads \subseteq Nat /\ IsFiniteSet(DOMAIN threads)
  /\ \A id \in DOMAIN threads : CallsLeft(threads[id])

AnswersInv == JobsInv /\ ThreadsInv

\* What the table forgets at once is some of it.
LEMMA SomeAreForgotten == MaxJobs \in Nat /\ Step5 \in Nat /\ 1 <= Step5 /\ Step5 <= MaxJobs
<1>1. MaxJobs \in Nat /\ MaxJobs >= 1
  BY InstancesAssumption DEF Answers!LimitsAssumption
<1> DEFINE d == MaxJobs \div 5
<1>2. d \in Nat /\ d <= MaxJobs
  BY <1>1
<1> HIDE DEF d
<1>3. \E x \in {1, d} : \A y \in {1, d} : x >= y
  <2>1. CASE d >= 1
    BY <1>2, <2>1
  <2>2. CASE ~(d >= 1)
    BY <1>2, <2>2
  <2>3. QED BY <2>1, <2>2
<1>4. Answers!Max({1, d}) \in {1, d} /\ \A y \in {1, d} : Answers!Max({1, d}) >= y
  BY <1>3 DEF Answers!Max
<1>5. QED BY <1>1, <1>2, <1>4 DEF Step5, d

LEMMA RoomFits ==
  ASSUME JobsInv
  PROVE  /\ Answers!Room(jobs) \in Seq(JobRecords)
         /\ TableFits(Answers!Room(jobs), made)
         /\ Len(Answers!Room(jobs)) < MaxJobs
         /\ \A i \in 1..Len(Answers!Room(jobs)) : OneTable(Answers!Room(jobs)[i].hints)
<1> DEFINE n == Len(jobs)
           kept == SubSeq(jobs, 1 + Step5, n)
<1>1. jobs \in Seq(JobRecords) /\ n \in Nat /\ n <= MaxJobs /\ made \in Seq(Nat) /\ Len(made) \in Nat
  BY SomeAreForgotten DEF JobsInv, TableFits
<1>2. CASE ~(n >= MaxJobs)
  <2>1. Answers!Room(jobs) = jobs
    BY <1>2 DEF Answers!Room
  <2>2. QED BY <1>1, <1>2, <2>1, SomeAreForgotten DEF JobsInv
<1>3. CASE n >= MaxJobs
  <2>1. Answers!Room(jobs) = kept /\ n = MaxJobs
    <3>1. Answers!Room(jobs) = Answers!Evicted(jobs)
      BY <1>3 DEF Answers!Room
    <3>2. Answers!Evicted(jobs) = kept
      BY DEF Answers!Evicted, Step5
    <3>3. n = MaxJobs
      BY <1>1, <1>3, SomeAreForgotten
    <3>4. QED BY <3>1, <3>2, <3>3
  <2>2. /\ kept \in Seq(JobRecords) /\ Len(kept) = n - Step5
        /\ \A i \in 1..Len(kept) : i + Step5 \in 1..n /\ kept[i] = jobs[i + Step5]
    <3>1. 1 + Step5 \in 1..(n + 1)
      BY <1>1, <2>1, SomeAreForgotten
    <3>2. kept \in Seq(JobRecords) /\ Len(kept) = n - Step5
      BY <1>1, <3>1, SomeAreForgotten
    <3>3. kept = [i \in 1..(n - Step5) |-> jobs[i + Step5]]
      BY <1>1, <3>1, SomeAreForgotten
    <3>4. \A i \in 1..(n - Step5) : i + Step5 \in 1..n
      BY <1>1, SomeAreForgotten
    <3>5. QED BY <3>2, <3>3, <3>4
  <2> HIDE DEF kept
  <2> DEFINE m == Len(kept)
  <2>3. m \in Nat /\ m < MaxJobs /\ m <= Len(made) /\ m = MaxJobs - Step5
    BY <1>1, <2>1, <2>2, SomeAreForgotten DEF JobsInv, TableFits
  <2>4. \A i \in 1..m : kept[i].id = made[Len(made) - m + i]
    <3> SUFFICES ASSUME NEW i \in 1..m PROVE kept[i].id = made[Len(made) - m + i]
      OBVIOUS
    <3>1. jobs[i + Step5].id = made[Len(made) - n + (i + Step5)]
      BY <2>2 DEF JobsInv, TableFits
    <3>2. Len(made) - n + (i + Step5) = Len(made) - m + i
      BY <1>1, <2>2, SomeAreForgotten
    <3>3. QED BY <2>2, <3>1, <3>2
  <2>5. \A i, j \in 1..m : kept[i].id = kept[j].id => i = j
    <3> SUFFICES ASSUME NEW i \in 1..m, NEW j \in 1..m, kept[i].id = kept[j].id PROVE i = j
      OBVIOUS
    <3>0. i + Step5 \in 1..n /\ j + Step5 \in 1..n /\ jobs[i + Step5].id = jobs[j + Step5].id
      BY <2>2
    <3>1. i + Step5 = j + Step5
      BY <3>0 DEF JobsInv, TableFits
    <3>2. QED BY <2>3, <3>1, SomeAreForgotten
  <2>6. \A i \in 1..m : OneTable(kept[i].hints)
    BY <2>2 DEF JobsInv
  <2>7. TableFits(kept, made)
    BY <2>3, <2>4, <2>5, SomeAreForgotten DEF TableFits
  <2>8. QED BY <2>1, <2>2, <2>3, <2>6, <2>7
<1>4. QED BY <1>2, <1>3

LEMMA StoreFits ==
  ASSUME JobsInv, NEW job \in JobRecords, OneTable(job.hints), Answers!StoreAiJob(job)
  PROVE  JobsInv'
<1> DEFINE kept == Answers!Room(jobs)
           at == Answers!IndexOf(kept, job.id)
           n == Len(kept)
<1>1. /\ kept \in Seq(JobRecords) /\ n \in Nat /\ n < MaxJobs /\ TableFits(kept, made)
      /\ \A i \in 1..n : OneTable(kept[i].hints)
      /\ made \in Seq(Nat) /\ Len(made) \in Nat
  <2>1. /\ kept \in Seq(JobRecords) /\ n < MaxJobs /\ TableFits(kept, made)
        /\ \A i \in 1..n : OneTable(kept[i].hints)
    BY RoomFits
  <2>2. made \in Seq(Nat)
    BY DEF JobsInv
  <2> HIDE DEF kept
  <2>3. QED BY <2>1, <2>2
<1>2. /\ jobs' = IF at = {} THEN Append(kept, job) ELSE [kept EXCEPT ![CHOOSE i \in at : TRUE] = job]
      /\ made' = IF at = {} THEN Append(made, job.id) ELSE made
      /\ at = {i \in 1..n : kept[i].id = job.id}
  BY <1>1 DEF Answers!StoreAiJob, Answers!Stored, Answers!IndexOf
<1>3. job.id \in Nat
  BY DEF JobRecords
<1> HIDE DEF kept, at
<1>4. CASE at = {}
  <2>1. jobs' = Append(kept, job) /\ made' = Append(made, job.id)
    BY <1>2, <1>4
  <2>2. /\ jobs' \in Seq(JobRecords) /\ Len(jobs') = n + 1 /\ jobs'[n + 1] = job
        /\ \A i \in 1..n : jobs'[i] = kept[i]
    BY <1>1, <2>1
  <2>3. /\ made' \in Seq(Nat) /\ Len(made') = Len(made) + 1 /\ made'[Len(made) + 1] = job.id
        /\ \A i \in 1..Len(made) : made'[i] = made[i]
    BY <1>1, <1>3, <2>1
  <2>4. \A i \in 1..(n + 1) : i \in 1..n \/ i = n + 1
    BY <1>1
  <2>5. \A i \in 1..(n + 1) : jobs'[i].id = made'[Len(made') - (n + 1) + i]
    <3> SUFFICES ASSUME NEW i \in 1..(n + 1) PROVE jobs'[i].id = made'[Len(made') - (n + 1) + i]
      OBVIOUS
    <3>1. CASE i \in 1..n
      <4>1. kept[i].id = made[Len(made) - n + i]
        BY <1>1, <3>1 DEF TableFits
      <4>2. Len(made) - n + i \in 1..Len(made) /\ Len(made') - (n + 1) + i = Len(made) - n + i
        BY <1>1, <2>3, <3>1 DEF TableFits
      <4>3. QED BY <2>2, <2>3, <3>1, <4>1, <4>2
    <3>2. CASE i = n + 1
      <4>1. Len(made') - (n + 1) + i = Len(made) + 1
        BY <1>1, <2>3, <3>2
      <4>2. QED BY <2>2, <2>3, <3>2, <4>1
    <3>3. QED BY <2>4, <3>1, <3>2
  <2>6. \A i, j \in 1..(n + 1) : jobs'[i].id = jobs'[j].id => i = j
    <3>1. \A i \in 1..n : kept[i].id # job.id
      BY <1>2, <1>4
    <3>2. \A i, j \in 1..n : kept[i].id = kept[j].id => i = j
      BY <1>1 DEF TableFits
    <3>3. QED BY <2>2, <2>4, <3>1, <3>2
  <2>7. \A i \in 1..(n + 1) : OneTable(jobs'[i].hints)
    BY <1>1, <2>2, <2>4
  <2>8. TableFits(jobs', made')
    BY <1>1, <2>2, <2>3, <2>5, <2>6, SomeAreForgotten DEF TableFits
  <2>9. QED BY <2>2, <2>3, <2>7, <2>8 DEF JobsInv, TableFits, Step5
<1>5. CASE at # {}
  <2> DEFINE p == CHOOSE i \in at : TRUE
  <2>1. p \in 1..n /\ kept[p].id = job.id
    BY <1>2, <1>5
  <2>2. jobs' = [kept EXCEPT ![p] = job] /\ made' = made
    BY <1>2, <1>5
  <2> HIDE DEF p
  <2>3. /\ jobs' \in Seq(JobRecords) /\ Len(jobs') = n
        /\ \A i \in 1..n : jobs'[i] = IF i = p THEN job ELSE kept[i]
    BY <1>1, <2>1, <2>2
  <2>4. \A i \in 1..n : jobs'[i].id = kept[i].id
    BY <2>1, <2>3
  <2>5. \A i \in 1..n : OneTable(jobs'[i].hints)
    BY <1>1, <2>3
  <2>6. TableFits(jobs', made')
    BY <1>1, <2>2, <2>3, <2>4 DEF TableFits
  <2>7. QED BY <1>1, <2>2, <2>3, <2>5, <2>6 DEF JobsInv, TableFits, Step5
<1>6. QED BY <1>4, <1>5

LEMMA CallsAreBounded ==
  ASSUME NEW fragments \in Fragments
  PROVE  /\ Answers!Calls(fragments) \in Seq({"fragment", "columns"})
         /\ Len(Answers!Calls(fragments)) <= 2 * MaxFragments + 1
         /\ \A i \in 1..Len(Answers!Calls(fragments)) :
              Answers!Calls(fragments)[i] = "columns" => i = Len(Answers!Calls(fragments))
<1> DEFINE s(kinds) == Answers!CallsFor(fragments, kinds)
           Words == {"fragment", "columns"}
<1>1. MaxFragments \in Nat /\ IsFiniteSet(DOMAIN fragments)
  BY InstancesAssumption, SameSets DEF Answers!LimitsAssumption
<1>2. ASSUME NEW kinds
      PROVE  /\ s(kinds) \in Seq(Words) /\ Len(s(kinds)) <= MaxFragments
             /\ \A i \in 1..Len(s(kinds)) : s(kinds)[i] = "fragment"
  <2> DEFINE c == Cardinality({i \in DOMAIN fragments : fragments[i] \in kinds})
             n == Answers!Min({c, MaxFragments})
  <2>1. c \in Nat
    <3>1. IsFiniteSet({i \in DOMAIN fragments : fragments[i] \in kinds})
      BY <1>1, FS_Subset
    <3>2. QED BY <3>1, FS_CardinalityType
  <2> HIDE DEF c
  <2>2. n \in Nat /\ n <= MaxFragments
    <3>1. \E x \in {c, MaxFragments} : \A y \in {c, MaxFragments} : x =< y
      <4>1. CASE c <= MaxFragments
        BY <1>1, <2>1, <4>1
      <4>2. CASE ~(c <= MaxFragments)
        BY <1>1, <2>1, <4>2
      <4>3. QED BY <4>1, <4>2
    <3>2. n \in {c, MaxFragments} /\ \A y \in {c, MaxFragments} : n =< y
      BY <3>1 DEF Answers!Min
    <3>3. QED BY <1>1, <2>1, <3>2
  <2>3. s(kinds) = [k \in 1..n |-> "fragment"]
    BY SameSets DEF Answers!CallsFor, c
  <2> HIDE DEF n
  <2>4. [k \in 1..n |-> "fragment"] \in [1..n -> Words]
    OBVIOUS
  <2> HIDE DEF Words
  <2>5. s(kinds) \in Seq(Words) /\ Len(s(kinds)) = n
    BY <2>2, <2>3, <2>4, IsSequence
  <2>6. QED BY <2>2, <2>3, <2>5
<1> DEFINE a == s({""})
           b == s(Answers!Triggers)
           e == IF AskedColumns = <<>> THEN <<>> ELSE <<"columns">>
<1>3. /\ a \in Seq(Words) /\ Len(a) <= MaxFragments /\ \A i \in 1..Len(a) : a[i] = "fragment"
      /\ b \in Seq(Words) /\ Len(b) <= MaxFragments /\ \A i \in 1..Len(b) : b[i] = "fragment"
  BY <1>2
<1>4. e \in Seq(Words) /\ Len(e) <= 1 /\ \A i \in 1..Len(e) : i = 1
  <2>1. CASE AskedColumns = <<>>
    BY <2>1
  <2>2. CASE AskedColumns # <<>>
    BY <2>2
  <2>3. QED BY <2>1, <2>2
<1>5. Answers!Calls(fragments) = a \o b \o e
  BY DEF Answers!Calls
<1> HIDE DEF a, b, e
<1>6. /\ a \o b \in Seq(Words) /\ Len(a \o b) = Len(a) + Len(b)
      /\ \A i \in 1..(Len(a) + Len(b)) : (a \o b)[i] = "fragment"
  <2>1. Len(a) \in Nat /\ Len(b) \in Nat
    BY <1>3
  <2>2. \A i \in 1..(Len(a) + Len(b)) : (a \o b)[i] = IF i <= Len(a) THEN a[i] ELSE b[i - Len(a)]
    BY <1>3
  <2>3. a \o b \in Seq(Words) /\ Len(a \o b) = Len(a) + Len(b)
    BY <1>3
  <2>4. ASSUME NEW i \in 1..(Len(a) + Len(b)) PROVE (a \o b)[i] = "fragment"
    <3>1. i \in 1..Len(a) \/ (~(i <= Len(a)) /\ i - Len(a) \in 1..Len(b))
      BY <2>1
    <3>2. QED BY <1>3, <2>1, <2>2, <3>1
  <2>5. QED BY <2>3, <2>4
<1> DEFINE f == a \o b
<1>7. f \in Seq(Words) /\ Len(f) \in Nat /\ Len(f) <= 2 * MaxFragments /\ \A i \in 1..Len(f) : f[i] = "fragment"
  BY <1>1, <1>3, <1>6
<1> HIDE DEF f
<1>8. /\ f \o e \in Seq(Words) /\ Len(f \o e) = Len(f) + Len(e) /\ Len(e) \in Nat
      /\ \A i \in 1..(Len(f) + Len(e)) : (f \o e)[i] = IF i <= Len(f) THEN f[i] ELSE e[i - Len(f)]
  BY <1>4, <1>7
<1>9. \A i \in 1..Len(f \o e) : (f \o e)[i] = "columns" => i = Len(f \o e)
  <2> SUFFICES ASSUME NEW i \in 1..Len(f \o e), (f \o e)[i] = "columns" PROVE i = Len(f \o e)
    OBVIOUS
  <2>1. ~(i <= Len(f))
    <3> SUFFICES ASSUME i <= Len(f) PROVE FALSE
      OBVIOUS
    <3>1. i \in 1..Len(f)
      BY <1>7, <1>8
    <3>2. QED BY <1>7, <1>8, <3>1
  <2>2. QED BY <1>4, <1>7, <1>8, <2>1
<1>10. Answers!Calls(fragments) = f \o e
  BY <1>5 DEF f
<1>11. QED BY <1>1, <1>4, <1>7, <1>8, <1>9, <1>10

\* A thread is made with nothing answered.
LEMMA StartFits ==
  ASSUME ThreadsInv, NEW kind \in {"inference", "enrichment"}, NEW able \in BOOLEAN,
         NEW todo \in Seq({"fragment", "columns"}), Len(todo) <= 2 * MaxFragments + 1,
         \A i \in 1..Len(todo) : todo[i] = "columns" => i = Len(todo),
         Answers!Start(Answers!NextId, kind, able, todo)
  PROVE  ThreadsInv'
<1> DEFINE id == Answers!NextId
           t == [kind |-> kind, able |-> able, todo |-> todo, edges |-> {}, hints |-> {}, calls |-> 0]
<1>1. id \in Nat
  BY FS_CardinalityType, SameSets DEF ThreadsInv, Answers!NextId
<1>2. threads' = [i \in DOMAIN threads \cup {id} |-> IF i = id THEN t ELSE threads[i]]
  BY DEF Answers!Start
<1>3. t \in ThreadRecords
  BY DEF ThreadRecords
<1>4. CallsLeft(t)
  BY DEF CallsLeft, OneTable
<1> HIDE DEF id, t
<1>5. DOMAIN threads' = DOMAIN threads \cup {id} /\ IsFiniteSet(DOMAIN threads')
  BY <1>2, FS_AddElement DEF ThreadsInv
<1>6. \A i \in DOMAIN threads' : threads'[i] = t \/ (i \in DOMAIN threads /\ threads'[i] = threads[i])
  BY <1>2
<1>7. \A i \in DOMAIN threads' : threads'[i] \in ThreadRecords /\ CallsLeft(threads'[i])
  BY <1>3, <1>4, <1>6 DEF ThreadsInv
<1>8. threads' \in [DOMAIN threads' -> ThreadRecords]
  BY <1>2, <1>7
<1>9. QED BY <1>1, <1>5, <1>7, <1>8 DEF ThreadsInv

\* A thread that goes on.
LEMMA ThreadFits ==
  ASSUME ThreadsInv, NEW id \in DOMAIN threads, NEW t \in ThreadRecords, CallsLeft(t),
         threads' = [threads EXCEPT ![id] = t]
  PROVE  ThreadsInv'
<1>1. DOMAIN threads' = DOMAIN threads /\ \A i \in DOMAIN threads : threads'[i] = IF i = id THEN t ELSE threads[i]
  OBVIOUS
<1>2. \A i \in DOMAIN threads' : threads'[i] \in ThreadRecords /\ CallsLeft(threads'[i])
  BY <1>1 DEF ThreadsInv
<1>3. threads' \in [DOMAIN threads' -> ThreadRecords]
  BY <1>2
<1>4. QED BY <1>1, <1>2, <1>3 DEF ThreadsInv

LEMMA PendingFits ==
  ASSUME AnswersInv, NEW id \in Nat, NEW status \in {"pending", "running"},
         Answers!StoreAiJob(Answers!Job(id, status, {}, {}))
  PROVE  JobsInv'
<1>1. Answers!Job(id, status, {}, {}) \in JobRecords /\ OneTable(Answers!Job(id, status, {}, {}).hints)
  BY DEF Answers!Job, JobRecords, OneTable
<1>2. QED BY <1>1, StoreFits DEF AnswersInv

\* Of any answer, what leads to tables of the script is kept, and one hint for
\* a column.
LEMMA ValidAnswers ==
  /\ \A a \in Answers!Answers : Answers!ValidEdges(a) \subseteq GuardedEdges
  /\ \A a \in Answers!HintLists :
       Answers!ValidHints(a) \subseteq GuardedHints /\ OneTable(Answers!ValidHints(a))
<1>1. ASSUME NEW a \in Answers!Answers PROVE Answers!ValidEdges(a) \subseteq GuardedEdges
  <2> SUFFICES ASSUME NEW e \in a, e.target \in Tables
               PROVE  [source |-> IF e.source \in Tables THEN e.source ELSE "", target |-> e.target] \in GuardedEdges
    BY DEF Answers!ValidEdges
  <2>1. (IF e.source \in Tables THEN e.source ELSE "") \in Tables \cup {""}
    OBVIOUS
  <2>2. QED BY <2>1 DEF GuardedEdges
<1>2. ASSUME NEW a \in Answers!HintLists
      PROVE  Answers!ValidHints(a) \subseteq GuardedHints /\ OneTable(Answers!ValidHints(a))
  <2> DEFINE valid == {j \in DOMAIN a : a[j].table \in Tables}
  <2>1. /\ DOMAIN a \subseteq Nat
        /\ \A i \in DOMAIN a : a[i] \in [column : Answers!ToSet(AskedColumns), table : Tables \cup Unknown]
    <3>1. CASE a = <<>>
      BY <3>1
    <3>2. CASE a # <<>>
      <4>1. PICK h \in [column : Answers!ToSet(AskedColumns), table : Tables \cup Unknown],
                 g \in [column : Answers!ToSet(AskedColumns), table : Tables \cup Unknown] : a = <<h, g>>
        BY <3>2 DEF Answers!HintLists
      <4>2. DOMAIN a = {1, 2} /\ a[1] = h /\ a[2] = g
        BY <4>1
      <4>3. QED BY <4>2
    <3>3. QED BY <3>1, <3>2
  <2>2. Answers!ValidHints(a) = {a[i] : i \in {j \in valid : ~\E k \in valid : k < j /\ a[k].column = a[j].column}}
    BY DEF Answers!ValidHints
  <2>3. \A i \in valid : a[i] \in GuardedHints
    BY <2>1 DEF GuardedHints
  <2>4. \A i, j \in valid : i = j \/ i < j \/ j < i
    BY <2>1
  <2> HIDE DEF valid
  <2>5. QED BY <2>2, <2>3, <2>4 DEF OneTable
<1>3. QED BY <1>1, <1>2

LEMMA CalledThread ==
  ASSUME NEW t \in ThreadRecords, NEW todo, NEW calls, NEW edges, NEW hints
  PROVE  [t EXCEPT !.todo = todo, !.calls = calls, !.edges = edges, !.hints = hints] =
           [kind |-> t.kind, able |-> t.able, todo |-> todo, edges |-> edges, hints |-> hints, calls |-> calls]
<1> DEFINE Fields == {"kind", "able", "todo", "edges", "hints", "calls"}
           u == [t EXCEPT !.todo = todo, !.calls = calls, !.edges = edges, !.hints = hints]
           v == [kind |-> t.kind, able |-> t.able, todo |-> todo, edges |-> edges, hints |-> hints, calls |-> calls]
<1>1. DOMAIN t = Fields /\ t = [x \in Fields |-> t[x]]
  BY DEF ThreadRecords
<1>2. u = [x \in Fields |-> IF x = "todo" THEN todo ELSE IF x = "calls" THEN calls
                             ELSE IF x = "edges" THEN edges ELSE IF x = "hints" THEN hints ELSE t[x]]
  BY <1>1
<1>3. v = [x \in Fields |-> IF x = "todo" THEN todo ELSE IF x = "calls" THEN calls
                             ELSE IF x = "edges" THEN edges ELSE IF x = "hints" THEN hints ELSE t[x]]
  OBVIOUS
<1>4. QED BY <1>2, <1>3

LEMMA CallKeeps ==
  ASSUME AnswersInv, NEW id \in DOMAIN threads, Answers!Call(id)
  PROVE  ThreadsInv'
<1> DEFINE t == threads[id]
           After(edges, hints) ==
             [t EXCEPT !.todo = Tail(@), !.calls = @ + 1, !.edges = @ \cup edges, !.hints = @ \cup hints]
<1>0. ThreadsInv /\ t \in ThreadRecords /\ CallsLeft(t) /\ t.todo # <<>>
  BY DEF AnswersInv, ThreadsInv, Answers!Call
<1>1. /\ t.todo \in Seq({"fragment", "columns"}) /\ Len(t.todo) \in Nat \ {0} /\ t.calls \in Nat
      /\ t.edges \in SUBSET GuardedEdges /\ t.hints \in SUBSET GuardedHints
  BY <1>0 DEF ThreadRecords
<1>2. \/ threads' = [threads EXCEPT ![id] = After({}, {})]
      \/ \E edges \in SUBSET GuardedEdges : threads' = [threads EXCEPT ![id] = After(edges, {})]
      \/ /\ Head(t.todo) = "columns"
         /\ \E hints \in SUBSET GuardedHints : OneTable(hints) /\ threads' = [threads EXCEPT ![id] = After({}, hints)]
  BY ValidAnswers DEF Answers!Call
<1>3. /\ Tail(t.todo) \in Seq({"fragment", "columns"}) /\ Len(Tail(t.todo)) = Len(t.todo) - 1
      /\ \A i \in 1..Len(Tail(t.todo)) : i + 1 \in 1..Len(t.todo) /\ Tail(t.todo)[i] = t.todo[i + 1]
      /\ Head(t.todo) = t.todo[1] /\ 1 \in 1..Len(t.todo)
  BY <1>1
<1>4. MaxFragments \in Nat
  BY InstancesAssumption DEF Answers!LimitsAssumption
<1>5. ASSUME NEW edges \in SUBSET GuardedEdges, NEW hints \in SUBSET GuardedHints, OneTable(hints),
             hints # {} => Head(t.todo) = "columns"
      PROVE  After(edges, hints) \in ThreadRecords /\ CallsLeft(After(edges, hints))
  <2> DEFINE u == After(edges, hints)
  <2>1. /\ u.todo = Tail(t.todo) /\ u.calls = t.calls + 1 /\ u.hints = t.hints \cup hints
        /\ u.edges = t.edges \cup edges /\ u.kind = t.kind /\ u.able = t.able
        /\ u \in ThreadRecords
    <3>1. u = [kind |-> t.kind, able |-> t.able, todo |-> Tail(t.todo), edges |-> t.edges \cup edges,
               hints |-> t.hints \cup hints, calls |-> t.calls + 1]
      <4>1. u = [t EXCEPT !.todo = Tail(t.todo), !.calls = t.calls + 1, !.edges = t.edges \cup edges,
                          !.hints = t.hints \cup hints]
        OBVIOUS
      <4> HIDE DEF t, u
      <4>2. QED BY <1>0, <4>1, CalledThread
    <3>2. t.kind \in {"inference", "running", "enrichment", "ended"} /\ t.able \in BOOLEAN
      BY <1>0 DEF ThreadRecords
    <3>3. t.edges \cup edges \in SUBSET GuardedEdges /\ t.hints \cup hints \in SUBSET GuardedHints /\ t.calls + 1 \in Nat
      BY <1>1
    <3> HIDE DEF t, u
    <3>4. QED BY <1>3, <3>1, <3>2, <3>3 DEF ThreadRecords
  <2> HIDE DEF u
  <2>2. u.calls + Len(u.todo) <= 2 * MaxFragments + 1
    BY <1>0, <1>1, <1>3, <1>4, <2>1 DEF CallsLeft
  <2>3. Head(t.todo) = "columns" => Len(u.todo) = 0 /\ t.hints = {}
    <3> SUFFICES ASSUME Head(t.todo) = "columns" PROVE Len(u.todo) = 0 /\ t.hints = {}
      OBVIOUS
    <3>1. t.todo[1] = "columns" /\ 1 \in 1..Len(t.todo)
      BY <1>3
    <3>2. 1 = Len(t.todo) /\ t.hints = {}
      BY <1>0, <3>1 DEF CallsLeft
    <3>3. QED BY <1>3, <2>1, <3>2
  <2>4. \A i \in 1..Len(u.todo) : u.todo[i] = "columns" => i = Len(u.todo) /\ u.hints = {}
    <3> SUFFICES ASSUME NEW i \in 1..Len(u.todo), u.todo[i] = "columns" PROVE i = Len(u.todo) /\ u.hints = {}
      OBVIOUS
    <3>1. i + 1 = Len(t.todo) /\ t.hints = {}
      BY <1>0, <1>3, <2>1 DEF CallsLeft
    <3>2. hints = {}
      BY <1>1, <1>3, <1>5, <2>1, <2>3
    <3>3. QED BY <1>1, <1>3, <2>1, <3>1, <3>2
  <2>5. OneTable(u.hints)
    <3>1. hints = {} \/ t.hints = {}
      BY <1>5, <2>3
    <3>2. OneTable(t.hints)
      BY <1>0 DEF CallsLeft
    <3>3. QED BY <1>5, <2>1, <3>1, <3>2
  <2>6. QED BY <2>1, <2>2, <2>4, <2>5 DEF CallsLeft, u
<1>6. OneTable({})
  BY DEF OneTable
<1> HIDE DEF After
<1>7. \E u \in ThreadRecords : CallsLeft(u) /\ threads' = [threads EXCEPT ![id] = u]
  <2>1. CASE threads' = [threads EXCEPT ![id] = After({}, {})]
    BY <1>5, <1>6, <2>1
  <2>2. ASSUME NEW edges \in SUBSET GuardedEdges, threads' = [threads EXCEPT ![id] = After(edges, {})]
        PROVE  \E u \in ThreadRecords : CallsLeft(u) /\ threads' = [threads EXCEPT ![id] = u]
    BY <1>5, <1>6, <2>2
  <2>3. ASSUME Head(t.todo) = "columns", NEW hints \in SUBSET GuardedHints, OneTable(hints),
               threads' = [threads EXCEPT ![id] = After({}, hints)]
        PROVE  \E u \in ThreadRecords : CallsLeft(u) /\ threads' = [threads EXCEPT ![id] = u]
    BY <1>5, <2>3
  <2>4. QED BY <1>2, <2>1, <2>2, <2>3
<1>8. QED BY <1>0, <1>7, ThreadFits

LEMMA EndKeeps ==
  ASSUME AnswersInv, NEW id \in DOMAIN threads, NEW status \in {"ok", "success", "error"}, Answers!End(id, status)
  PROVE  AnswersInv'
<1> DEFINE t == threads[id]
           job == Answers!Job(id, status, t.edges, t.hints)
           u == [t EXCEPT !.kind = "ended", !.edges = {}, !.hints = {}]
<1>1. t \in ThreadRecords /\ CallsLeft(t) /\ id \in Nat /\ JobsInv /\ ThreadsInv
  BY DEF AnswersInv, ThreadsInv
<1>2. job \in JobRecords /\ OneTable(job.hints)
  BY <1>1 DEF Answers!Job, JobRecords, ThreadRecords, CallsLeft
<1>3. Answers!StoreAiJob(job) /\ threads' = [threads EXCEPT ![id] = u]
  BY DEF Answers!End
<1>4. u \in ThreadRecords /\ u.todo = t.todo /\ u.calls = t.calls /\ u.hints = {}
  BY <1>1 DEF ThreadRecords
<1>5. CallsLeft(u)
  BY <1>1, <1>4 DEF CallsLeft, OneTable
<1> HIDE DEF job, u
<1>6. JobsInv'
  BY <1>1, <1>2, <1>3, StoreFits
<1>7. ThreadsInv'
  BY <1>1, <1>3, <1>4, <1>5, ThreadFits
<1>8. QED BY <1>6, <1>7 DEF AnswersInv

LEMMA AnswersStep == AnswersInv /\ [Answers!Next]_(Answers!vars) => AnswersInv'
<1> SUFFICES ASSUME AnswersInv, [Answers!Next]_(Answers!vars) PROVE AnswersInv'
  OBVIOUS
<1>u. ASSUME UNCHANGED <<jobs, made>> PROVE JobsInv'
  BY <1>u DEF AnswersInv, JobsInv
<1>v. ASSUME UNCHANGED threads PROVE ThreadsInv'
  BY <1>v DEF AnswersInv, ThreadsInv
<1>n. Answers!NextId \in Nat
  BY FS_CardinalityType, SameSets DEF AnswersInv, ThreadsInv, Answers!NextId
<1>l. MaxFragments \in Nat /\ <<>> \in Seq({"fragment", "columns"}) /\ Len(<<>>) = 0
  BY InstancesAssumption DEF Answers!LimitsAssumption
<1>1. CASE UNCHANGED Answers!vars
  BY <1>1, <1>u, <1>v DEF Answers!vars, AnswersInv
<1>2. ASSUME NEW asked \in BOOLEAN, NEW f \in Fragments, Answers!Analyze(asked, f) PROVE AnswersInv'
  <2>1. CASE UNCHANGED <<jobs, made, threads>>
    BY <2>1, <1>u, <1>v DEF AnswersInv
  <2>2. CASE /\ Answers!StoreAiJob(Answers!Job(Answers!NextId, "pending", {}, {}))
             /\ \E able \in BOOLEAN, todo \in {<<>>, Answers!Calls(f)} :
                  Answers!Start(Answers!NextId, "inference", able, todo)
    <3>1. JobsInv'
      BY <1>n, <2>2, PendingFits
    <3>2. PICK able \in BOOLEAN, todo \in {<<>>, Answers!Calls(f)} :
             Answers!Start(Answers!NextId, "inference", able, todo)
      BY <2>2
    <3>3. /\ todo \in Seq({"fragment", "columns"}) /\ Len(todo) <= 2 * MaxFragments + 1
          /\ \A i \in 1..Len(todo) : todo[i] = "columns" => i = Len(todo)
      <4>1. CASE todo = <<>>
        BY <1>l, <4>1
      <4>2. CASE todo = Answers!Calls(f)
        BY <4>2, CallsAreBounded
      <4>3. QED BY <3>2, <4>1, <4>2
    <3>4. ThreadsInv'
      BY <3>2, <3>3, StartFits DEF AnswersInv
    <3>5. QED BY <3>1, <3>4 DEF AnswersInv
  <2>3. UNCHANGED <<jobs, made, threads>> \/
          (/\ Answers!StoreAiJob(Answers!Job(Answers!NextId, "pending", {}, {}))
           /\ \E able \in BOOLEAN, todo \in {<<>>, Answers!Calls(f)} :
                Answers!Start(Answers!NextId, "inference", able, todo))
    <3>1. (Answers!Config.provider = "http" /\ Answers!Config.key) \in BOOLEAN
      OBVIOUS
    <3>2. QED BY <1>2, <3>1 DEF Answers!Analyze
  <2>4. QED BY <2>1, <2>2, <2>3
<1>3. CASE Answers!Enrich
  <2>1. CASE UNCHANGED <<jobs, made, threads>>
    BY <2>1, <1>u, <1>v DEF AnswersInv
  <2>2. CASE /\ Answers!StoreAiJob(Answers!Job(Answers!NextId, "pending", {}, {}))
             /\ Answers!Start(Answers!NextId, "enrichment", TRUE, <<>>)
    <3>1. JobsInv'
      BY <1>n, <2>2, PendingFits
    <3>2. ThreadsInv'
      <4>1. Len(<<>>) <= 2 * MaxFragments + 1 /\ \A i \in 1..Len(<<>>) : <<>>[i] = "columns" => i = Len(<<>>)
        BY <1>l
      <4>2. QED BY <1>l, <2>2, <4>1, StartFits DEF AnswersInv
    <3>3. QED BY <3>1, <3>2 DEF AnswersInv
  <2>3. QED BY <1>3, <2>1, <2>2 DEF Answers!Enrich
<1>4. ASSUME NEW id \in DOMAIN threads, Answers!Running(id) PROVE AnswersInv'
  <2> DEFINE u == [threads[id] EXCEPT !.kind = "running"]
  <2>1. threads[id] \in ThreadRecords /\ CallsLeft(threads[id]) /\ id \in Nat
    BY DEF AnswersInv, ThreadsInv
  <2>2. u \in ThreadRecords /\ CallsLeft(u)
    BY <2>1 DEF ThreadRecords, CallsLeft
  <2>3. threads' = [threads EXCEPT ![id] = u]
    BY <1>4 DEF Answers!Running
  <2> HIDE DEF u
  <2>4. ThreadsInv'
    BY <2>2, <2>3, ThreadFits DEF AnswersInv
  <2>5. JobsInv'
    BY <1>4, <2>1, PendingFits DEF Answers!Running
  <2>6. QED BY <2>4, <2>5 DEF AnswersInv
<1>5. ASSUME NEW id \in DOMAIN threads, Answers!Call(id) PROVE AnswersInv'
  BY <1>5, <1>u, CallKeeps DEF Answers!Call, AnswersInv
<1>6. ASSUME NEW id \in DOMAIN threads, Answers!EndInference(id) \/ Answers!EndEnrichment(id) PROVE AnswersInv'
  BY <1>6, EndKeeps DEF Answers!EndInference, Answers!EndEnrichment
<1>7. ASSUME NEW s \in Beside,
             \/ \E key \in {"keep", "set", "clear"}, infer \in BOOLEAN : Answers!BeginSave(s, key, infer)
             \/ Answers!Truncate(s) \/ Answers!Write(s)
      PROVE  AnswersInv'
  BY <1>7, <1>u, <1>v DEF Answers!BeginSave, Answers!Truncate, Answers!Write, Answers!Untouched, AnswersInv
<1>8. QED BY <1>1, <1>2, <1>3, <1>4, <1>5, <1>6, <1>7 DEF Answers!Next

LEMMA AnswersAtInit == Answers!Init => AnswersInv
<1> SUFFICES ASSUME Answers!Init PROVE AnswersInv
  OBVIOUS
<1>1. jobs = <<>> /\ made = <<>> /\ threads = <<>>
  BY DEF Answers!Init
<1>2. jobs \in Seq(JobRecords) /\ made \in Seq(Nat) /\ Len(jobs) = 0 /\ Len(made) = 0
  BY <1>1
<1>3. DOMAIN threads = {} /\ threads \in [DOMAIN threads -> ThreadRecords]
  BY <1>1
<1>4. TableFits(jobs, made)
  BY <1>2, SomeAreForgotten DEF TableFits
<1>5. QED BY <1>2, <1>3, <1>4, FS_EmptySet DEF AnswersInv, JobsInv, ThreadsInv

\* The greatest of some of the first numbers.
LEMMA GreatestIsMax ==
  ASSUME NEW n \in Nat, NEW S, S \subseteq 1..n, S # {}
  PROVE  LET g == CHOOSE x \in S : \A y \in S : x >= y
         IN  g \in S /\ \A k \in S : k <= g
<1> DEFINE T == {n - k : k \in S}
<1>1. T \subseteq Nat /\ T # {}
  <2>1. \A k \in 1..n : n - k \in Nat
    OBVIOUS
  <2>2. QED BY <2>1
<1>2. PICK m \in T : \A k \in T : m <= k
  <2>1. IsWellFoundedOn(OpToRel(<, Nat), Nat)
    BY NatLessThanWellFounded
  <2>2. \E m \in T : \A k \in T : <<k, m>> \notin OpToRel(<, Nat)
    BY <1>1, <2>1, WFMin
  <2>3. \A m, k \in Nat : <<k, m>> \in OpToRel(<, Nat) <=> k < m
    BY DEF OpToRel
  <2>4. \A m, k \in Nat : ~(k < m) => m <= k
    OBVIOUS
  <2>5. QED BY <1>1, <2>2, <2>3, <2>4
<1>3. PICK g \in S : m = n - g
  BY <1>2
<1>4. \A k \in S : k \in Nat /\ g >= k
  <2> SUFFICES ASSUME NEW k \in S PROVE k \in Nat /\ g >= k
    OBVIOUS
  <2>1. n - k \in T
    OBVIOUS
  <2>2. n - g <= n - k
    BY <1>2, <1>3, <2>1
  <2>3. QED BY <2>2
<1>5. \E x \in S : \A y \in S : x >= y
  BY <1>4
<1>6. QED BY <1>5

\* What is not in the table any more came before all that is.
LEMMA LostMeansOlder ==
  ASSUME AnswersInv
  PROVE  Answers!LostOnlyToNewer
<1> DEFINE n == Len(jobs)
           m == Len(made)
<1>1. /\ n \in Nat /\ m \in Nat /\ n <= m /\ n <= MaxJobs /\ made \in Seq(Nat) /\ DOMAIN made = 1..m
      /\ DOMAIN jobs = 1..n
      /\ \A i \in 1..n : jobs[i].id = made[m - n + i]
      /\ \A i, j \in 1..n : jobs[i].id = jobs[j].id => i = j
      /\ n = m \/ n >= MaxJobs - Step5
  BY DEF AnswersInv, JobsInv, TableFits
<1> HIDE DEF n, m
<1>a. n \in Nat /\ m \in Nat /\ n <= m
  BY <1>1
<1>2. ASSUME NEW id \in Answers!ToSet(made), Answers!IndexOf(jobs, id) = {}
      PROVE  LET last == Answers!Max({i \in DOMAIN made : made[i] = id})
             IN  Cardinality({made[i] : i \in (last + 1)..m}) >= MaxJobs - Step5
  <2> DEFINE at == {i \in DOMAIN made : made[i] = id}
             last == Answers!Max(at)
             newer == {made[i] : i \in (last + 1)..m}
             f == [i \in 1..n |-> made[m - n + i]]
  <2>1. at \subseteq 1..m /\ at # {}
    BY <1>1, <1>2 DEF Answers!ToSet
  <2>2. last \in at
    BY <1>1, <2>1, GreatestIsMax DEF Answers!Max
  <2>3. \A i \in (m - n + 1)..m : made[i] # id
    <3> SUFFICES ASSUME NEW i \in (m - n + 1)..m, made[i] = id PROVE FALSE
      OBVIOUS
    <3>1. i - (m - n) \in 1..n /\ m - n + (i - (m - n)) = i
      BY <1>a
    <3>2. jobs[i - (m - n)].id = made[m - n + (i - (m - n))]
      BY <1>1, <3>1
    <3>3. jobs[i - (m - n)].id = id /\ i - (m - n) \in DOMAIN jobs
      BY <1>1, <3>1, <3>2
    <3>4. QED BY <1>2, <3>3 DEF Answers!IndexOf
  <2>4. last \in Nat /\ last <= m - n /\ made[last] = id
    <3>1. last \in 1..m /\ made[last] = id
      BY <2>1, <2>2
    <3>2. ~(last \in (m - n + 1)..m)
      BY <2>3, <3>1
    <3> HIDE DEF last
    <3>3. QED BY <1>a, <3>1, <3>2
  <2> HIDE DEF last, at
  <2>5. n # m
    <3>1. last \in 1..m
      BY <2>1, <2>2 DEF last
    <3>2. QED BY <1>a, <2>4, <3>1
  <2>6. f \in Injection(1..n, newer)
    <3>1. \A i \in 1..n : m - n + i \in (last + 1)..m
      BY <1>a, <2>4
    <3>2. f \in [1..n -> newer]
      BY <3>1
    <3>3. \A i, j \in 1..n : f[i] = f[j] => i = j
      BY <1>1
    <3> HIDE DEF f, newer
    <3>4. QED BY <3>2, <3>3 DEF Injection, IsInjective
  <2>7. IsFiniteSet(newer)
    <3> DEFINE all == (last + 1)..m
               g == [i \in all |-> made[i]]
    <3>1. g \in Surjection(all, newer)
      BY DEF Surjection
    <3>2. IsFiniteSet(all)
      BY <1>a, <2>4, FS_Interval
    <3> HIDE DEF g, newer, all
    <3>3. QED BY <3>1, <3>2, FS_Surjection
  <2>8. Cardinality(1..n) = n
    BY <1>a, FS_Interval
  <2> HIDE DEF f, newer
  <2>9. n <= Cardinality(newer)
    BY <2>6, <2>7, <2>8, FS_Injection
  <2>10. Cardinality(newer) \in Nat
    BY <2>7, FS_CardinalityType
  <2>11. Cardinality(newer) >= MaxJobs - Step5
    <3>1. n >= MaxJobs - Step5
      BY <1>1, <2>5
    <3>2. QED BY <1>a, <2>9, <2>10, <3>1, SomeAreForgotten
  <2>12. QED BY <2>11 DEF newer, last, at
<1>3. \A id \in Answers!ToSet(made) : Answers!IndexOf(jobs, id) = {} =>
        LET last == Answers!Max({i \in DOMAIN made : made[i] = id})
        IN  Answers!Cardinality({made[i] : i \in (last + 1)..m}) >= MaxJobs - Step5
  BY <1>2, SameSets
<1>4. QED BY <1>1, <1>3 DEF Answers!LostOnlyToNewer, Step5, n, m

LEMMA GuardedMeansGuarded ==
  ASSUME AnswersInv
  PROVE  Answers!InferenceIsGuarded
<1>1. /\ DOMAIN jobs = 1..Len(jobs)
      /\ \A i \in 1..Len(jobs) : jobs[i] \in JobRecords /\ OneTable(jobs[i].hints)
  BY DEF AnswersInv, JobsInv
<1>2. \A id \in DOMAIN threads : threads[id] \in ThreadRecords /\ CallsLeft(threads[id])
  BY DEF AnswersInv, ThreadsInv
<1>3. ASSUME NEW i \in DOMAIN jobs, NEW e \in jobs[i].edges PROVE e.target \in Tables /\ e.source \in Tables \cup {""}
  <2>1. jobs[i].edges \subseteq GuardedEdges
    BY <1>1 DEF JobRecords
  <2>2. QED BY <1>3, <2>1 DEF GuardedEdges
<1>4. ASSUME NEW i \in DOMAIN jobs, NEW g \in jobs[i].hints, NEW h \in jobs[i].hints
      PROVE  g.table \in Tables /\ (g.column = h.column => g = h)
  BY <1>1 DEF JobRecords, GuardedHints, OneTable
<1>5. ASSUME NEW id \in DOMAIN threads PROVE threads[id].calls <= 2 * MaxFragments + 1
  <2>1. threads[id].calls \in Nat /\ Len(threads[id].todo) \in Nat
    BY <1>2 DEF ThreadRecords
  <2>2. MaxFragments \in Nat
    BY InstancesAssumption DEF Answers!LimitsAssumption
  <2>3. QED BY <1>2, <2>1, <2>2 DEF CallsLeft
<1>6. QED BY <1>3, <1>4, <1>5 DEF Answers!InferenceIsGuarded

-----------------------------------------------------------------------------
(* The settings.                                                           *)

SettingRecords == [provider : {"off", "mock", "http"}, key : BOOLEAN, infer : BOOLEAN]
SaveRecords ==
  [pc : {"idle", "read", "write", "done"}, key : {"keep", "set", "clear"}, infer : BOOLEAN, read : SettingRecords]

\* A save that no other overlaps has read the key there is.
SettingsInv ==
  /\ file \in {Settings!Nothing} \cup SettingRecords
  /\ saves \in [Savers -> SaveRecords] /\ hasKey \in BOOLEAN /\ collided \in BOOLEAN
  /\ ~collided =>
       /\ \A s, u \in Settings!Saving : s = u
       /\ \A s \in Settings!Saving : saves[s].read.key = hasKey
       /\ (\A s \in Savers : saves[s].pc # "write") => Settings!Config.key = hasKey

LEMMA SettingsAtInit == Settings!Init => SettingsInv
<1> SUFFICES ASSUME Settings!Init PROVE SettingsInv
  OBVIOUS
<1>1. Settings!Default \in SettingRecords
  BY DEF Settings!Default, SettingRecords
<1>2. file \in {Settings!Nothing} \cup SettingRecords
  <2>1. /\ [provider |-> "mock", key |-> FALSE, infer |-> TRUE] \in SettingRecords
        /\ [provider |-> "http", key |-> TRUE, infer |-> TRUE] \in SettingRecords
    BY DEF SettingRecords
  <2>2. QED BY <2>1 DEF Settings!Init
<1>3. Settings!Config \in SettingRecords
  BY <1>1, <1>2 DEF Settings!Config
<1>4. Settings!Idle \in SaveRecords /\ Settings!Idle.pc = "idle"
  BY <1>1 DEF Settings!Idle, SaveRecords
<1>5. saves = [s \in Savers |-> Settings!Idle] /\ hasKey = Settings!Config.key /\ collided = FALSE
  BY DEF Settings!Init
<1>6. Settings!Saving = {}
  BY <1>4, <1>5 DEF Settings!Saving
<1>7. hasKey \in BOOLEAN
  BY <1>3, <1>5 DEF SettingRecords
<1>8. QED BY <1>2, <1>4, <1>5, <1>6, <1>7 DEF SettingsInv

LEMMA SettingsStep == SettingsInv /\ [Settings!Next]_(Settings!vars) => SettingsInv'
<1> SUFFICES ASSUME SettingsInv, [Settings!Next]_(Settings!vars) PROVE SettingsInv'
  OBVIOUS
<1>1. ASSUME UNCHANGED <<file, saves, hasKey, collided>> PROVE SettingsInv'
  BY <1>1 DEF SettingsInv, Settings!Saving, Settings!Config
<1>t. /\ \A s \in Savers : saves[s] \in SaveRecords
      /\ Settings!Config \in SettingRecords
  BY DEF SettingsInv, Settings!Config, Settings!Default, SettingRecords
<1>2. ASSUME NEW s \in Savers, NEW key \in {"keep", "set", "clear"}, NEW infer \in BOOLEAN,
             Settings!BeginSave(s, key, infer)
      PROVE  SettingsInv'
  <2> DEFINE new == [pc |-> "read", key |-> key, infer |-> infer, read |-> Settings!Config]
  <2>1. /\ saves' = [saves EXCEPT ![s] = new] /\ file' = file /\ hasKey' = hasKey
        /\ collided' = (collided \/ Settings!Saving # {}) /\ saves[s].pc = "idle"
    BY <1>2 DEF Settings!BeginSave
  <2>2. new \in SaveRecords /\ new.pc = "read" /\ new.read.key = Settings!Config.key
    BY <1>t DEF SaveRecords
  <2> HIDE DEF new
  <2>3. saves' \in [Savers -> SaveRecords] /\ \A u \in Savers : saves'[u] = IF u = s THEN new ELSE saves[u]
    BY <2>1, <2>2 DEF SettingsInv
  <2>4. Settings!Config' = Settings!Config
    BY <2>1 DEF Settings!Config
  <2>5. Settings!Saving' = Settings!Saving \cup {s}
    BY <2>2, <2>3 DEF Settings!Saving
  <2>6. ASSUME ~collided'
        PROVE  /\ \A u, v \in Settings!Saving' : u = v
               /\ \A u \in Settings!Saving' : saves'[u].read.key = hasKey'
               /\ Settings!Config'.key = hasKey'
    <3>1. ~collided /\ Settings!Saving = {}
      BY <2>1, <2>6 DEF SettingsInv
    <3>2. \A u \in Savers : saves[u].pc # "write"
      BY <3>1 DEF Settings!Saving
    <3>3. Settings!Config.key = hasKey
      BY <3>1, <3>2 DEF SettingsInv
    <3>4. QED BY <2>1, <2>2, <2>3, <2>4, <2>5, <3>1, <3>3
  <2>7. file' \in {Settings!Nothing} \cup SettingRecords /\ hasKey' \in BOOLEAN /\ collided' \in BOOLEAN
    BY <2>1 DEF SettingsInv
  <2>8. QED BY <2>3, <2>6, <2>7 DEF SettingsInv
<1>3. ASSUME NEW s \in Savers, Settings!Truncate(s) PROVE SettingsInv'
  <2>1. /\ saves[s].pc = "read" /\ file' = Settings!Nothing /\ saves' = [saves EXCEPT ![s].pc = "write"]
        /\ hasKey' = hasKey /\ collided' = collided
    BY <1>3 DEF Settings!Truncate
  <2> DEFINE new == [saves[s] EXCEPT !.pc = "write"]
  <2>2. new \in SaveRecords /\ new.pc = "write" /\ new.read = saves[s].read
    BY <1>t DEF SaveRecords
  <2>3. saves' = [saves EXCEPT ![s] = new]
    BY <2>1
  <2> HIDE DEF new
  <2>4. saves' \in [Savers -> SaveRecords] /\ \A u \in Savers : saves'[u] = IF u = s THEN new ELSE saves[u]
    BY <2>2, <2>3 DEF SettingsInv
  <2>5. Settings!Saving' = Settings!Saving
    BY <2>1, <2>2, <2>4 DEF Settings!Saving
  <2>6. \A u \in Savers : saves'[u].read = saves[u].read
    BY <2>2, <2>4
  <2>7. Settings!Saving \subseteq Savers
    BY DEF Settings!Saving
  <2>8. saves'[s].pc = "write"
    BY <2>2, <2>4
  <2>9. QED BY <2>1, <2>4, <2>5, <2>6, <2>7, <2>8 DEF SettingsInv
<1>4. ASSUME NEW s \in Savers, Settings!Write(s) PROVE SettingsInv'
  <2> DEFINE new == [provider |-> "http", key |-> Settings!NextKey(saves[s]), infer |-> saves[s].infer]
             idle == [Settings!Idle EXCEPT !.pc = "done"]
  <2>1. /\ saves[s].pc = "write" /\ file' = new /\ saves' = [saves EXCEPT ![s] = idle]
        /\ hasKey' = IF saves[s].key = "keep" THEN hasKey ELSE saves[s].key = "set"
        /\ collided' = collided
    BY <1>4 DEF Settings!Write
  <2>2. saves[s].read \in SettingRecords /\ saves[s].infer \in BOOLEAN
    BY <1>t DEF SaveRecords
  <2>3. /\ Settings!NextKey(saves[s]) \in BOOLEAN
        /\ Settings!NextKey(saves[s]) = IF saves[s].key = "keep" THEN saves[s].read.key ELSE saves[s].key = "set"
    BY <2>2 DEF Settings!NextKey, SettingRecords
  <2>4. new \in SettingRecords /\ new.key = Settings!NextKey(saves[s])
    BY <2>2, <2>3 DEF SettingRecords
  <2>5. new # Settings!Nothing
    BY <2>4 DEF Settings!Nothing, SettingRecords
  <2>6. idle \in SaveRecords /\ idle.pc = "done"
    BY DEF Settings!Idle, Settings!Default, SaveRecords, SettingRecords
  <2> HIDE DEF new, idle
  <2>7. saves' \in [Savers -> SaveRecords] /\ \A u \in Savers : saves'[u] = IF u = s THEN idle ELSE saves[u]
    BY <2>1, <2>6 DEF SettingsInv
  <2>8. Settings!Config' = new
    BY <2>1, <2>5 DEF Settings!Config
  <2>9. Settings!Saving' = Settings!Saving \ {s} /\ s \in Settings!Saving
    BY <2>1, <2>6, <2>7 DEF Settings!Saving
  <2>10. ASSUME ~collided' PROVE Settings!Saving' = {} /\ Settings!Config'.key = hasKey'
    <3>1. saves[s].read.key = hasKey /\ \A u \in Settings!Saving : u = s
      BY <2>1, <2>9, <2>10 DEF SettingsInv
    <3>2. QED BY <2>1, <2>3, <2>4, <2>8, <2>9, <3>1
  <2>11. hasKey' \in BOOLEAN /\ collided' \in BOOLEAN
    BY <2>1 DEF SettingsInv
  <2>12. QED BY <2>1, <2>4, <2>7, <2>10, <2>11 DEF SettingsInv
<1>5. CASE UNCHANGED Settings!vars
  BY <1>1, <1>5 DEF Settings!vars
<1>6. ASSUME NEW asked \in BOOLEAN, NEW f \in {<<>>}, Settings!Analyze(asked, f) PROVE SettingsInv'
  BY <1>1, <1>6 DEF Settings!Analyze
<1>7. CASE Settings!Enrich
  BY <1>1, <1>7 DEF Settings!Enrich
<1>8. ASSUME NEW id \in DOMAIN threads,
             Settings!Running(id) \/ Settings!Call(id) \/ Settings!EndInference(id) \/ Settings!EndEnrichment(id)
      PROVE  SettingsInv'
  BY <1>1, <1>8 DEF Settings!Running, Settings!Call, Settings!EndInference, Settings!EndEnrichment, Settings!End,
                    Settings!Still
<1>9. QED BY <1>2, <1>3, <1>4, <1>5, <1>6, <1>7, <1>8 DEF Settings!Next

\* For any tables, fragments, sizes of the table of jobs and answers of the
\* model: a job is forgotten only for newer ones, what comes out of an answer
\* are tables of the script and one table for a column, and the key in the
\* settings is what the saves made of it: lineage_ai.
THEOREM AnswersStayGuarded == CatalogSpec => []AnswersAreGuarded
<1> DEFINE Inv == (part \in DOMAIN Loads => AnswersInv) /\ (part = "settings" => SettingsInv)
<1>1. CatalogInit => Inv
  BY CatalogInitOfPart, AnswersAtInit, SettingsAtInit
<1>2. Inv /\ [CatalogNext]_vars => Inv'
  BY CatalogStepOfPart, AnswersStep, SettingsStep
<1>3. Inv => AnswersAreGuarded
  <2>1. SettingsInv => Settings!KeyIsKept
    BY DEF SettingsInv, Settings!KeyIsKept
  <2>2. QED BY <2>1, LostMeansOlder, GuardedMeansGuarded DEF AnswersAreGuarded
<1>4. QED BY <1>1, <1>2, <1>3, PTL DEF CatalogSpec

=============================================================================
