------------------------- MODULE QueryRuntimeProofs -------------------------
(***************************************************************************)
(* Proofs about QueryRuntime, for any number of queries, users, workers    *)
(* and pollers and any limit.  QueryInv is the inductive invariant: where  *)
(* a query is (in the request's hands, once in the queue, with one worker) *)
(* determines its status, and the queries that hold a slot are counted.    *)
(***************************************************************************)
EXTENDS QueryRuntime, FiniteSetTheorems, SequenceTheorems, TLAPS

\* A query is queued once or with one worker, and only after its request
\* submitted it.
QueuedOnce == \A i, j \in 1..Len(queue) : queue[i] = queue[j] => i = j
PlaceInv ==
  /\ QueuedOnce
  /\ \A w, v \in Workers : wq[w] = wq[v] /\ wq[w] # None => w = v
  /\ \A w \in Workers : /\ wpc[w] = "idle" <=> wq[w] = None
                        /\ ~Queued(wq[w])
  /\ \A q \in Queries : spc[q] \in {"idle", "rejected", "register", "submit"} =>
                          ~Queued(q) /\ \A w \in Workers : wq[w] # q

\* What a query is, where it is.
Fresh(q)   == status[q] = None /\ ~cancelRequested[q]
Pending(q) == status[q] = "pending"
Where(w) ==
  LET q == wq[w] IN
  /\ wpc[w] = "begin" => Pending(q)
  /\ wpc[w] \in {"execute", "finish"} => status[q] = "running"
  /\ wpc[w] = "write" => status[q] \in {"success", "failed"} /\ ~finalized[q]
  /\ wpc[w] = "exit" => status[q] \in Ended
StageInv ==
  /\ \A q \in Queries :
       /\ spc[q] \in {"idle", "rejected", "register"} => Fresh(q)
       /\ spc[q] = "submit" \/ Queued(q) => Pending(q)
       /\ InProgress(q) \/ Fresh(q) => timer[q] # "cancelled"
  /\ \A w \in Workers : Where(w)

\* What a status says of the rest of the execution.
OutcomeInv ==
  \A q \in Queries :
    /\ finalized[q] => status[q] \in Ended
    /\ result[q] # None => status[q] \in {"success", "failed"}
    /\ status[q] \in {"success", "failed"} => ~cancelRequested[q]
    /\ cancelRequested[q] => cancelReason[q] # ""

\* The queries a slot is taken for.
HasSlot(q) == InProgress(q) \/ DroppedInQueue(q)
Holding(k) == {q \in Queries : key[q] = k /\ HasSlot(q)}
SlotInv ==
  \A k \in Keys : /\ IsFiniteSet(Holding(k)) /\ inFlight[k] = Cardinality(Holding(k))
                  /\ Enforce => inFlight[k] <= Limit

QueryInv == TypeOK /\ PlaceInv /\ StageInv /\ OutcomeInv /\ SlotInv

-----------------------------------------------------------------------------
(* The type of every variable, in three parts.                             *)

SlotType ==
  /\ key \in [Queries -> Keys] /\ inFlight \in [Keys -> Nat]
  /\ spc \in [Queries -> {"idle", "rejected", "register", "submit", "timer", "wait", "answered"}]
  /\ registered \in SUBSET Queries
  /\ timer \in [Queries -> {"new", "armed", "fired", "cancelled"}]
ExecutionType ==
  /\ status \in [Queries -> {None} \cup Live \cup Ended]
  /\ cancelRequested \in [Queries -> BOOLEAN]
  /\ cancelReason \in [Queries -> {"", "user", "timeout"}]
  /\ finalized \in [Queries -> BOOLEAN]
  /\ result \in [Queries -> {None} \cup Outcomes]
ThreadType ==
  /\ queue \in Seq(Queries)
  /\ wpc \in [Workers -> {"idle", "begin", "execute", "finish", "write", "exit"}]
  /\ wq \in [Workers -> Queries \cup {None}]
  /\ got \in [Workers -> {None} \cup Outcomes]
  /\ lock \in Workers \cup {None}
RecordType ==
  /\ historyCtx \in [Queries -> BOOLEAN] /\ alreadyHistory \in [Queries -> BOOLEAN]
  /\ history \in [Queries -> Seq(Ended \cup Outcomes)]
  /\ ppc \in [Pollers -> {"idle", "read", "mark", "append"}]
  /\ pq \in [Pollers -> Queries \cup {None}]

\* The three parts and the record of polls are TypeOK.
LEMMA TypeParts == TypeOK <=> SlotType /\ ExecutionType /\ ThreadType /\ RecordType
  BY DEF TypeOK, SlotType, ExecutionType, ThreadType, RecordType

\* Each part of the type is kept by every step.
LEMMA SlotTypeStep == SlotType /\ [Next]_vars => SlotType'
<1> SUFFICES ASSUME SlotType, [Next]_vars PROVE SlotType'
  OBVIOUS
<1> USE DEF SlotType, slots
<1>1. CASE UNCHANGED <<key, inFlight, spc, registered, timer>>
  BY <1>1
<1>2. ASSUME NEW q \in Queries, Acquire(q) PROVE SlotType'
  <2>1. key[q] \in Keys /\ inFlight[key[q]] + 1 \in Nat
    OBVIOUS
  <2>2. inFlight' \in [Keys -> Nat]
    BY <1>2, <2>1 DEF Acquire
  <2>3. QED BY <1>2, <2>2 DEF Acquire
<1>3. ASSUME NEW q \in Queries, Request(q) PROVE SlotType'
  <2>1. registered' \in SUBSET Queries
    BY <1>3 DEF Request, RegisterExecution, Submit, StartTimer, Answer
  <2>2. timer' \in [Queries -> {"new", "armed", "fired", "cancelled"}]
    BY <1>3 DEF Request, RegisterExecution, Submit, StartTimer, Answer
  <2>3. QED
    BY <1>3, <2>1, <2>2 DEF Request, RegisterExecution, Submit, StartTimer, Answer
<1>4. ASSUME NEW q \in Queries, OnTimeout(q) PROVE SlotType'
  BY <1>4 DEF OnTimeout
<1>5. ASSUME NEW w \in Workers, Exit(w) PROVE SlotType'
  <2>1. \A n \in Nat : Released(n) \in Nat
    BY SMT DEF Released
  <2>2. inFlight' \in [Keys -> Nat]
    BY <1>5, <2>1 DEF Exit
  <2>3. QED BY <1>5, <2>2 DEF Exit
<1>6. QED
  BY <1>1, <1>2, <1>3, <1>4, <1>5 DEF Next, RequestCancel, Work, Take, Begin, Execute, Finish,
     WriteResult, PollFind, PollStatus, PollMark, PollAppend, vars

\* The worker writes only to a query, which ThreadType says.
LEMMA ExecutionTypeStep == ExecutionType /\ ThreadType /\ [Next]_vars => ExecutionType'
<1> SUFFICES ASSUME ExecutionType, ThreadType, [Next]_vars PROVE ExecutionType'
  OBVIOUS
<1> USE DEF ExecutionType, execution, Live, Ended
<1>1. CASE UNCHANGED execution
  BY <1>1
<1>2. ASSUME NEW q \in Queries, NEW why \in {"user", "timeout"}, Cancels(q, why),
             UNCHANGED <<status, finalized, result>>
      PROVE  ExecutionType'
  BY <1>2 DEF Cancels
<1>3. ASSUME NEW q \in Queries, RegisterExecution(q) PROVE ExecutionType'
  BY <1>3 DEF RegisterExecution
<1>4. ASSUME NEW w \in Workers, Begin(w) \/ Finish(w) PROVE ExecutionType'
  <2>1. PICK s \in {"running", "cancelled", "success", "failed"} :
          status' = [status EXCEPT ![wq[w]] = s]
    BY <1>4 DEF Begin, Finish, EndStatus
  <2>2. UNCHANGED <<cancelRequested, cancelReason, result>>
        /\ (finalized' = finalized \/ finalized' = [finalized EXCEPT ![wq[w]] = TRUE])
    BY <1>4 DEF Begin, Finish
  <2>3. QED BY <2>1, <2>2
<1>5. ASSUME NEW w \in Workers, WriteResult(w) PROVE ExecutionType'
  BY <1>5 DEF WriteResult, ThreadType
<1>6. QED
  BY <1>1, <1>2, <1>3, <1>4, <1>5 DEF Next, Acquire, Request, Submit, StartTimer, Answer,
     RequestCancel, OnTimeout, Work, Take, Execute, Exit, PollFind, PollStatus, PollMark,
     PollAppend, vars

\* What a worker takes from the queue is a query.
LEMMA ThreadTypeStep == ThreadType /\ [Next]_vars => ThreadType'
<1> SUFFICES ASSUME ThreadType, [Next]_vars PROVE ThreadType'
  OBVIOUS
<1> USE DEF ThreadType, threads, Goto
<1>1. CASE UNCHANGED threads
  BY <1>1
<1>2. ASSUME NEW q \in Queries, Submit(q) PROVE ThreadType'
  BY <1>2 DEF Submit
<1>3. ASSUME NEW w \in Workers, Take(w) PROVE ThreadType'
  <2>1. Head(queue) \in Queries /\ Tail(queue) \in Seq(Queries)
    BY <1>3, HeadTailProperties DEF Take
  <2>2. QED BY <1>3, <2>1 DEF Take
<1>4. ASSUME NEW w \in Workers, Begin(w) PROVE ThreadType'
  <2>1. PICK to \in {"idle", "execute"} : wpc' = [wpc EXCEPT ![w] = to]
    BY <1>4 DEF Begin
  <2>2. UNCHANGED <<queue, got, lock>> /\ (wq' = wq \/ wq' = [wq EXCEPT ![w] = None])
    BY <1>4 DEF Begin
  <2>3. QED BY <2>1, <2>2
<1>5. ASSUME NEW w \in Workers, Execute(w) \/ WriteResult(w) \/ Exit(w) PROVE ThreadType'
  BY <1>5 DEF Execute, WriteResult, Exit
<1>6. ASSUME NEW w \in Workers, Finish(w) PROVE ThreadType'
  <2>1. PICK to \in {"exit", "write"} : wpc' = [wpc EXCEPT ![w] = to]
    BY <1>6 DEF Finish
  <2>2. UNCHANGED <<queue, wq, got>> /\ lock' \in {lock, w}
    BY <1>6 DEF Finish
  <2>3. QED BY <2>1, <2>2
<1>7. QED
  BY <1>1, <1>2, <1>3, <1>4, <1>5, <1>6 DEF Next, Acquire, Request, RegisterExecution, StartTimer,
     Answer, RequestCancel, OnTimeout, Work, PollFind, PollStatus, PollMark, PollAppend, vars

\* An entry of the history is an outcome or the way the query ended.
LEMMA RecordTypeStep == RecordType /\ ExecutionType /\ [Next]_vars => RecordType'
<1> SUFFICES ASSUME RecordType, ExecutionType, [Next]_vars PROVE RecordType'
  OBVIOUS
<1> USE DEF RecordType, recording
<1>1. CASE UNCHANGED recording
  BY <1>1
<1>2. ASSUME NEW q, history' = [history EXCEPT ![q] = Append(@, Entry(q))]
      PROVE  history' \in [Queries -> Seq(Ended \cup Outcomes)]
  <2>1. CASE q \in Queries
    <3>1. Entry(q) \in Ended \cup Outcomes
      BY <2>1 DEF Entry, Ended, ExecutionType
    <3>2. QED BY <1>2, <2>1, <3>1
  <2>2. CASE q \notin Queries
    BY <1>2, <2>2
  <2>3. QED BY <2>1, <2>2
<1>3. ASSUME NEW q \in Queries, Answer(q) PROVE RecordType'
  <2>1. history' \in [Queries -> Seq(Ended \cup Outcomes)]
    BY <1>2, <1>3 DEF Answer
  <2>2. QED BY <1>3, <2>1 DEF Answer
<1>4. ASSUME NEW p \in Pollers, NEW q \in Queries, PollFind(p, q) PROVE RecordType'
  BY <1>4 DEF PollFind
<1>5. ASSUME NEW p \in Pollers, PollStatus(p) PROVE RecordType'
  BY <1>5 DEF PollStatus
<1>6. ASSUME NEW p \in Pollers, PollMark(p) PROVE RecordType'
  BY <1>6 DEF PollMark
<1>7. ASSUME NEW p \in Pollers, PollAppend(p) PROVE RecordType'
  <2>1. history' \in [Queries -> Seq(Ended \cup Outcomes)]
    BY <1>2, <1>7 DEF PollAppend
  <2>2. QED BY <1>7, <2>1 DEF PollAppend
<1>8. QED
  BY <1>1, <1>3, <1>4, <1>5, <1>6, <1>7 DEF Next, Acquire, Request, RegisterExecution, Submit,
     StartTimer, RequestCancel, OnTimeout, Work, Take, Begin, Execute, Finish, WriteResult, Exit, vars

\* TypeOK is kept by every step.
LEMMA QueryTypeStep == TypeOK /\ [Next]_vars => TypeOK'
  BY TypeParts, SlotTypeStep, ExecutionTypeStep, ThreadTypeStep, RecordTypeStep
     DEF TypeOK, SlotType, ExecutionType, ThreadType, RecordType

\* At the start nothing is queued, held or counted.
LEMMA QueryInit == Init => QueryInv
<1> SUFFICES ASSUME Init PROVE QueryInv
  OBVIOUS
<1>1. TypeOK
  <2>1. <<>> \in Seq(Queries) /\ <<>> \in Seq(Ended \cup Outcomes)
    OBVIOUS
  <2>2. SlotType
    BY DEF Init, SlotType
  <2>3. ExecutionType
    BY DEF Init, ExecutionType
  <2>4. ThreadType
    BY <2>1 DEF Init, ThreadType
  <2>5. RecordType
    BY <2>1 DEF Init, RecordType
  <2>6. QED BY <2>2, <2>3, <2>4, <2>5, TypeParts
<1>2. /\ queue = <<>> /\ \A w \in Workers : wpc[w] = "idle" /\ wq[w] = None
      /\ \A k \in Keys : inFlight[k] = 0
      /\ \A q \in Queries : /\ spc[q] = "idle" /\ status[q] = None /\ ~cancelRequested[q]
                             /\ ~finalized[q] /\ result[q] = None /\ timer[q] = "new"
  BY DEF Init
<1>3. ASSUME NEW q PROVE ~Queued(q)
  <2>1. 1..Len(queue) = {}
    BY <1>2
  <2>2. QED BY <2>1 DEF Queued
<1>4. PlaceInv
  <2>1. 1..Len(queue) = {}
    BY <1>2
  <2>2. QED BY <1>2, <1>3, <2>1, NoneAssumption DEF PlaceInv, QueuedOnce
<1>5. StageInv
  BY <1>2, <1>3 DEF StageInv, Fresh, Pending, Where
<1>6. OutcomeInv
  BY <1>2 DEF OutcomeInv
<1>7. SlotInv
  <2>1. \A q \in Queries : ~InProgress(q)
    BY <1>2, <1>3, NoneAssumption DEF InProgress, With
  <2>2. \A q \in Queries : ~DroppedInQueue(q)
    BY <1>2 DEF DroppedInQueue, None
  <2>3. ASSUME NEW k \in Keys
        PROVE  /\ IsFiniteSet(Holding(k)) /\ inFlight[k] = Cardinality(Holding(k))
               /\ inFlight[k] <= Limit
    <3>1. Holding(k) = {} /\ inFlight[k] = 0
      BY <1>2, <2>1, <2>2 DEF Holding, HasSlot
    <3>2. 0 <= Limit
      BY LimitAssumption, SMT
    <3>3. QED BY <3>1, <3>2, FS_EmptySet
  <2>4. QED BY <2>3 DEF SlotInv
<1>8. QED BY <1>1, <1>4, <1>5, <1>6, <1>7 DEF QueryInv

-----------------------------------------------------------------------------
(* Where a query is.                                                       *)

\* Only queries are queued.
LEMMA QueuedIsQuery == ASSUME TypeOK, NEW q, Queued(q) PROVE q \in Queries /\ q # None
<1>1. PICK i \in 1..Len(queue) : queue[i] = q
  BY DEF Queued
<1>2. queue[i] \in Queries
  BY <1>1, ElementOfSeq DEF TypeOK
<1>3. QED BY <1>1, <1>2, NoneAssumption

\* A query submitted once is queued once.
LEMMA QueueGrows ==
  ASSUME TypeOK, QueuedOnce, NEW q \in Queries, ~Queued(q), queue' = Append(queue, q)
  PROVE  QueuedOnce' /\ \A r : Queued(r)' <=> Queued(r) \/ r = q
<1>0. queue \in Seq(Queries)
  BY DEF TypeOK
<1>1. /\ Len(queue') = Len(queue) + 1 /\ Len(queue) \in Nat
      /\ \A i \in 1..Len(queue) : queue'[i] = queue[i]
      /\ queue'[Len(queue) + 1] = q
  BY <1>0
<1>2. 1..Len(queue') = 1..Len(queue) \cup {Len(queue) + 1}
  BY <1>1
<1>3. QueuedOnce'
  BY <1>1, <1>2 DEF QueuedOnce, Queued
<1>4. \A r : Queued(r)' <=> Queued(r) \/ r = q
  BY <1>1, <1>2 DEF Queued
<1>5. QED BY <1>3, <1>4

\* The query at the head leaves the queue altogether.
LEMMA QueueShrinks ==
  ASSUME TypeOK, QueuedOnce, queue # <<>>, queue' = Tail(queue)
  PROVE  /\ QueuedOnce' /\ Queued(Head(queue))
         /\ \A r : Queued(r)' <=> Queued(r) /\ r # Head(queue)
<1>0. queue \in Seq(Queries)
  BY DEF TypeOK
<1>1. /\ Len(queue) \in Nat \ {0} /\ Len(queue') = Len(queue) - 1
      /\ Head(queue) = queue[1]
      /\ \A i \in 1..Len(queue') : queue'[i] = queue[i + 1]
  BY <1>0, EmptySeq, HeadTailProperties
<1>2. QueuedOnce'
  BY <1>1 DEF QueuedOnce
<1>3. Queued(Head(queue))
  BY <1>1 DEF Queued
<1>4. ASSUME NEW r, Queued(r)' PROVE Queued(r) /\ r # Head(queue)
  <2>1. PICK i \in 1..Len(queue') : queue'[i] = r
    BY <1>4 DEF Queued
  <2>2. i + 1 \in 1..Len(queue) /\ queue[i + 1] = r /\ i + 1 # 1 /\ 1 \in 1..Len(queue)
    BY <1>1, <2>1
  <2>3. QED BY <1>1, <2>2 DEF Queued, QueuedOnce
<1>5. ASSUME NEW r, Queued(r), r # Head(queue) PROVE Queued(r)'
  <2>1. PICK i \in 1..Len(queue) : queue[i] = r
    BY <1>5 DEF Queued
  <2>2. i - 1 \in 1..Len(queue') /\ queue'[i - 1] = r
    BY <1>1, <1>5, <2>1
  <2>3. QED BY <2>2 DEF Queued
<1>6. QED BY <1>2, <1>3, <1>4, <1>5

\* The steps that leave every query where it is.
LEMMA PlaceSame ==
  ASSUME PlaceInv, UNCHANGED <<queue, wq>>,
         \A w \in Workers : wpc'[w] = "idle" <=> wpc[w] = "idle",
         \A q \in Queries : spc'[q] \in {"idle", "rejected", "register", "submit"} =>
                            spc[q] \in {"idle", "rejected", "register", "submit"}
  PROVE  PlaceInv'
<1>1. \A q : Queued(q)' <=> Queued(q)
  BY DEF Queued
<1>2. QED BY <1>1 DEF PlaceInv, QueuedOnce

\* Every step keeps each query in one place.
LEMMA PlaceStep == TypeOK /\ PlaceInv /\ [Next]_vars => PlaceInv'
<1> SUFFICES ASSUME TypeOK, PlaceInv, [Next]_vars PROVE PlaceInv'
  OBVIOUS
<1>t. /\ spc \in [Queries -> {"idle", "rejected", "register", "submit", "timer", "wait", "answered"}]
      /\ wpc \in [Workers -> {"idle", "begin", "execute", "finish", "write", "exit"}]
      /\ wq \in [Workers -> Queries \cup {None}] /\ queue \in Seq(Queries)
  BY DEF TypeOK
<1>n. ~Queued(None)
  BY QueuedIsQuery
<1> USE DEF Goto
<1>1. CASE UNCHANGED <<queue, wpc, wq, spc>>
  BY <1>1, PlaceSame
<1>2. ASSUME NEW q \in Queries, Acquire(q) \/ RegisterExecution(q) \/ StartTimer(q) \/ Answer(q)
      PROVE  PlaceInv'
  <2>1. UNCHANGED <<queue, wpc, wq>>
        /\ \E s \in {"rejected", "register", "submit", "wait", "answered"} :
             /\ spc' = [spc EXCEPT ![q] = s]
             /\ spc[q] \in {"idle", "register"} \/ s \in {"wait", "answered"}
    BY <1>2 DEF Acquire, RegisterExecution, StartTimer, Answer, threads
  <2>2. QED BY <1>t, <2>1, PlaceSame
<1>3. ASSUME NEW q \in Queries, Submit(q) PROVE PlaceInv'
  <2>1. /\ queue' = Append(queue, q) /\ spc' = [spc EXCEPT ![q] = "timer"] /\ spc[q] = "submit"
        /\ UNCHANGED <<wpc, wq>>
    BY <1>3 DEF Submit
  <2>2. ~Queued(q) /\ \A w \in Workers : wq[w] # q
    BY <2>1 DEF PlaceInv
  <2>3. QueuedOnce' /\ \A r : Queued(r)' <=> Queued(r) \/ r = q
    BY <2>1, <2>2, QueueGrows DEF PlaceInv
  <2>4. \A r \in Queries : spc'[r] = IF r = q THEN "timer" ELSE spc[r]
    BY <1>t, <2>1
  <2>5. QED BY <2>1, <2>2, <2>3, <2>4 DEF PlaceInv
<1>4. ASSUME NEW w \in Workers, Take(w) PROVE PlaceInv'
  <2>1. /\ queue # <<>> /\ queue' = Tail(queue) /\ wq' = [wq EXCEPT ![w] = Head(queue)]
        /\ wpc' = [wpc EXCEPT ![w] = "begin"] /\ UNCHANGED spc
    BY <1>4 DEF Take
  <2>2. QueuedOnce' /\ Queued(Head(queue)) /\ \A r : Queued(r)' <=> Queued(r) /\ r # Head(queue)
    BY <2>1, QueueShrinks DEF PlaceInv
  <2>3. Head(queue) # None /\ Head(queue) \in Queries
    BY <2>2, QueuedIsQuery
  <2>4. \A v \in Workers : /\ wq'[v] = IF v = w THEN Head(queue) ELSE wq[v]
                           /\ wpc'[v] = IF v = w THEN "begin" ELSE wpc[v]
    BY <1>t, <2>1
  <2>5. \A v \in Workers : wq[v] # Head(queue)
    BY <2>2 DEF PlaceInv
  <2>6. \A q \in Queries : spc'[q] \in {"idle", "rejected", "register", "submit"} =>
                             ~Queued(q)' /\ \A v \in Workers : wq'[v] # q
    BY <2>1, <2>2, <2>4 DEF PlaceInv
  <2>7. QED BY <2>2, <2>3, <2>4, <2>5, <2>6 DEF PlaceInv
<1>5. ASSUME NEW w \in Workers, wpc' = [wpc EXCEPT ![w] = "idle"], wq' = [wq EXCEPT ![w] = None],
             UNCHANGED <<queue, spc>>
      PROVE  PlaceInv'
  <2>1. \A v \in Workers : /\ wq'[v] = IF v = w THEN None ELSE wq[v]
                           /\ wpc'[v] = IF v = w THEN "idle" ELSE wpc[v]
    BY <1>t, <1>5
  <2>2. \A q : Queued(q)' <=> Queued(q)
    BY <1>5 DEF Queued
  <2>3. QED BY <1>n, <1>5, <2>1, <2>2, NoneAssumption DEF PlaceInv, QueuedOnce
<1>6. ASSUME NEW w \in Workers, NEW to \in {"execute", "finish", "write", "exit"}, wpc[w] # "idle",
             wpc' = [wpc EXCEPT ![w] = to], UNCHANGED <<queue, wq, spc>>
      PROVE  PlaceInv'
  BY <1>t, <1>6, PlaceSame
<1>7. ASSUME NEW w \in Workers, Begin(w) \/ Execute(w) \/ Finish(w) \/ WriteResult(w) \/ Exit(w)
      PROVE  PlaceInv'
  BY <1>5, <1>6, <1>7 DEF Begin, Execute, Finish, WriteResult, Exit
<1>8. QED
  BY <1>1, <1>2, <1>3, <1>4, <1>7 DEF Next, Request, RequestCancel, OnTimeout, Work, PollFind,
     PollStatus, PollMark, PollAppend, vars, threads

-----------------------------------------------------------------------------
(* Which queries are in progress.                                          *)

\* InProgress, with its parts spelled out.
LEMMA InProgressMeans ==
  ASSUME NEW q
  PROVE  InProgress(q) <=> \/ spc[q] \in {"register", "submit"} \/ Queued(q)
                           \/ \E w \in Workers : wq[w] = q
  BY DEF InProgress, With

\* The request, a cancel and the timer move a query on but do not end it.
LEMMA RequestMovesOn ==
  ASSUME TypeOK, PlaceInv, NEW q \in Queries,
         Request(q) \/ RequestCancel(q) \/ OnTimeout(q), NEW r \in Queries
  PROVE  InProgress(r)' <=> InProgress(r)
<1>t. spc \in [Queries -> {"idle", "rejected", "register", "submit", "timer", "wait", "answered"}]
  BY DEF TypeOK
<1>1. CASE Submit(q)
  <2>1. /\ queue' = Append(queue, q) /\ spc' = [spc EXCEPT ![q] = "timer"] /\ spc[q] = "submit"
        /\ UNCHANGED wq
    BY <1>1 DEF Submit
  <2>2. \A s : Queued(s)' <=> Queued(s) \/ s = q
    BY <2>1, QueueGrows DEF PlaceInv
  <2>3. spc'[r] = IF r = q THEN "timer" ELSE spc[r]
    BY <1>t, <2>1
  <2>4. QED BY <2>1, <2>2, <2>3 DEF InProgress, With
<1>2. CASE RegisterExecution(q) \/ StartTimer(q) \/ Answer(q) \/ RequestCancel(q) \/ OnTimeout(q)
  <2>1. UNCHANGED <<queue, wq>>
    BY <1>2 DEF RegisterExecution, StartTimer, Answer, RequestCancel, OnTimeout, threads
  <2>2. spc'[r] \in {"register", "submit"} <=> spc[r] \in {"register", "submit"}
    BY <1>t, <1>2 DEF RegisterExecution, StartTimer, Answer, RequestCancel, OnTimeout
  <2>3. Queued(r)' <=> Queued(r)
    BY <2>1 DEF Queued
  <2>4. QED BY <2>1, <2>2, <2>3 DEF InProgress, With
<1>3. QED BY <1>1, <1>2 DEF Request

\* A worker that takes a query, or goes on with it, keeps it in progress.
LEMMA WorkMovesOn ==
  ASSUME TypeOK, PlaceInv, NEW w \in Workers, UNCHANGED spc,
         Take(w) \/ UNCHANGED <<queue, wq>>, NEW r \in Queries
  PROVE  InProgress(r)' <=> InProgress(r)
<1>1. CASE Take(w)
  <2>0. wq \in [Workers -> Queries \cup {None}]
    BY DEF TypeOK
  <2>1. /\ queue # <<>> /\ queue' = Tail(queue) /\ wq' = [wq EXCEPT ![w] = Head(queue)]
        /\ wq[w] = None
    BY <1>1 DEF Take, PlaceInv
  <2>2. Queued(Head(queue)) /\ \A s : Queued(s)' <=> Queued(s) /\ s # Head(queue)
    BY <2>1, QueueShrinks DEF PlaceInv
  <2>3. \A v \in Workers : wq'[v] = IF v = w THEN Head(queue) ELSE wq[v]
    BY <2>0, <2>1
  <2>4. r # None
    BY NoneAssumption
  <2>5. QED BY <2>1, <2>2, <2>3, <2>4 DEF InProgress, With
<1>2. CASE UNCHANGED <<queue, wq>>
  BY <1>2 DEF InProgress, With, Queued
<1>3. QED BY <1>1, <1>2

\* The worker that lets go of a query ends its progress, and no other.
LEMMA WorkLeaves ==
  ASSUME TypeOK, PlaceInv, NEW w \in Workers, wpc[w] # "idle", wq' = [wq EXCEPT ![w] = None],
         UNCHANGED <<queue, spc>>, NEW r \in Queries
  PROVE  InProgress(r)' <=> InProgress(r) /\ r # wq[w]
<1>0. wq \in [Workers -> Queries \cup {None}]
  BY DEF TypeOK
<1>1. \A v \in Workers : wq'[v] = IF v = w THEN None ELSE wq[v]
  BY <1>0
<1>2. wq[w] \in Queries /\ ~Queued(wq[w]) /\ spc[wq[w]] \notin {"register", "submit"}
      /\ \A v \in Workers \ {w} : wq[v] # wq[w]
  BY <1>0 DEF PlaceInv
<1>3. r # None /\ (Queued(r)' <=> Queued(r))
  BY NoneAssumption DEF Queued
<1>4. QED BY <1>1, <1>2, <1>3 DEF InProgress, With

\* A request enters the query it was given a slot for, which was not in progress.
LEMMA RequestEnters ==
  ASSUME TypeOK, PlaceInv, NEW q \in Queries, spc[q] = "idle", UNCHANGED <<queue, wq>>,
         NEW to \in {"register", "rejected"}, spc' = [spc EXCEPT ![q] = to], NEW r \in Queries
  PROVE  /\ InProgress(r)' <=> InProgress(r) \/ (r = q /\ to = "register")
         /\ ~InProgress(q)
<1>1. spc'[r] = IF r = q THEN to ELSE spc[r]
  BY DEF TypeOK
<1>2. Queued(r)' <=> Queued(r)
  BY DEF Queued
<1>3. ~Queued(q) /\ \A w \in Workers : wq[w] # q
  BY DEF PlaceInv
<1>4. QED BY <1>1, <1>2, <1>3 DEF InProgress, With

-----------------------------------------------------------------------------
(* What an execution says where it is.                                     *)

\* A worker ends a query as cancelled exactly if the cancel came before, and a
\* cancel comes only to a live query.
LEMMA OutcomeStep == TypeOK /\ PlaceInv /\ StageInv /\ OutcomeInv /\ [Next]_vars => OutcomeInv'
<1> SUFFICES ASSUME TypeOK, PlaceInv, StageInv, OutcomeInv, [Next]_vars, NEW r \in Queries
             PROVE  (/\ finalized[r] => status[r] \in Ended
                     /\ result[r] # None => status[r] \in {"success", "failed"}
                     /\ status[r] \in {"success", "failed"} => ~cancelRequested[r]
                     /\ cancelRequested[r] => cancelReason[r] # "")'
  BY DEF OutcomeInv
<1> DEFINE Fine == /\ finalized[r] => status[r] \in Ended
                   /\ result[r] # None => status[r] \in {"success", "failed"}
                   /\ status[r] \in {"success", "failed"} => ~cancelRequested[r]
                   /\ cancelRequested[r] => cancelReason[r] # ""
<1>0. Fine
  BY DEF OutcomeInv
<1>t. ExecutionType /\ ThreadType
  BY TypeParts
<1>1. CASE UNCHANGED execution
  BY <1>0, <1>1 DEF execution
<1>2. ASSUME NEW q \in Queries, RegisterExecution(q) PROVE Fine'
  <2>1. Fresh(q)
    BY <1>2 DEF RegisterExecution, StageInv
  <2>2. status'[r] = IF r = q THEN "pending" ELSE status[r]
    BY <1>2, <1>t DEF RegisterExecution, ExecutionType
  <2>3. UNCHANGED <<finalized, result, cancelRequested, cancelReason>>
    BY <1>2 DEF RegisterExecution
  <2>4. QED BY <1>0, <2>1, <2>2, <2>3 DEF Fresh, Ended, None
<1>3. ASSUME NEW q \in Queries, NEW why \in {"user", "timeout"}, Cancels(q, why),
             status[q] \in Live, UNCHANGED <<status, finalized, result>>
      PROVE  Fine'
  <2>1. /\ cancelRequested'[r] = IF r = q THEN TRUE ELSE cancelRequested[r]
        /\ cancelReason'[r] = IF r = q /\ cancelReason[r] = "" THEN why ELSE cancelReason[r]
    BY <1>3, <1>t DEF Cancels, ExecutionType
  <2>2. QED BY <1>0, <1>3, <2>1 DEF Live
<1>4. ASSUME NEW q \in Queries, RequestCancel(q) \/ OnTimeout(q) PROVE Fine'
  BY <1>1, <1>3, <1>4 DEF RequestCancel, OnTimeout, TimesOut, execution
<1>5. ASSUME NEW w \in Workers, Begin(w) PROVE Fine'
  <2> DEFINE q == wq[w]
  <2>1. q \in Queries /\ status[q] = "pending"
    BY <1>5, <1>t DEF Begin, StageInv, Where, Pending, PlaceInv, ThreadType
  <2>2. UNCHANGED <<result, cancelRequested, cancelReason>>
    BY <1>5 DEF Begin
  <2>3. CASE cancelRequested[q]
    <3>0. status' = [status EXCEPT ![q] = "cancelled"]
      BY <1>5, <2>3 DEF Begin
    <3>1. status'[r] = IF r = q THEN "cancelled" ELSE status[r]
      BY <1>t, <3>0 DEF ExecutionType
    <3>2. r # q => finalized'[r] = finalized[r]
      BY <1>5, <1>t, <2>3 DEF Begin, ExecutionType
    <3>3. QED BY <1>0, <2>1, <2>2, <3>1, <3>2 DEF Ended
  <2>4. CASE ~cancelRequested[q]
    <3>1. status'[r] = (IF r = q THEN "running" ELSE status[r]) /\ finalized' = finalized
      BY <1>5, <1>t, <2>4 DEF Begin, ExecutionType
    <3>2. QED BY <1>0, <2>1, <2>2, <3>1 DEF Ended
  <2>5. QED BY <2>3, <2>4
<1>6. ASSUME NEW w \in Workers, Finish(w) PROVE Fine'
  <2> DEFINE q == wq[w]
  <2>1. q \in Queries /\ status[q] = "running"
    BY <1>6, <1>t DEF Finish, StageInv, Where, PlaceInv, ThreadType
  <2>2. UNCHANGED <<result, cancelRequested, cancelReason>>
    BY <1>6 DEF Finish
  <2>3. CASE cancelRequested[q]
    <3>0. status' = [status EXCEPT ![q] = "cancelled"]
      BY <1>6, <2>3 DEF Finish, Discards
    <3>1. status'[r] = IF r = q THEN "cancelled" ELSE status[r]
      BY <1>t, <3>0 DEF ExecutionType
    <3>2. r # q => finalized'[r] = finalized[r]
      BY <1>6, <1>t, <2>3 DEF Finish, Discards, ExecutionType
    <3>3. QED BY <1>0, <2>1, <2>2, <3>1, <3>2 DEF Ended
  <2>4. CASE ~cancelRequested[q]
    <3>1. \E s \in {"success", "failed"} : status'[r] = IF r = q THEN s ELSE status[r]
      BY <1>6, <1>t, <2>4 DEF Finish, Discards, EndStatus, ExecutionType
    <3>2. finalized' = finalized
      BY <1>6, <2>4 DEF Finish, Discards
    <3>3. QED BY <1>0, <2>1, <2>2, <2>4, <3>1, <3>2 DEF Ended
  <2>5. QED BY <2>3, <2>4
<1>7. ASSUME NEW w \in Workers, WriteResult(w) PROVE Fine'
  <2> DEFINE q == wq[w]
  <2>1. q \in Queries /\ status[q] \in {"success", "failed"}
    BY <1>7, <1>t DEF WriteResult, StageInv, Where, PlaceInv, ThreadType
  <2>2. /\ UNCHANGED <<status, cancelRequested, cancelReason>>
        /\ r # q => result'[r] = result[r] /\ finalized'[r] = finalized[r]
    BY <1>7, <1>t DEF WriteResult, ExecutionType
  <2>3. QED BY <1>0, <2>1, <2>2 DEF Ended
<1>8. QED
  BY <1>1, <1>2, <1>4, <1>5, <1>6, <1>7 DEF Next, Acquire, Request, Submit, StartTimer, Answer,
     Work, Take, Execute, Exit, PollFind, PollStatus, PollMark, PollAppend, vars, execution

\* A step that changes nothing StageInv is about.
LEMMA StageSame ==
  ASSUME StageInv, UNCHANGED <<wpc, wq, execution>>,
         \A q \in Queries : /\ InProgress(q)' <=> InProgress(q)
                            /\ Queued(q)' => Queued(q)
                            /\ timer'[q] = "cancelled" => timer[q] = "cancelled"
                            /\ spc'[q] = spc[q] \/ spc'[q] \in {"wait", "answered"}
  PROVE  StageInv'
<1>1. \A q \in Queries : (/\ spc[q] \in {"idle", "rejected", "register"} => Fresh(q)
                          /\ spc[q] = "submit" \/ Queued(q) => Pending(q)
                          /\ InProgress(q) \/ Fresh(q) => timer[q] # "cancelled")'
  BY DEF StageInv, Fresh, Pending, execution
<1>2. \A w \in Workers : Where(w)'
  BY DEF StageInv, Where, Pending, execution
<1>3. QED BY <1>1, <1>2 DEF StageInv

\* A step of the worker of q that changes nothing but q's execution and
\* leaves nobody else's.
LEMMA StageWork ==
  ASSUME TypeOK, PlaceInv, StageInv, NEW w \in Workers, wpc[w] # "idle",
         UNCHANGED <<queue, spc, timer, cancelRequested>>,
         \A r \in Queries \ {wq[w]} : status'[r] = status[r] /\ finalized'[r] = finalized[r],
         status'[wq[w]] # None,
         \A v \in Workers \ {w} : wpc'[v] = wpc[v] /\ wq'[v] = wq[v],
         \A r \in Queries : InProgress(r)' => InProgress(r),
         Where(w)'
  PROVE  StageInv'
<1>t. wq \in [Workers -> Queries \cup {None}]
  BY DEF TypeOK
<1>q. /\ wq[w] \in Queries /\ ~Queued(wq[w])
      /\ spc[wq[w]] \notin {"idle", "rejected", "register", "submit"}
      /\ \A v \in Workers \ {w} : wq[v] # wq[w]
  BY <1>t DEF PlaceInv
<1>1. ASSUME NEW r \in Queries
      PROVE  (/\ spc[r] \in {"idle", "rejected", "register"} => Fresh(r)
              /\ spc[r] = "submit" \/ Queued(r) => Pending(r)
              /\ InProgress(r) \/ Fresh(r) => timer[r] # "cancelled")'
  <2>1. Queued(r)' <=> Queued(r)
    BY DEF Queued
  <2>2. CASE r = wq[w]
    <3>0. ~Queued(r) /\ spc[r] \notin {"idle", "rejected", "register", "submit"}
      BY <1>q, <2>2
    <3>1. ~Queued(r)' /\ spc'[r] \notin {"idle", "rejected", "register", "submit"}
      BY <2>1, <3>0
    <3>2. InProgress(r)' => timer'[r] # "cancelled"
      BY DEF StageInv
    <3>3. ~Fresh(r)'
      BY <2>2 DEF Fresh
    <3>4. QED BY <3>1, <3>2, <3>3
  <2>3. CASE r # wq[w]
    BY <2>1, <2>3 DEF StageInv, Fresh, Pending
  <2>4. QED BY <2>2, <2>3
<1>2. ASSUME NEW v \in Workers PROVE Where(v)'
  <2>1. CASE v = w
    BY <2>1
  <2>2. CASE v # w /\ wpc[v] # "idle"
    <3>1. wq[v] \in Queries \ {wq[w]}
      BY <1>t, <1>q, <2>2 DEF PlaceInv
    <3>2. QED BY <2>2, <3>1 DEF StageInv, Where, Pending
  <2>3. CASE v # w /\ wpc[v] = "idle"
    BY <2>3 DEF Where
  <2>4. QED BY <2>1, <2>2, <2>3
<1>3. QED BY <1>1, <1>2 DEF StageInv

\* Every step keeps the status that goes with where a query is.
LEMMA StageStep == TypeOK /\ PlaceInv /\ StageInv /\ OutcomeInv /\ [Next]_vars => StageInv'
<1> SUFFICES ASSUME TypeOK, PlaceInv, StageInv, OutcomeInv, [Next]_vars PROVE StageInv'
  OBVIOUS
<1>t. SlotType /\ ExecutionType /\ ThreadType
  BY TypeParts
<1> USE DEF Goto
<1>1. CASE UNCHANGED <<queue, wpc, wq, spc, execution, timer>>
  <2>1. \A q : (InProgress(q)' <=> InProgress(q)) /\ (Queued(q)' <=> Queued(q))
    BY <1>1 DEF InProgress, With, Queued
  <2>2. QED BY <1>1, <2>1, StageSame
<1>2. ASSUME NEW q \in Queries, Acquire(q) PROVE StageInv'
  <2>1. PICK to \in {"register", "rejected"} : spc' = [spc EXCEPT ![q] = to]
    BY <1>2 DEF Acquire
  <2>2. UNCHANGED <<queue, wpc, wq, execution, timer>> /\ spc[q] = "idle"
    BY <1>2 DEF Acquire, threads
  <2>3. \A r \in Queries : spc'[r] = IF r = q THEN to ELSE spc[r]
    BY <1>t, <2>1 DEF SlotType
  <2>4. \A r \in Queries : InProgress(r)' => InProgress(r) \/ r = q
    BY <2>1, <2>2, RequestEnters
  <2>5. Fresh(q)
    BY <2>2 DEF StageInv
  <2>6. ASSUME NEW r \in Queries
        PROVE  (/\ spc[r] \in {"idle", "rejected", "register"} => Fresh(r)
                /\ spc[r] = "submit" \/ Queued(r) => Pending(r)
                /\ InProgress(r) \/ Fresh(r) => timer[r] # "cancelled")'
    BY <2>2, <2>3, <2>4, <2>5 DEF StageInv, Fresh, Pending, Queued, execution
  <2>7. \A w \in Workers : Where(w)'
    BY <2>2 DEF StageInv, Where, Pending, execution
  <2>8. QED BY <2>6, <2>7 DEF StageInv
<1>3. ASSUME NEW q \in Queries, RegisterExecution(q) PROVE StageInv'
  <2>1. /\ spc[q] = "register" /\ spc' = [spc EXCEPT ![q] = "submit"]
        /\ status' = [status EXCEPT ![q] = "pending"]
        /\ UNCHANGED <<queue, wpc, wq, timer, cancelRequested, finalized>>
    BY <1>3 DEF RegisterExecution, threads
  <2>2. \A r \in Queries : /\ spc'[r] = IF r = q THEN "submit" ELSE spc[r]
                           /\ status'[r] = IF r = q THEN "pending" ELSE status[r]
    BY <1>t, <2>1 DEF SlotType, ExecutionType
  <2>3. \A r \in Queries : InProgress(r)' <=> InProgress(r)
    BY <1>3, RequestMovesOn DEF Request
  <2>4. ~Queued(q) /\ \A w \in Workers : wq[w] # q
    BY <2>1 DEF PlaceInv
  <2>5. ASSUME NEW r \in Queries
        PROVE  (/\ spc[r] \in {"idle", "rejected", "register"} => Fresh(r)
                /\ spc[r] = "submit" \/ Queued(r) => Pending(r)
                /\ InProgress(r) \/ Fresh(r) => timer[r] # "cancelled")'
    <3>1. Queued(r)' <=> Queued(r)
      BY <2>1 DEF Queued
    <3>2. InProgress(q)
      BY <2>1 DEF InProgress
    <3>3. QED BY <2>1, <2>2, <2>3, <2>4, <3>1, <3>2 DEF StageInv, Fresh, Pending
  <2>6. ASSUME NEW w \in Workers PROVE Where(w)'
    <3>1. CASE wpc[w] = "idle"
      BY <2>1, <3>1 DEF Where
    <3>2. CASE wpc[w] # "idle"
      <4>1. wq[w] \in Queries \ {q}
        BY <1>t, <2>4, <3>2 DEF PlaceInv, ThreadType
      <4>2. QED BY <2>1, <2>2, <4>1 DEF StageInv, Where, Pending
    <3>3. QED BY <3>1, <3>2
  <2>7. QED BY <2>5, <2>6 DEF StageInv
<1>4. ASSUME NEW q \in Queries, Submit(q) PROVE StageInv'
  <2>1. /\ spc[q] = "submit" /\ spc' = [spc EXCEPT ![q] = "timer"] /\ queue' = Append(queue, q)
        /\ UNCHANGED <<wpc, wq, timer, execution>>
    BY <1>4 DEF Submit
  <2>2. \A r \in Queries : spc'[r] = IF r = q THEN "timer" ELSE spc[r]
    BY <1>t, <2>1 DEF SlotType
  <2>3. \A r \in Queries : InProgress(r)' <=> InProgress(r)
    BY <1>4, RequestMovesOn DEF Request
  <2>4. \A r \in Queries : Queued(r)' <=> Queued(r) \/ r = q
    BY <2>1, QueueGrows DEF PlaceInv
  <2>5. ASSUME NEW r \in Queries
        PROVE  (/\ spc[r] \in {"idle", "rejected", "register"} => Fresh(r)
                /\ spc[r] = "submit" \/ Queued(r) => Pending(r)
                /\ InProgress(r) \/ Fresh(r) => timer[r] # "cancelled")'
    BY <2>1, <2>2, <2>3, <2>4 DEF StageInv, Fresh, Pending, execution
  <2>6. \A w \in Workers : Where(w)'
    BY <2>1 DEF StageInv, Where, Pending, execution
  <2>7. QED BY <2>5, <2>6 DEF StageInv
<1>5. ASSUME NEW q \in Queries, StartTimer(q) \/ Answer(q) PROVE StageInv'
  <2>1. UNCHANGED <<queue, wpc, wq, execution>>
    BY <1>5 DEF StartTimer, Answer, threads
  <2>2. \A r \in Queries : /\ InProgress(r)' <=> InProgress(r)
                           /\ Queued(r)' <=> Queued(r)
    BY <1>5, <2>1, RequestMovesOn DEF Request, Queued
  <2>3. \A r \in Queries : /\ timer'[r] = "cancelled" => timer[r] = "cancelled"
                           /\ spc'[r] = spc[r] \/ spc'[r] \in {"wait", "answered"}
    BY <1>t, <1>5 DEF StartTimer, Answer, SlotType
  <2>4. QED BY <2>1, <2>2, <2>3, StageSame
<1>6. ASSUME NEW q \in Queries, RequestCancel(q) \/ OnTimeout(q) PROVE StageInv'
  <2>1. UNCHANGED <<queue, wpc, wq, spc, status, finalized>>
    BY <1>6 DEF RequestCancel, OnTimeout, threads
  <2>2. \A r \in Queries : /\ timer'[r] = "cancelled" => timer[r] = "cancelled"
                           /\ cancelRequested'[r] = cancelRequested[r] \/ status[r] \in Live
    BY <1>t, <1>6 DEF RequestCancel, OnTimeout, TimesOut, Cancels, SlotType, ExecutionType
  <2>3. \A r \in Queries : (InProgress(r)' <=> InProgress(r)) /\ (Queued(r)' <=> Queued(r))
    BY <2>1 DEF InProgress, With, Queued
  <2>4. ASSUME NEW r \in Queries
        PROVE  (/\ spc[r] \in {"idle", "rejected", "register"} => Fresh(r)
                /\ spc[r] = "submit" \/ Queued(r) => Pending(r)
                /\ InProgress(r) \/ Fresh(r) => timer[r] # "cancelled")'
    BY <2>1, <2>2, <2>3 DEF StageInv, Fresh, Pending, Live, None
  <2>5. \A w \in Workers : Where(w)'
    BY <2>1 DEF StageInv, Where, Pending
  <2>6. QED BY <2>4, <2>5 DEF StageInv
<1>7. ASSUME NEW w \in Workers, Take(w) PROVE StageInv'
  <2>1. /\ queue # <<>> /\ queue' = Tail(queue) /\ wq' = [wq EXCEPT ![w] = Head(queue)]
        /\ wpc' = [wpc EXCEPT ![w] = "begin"] /\ UNCHANGED <<spc, execution, timer>>
    BY <1>7 DEF Take
  <2>2. Queued(Head(queue)) /\ \A r : Queued(r)' <=> Queued(r) /\ r # Head(queue)
    BY <2>1, QueueShrinks DEF PlaceInv
  <2>3. \A r \in Queries : InProgress(r)' <=> InProgress(r)
    BY <1>7, <2>1, WorkMovesOn
  <2>4. \A r \in Queries : (/\ spc[r] \in {"idle", "rejected", "register"} => Fresh(r)
                            /\ spc[r] = "submit" \/ Queued(r) => Pending(r)
                            /\ InProgress(r) \/ Fresh(r) => timer[r] # "cancelled")'
    BY <2>1, <2>2, <2>3 DEF StageInv, Fresh, Pending, execution
  <2>5. Head(queue) \in Queries /\ Pending(Head(queue))
    BY <2>2, QueuedIsQuery DEF StageInv
  <2>6. \A v \in Workers : /\ wq'[v] = IF v = w THEN Head(queue) ELSE wq[v]
                           /\ wpc'[v] = IF v = w THEN "begin" ELSE wpc[v]
    BY <1>t, <2>1 DEF ThreadType
  <2>7. \A v \in Workers : Where(v)'
    BY <2>1, <2>5, <2>6 DEF StageInv, Where, Pending, execution
  <2>8. QED BY <2>4, <2>7 DEF StageInv
<1>8. ASSUME NEW w \in Workers, Begin(w) \/ Finish(w) \/ WriteResult(w) PROVE StageInv'
  <2> DEFINE q == wq[w]
  <2>1. /\ wpc[w] # "idle" /\ q \in Queries
        /\ UNCHANGED <<queue, spc, timer, cancelRequested>>
    BY <1>8, <1>t DEF Begin, Finish, WriteResult, PlaceInv, ThreadType
  <2>2. \A r \in Queries \ {q} : status'[r] = status[r] /\ finalized'[r] = finalized[r]
    BY <1>8, <1>t DEF Begin, Finish, WriteResult, ExecutionType
  <2>3. \A v \in Workers \ {w} : wpc'[v] = wpc[v] /\ wq'[v] = wq[v]
    BY <1>8, <1>t DEF Begin, Finish, WriteResult, ThreadType
  <2>4. \A r \in Queries : InProgress(r)' => InProgress(r)
    <3>1. CASE wq' = wq
      BY <2>1, <3>1, WorkMovesOn
    <3>2. CASE wq' = [wq EXCEPT ![w] = None]
      BY <2>1, <3>2, WorkLeaves
    <3>3. QED BY <1>8, <3>1, <3>2 DEF Begin, Finish, WriteResult
  <2>5. status'[q] # None /\ Where(w)'
    <3>1. CASE Begin(w)
      <4>0. \/ /\ wpc' = [wpc EXCEPT ![w] = "idle"]
               /\ status' = [status EXCEPT ![q] = "cancelled"]
            \/ /\ wpc' = [wpc EXCEPT ![w] = "execute"] /\ wq' = wq
               /\ status' = [status EXCEPT ![q] = "running"]
        <5>1. CASE cancelRequested[q]
          BY <3>1, <5>1 DEF Begin
        <5>2. CASE ~cancelRequested[q]
          BY <3>1, <5>2 DEF Begin
        <5>3. QED BY <5>1, <5>2
      <4>1. \/ wpc'[w] = "idle" /\ status'[q] = "cancelled"
            \/ wpc'[w] = "execute" /\ wq'[w] = q /\ status'[q] = "running"
        BY <1>t, <2>1, <4>0 DEF ThreadType, ExecutionType
      <4>2. QED BY <4>1 DEF Where, None
    <3>2. CASE Finish(w)
      <4>1. ~finalized[q] /\ wq'[w] = q
        BY <1>t, <2>1, <3>2 DEF Finish, StageInv, Where, OutcomeInv, Ended
      <4>2. \/ wpc'[w] = "exit" /\ status'[q] = "cancelled"
            \/ wpc'[w] = "write" /\ status'[q] \in {"success", "failed"} /\ finalized' = finalized
        BY <1>t, <2>1, <3>2 DEF Finish, EndStatus, ThreadType, ExecutionType
      <4>3. QED BY <4>1, <4>2 DEF Where, None, Ended
    <3>3. CASE WriteResult(w)
      <4>1. wpc'[w] = "exit" /\ wq'[w] = q /\ status'[q] = status[q] /\ status[q] \in {"success", "failed"}
        BY <1>t, <2>1, <3>3 DEF WriteResult, StageInv, Where, ThreadType
      <4>2. QED BY <4>1 DEF Where, None, Ended
    <3>4. QED BY <1>8, <3>1, <3>2, <3>3
  <2>6. QED BY <2>1, <2>2, <2>3, <2>4, <2>5, StageWork
<1>9. ASSUME NEW w \in Workers, Execute(w) PROVE StageInv'
  <2>1. /\ wpc[w] = "execute" /\ wpc' = [wpc EXCEPT ![w] = "finish"]
        /\ UNCHANGED <<queue, spc, wq, timer, execution>>
    BY <1>9 DEF Execute
  <2>2. \A r \in Queries : InProgress(r)' => InProgress(r)
    BY <2>1, WorkMovesOn
  <2>3. \A v \in Workers : wpc'[v] = IF v = w THEN "finish" ELSE wpc[v]
    BY <1>t, <2>1 DEF ThreadType
  <2>4. status[wq[w]] = "running"
    BY <2>1 DEF StageInv, Where
  <2>5. Where(w)'
    BY <2>1, <2>3, <2>4 DEF Where, execution
  <2>6. QED BY <2>1, <2>2, <2>3, <2>4, <2>5, StageWork DEF execution, None
<1>10. ASSUME NEW w \in Workers, Exit(w) PROVE StageInv'
  <2> DEFINE q == wq[w]
  <2>1. /\ wpc[w] = "exit" /\ wpc' = [wpc EXCEPT ![w] = "idle"] /\ wq' = [wq EXCEPT ![w] = None]
        /\ timer' = [timer EXCEPT ![q] = "cancelled"] /\ UNCHANGED <<queue, spc, execution>>
    BY <1>10 DEF Exit
  <2>2. q \in Queries /\ status[q] \in Ended /\ ~Queued(q)
        /\ spc[q] \notin {"idle", "rejected", "register", "submit"}
    BY <1>t, <2>1 DEF StageInv, Where, PlaceInv, ThreadType
  <2>3. \A r \in Queries : InProgress(r)' <=> InProgress(r) /\ r # q
    BY <2>1, WorkLeaves
  <2>4. \A r \in Queries : r # q => timer'[r] = timer[r]
    BY <1>t, <2>1 DEF SlotType
  <2>5. ASSUME NEW r \in Queries
        PROVE  (/\ spc[r] \in {"idle", "rejected", "register"} => Fresh(r)
                /\ spc[r] = "submit" \/ Queued(r) => Pending(r)
                /\ InProgress(r) \/ Fresh(r) => timer[r] # "cancelled")'
    <3>1. Queued(r)' <=> Queued(r)
      BY <2>1 DEF Queued
    <3>2. QED
      BY <2>1, <2>2, <2>3, <2>4, <3>1 DEF StageInv, Fresh, Pending, Ended, None, execution
  <2>6. \A v \in Workers : /\ wpc'[v] = IF v = w THEN "idle" ELSE wpc[v]
                           /\ v # w => wq'[v] = wq[v]
    BY <1>t, <2>1 DEF ThreadType
  <2>7. \A v \in Workers : Where(v)'
    BY <2>1, <2>6 DEF StageInv, Where, Pending, execution
  <2>8. QED BY <2>5, <2>7 DEF StageInv
<1>11. QED
  BY <1>1, <1>2, <1>3, <1>4, <1>5, <1>6, <1>7, <1>8, <1>9, <1>10 DEF Next, Request, Work,
     PollFind, PollStatus, PollMark, PollAppend, vars, threads, execution

-----------------------------------------------------------------------------
(* The slots.                                                              *)

\* HasSlot without the repetition in DroppedInQueue.
LEMMA HasSlotMeans ==
  ASSUME NEW q
  PROVE  HasSlot(q) <=> InProgress(q) \/ (status[q] = "cancelled" /\ timer[q] # "cancelled")
  BY DEF HasSlot, DroppedInQueue

\* A step that gives or takes no slot.
LEMMA SlotSame ==
  ASSUME SlotInv, UNCHANGED slots, \A q \in Queries : HasSlot(q)' <=> HasSlot(q)
  PROVE  SlotInv'
<1>1. UNCHANGED <<key, inFlight>>
  BY DEF slots
<1>2. ASSUME NEW k \in Keys PROVE Holding(k)' = Holding(k)
  BY <1>1 DEF Holding
<1>3. QED BY <1>1, <1>2 DEF SlotInv

\* try_acquire counts the one query that enters, within the limit.
LEMMA SlotTaken ==
  ASSUME TypeOK, SlotInv, NEW q \in Queries, ~HasSlot(q), HasRoom(key[q]) \/ ~Enforce, key' = key,
         \A r \in Queries : HasSlot(r)' <=> HasSlot(r) \/ r = q,
         inFlight' = [inFlight EXCEPT ![key[q]] = @ + 1]
  PROVE  SlotInv'
<1>0. /\ key[q] \in Keys /\ inFlight \in [Keys -> Nat]
      /\ inFlight[key[q]] < Limit \/ ~Enforce
  BY DEF HasRoom, TypeOK
<1>1. ASSUME NEW k \in Keys
      PROVE  (/\ IsFiniteSet(Holding(k)) /\ inFlight[k] = Cardinality(Holding(k))
              /\ Enforce => inFlight[k] <= Limit)'
  <2>0. /\ IsFiniteSet(Holding(k)) /\ inFlight[k] = Cardinality(Holding(k))
        /\ Enforce => inFlight[k] <= Limit
    BY DEF SlotInv
  <2>1. CASE k = key[q]
    <3>1. Holding(k)' = Holding(k) \cup {q} /\ q \notin Holding(k)
      BY <1>0, <2>1 DEF Holding
    <3>2. IsFiniteSet(Holding(k)') /\ Cardinality(Holding(k)') = Cardinality(Holding(k)) + 1
      BY <2>0, <3>1, FS_AddElement
    <3>3. inFlight'[k] = inFlight[k] + 1 /\ inFlight[k] \in Nat
      BY <1>0, <2>1
    <3>4. Enforce => inFlight'[k] <= Limit
      BY <1>0, <2>1, <3>3, LimitAssumption
    <3>5. QED BY <2>0, <3>2, <3>3, <3>4
  <2>2. CASE k # key[q]
    <3>1. Holding(k)' = Holding(k)
      BY <1>0, <2>2 DEF Holding
    <3>2. inFlight'[k] = inFlight[k]
      BY <1>0, <2>2
    <3>3. QED BY <2>0, <3>1, <3>2
  <2>3. QED BY <2>1, <2>2
<1>2. QED BY <1>1 DEF SlotInv

\* The release in _run counts the one query that leaves; the count was not 0.
LEMMA SlotGivenBack ==
  ASSUME TypeOK, SlotInv, NEW q \in Queries, HasSlot(q), key' = key,
         \A r \in Queries : HasSlot(r)' <=> HasSlot(r) /\ r # q,
         inFlight' = [inFlight EXCEPT ![key[q]] = Released(@)]
  PROVE  SlotInv'
<1>0. key[q] \in Keys /\ inFlight \in [Keys -> Nat]
  BY DEF TypeOK
<1>1. ASSUME NEW k \in Keys
      PROVE  (/\ IsFiniteSet(Holding(k)) /\ inFlight[k] = Cardinality(Holding(k))
              /\ Enforce => inFlight[k] <= Limit)'
  <2>0. /\ IsFiniteSet(Holding(k)) /\ inFlight[k] = Cardinality(Holding(k))
        /\ Enforce => inFlight[k] <= Limit
    BY DEF SlotInv
  <2>1. CASE k = key[q]
    <3>1. Holding(k)' = Holding(k) \ {q} /\ q \in Holding(k)
      BY <2>1 DEF Holding
    <3>2. IsFiniteSet(Holding(k)') /\ Cardinality(Holding(k)') = Cardinality(Holding(k)) - 1
      BY <2>0, <3>1, FS_RemoveElement
    <3>3. Cardinality(Holding(k)) \in Nat /\ Cardinality(Holding(k)') \in Nat
      BY <2>0, <3>2, FS_CardinalityType
    <3>4. inFlight'[k] = Released(inFlight[k]) /\ inFlight[k] \in Nat
      BY <1>0, <2>1
    <3>5. inFlight'[k] = Cardinality(Holding(k)') /\ inFlight'[k] <= inFlight[k]
      BY <2>0, <3>2, <3>3, <3>4 DEF Released
    <3>6. Enforce => inFlight'[k] <= Limit
      <4>1. inFlight'[k] \in Nat /\ Limit \in Nat
        BY <3>3, <3>5, LimitAssumption
      <4>2. QED BY <2>0, <3>4, <3>5, <4>1
    <3>7. QED BY <3>2, <3>5, <3>6
  <2>2. CASE k # key[q]
    <3>1. Holding(k)' = Holding(k)
      BY <2>2 DEF Holding
    <3>2. inFlight'[k] = inFlight[k]
      BY <1>0, <2>2
    <3>3. QED BY <2>0, <3>1, <3>2
  <2>3. QED BY <2>1, <2>2
<1>2. QED BY <1>1 DEF SlotInv

\* Every step counts the queries that hold a slot.
LEMMA SlotStep == TypeOK /\ PlaceInv /\ StageInv /\ SlotInv /\ [Next]_vars => SlotInv'
<1> SUFFICES ASSUME TypeOK, PlaceInv, StageInv, SlotInv, [Next]_vars PROVE SlotInv'
  OBVIOUS
<1>t. SlotType /\ ExecutionType /\ ThreadType
  BY TypeParts
<1> USE HasSlotMeans
<1>1. CASE UNCHANGED <<slots, queue, wq, spc, status, timer>>
  <2>1. \A q : InProgress(q)' <=> InProgress(q)
    BY <1>1 DEF InProgress, With, Queued
  <2>2. \A q \in Queries : HasSlot(q)' <=> HasSlot(q)
    BY <1>1, <2>1 DEF HasSlot, DroppedInQueue
  <2>3. QED BY <1>1, <2>2, SlotSame
<1>2. ASSUME NEW q \in Queries, Acquire(q) PROVE SlotInv'
  <2>1. UNCHANGED <<queue, wq, status, timer>> /\ spc[q] = "idle" /\ key' = key
    BY <1>2 DEF Acquire, threads, execution
  <2>2. CASE /\ (HasRoom(key[q]) \/ ~Enforce) /\ spc' = [spc EXCEPT ![q] = "register"]
             /\ inFlight' = [inFlight EXCEPT ![key[q]] = @ + 1]
    <3>1. \A r \in Queries : InProgress(r)' <=> InProgress(r) \/ r = q
      BY <2>1, <2>2, RequestEnters
    <3>2. ~InProgress(q) /\ status[q] = None
      BY <2>1, <2>2, RequestEnters DEF StageInv, Fresh
    <3>3. ~HasSlot(q)
      BY <3>2 DEF HasSlot, DroppedInQueue, None
    <3>4. \A r \in Queries : HasSlot(r)' <=> HasSlot(r) \/ r = q
      BY <2>1, <3>1 DEF HasSlot, DroppedInQueue
    <3>5. QED BY <2>1, <2>2, <3>3, <3>4, SlotTaken
  <2>3. CASE spc' = [spc EXCEPT ![q] = "rejected"] /\ inFlight' = inFlight
    <3>1. \A r \in Queries : InProgress(r)' <=> InProgress(r)
      BY <2>1, <2>3, RequestEnters
    <3>2. \A r \in Queries : HasSlot(r)' <=> HasSlot(r)
      BY <2>1, <3>1 DEF HasSlot, DroppedInQueue
    <3>3. QED BY <2>1, <2>3, <3>2, SlotSame DEF slots
  <2>4. QED BY <1>2, <2>2, <2>3 DEF Acquire
<1>3. ASSUME NEW q \in Queries, Request(q) \/ RequestCancel(q) \/ OnTimeout(q) PROVE SlotInv'
  <2>1. \A r \in Queries : InProgress(r)' <=> InProgress(r)
    BY <1>3, RequestMovesOn
  <2>2. \A r \in Queries : timer'[r] = "cancelled" <=> timer[r] = "cancelled"
    BY <1>t, <1>3 DEF Request, RegisterExecution, Submit, StartTimer, Answer, RequestCancel,
       OnTimeout, SlotType
  <2>3. CASE RegisterExecution(q)
    <3>1. /\ InProgress(q) /\ \A r \in Queries \ {q} : status'[r] = status[r]
      BY <1>t, <2>3 DEF RegisterExecution, InProgress, ExecutionType
    <3>2. \A r \in Queries : HasSlot(r)' <=> HasSlot(r)
      BY <2>1, <2>2, <3>1 DEF HasSlot, DroppedInQueue
    <3>3. QED BY <2>3, <3>2, SlotSame DEF RegisterExecution
  <2>4. CASE Submit(q) \/ StartTimer(q) \/ Answer(q) \/ RequestCancel(q) \/ OnTimeout(q)
    <3>1. UNCHANGED <<slots, status>>
      BY <2>4 DEF Submit, StartTimer, Answer, RequestCancel, OnTimeout, execution
    <3>2. \A r \in Queries : HasSlot(r)' <=> HasSlot(r)
      BY <2>1, <2>2, <3>1 DEF HasSlot, DroppedInQueue
    <3>3. QED BY <3>1, <3>2, SlotSame
  <2>5. QED BY <1>3, <2>3, <2>4 DEF Request
<1>4. ASSUME NEW w \in Workers, Take(w) \/ Execute(w) \/ WriteResult(w) PROVE SlotInv'
  <2>1. UNCHANGED <<slots, spc, status, timer>> /\ (Take(w) \/ UNCHANGED <<queue, wq>>)
    BY <1>4 DEF Take, Execute, WriteResult, execution
  <2>2. \A r \in Queries : InProgress(r)' <=> InProgress(r)
    BY <2>1, WorkMovesOn
  <2>3. \A r \in Queries : HasSlot(r)' <=> HasSlot(r)
    BY <2>1, <2>2 DEF HasSlot, DroppedInQueue
  <2>4. QED BY <2>1, <2>3, SlotSame
<1>5. ASSUME NEW w \in Workers, Begin(w) \/ Finish(w) PROVE SlotInv'
  <2> DEFINE q == wq[w]
  <2>1. q \in Queries /\ wpc[w] # "idle" /\ UNCHANGED <<slots, queue, spc, timer>>
    BY <1>5, <1>t DEF Begin, Finish, PlaceInv, ThreadType
  <2>2. InProgress(q) /\ timer[q] # "cancelled"
    BY <2>1 DEF InProgress, With, StageInv
  <2>3. \A r \in Queries \ {q} : status'[r] = status[r]
    BY <1>5, <1>t DEF Begin, Finish, ExecutionType
  <2>4. CASE wq' = wq
    <3>1. \A r \in Queries : InProgress(r)' <=> InProgress(r)
      BY <2>1, <2>4, WorkMovesOn
    <3>2. \A r \in Queries : HasSlot(r)' <=> HasSlot(r)
      BY <2>1, <2>2, <2>3, <3>1 DEF HasSlot, DroppedInQueue
    <3>3. QED BY <2>1, <3>2, SlotSame
  <2>5. CASE wq' = [wq EXCEPT ![w] = None] /\ status' = [status EXCEPT ![q] = "cancelled"]
    <3>1. \A r \in Queries : InProgress(r)' <=> InProgress(r) /\ r # q
      BY <2>1, <2>5, WorkLeaves
    <3>2. status'[q] = "cancelled"
      BY <1>t, <2>1, <2>5 DEF ExecutionType
    <3>3. \A r \in Queries : HasSlot(r)' <=> HasSlot(r)
      BY <2>1, <2>2, <2>3, <3>1, <3>2 DEF HasSlot, DroppedInQueue
    <3>4. QED BY <2>1, <3>3, SlotSame
  <2>6. QED BY <1>5, <2>4, <2>5 DEF Begin, Finish
<1>6. ASSUME NEW w \in Workers, Exit(w) PROVE SlotInv'
  <2> DEFINE q == wq[w]
  <2>1. /\ q \in Queries /\ wpc[w] # "idle" /\ wq' = [wq EXCEPT ![w] = None] /\ key' = key
        /\ inFlight' = [inFlight EXCEPT ![key[q]] = Released(@)]
        /\ timer' = [timer EXCEPT ![q] = "cancelled"] /\ UNCHANGED <<queue, spc, status>>
    BY <1>6, <1>t DEF Exit, PlaceInv, ThreadType, execution
  <2>2. InProgress(q)
    BY <2>1 DEF InProgress, With
  <2>3. \A r \in Queries : InProgress(r)' <=> InProgress(r) /\ r # q
    BY <2>1, WorkLeaves
  <2>4. \A r \in Queries : timer'[r] = IF r = q THEN "cancelled" ELSE timer[r]
    BY <1>t, <2>1 DEF SlotType
  <2>5. HasSlot(q) /\ \A r \in Queries : HasSlot(r)' <=> HasSlot(r) /\ r # q
    BY <2>1, <2>2, <2>3, <2>4 DEF HasSlot, DroppedInQueue
  <2> HIDE DEF q
  <2>6. QED BY <2>1, <2>5, SlotGivenBack
<1>7. QED
  BY <1>1, <1>2, <1>3, <1>4, <1>5, <1>6 DEF Next, Work, PollFind, PollStatus, PollMark,
     PollAppend, vars, threads, execution

\* QueryInv is an invariant.
LEMMA QueryInvariance == Spec => []QueryInv
<1>1. QueryInv /\ [Next]_vars => QueryInv'
  BY QueryTypeStep, PlaceStep, StageStep, OutcomeStep, SlotStep DEF QueryInv
<1>2. QED BY <1>1, QueryInit, PTL DEF Spec

-----------------------------------------------------------------------------
(* The theorems.                                                           *)

\* Every variable keeps its type.
THEOREM QueryTypeCorrect == Spec => []TypeOK
<1>1. QueryInv => TypeOK
  BY DEF QueryInv
<1>2. QED BY <1>1, QueryInvariance, PTL

\* The counters of query_concurrency say who is in progress: a slot is held by
\* each query in progress and by each that was dropped in the queue, and by no
\* other, so that try_acquire's limit is one on what runs.
THEOREM SlotsStayAccounted == Spec => []SlotsAccounted
<1>1. ASSUME QueryInv, NEW k \in Keys
      PROVE  /\ inFlight[k] = Count(InProgress, k) + Count(DroppedInQueue, k)
             /\ Enforce => inFlight[k] <= Limit
  <2> DEFINE A == {q \in Queries : key[q] = k /\ InProgress(q)}
             B == {q \in Queries : key[q] = k /\ DroppedInQueue(q)}
  <2>1. IsFiniteSet(Holding(k)) /\ inFlight[k] = Cardinality(Holding(k))
        /\ (Enforce => inFlight[k] <= Limit)
    BY <1>1 DEF QueryInv, SlotInv
  <2>2. Holding(k) = A \cup B /\ A \cap B = {}
    BY DEF Holding, HasSlot, DroppedInQueue
  <2>3. IsFiniteSet(A) /\ IsFiniteSet(B)
    BY <2>1, <2>2, FS_Subset
  <2>4. Cardinality(Holding(k)) = Cardinality(A) + Cardinality(B)
    <3>1. Cardinality(A \cup B) = Cardinality(A) + Cardinality(B) - Cardinality(A \cap B)
      BY <2>3, FS_Union
    <3>2. Cardinality(A \cap B) = 0
      BY <2>2, FS_EmptySet
    <3>3. Cardinality(A) \in Nat /\ Cardinality(B) \in Nat
      BY <2>3, FS_CardinalityType
    <3> HIDE DEF A, B
    <3>4. QED BY <2>2, <3>1, <3>2, <3>3
  <2>5. Count(InProgress, k) = Cardinality(A) /\ Count(DroppedInQueue, k) = Cardinality(B)
    BY DEF Count
  <2>6. QED BY <2>1, <2>4, <2>5
<1>2. QueryInv => SlotsAccounted
  BY <1>1 DEF SlotsAccounted
<1>3. QED BY <1>2, QueryInvariance, PTL

\* A cancel that was accepted is what the client sees, whatever the worker and
\* the timer do around it.
THEOREM CancelAlwaysWins == Spec => []CancelWins
<1>1. QueryInv => CancelWins
  BY DEF QueryInv, OutcomeInv, CancelWins, Ended
<1>2. QED BY <1>1, QueryInvariance, PTL

\* A finalized execution is settled: no worker holds it, and neither a cancel
\* nor its timer touches it.
LEMMA FinalStep ==
  ASSUME TypeOK, PlaceInv, StageInv, OutcomeInv, [Next]_vars, NEW r \in Queries, finalized[r]
  PROVE  UNCHANGED <<status[r], cancelRequested[r], cancelReason[r], result[r]>>
<1> DEFINE Same == UNCHANGED <<status[r], cancelRequested[r], cancelReason[r], result[r]>>
<1>t. ExecutionType /\ ThreadType
  BY TypeParts
<1>0. status[r] \in Ended
  BY DEF OutcomeInv
<1>1. CASE UNCHANGED execution
  BY <1>1 DEF execution
<1>2. ASSUME NEW q \in Queries, RegisterExecution(q) PROVE Same
  <2>1. status[q] = None
    BY <1>2 DEF RegisterExecution, StageInv, Fresh
  <2>2. q # r
    BY <1>0, <2>1 DEF Ended, None
  <2>3. status' = [status EXCEPT ![q] = "pending"]
        /\ UNCHANGED <<cancelRequested, cancelReason, result>>
    BY <1>2 DEF RegisterExecution
  <2>4. QED BY <1>t, <2>2, <2>3 DEF ExecutionType
<1>3. ASSUME NEW q \in Queries, NEW why, Cancels(q, why), status[q] \in Live,
             UNCHANGED <<status, result>>
      PROVE  Same
  <2>1. q # r
    BY <1>0, <1>3 DEF Live, Ended
  <2>2. QED BY <1>t, <1>3, <2>1 DEF Cancels, ExecutionType
<1>4. ASSUME NEW q \in Queries, RequestCancel(q) \/ OnTimeout(q) PROVE Same
  BY <1>1, <1>3, <1>4 DEF RequestCancel, OnTimeout, TimesOut, execution
<1>5. ASSUME NEW w \in Workers, Begin(w) \/ Finish(w) PROVE Same
  <2>1. status[wq[w]] \in Live
    BY <1>5 DEF Begin, Finish, StageInv, Where, Pending, Live
  <2>2. wq[w] # r
    BY <1>0, <2>1 DEF Live, Ended
  <2>3. PICK s : status' = [status EXCEPT ![wq[w]] = s]
    BY <1>5 DEF Begin, Finish
  <2>4. UNCHANGED <<cancelRequested, cancelReason, result>>
    BY <1>5 DEF Begin, Finish
  <2>5. QED BY <1>t, <2>2, <2>3, <2>4 DEF ExecutionType
<1>6. ASSUME NEW w \in Workers, WriteResult(w) PROVE Same
  <2>1. ~finalized[wq[w]]
    BY <1>6 DEF WriteResult, StageInv, Where
  <2>2. wq[w] # r
    BY <2>1
  <2>3. QED BY <1>t, <1>6, <2>2 DEF WriteResult, ExecutionType
<1>7. QED
  BY <1>1, <1>2, <1>4, <1>5, <1>6 DEF Next, Acquire, Request, Submit, StartTimer, Answer,
     Work, Take, Execute, Exit, PollFind, PollStatus, PollMark, PollAppend, vars, execution

THEOREM FinalStaysFinal == Spec => FinalIsFinal
<1>1. QueryInv /\ [Next]_vars =>
        [\A q \in Queries : finalized[q] =>
           UNCHANGED <<status[q], cancelRequested[q], cancelReason[q], result[q]>>]_vars
  BY FinalStep DEF QueryInv
<1>2. QED BY <1>1, QueryInvariance, PTL DEF Spec, FinalIsFinal
=============================================================================
