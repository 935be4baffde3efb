-------------------------- MODULE JobManagerProofs --------------------------
(* Theorems about JobManager, for every number of jobs, threads, retries   *)
(* and restarts.                                                           *)
EXTENDS JobManager, TLAPS

-----------------------------------------------------------------------------
(* Type correctness.                                                       *)

LEMMA NoJobIsJob == NoJob \in Jobs
  BY JobsAssumption DEF NoJob

LEMMA SaveTypes ==
  NoRows \in [Jobs -> Row] /\ Idle \in SaveState /\ MustSave \in SaveState
  BY DEF Idle, MustSave, SaveState, NoRows, NoRow, Row, Status

\* A patch and a cleanup keep the types of what they change.
LEMMA PatchType ==
  ASSUME TypeOK, NEW t \in Threads, NEW j \in Jobs,
         NEW s \in Active \cup Terminal, Patch(t, j, s)
  PROVE  status' \in [Jobs -> Status] /\ save' \in [Threads -> SaveState]
  BY SaveTypes DEF Patch, Saving, TypeOK, Status

LEMMA CleanupType ==
  ASSUME TypeOK, NEW t \in Threads, Cleanup(t)
  PROVE  /\ known' \in SUBSET Jobs /\ registered' \in SUBSET Jobs
         /\ save' \in [Threads -> SaveState]
  BY SaveTypes DEF Cleanup, Saving, TypeOK

LEMMA PersistType ==
  ASSUME TypeOK, NEW t \in Threads, Persist(t) PROVE TypeOK'
<1> USE DEF TypeOK, memory, pool, workers, clients, disk, history, counters
<1>1. CASE ListJobs(t)
  BY <1>1, SaveTypes DEF ListJobs, SaveState
<1>2. CASE DumpRows(t)
  <2>1. RowsOf(save[t].ids) \in [Jobs -> Row]
    BY DEF RowsOf, Row, NoRow, Status
  <2>2. QED BY <1>2, <2>1 DEF DumpRows, SaveState
<1>3. CASE CommitRows(t)
  <2>1. save[t].rows \in [Jobs -> Row]
    BY DEF SaveState
  <2>2. QED BY <1>3, <2>1, SaveTypes DEF CommitRows
<1>4. CASE FallBack(t)
  <2>1. save[t].rows \in [Jobs -> Row]
    BY DEF SaveState
  <2>2. QED BY <1>4, <2>1, SaveTypes, BoundsAssumption DEF FallBack
<1>5. QED BY <1>1, <1>2, <1>3, <1>4 DEF Persist

LEMMA ClientType ==
  ASSUME TypeOK, NEW c \in Clients, Call(c) \/ Continue(c) PROVE TypeOK'
<1> USE NoJobIsJob DEF TypeOK, At, Move, memory, pool, workers, clients, disk,
        history, counters
<1>0. c \in Threads
  BY DEF Threads
<1>1. ASSUME NEW j \in Jobs, StartSubmit(c, j) PROVE TypeOK'
  BY <1>0, <1>1, CleanupType DEF StartSubmit, ClientPc
<1>2. CASE SetJob(c)
  BY <1>0, <1>2, SaveTypes DEF SetJob, Saving, ClientPc, Status, Active
<1>3. CASE Enqueue(c)
  BY <1>3 DEF Enqueue, ClientPc, FutureState
<1>4. CASE Register(c)
  BY <1>4 DEF Register, ClientPc
<1>5. CASE GetJob(c)
  BY <1>0, <1>5, CleanupType DEF GetJob, ClientPc
<1>6. ASSUME NEW j \in Jobs, StartCancel(c, j) PROVE TypeOK'
  BY <1>0, <1>6, CleanupType DEF StartCancel, ClientPc
<1>7. CASE MarkNothing(c)
  BY <1>7 DEF MarkNothing, ClientPc
<1>8. CASE MarkCancelling(c)
  BY <1>0, <1>8, SaveTypes DEF MarkCancelling, Saving, ClientPc, Status, Active
<1>9. CASE Revoke(c)
  BY <1>9 DEF Revoke, ClientPc, FutureState
<1>10. CASE Settle(c)
  BY <1>0, <1>10, PatchType DEF Settle, ClientPc, Terminal
<1>11. QED
  BY <1>1, <1>2, <1>3, <1>4, <1>5, <1>6, <1>7, <1>8, <1>9, <1>10
  DEF Call, Continue

LEMMA DecideType ==
  ASSUME TypeOK, NEW w \in Workers, NEW from, NEW to \in WorkerPc,
         Decide(w, from, to)
  PROVE  TypeOK'
  BY DEF Decide, Goto, TypeOK, memory, pool, clients, disk, history, counters

LEMMA RecordType ==
  ASSUME TypeOK, NEW w \in Workers, NEW from, NEW to \in WorkerPc,
         NEW s \in Active \cup Terminal, Record(w, from, s, to)
  PROVE  TypeOK'
<1>1. w \in Threads /\ wjob[w] \in Jobs
  BY DEF Threads, TypeOK
<1>2. QED
  BY <1>1, PatchType
  DEF Record, Goto, TypeOK, pool, clients, disk, history, counters

LEMMA WorkerType ==
  ASSUME TypeOK, NEW w \in Workers,
         Advance(w) \/ Progress(w) \/ WorkEnds(w)
  PROVE  TypeOK'
<1>0. w \in Threads /\ wjob[w] \in Jobs
  BY DEF Threads, TypeOK
<1>1. CASE Take(w)
  <2>1. Head(queue) \in Jobs /\ Tail(queue) \in Seq(Jobs)
    BY <1>1 DEF Take, TypeOK
  <2>2. QED
    BY <1>1, <2>1 DEF Take, Goto, TypeOK, WorkerPc, FutureState, memory,
                      clients, disk, history, counters
<1>2. CASE CheckCancel(w) \/ Progress(w) \/ WorkEnds(w) \/ CheckAfter(w) \/ CheckRetry(w)
  <2>1. \E from, to \in WorkerPc : Decide(w, from, to)
    BY <1>2 DEF CheckCancel, Progress, WorkEnds, WorkDone, WorkFails,
                CheckAfter, CheckRetry, WorkerPc
  <2>2. QED BY <2>1, DecideType
<1>3. CASE PatchProgress(w) \/ Succeed(w) \/ Fail(w) \/ Drop(w)
  <2>1. \E from, to \in WorkerPc, s \in Active \cup Terminal :
          Record(w, from, s, to)
    BY <1>3 DEF PatchProgress, Succeed, Fail, Drop, WorkerPc, Active, Terminal
  <2>2. QED BY <2>1, RecordType
<1>4. CASE Begin(w)
  <2>1. status' \in [Jobs -> Status] /\ save' \in [Threads -> SaveState]
    BY <1>0, <1>4, PatchType DEF Begin, Active
  <2>2. begun' \in [Jobs -> Nat] /\ late' \in [Jobs -> Nat]
    BY <1>0, <1>4 DEF Begin, TypeOK
  <2>3. QED
    BY <1>4, <2>1, <2>2 DEF Begin, Goto, TypeOK, WorkerPc, pool, clients,
                            disk, counters
<1>5. CASE Requeue(w)
  <2>1. status' \in [Jobs -> Status] /\ save' \in [Threads -> SaveState]
    BY <1>0, <1>5, PatchType DEF Requeue, Active
  <2>2. retries' \in [Jobs -> Nat]
    BY <1>0, <1>5 DEF Requeue, TypeOK
  <2>3. QED
    BY <1>5, <2>1, <2>2 DEF Requeue, Goto, TypeOK, WorkerPc, pool, clients,
                            disk, history, counters
<1>6. CASE Finally(w)
  BY <1>0, <1>6, NoJobIsJob
  DEF Finally, Goto, TypeOK, WorkerPc, FutureState, memory, clients, disk,
      history, counters
<1>7. QED BY <1>1, <1>2, <1>3, <1>4, <1>5, <1>6 DEF Advance

LEMMA RestartType == ASSUME TypeOK, Restart PROVE TypeOK'
<1> DEFINE source == IF \A j \in Jobs : table[j] = NoRow THEN jobsFile ELSE table
           loaded == {j \in Jobs : source[j] # NoRow}
<1>1. source \in [Jobs -> Row]
  BY DEF TypeOK
<1>2. \A j \in Jobs : Fate(source[j]) \in Status /\ source[j].cancel \in BOOLEAN
  BY <1>1 DEF Fate, Row, Status, Terminal
<1>3. status' \in [Jobs -> Status] /\ cancel' \in [Jobs -> BOOLEAN]
  BY <1>2 DEF Restart, TypeOK
<1>4. known' \in SUBSET Jobs /\ table' \in [Jobs -> Row]
  <2>1. PICK E \in SUBSET loaded :
          /\ known' = loaded \ E
          /\ table' = IF E = {} THEN source ELSE
               [j \in Jobs |-> IF j \in known'
                  THEN [status |-> Fate(source[j]), cancel |-> source[j].cancel]
                  ELSE NoRow]
    BY DEF Restart
  <2>2. [j \in Jobs |-> IF j \in known'
           THEN [status |-> Fate(source[j]), cancel |-> source[j].cancel]
           ELSE NoRow] \in [Jobs -> Row]
    BY <1>2 DEF Row, NoRow, Status
  <2>3. QED BY <2>1, <2>2, <1>1
<1>5. restarts' \in 0..MaxRestarts
  <2>1. restarts < MaxRestarts /\ restarts' = restarts + 1
    BY DEF Restart
  <2>2. restarts \in 0..MaxRestarts
    BY DEF TypeOK
  <2>3. QED BY <2>1, <2>2, BoundsAssumption
<1>6. /\ registered' \in SUBSET Jobs /\ future' \in [Jobs -> FutureState]
      /\ queue' \in Seq(Jobs)
      /\ save' \in [Threads -> SaveState]
  BY SaveTypes DEF Restart, FutureState
<1>7. /\ wpc' \in [Workers -> WorkerPc] /\ wjob' \in [Workers -> Jobs]
      /\ cpc' \in [Clients -> ClientPc] /\ cjob' \in [Clients -> Jobs]
      /\ cfut' \in [Clients -> BOOLEAN]
  BY NoJobIsJob DEF Restart, WorkerPc, ClientPc
<1>8. /\ UNCHANGED <<retries, jobsFile, begun, late, saveErrors>>
  BY DEF Restart, history
<1>9. QED
  BY <1>3, <1>4, <1>5, <1>6, <1>7, <1>8 DEF TypeOK

\* Every variable keeps the kind of value the code gives it.
THEOREM TypeCorrect == Spec => []TypeOK
<1>1. Init => TypeOK
  BY NoJobIsJob, SaveTypes, BoundsAssumption
  DEF Init, TypeOK, Status, FutureState, WorkerPc, ClientPc
<1>2. TypeOK /\ [Next]_vars => TypeOK'
  <2>1. TypeOK /\ UNCHANGED vars => TypeOK'
    BY DEF TypeOK, vars, memory, pool, workers, clients, disk, history, counters
  <2>2. QED
    BY <2>1, PersistType, ClientType, WorkerType, RestartType DEF Next
<1>3. QED BY <1>1, <1>2, PTL DEF Spec

-----------------------------------------------------------------------------
(* The inductive invariant.  A job's Future says where the job is:         *)
(* "none" before the executor has it, "pending" in the queue, "running"    *)
(* with a worker, "cancelled" once a client has revoked it, "done" after.  *)

Waiting == {"queued", "cancelling"}

StatusInv == \A j \in Jobs : status[j] = "none" => j \notin known /\ future[j] = "none"

QueueInv ==
  /\ \A i \in 1..Len(queue) : future[queue[i]] \in {"pending", "cancelled"}
  /\ \A i, k \in 1..Len(queue) : queue[i] = queue[k] => i = k

Enqueuing(c, j) == cpc[c] = "enqueue" /\ cjob[c] = j
Settling(c, j)  == cpc[c] = "settle" /\ cjob[c] = j

FutureOk(j) ==
  /\ future[j] = "none" /\ j \in known /\ status[j] \in Active
       => \E c \in Clients : Enqueuing(c, j)
  /\ future[j] = "pending"
       => Queued(j) /\ j \in known /\ status[j] \in Waiting
  /\ future[j] = "running" => \E w \in Workers : Holds(w, j)
  /\ future[j] = "cancelled" =>
       \/ status[j] = "cancelled"
       \/ /\ j \in known /\ status[j] \in Waiting
          /\ \E c \in Clients : Settling(c, j)
  /\ future[j] = "done" => status[j] \in Terminal
FutureInv == \A j \in Jobs : FutureOk(j)

WorkerOk(w) ==
  Busy(w) =>
    /\ future[wjob[w]] = "running"
    /\ wpc[w] = "finally" => status[wjob[w]] \in Terminal
    /\ wpc[w] # "finally" => wjob[w] \in known
    /\ wpc[w] \in {"check", "begin"} => status[wjob[w]] \in Waiting
    /\ wpc[w] = "drop" => status[wjob[w]] \in Active
    /\ wpc[w] \notin {"check", "begin", "drop", "finally"}
         => status[wjob[w]] \in {"running", "cancelling"}
WorkerInv == \A w \in Workers : WorkerOk(w)

Submitting == {"set", "enqueue"}

ClientOk(c) ==
  /\ cpc[c] = "set" => status[cjob[c]] = "none"
  /\ cpc[c] = "enqueue" => /\ cjob[c] \in known /\ future[cjob[c]] = "none"
                           /\ status[cjob[c]] \in Waiting
  /\ cpc[c] = "settle" => future[cjob[c]] = "cancelled"
ClientInv ==
  /\ \A c \in Clients : ClientOk(c)
  /\ \A c, d \in Clients :
       cpc[c] \in Submitting /\ cpc[d] \in Submitting /\ cjob[c] = cjob[d] => c = d

PlaceInv == StatusInv /\ QueueInv /\ FutureInv /\ WorkerInv /\ SoleWorker /\ ClientInv
IInv == TypeOK /\ PlaceInv

\* The rows that are written, or about to be, agree with the results.
RowsAgree(r) == \A j \in Jobs : r[j].status \in Terminal => status[j] = r[j].status
TableInv == RowsAgree(table) /\ \A t \in Threads : RowsAgree(save[t].rows)

-----------------------------------------------------------------------------
(* The steps that change nothing the invariant speaks of.                  *)

place == <<known, status, future, queue, wpc, wjob, cpc, cjob>>

LEMMA PlaceFrame == ASSUME PlaceInv, UNCHANGED place PROVE PlaceInv'
  BY DEF PlaceInv, place, StatusInv, QueueInv, FutureInv, FutureOk, WorkerInv,
         WorkerOk, SoleWorker, ClientInv, ClientOk, Queued, Holds, Busy,
         Enqueuing, Settling

LEMMA PersistPlace ==
  ASSUME PlaceInv, NEW t \in Threads, Persist(t) PROVE PlaceInv'
<1>1. UNCHANGED place
  BY DEF Persist, ListJobs, DumpRows, CommitRows, FallBack, place, memory, pool,
         workers, clients
<1>2. QED BY <1>1, PlaceFrame

-----------------------------------------------------------------------------
(* The clients' steps.                                                     *)

\* A cleanup removes finished jobs only.
LEMMA CleanupKeeps ==
  ASSUME NEW t, Cleanup(t)
  PROVE  known' \subseteq known /\ \A j \in known \ known' : status[j] \in Terminal
  BY DEF Cleanup, Removable

\* A client that moves among the states the invariant does not mention, or
\* takes up a fresh id, while jobs that have finished may leave, disturbs
\* nothing.
Mentioned == {"set", "enqueue", "settle"}

Moves(c) ==
  /\ UNCHANGED <<status, future, queue, wpc, wjob>>
  /\ cpc[c] \notin Mentioned /\ cpc'[c] \notin Mentioned \ {"set"}
  /\ cpc'[c] = "set" =>
       /\ status[cjob'[c]] = "none"
       /\ \A d \in Clients : cpc[d] \in Submitting => cjob[d] # cjob'[c]
  /\ \A d \in Clients : d # c => cpc'[d] = cpc[d] /\ cjob'[d] = cjob[d]
  /\ known' \subseteq known
  /\ \A j \in known \ known' : status[j] \in Terminal

LEMMA ClientMoves ==
  ASSUME IInv, NEW c \in Clients, Moves(c) PROVE PlaceInv'
<1> USE DEF IInv, PlaceInv, Mentioned, Moves
<1>0. \A j \in known : status[j] \in Active \cup Waiting => j \in known'
  BY DEF Terminal, Active, Waiting
<1>1. StatusInv'
  BY DEF StatusInv
<1>2. QueueInv'
  BY DEF QueueInv
<1>3. ASSUME NEW j \in Jobs PROVE FutureOk(j)'
  <2>1. FutureOk(j)
    BY DEF FutureInv
  <2>2. \A w \in Workers : Holds(w, j)' <=> Holds(w, j)
    BY DEF Holds, Busy
  <2>3. \A d \in Clients : Enqueuing(d, j) => Enqueuing(d, j)'
    BY DEF Enqueuing
  <2>4. \A d \in Clients : Settling(d, j) => Settling(d, j)'
    BY DEF Settling
  <2>5. Queued(j)' <=> Queued(j)
    BY DEF Queued
  <2>6. QED
    BY <1>0, <2>1, <2>2, <2>3, <2>4, <2>5 DEF FutureOk
<1>4. ASSUME NEW w \in Workers PROVE WorkerOk(w)'
  <2>1. WorkerOk(w)
    BY DEF WorkerInv
  <2>2. wpc[w] \notin {"idle", "finally"} => status[wjob[w]] \in Active
    BY <2>1 DEF WorkerOk, Busy, Active, Waiting
  <2>3. QED BY <1>0, <2>1, <2>2 DEF WorkerOk, Busy
<1>5. SoleWorker'
  BY DEF SoleWorker, Busy
<1>6. ASSUME NEW d \in Clients PROVE ClientOk(d)'
  <2>1. ClientOk(d)
    BY DEF ClientInv
  <2>2. QED BY <1>0, <2>1 DEF ClientOk
<1>7. ClientInv'
  <2> SUFFICES ASSUME NEW d \in Clients, NEW e \in Clients, d # e,
                      cpc'[d] \in Submitting, cpc'[e] \in Submitting
               PROVE  cjob'[d] # cjob'[e]
    BY <1>6 DEF ClientInv
  <2>1. cpc'[c] \in Submitting => cpc'[c] = "set"
    BY DEF Submitting
  <2>2. CASE d = c \/ e = c
    BY <2>1, <2>2
  <2>3. CASE d # c /\ e # c
    BY <2>3 DEF ClientInv
  <2>4. QED BY <2>2, <2>3
<1>8. QED BY <1>1, <1>2, <1>3, <1>4, <1>5, <1>7 DEF FutureInv, WorkerInv

\* A step that concerns one job, k, leaves the invariant true of the others.
Elsewhere(k) ==
  /\ \A j \in Jobs \ {k} :
       /\ status'[j] = status[j] /\ future'[j] = future[j]
       /\ j \in known' <=> j \in known
       /\ Queued(j)' <=> Queued(j)
       /\ \A w \in Workers : Holds(w, j) => Holds(w, j)'
       /\ \A c \in Clients : Enqueuing(c, j) => Enqueuing(c, j)'
       /\ \A c \in Clients : Settling(c, j) => Settling(c, j)'
  /\ \A w \in Workers : Busy(w)' /\ wjob'[w] # k
       => wpc'[w] = wpc[w] /\ wjob'[w] = wjob[w]
  /\ \A c \in Clients : cpc'[c] \in Mentioned /\ cjob'[c] # k
       => cpc'[c] = cpc[c] /\ cjob'[c] = cjob[c]

\* ... and re-establishes it of k.
Here(k) ==
  /\ status'[k] # "none"
  /\ FutureOk(k)'
  /\ \A w \in Workers : Holds(w, k)' => WorkerOk(w)'
  /\ \A c \in Clients : cjob'[c] = k => ClientOk(c)'
  /\ \A c, d \in Clients :
       cpc'[c] \in Submitting /\ cjob'[c] = k /\ cpc'[d] \in Submitting /\ cjob'[d] = k
         => c = d

LEMMA OneJobStep ==
  ASSUME IInv, TypeOK', NEW k \in Jobs, Elsewhere(k), Here(k), QueueInv', SoleWorker'
  PROVE  PlaceInv'
<1> USE DEF IInv, PlaceInv, Elsewhere, Here
<1>1. StatusInv'
  BY DEF StatusInv
<1>2. ASSUME NEW j \in Jobs PROVE FutureOk(j)'
  <2>1. FutureOk(j)
    BY DEF FutureInv
  <2>2. CASE j # k
    BY <2>1, <2>2 DEF FutureOk
  <2>3. QED BY <2>2
<1>3. ASSUME NEW w \in Workers PROVE WorkerOk(w)'
  <2>1. CASE Busy(w)' /\ wjob'[w] # k
    <3>1. WorkerOk(w) /\ Busy(w)
      BY <2>1 DEF WorkerInv, Busy
    <3>2. wjob'[w] \in Jobs \ {k}
      BY <2>1 DEF TypeOK
    <3>3. QED BY <2>1, <3>1, <3>2 DEF WorkerOk
  <2>2. CASE Busy(w)' /\ wjob'[w] = k
    BY <2>2 DEF Holds
  <2>3. QED BY <2>1, <2>2 DEF WorkerOk
<1>4. ASSUME NEW c \in Clients PROVE ClientOk(c)'
  <2>1. CASE cpc'[c] \in Mentioned /\ cjob'[c] # k
    <3>1. ClientOk(c)
      BY DEF ClientInv
    <3>2. cjob'[c] \in Jobs \ {k}
      BY <2>1 DEF TypeOK
    <3>3. QED BY <2>1, <3>1, <3>2 DEF ClientOk
  <2>2. QED BY <2>1 DEF ClientOk, Mentioned
<1>5. ASSUME NEW c \in Clients, NEW d \in Clients,
             cpc'[c] \in Submitting, cpc'[d] \in Submitting, cjob'[c] = cjob'[d]
      PROVE  c = d
  <2>1. CASE cjob'[c] # k
    BY <1>5, <2>1 DEF ClientInv, Submitting, Mentioned
  <2>2. QED BY <1>5, <2>1
<1>6. QED BY <1>1, <1>2, <1>3, <1>4, <1>5 DEF FutureInv, WorkerInv, ClientInv

LEMMA ClientPlace ==
  ASSUME IInv, TypeOK', NEW c \in Clients, Call(c) \/ Continue(c)
  PROVE  PlaceInv'
<1> USE DEF IInv, At, Move, memory, pool, workers
<1>k. PICK k \in Jobs : k = cjob[c]
  BY DEF TypeOK
<1>0. /\ c \in Threads /\ k = cjob[c] /\ cpc \in [Clients -> ClientPc]
      /\ cjob \in [Clients -> Jobs] /\ status \in [Jobs -> Status]
      /\ future \in [Jobs -> FutureState] /\ queue \in Seq(Jobs)
  BY <1>k DEF TypeOK, Threads
<1>0a. FutureOk(k) /\ ClientOk(c)
  BY <1>0 DEF PlaceInv, FutureInv, ClientInv
<1>0b. /\ QueueInv /\ SoleWorker
       /\ \A d, e \in Clients :
            cpc[d] \in Submitting /\ cpc[e] \in Submitting /\ cjob[d] = cjob[e] => d = e
       /\ \A w \in Workers : Holds(w, k) => WorkerOk(w)
       /\ \A d \in Clients : ClientOk(d)
  BY DEF PlaceInv, WorkerInv, ClientInv
<1>1. ASSUME NEW j \in Jobs, StartSubmit(c, j) PROVE PlaceInv'
  <2>1. /\ UNCHANGED <<status, future, queue, wpc, wjob>>
        /\ cpc' = [cpc EXCEPT ![c] = "set"] /\ cjob' = [cjob EXCEPT ![c] = j]
        /\ cpc[c] = "idle" /\ status[j] = "none"
        /\ \A d \in Clients : ~(cpc[d] = "set" /\ cjob[d] = j)
        /\ Cleanup(c)
    BY <1>1 DEF StartSubmit, Fresh
  <2>2. \A d \in Clients : cpc[d] \in Submitting => cjob[d] # j
    BY <1>0b, <2>1 DEF ClientOk, Submitting, Waiting
  <2>3. /\ cpc'[c] = "set" /\ cjob'[c] = j
        /\ \A d \in Clients : d # c => cpc'[d] = cpc[d] /\ cjob'[d] = cjob[d]
    BY <1>0, <2>1
  <2>4. cpc[c] \notin Mentioned /\ cpc'[c] \notin Mentioned \ {"set"}
    BY <2>1, <2>3 DEF Mentioned
  <2>5. Moves(c)
    BY <2>1, <2>2, <2>3, <2>4, CleanupKeeps DEF Moves
  <2>6. QED BY <2>5, ClientMoves
<1>2. CASE SetJob(c)
  <2>1. /\ known' = known \cup {k} /\ status' = [status EXCEPT ![k] = "queued"]
        /\ cpc[c] = "set" /\ cpc' = [cpc EXCEPT ![c] = "enqueue"]
        /\ UNCHANGED <<future, queue, wpc, wjob, cjob>>
    BY <1>0, <1>2 DEF SetJob
  <2>2. status[k] = "none" /\ future[k] = "none" /\ k \notin known
    BY <1>0, <1>0a, <2>1 DEF ClientOk, PlaceInv, StatusInv
  <2>3. Elsewhere(k)
    BY <1>0, <2>1 DEF Elsewhere, Queued, Holds, Busy, Enqueuing, Settling, Mentioned
  <2>4. \A w \in Workers : ~Holds(w, k)
    BY <1>0b, <2>2 DEF WorkerOk, Holds
  <2>5. FutureOk(k)'
    BY <1>0, <2>1, <2>2 DEF FutureOk, Enqueuing
  <2>6. \A d \in Clients : cjob'[d] = k => ClientOk(d)'
    BY <1>0, <1>0b, <2>1, <2>2 DEF ClientOk, Waiting, Submitting
  <2>7. QueueInv' /\ SoleWorker' /\ \A w \in Workers : Holds(w, k)' => WorkerOk(w)'
    BY <1>0b, <2>1, <2>4 DEF QueueInv, SoleWorker, Busy, Holds
  <2>8. \A d \in Clients : cpc'[d] \in Submitting /\ cjob'[d] = k => d = c
    BY <1>0, <1>0b, <2>1 DEF Submitting
  <2>9. Here(k)
    BY <1>0, <2>1, <2>5, <2>6, <2>7, <2>8 DEF Here
  <2>10. QED BY <2>3, <2>7, <2>9, OneJobStep
<1>3. CASE Enqueue(c)
  <2>1. /\ future' = [future EXCEPT ![k] = "pending"] /\ queue' = Append(queue, k)
        /\ cpc[c] = "enqueue" /\ cpc' = [cpc EXCEPT ![c] = "register"]
        /\ UNCHANGED <<known, status, wpc, wjob, cjob>>
    BY <1>0, <1>3 DEF Enqueue
  <2>2. k \in known /\ future[k] = "none" /\ status[k] \in Waiting
    BY <1>0, <1>0a, <2>1 DEF ClientOk
  <2>3. /\ Len(queue') = Len(queue) + 1 /\ queue'[Len(queue) + 1] = k
        /\ \A i \in 1..Len(queue) : queue'[i] = queue[i] /\ queue[i] \in Jobs
    BY <1>0, <2>1
  <2>4. \A i \in 1..Len(queue) : queue[i] # k
    BY <1>0b, <2>2 DEF QueueInv
  <2>5. \A j \in Jobs \ {k} : Queued(j)' <=> Queued(j)
    BY <1>0, <2>3 DEF Queued
  <2>6. Elsewhere(k)
    BY <1>0, <2>1, <2>5 DEF Elsewhere, Holds, Busy, Enqueuing, Settling, Mentioned
  <2>7. QueueInv'
    BY <1>0, <1>0b, <2>1, <2>3, <2>4 DEF QueueInv
  <2>8. FutureOk(k)'
    BY <1>0, <2>1, <2>2, <2>3 DEF FutureOk, Queued
  <2>9. \A w \in Workers : ~Holds(w, k)
    BY <1>0b, <2>2 DEF WorkerOk, Holds
  <2>10. \A d \in Clients : cpc'[d] \in Submitting => cjob'[d] # k
    BY <1>0, <1>0b, <2>1 DEF Submitting
  <2>11. \A d \in Clients : cjob'[d] = k => ClientOk(d)'
    <3>1. \A d \in Clients : cjob[d] = k => cpc'[d] # "settle"
      BY <1>0, <1>0b, <2>1, <2>2 DEF ClientOk
    <3>2. QED BY <2>1, <2>10, <3>1 DEF ClientOk, Submitting
  <2>12. SoleWorker' /\ \A w \in Workers : Holds(w, k)' => WorkerOk(w)'
    BY <1>0b, <2>1, <2>9 DEF SoleWorker, Busy, Holds
  <2>13. Here(k)
    BY <2>1, <2>2, <2>8, <2>10, <2>11, <2>12 DEF Here, Waiting
  <2>14. QED BY <2>6, <2>7, <2>12, <2>13, OneJobStep
<1>4. CASE Register(c)
  BY <1>0, <1>4, ClientMoves DEF Register, Moves, Mentioned
<1>5. CASE GetJob(c)
  BY <1>0, <1>5, ClientMoves, CleanupKeeps DEF GetJob, Moves, Mentioned
<1>6. ASSUME NEW j \in Jobs, StartCancel(c, j) PROVE PlaceInv'
  BY <1>0, <1>6, ClientMoves, CleanupKeeps DEF StartCancel, Moves, Mentioned
<1>7. CASE MarkNothing(c)
  BY <1>0, <1>7, ClientMoves DEF MarkNothing, Moves, Mentioned
<1>8. CASE MarkCancelling(c)
  <2>1. /\ k \in known /\ status[k] \notin Terminal
        /\ status' = [status EXCEPT ![k] = "cancelling"]
        /\ cpc[c] = "mark" /\ cpc' = [cpc EXCEPT ![c] = "revoke"]
        /\ UNCHANGED <<known, future, queue, wpc, wjob, cjob>>
    BY <1>0, <1>8 DEF MarkCancelling, Cancellable
  <2>2. Elsewhere(k)
    BY <1>0, <2>1 DEF Elsewhere, Queued, Holds, Busy, Enqueuing, Settling, Mentioned
  <2>3. status[k] \in Active
    BY <1>0, <2>1 DEF PlaceInv, StatusInv, Status
  <2>4. status'[k] = "cancelling"
    BY <1>0, <2>1
  <2>5. FutureOk(k)'
    BY <1>0, <1>0a, <2>1, <2>3, <2>4
       DEF FutureOk, Queued, Holds, Busy, Enqueuing, Settling, Waiting, Active, Terminal
  <2>6. \A w \in Workers : Holds(w, k)' => WorkerOk(w)'
    BY <1>0b, <2>1, <2>4 DEF Holds, Busy, WorkerOk, Waiting, Active
  <2>7. \A d \in Clients : cjob'[d] = k => ClientOk(d)'
    BY <1>0, <1>0b, <2>1, <2>3, <2>4 DEF ClientOk, Waiting, Active
  <2>8. \A d \in Clients : cpc'[d] \in Submitting => cpc[d] \in Submitting
    BY <1>0, <2>1 DEF Submitting
  <2>9. QueueInv' /\ SoleWorker'
    BY <1>0b, <2>1 DEF QueueInv, SoleWorker, Busy
  <2>10. Here(k)
    BY <1>0b, <2>1, <2>4, <2>5, <2>6, <2>7, <2>8 DEF Here
  <2>11. QED BY <2>2, <2>9, <2>10, OneJobStep
<1>9. CASE Revoke(c)
  <2>1. CASE cpc' = [cpc EXCEPT ![c] = "reply"]
    BY <1>0, <1>9, <2>1, ClientMoves DEF Revoke, Moves, Mentioned
  <2>2. CASE cpc' # [cpc EXCEPT ![c] = "reply"]
    <3>1. /\ future[k] \in {"pending", "cancelled"}
          /\ future' = [future EXCEPT ![k] = "cancelled"]
          /\ cpc[c] = "revoke" /\ cpc' = [cpc EXCEPT ![c] = "settle"]
          /\ UNCHANGED <<known, status, queue, wpc, wjob, cjob>>
      BY <1>0, <1>9, <2>2 DEF Revoke, Revoked
    <3>2. Elsewhere(k)
      BY <1>0, <3>1 DEF Elsewhere, Queued, Holds, Busy, Enqueuing, Settling, Mentioned
    <3>3. future'[k] = "cancelled" /\ Settling(c, k)'
      BY <1>0, <3>1 DEF Settling
    <3>4. FutureOk(k)'
      BY <1>0a, <3>1, <3>3 DEF FutureOk
    <3>5. \A w \in Workers : ~Holds(w, k)
      BY <1>0b, <3>1 DEF WorkerOk, Holds
    <3>6. \A d \in Clients : cjob'[d] = k => ClientOk(d)'
      BY <1>0, <1>0b, <3>1, <3>3 DEF ClientOk
    <3>7. \A d \in Clients : cpc'[d] \in Submitting => cpc[d] \in Submitting
      BY <1>0, <3>1 DEF Submitting
    <3>8. SoleWorker' /\ \A w \in Workers : Holds(w, k)' => WorkerOk(w)'
      BY <1>0b, <3>1, <3>5 DEF SoleWorker, Busy, Holds
    <3>9. QueueInv'
      BY <1>0, <1>0b, <3>1 DEF QueueInv
    <3>10. status'[k] # "none"
      BY <1>0, <3>1 DEF PlaceInv, StatusInv
    <3>11. Here(k)
      BY <1>0b, <3>1, <3>4, <3>6, <3>7, <3>8, <3>10 DEF Here
    <3>12. QED BY <3>2, <3>8, <3>9, <3>11, OneJobStep
  <2>3. QED BY <2>1, <2>2
<1>10. CASE Settle(c)
  <2>1. /\ cpc[c] = "settle" /\ cpc' = [cpc EXCEPT ![c] = "reply"]
        /\ status' = IF k \in known THEN [status EXCEPT ![k] = "cancelled"] ELSE status
        /\ UNCHANGED <<known, future, queue, wpc, wjob, cjob>>
    BY <1>0, <1>10 DEF Settle, Patch
  <2>2. future[k] = "cancelled"
    BY <1>0, <1>0a, <2>1 DEF ClientOk
  <2>3. status'[k] = "cancelled"
    BY <1>0, <1>0a, <2>1, <2>2 DEF FutureOk
  <2>4. Elsewhere(k)
    BY <1>0, <2>1 DEF Elsewhere, Queued, Holds, Busy, Enqueuing, Settling, Mentioned
  <2>5. FutureOk(k)'
    BY <2>1, <2>2, <2>3 DEF FutureOk
  <2>6. \A w \in Workers : ~Holds(w, k)
    BY <1>0b, <2>2 DEF WorkerOk, Holds
  <2>7. \A d \in Clients : cjob'[d] = k => ClientOk(d)'
    BY <1>0, <1>0b, <2>1, <2>2 DEF ClientOk, PlaceInv, StatusInv
  <2>8. \A d \in Clients : cpc'[d] \in Submitting => cpc[d] \in Submitting
    BY <1>0, <2>1 DEF Submitting
  <2>9. /\ QueueInv' /\ SoleWorker'
        /\ \A w \in Workers : Holds(w, k)' => WorkerOk(w)'
    BY <1>0b, <2>1, <2>6 DEF QueueInv, SoleWorker, Busy, Holds
  <2>10. Here(k)
    BY <1>0b, <2>1, <2>3, <2>5, <2>7, <2>8, <2>9 DEF Here
  <2>11. QED BY <2>4, <2>9, <2>10, OneJobStep
<1>11. QED
  BY <1>1, <1>2, <1>3, <1>4, <1>5, <1>6, <1>7, <1>8, <1>9, <1>10
  DEF Call, Continue

-----------------------------------------------------------------------------
(* The workers' steps.                                                     *)

\* A worker that stays with its job and may give it another status.
Works(w, s, to) ==
  /\ Busy(w) /\ wpc' = [wpc EXCEPT ![w] = to] /\ to # "idle"
  /\ UNCHANGED <<known, future, queue, wjob, cpc, cjob>>
  /\ status' = [status EXCEPT ![wjob[w]] = s] /\ s # "none"

LEMMA WorkerWorks ==
  ASSUME IInv, TypeOK', NEW w \in Workers, NEW s, NEW to, Works(w, s, to), WorkerOk(w)'
  PROVE  PlaceInv'
<1> USE DEF IInv, Works
<1>1. PICK k \in Jobs : k = wjob[w]
  BY DEF TypeOK
<1>2. /\ QueueInv /\ SoleWorker /\ WorkerOk(w) /\ StatusInv
      /\ \A d \in Clients : ClientOk(d)
      /\ wpc \in [Workers -> WorkerPc] /\ status \in [Jobs -> Status]
  BY DEF PlaceInv, WorkerInv, ClientInv, TypeOK
<1>3. future[k] = "running" /\ status[k] # "none" /\ status'[k] = s
  BY <1>1, <1>2 DEF WorkerOk, StatusInv
<1>4. Elsewhere(k)
  BY <1>1, <1>2 DEF Elsewhere, Queued, Holds, Busy, Enqueuing, Settling
<1>5. FutureOk(k)'
  <2>1. Holds(w, k)'
    BY <1>1, <1>2 DEF Holds, Busy
  <2>2. QED BY <1>3, <2>1 DEF FutureOk
<1>6. \A v \in Workers : Holds(v, k)' => v = w
  BY <1>1, <1>2 DEF Holds, Busy, SoleWorker
<1>7. \A d \in Clients : cjob'[d] = k => cpc'[d] \notin Mentioned
  BY <1>2, <1>3 DEF ClientOk, Mentioned
<1>8. Here(k)
  BY <1>3, <1>5, <1>6, <1>7 DEF Here, ClientOk, Mentioned, Submitting
<1>9. QueueInv' /\ SoleWorker'
  BY <1>2 DEF QueueInv, SoleWorker, Busy
<1>10. QED BY <1>4, <1>8, <1>9, OneJobStep

LEMMA WorkerPlace ==
  ASSUME IInv, TypeOK', NEW w \in Workers, Advance(w) \/ Progress(w) \/ WorkEnds(w)
  PROVE  PlaceInv'
<1> USE DEF IInv, On, Goto, memory, clients
<1>0. /\ wpc \in [Workers -> WorkerPc] /\ wjob \in [Workers -> Jobs]
      /\ status \in [Jobs -> Status] /\ future \in [Jobs -> FutureState]
      /\ queue \in Seq(Jobs) /\ w \in Threads
  BY DEF TypeOK, Threads
<1>1. /\ QueueInv /\ SoleWorker /\ StatusInv /\ WorkerOk(w)
      /\ \A d \in Clients : ClientOk(d)
      /\ \A v \in Workers : WorkerOk(v)
      /\ \A j \in Jobs : FutureOk(j)
  BY DEF PlaceInv, WorkerInv, ClientInv, FutureInv
<1>2. ASSUME NEW from, NEW to, Decide(w, from, to), from # "idle", to # "idle",
             WorkerOk(w)'
      PROVE  PlaceInv'
  <2>1. /\ wpc[w] = from /\ wpc' = [wpc EXCEPT ![w] = to]
        /\ UNCHANGED <<known, status, future, queue, wjob, cpc, cjob>>
    BY <1>2 DEF Decide, pool
  <2>2. Busy(w) /\ status[wjob[w]] # "none"
    BY <1>0, <1>1, <1>2, <2>1 DEF Busy, WorkerOk, StatusInv
  <2>3. status = [status EXCEPT ![wjob[w]] = status[wjob[w]]]
    BY <1>0
  <2>4. PICK s : s = status[wjob[w]]
    OBVIOUS
  <2>5. Works(w, s, to)
    BY <1>2, <2>1, <2>2, <2>3, <2>4 DEF Works
  <2>6. QED BY <1>2, <2>5, WorkerWorks
<1>3. CASE Take(w)
  <2>1. PICK k \in Jobs : k = Head(queue)
    BY <1>0, <1>3 DEF Take
  <2>2. /\ Len(queue) > 0 /\ queue[1] = k /\ Len(queue') = Len(queue) - 1
        /\ \A i \in 1..Len(queue') : queue'[i] = queue[i + 1]
        /\ queue' \in Seq(Jobs)
    BY <1>0, <1>3, <2>1 DEF Take
  <2>3. /\ UNCHANGED <<known, status, cpc, cjob>> /\ wpc[w] = "idle"
        /\ IF future[k] = "cancelled" THEN UNCHANGED <<wpc, wjob, future>>
             ELSE /\ future' = [future EXCEPT ![k] = "running"]
                  /\ wpc' = [wpc EXCEPT ![w] = "check"]
                  /\ wjob' = [wjob EXCEPT ![w] = k]
    BY <1>3, <2>1 DEF Take
  <2>4. \A i \in 1..Len(queue') : i + 1 \in 1..Len(queue) /\ queue'[i] # k
    BY <1>0, <1>1, <2>2 DEF QueueInv
  <2>5. QueueInv'
    <3>1. \A i \in 1..Len(queue') : future'[queue'[i]] = future[queue[i + 1]]
      BY <1>0, <2>2, <2>3, <2>4
    <3>2. \A i, m \in 1..Len(queue') : queue'[i] = queue'[m] => i + 1 = m + 1
      BY <1>1, <2>2, <2>4 DEF QueueInv
    <3>3. \A i, m \in 1..Len(queue') : i + 1 = m + 1 => i = m
      BY <1>0, <2>2
    <3>4. QED BY <1>1, <2>4, <3>1, <3>2, <3>3 DEF QueueInv
  <2>6. \A j \in Jobs \ {k} : Queued(j)' <=> Queued(j)
    <3>1. \A i \in 1..Len(queue) : i # 1 => i - 1 \in 1..Len(queue')
                                           /\ queue'[i - 1] = queue[i]
      BY <1>0, <2>2
    <3>2. QED BY <2>2, <2>4, <3>1 DEF Queued
  <2>7. future[k] \in {"pending", "cancelled"} /\ \A v \in Workers : ~Holds(v, k)
    BY <1>0, <1>1, <2>2 DEF QueueInv, WorkerOk, Holds
  <2>8. status[k] # "none" /\ FutureOk(k)
    BY <1>1, <2>7 DEF StatusInv
  <2>9. Elsewhere(k)
    BY <1>0, <2>3, <2>6 DEF Elsewhere, Holds, Busy, Enqueuing, Settling
  <2>10. SoleWorker'
    BY <1>0, <1>1, <2>3, <2>7 DEF SoleWorker, Busy, Holds
  <2>11. \A c \in Clients : cjob'[c] = k => ClientOk(c)' /\ cpc'[c] \notin Submitting
    BY <1>0, <1>1, <2>3, <2>7, <2>8 DEF ClientOk, Submitting
  <2>12. CASE future[k] = "cancelled"
    <3>1. FutureOk(k)'
      BY <2>3, <2>8, <2>12 DEF FutureOk, Settling
    <3>2. Here(k)
      BY <2>3, <2>7, <2>8, <2>11, <2>12, <3>1 DEF Here, Holds, Busy
    <3>3. QED BY <2>5, <2>9, <2>10, <3>2, OneJobStep
  <2>13. CASE future[k] # "cancelled"
    <3>1. /\ future'[k] = "running" /\ Holds(w, k)' /\ wpc'[w] = "check"
          /\ wjob'[w] = k /\ k \in known' /\ status'[k] \in Waiting
      BY <1>0, <2>3, <2>7, <2>8, <2>13 DEF Holds, Busy, FutureOk
    <3>2. FutureOk(k)' /\ WorkerOk(w)'
      BY <3>1 DEF FutureOk, WorkerOk
    <3>3. \A v \in Workers : Holds(v, k)' => v = w
      BY <2>10, <3>1 DEF SoleWorker, Holds
    <3>4. Here(k)
      BY <2>3, <2>8, <2>11, <3>2, <3>3 DEF Here
    <3>5. QED BY <2>5, <2>9, <2>10, <3>4, OneJobStep
  <2>14. QED BY <2>12, <2>13
<1>4. CASE CheckCancel(w) \/ Progress(w) \/ WorkEnds(w) \/ CheckAfter(w) \/ CheckRetry(w)
  <2>1. PICK from, to \in WorkerPc :
          /\ Decide(w, from, to) /\ to \notin {"idle", "check", "finally"}
          /\ \/ from = "check" /\ to \in {"drop", "begin"}
             \/ from \in {"exec", "return", "raise"} /\ to # "begin"
    BY <1>4 DEF CheckCancel, Progress, WorkEnds, WorkDone, WorkFails,
                CheckAfter, CheckRetry, WorkerPc
  <2>2. /\ UNCHANGED <<known, status, future, wjob>> /\ wpc[w] = from /\ wpc'[w] = to
    BY <1>0, <2>1 DEF Decide, pool
  <2>3. WorkerOk(w)'
    BY <1>1, <2>1, <2>2 DEF WorkerOk, Busy, Waiting, Active
  <2>4. QED BY <1>2, <2>1, <2>3
<1>5. ASSUME NEW s, NEW to, wpc[w] \notin {"idle", "finally"},
             Patch(w, wjob[w], s), wpc' = [wpc EXCEPT ![w] = to],
             UNCHANGED <<known, future, queue, wjob, cpc, cjob>>,
             \/ s = "running" /\ to = "exec"
             \/ s = "queued" /\ to = "check"
             \/ s \in Terminal /\ to = "finally"
      PROVE  PlaceInv'
  <2>1. Busy(w) /\ wjob[w] \in known /\ future[wjob[w]] = "running" /\ wjob[w] \in Jobs
    BY <1>0, <1>1, <1>5 DEF WorkerOk, Busy
  <2>2. Works(w, s, to)
    BY <1>5, <2>1 DEF Works, Patch, Terminal
  <2>3. status'[wjob[w]] = s /\ wpc'[w] = to
    BY <1>0, <1>5, <2>1, <2>2 DEF Works
  <2>4. WorkerOk(w)'
    BY <1>5, <2>1, <2>3 DEF WorkerOk, Waiting
  <2>5. QED BY <2>2, <2>4, WorkerWorks
<1>6. CASE PatchProgress(w) \/ Succeed(w) \/ Fail(w) \/ Drop(w)
  <2>1. PICK from, to \in WorkerPc, s \in Status :
          /\ Record(w, from, s, to) /\ from \notin {"idle", "finally"}
          /\ \/ s = "running" /\ to = "exec"
             \/ s \in Terminal /\ to = "finally"
    BY <1>6 DEF PatchProgress, Succeed, Fail, Drop, WorkerPc, Status, Active, Terminal
  <2>2. QED BY <1>5, <2>1 DEF Record, pool
<1>7. CASE Begin(w)
  BY <1>5, <1>7 DEF Begin, pool
<1>8. CASE Requeue(w)
  BY <1>5, <1>8 DEF Requeue, pool
<1>9. CASE Finally(w)
  <2>1. PICK k \in Jobs : k = wjob[w]
    BY <1>0
  <2>2. /\ UNCHANGED <<known, status, queue, cpc, cjob>> /\ wpc[w] = "finally"
        /\ wpc' = [wpc EXCEPT ![w] = "idle"] /\ wjob' = [wjob EXCEPT ![w] = NoJob]
        /\ future' = [future EXCEPT ![k] = "done"]
    BY <1>9, <2>1 DEF Finally
  <2>3. future[k] = "running" /\ status[k] \in Terminal
    BY <1>1, <2>1, <2>2 DEF WorkerOk, Busy
  <2>4. \A v \in Workers : ~Holds(v, k)'
    BY <1>0, <1>1, <2>1, <2>2 DEF Holds, Busy, SoleWorker
  <2>5. Elsewhere(k)
    BY <1>0, <2>1, <2>2 DEF Elsewhere, Queued, Holds, Busy, Enqueuing, Settling
  <2>6. FutureOk(k)'
    BY <1>0, <2>2, <2>3 DEF FutureOk
  <2>7. \A c \in Clients : cjob'[c] = k => cpc'[c] \notin Mentioned
    BY <1>1, <2>2, <2>3 DEF ClientOk, Mentioned, Terminal
  <2>8. Here(k)
    BY <2>2, <2>3, <2>4, <2>6, <2>7 DEF Here, ClientOk, Mentioned, Submitting, Terminal
  <2>9. SoleWorker'
    BY <1>0, <1>1, <2>2 DEF SoleWorker, Busy
  <2>10. QueueInv'
    BY <1>0, <1>1, <2>2, <2>3 DEF QueueInv
  <2>11. QED BY <2>5, <2>8, <2>9, <2>10, OneJobStep
<1>10. QED BY <1>3, <1>4, <1>6, <1>7, <1>8, <1>9 DEF Advance

-----------------------------------------------------------------------------
(* The other steps, and the invariant.                                     *)

LEMMA RestartPlace == ASSUME IInv, TypeOK', Restart PROVE PlaceInv'
<1> DEFINE source == IF \A j \in Jobs : table[j] = NoRow THEN jobsFile ELSE table
           loaded == {j \in Jobs : source[j] # NoRow}
<1>1. /\ queue' = <<>> /\ \A j \in Jobs : future'[j] = "none"
      /\ \A w \in Workers : wpc'[w] = "idle"
      /\ \A c \in Clients : cpc'[c] = "idle"
  BY DEF Restart
<1>2. known' \subseteq loaded /\ \A j \in loaded : status'[j] = Fate(source[j])
  BY DEF Restart
<1>3. \A j \in known' : status'[j] \in Terminal
  BY <1>2 DEF Fate, Terminal
<1>4. StatusInv' /\ FutureInv'
  BY <1>1, <1>3 DEF StatusInv, FutureInv, FutureOk, Terminal, Active
<1>5. QueueInv' /\ WorkerInv' /\ SoleWorker' /\ ClientInv'
  BY <1>1 DEF QueueInv, WorkerInv, WorkerOk, SoleWorker, Busy, ClientInv, ClientOk,
              Submitting
<1>6. QED BY <1>4, <1>5 DEF PlaceInv

LEMMA PlaceInit == Init => PlaceInv
  BY DEF Init, PlaceInv, StatusInv, QueueInv, FutureInv, FutureOk, WorkerInv, WorkerOk,
         SoleWorker, Busy, ClientInv, ClientOk, Submitting, Active

LEMMA Invariance == Spec => []IInv
<1>1. Init => PlaceInv
  BY PlaceInit
<1>2. TypeOK /\ TypeOK' /\ PlaceInv /\ [Next]_vars => PlaceInv'
  <2> SUFFICES ASSUME TypeOK, TypeOK', PlaceInv, [Next]_vars PROVE PlaceInv'
    OBVIOUS
  <2>1. CASE UNCHANGED vars
    BY <2>1, PlaceFrame DEF vars, place, memory, pool, workers, clients
  <2>2. CASE Next
    BY <2>2, PersistPlace, ClientPlace, WorkerPlace, RestartPlace DEF Next, IInv
  <2>3. QED BY <2>1, <2>2
<1>3. QED BY <1>1, <1>2, TypeCorrect, PTL DEF Spec, IInv

\* No job is orphaned: an active job is queued with a future that can still
\* run, with a worker, or with the client that is to queue or to settle it.
THEOREM NoJobIsOrphaned == Spec => []NoOrphan
<1>1. IInv => NoOrphan
  <2> SUFFICES ASSUME IInv, NEW j \in known, status[j] \in Active,
                      ~(Queued(j) /\ future[j] = "pending"),
                      \A c \in Clients : ~(cjob[c] = j /\ cpc[c] \in {"enqueue", "settle"})
               PROVE  \E w \in Workers : Holds(w, j) /\ wpc[w] # "finally"
    BY DEF NoOrphan
  <2>1. j \in Jobs /\ future[j] \in FutureState /\ FutureOk(j)
    BY DEF IInv, TypeOK, PlaceInv, FutureInv
  <2>2. future[j] = "running"
    BY <2>1 DEF FutureOk, FutureState, Enqueuing, Settling, Active, Terminal
  <2>3. PICK w \in Workers : Holds(w, j)
    BY <2>1, <2>2 DEF FutureOk
  <2>4. wpc[w] # "finally"
    BY <2>3 DEF IInv, PlaceInv, WorkerInv, WorkerOk, Holds, Active, Terminal
  <2>5. QED BY <2>3, <2>4
<1>2. QED BY <1>1, Invariance, PTL

\* A job is worked on by one worker at a time: a retry, a cancel and a restart
\* never put it in the hands of a second one.
THEOREM OneWorkerPerJob == Spec => []SoleWorker
<1>1. IInv => SoleWorker
  BY DEF IInv, PlaceInv
<1>2. QED BY <1>1, Invariance, PTL

\* Nobody works on a job that has its result.
THEOREM NoWorkOnAFinishedJob == Spec => []NoWorkAfterEnd
<1>1. IInv => NoWorkAfterEnd
  BY DEF IInv, PlaceInv, WorkerInv, WorkerOk, NoWorkAfterEnd, Holds, Terminal, Active,
         Waiting
<1>2. QED BY <1>1, Invariance, PTL

\* A job that active_job_counts counts as running is with a worker.
THEOREM CountedRunningIsHeld == Spec => []RunningIsHeld
<1>1. IInv => RunningIsHeld
  <2> SUFFICES ASSUME IInv, NEW j \in known, status[j] = "running"
               PROVE  \E w \in Workers :
                        Holds(w, j) /\ wpc[w] \notin {"check", "begin", "finally"}
    BY DEF RunningIsHeld, CountedRunning
  <2>1. j \in Jobs /\ future[j] \in FutureState /\ FutureOk(j)
    BY DEF IInv, TypeOK, PlaceInv, FutureInv
  <2>2. \A c \in Clients : ~Enqueuing(c, j)
    BY DEF IInv, PlaceInv, ClientInv, ClientOk, Enqueuing, Waiting
  <2>3. future[j] = "running"
    BY <2>1, <2>2 DEF FutureOk, FutureState, Active, Terminal, Waiting
  <2>4. PICK w \in Workers : Holds(w, j)
    BY <2>1, <2>3 DEF FutureOk
  <2>5. wpc[w] \notin {"check", "begin", "finally"}
    BY <2>4 DEF IInv, PlaceInv, WorkerInv, WorkerOk, Holds, Waiting, Terminal
  <2>6. QED BY <2>4, <2>5
<1>2. QED BY <1>1, Invariance, PTL

-----------------------------------------------------------------------------
(* Results are final, and the table never contradicts one.                 *)

LEMMA PatchFinal ==
  ASSUME TypeOK, NEW t, NEW k \in Jobs, NEW s, Patch(t, k, s),
         k \in known => status[k] \notin Terminal \/ status[k] = s
  PROVE  \A j \in Jobs : status[j] \in Terminal => status'[j] = status[j]
  BY DEF Patch, TypeOK

\* No step of a thread replaces a result.
LEMMA ClientFinal ==
  ASSUME IInv, NEW c \in Clients, Call(c) \/ Continue(c)
  PROVE  \A j \in Jobs : status[j] \in Terminal => status'[j] = status[j]
<1>0. /\ TypeOK /\ cjob[c] \in Jobs /\ ClientOk(c) /\ FutureOk(cjob[c])
      /\ status \in [Jobs -> Status]
  BY DEF IInv, TypeOK, PlaceInv, ClientInv, FutureInv
<1>1. CASE SetJob(c)
  BY <1>0, <1>1 DEF SetJob, At, ClientOk, Terminal
<1>2. CASE MarkCancelling(c)
  BY <1>0, <1>2 DEF MarkCancelling, Cancellable
<1>3. CASE Settle(c)
  <2>1. status[cjob[c]] \notin Terminal \/ status[cjob[c]] = "cancelled"
    BY <1>0, <1>3 DEF Settle, At, ClientOk, FutureOk, Waiting, Terminal
  <2>2. QED BY <1>0, <1>3, <2>1, PatchFinal DEF Settle
<1>4. CASE UNCHANGED status
  BY <1>4
<1>5. QED
  BY <1>1, <1>2, <1>3, <1>4
  DEF Call, Continue, StartSubmit, StartCancel, GetJob, Enqueue, Register,
      MarkNothing, Revoke, memory

LEMMA WorkerFinal ==
  ASSUME IInv, NEW w \in Workers, Advance(w) \/ Progress(w) \/ WorkEnds(w)
  PROVE  \A j \in Jobs : status[j] \in Terminal => status'[j] = status[j]
<1>0. TypeOK /\ wjob[w] \in Jobs /\ WorkerOk(w)
  BY DEF IInv, TypeOK, PlaceInv, WorkerInv
<1>1. ASSUME NEW s, wpc[w] \notin {"idle", "finally"}, Patch(w, wjob[w], s)
      PROVE  \A j \in Jobs : status[j] \in Terminal => status'[j] = status[j]
  <2>1. status[wjob[w]] \notin Terminal
    BY <1>0, <1>1 DEF WorkerOk, Busy, Waiting, Active, Terminal
  <2>2. QED BY <1>0, <1>1, <2>1, PatchFinal
<1>2. CASE PatchProgress(w) \/ Succeed(w) \/ Fail(w) \/ Drop(w)
  BY <1>1, <1>2 DEF PatchProgress, Succeed, Fail, Drop, Record, On
<1>3. CASE Begin(w) \/ Requeue(w)
  BY <1>1, <1>3 DEF Begin, Requeue, On
<1>4. CASE UNCHANGED status
  BY <1>4
<1>5. QED
  BY <1>2, <1>3, <1>4
  DEF Advance, Take, CheckCancel, CheckAfter, CheckRetry, Finally, Progress,
      WorkEnds, WorkDone, WorkFails, Decide, memory

LEMMA PersistFinal ==
  ASSUME NEW t \in Threads, Persist(t) PROVE UNCHANGED memory
  BY DEF Persist, ListJobs, DumpRows, CommitRows, FallBack

\* What is worked on, counted and shown fits together.
THEOREM WorkFitsTogether == Spec => []WorkIsSound
<1>1. SoleWorker /\ NoWorkAfterEnd /\ RunningIsHeld => WorkIsSound
  BY DEF WorkIsSound
<1>2. QED BY <1>1, OneWorkerPerJob, NoWorkOnAFinishedJob, CountedRunningIsHeld, PTL

\* While the process runs a result is final, and a job leaves _jobs only after
\* it has one.
THEOREM ResultsAreFinal == Spec => ResultIsFinal
<1> DEFINE Final == \/ restarts' # restarts
                    \/ \A j \in known :
                         /\ status[j] \in Terminal => status'[j] = status[j]
                         /\ j \notin known' => status[j] \in Terminal
<1>1. IInv /\ [Next]_vars => [Final]_vars
  <2> SUFFICES ASSUME IInv, Next PROVE Final
    OBVIOUS
  <2>0. known \subseteq Jobs
    BY DEF IInv, TypeOK
  <2>1. CASE Restart
    <3>1. restarts \in Nat /\ restarts' = restarts + 1
      BY <2>1, BoundsAssumption DEF IInv, TypeOK, Restart
    <3>2. QED BY <3>1
  <2>2. ASSUME NEW t \in Threads, Persist(t) PROVE Final
    BY <2>2, PersistFinal DEF memory
  <2>3. ASSUME NEW c \in Clients, Call(c) \/ Continue(c) PROVE Final
    <3>1. \A j \in known \ known' : status[j] \in Terminal
      BY <2>3, CleanupKeeps
      DEF Call, Continue, StartSubmit, StartCancel, GetJob, SetJob, Enqueue, Register,
          MarkNothing, MarkCancelling, Revoke, Settle, memory
    <3>2. QED BY <2>0, <2>3, <3>1, ClientFinal
  <2>4. ASSUME NEW w \in Workers, Advance(w) \/ Progress(w) \/ WorkEnds(w) PROVE Final
    <3>1. known' = known
      BY <2>4
      DEF Advance, Take, CheckCancel, CheckAfter, CheckRetry, Finally, Progress,
          WorkEnds, WorkDone, WorkFails, Decide, memory,
          PatchProgress, Succeed, Fail, Drop, Record, Begin, Requeue
    <3>2. QED BY <2>0, <2>4, <3>1, WorkerFinal
  <2>5. QED BY <2>1, <2>2, <2>3, <2>4 DEF Next
<1>2. QED BY <1>1, Invariance, PTL DEF Spec, ResultIsFinal

LEMMA SavedRowsAgree ==
  ASSUME TypeOK, TableInv, TypeOK',
         \A j \in Jobs : status[j] \in Terminal => status'[j] = status[j],
         UNCHANGED table,
         \A t \in Threads : save'[t].rows \in {save[t].rows, NoRows}
  PROVE  TableInv'
<1>1. RowsAgree(table)'
  BY DEF TableInv, RowsAgree
<1>2. ASSUME NEW t \in Threads PROVE RowsAgree(save[t].rows)'
  BY <1>2 DEF TableInv, RowsAgree, NoRows, NoRow, Terminal
<1>3. QED BY <1>1, <1>2 DEF TableInv

\* What the table says of a finished job is what memory says.
THEOREM TableAgreesWithResults == Spec => []TableNeverContradicts
<1>1. Init => TableInv
  BY DEF Init, TableInv, RowsAgree, NoRows, NoRow, Idle, Terminal
<1>2. IInv /\ TypeOK' /\ TableInv /\ [Next]_vars => TableInv'
  <2> SUFFICES ASSUME IInv, TypeOK', TableInv, [Next]_vars PROVE TableInv'
    OBVIOUS
  <2> USE DEF IInv
  <2>0. save \in [Threads -> SaveState] /\ MustSave.rows = NoRows /\ Idle.rows = NoRows
    BY DEF TypeOK, MustSave, Idle
  <2>1. CASE UNCHANGED vars
    BY <2>1 DEF vars, memory, disk, TableInv, RowsAgree
  <2>2. ASSUME NEW c \in Clients, Call(c) \/ Continue(c) PROVE TableInv'
    <3>1. UNCHANGED table
      BY <2>2 DEF Call, Continue, StartSubmit, StartCancel, GetJob, SetJob, Enqueue,
                  Register, MarkNothing, MarkCancelling, Revoke, Settle, disk
    <3>2. UNCHANGED save \/ Saving(c)
      BY <2>2 DEF Call, Continue, StartSubmit, StartCancel, GetJob, SetJob, Enqueue,
                  Register, MarkNothing, MarkCancelling, Revoke, Settle, Patch, Cleanup
    <3>3. \A t \in Threads : save'[t].rows \in {save[t].rows, NoRows}
      BY <2>0, <3>2 DEF Saving
    <3>4. QED BY <2>2, <3>1, <3>3, ClientFinal, SavedRowsAgree
  <2>3. ASSUME NEW w \in Workers, Advance(w) \/ Progress(w) \/ WorkEnds(w) PROVE TableInv'
    <3>1. UNCHANGED table
      BY <2>3
      DEF Advance, Take, CheckCancel, CheckAfter, CheckRetry, Finally, Progress,
          WorkEnds, WorkDone, WorkFails, Decide, disk,
          PatchProgress, Succeed, Fail, Drop, Record, Begin, Requeue
    <3>2. UNCHANGED save \/ Saving(w)
      BY <2>3
      DEF Advance, Take, CheckCancel, CheckAfter, CheckRetry, Finally, Progress,
          WorkEnds, WorkDone, WorkFails, Decide,
          PatchProgress, Succeed, Fail, Drop, Record, Begin, Requeue, Patch
    <3>3. \A t \in Threads : save'[t].rows \in {save[t].rows, NoRows}
      BY <2>0, <3>2 DEF Saving
    <3>4. QED BY <2>3, <3>1, <3>3, WorkerFinal, SavedRowsAgree
  <2>4. ASSUME NEW t \in Threads, Persist(t) PROVE TableInv'
    <3>1. UNCHANGED status
      BY <2>4, PersistFinal DEF memory
    <3>2. table' = table \/ table' = save[t].rows
      BY <2>4 DEF Persist, ListJobs, DumpRows, CommitRows, FallBack, disk
    <3>3. RowsAgree(table)'
      BY <3>1, <3>2 DEF TableInv, RowsAgree
    <3>4. \A E : RowsAgree(RowsOf(E))
      BY DEF RowsAgree, RowsOf, NoRow, Terminal
    <3>5. \A u \in Threads : \/ save'[u].rows \in {save[u].rows, NoRows}
                             \/ \E E : save'[u].rows = RowsOf(E)
      BY <2>0, <2>4 DEF Persist, ListJobs, DumpRows, CommitRows, FallBack
    <3>6. RowsAgree(NoRows)
      BY DEF RowsAgree, NoRows, NoRow, Terminal
    <3>7. \A u \in Threads : RowsAgree(save'[u].rows)
      BY <3>4, <3>5, <3>6 DEF TableInv
    <3>8. \A u \in Threads : RowsAgree(save[u].rows)'
      BY <3>1, <3>7 DEF RowsAgree
    <3>9. QED BY <3>3, <3>8 DEF TableInv
  <2>5. CASE Restart
    <3> DEFINE source == IF \A j \in Jobs : table[j] = NoRow THEN jobsFile ELSE table
               loaded == {j \in Jobs : source[j] # NoRow}
    <3>1. \A j \in loaded : status'[j] = Fate(source[j])
      BY <2>5 DEF Restart
    <3>2. \A j \in Jobs : source[j].status \in Terminal => status'[j] = source[j].status
      BY <3>1 DEF Fate, NoRow, Terminal
    <3>3. \A j \in Jobs : \/ table'[j] = source[j]
                          \/ table'[j] = NoRow
                          \/ j \in loaded /\ table'[j].status = status'[j]
      BY <2>5 DEF Restart
    <3>4. RowsAgree(table)'
      BY <3>2, <3>3 DEF RowsAgree, NoRow, Terminal
    <3>5. \A t \in Threads : save'[t].rows = NoRows
      BY <2>5 DEF Restart, Idle
    <3>6. \A t \in Threads : RowsAgree(save[t].rows)'
      BY <3>5 DEF RowsAgree, NoRows, NoRow, Terminal
    <3>7. QED BY <3>4, <3>6 DEF TableInv
  <2>6. QED BY <2>1, <2>2, <2>3, <2>4, <2>5 DEF Next
<1>3. TypeOK /\ TableInv => TableNeverContradicts
  BY DEF TableInv, RowsAgree, TableNeverContradicts, TypeOK
<1>4. IInv => TypeOK
  BY DEF IInv
<1>5. QED BY <1>1, <1>2, <1>3, <1>4, Invariance, PTL DEF Spec

-----------------------------------------------------------------------------
(* What callers see of a job, for the refinement of JobLifecycle: LifeInv  *)
(* counts the attempts of a job where the workers are, and says why a      *)
(* result that is shown, saved or about to be saved was earned.            *)

\* A job that no attempt has been made of.
Unstarted(j) == begun[j] = 0 /\ retries[j] = 0 /\ late[j] = 0

UnstartedInv ==
  /\ \A j \in Jobs : status[j] = "none" \/ future[j] = "pending" => Unstarted(j)
  /\ \A c \in Clients : cpc[c] = "enqueue" => Unstarted(cjob[c])

\* A worker's attempt is counted when it starts, and is the last one the job
\* may have if it starts late, after somebody asked to cancel.
Attempted == {"exec", "progress", "return", "succeed", "raise", "requeue", "fail"}
AttemptOk(w) ==
  LET j == wjob[w] IN
  /\ wpc[w] \in {"check", "begin"} =>
       begun[j] = retries[j] /\ retries[j] <= MaxRetries[j] /\ late[j] = 0
  /\ wpc[w] \in Attempted => begun[j] = retries[j] + 1 /\ (late[j] > 0 => cancel[j])
  /\ wpc[w] = "requeue" => retries[j] < MaxRetries[j] /\ late[j] = 0
  /\ wpc[w] = "drop" => cancel[j]
AttemptInv == \A w \in Workers : AttemptOk(w)

\* Nobody cancels unasked.
AskedInv == \A c \in Clients : cpc[c] \in {"revoke", "settle"} => cancel[cjob[c]]

\* A success was worked for and a cancellation asked for, in memory and in
\* the rows that were saved or are about to be; a job never submitted has none.
EarnedInv ==
  \A j \in Jobs : /\ status[j] = "success" => begun[j] > 0
                  /\ status[j] = "cancelled" => cancel[j]
RowsEarned(r) ==
  \A j \in Jobs : /\ status[j] = "none" => r[j] = NoRow
                  /\ r[j].status = "success" => begun[j] > 0
                  /\ r[j].status = "cancelled" => r[j].cancel
RowsEarnedInv ==
  /\ RowsEarned(table) /\ RowsEarned(jobsFile)
  /\ \A t \in Threads : /\ RowsEarned(save[t].rows)
                        /\ \A j \in save[t].ids : status[j] # "none"

LifeInv == UnstartedInv /\ AttemptInv /\ AskedInv /\ EarnedInv /\ RowsEarnedInv

LEMMA LifeInit == Init => LifeInv
<1> SUFFICES ASSUME Init PROVE LifeInv
  OBVIOUS
<1>1. UnstartedInv /\ AttemptInv /\ AskedInv
  BY DEF Init, UnstartedInv, Unstarted, AttemptInv, AttemptOk, Attempted, AskedInv
<1>2. EarnedInv
  BY DEF Init, EarnedInv
<1>3. RowsEarned(NoRows)
  BY DEF RowsEarned, NoRows, NoRow
<1>4. RowsEarnedInv
  BY <1>3 DEF Init, RowsEarnedInv, Idle
<1>5. QED BY <1>1, <1>2, <1>4 DEF LifeInv

\* The rows go on being earned while no job loses its start or its attempts.
LEMMA RowsEarnedStep ==
  ASSUME TypeOK, TypeOK', RowsEarnedInv,
         \A j \in Jobs : /\ status'[j] = "none" => status[j] = "none"
                         /\ begun'[j] >= begun[j],
         UNCHANGED <<table, jobsFile>>,
         \A t \in Threads : \/ save'[t] = save[t]
                            \/ save'[t].rows = NoRows /\ save'[t].ids = {}
  PROVE  RowsEarnedInv'
<1>1. begun \in [Jobs -> Nat] /\ begun' \in [Jobs -> Nat]
  BY DEF TypeOK
<1>2. ASSUME NEW r, RowsEarned(r)
      PROVE  \A j \in Jobs : /\ status'[j] = "none" => r[j] = NoRow
                             /\ r[j].status = "success" => begun'[j] > 0
                             /\ r[j].status = "cancelled" => r[j].cancel
  BY <1>1, <1>2 DEF RowsEarned
<1>3. RowsEarned(table)' /\ RowsEarned(jobsFile)'
  BY <1>2 DEF RowsEarnedInv, RowsEarned
<1>4. ASSUME NEW t \in Threads
      PROVE  RowsEarned(save[t].rows)' /\ \A j \in save'[t].ids : status'[j] # "none"
  <2>1. CASE save'[t] = save[t]
    <3>1. save[t].ids \in SUBSET Jobs
      BY DEF TypeOK, SaveState
    <3>2. QED BY <1>2, <2>1, <3>1 DEF RowsEarnedInv, RowsEarned
  <2>2. CASE save'[t].rows = NoRows /\ save'[t].ids = {}
    BY <2>2 DEF RowsEarned, NoRows, NoRow
  <2>3. QED BY <2>1, <2>2
<1>5. QED BY <1>3, <1>4 DEF RowsEarnedInv

LEMMA SavingKeeps ==
  ASSUME TypeOK, NEW t \in Threads, Saving(t) \/ UNCHANGED save
  PROVE  \A u \in Threads : \/ save'[u] = save[u]
                            \/ save'[u].rows = NoRows /\ save'[u].ids = {}
  BY DEF TypeOK, Saving, MustSave

LEMMA PersistLife ==
  ASSUME IInv, TypeOK', LifeInv, NEW t \in Threads, Persist(t) PROVE LifeInv'
<1>0. TypeOK /\ StatusInv /\ EarnedInv
  BY DEF IInv, PlaceInv, LifeInv
<1>1. UNCHANGED <<memory, pool, workers, clients, history>>
  BY DEF Persist, ListJobs, DumpRows, CommitRows, FallBack
<1>2. UnstartedInv' /\ AttemptInv' /\ AskedInv' /\ EarnedInv'
  BY <1>1 DEF LifeInv, UnstartedInv, Unstarted, AttemptInv, AttemptOk, AskedInv, EarnedInv,
              memory, pool, workers, clients, history
<1>3. ASSUME NEW r, RowsEarned(r)
      PROVE  \A j \in Jobs : /\ status'[j] = "none" => r[j] = NoRow
                             /\ r[j].status = "success" => begun'[j] > 0
                             /\ r[j].status = "cancelled" => r[j].cancel
  BY <1>1, <1>3 DEF memory, history, RowsEarned
<1>4. save[t].rows \in [Jobs -> Row] /\ save[t].ids \in SUBSET Jobs
  BY <1>0 DEF TypeOK, SaveState
<1>5. /\ RowsEarned(table) /\ RowsEarned(jobsFile)
      /\ \A u \in Threads : RowsEarned(save[u].rows) /\ \A j \in save[u].ids : status[j] # "none"
  BY DEF LifeInv, RowsEarnedInv
<1>6. table' \in {table, save[t].rows} /\ jobsFile' \in {jobsFile, save[t].rows}
  BY DEF Persist, ListJobs, DumpRows, CommitRows, FallBack, disk
<1>7. RowsEarned(table)' /\ RowsEarned(jobsFile)'
  BY <1>3, <1>5, <1>6 DEF RowsEarned
<1>8. ASSUME NEW u \in Threads
      PROVE  RowsEarned(save[u].rows)' /\ \A j \in save'[u].ids : status'[j] # "none"
  <2>1. \/ save'[u] = save[u]
        \/ save'[u].rows = NoRows /\ save'[u].ids \in {{}, known}
        \/ save'[u].rows = RowsOf(save[u].ids) /\ save'[u].ids = {}
    BY <1>0 DEF Persist, ListJobs, DumpRows, CommitRows, FallBack, Idle, TypeOK
  <2>2. \A j \in known : status[j] # "none"
    BY <1>0 DEF StatusInv, TypeOK
  <2>3. RowsEarned(NoRows)'
    BY DEF RowsEarned, NoRows, NoRow
  <2>4. RowsEarned(RowsOf(save[u].ids))
    BY <1>0, <1>5 DEF RowsEarned, RowsOf, EarnedInv, NoRow
  <2>5. CASE save'[u] = save[u]
    BY <1>0, <1>1, <1>3, <1>5, <2>5 DEF RowsEarned, memory
  <2>6. CASE save'[u].rows = NoRows /\ save'[u].ids \in {{}, known}
    BY <1>1, <2>2, <2>3, <2>6 DEF RowsEarned, memory
  <2>7. CASE save'[u].rows = RowsOf(save[u].ids) /\ save'[u].ids = {}
    BY <1>3, <2>4, <2>7 DEF RowsEarned
  <2>8. QED BY <2>1, <2>5, <2>6, <2>7
<1>9. QED BY <1>2, <1>7, <1>8 DEF LifeInv, RowsEarnedInv

LEMMA ClientLife ==
  ASSUME IInv, TypeOK', LifeInv, NEW c \in Clients, Call(c) \/ Continue(c)
  PROVE  LifeInv'
<1> USE DEF At, Move
<1>0. /\ TypeOK /\ ClientOk(c) /\ StatusInv /\ c \in Threads /\ cjob[c] \in Jobs
      /\ cpc \in [Clients -> ClientPc] /\ cjob \in [Clients -> Jobs]
      /\ status \in [Jobs -> Status] /\ future \in [Jobs -> FutureState]
      /\ cancel \in [Jobs -> BOOLEAN]
  BY DEF IInv, PlaceInv, ClientInv, TypeOK, Threads
<1>1. /\ UNCHANGED <<retries, begun, late, wpc, wjob, table, jobsFile>>
      /\ Saving(c) \/ UNCHANGED save
  BY DEF Call, Continue, StartSubmit, StartCancel, GetJob, SetJob, Enqueue, Register,
         MarkNothing, MarkCancelling, Revoke, Settle, Patch, Cleanup, memory, workers,
         history, disk
<1>2. /\ \A j \in Jobs : cancel[j] => cancel'[j]
      /\ \A j \in Jobs : status'[j] = "none" => status[j] = "none"
  BY <1>0 DEF Call, Continue, StartSubmit, StartCancel, GetJob, SetJob, Enqueue, Register,
         MarkNothing, MarkCancelling, Revoke, Settle, Patch, memory
<1>3. AttemptInv'
  BY <1>0, <1>1, <1>2 DEF LifeInv, AttemptInv, AttemptOk, TypeOK
<1>4. \A j \in Jobs : future'[j] = "pending" => future[j] = "pending" \/ Unstarted(j)
  BY <1>0 DEF Call, Continue, StartSubmit, StartCancel, GetJob, SetJob, Enqueue, Register,
         MarkNothing, MarkCancelling, Revoke, Settle, Patch, memory, pool, LifeInv, UnstartedInv
<1>5. \A d \in Clients : cpc'[d] = "enqueue" => Unstarted(cjob'[d])
  BY <1>0 DEF Call, Continue, StartSubmit, StartCancel, GetJob, SetJob, Enqueue, Register,
         MarkNothing, MarkCancelling, Revoke, Settle, LifeInv, UnstartedInv, ClientOk
<1>6. UnstartedInv'
  BY <1>0, <1>1, <1>2, <1>4, <1>5 DEF LifeInv, UnstartedInv, Unstarted
<1>7. AskedInv'
  BY <1>0, <1>2 DEF Call, Continue, StartSubmit, StartCancel, GetJob, SetJob, Enqueue, Register,
         MarkNothing, MarkCancelling, Revoke, Settle, LifeInv, AskedInv
<1>8. EarnedInv'
  <2>1. \A j \in Jobs : status'[j] \in {"success", "cancelled"} =>
          status'[j] = status[j] \/ (status'[j] = "cancelled" /\ cancel[j])
    <3>1. CASE Settle(c)
      BY <1>0, <3>1 DEF Settle, Patch, LifeInv, AskedInv
    <3>2. CASE SetJob(c) \/ MarkCancelling(c)
      BY <1>0, <3>2 DEF SetJob, MarkCancelling
    <3>3. CASE UNCHANGED status
      BY <3>3
    <3>4. QED
      BY <3>1, <3>2, <3>3 DEF Call, Continue, StartSubmit, StartCancel, GetJob, Enqueue,
         Register, MarkNothing, Revoke, memory
  <2>2. QED BY <1>1, <1>2, <2>1 DEF LifeInv, EarnedInv
<1>9. RowsEarnedInv'
  <2>1. \A u \in Threads : \/ save'[u] = save[u]
                           \/ save'[u].rows = NoRows /\ save'[u].ids = {}
    BY <1>0, <1>1, SavingKeeps
  <2>2. \A j \in Jobs : begun'[j] >= begun[j]
    BY <1>0, <1>1 DEF TypeOK
  <2>3. QED BY <1>0, <1>1, <1>2, <2>1, <2>2, RowsEarnedStep DEF LifeInv
<1>10. QED BY <1>3, <1>6, <1>7, <1>8, <1>9 DEF LifeInv

\* A worker stays with its job, k, or leaves it.
WorkerSteps(w, k) ==
  /\ Busy(w) /\ wjob[w] = k
  /\ UNCHANGED <<cancel, cpc, cjob, table, jobsFile>>
  /\ Saving(w) \/ UNCHANGED save
  /\ \A v \in Workers \ {w} : wpc'[v] = wpc[v] /\ wjob'[v] = wjob[v]
  /\ \A j \in Jobs \ {k} : /\ status'[j] = status[j] /\ retries'[j] = retries[j]
                           /\ begun'[j] = begun[j] /\ late'[j] = late[j]
                           /\ future'[j] = future[j]
  /\ status'[k] # "none" /\ future'[k] # "pending" /\ begun'[k] >= begun[k]

LEMMA WorkerStepLife ==
  ASSUME IInv, TypeOK', LifeInv, NEW w \in Workers, NEW k \in Jobs, WorkerSteps(w, k),
         AttemptOk(w)',
         status'[k] = "success" => begun'[k] > 0,
         status'[k] = "cancelled" => cancel[k]
  PROVE  LifeInv'
<1> USE DEF WorkerSteps
<1>0. /\ TypeOK /\ SoleWorker /\ StatusInv /\ WorkerOk(w) /\ w \in Threads
      /\ \A c \in Clients : ClientOk(c)
  BY DEF IInv, PlaceInv, WorkerInv, ClientInv, Threads
<1>1. status[k] # "none" /\ future[k] = "running"
  BY <1>0 DEF WorkerOk, StatusInv
<1>2. \A c \in Clients : cpc[c] = "enqueue" => cjob[c] \in Jobs \ {k}
  BY <1>0, <1>1 DEF ClientOk, TypeOK
<1>3. UnstartedInv'
  BY <1>0, <1>1, <1>2 DEF LifeInv, UnstartedInv, Unstarted
<1>4. ASSUME NEW v \in Workers PROVE AttemptOk(v)'
  <2>1. CASE v # w /\ Busy(v)
    <3>1. wjob[v] \in Jobs \ {k}
      BY <1>0, <2>1 DEF SoleWorker, TypeOK
    <3>2. QED BY <2>1, <3>1 DEF LifeInv, AttemptInv, AttemptOk
  <2>2. CASE v # w /\ ~Busy(v)
    BY <2>2 DEF AttemptOk, Attempted, Busy
  <2>3. QED BY <2>1, <2>2
<1>5. AskedInv' /\ EarnedInv'
  BY DEF LifeInv, AskedInv, EarnedInv
<1>6. RowsEarnedInv'
  <2>1. \A u \in Threads : \/ save'[u] = save[u]
                           \/ save'[u].rows = NoRows /\ save'[u].ids = {}
    BY <1>0, SavingKeeps
  <2>2. \A j \in Jobs : status'[j] = "none" => status[j] = "none"
    BY <1>0
  <2>3. ASSUME NEW j \in Jobs PROVE begun'[j] >= begun[j]
    <3>1. begun[j] \in Nat
      BY <1>0 DEF TypeOK
    <3>2. CASE j = k
      BY <3>2
    <3>3. CASE j # k
      BY <3>1, <3>3
    <3>4. QED BY <3>2, <3>3
  <2>4. QED BY <1>0, <2>1, <2>2, <2>3, RowsEarnedStep DEF LifeInv
<1>7. QED BY <1>3, <1>4, <1>5, <1>6 DEF LifeInv, AttemptInv

LEMMA WorkerLife ==
  ASSUME IInv, TypeOK', LifeInv, NEW w \in Workers,
         Advance(w) \/ Progress(w) \/ WorkEnds(w)
  PROVE  LifeInv'
<1> USE DEF On, Goto, clients, disk
<1>k. PICK k \in Jobs : k = wjob[w]
  BY DEF IInv, TypeOK
<1>0. /\ TypeOK /\ WorkerOk(w) /\ QueueInv /\ w \in Threads /\ AttemptOk(w)
      /\ wpc \in [Workers -> WorkerPc] /\ wjob \in [Workers -> Jobs]
      /\ status \in [Jobs -> Status] /\ begun \in [Jobs -> Nat] /\ late \in [Jobs -> Nat]
      /\ retries \in [Jobs -> Nat] /\ cancel \in [Jobs -> BOOLEAN]
      /\ future \in [Jobs -> FutureState] /\ StatusInv /\ queue \in Seq(Jobs)
  BY DEF IInv, PlaceInv, WorkerInv, TypeOK, Threads, LifeInv, AttemptInv
<1>0a. \A j \in Jobs : MaxRetries[j] \in Nat
  BY JobsAssumption
<1>1. CASE Take(w)
  <2>1. PICK j \in Jobs : j = Head(queue) /\ j = queue[1] /\ 1 \in 1..Len(queue)
    BY <1>0, <1>1 DEF Take
  <2>2. CASE future[j] = "cancelled"
    BY <1>1, <2>1, <2>2 DEF Take, LifeInv, UnstartedInv, Unstarted, AttemptInv, AttemptOk,
       AskedInv, EarnedInv, RowsEarnedInv, RowsEarned, memory, history
  <2>3. CASE future[j] # "cancelled"
    <3>1. /\ UNCHANGED <<status, cancel, retries, begun, late, cpc, cjob, save, table, jobsFile>>
          /\ future' = [future EXCEPT ![j] = "running"]
          /\ wpc' = [wpc EXCEPT ![w] = "check"] /\ wjob' = [wjob EXCEPT ![w] = j]
      BY <1>1, <2>1, <2>3 DEF Take, memory, history
    <3>2. future[j] = "pending"
      BY <1>0, <2>1, <2>3 DEF QueueInv
    <3>3. Unstarted(j)
      BY <3>2 DEF LifeInv, UnstartedInv
    <3>4. AttemptOk(w)'
      BY <1>0, <1>0a, <3>1, <3>3 DEF AttemptOk, Attempted, Unstarted
    <3>5. AttemptInv'
      BY <1>0, <3>1, <3>4 DEF LifeInv, AttemptInv, AttemptOk
    <3>6. UnstartedInv' /\ AskedInv' /\ EarnedInv'
      BY <1>0, <3>1 DEF LifeInv, UnstartedInv, Unstarted, AskedInv, EarnedInv
    <3>7. RowsEarnedInv'
      BY <3>1 DEF LifeInv, RowsEarnedInv, RowsEarned
    <3>8. QED BY <3>5, <3>6, <3>7 DEF LifeInv
  <2>4. QED BY <2>2, <2>3
<1>2. ASSUME NEW from \in WorkerPc, NEW to \in WorkerPc, Decide(w, from, to),
             from # "idle", AttemptOk(w)'
      PROVE  LifeInv'
  <2>1. /\ UNCHANGED <<status, cancel, retries, begun, late, future, wjob, cpc, cjob, save,
                       table, jobsFile>>
        /\ wpc[w] = from /\ wpc' = [wpc EXCEPT ![w] = to]
    BY <1>2 DEF Decide, memory, pool, history
  <2>2. Busy(w) /\ future[k] = "running" /\ status[k] # "none"
    BY <1>k, <1>0, <1>2, <2>1 DEF Busy, WorkerOk, StatusInv
  <2>3. WorkerSteps(w, k)
    BY <1>k, <1>0, <2>1, <2>2 DEF WorkerSteps
  <2>4. QED BY <1>2, <2>1, <2>3, WorkerStepLife DEF LifeInv, EarnedInv
<1>3. CASE CheckCancel(w) \/ Progress(w) \/ WorkEnds(w) \/ CheckAfter(w) \/ CheckRetry(w)
  <2>1. PICK from, to \in WorkerPc :
          /\ Decide(w, from, to) /\ from # "idle"
          /\ \/ from = "check" /\ to = "begin"
             \/ from \in {"check", "exec", "return"} /\ to = "drop" /\ cancel[k]
             \/ from = "exec" /\ to \in {"exec", "progress", "return", "succeed", "raise"}
             \/ from = "return" /\ to = "succeed"
             \/ from = "raise" /\ to = "requeue" /\ MayRetry(k)
             \/ from = "raise" /\ to = "fail"
    BY <1>k, <1>3 DEF CheckCancel, Progress, WorkEnds, WorkDone, WorkFails,
                CheckAfter, CheckRetry, WorkerPc
  <2>2. /\ UNCHANGED <<cancel, retries, begun, late, wjob>> /\ wpc[w] = from /\ wpc'[w] = to
    BY <1>0, <2>1 DEF Decide, memory, pool, history
  <2>3. AttemptOk(w)'
    BY <1>k, <1>0, <2>1, <2>2 DEF AttemptOk, Attempted, MayRetry
  <2>4. QED BY <1>2, <2>1, <2>3
<1>4. ASSUME NEW from \in WorkerPc, NEW to \in WorkerPc, NEW s \in Status, from # "idle",
             /\ wpc[w] = from /\ wpc' = [wpc EXCEPT ![w] = to] /\ Patch(w, k, s)
             /\ UNCHANGED <<known, cancel, future, wjob, cpc, cjob, table, jobsFile>>
             /\ \A j \in Jobs \ {k} : /\ retries'[j] = retries[j] /\ begun'[j] = begun[j]
                                      /\ late'[j] = late[j]
             /\ begun'[k] >= begun[k],
             from # "finally", s # "none", AttemptOk(w)',
             s = "success" => begun'[k] > 0, s = "cancelled" => cancel[k]
      PROVE  LifeInv'
  <2>1. Busy(w) /\ future[k] = "running" /\ k \in known
    BY <1>k, <1>0, <1>4 DEF Busy, WorkerOk
  <2>2. status' = [status EXCEPT ![k] = s] /\ Saving(w)
    BY <1>4, <2>1 DEF Patch
  <2>3. WorkerSteps(w, k)
    BY <1>k, <1>0, <1>4, <2>1, <2>2 DEF WorkerSteps
  <2>4. QED BY <1>0, <1>4, <2>2, <2>3, WorkerStepLife
<1>5. CASE PatchProgress(w) \/ Succeed(w) \/ Fail(w) \/ Drop(w)
  <2>1. PICK from, to \in WorkerPc, s \in Status :
          /\ Record(w, from, s, to)
          /\ \/ from = "progress" /\ s = "running" /\ to = "exec"
             \/ from = "succeed" /\ s = "success" /\ to = "finally"
             \/ from = "fail" /\ s = "failed" /\ to = "finally"
             \/ from = "drop" /\ s = "cancelled" /\ to = "finally"
    BY <1>5 DEF PatchProgress, Succeed, Fail, Drop, WorkerPc, Status, Active, Terminal
  <2>2. /\ wpc[w] = from /\ wpc' = [wpc EXCEPT ![w] = to] /\ Patch(w, k, s)
        /\ UNCHANGED <<known, cancel, retries, begun, late, future, wjob, cpc, cjob, table,
                       jobsFile>>
    BY <1>k, <2>1 DEF Record, pool, history
  <2>3. AttemptOk(w)'
    BY <1>k, <1>0, <2>1, <2>2 DEF AttemptOk, Attempted
  <2>4. s = "success" => begun[k] > 0
    BY <1>k, <1>0, <2>1, <2>2 DEF AttemptOk, Attempted
  <2>5. s = "cancelled" => cancel[k]
    BY <1>k, <1>0, <2>1, <2>2 DEF AttemptOk
  <2>6. begun'[k] >= begun[k]
    BY <1>0, <2>2
  <2>7. QED BY <1>4, <2>1, <2>2, <2>3, <2>4, <2>5, <2>6
<1>6. CASE Begin(w)
  <2>1. /\ wpc[w] = "begin" /\ wpc' = [wpc EXCEPT ![w] = "exec"] /\ Patch(w, k, "running")
        /\ begun' = [begun EXCEPT ![k] = @ + 1]
        /\ late' = [late EXCEPT ![k] = IF cancel[k] THEN @ + 1 ELSE @]
        /\ UNCHANGED <<known, cancel, retries, future, wjob, cpc, cjob, table, jobsFile>>
    BY <1>k, <1>6 DEF Begin, pool
  <2>2. AttemptOk(w)'
    BY <1>k, <1>0, <2>1 DEF AttemptOk, Attempted
  <2>3. begun'[k] >= begun[k]
    BY <1>0, <2>1
  <2>4. QED BY <1>0, <1>4, <2>1, <2>2, <2>3 DEF WorkerPc, Status, Active
<1>7. CASE Requeue(w)
  <2>1. /\ wpc[w] = "requeue" /\ wpc' = [wpc EXCEPT ![w] = "check"] /\ Patch(w, k, "queued")
        /\ retries' = [retries EXCEPT ![k] = @ + 1]
        /\ UNCHANGED <<known, cancel, begun, late, future, wjob, cpc, cjob, table, jobsFile>>
    BY <1>k, <1>7 DEF Requeue, pool, history
  <2>2. AttemptOk(w)'
    BY <1>k, <1>0, <1>0a, <2>1 DEF AttemptOk, Attempted
  <2>3. begun'[k] >= begun[k]
    BY <1>0, <2>1
  <2>4. QED BY <1>0, <1>4, <2>1, <2>2, <2>3 DEF WorkerPc, Status, Active
<1>8. CASE Finally(w)
  <2>1. /\ wpc[w] = "finally" /\ wpc' = [wpc EXCEPT ![w] = "idle"]
        /\ wjob' = [wjob EXCEPT ![w] = NoJob] /\ future' = [future EXCEPT ![k] = "done"]
        /\ UNCHANGED <<status, cancel, retries, begun, late, cpc, cjob, save, table, jobsFile>>
    BY <1>k, <1>8 DEF Finally, memory, history
  <2>2. Busy(w) /\ status[k] # "none"
    BY <1>k, <1>0, <2>1 DEF Busy, WorkerOk, StatusInv
  <2>3. AttemptOk(w)'
    BY <1>0, <2>1 DEF AttemptOk, Attempted
  <2>4. WorkerSteps(w, k)
    BY <1>k, <1>0, <2>1, <2>2 DEF WorkerSteps
  <2>5. QED BY <2>1, <2>3, <2>4, WorkerStepLife DEF LifeInv, EarnedInv
<1>9. QED BY <1>1, <1>3, <1>5, <1>6, <1>7, <1>8 DEF Advance

LEMMA RestartLife == ASSUME IInv, TypeOK', LifeInv, Restart PROVE LifeInv'
<1> DEFINE source == IF \A j \in Jobs : table[j] = NoRow THEN jobsFile ELSE table
           loaded == {j \in Jobs : source[j] # NoRow}
<1>1. RowsEarned(source) /\ source \in [Jobs -> Row]
  BY DEF LifeInv, RowsEarnedInv, IInv, TypeOK
<1>2. /\ \A j \in loaded : /\ status[j] # "none"
                           /\ status'[j] = Fate(source[j]) /\ status'[j] \in Terminal
                           /\ cancel'[j] = source[j].cancel
      /\ \A j \in Jobs \ loaded : status'[j] = status[j] /\ cancel'[j] = cancel[j]
      /\ UNCHANGED <<retries, begun, late, jobsFile>>
      /\ \A j \in Jobs : future'[j] = "none"
      /\ \A w \in Workers : wpc'[w] = "idle"
      /\ \A c \in Clients : cpc'[c] = "idle"
      /\ \A t \in Threads : save'[t] = Idle
  BY <1>1 DEF Restart, history, Fate, Terminal, RowsEarned
<1>3. UnstartedInv' /\ AttemptInv' /\ AskedInv'
  BY <1>2 DEF LifeInv, UnstartedInv, Unstarted, AttemptInv, AttemptOk, Attempted, AskedInv,
     Terminal
<1>4. EarnedInv'
  BY <1>1, <1>2 DEF LifeInv, EarnedInv, Fate, RowsEarned, Terminal
<1>5. RowsEarned(jobsFile)'
  BY <1>2 DEF LifeInv, RowsEarnedInv, RowsEarned, Terminal
<1>6. RowsEarned(table)'
  <2>1. \A j \in Jobs : \/ table'[j] = source[j]
                        \/ table'[j] = NoRow
                        \/ /\ j \in loaded /\ table'[j].status = status'[j]
                           /\ table'[j].cancel = cancel'[j]
    BY DEF Restart
  <2>2. \A j \in Jobs : table'[j] = source[j] =>
          /\ status'[j] = "none" => table'[j] = NoRow
          /\ table'[j].status = "success" => begun'[j] > 0
          /\ table'[j].status = "cancelled" => table'[j].cancel
    <3> SUFFICES ASSUME NEW j \in Jobs, table'[j] = source[j]
                 PROVE  /\ status'[j] = "none" => table'[j] = NoRow
                        /\ table'[j].status = "success" => begun'[j] > 0
                        /\ table'[j].status = "cancelled" => table'[j].cancel
      OBVIOUS
    <3>1. /\ status[j] = "none" => source[j] = NoRow
          /\ source[j].status = "success" => begun[j] > 0
          /\ source[j].status = "cancelled" => source[j].cancel
      BY <1>1 DEF RowsEarned
    <3>2. status'[j] = "none" => table'[j] = NoRow
      BY <1>2, <3>1 DEF Terminal
    <3>3. QED BY <1>2, <3>1, <3>2
  <2>3. \A j \in loaded : table'[j].status = status'[j] /\ table'[j].cancel = cancel'[j] =>
          /\ status'[j] # "none"
          /\ table'[j].status = "success" => begun'[j] > 0
          /\ table'[j].status = "cancelled" => table'[j].cancel
    BY <1>2, <1>4 DEF EarnedInv, Terminal
  <2>4. QED BY <2>1, <2>2, <2>3 DEF RowsEarned, NoRow
<1>7. RowsEarned(NoRows)' /\ Idle.rows = NoRows /\ Idle.ids = {}
  BY DEF RowsEarned, NoRows, NoRow, Idle
<1>8. RowsEarnedInv'
  <2>1. \A t \in Threads : RowsEarned(save[t].rows)' /\ save'[t].ids = {}
    BY <1>2, <1>7 DEF RowsEarned
  <2>2. QED BY <1>5, <1>6, <2>1 DEF RowsEarnedInv
<1>9. QED BY <1>3, <1>4, <1>8 DEF LifeInv

LEMMA LifeInvariance == Spec => [](IInv /\ LifeInv)
<1>1. IInv /\ TypeOK' /\ LifeInv /\ [Next]_vars => LifeInv'
  <2> SUFFICES ASSUME IInv, TypeOK', LifeInv, [Next]_vars PROVE LifeInv'
    OBVIOUS
  <2>1. CASE UNCHANGED vars
    BY <2>1 DEF vars, memory, pool, workers, clients, disk, history, LifeInv, UnstartedInv,
       Unstarted, AttemptInv, AttemptOk, AskedInv, EarnedInv, RowsEarnedInv, RowsEarned
  <2>2. CASE Next
    BY <2>2, PersistLife, ClientLife, WorkerLife, RestartLife DEF Next
  <2>3. QED BY <2>1, <2>2
<1>2. IInv => TypeOK
  BY DEF IInv
<1>3. QED BY <1>1, <1>2, LifeInit, Invariance, PTL DEF Spec

-----------------------------------------------------------------------------
(* The refinement: what callers see is JobLifecycle, step by step.         *)

Outcome  == [j \in Jobs |-> IF status[j] \in Active THEN "open" ELSE status[j]]
WorkedOn == {j \in Jobs : \E w \in Workers : Working(w, j)}
seen     == <<Outcome, known, cancel, WorkedOn, begun, late>>

LEMMA UnseenSteps == ASSUME UNCHANGED seen PROVE UNCHANGED Lifecycle!jobVars
  BY DEF seen, Outcome, WorkedOn, Lifecycle!jobVars

\* A cleanup is a Forget, of nobody when nothing was due.
LEMMA CleanupForgets ==
  ASSUME IInv, NEW t \in Threads, Cleanup(t), UNCHANGED <<status, cancel, wpc, wjob, begun, late>>
  PROVE  Lifecycle!Next
<1>1. PICK E \in SUBSET {j \in Jobs : Removable(j)} : known' = known \ E
  BY DEF Cleanup
<1>2. UNCHANGED <<Outcome, WorkedOn>>
  BY DEF Outcome, WorkedOn, Working
<1>3. Lifecycle!Forget(E)
  BY <1>1, <1>2 DEF Lifecycle!Forget, Lifecycle!Results, Outcome, WorkedOn, Removable,
     Terminal, Active
<1>4. E \in SUBSET known
  BY <1>1 DEF Removable
<1>5. QED BY <1>3, <1>4 DEF Lifecycle!Next

LEMMA ClientFollows ==
  ASSUME IInv, LifeInv, NEW c \in Clients, Call(c) \/ Continue(c)
  PROVE  Lifecycle!Next \/ UNCHANGED Lifecycle!jobVars
<1> USE DEF At
<1>k. PICK k \in Jobs : k = cjob[c]
  BY DEF IInv, TypeOK
<1>0. /\ TypeOK /\ ClientOk(c) /\ FutureOk(k) /\ StatusInv /\ c \in Threads
      /\ status \in [Jobs -> Status] /\ cancel \in [Jobs -> BOOLEAN]
      /\ \A w \in Workers : WorkerOk(w)
  BY DEF IInv, PlaceInv, ClientInv, FutureInv, WorkerInv, TypeOK, Threads
<1>1. ASSUME NEW j \in Jobs, StartSubmit(c, j) \/ StartCancel(c, j) PROVE Lifecycle!Next
  BY <1>0, <1>1, CleanupForgets DEF StartSubmit, StartCancel, workers, history
<1>2. CASE GetJob(c)
  BY <1>0, <1>2, CleanupForgets DEF GetJob, workers, history
<1>3. CASE SetJob(c)
  <2>1. /\ known' = known \cup {k} /\ status' = [status EXCEPT ![k] = "queued"]
        /\ UNCHANGED <<cancel, wpc, wjob, begun, late>> /\ status[k] = "none"
    BY <1>k, <1>0, <1>3 DEF SetJob, workers, history, ClientOk
  <2>2. Outcome[k] = "none" /\ Outcome' = [Outcome EXCEPT ![k] = "open"] /\ WorkedOn' = WorkedOn
    BY <1>0, <2>1 DEF Outcome, WorkedOn, Working, Active
  <2>3. Lifecycle!Submit(k)
    BY <2>1, <2>2 DEF Lifecycle!Submit, Outcome, WorkedOn
  <2>4. QED BY <2>3 DEF Lifecycle!Next
<1>4. CASE MarkCancelling(c)
  <2>1. /\ status' = [status EXCEPT ![k] = "cancelling"] /\ k \in known
        /\ cancel' = [cancel EXCEPT ![k] = TRUE] /\ status[k] \notin Terminal
        /\ UNCHANGED <<known, wpc, wjob, begun, late>>
    BY <1>k, <1>0, <1>4 DEF MarkCancelling, Cancellable, workers, history
  <2>2. status[k] \in Active
    BY <1>0, <2>1 DEF StatusInv, Status
  <2>3. Outcome[k] = "open" /\ Outcome' = Outcome /\ WorkedOn' = WorkedOn
    BY <1>0, <2>1, <2>2 DEF Outcome, WorkedOn, Working, Active
  <2>4. Lifecycle!RequestCancel(k)
    BY <2>1, <2>3 DEF Lifecycle!RequestCancel, Outcome, WorkedOn
  <2>5. QED BY <2>4 DEF Lifecycle!Next
<1>5. CASE Settle(c)
  <2>1. /\ cpc[c] = "settle"
        /\ status' = IF k \in known THEN [status EXCEPT ![k] = "cancelled"] ELSE status
        /\ UNCHANGED <<known, cancel, wpc, wjob, begun, late>>
    BY <1>k, <1>5 DEF Settle, Patch, workers, history
  <2>2. WorkedOn' = WorkedOn
    BY <2>1 DEF WorkedOn, Working
  <2>3. CASE status' = status
    BY <2>1, <2>2, <2>3, UnseenSteps DEF seen, Outcome
  <2>4. CASE status' # status
    <3>1. k \in known /\ status[k] \in Waiting /\ future[k] = "cancelled"
      BY <1>k, <1>0, <2>1, <2>4 DEF ClientOk, FutureOk
    <3>2. k \notin WorkedOn
      BY <1>0, <3>1 DEF WorkedOn, Working, WorkerOk, Busy
    <3>3. cancel[k]
      BY <1>k, <2>1 DEF LifeInv, AskedInv
    <3>4. Outcome[k] = "open" /\ Outcome' = [Outcome EXCEPT ![k] = "cancelled"]
      BY <1>0, <2>1, <3>1 DEF Outcome, Active, Waiting
    <3>5. Lifecycle!Resolve(k, "cancelled")
      BY <2>1, <2>2, <3>1, <3>2, <3>3, <3>4 DEF Lifecycle!Resolve, Outcome, WorkedOn
    <3>6. QED BY <3>5 DEF Lifecycle!Next, Lifecycle!Results
  <2>5. QED BY <2>3, <2>4
<1>6. CASE Enqueue(c) \/ Register(c) \/ MarkNothing(c) \/ Revoke(c)
  BY <1>6, UnseenSteps DEF Enqueue, Register, MarkNothing, Revoke, memory, workers, history,
     seen, Outcome, WorkedOn, Working
<1>7. QED BY <1>1, <1>2, <1>3, <1>4, <1>5, <1>6 DEF Call, Continue

\* The worker that has a job is the only one whose steps show whether it is
\* worked on.
LEMMA OwnWork ==
  ASSUME IInv, NEW w \in Workers, NEW k \in Jobs, k = wjob[w], Busy(w), NEW to,
         wpc' = [wpc EXCEPT ![w] = to], UNCHANGED wjob
  PROVE  /\ k \in WorkedOn <=> wpc[w] \in {"exec", "progress"}
         /\ WorkedOn' = IF to \in {"exec", "progress"} THEN WorkedOn \cup {k}
                                                       ELSE WorkedOn \ {k}
<1>1. \A v \in Workers \ {w} : wpc'[v] = wpc[v] /\ (Busy(v) => wjob[v] # k)
  BY DEF IInv, PlaceInv, SoleWorker, TypeOK
<1>2. \A v \in Workers \ {w} : ~Working(v, k) /\ ~Working(v, k)'
  BY <1>1 DEF Working, Busy
<1>3. wpc'[w] = to
  BY DEF IInv, TypeOK
<1>4. k \in WorkedOn <=> wpc[w] \in {"exec", "progress"}
  BY <1>2 DEF WorkedOn, Working
<1>5. k \in WorkedOn' <=> to \in {"exec", "progress"}
  BY <1>2, <1>3 DEF WorkedOn, Working
<1>6. \A j \in Jobs \ {k}, v \in Workers : Working(v, j)' <=> Working(v, j)
  BY <1>1 DEF Working
<1>7. QED BY <1>4, <1>5, <1>6 DEF WorkedOn

LEMMA WorkerFollows ==
  ASSUME IInv, LifeInv, NEW w \in Workers, Advance(w) \/ Progress(w) \/ WorkEnds(w)
  PROVE  Lifecycle!Next \/ UNCHANGED Lifecycle!jobVars
<1> USE DEF On, Goto
<1>k. PICK k \in Jobs : k = wjob[w]
  BY DEF IInv, TypeOK
<1>0. /\ WorkerOk(w) /\ AttemptOk(w) /\ wpc \in [Workers -> WorkerPc]
      /\ wjob \in [Workers -> Jobs]
      /\ status \in [Jobs -> Status] /\ begun \in [Jobs -> Nat] /\ late \in [Jobs -> Nat]
      /\ retries \in [Jobs -> Nat]
  BY DEF IInv, PlaceInv, WorkerInv, TypeOK, LifeInv, AttemptInv
<1>m. MaxRetries[k] \in Nat
  BY JobsAssumption
\* A step that shows nothing but that the work goes on or has ended.
<1>1. ASSUME NEW to, wpc' = [wpc EXCEPT ![w] = to], Busy(w),
             UNCHANGED <<Outcome, known, cancel, wjob, begun, late>>,
             to \in {"exec", "progress"} => wpc[w] \in {"exec", "progress"}
      PROVE  Lifecycle!Next \/ UNCHANGED Lifecycle!jobVars
  <2>1. CASE WorkedOn' = WorkedOn
    BY <1>1, <2>1, UnseenSteps DEF seen
  <2>2. CASE WorkedOn' # WorkedOn
    <3>0. /\ k \in WorkedOn <=> wpc[w] \in {"exec", "progress"}
          /\ WorkedOn' = IF to \in {"exec", "progress"} THEN WorkedOn \cup {k}
                                                        ELSE WorkedOn \ {k}
      <4>1. k \in Jobs /\ k = wjob[w]
        BY <1>k
      <4>2. Busy(w) /\ wpc' = [wpc EXCEPT ![w] = to] /\ UNCHANGED wjob
        BY <1>1
      <4>3. QED BY <4>1, <4>2, OwnWork
    <3>1. k \in WorkedOn /\ WorkedOn' = WorkedOn \ {k}
      BY <1>1, <2>2, <3>0
    <3>2. Lifecycle!End(k)
      BY <1>1, <3>1 DEF Lifecycle!End, Outcome, WorkedOn
    <3>3. QED BY <3>2 DEF Lifecycle!Next
  <2>3. QED BY <2>1, <2>2
<1>2. ASSUME NEW from, NEW to, Decide(w, from, to), from # "idle",
             to \in {"exec", "progress"} => from = "exec"
      PROVE  Lifecycle!Next \/ UNCHANGED Lifecycle!jobVars
  <2>1. /\ UNCHANGED <<Outcome, known, cancel, wjob, begun, late>>
        /\ wpc[w] = from /\ wpc' = [wpc EXCEPT ![w] = to]
    BY <1>2 DEF Decide, memory, history, Outcome
  <2>2. Busy(w)
    BY <1>2, <2>1 DEF Busy
  <2>3. QED BY <1>1, <1>2, <2>1, <2>2
<1>3. CASE CheckCancel(w) \/ Progress(w) \/ WorkEnds(w) \/ CheckAfter(w) \/ CheckRetry(w)
  <2>1. PICK from, to : /\ Decide(w, from, to) /\ from # "idle"
                        /\ to \in {"exec", "progress"} => from = "exec"
    BY <1>3 DEF CheckCancel, Progress, WorkEnds, WorkDone, WorkFails, CheckAfter, CheckRetry
  <2>2. QED BY <1>2, <2>1
<1>4. CASE Take(w)
  <2>1. /\ UNCHANGED <<status, known, cancel, begun, late>> /\ wpc[w] = "idle"
        /\ \/ UNCHANGED <<wpc, wjob>>
           \/ \E j : /\ wpc' = [wpc EXCEPT ![w] = "check"]
                     /\ wjob' = [wjob EXCEPT ![w] = j]
    BY <1>4 DEF Take, memory, history
  <2>2. \A v \in Workers, j \in Jobs : Working(v, j)' <=> Working(v, j)
    BY <1>0, <2>1 DEF Working
  <2>3. QED BY <2>1, <2>2, UnseenSteps DEF seen, Outcome, WorkedOn
<1>5. CASE Finally(w)
  <2>1. /\ UNCHANGED <<status, known, cancel, begun, late>> /\ wpc[w] = "finally"
        /\ wpc' = [wpc EXCEPT ![w] = "idle"] /\ wjob' = [wjob EXCEPT ![w] = NoJob]
    BY <1>5 DEF Finally, memory, history
  <2>2. \A v \in Workers, j \in Jobs : Working(v, j)' <=> Working(v, j)
    BY <1>0, <2>1 DEF Working
  <2>3. QED BY <2>1, <2>2, UnseenSteps DEF seen, Outcome, WorkedOn
<1>6. CASE PatchProgress(w) \/ Requeue(w)
  <2>1. PICK s \in {"running", "queued"}, to \in {"exec", "check"} :
          /\ Patch(w, k, s) /\ wpc' = [wpc EXCEPT ![w] = to]
          /\ wpc[w] \in {"progress", "requeue"} /\ (to = "exec" => wpc[w] = "progress")
          /\ UNCHANGED <<known, cancel, wjob, begun, late>>
    BY <1>k, <1>6 DEF PatchProgress, Record, Requeue, history
  <2>2. Busy(w) /\ k \in known /\ status[k] \in Active
    BY <1>k, <1>0, <2>1 DEF Busy, WorkerOk, Active
  <2>3. Outcome' = Outcome
    BY <1>0, <2>1, <2>2 DEF Patch, Outcome, Active
  <2>4. QED BY <1>1, <2>1, <2>2, <2>3
<1>7. CASE Begin(w)
  <2>1. /\ wpc[w] = "begin" /\ wpc' = [wpc EXCEPT ![w] = "exec"] /\ Patch(w, k, "running")
        /\ begun' = [begun EXCEPT ![k] = @ + 1]
        /\ late' = [late EXCEPT ![k] = IF cancel[k] THEN @ + 1 ELSE @]
        /\ UNCHANGED <<known, cancel, wjob>>
    BY <1>k, <1>7 DEF Begin
  <2>2. Busy(w) /\ k \in known /\ status[k] \in Waiting
    BY <1>k, <1>0, <2>1 DEF Busy, WorkerOk
  <2>3. Outcome' = Outcome /\ Outcome[k] = "open"
    BY <1>0, <2>1, <2>2 DEF Patch, Outcome, Active, Waiting
  <2>4. k \notin WorkedOn /\ WorkedOn' = WorkedOn \cup {k}
    <3>1. k \in Jobs /\ k = wjob[w]
      BY <1>k
    <3>2. Busy(w) /\ wpc' = [wpc EXCEPT ![w] = "exec"] /\ UNCHANGED wjob
      BY <2>1, <2>2
    <3>3. /\ k \in WorkedOn <=> wpc[w] \in {"exec", "progress"}
          /\ WorkedOn' = IF "exec" \in {"exec", "progress"} THEN WorkedOn \cup {k}
                                                            ELSE WorkedOn \ {k}
      BY <3>1, <3>2, OwnWork
    <3>4. QED BY <2>1, <3>3
  <2>5. begun[k] <= MaxRetries[k] /\ late[k] = 0
    BY <1>k, <1>0, <2>1 DEF AttemptOk
  <2>6. Lifecycle!Begin(k)
    BY <2>1, <2>2, <2>3, <2>4, <2>5 DEF Lifecycle!Begin, Outcome, WorkedOn
  <2>7. QED BY <2>6 DEF Lifecycle!Next
<1>8. CASE Succeed(w) \/ Fail(w) \/ Drop(w)
  <2>1. PICK s \in Terminal :
          /\ Patch(w, k, s) /\ wpc' = [wpc EXCEPT ![w] = "finally"]
          /\ wpc[w] \in {"succeed", "fail", "drop"}
          /\ s = "cancelled" <=> wpc[w] = "drop"
          /\ UNCHANGED <<known, cancel, wjob, begun, late>>
    BY <1>k, <1>8 DEF Succeed, Fail, Drop, Record, history, Terminal
  <2>2. Busy(w) /\ k \in known /\ status[k] \in Active
    BY <1>k, <1>0, <2>1 DEF Busy, WorkerOk, Active
  <2>3. Outcome[k] = "open" /\ Outcome' = [Outcome EXCEPT ![k] = s]
    BY <1>0, <2>1, <2>2 DEF Patch, Outcome, Active, Terminal
  <2>4. k \notin WorkedOn /\ WorkedOn' = WorkedOn
    <3>1. k \in Jobs /\ k = wjob[w]
      BY <1>k
    <3>2. Busy(w) /\ wpc' = [wpc EXCEPT ![w] = "finally"] /\ UNCHANGED wjob
      BY <2>1, <2>2
    <3>3. /\ k \in WorkedOn <=> wpc[w] \in {"exec", "progress"}
          /\ WorkedOn' = IF "finally" \in {"exec", "progress"} THEN WorkedOn \cup {k}
                                                               ELSE WorkedOn \ {k}
      BY <3>1, <3>2, OwnWork
    <3>4. QED BY <2>1, <3>3
  <2>5. IF s = "cancelled" THEN cancel[k] ELSE begun[k] > 0
    BY <1>k, <1>0, <2>1 DEF AttemptOk, Attempted
  <2>6. Lifecycle!Resolve(k, s)
    BY <2>1, <2>2, <2>3, <2>4, <2>5 DEF Lifecycle!Resolve, Outcome, WorkedOn
  <2>7. QED BY <2>6 DEF Lifecycle!Next, Lifecycle!Results, Terminal
<1>9. QED BY <1>3, <1>4, <1>5, <1>6, <1>7, <1>8 DEF Advance

LEMMA RestartFollows == ASSUME IInv, TypeOK', LifeInv, Restart PROVE Lifecycle!Next
<1> DEFINE source == IF \A j \in Jobs : table[j] = NoRow THEN jobsFile ELSE table
           loaded == {j \in Jobs : source[j] # NoRow}
<1>1. RowsEarned(source) /\ source \in [Jobs -> Row] /\ status \in [Jobs -> Status]
  BY DEF LifeInv, RowsEarnedInv, IInv, TypeOK
<1>2. /\ \A j \in loaded : /\ status[j] # "none"
                           /\ status'[j] = Fate(source[j]) /\ status'[j] \in Terminal
                           /\ cancel'[j] = source[j].cancel
      /\ \A j \in Jobs \ loaded : status'[j] = status[j] /\ cancel'[j] = cancel[j]
      /\ UNCHANGED <<begun, late>>
      /\ \A w \in Workers : wpc'[w] = "idle"
      /\ known' \subseteq loaded
  BY <1>1 DEF Restart, history, Fate, Terminal, RowsEarned
<1>3. WorkedOn' = {}
  BY <1>2 DEF WorkedOn, Working
<1>4. /\ \A j \in loaded : Outcome[j] # "none" /\ Outcome'[j] = status'[j]
      /\ \A j \in Jobs \ loaded : Outcome'[j] = Outcome[j]
  BY <1>2 DEF Outcome, Terminal, Active
<1>5. Outcome' \in [Jobs -> {"none", "open"} \cup Lifecycle!Results]
  BY DEF IInv, TypeOK, Outcome, Status, Active, Terminal, Lifecycle!Results
<1>6. ASSUME NEW j \in Jobs
      PROVE  CASE Outcome'[j] = "success"   -> begun[j] > 0
               [] Outcome'[j] = "cancelled" -> cancel'[j]
               [] OTHER                     -> TRUE
  <2>1. (Outcome'[j] = "success" => status'[j] = "success")
        /\ (Outcome'[j] = "cancelled" => status'[j] = "cancelled")
    BY DEF Outcome, Active
  <2>2. EarnedInv'
    BY RestartLife DEF LifeInv
  <2>3. QED BY <1>2, <2>1, <2>2 DEF EarnedInv
<1>7. known' \in SUBSET {j \in Jobs : Outcome'[j] \in Lifecycle!Results}
  BY <1>2, <1>4 DEF Terminal, Lifecycle!Results
<1>8. cancel' \in [Jobs -> BOOLEAN]
  BY DEF TypeOK
<1>9. \A j \in Jobs : /\ Outcome[j] = "none" => Outcome'[j] = "none"
                      /\ Outcome'[j] # Outcome[j] => Outcome'[j] \in Lifecycle!Results
  BY <1>2, <1>4 DEF Terminal, Lifecycle!Results
<1>10. Lifecycle!Restart
  BY <1>2, <1>3, <1>5, <1>6, <1>7, <1>8, <1>9 DEF Lifecycle!Restart, Outcome, WorkedOn
<1>11. QED BY <1>10 DEF Lifecycle!Next

\* What a caller sees of the jobs is what jobs.py promises of them, however
\* clients and workers interleave, saves overtake one another and the process
\* stops: one submission, at most MaxRetries + 1 attempts, one result that is
\* earned, and at most one attempt begun after a cancel request.
THEOREM JobsFollowTheirLifecycle == Spec => ImplementsLifecycle
<1>1. Init => Lifecycle!Init
  BY DEF Init, Lifecycle!Init, Active, Working
<1>2. IInv /\ TypeOK' /\ LifeInv /\ [Next]_vars => [Lifecycle!Next]_Lifecycle!jobVars
  <2> SUFFICES ASSUME IInv, TypeOK', LifeInv, [Next]_vars
               PROVE  Lifecycle!Next \/ UNCHANGED Lifecycle!jobVars
    OBVIOUS
  <2>1. CASE UNCHANGED vars
    BY <2>1, UnseenSteps DEF vars, memory, workers, history, seen, Outcome, WorkedOn, Working
  <2>2. ASSUME NEW t \in Threads, Persist(t) PROVE UNCHANGED Lifecycle!jobVars
    <3>1. UNCHANGED <<memory, workers, history>>
      BY <2>2 DEF Persist, ListJobs, DumpRows, CommitRows, FallBack
    <3>2. QED BY <3>1, UnseenSteps DEF memory, workers, history, seen, Outcome, WorkedOn, Working
  <2>3. QED BY <2>1, <2>2, ClientFollows, WorkerFollows, RestartFollows DEF Next
<1>3. IInv => TypeOK
  BY DEF IInv
<1>4. QED BY <1>1, <1>2, <1>3, LifeInvariance, PTL DEF Spec, ImplementsLifecycle, Lifecycle!Spec

-----------------------------------------------------------------------------
(* A cancel request is honoured: once certain things are so of a job, they *)
(* stay so, across restarts as well.                                       *)

NotSubmitting(k) == status[k] # "none" /\ \A c \in Clients : cpc[c] = "enqueue" => cjob[c] # k

\* A job whose future was revoked has not been worked on.
RevokedInv == \A j \in Jobs : future[j] = "cancelled" => begun[j] = 0

\* A job that no worker will work on.
NeverRuns(k) ==
  /\ NotSubmitting(k) /\ begun[k] = 0
  /\ future[k] = "pending" => cancel[k]
  /\ \A w \in Workers : Holds(w, k) =>
       wpc[w] \in {"check", "drop", "finally"} /\ (wpc[w] = "check" => cancel[k])

\* A job whose last worker is about to leave it, or has left it.
Past(k) ==
  /\ NotSubmitting(k) /\ future[k] # "pending"
  /\ \A w \in Workers : Holds(w, k) => wpc[w] = "finally"

\* A success is recorded of no other: neither the rows that were saved nor
\* those about to be tell one of a job that is still worked on.
RowsPast(r) == \A j \in Jobs : r[j].status = "success" => Past(j)
PastInv == RowsPast(table) /\ RowsPast(jobsFile) /\ \A t \in Threads : RowsPast(save[t].rows)

\* A job that was taken, has no success and cannot get one any more.
RowsDeny(r, k) == r[k].status # "success"
Denied(k) ==
  /\ NotSubmitting(k) /\ future[k] # "pending" /\ status[k] # "success"
  /\ \A w \in Workers : Holds(w, k) => wpc[w] = "finally" \/ (wpc[w] # "succeed" /\ cancel[k])
  /\ RowsDeny(table, k) /\ RowsDeny(jobsFile, k) /\ \A t \in Threads : RowsDeny(save[t].rows, k)

\* What a client may do to a job that nobody is submitting.
LEMMA ClientTouches ==
  ASSUME IInv, NEW c \in Clients, Call(c) \/ Continue(c), NEW k \in Jobs, NotSubmitting(k)
  PROVE  /\ NotSubmitting(k)'
         /\ status'[k] \in {status[k], "cancelling", "cancelled"}
         /\ cancel[k] => cancel'[k]
         /\ future'[k] \in {future[k], "cancelled"}
         /\ UNCHANGED <<wpc, wjob, begun, table, jobsFile>>
         /\ \A t \in Threads : save'[t].rows \in {save[t].rows, NoRows}
<1> USE DEF At, Move
<1>0. /\ ClientOk(c) /\ c \in Threads /\ cjob[c] \in Jobs
      /\ cpc \in [Clients -> ClientPc] /\ cjob \in [Clients -> Jobs]
      /\ status \in [Jobs -> Status] /\ future \in [Jobs -> FutureState]
      /\ cancel \in [Jobs -> BOOLEAN] /\ save \in [Threads -> SaveState]
  BY DEF IInv, PlaceInv, ClientInv, TypeOK, Threads
<1>1. /\ UNCHANGED <<wpc, wjob, begun, table, jobsFile>>
      /\ Saving(c) \/ UNCHANGED save
  BY DEF Call, Continue, StartSubmit, StartCancel, GetJob, SetJob, Enqueue, Register,
         MarkNothing, MarkCancelling, Revoke, Settle, Patch, Cleanup, memory, workers,
         history, disk
<1>2. \A t \in Threads : save'[t].rows \in {save[t].rows, NoRows}
  <2>1. MustSave.rows = NoRows
    BY DEF MustSave
  <2>2. QED BY <1>0, <1>1, <2>1 DEF Saving
<1>3. cancel[k] => cancel'[k]
  BY <1>0 DEF Call, Continue, StartSubmit, StartCancel, GetJob, SetJob, Enqueue, Register,
         MarkNothing, MarkCancelling, Revoke, Settle, memory
<1>4. status'[k] \in {status[k], "cancelling", "cancelled"}
  <2>1. CASE SetJob(c)
    BY <1>0, <2>1 DEF SetJob, ClientOk, NotSubmitting
  <2>2. CASE ~SetJob(c)
    BY <1>0, <2>2 DEF Call, Continue, StartSubmit, StartCancel, GetJob, Enqueue, Register,
         MarkNothing, MarkCancelling, Revoke, Settle, Patch, memory
  <2>3. QED BY <2>1, <2>2
<1>5. future'[k] \in {future[k], "cancelled"}
  <2>1. CASE Enqueue(c)
    BY <1>0, <2>1 DEF Enqueue, NotSubmitting
  <2>2. CASE ~Enqueue(c)
    BY <1>0, <2>2 DEF Call, Continue, StartSubmit, StartCancel, GetJob, SetJob, Register,
         MarkNothing, MarkCancelling, Revoke, Settle, pool
  <2>3. QED BY <2>1, <2>2
<1>6. \A d \in Clients : cpc'[d] = "enqueue" => cjob'[d] # k
  <2>1. CASE SetJob(c)
    BY <1>0, <2>1 DEF SetJob, ClientOk, NotSubmitting
  <2>2. CASE ~SetJob(c)
    BY <1>0, <2>2 DEF Call, Continue, StartSubmit, StartCancel, GetJob, Enqueue, Register,
         MarkNothing, MarkCancelling, Revoke, Settle, NotSubmitting, clients
  <2>3. QED BY <2>1, <2>2
<1>7. status'[k] # "none"
  BY <1>4 DEF NotSubmitting
<1>8. QED BY <1>1, <1>2, <1>3, <1>4, <1>5, <1>6, <1>7 DEF NotSubmitting

\* What a worker may do to a job that nobody is submitting.
LEMMA WorkerTouches ==
  ASSUME IInv, NEW w \in Workers, Advance(w) \/ Progress(w) \/ WorkEnds(w),
         NEW k \in Jobs, NotSubmitting(k)
  PROVE  /\ NotSubmitting(k)' /\ UNCHANGED <<cancel, table, jobsFile>>
         /\ \A t \in Threads : save'[t].rows \in {save[t].rows, NoRows}
         /\ \A v \in Workers \ {w} : Holds(v, k)' => Holds(v, k) /\ wpc'[v] = wpc[v]
         /\ future'[k] = "pending" => future[k] = "pending"
         /\ status'[k] = "success" => status[k] = "success" \/ (Holds(w, k) /\ wpc[w] = "succeed")
         /\ begun'[k] = begun[k] \/ (Holds(w, k) /\ wpc[w] = "begin")
         /\ Holds(w, k)' =>
              \/ future[k] = "pending" /\ wpc'[w] = "check"
              \/ /\ Holds(w, k)
                 /\ wpc[w] = "check" => wpc'[w] = IF cancel[k] THEN "drop" ELSE "begin"
                 /\ wpc[w] = "drop" => wpc'[w] = "finally"
                 /\ wpc[w] # "finally"
                 /\ wpc'[w] = "succeed" => \/ wpc[w] = "return" /\ ~cancel[k]
                                           \/ wpc[w] = "exec" /\ Kind[k] # "compare"
<1>0. /\ WorkerOk(w) /\ w \in Threads /\ wjob[w] \in Jobs
      /\ wpc \in [Workers -> WorkerPc] /\ wjob \in [Workers -> Jobs]
      /\ status \in [Jobs -> Status] /\ future \in [Jobs -> FutureState]
      /\ begun \in [Jobs -> Nat] /\ save \in [Threads -> SaveState]
      /\ queue # <<>> => Head(queue) \in Jobs /\ future[Head(queue)] \in {"pending", "cancelled"}
  <2>1. queue \in Seq(Jobs) /\ QueueInv
    BY DEF IInv, TypeOK, PlaceInv
  <2>2. queue # <<>> => Head(queue) = queue[1] /\ 1 \in 1..Len(queue) /\ queue[1] \in Jobs
    BY <2>1
  <2>3. QED BY <2>1, <2>2 DEF IInv, PlaceInv, WorkerInv, TypeOK, Threads, QueueInv
<1>1. /\ UNCHANGED <<cpc, cjob, cancel, table, jobsFile>>
      /\ Saving(w) \/ UNCHANGED save
  BY DEF Advance, Take, CheckCancel, Begin, PatchProgress, CheckAfter, CheckRetry, Requeue,
         Succeed, Fail, Drop, Finally, Progress, WorkEnds, WorkDone, WorkFails, Decide, Record,
         Patch, memory, clients, disk
<1>2. \A t \in Threads : save'[t].rows \in {save[t].rows, NoRows}
  <2>1. MustSave.rows = NoRows
    BY DEF MustSave
  <2>2. QED BY <1>0, <1>1, <2>1 DEF Saving
<1>3. status'[k] # "none" /\ NotSubmitting(k)'
  <2>1. status'[k] # "none"
    BY <1>0 DEF Advance, Take, CheckCancel, Begin, PatchProgress, CheckAfter, CheckRetry, Requeue,
         Succeed, Fail, Drop, Finally, Progress, WorkEnds, WorkDone, WorkFails, Decide, Record,
         Patch, memory, NotSubmitting
  <2>2. QED BY <1>1, <2>1 DEF NotSubmitting
<1>4. CASE Take(w)
  <2>1. /\ UNCHANGED <<status, begun>> /\ wpc[w] = "idle" /\ queue # <<>>
        /\ \/ UNCHANGED <<wpc, wjob, future>>
           \/ /\ future[Head(queue)] # "cancelled"
              /\ future' = [future EXCEPT ![Head(queue)] = "running"]
              /\ wpc' = [wpc EXCEPT ![w] = "check"] /\ wjob' = [wjob EXCEPT ![w] = Head(queue)]
    BY <1>4 DEF Take, On, Goto, memory, history
  <2>2. Holds(w, k)' => future[k] = "pending" /\ wpc'[w] = "check"
    BY <1>0, <2>1 DEF Holds, Busy
  <2>3. \A v \in Workers \ {w} : Holds(v, k)' => Holds(v, k) /\ wpc'[v] = wpc[v]
    BY <1>0, <2>1 DEF Holds, Busy
  <2>4. future'[k] = "pending" => future[k] = "pending"
    BY <1>0, <2>1
  <2>5. QED BY <1>1, <1>2, <1>3, <2>1, <2>2, <2>3, <2>4
<1>5. CASE ~Take(w)
  <2>1. /\ wpc[w] # "idle" /\ (wjob'[w] = wjob[w] \/ wpc'[w] = "idle")
        /\ \A v \in Workers \ {w} : wpc'[v] = wpc[v] /\ wjob'[v] = wjob[v]
    BY <1>0, <1>5 DEF Advance, CheckCancel, Begin, PatchProgress, CheckAfter, CheckRetry, Requeue,
         Succeed, Fail, Drop, Finally, Progress, WorkEnds, WorkDone, WorkFails, Decide, Record, On, Goto
  <2>2. /\ wpc[w] = "check" => wpc'[w] = IF cancel[wjob[w]] THEN "drop" ELSE "begin"
        /\ wpc[w] = "drop" => wpc'[w] = "finally"
        /\ wpc[w] = "finally" => wpc'[w] = "idle"
        /\ wpc'[w] = "succeed" => \/ wpc[w] = "return" /\ ~cancel[wjob[w]]
                                  \/ wpc[w] = "exec" /\ Kind[wjob[w]] # "compare"
    BY <1>0, <1>5 DEF Advance, CheckCancel, Begin, PatchProgress, CheckAfter, CheckRetry, Requeue,
         Succeed, Fail, Drop, Finally, Progress, WorkEnds, WorkDone, WorkFails, Decide, Record, On, Goto
  <2>3. \A v \in Workers : Holds(v, k)' => Holds(v, k)
    BY <2>1 DEF Holds, Busy
  <2>4. /\ future'[k] = "pending" => future[k] = "pending"
        /\ begun'[k] = begun[k] \/ (wjob[w] = k /\ wpc[w] = "begin")
        /\ status'[k] = "success" => status[k] = "success" \/ (wjob[w] = k /\ wpc[w] = "succeed")
    BY <1>0, <1>5 DEF Advance, CheckCancel, Begin, PatchProgress, CheckAfter, CheckRetry, Requeue,
         Succeed, Fail, Drop, Finally, Progress, WorkEnds, WorkDone, WorkFails, Decide, Record, On,
         Patch, memory, pool, history
  <2>5. Holds(w, k)' => Holds(w, k) /\ wpc[w] # "finally" /\ wjob[w] = k
    BY <2>1, <2>2, <2>3 DEF Holds, Busy
  <2>6. QED BY <1>1, <1>2, <1>3, <2>1, <2>2, <2>3, <2>4, <2>5 DEF Holds, Busy
<1>6. QED BY <1>4, <1>5

\* What a save changes.
LEMMA SaveTouches ==
  ASSUME IInv, NEW t \in Threads, Persist(t)
  PROVE  /\ UNCHANGED <<known, status, cancel, future, wpc, wjob, cpc, cjob, begun>>
         /\ table' \in {table, save[t].rows} /\ jobsFile' \in {jobsFile, save[t].rows}
         /\ \A u \in Threads : \/ save'[u].rows \in {save[u].rows, NoRows}
                               \/ \E E : save'[u].rows = RowsOf(E)
<1>0. save \in [Threads -> SaveState] /\ Idle.rows = NoRows
  BY DEF IInv, TypeOK, Idle
<1>1. UNCHANGED <<known, status, cancel, future, wpc, wjob, cpc, cjob, begun>>
  BY DEF Persist, ListJobs, DumpRows, CommitRows, FallBack, memory, pool, workers, clients, history
<1>2. table' \in {table, save[t].rows} /\ jobsFile' \in {jobsFile, save[t].rows}
  BY DEF Persist, ListJobs, DumpRows, CommitRows, FallBack, disk
<1>3. ASSUME NEW u \in Threads
      PROVE  save'[u].rows \in {save[u].rows, NoRows} \/ \E E : save'[u].rows = RowsOf(E)
  <2>1. CASE DumpRows(t)
    BY <1>0, <2>1 DEF DumpRows
  <2>2. CASE ~DumpRows(t)
    BY <1>0, <2>2 DEF Persist, ListJobs, CommitRows, FallBack
  <2>3. QED BY <2>1, <2>2
<1>4. QED BY <1>1, <1>2, <1>3

\* What a restart leaves of a job that nobody was submitting.
LEMMA RestartTouches ==
  ASSUME IInv, Restart, NEW k \in Jobs, NotSubmitting(k)
  PROVE  /\ NotSubmitting(k)' /\ future'[k] = "none" /\ UNCHANGED <<begun, jobsFile>>
         /\ \A w \in Workers : ~Holds(w, k)'
         /\ status'[k] = "success" => status[k] = "success" \/ table[k].status = "success"
                                        \/ jobsFile[k].status = "success"
         /\ table'[k].status = "success" => table[k].status = "success" \/ jobsFile[k].status = "success"
         /\ \A t \in Threads : save'[t].rows = NoRows
<1> DEFINE source == IF \A j \in Jobs : table[j] = NoRow THEN jobsFile ELSE table
           loaded == {j \in Jobs : source[j] # NoRow}
<1>1. /\ status'[k] = IF k \in loaded THEN Fate(source[k]) ELSE status[k]
      /\ table'[k] \in {source[k], NoRow} \/ table'[k].status = Fate(source[k])
      /\ future'[k] = "none" /\ UNCHANGED <<begun, jobsFile>>
      /\ \A w \in Workers : wpc'[w] = "idle"
      /\ \A c \in Clients : cpc'[c] = "idle"
      /\ \A t \in Threads : save'[t].rows = NoRows
  BY DEF Restart, history, Idle
<1>2. Fate(source[k]) # "none" /\ (Fate(source[k]) = "success" => source[k].status = "success")
  BY DEF Fate, Terminal
<1>3. source[k] = table[k] \/ source[k] = jobsFile[k]
  OBVIOUS
<1>4. NoRow.status = "none"
  BY DEF NoRow
<1> HIDE DEF source, loaded
<1>5. QED BY <1>1, <1>2, <1>3, <1>4 DEF NotSubmitting, Holds, Busy

LEMMA RevokedStep == IInv /\ LifeInv /\ RevokedInv /\ [Next]_vars => RevokedInv'
<1> SUFFICES ASSUME IInv, LifeInv, RevokedInv, [Next]_vars, NEW k \in Jobs, future'[k] = "cancelled"
             PROVE  begun'[k] = 0
  BY DEF RevokedInv
<1>0. /\ future \in [Jobs -> FutureState] /\ begun \in [Jobs -> Nat]
      /\ cpc \in [Clients -> ClientPc] /\ cjob \in [Clients -> Jobs]
      /\ wjob \in [Workers -> Jobs]
      /\ future[k] \in {"pending", "cancelled"} => begun[k] = 0
  BY DEF IInv, TypeOK, LifeInv, UnstartedInv, Unstarted, RevokedInv
<1>1. CASE UNCHANGED vars
  BY <1>0, <1>1 DEF vars, pool, history
<1>2. ASSUME NEW t \in Threads, Persist(t) PROVE begun'[k] = 0
  BY <1>0, <1>2, SaveTouches
<1>3. ASSUME NEW c \in Clients, Call(c) \/ Continue(c) PROVE begun'[k] = 0
  <2>1. begun' = begun
    BY <1>3 DEF Call, Continue, StartSubmit, StartCancel, GetJob, SetJob, Enqueue, Register,
         MarkNothing, MarkCancelling, Revoke, Settle, history
  <2>2. future[k] \in {"pending", "cancelled"}
    BY <1>0, <1>3 DEF Call, Continue, StartSubmit, StartCancel, GetJob, SetJob, Enqueue, Register,
         MarkNothing, MarkCancelling, Revoke, Revoked, Settle, pool
  <2>3. QED BY <1>0, <2>1, <2>2
<1>4. ASSUME NEW w \in Workers, Advance(w) \/ Progress(w) \/ WorkEnds(w) PROVE begun'[k] = 0
  <2>1. WorkerOk(w)
    BY DEF IInv, PlaceInv, WorkerInv
  <2>2. CASE Begin(w)
    BY <1>0, <2>1, <2>2 DEF Begin, On, WorkerOk, Busy, pool
  <2>3. CASE ~Begin(w)
    <3>1. begun' = begun
      BY <1>4, <2>3 DEF Advance, Take, CheckCancel, PatchProgress, CheckAfter, CheckRetry, Requeue,
         Succeed, Fail, Drop, Finally, Progress, WorkEnds, WorkDone, WorkFails, Decide, Record, history
    <3>2. future[k] = "cancelled"
      BY <1>0, <1>4, <2>3 DEF Advance, Take, CheckCancel, PatchProgress, CheckAfter, CheckRetry, Requeue,
         Succeed, Fail, Drop, Finally, Progress, WorkEnds, WorkDone, WorkFails, Decide, Record, pool
    <3>3. QED BY <1>0, <3>1, <3>2
  <2>4. QED BY <2>2, <2>3
<1>5. CASE Restart
  BY <1>5 DEF Restart
<1>6. QED BY <1>1, <1>2, <1>3, <1>4, <1>5 DEF Next

LEMMA NeverRunsStays ==
  ASSUME IInv, NEW k \in Jobs, NeverRuns(k), [Next]_vars PROVE NeverRuns(k)'
<1>0. NotSubmitting(k)
  BY DEF NeverRuns
<1>1. CASE UNCHANGED vars
  BY <1>1 DEF vars, memory, pool, workers, clients, history, NeverRuns, NotSubmitting, Holds, Busy
<1>2. ASSUME NEW t \in Threads, Persist(t) PROVE NeverRuns(k)'
  BY <1>2, SaveTouches DEF NeverRuns, NotSubmitting, Holds, Busy
<1>3. ASSUME NEW c \in Clients, Call(c) \/ Continue(c) PROVE NeverRuns(k)'
  <2>1. /\ NotSubmitting(k)' /\ (cancel[k] => cancel'[k])
        /\ future'[k] \in {future[k], "cancelled"} /\ UNCHANGED <<wpc, wjob, begun>>
    BY <1>0, <1>3, ClientTouches
  <2>2. QED BY <2>1 DEF NeverRuns, Holds, Busy
<1>4. ASSUME NEW w \in Workers, Advance(w) \/ Progress(w) \/ WorkEnds(w) PROVE NeverRuns(k)'
  <2>1. /\ NotSubmitting(k)' /\ UNCHANGED cancel
        /\ \A v \in Workers \ {w} : Holds(v, k)' => Holds(v, k) /\ wpc'[v] = wpc[v]
        /\ future'[k] = "pending" => future[k] = "pending"
        /\ begun'[k] = begun[k] \/ (Holds(w, k) /\ wpc[w] = "begin")
        /\ Holds(w, k)' =>
              \/ future[k] = "pending" /\ wpc'[w] = "check"
              \/ /\ Holds(w, k)
                 /\ wpc[w] = "check" => wpc'[w] = IF cancel[k] THEN "drop" ELSE "begin"
                 /\ wpc[w] = "drop" => wpc'[w] = "finally"
                 /\ wpc[w] # "finally"
    BY <1>0, <1>4, WorkerTouches
  <2>2. begun'[k] = 0
    BY <2>1 DEF NeverRuns
  <2>3. \A v \in Workers : Holds(v, k)' => wpc'[v] \in {"check", "drop", "finally"} /\ (wpc'[v] = "check" => cancel[k])
    BY <2>1 DEF NeverRuns
  <2>4. QED BY <2>1, <2>2, <2>3 DEF NeverRuns
<1>5. CASE Restart
  <2>1. /\ NotSubmitting(k)' /\ future'[k] = "none" /\ UNCHANGED begun
        /\ \A w \in Workers : ~Holds(w, k)'
    BY <1>0, <1>5, RestartTouches
  <2>2. QED BY <2>1 DEF NeverRuns
<1>6. QED BY <1>1, <1>2, <1>3, <1>4, <1>5 DEF Next

LEMMA CancelledInTheQueue ==
  ASSUME NEW k \in Jobs
  PROVE  Spec => RunsNoMore(k)
<1>1. IInv /\ LifeInv /\ RevokedInv => (cancel[k] /\ Queued(k) => NeverRuns(k))
  <2> SUFFICES ASSUME IInv, LifeInv, RevokedInv, cancel[k], Queued(k) PROVE NeverRuns(k)
    OBVIOUS
  <2>1. future[k] \in {"pending", "cancelled"}
    BY DEF IInv, PlaceInv, QueueInv, Queued
  <2>2. status[k] # "none"
    BY <2>1 DEF IInv, PlaceInv, StatusInv
  <2>3. \A c \in Clients : cpc[c] = "enqueue" => cjob[c] # k
    BY <2>1 DEF IInv, PlaceInv, ClientInv, ClientOk
  <2>4. \A w \in Workers : ~Holds(w, k)
    BY <2>1 DEF IInv, PlaceInv, WorkerInv, WorkerOk, Holds
  <2>5. begun[k] = 0
    BY <2>1 DEF RevokedInv, LifeInv, UnstartedInv, Unstarted
  <2>6. QED BY <2>2, <2>3, <2>4, <2>5 DEF NeverRuns, NotSubmitting
<1>2. NeverRuns(k) => begun[k] = 0
  BY DEF NeverRuns
<1>3. IInv /\ NeverRuns(k) /\ [Next]_vars => NeverRuns(k)'
  BY NeverRunsStays
<1>4. Init => RevokedInv
  BY DEF Init, RevokedInv
<1>5. QED BY <1>1, <1>2, <1>3, <1>4, RevokedStep, LifeInvariance, PTL DEF Spec, RunsNoMore

LEMMA PastStays == ASSUME IInv, NEW k \in Jobs, Past(k), [Next]_vars PROVE Past(k)'
<1>0. NotSubmitting(k)
  BY DEF Past
<1>1. CASE UNCHANGED vars
  BY <1>1 DEF vars, memory, pool, workers, clients, Past, NotSubmitting, Holds, Busy
<1>2. ASSUME NEW t \in Threads, Persist(t) PROVE Past(k)'
  BY <1>2, SaveTouches DEF Past, NotSubmitting, Holds, Busy
<1>3. ASSUME NEW c \in Clients, Call(c) \/ Continue(c) PROVE Past(k)'
  <2>1. /\ NotSubmitting(k)'
        /\ future'[k] \in {future[k], "cancelled"} /\ UNCHANGED <<wpc, wjob>>
    BY <1>0, <1>3, ClientTouches
  <2>2. QED BY <2>1 DEF Past, Holds, Busy
<1>4. ASSUME NEW w \in Workers, Advance(w) \/ Progress(w) \/ WorkEnds(w) PROVE Past(k)'
  <2>1. /\ NotSubmitting(k)'
        /\ \A v \in Workers \ {w} : Holds(v, k)' => Holds(v, k) /\ wpc'[v] = wpc[v]
        /\ future'[k] = "pending" => future[k] = "pending"
        /\ Holds(w, k)' => future[k] = "pending" \/ (Holds(w, k) /\ wpc[w] # "finally")
    BY <1>0, <1>4, WorkerTouches
  <2>2. QED BY <2>1 DEF Past
<1>5. CASE Restart
  <2>1. /\ NotSubmitting(k)' /\ future'[k] = "none" /\ \A w \in Workers : ~Holds(w, k)'
    BY <1>0, <1>5, RestartTouches
  <2>2. QED BY <2>1 DEF Past
<1>6. QED BY <1>1, <1>2, <1>3, <1>4, <1>5 DEF Next

\* A job that shows a success is past.
LEMMA SuccessIsPast == ASSUME IInv, NEW k \in Jobs, status[k] = "success" PROVE Past(k)
<1>1. /\ \A c \in Clients : ClientOk(c)
      /\ \A w \in Workers : WorkerOk(w)
      /\ FutureOk(k)
  BY DEF IInv, PlaceInv, ClientInv, WorkerInv, FutureInv
<1>2. \A c \in Clients : cpc[c] = "enqueue" => cjob[c] # k
  BY <1>1 DEF ClientOk, Waiting
<1>3. future[k] # "pending"
  BY <1>1 DEF FutureOk, Waiting
<1>4. \A w \in Workers : Holds(w, k) => wpc[w] = "finally"
  BY <1>1 DEF WorkerOk, Holds, Waiting, Active
<1>5. QED BY <1>2, <1>3, <1>4 DEF Past, NotSubmitting

LEMMA PastStep == IInv /\ PastInv /\ [Next]_vars => PastInv'
<1> SUFFICES ASSUME IInv, PastInv, [Next]_vars PROVE PastInv'
  OBVIOUS
<1>0. save \in [Threads -> SaveState] /\ RowsPast(NoRows)' /\ NoRow.status # "success"
  BY DEF IInv, TypeOK, RowsPast, NoRows, NoRow
<1>1. ASSUME NEW r, RowsPast(r) PROVE \A j \in Jobs : r[j].status = "success" => Past(j)'
  BY <1>1, PastStays DEF RowsPast
<1>2. \A E : \A j \in Jobs : RowsOf(E)[j].status = "success" => Past(j)'
  BY <1>0, SuccessIsPast, PastStays DEF RowsOf
<1>3. ASSUME UNCHANGED <<table, jobsFile>>,
             \A t \in Threads : save'[t].rows \in {save[t].rows, NoRows}
      PROVE  PastInv'
  BY <1>0, <1>1, <1>3 DEF PastInv, RowsPast
<1>4. CASE UNCHANGED vars
  BY <1>3, <1>4 DEF vars, disk
<1>5. ASSUME NEW t \in Threads, Persist(t) PROVE PastInv'
  <2>1. /\ table' \in {table, save[t].rows} /\ jobsFile' \in {jobsFile, save[t].rows}
        /\ \A u \in Threads : \/ save'[u].rows \in {save[u].rows, NoRows}
                              \/ \E E : save'[u].rows = RowsOf(E)
    BY <1>5, SaveTouches
  <2>2. RowsPast(table)' /\ RowsPast(jobsFile)'
    BY <1>1, <2>1 DEF PastInv, RowsPast
  <2>3. ASSUME NEW u \in Threads PROVE RowsPast(save[u].rows)'
    BY <1>0, <1>1, <1>2, <2>1 DEF PastInv, RowsPast
  <2>4. QED BY <2>2, <2>3 DEF PastInv
<1>6. ASSUME NEW c \in Clients, Call(c) \/ Continue(c) PROVE PastInv'
  <2>1. UNCHANGED <<table, jobsFile>> /\ (Saving(c) \/ UNCHANGED save)
    BY <1>6 DEF Call, Continue, StartSubmit, StartCancel, GetJob, SetJob, Enqueue, Register,
         MarkNothing, MarkCancelling, Revoke, Settle, Patch, Cleanup, disk
  <2>2. MustSave.rows = NoRows
    BY DEF MustSave
  <2>3. QED BY <1>0, <1>3, <2>1, <2>2 DEF Saving
<1>7. ASSUME NEW w \in Workers, Advance(w) \/ Progress(w) \/ WorkEnds(w) PROVE PastInv'
  <2>1. UNCHANGED <<table, jobsFile>> /\ (Saving(w) \/ UNCHANGED save)
    BY <1>7 DEF Advance, Take, CheckCancel, Begin, PatchProgress, CheckAfter, CheckRetry, Requeue,
         Succeed, Fail, Drop, Finally, Progress, WorkEnds, WorkDone, WorkFails, Decide, Record,
         Patch, disk
  <2>2. MustSave.rows = NoRows
    BY DEF MustSave
  <2>3. QED BY <1>0, <1>3, <2>1, <2>2 DEF Saving
<1>8. CASE Restart
  <2>1. jobsFile' = jobsFile /\ \A t \in Threads : save'[t].rows = NoRows
    BY <1>8 DEF Restart, Idle
  <2>2. ASSUME NEW j \in Jobs, table'[j].status = "success" PROVE Past(j)'
    <3> DEFINE source == IF \A i \in Jobs : table[i] = NoRow THEN jobsFile ELSE table
    <3>1. source[j].status = "success"
      BY <1>0, <1>8, <2>2 DEF Restart, Fate, Terminal
    <3>2. QED BY <1>1, <3>1 DEF PastInv
  <2>3. QED BY <1>0, <1>1, <2>1, <2>2 DEF PastInv, RowsPast
<1>9. QED BY <1>4, <1>5, <1>6, <1>7, <1>8 DEF Next

LEMMA DeniedStays ==
  ASSUME IInv, NEW k \in Jobs, Kind[k] = "compare", Denied(k), [Next]_vars PROVE Denied(k)'
<1>0. NotSubmitting(k) /\ RowsDeny(NoRows, k)
  BY DEF Denied, RowsDeny, NoRows, NoRow
<1>1. CASE UNCHANGED vars
  BY <1>1 DEF vars, memory, pool, workers, clients, disk, Denied, NotSubmitting, Holds, Busy, RowsDeny
<1>2. ASSUME NEW t \in Threads, Persist(t) PROVE Denied(k)'
  <2>1. /\ UNCHANGED <<known, status, cancel, future, wpc, wjob, cpc, cjob, begun>>
        /\ table' \in {table, save[t].rows} /\ jobsFile' \in {jobsFile, save[t].rows}
        /\ \A u \in Threads : \/ save'[u].rows \in {save[u].rows, NoRows}
                              \/ \E E : save'[u].rows = RowsOf(E)
    BY <1>2, SaveTouches
  <2>2. \A E : RowsDeny(RowsOf(E), k)
    BY DEF RowsDeny, RowsOf, NoRow, Denied
  <2>3. \A u \in Threads : RowsDeny(save[u].rows, k)'
    BY <1>0, <2>1, <2>2 DEF Denied, RowsDeny
  <2>4. RowsDeny(table, k)' /\ RowsDeny(jobsFile, k)'
    BY <2>1 DEF Denied, RowsDeny
  <2>5. QED BY <2>1, <2>3, <2>4 DEF Denied, NotSubmitting, Holds, Busy
<1>3. ASSUME NEW c \in Clients, Call(c) \/ Continue(c) PROVE Denied(k)'
  <2>1. /\ NotSubmitting(k)' /\ (cancel[k] => cancel'[k])
        /\ status'[k] \in {status[k], "cancelling", "cancelled"}
        /\ future'[k] \in {future[k], "cancelled"} /\ UNCHANGED <<wpc, wjob, table, jobsFile>>
        /\ \A t \in Threads : save'[t].rows \in {save[t].rows, NoRows}
    BY <1>0, <1>3, ClientTouches
  <2>2. \A u \in Threads : RowsDeny(save[u].rows, k)'
    BY <1>0, <2>1 DEF Denied, RowsDeny
  <2>3. QED BY <2>1, <2>2 DEF Denied, Holds, Busy, RowsDeny
<1>4. ASSUME NEW w \in Workers, Advance(w) \/ Progress(w) \/ WorkEnds(w) PROVE Denied(k)'
  <2>1. /\ NotSubmitting(k)' /\ UNCHANGED <<cancel, table, jobsFile>>
        /\ \A t \in Threads : save'[t].rows \in {save[t].rows, NoRows}
        /\ \A v \in Workers \ {w} : Holds(v, k)' => Holds(v, k) /\ wpc'[v] = wpc[v]
        /\ future'[k] = "pending" => future[k] = "pending"
        /\ status'[k] = "success" => status[k] = "success" \/ (Holds(w, k) /\ wpc[w] = "succeed")
        /\ Holds(w, k)' =>
             \/ future[k] = "pending"
             \/ /\ Holds(w, k) /\ wpc[w] # "finally"
                /\ wpc'[w] = "succeed" => \/ wpc[w] = "return" /\ ~cancel[k]
                                          \/ wpc[w] = "exec" /\ Kind[k] # "compare"
    BY <1>0, <1>4, WorkerTouches
  <2>2. \A u \in Threads : RowsDeny(save[u].rows, k)'
    BY <1>0, <2>1 DEF Denied, RowsDeny
  <2>3. \A v \in Workers : Holds(v, k)' => wpc'[v] = "finally" \/ (wpc'[v] # "succeed" /\ cancel[k])
    BY <2>1 DEF Denied
  <2>4. status'[k] # "success"
    BY <2>1 DEF Denied
  <2>5. QED BY <2>1, <2>2, <2>3, <2>4 DEF Denied, RowsDeny
<1>5. CASE Restart
  <2>1. /\ NotSubmitting(k)' /\ future'[k] = "none" /\ UNCHANGED jobsFile
        /\ \A w \in Workers : ~Holds(w, k)'
        /\ status'[k] # "success" /\ table'[k].status # "success"
        /\ \A t \in Threads : save'[t].rows = NoRows
    BY <1>0, <1>5, RestartTouches DEF Denied, RowsDeny
  <2>2. QED BY <1>0, <2>1 DEF Denied, RowsDeny
<1>6. QED BY <1>1, <1>2, <1>3, <1>4, <1>5 DEF Next

LEMMA CancelledAtWork ==
  ASSUME NEW k \in Jobs, Kind[k] = "compare"
  PROVE  Spec => SucceedsNoMore(k)
<1>1. IInv /\ PastInv => ((cancel[k] /\ \E w \in Workers : Working(w, k)) => Denied(k))
  <2> SUFFICES ASSUME IInv, PastInv, cancel[k], NEW w \in Workers, Working(w, k) PROVE Denied(k)
    OBVIOUS
  <2>1. Holds(w, k) /\ wpc[w] \in {"exec", "progress"} /\ WorkerOk(w)
    BY DEF Working, Holds, Busy, IInv, PlaceInv, WorkerInv
  <2>2. future[k] = "running" /\ status[k] \in {"running", "cancelling"}
    BY <2>1 DEF WorkerOk, Holds
  <2>3. \A c \in Clients : cpc[c] = "enqueue" => cjob[c] # k
    BY <2>2 DEF IInv, PlaceInv, ClientInv, ClientOk
  <2>4. \A v \in Workers : Holds(v, k) => v = w
    BY <2>1 DEF IInv, PlaceInv, SoleWorker, Holds
  <2>5. ~Past(k)
    BY <2>1 DEF Past
  <2>6. RowsDeny(table, k) /\ RowsDeny(jobsFile, k) /\ \A t \in Threads : RowsDeny(save[t].rows, k)
    BY <2>5 DEF PastInv, RowsPast, RowsDeny
  <2>7. QED BY <2>1, <2>2, <2>3, <2>4, <2>6 DEF Denied, NotSubmitting
<1>2. Denied(k) => status[k] # "success"
  BY DEF Denied
<1>3. IInv /\ Denied(k) /\ [Next]_vars => Denied(k)'
  BY DeniedStays
<1>4. Init => PastInv
  BY DEF Init, PastInv, RowsPast, NoRows, NoRow, Idle
<1>5. QED BY <1>1, <1>2, <1>3, <1>4, PastStep, Invariance, PTL DEF Spec, SucceedsNoMore

\* A job asked to cancel while it waits in the queue is never worked on,
\* whichever of the client, the worker and a restart comes first.
THEOREM CancelledInTheQueueNeverRuns == Spec => CancelWhileQueuedNeverRuns
  BY CancelledInTheQueue DEF CancelWhileQueuedNeverRuns

\* A compare job asked to cancel while it is worked on never shows a success,
\* not even after a restart that has forgotten the request.
THEOREM CancelledAtWorkNeverSucceeds == Spec => CancelDuringWorkDenied
  BY CancelledAtWork DEF CancelDuringWorkDenied
=============================================================================
