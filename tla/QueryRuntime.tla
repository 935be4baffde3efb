---------------------------- MODULE QueryRuntime ----------------------------
(***************************************************************************)
(* Asynchronous queries of the SQL workbench: app/sqlide/runtime.py, the   *)
(* in-flight counters of app/services/query_concurrency.py, and the        *)
(* handlers of app/api/sql_workbench.py that execute, poll and cancel.     *)
(*                                                                         *)
(* A request thread (one per query) takes a slot of its user and data      *)
(* source, registers the execution, submits it to the pool, starts its     *)
(* timer and, after a short wait, answers.  Only then does the client know *)
(* the execution's id, so only then can it poll or cancel.  Every action   *)
(* is one critical section of _lock, except that a worker that ends a      *)
(* query writes its status and its result one after the other while it     *)
(* holds the lock, and a poll reads them without taking it.                *)
(***************************************************************************)
EXTENDS Naturals, Sequences, FiniteSets

CONSTANTS
  Queries,  \* execution ids
  Keys,     \* pairs of a user and a data source
  Workers,  \* the threads of _executor (max_workers=4)
  Pollers,  \* threads that serve GET /executions/{id}
  Limit,    \* _limit_per_user_ds()
  Enforce   \* _enforce_mode()

ASSUME ThreadsAssumption == Workers \cap Pollers = {}
ASSUME LimitAssumption   == Limit \in Nat \ {0} /\ Enforce \in BOOLEAN

None == "none"
ASSUME NoneAssumption == None \notin Queries \cup Workers

VARIABLES
  key,        \* of each query: who executes it, on what
  inFlight,   \* counters of query_concurrency
  spc,        \* where the request that executes each query is
  registered, \* the keys of _executions
  status, cancelRequested, cancelReason, finalized,
  result,     \* what the execution holds: nothing, rows, or an error
  timer,      \* its threading.Timer
  queue,      \* the work queue of _executor
  wpc, wq, got,  \* where each worker is, with which query, what execute_sql gave
  lock,       \* the worker that holds _lock across two steps
  historyCtx, alreadyHistory,  \* the attributes the handlers put on an execution
  history,    \* what was appended to the history of each query
  ppc, pq     \* where each poller is, with which query

slots == <<key, inFlight>>
vars == <<slots, spc, registered, status, cancelRequested, cancelReason,
          finalized, result, timer, queue, wpc, wq, got, lock, historyCtx,
          alreadyHistory, history, ppc, pq>>

execution == <<status, cancelRequested, cancelReason, finalized, result>>
threads   == <<queue, wpc, wq, got, lock>>
recording == <<historyCtx, alreadyHistory, history, ppc, pq>>

Live     == {"pending", "running"}
Ended    == {"success", "failed", "cancelled"}
Outcomes == {"rows", "error", "raise"}
Unlocked == lock = None

TypeOK ==
  /\ key \in [Queries -> Keys] /\ inFlight \in [Keys -> Nat]
  /\ spc \in [Queries -> {"idle", "rejected", "register", "submit", "timer",
                          "wait", "answered"}]
  /\ registered \in SUBSET Queries
  /\ status \in [Queries -> {None} \cup Live \cup Ended]
  /\ cancelRequested \in [Queries -> BOOLEAN]
  /\ cancelReason \in [Queries -> {"", "user", "timeout"}]
  /\ finalized \in [Queries -> BOOLEAN]
  /\ result \in [Queries -> {None} \cup Outcomes]
  /\ timer \in [Queries -> {"new", "armed", "fired", "cancelled"}]
  /\ queue \in Seq(Queries)
  /\ wpc \in [Workers -> {"idle", "begin", "execute", "finish", "write", "exit"}]
  /\ wq \in [Workers -> Queries \cup {None}]
  /\ got \in [Workers -> {None} \cup Outcomes]
  /\ lock \in Workers \cup {None}
  /\ historyCtx \in [Queries -> BOOLEAN] /\ alreadyHistory \in [Queries -> BOOLEAN]
  /\ history \in [Queries -> Seq(Ended \cup Outcomes)]
  /\ ppc \in [Pollers -> {"idle", "read", "mark", "append"}]
  /\ pq \in [Pollers -> Queries \cup {None}]

Init ==
  /\ key \in [Queries -> Keys] /\ inFlight = [k \in Keys |-> 0]
  /\ spc = [q \in Queries |-> "idle"] /\ registered = {}
  /\ status = [q \in Queries |-> None]
  /\ cancelRequested = [q \in Queries |-> FALSE]
  /\ cancelReason = [q \in Queries |-> ""]
  /\ finalized = [q \in Queries |-> FALSE]
  /\ result = [q \in Queries |-> None]
  /\ timer = [q \in Queries |-> "new"]
  /\ queue = <<>>
  /\ wpc = [w \in Workers |-> "idle"] /\ wq = [w \in Workers |-> None]
  /\ got = [w \in Workers |-> None] /\ lock = None
  /\ historyCtx = [q \in Queries |-> FALSE]
  /\ alreadyHistory = [q \in Queries |-> FALSE]
  /\ history = [q \in Queries |-> <<>>]
  /\ ppc = [p \in Pollers |-> "idle"] /\ pq = [p \in Pollers |-> None]

-----------------------------------------------------------------------------
(* The request that executes query q: start_execution, then `execute'.     *)

HasRoom(k) == inFlight[k] < Limit

\* try_acquire; outside enforce mode the limit is only logged.
Acquire(q) ==
  /\ spc[q] = "idle"
  /\ IF HasRoom(key[q]) \/ ~Enforce
       THEN /\ inFlight' = [inFlight EXCEPT ![key[q]] = @ + 1]
            /\ spc' = [spc EXCEPT ![q] = "register"]
       ELSE /\ spc' = [spc EXCEPT ![q] = "rejected"]
            /\ UNCHANGED inFlight
  /\ UNCHANGED <<key, registered, execution, timer, threads, recording>>

RegisterExecution(q) ==
  /\ spc[q] = "register" /\ Unlocked
  /\ registered' = registered \cup {q}
  /\ status' = [status EXCEPT ![q] = "pending"]
  /\ spc' = [spc EXCEPT ![q] = "submit"]
  /\ UNCHANGED <<slots, cancelRequested, cancelReason, finalized, result,
                 timer, threads, recording>>

Submit(q) ==
  /\ spc[q] = "submit"
  /\ queue' = Append(queue, q)
  /\ spc' = [spc EXCEPT ![q] = "timer"]
  /\ UNCHANGED <<slots, registered, execution, timer, wpc, wq, got, lock,
                 recording>>

\* A timer that was cancelled before it was started does not fire.
StartTimer(q) ==
  /\ spc[q] = "timer"
  /\ timer' = [timer EXCEPT ![q] = IF @ = "cancelled" THEN @ ELSE "armed"]
  /\ spc' = [spc EXCEPT ![q] = "wait"]
  /\ UNCHANGED <<slots, registered, execution, threads, recording>>

\* What _append_history_for_execution writes: the outcome that the result
\* holds, or else what the status says.
Entry(q) == IF result[q] # None THEN result[q]
            ELSE IF status[q] = "cancelled" THEN "cancelled" ELSE "failed"

\* The wait is over, whether or not the query is.  _cleanup_old forgets ended
\* executions an hour after their end: any whose request was answered.
Answer(q) ==
  /\ spc[q] = "wait" /\ Unlocked
  /\ \E E \in SUBSET {e \in registered : status[e] \in Ended /\ spc[e] = "answered"} :
       registered' = registered \ E
  /\ IF status[q] \in Ended
       THEN /\ alreadyHistory' = [alreadyHistory EXCEPT ![q] = TRUE]
            /\ history' = [history EXCEPT ![q] = Append(@, Entry(q))]
            /\ UNCHANGED historyCtx
       ELSE /\ historyCtx' = [historyCtx EXCEPT ![q] = TRUE]
            /\ UNCHANGED <<alreadyHistory, history>>
  /\ spc' = [spc EXCEPT ![q] = "answered"]
  /\ UNCHANGED <<slots, execution, timer, threads, ppc, pq>>

Request(q) == RegisterExecution(q) \/ Submit(q) \/ StartTimer(q) \/ Answer(q)

-----------------------------------------------------------------------------
(* Cancelling: request_cancel by the client, _on_timeout by the timer.     *)
(* connection_id is never set, so that no KILL is sent.                    *)

Cancels(q, why) ==
  /\ cancelRequested' = [cancelRequested EXCEPT ![q] = TRUE]
  /\ cancelReason' = [cancelReason EXCEPT ![q] = IF @ = "" THEN why ELSE @]

RequestCancel(q) ==
  /\ spc[q] = "answered" /\ q \in registered /\ Unlocked
  /\ status[q] \in Live /\ ~cancelRequested[q]
  /\ Cancels(q, "user")
  /\ UNCHANGED <<slots, spc, registered, status, finalized, result, timer,
                 threads, recording>>

\* Mutant: the timer does not ask whether the query has ended.
TimesOut_Always(q) == ~cancelRequested[q]
TimesOut(q) == ~finalized[q] /\ status[q] \in Live /\ ~cancelRequested[q]

OnTimeout(q) ==
  /\ timer[q] = "armed" /\ Unlocked
  /\ timer' = [timer EXCEPT ![q] = "fired"]
  /\ IF TimesOut(q) THEN Cancels(q, "timeout")
                    ELSE UNCHANGED <<cancelRequested, cancelReason>>
  /\ UNCHANGED <<slots, spc, registered, status, finalized, result, threads,
                 recording>>

-----------------------------------------------------------------------------
(* Workers: _run.                                                          *)

Goto(w, pc) == wpc' = [wpc EXCEPT ![w] = pc]

Take(w) ==
  /\ wpc[w] = "idle" /\ queue # <<>>
  /\ wq' = [wq EXCEPT ![w] = Head(queue)] /\ queue' = Tail(queue)
  /\ Goto(w, "begin")
  /\ UNCHANGED <<slots, spc, registered, execution, timer, got, lock, recording>>

\* Mutant: a query cancelled in the queue is dropped as it is.
Begin_Drops(w) ==
  LET q == wq[w] IN
  /\ wpc[w] = "begin" /\ Unlocked
  /\ IF cancelRequested[q]
       THEN Goto(w, "idle") /\ wq' = [wq EXCEPT ![w] = None] /\ UNCHANGED status
       ELSE Goto(w, "execute") /\ status' = [status EXCEPT ![q] = "running"]
                               /\ UNCHANGED wq
  /\ UNCHANGED <<slots, spc, registered, cancelRequested, cancelReason,
                 finalized, result, timer, queue, got, lock, recording>>

\* A query cancelled while it was queued ends here: _run returns before its
\* `try', so that neither the timer is cancelled nor the slot released.
Begin(w) ==
  LET q == wq[w] IN
  /\ wpc[w] = "begin" /\ Unlocked
  /\ IF cancelRequested[q]
       THEN /\ status' = [status EXCEPT ![q] = "cancelled"]
            /\ finalized' = [finalized EXCEPT ![q] = TRUE]
            /\ Goto(w, "idle") /\ wq' = [wq EXCEPT ![w] = None]
       ELSE /\ status' = [status EXCEPT ![q] = "running"]
            /\ Goto(w, "execute")
            /\ UNCHANGED <<finalized, wq>>
  /\ UNCHANGED <<slots, spc, registered, cancelRequested, cancelReason, result,
                 timer, queue, got, lock, recording>>

\* execute_sql gives rows, a response that says what failed, or raises.
Execute(w) ==
  /\ wpc[w] = "execute" /\ Goto(w, "finish")
  /\ \E o \in Outcomes : got' = [got EXCEPT ![w] = o]
  /\ UNCHANGED <<slots, spc, registered, execution, timer, queue, wq, lock,
                 recording>>

\* Mutant: the result is kept although a cancel was requested.
Discards_Never(q) == FALSE
Discards(q)       == cancelRequested[q]

EndStatus(o)     == IF o = "raise" THEN "failed" ELSE "success"

\* The status comes first, the result and _finalized in the next step; the
\* worker holds the lock in between.
Finish(w) ==
  LET q == wq[w] IN
  /\ wpc[w] = "finish" /\ Unlocked
  /\ IF Discards(q)
       THEN /\ status' = [status EXCEPT ![q] = "cancelled"]
            /\ finalized' = [finalized EXCEPT ![q] = TRUE]
            /\ Goto(w, "exit")
            /\ UNCHANGED lock
       ELSE /\ status' = [status EXCEPT ![q] = EndStatus(got[w])]
            /\ lock' = w /\ Goto(w, "write")
            /\ UNCHANGED finalized
  /\ UNCHANGED <<slots, spc, registered, cancelRequested, cancelReason, result,
                 timer, queue, wq, got, recording>>

WriteResult(w) ==
  /\ wpc[w] = "write"
  /\ result' = [result EXCEPT ![wq[w]] = got[w]]
  /\ finalized' = [finalized EXCEPT ![wq[w]] = TRUE]
  /\ lock' = None /\ Goto(w, "exit")
  /\ UNCHANGED <<slots, spc, registered, status, cancelRequested, cancelReason,
                 timer, queue, wq, got, recording>>

\* Mutant: the last slot is not given back.
Released_NotLast(n) == IF n <= 1 THEN n ELSE n - 1
Released(n)         == IF n <= 1 THEN 0 ELSE n - 1

\* The `finally' of _run.
Exit(w) ==
  LET q == wq[w] IN
  /\ wpc[w] = "exit" /\ Goto(w, "idle")
  /\ timer' = [timer EXCEPT ![q] = "cancelled"]
  /\ inFlight' = [inFlight EXCEPT ![key[q]] = Released(@)]
  /\ wq' = [wq EXCEPT ![w] = None] /\ got' = [got EXCEPT ![w] = None]
  /\ UNCHANGED <<key, spc, registered, execution, queue, lock, recording>>

Work(w) == Take(w) \/ Begin(w) \/ Execute(w) \/ Finish(w) \/ WriteResult(w) \/ Exit(w)

-----------------------------------------------------------------------------
(* Polling: get_execution_status takes the lock only to find the execution. *)

PollFind(p, q) ==
  /\ ppc[p] = "idle" /\ spc[q] = "answered" /\ q \in registered /\ Unlocked
  /\ ppc' = [ppc EXCEPT ![p] = "read"] /\ pq' = [pq EXCEPT ![p] = q]
  /\ UNCHANGED <<slots, spc, registered, execution, timer, threads, historyCtx,
                 alreadyHistory, history>>

Unrecorded(q) == historyCtx[q] /\ ~alreadyHistory[q]

PollStatus(p) ==
  /\ ppc[p] = "read"
  /\ IF status[pq[p]] \in Ended /\ Unrecorded(pq[p])
       THEN ppc' = [ppc EXCEPT ![p] = "mark"] /\ UNCHANGED pq
       ELSE ppc' = [ppc EXCEPT ![p] = "idle"] /\ pq' = [pq EXCEPT ![p] = None]
  /\ UNCHANGED <<slots, spc, registered, execution, timer, threads, historyCtx,
                 alreadyHistory, history>>

PollMark(p) ==
  /\ ppc[p] = "mark"
  /\ alreadyHistory' = [alreadyHistory EXCEPT ![pq[p]] = TRUE]
  /\ ppc' = [ppc EXCEPT ![p] = "append"]
  /\ UNCHANGED <<slots, spc, registered, execution, timer, threads, historyCtx,
                 history, pq>>

PollAppend(p) ==
  /\ ppc[p] = "append"
  /\ history' = [history EXCEPT ![pq[p]] = Append(@, Entry(pq[p]))]
  /\ ppc' = [ppc EXCEPT ![p] = "idle"] /\ pq' = [pq EXCEPT ![p] = None]
  /\ UNCHANGED <<slots, spc, registered, execution, timer, threads, historyCtx,
                 alreadyHistory>>

Next ==
  \/ \E q \in Queries : Acquire(q) \/ Request(q) \/ RequestCancel(q) \/ OnTimeout(q)
  \/ \E w \in Workers : Work(w)
  \/ \E p \in Pollers : PollStatus(p) \/ PollMark(p) \/ PollAppend(p)
                          \/ \E q \in Queries : PollFind(p, q)

\* Threads keep running, and a statement ends (the driver's timeout).
Fairness ==
  /\ \A q \in Queries : WF_vars(Request(q))
  /\ \A w \in Workers : WF_vars(Work(w))

Spec     == Init /\ [][Next]_vars
FairSpec == Spec /\ Fairness

-----------------------------------------------------------------------------
(* Properties.                                                             *)

Queued(q)  == \E i \in 1..Len(queue) : queue[i] = q
With(w, q) == wq[w] = q
InProgress(q) ==
  spc[q] \in {"register", "submit"} \/ Queued(q) \/ \E w \in Workers : With(w, q)

\* A query cancelled before a worker began it.
DroppedInQueue(q) == status[q] = "cancelled" /\ timer[q] # "cancelled" /\ ~InProgress(q)

Count(P(_), k) == Cardinality({q \in Queries : key[q] = k /\ P(q)})

\* A slot is held by a query that is in progress, and the only slots that are
\* lost are those of queries cancelled in the queue: in enforce mode a user has
\* at most Limit queries in progress on a data source.
SlotsAccounted ==
  \A k \in Keys :
    /\ inFlight[k] = Count(InProgress, k) + Count(DroppedInQueue, k)
    /\ Enforce => inFlight[k] <= Limit

\* Whatever a timer, a cancel and a worker do at the same time, an execution
\* that has been finalized is not touched again.
FinalIsFinal ==
  [][\A q \in Queries : finalized[q] =>
       UNCHANGED <<status[q], cancelRequested[q], cancelReason[q], result[q]>>]_vars

\* Once a cancel has been accepted the query ends as cancelled, shows no rows,
\* and says why.
CancelWins ==
  \A q \in Queries : cancelRequested[q] /\ status[q] \in Ended =>
    status[q] = "cancelled" /\ result[q] = None /\ cancelReason[q] # ""

\* Every query that was accepted ends.
EveryQueryEnds == \A q \in Queries : spc[q] = "register" ~> status[q] \in Ended

\* runtime.py:245 says that a worker that exits always releases its slot.
SlotsReturned == \A k \in Keys : inFlight[k] = Count(InProgress, k)

\* sql_workbench.py:258 says a poll appends the history entry once: it does
\* while nobody else polls the query.
HistoryOnce == \A q \in Queries : Len(history[q]) <= 1

\* runtime.py:15 says the fields that the worker writes and the handlers read
\* are synchronized by the lock: a success is then recorded as what it gave.
HistoryFaithful ==
  \A q \in Queries : status[q] = "success" =>
    \A i \in 1..Len(history[q]) : history[q][i] \in {"rows", "error"}
=============================================================================
