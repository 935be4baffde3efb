---------------------------- MODULE RateLimiter ----------------------------
(***************************************************************************)
(* The sliding window in front of the sign-in handlers: for each key a     *)
(* queue of the times of the hits that were let through.  check() reads    *)
(* the clock before it takes the lock, so that a thread which is held up   *)
(* in between counts, and enters, an earlier time than it answers at.      *)
(*                                                                         *)
(* A request asks for its address first and for its user name second; a    *)
(* request refused for the name has used up a hit of the address.          *)
(***************************************************************************)
EXTENDS Integers, Sequences, FiniteSets

CONSTANTS
  Threads,
  Keys,        \* <<"ip", address>> and <<"user", name>>
  Limit,       \* [Keys -> Nat]
  Window,
  MaxTime,     \* bound: the clock
  MaxLag       \* bound: how long a thread waits for the lock

WindowAssumption == Window \in Nat \ {0} /\ MaxLag \in Nat /\ \A k \in Keys : Limit[k] \in Nat \ {0}

VARIABLES
  now,
  hits,    \* _store: key to the queue of times
  asked,   \* thread to the keys it has yet to ask for, and the time it has read
  passed   \* history: key to the times at which it was let through

vars == <<now, hits, asked, passed>>

Idle == [keys |-> <<>>, time |-> 0]

Init ==
  /\ now = 0
  /\ hits = [k \in Keys |-> <<>>]
  /\ asked = [t \in Threads |-> Idle]
  /\ passed = [k \in Keys |-> <<>>]

Asking(t) == asked[t].keys # <<>>

Tick ==
  /\ now < MaxTime
  /\ \A t \in Threads : Asking(t) => now - asked[t].time < MaxLag
  /\ now' = now + 1
  /\ UNCHANGED <<hits, asked, passed>>

\* check_auth_rate_limit: a request with or without a name; the clock is read.
Request(t) ==
  /\ ~Asking(t)
  /\ \E ip, user \in Keys :
       /\ ip[1] = "ip" /\ user[1] = "user"
       /\ \E keys \in {<<ip>>, <<ip, user>>} : asked' = [asked EXCEPT ![t] = [keys |-> keys, time |-> now]]
  /\ UNCHANGED <<now, hits, passed>>

\* Mutant: a hit at the very edge of the window is dropped as well.
Expire_Whole(q, cutoff) == SelectSeq(q, LAMBDA s : s > cutoff)

\* Times are taken off the left while they are out of the window.
Expire(q, cutoff) ==
  LET kept == {i \in DOMAIN q : q[i] >= cutoff}
  IN IF kept = {} THEN <<>> ELSE SubSeq(q, CHOOSE i \in kept : \A j \in kept : i <= j, Len(q))

Live(t, k) == Expire(hits[k], asked[t].time - Window)

\* Let through: the next key is asked for with a new reading of the clock.
Pass(t) ==
  LET k == Head(asked[t].keys) IN
  /\ Asking(t) /\ Len(Live(t, k)) < Limit[k]
  /\ hits' = [hits EXCEPT ![k] = Append(Live(t, k), asked[t].time)]
  /\ passed' = [passed EXCEPT ![k] = Append(@, now)]
  /\ asked' = [asked EXCEPT ![t] =
       IF Len(@.keys) = 1 THEN Idle ELSE [keys |-> Tail(@.keys), time |-> now]]
  /\ UNCHANGED now

Refuse(t) ==
  LET k == Head(asked[t].keys) IN
  /\ Asking(t) /\ Len(Live(t, k)) >= Limit[k]
  /\ hits' = [hits EXCEPT ![k] = Live(t, k)]
  /\ asked' = [asked EXCEPT ![t] = Idle]
  /\ UNCHANGED <<now, passed>>

Next == Tick \/ \E t \in Threads : Request(t) \/ Pass(t) \/ Refuse(t)

Spec == Init /\ [][Next]_vars

-----------------------------------------------------------------------------
\* Over any stretch of time that is shorter than the window by the longest wait
\* for the lock, no key is let through more often than its limit, although late
\* threads enter times out of order and expire the queue by an older clock.
RateHolds ==
  \A k \in Keys : \A i \in DOMAIN passed[k] :
    Cardinality({j \in DOMAIN passed[k] : j >= i /\ passed[k][j] <= passed[k][i] + Window - MaxLag}) <= Limit[k]
=============================================================================
