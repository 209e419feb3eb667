------------------------------- MODULE RateLimit -------------------------------
(***************************************************************************)
(* One bucket of api/_lib/ratelimit.py: the sliding window of one user and *)
(* scope, shared by the threads of one instance.  allow() reads the clock  *)
(* before it takes the lock, so threads may enter in another order than    *)
(* that of their readings, and the deque need not be sorted.               *)
(*                                                                         *)
(* Time is counted in half seconds, so that rounding retry_after up to     *)
(* whole seconds is visible.                                               *)
(***************************************************************************)
EXTENDS Integers, Sequences, FiniteSets

CONSTANTS
  Threads,
  Limit, Window,      \* requests, half seconds
  MaxTime             \* bound of this model: the clock stops here

ASSUME ThreadsAssumption == IsFiniteSet(Threads) /\ Threads # {}
ASSUME LimitAssumption == Limit \in Nat \ {0}
ASSUME WindowAssumption == Window \in Nat \ {0}
ASSUME TimeAssumption == MaxTime \in Nat

VARIABLES
  time,               \* time.monotonic()
  pc, now,            \* per thread: before or after its reading; the reading
  q,                  \* the deque
  retry_after,        \* per thread: the last answer, 0 when allowed
  admitted,           \* the requests allowed since the start: the reading of each, and
                      \* how many-th it was at that reading
  promise             \* the earliest time a refused caller was told to come back,
                      \* while nobody has been allowed since; -1 when there is none

vars == <<time, pc, now, q, retry_after, admitted, promise>>

Times == 0..MaxTime

Init ==
  /\ time = 0
  /\ pc = [t \in Threads |-> "idle"] /\ now = [t \in Threads |-> 0]
  /\ q = <<>>
  /\ retry_after = [t \in Threads |-> 0]
  /\ admitted = {}
  /\ promise = -1

-----------------------------------------------------------------------------

\* Mutant: a request that ages out this very moment still counts.
Expired_Late(stamp, n) == stamp < n - Window

Expired(stamp, n) == stamp <= n - Window

\* How many entries the loop pops: those before the first that has not expired.
Popped(n) == Cardinality({i \in 1..Len(q) : \A j \in 1..i : Expired(q[j], n)})

\* Mutant: an expired head starts a new window.
Unexpired_NewWindow(n) == IF Popped(n) = 0 THEN q ELSE <<>>

Unexpired(n) == SubSeq(q, Popped(n) + 1, Len(q))

\* Mutant: one request too many.
Full_OneMore(s) == Len(s) > Limit

Full(s) == Len(s) >= Limit

\* Mutant: the parentheses dropped, and never raised to 1.
RetryAfter_NoParentheses(n, oldest) == (Window - n - oldest + 1) \div 2

\* max(1, ceil(window - (now - q[0])))
RetryAfter(n, oldest) ==
  LET seconds == (Window - (n - oldest) + 1) \div 2
  IN  IF seconds > 1 THEN seconds ELSE 1

Tick ==
  /\ time < MaxTime /\ time' = time + 1
  /\ UNCHANGED <<pc, now, q, retry_after, admitted, promise>>

ReadClock(t) ==
  /\ pc[t] = "idle"
  /\ pc' = [pc EXCEPT ![t] = "read"] /\ now' = [now EXCEPT ![t] = time]
  /\ retry_after' = [retry_after EXCEPT ![t] = 0]
  /\ UNCHANGED <<time, q, admitted, promise>>

Leave(t) == pc' = [pc EXCEPT ![t] = "idle"] /\ now' = [now EXCEPT ![t] = 0]

AdmittedAt(n) == {a \in admitted : a[1] = n}

\* The block under the lock, when it appends.
Allow(t) ==
  /\ pc[t] = "read" /\ ~Full(Unexpired(now[t]))
  /\ q' = Append(Unexpired(now[t]), now[t])
  /\ admitted' = admitted \cup {<<now[t], Cardinality(AdmittedAt(now[t])) + 1>>}
  /\ promise' = -1
  /\ Leave(t)
  /\ UNCHANGED <<time, retry_after>>

\* The block under the lock, when it refuses.
Refuse(t) ==
  /\ pc[t] = "read" /\ Full(Unexpired(now[t]))
  /\ q' = Unexpired(now[t])
  /\ LET wait == RetryAfter(now[t], q'[1])  back == now[t] + 2 * wait IN
     /\ retry_after' = [retry_after EXCEPT ![t] = wait]
     /\ promise' = IF promise # -1 /\ promise < back THEN promise ELSE back
  /\ Leave(t)
  /\ UNCHANGED <<time, admitted>>

Next == Tick \/ \E t \in Threads : ReadClock(t) \/ Allow(t) \/ Refuse(t)

Spec == Init /\ [][Next]_vars

-----------------------------------------------------------------------------
(* Properties.                                                              *)

\* Every variable has its type.  A deque holds at most `limit' entries (ratelimit.py:16),
\* also while refused callers keep trying and threads enter out of order.
TypeOK ==
  /\ time \in Times
  /\ pc \in [Threads -> {"idle", "read"}]
  /\ now \in [Threads -> Times]
  /\ q \in Seq(Times) /\ Len(q) <= Limit
  /\ retry_after \in [Threads -> Nat]
  /\ admitted \subseteq Times \X Nat /\ IsFiniteSet(admitted)
  /\ promise \in Nat \cup {-1}

\* A caller refused with Retry-After who comes back no sooner, when nobody has been
\* allowed in between, is not refused again.
RetryAfterIsEnough ==
  [][\A t \in Threads :
       pc[t] = "read" /\ pc'[t] = "idle" /\ promise # -1 /\ promise' # -1
       => now[t] < promise]_vars

Allowed(from, to) == Cardinality({a \in admitted : from < a[1] /\ a[1] <= to})

\* In no window are more than `limit' requests allowed, except for those that had read
\* the clock and not yet the lock when the window moved on: one per other thread.
WindowBound ==
  \A s \in Times : Allowed(s - Window, s) <= Limit + Cardinality(Threads) - 1

=============================================================================
