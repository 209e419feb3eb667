---------------------------- MODULE RateLimit_proofs ----------------------------
(***************************************************************************)
(* Proofs about RateLimit, for any number of threads, limit and window.    *)
(***************************************************************************)
EXTENDS RateLimit, FiniteSetTheorems, TLAPS

-----------------------------------------------------------------------------
(* The loop that pops the deque.                                            *)

\* It pops no more than there is, and it pops an expired head.
LEMMA PoppedType ==
  ASSUME q \in Seq(Times), NEW n \in Times
  PROVE  /\ Popped(n) \in 0..Len(q)
         /\ Popped(n) = 0 /\ Len(q) > 0 => ~Expired(q[1], n)
<1> DEFINE Old == {i \in 1..Len(q) : \A j \in 1..i : Expired(q[j], n)}
<1>1. IsFiniteSet(1..Len(q)) /\ Cardinality(1..Len(q)) = Len(q)
  <2>1. Len(q) \in Nat /\ Len(q) \in Int /\ 1 \in Int
    OBVIOUS
  <2>2. /\ IsFiniteSet(1..Len(q))
        /\ Cardinality(1..Len(q)) = IF 1 > Len(q) THEN 0 ELSE Len(q) - 1 + 1
    BY ONLY <2>1, FS_Interval, Zenon
  <2> QED
    BY ONLY <2>1, <2>2
<1>2. Old \subseteq 1..Len(q)
  OBVIOUS
<1>3. IsFiniteSet(Old) /\ Cardinality(Old) <= Len(q)
  BY ONLY <1>1, <1>2, FS_Subset
<1>4. Cardinality(Old) \in Nat
  BY ONLY <1>3, FS_CardinalityType
<1>5. Cardinality(Old) = 0 => Old = {}
  BY ONLY <1>3, FS_EmptySet
<1>6. ASSUME Len(q) > 0, Expired(q[1], n) PROVE 1 \in Old
  BY <1>6
<1>7. Popped(n) = Cardinality(Old)
  BY DEF Popped
<1> HIDE DEF Old
<1>8. Len(q) \in Nat
  OBVIOUS
<1> QED
  BY <1>3, <1>4, <1>5, <1>6, <1>7, <1>8

\* What it pops has expired: were one of them fresh, it would have stopped there.
LEMMA PoppedExpired ==
  ASSUME q \in Seq(Times), NEW n \in Times
  PROVE  \A i \in 1..Popped(n) : Expired(q[i], n)
<1> DEFINE Old == {i \in 1..Len(q) : \A j \in 1..i : Expired(q[j], n)}
<1>1. Popped(n) = Cardinality(Old) /\ Popped(n) \in 0..Len(q) /\ Len(q) \in Nat
  BY PoppedType DEF Popped
<1>2. ASSUME NEW i \in 1..Popped(n), ~Expired(q[i], n) PROVE FALSE
  <2>1. i \in Nat /\ i - 1 \in Int /\ 1 \in Int /\ 1 <= i
    BY <1>1
  <2>2. Old \subseteq 1..(i - 1)
    BY <1>1, <1>2, <2>1
  <2> HIDE DEF Old
  <2>3. IsFiniteSet(1..(i - 1)) /\ Cardinality(1..(i - 1)) = IF 1 > i - 1 THEN 0 ELSE i - 1 - 1 + 1
    BY ONLY <2>1, FS_Interval, Zenon
  <2>4. Cardinality(1..(i - 1)) = i - 1
    BY <2>1, <2>3
  <2>5. Cardinality(Old) <= Cardinality(1..(i - 1))
    BY ONLY <2>2, <2>3, FS_Subset
  <2> QED
    BY <1>1, <2>1, <2>4, <2>5
<1> QED
  BY <1>2

\* What remains is a part of the deque, and all of it only if nothing was popped.
LEMMA UnexpiredType ==
  ASSUME q \in Seq(Times), NEW n \in Times
  PROVE  /\ Unexpired(n) \in Seq(Times)
         /\ Len(Unexpired(n)) <= Len(q)
         /\ Len(Unexpired(n)) = Len(q) => Unexpired(n) = q /\ Popped(n) = 0
<1>1. Popped(n) \in 0..Len(q)
  BY PoppedType
<1>2. Len(Unexpired(n)) = Len(q) - Popped(n) /\ Unexpired(n) \in Seq(Times)
  BY <1>1 DEF Unexpired
<1>3. ASSUME Popped(n) = 0 PROVE Unexpired(n) = q
  BY <1>3 DEF Unexpired
<1> QED
  BY <1>1, <1>2, <1>3

-----------------------------------------------------------------------------
(* The invariant.                                                           *)

\* While a refused caller's promise stands the deque is full, and its head will have
\* aged out by then.
PromiseKept == promise # -1 => Len(q) = Limit /\ promise >= q[1] + Window

Inv == TypeOK /\ PromiseKept

LEMMA InvInit == Init => Inv
<1> USE LimitAssumption, WindowAssumption, TimeAssumption
<1> SUFFICES ASSUME Init PROVE Inv
  OBVIOUS
<1>1. TypeOK
  BY FS_EmptySet DEF Init, TypeOK, Times
<1>2. PromiseKept
  BY DEF Init, PromiseKept
<1> QED
  BY <1>1, <1>2 DEF Inv

\* An allowed request finds room, and breaks the promise.
LEMMA AllowInv == ASSUME Inv, NEW t \in Threads, Allow(t) PROVE Inv'
<1> USE LimitAssumption, WindowAssumption, TimeAssumption DEF Inv, TypeOK
<1> DEFINE rest == Unexpired(now[t])
<1>1. now[t] \in Times /\ rest \in Seq(Times) /\ Len(rest) <= Len(q)
  BY UnexpiredType
<1>2. q' = Append(rest, now[t]) /\ Len(rest) < Limit
  BY <1>1 DEF Allow, Full
<1>3. q' \in Seq(Times) /\ Len(q') <= Limit
  BY <1>1, <1>2
<1>4. admitted' \subseteq Times \X Nat /\ IsFiniteSet(admitted')
  <2>1. IsFiniteSet(AdmittedAt(now[t]))
    BY FS_Subset DEF AdmittedAt
  <2>2. Cardinality(AdmittedAt(now[t])) + 1 \in Nat
    BY <2>1, FS_CardinalityType
  <2>3. admitted' = admitted \cup {<<now[t], Cardinality(AdmittedAt(now[t])) + 1>>}
    BY DEF Allow
  <2>4. IsFiniteSet(admitted')
    BY <2>3, FS_AddElement
  <2> QED
    BY <1>1, <2>2, <2>3, <2>4
<1>5. TypeOK'
  BY <1>3, <1>4 DEF Allow, Leave, Times
<1> QED
  BY <1>3, <1>5 DEF Allow, PromiseKept

\* A refusal pops nothing, since what it leaves is full.
LEMMA RefuseStep ==
  ASSUME Inv, NEW t \in Threads, Refuse(t)
  PROVE  /\ q' = q /\ Len(q) = Limit /\ q[1] \in Times
         /\ ~Expired(q[1], now[t])
<1> USE LimitAssumption, WindowAssumption, TimeAssumption DEF Inv, TypeOK
<1> DEFINE rest == Unexpired(now[t])
<1>1. now[t] \in Times /\ rest \in Seq(Times) /\ Len(rest) <= Len(q)
  BY UnexpiredType
<1>2. q' = rest /\ Len(rest) >= Limit
  BY <1>1 DEF Refuse, Full
<1>3. Len(rest) = Len(q) /\ Len(q) = Limit
  BY <1>1, <1>2
<1>4. rest = q /\ Popped(now[t]) = 0
  BY <1>1, <1>3, UnexpiredType
<1>5. ~Expired(q[1], now[t])
  BY <1>1, <1>3, <1>4, PoppedType
<1> QED
  BY <1>2, <1>3, <1>4, <1>5

\* Waiting retry_after seconds takes the caller past the age of the oldest entry.
LEMMA RetryAfterCovers ==
  ASSUME NEW n \in Nat, NEW oldest \in Nat
  PROVE  /\ RetryAfter(n, oldest) \in Nat
         /\ n + 2 * RetryAfter(n, oldest) >= oldest + Window
<1> USE WindowAssumption
<1> DEFINE x == Window - (n - oldest) + 1
<1>1. x \in Int
  OBVIOUS
<1> HIDE DEF x
<1>2. x \div 2 \in Int /\ 2 * (x \div 2) >= x - 1
  BY <1>1
<1>3. RetryAfter(n, oldest) = IF x \div 2 > 1 THEN x \div 2 ELSE 1
  BY DEF RetryAfter, x
<1>4. RetryAfter(n, oldest) \in Nat /\ 2 * RetryAfter(n, oldest) >= x - 1
  BY <1>1, <1>2, <1>3
<1> QED
  BY <1>4 DEF x

\* The promise it makes covers the head of the deque.
LEMMA RefuseInv == ASSUME Inv, NEW t \in Threads, Refuse(t) PROVE Inv'
<1> USE LimitAssumption, WindowAssumption, TimeAssumption DEF Inv, TypeOK
<1>1. q' = q /\ Len(q) = Limit /\ q[1] \in Times /\ now[t] \in Times
  BY RefuseStep
<1> DEFINE wait == RetryAfter(now[t], q[1])
           back == now[t] + 2 * wait
<1>2. wait \in Nat /\ back \in Nat /\ back >= q[1] + Window
  <2>1. q[1] \in Nat /\ now[t] \in Nat
    BY <1>1 DEF Times
  <2>2. wait \in Nat /\ back >= q[1] + Window
    BY ONLY <2>1, RetryAfterCovers
  <2> QED
    BY ONLY <2>1, <2>2
<1>3. /\ retry_after' = [retry_after EXCEPT ![t] = wait]
      /\ promise' = IF promise # -1 /\ promise < back THEN promise ELSE back
  BY <1>1 DEF Refuse
<1> HIDE DEF wait, back
<1>4. TypeOK'
  <2>1. promise' \in Nat \cup {-1}
    BY <1>2, <1>3
  <2>2. retry_after' \in [Threads -> Nat]
    BY <1>2, <1>3
  <2>3. pc' \in [Threads -> {"idle", "read"}] /\ now' \in [Threads -> Times]
    BY DEF Refuse, Leave, Times
  <2>4. UNCHANGED <<time, q, admitted>>
    BY <1>1 DEF Refuse
  <2> QED
    BY <2>1, <2>2, <2>3, <2>4
<1>5. promise' >= q'[1] + Window
  BY <1>1, <1>2, <1>3 DEF PromiseKept
<1> QED
  BY <1>1, <1>4, <1>5 DEF PromiseKept

LEMMA InvStep == Inv /\ [Next]_vars => Inv'
<1> USE LimitAssumption, WindowAssumption, TimeAssumption DEF Inv, TypeOK
<1> SUFFICES ASSUME Inv, [Next]_vars PROVE Inv'
  OBVIOUS
<1>1. CASE Tick
  BY <1>1 DEF Tick, Times, PromiseKept
<1>2. ASSUME NEW t \in Threads, ReadClock(t) PROVE Inv'
  BY <1>2 DEF ReadClock, Times, PromiseKept
<1>3. ASSUME NEW t \in Threads, Allow(t) PROVE Inv'
  BY <1>3, AllowInv DEF Inv
<1>4. ASSUME NEW t \in Threads, Refuse(t) PROVE Inv'
  BY <1>4, RefuseInv DEF Inv
<1>5. CASE UNCHANGED vars
  BY <1>5 DEF vars, PromiseKept
<1> QED
  BY <1>1, <1>2, <1>3, <1>4, <1>5 DEF Next

\* Inv holds in every reachable state.
THEOREM Invariant == Spec => []Inv
<1>1. Init => Inv
  BY InvInit
<1>2. Inv /\ [Next]_vars => Inv'
  BY InvStep
<1> QED
  BY <1>1, <1>2, PTL DEF Spec

\* Every variable keeps its type, and the deque never holds more than `limit' entries
\* (ratelimit.py:16), for any number of threads and any order of entry.
THEOREM TypeCorrect == Spec => []TypeOK
<1>1. Inv => TypeOK
  BY DEF Inv
<1> QED
  BY <1>1, Invariant, PTL

\* Retry-After is enough: a caller who waits as long as it was told, and was not
\* overtaken, is allowed, whatever the order in which threads took the lock.
THEOREM RetryAfterSuffices == Spec => RetryAfterIsEnough
<1> USE LimitAssumption, WindowAssumption, TimeAssumption
<1> DEFINE Kept == \A t \in Threads :
       pc[t] = "read" /\ pc'[t] = "idle" /\ promise # -1 /\ promise' # -1
       => now[t] < promise
<1>1. ASSUME Inv, [Next]_vars PROVE [Kept]_vars
  <2> SUFFICES ASSUME NEW t \in Threads, Next,
                      pc[t] = "read", pc'[t] = "idle", promise # -1, promise' # -1
               PROVE  now[t] < promise
    BY <1>1
  <2>1. Refuse(t)
    <3>1. ASSUME NEW u \in Threads, Allow(u) PROVE FALSE
      BY <3>1 DEF Allow
    <3>2. ASSUME NEW u \in Threads, ReadClock(u) PROVE FALSE
      BY <1>1, <3>2 DEF ReadClock, Inv, TypeOK
    <3>3. ASSUME NEW u \in Threads, Refuse(u) PROVE u = t
      BY <1>1, <3>3 DEF Refuse, Leave, Inv, TypeOK
    <3>4. ASSUME Tick PROVE FALSE
      BY <3>4 DEF Tick
    <3> QED
      BY <3>1, <3>2, <3>3, <3>4 DEF Next
  <2>2. /\ Len(q) = Limit /\ q[1] \in Times
        /\ ~Expired(q[1], now[t])
    BY <1>1, <2>1, RefuseStep
  <2>3. now[t] \in Times /\ promise >= q[1] + Window /\ promise \in Nat
    BY <1>1 DEF Inv, TypeOK, PromiseKept
  <2> QED
    BY <2>2, <2>3 DEF Expired, Times
<1> QED
  BY <1>1, Invariant, PTL DEF Spec, RetryAfterIsEnough

-----------------------------------------------------------------------------
(* The window.                                                              *)

\* For a window that ends at s: which requests of it were allowed, where the deque holds
\* them, and who had read the clock before its end and has not had the lock yet.
InWindow(n, s) == s - Window < n /\ n <= s
AllowedIn(s) == {a \in admitted : InWindow(a[1], s)}
HeldIn(s) == {i \in 1..Len(q) : InWindow(q[i], s)}
Late(s) == {t \in Threads : pc[t] = "read" /\ now[t] <= s}

ReadingsArePast == \A t \in Threads : now[t] <= time
TicketsInv == \A a \in admitted : a[2] <= Cardinality(AdmittedAt(a[1]))

\* Until a request of the window is popped the deque holds all of them.  Who pops one has a
\* reading after the window, so that only the late ones are still to come.
AllHeld(s) == Cardinality(AllowedIn(s)) <= Cardinality(HeldIn(s))
OnlyLateOnes(s) ==
  time > s /\ Cardinality(AllowedIn(s)) + Cardinality(Late(s)) <= Limit + Cardinality(Threads) - 1

WindowInv == \A s \in Times : AllHeld(s) \/ OnlyLateOnes(s)

BoundInv == Inv /\ ReadingsArePast /\ TicketsInv /\ WindowInv

LEMMA SetsAreFinite ==
  ASSUME TypeOK, NEW s
  PROVE  /\ IsFiniteSet(AllowedIn(s)) /\ IsFiniteSet(Late(s)) /\ IsFiniteSet(HeldIn(s))
         /\ Cardinality(AllowedIn(s)) \in Nat /\ Cardinality(Late(s)) \in Nat
         /\ Cardinality(Threads) \in Nat /\ Cardinality(HeldIn(s)) \in 0..Len(q)
<1>1. AllowedIn(s) \subseteq admitted /\ Late(s) \subseteq Threads /\ HeldIn(s) \subseteq 1..Len(q)
  BY DEF AllowedIn, Late, HeldIn
<1>2. Len(q) \in Nat /\ 1 \in Int /\ Len(q) \in Int
  BY DEF TypeOK
<1>3. /\ IsFiniteSet(1..Len(q))
      /\ Cardinality(1..Len(q)) = IF 1 > Len(q) THEN 0 ELSE Len(q) - 1 + 1
  BY ONLY <1>2, FS_Interval, Zenon
<1>4. IsFiniteSet(admitted) /\ IsFiniteSet(Threads)
  BY ThreadsAssumption DEF TypeOK
<1>5. IsFiniteSet(AllowedIn(s)) /\ IsFiniteSet(Late(s))
  BY ONLY <1>1, <1>4, FS_Subset
<1>6. IsFiniteSet(HeldIn(s)) /\ Cardinality(HeldIn(s)) <= Cardinality(1..Len(q))
  BY ONLY <1>1, <1>3, FS_Subset
<1>7. /\ Cardinality(AllowedIn(s)) \in Nat /\ Cardinality(Late(s)) \in Nat
      /\ Cardinality(Threads) \in Nat /\ Cardinality(HeldIn(s)) \in Nat
  BY ONLY <1>4, <1>5, <1>6, FS_CardinalityType
<1> QED
  BY <1>2, <1>3, <1>5, <1>6, <1>7

\* Fewer may be late.
LEMMA FewerLate ==
  ASSUME TypeOK, NEW s, Late(s)' \subseteq Late(s)
  PROVE  Cardinality(Late(s)') <= Cardinality(Late(s)) /\ Cardinality(Late(s)') \in Nat
<1>1. IsFiniteSet(Late(s))
  BY SetsAreFinite
<1>2. IsFiniteSet(Late(s)') /\ Cardinality(Late(s)') <= Cardinality(Late(s))
  BY <1>1, FS_Subset
<1>3. Cardinality(Late(s)') \in Nat
  BY ONLY <1>2, FS_CardinalityType
<1> QED
  BY <1>2, <1>3

\* An allowed request is a new one, of the windows its reading is in.
LEMMA AllowedGrows ==
  ASSUME TypeOK, TicketsInv, NEW t \in Threads, Allow(t)
  PROVE  /\ TicketsInv'
         /\ \A s \in Times :
              Cardinality(AllowedIn(s)') = IF InWindow(now[t], s) THEN Cardinality(AllowedIn(s)) + 1
                                           ELSE Cardinality(AllowedIn(s))
<1> PICK n : n = now[t]
  OBVIOUS
<1> PICK new : new = <<n, Cardinality(AdmittedAt(n)) + 1>>
  OBVIOUS
<1>1. admitted' = admitted \cup {new} /\ new[1] = n /\ new[2] = Cardinality(AdmittedAt(n)) + 1
  BY DEF Allow
<1>2. \A m : IsFiniteSet(AdmittedAt(m)) /\ Cardinality(AdmittedAt(m)) \in Nat
  <2>1. ASSUME NEW m PROVE IsFiniteSet(AdmittedAt(m)) /\ Cardinality(AdmittedAt(m)) \in Nat
    <3>1. AdmittedAt(m) \subseteq admitted /\ IsFiniteSet(admitted)
      BY DEF AdmittedAt, TypeOK
    <3>2. IsFiniteSet(AdmittedAt(m))
      BY ONLY <3>1, FS_Subset
    <3> QED
      BY ONLY <3>2, FS_CardinalityType
  <2> QED
    BY <2>1
<1>3. new \notin admitted
  <2>1. new \in admitted => new[2] <= Cardinality(AdmittedAt(n))
    BY <1>1 DEF TicketsInv
  <2> QED
    BY <1>1, <1>2, <2>1
<1>4. TicketsInv'
  <2>1. ASSUME NEW m, m # n PROVE AdmittedAt(m)' = AdmittedAt(m)
    BY <1>1, <2>1 DEF AdmittedAt
  <2>2. Cardinality(AdmittedAt(n)') = Cardinality(AdmittedAt(n)) + 1
    <3>1. AdmittedAt(n)' = AdmittedAt(n) \cup {new} /\ new \notin AdmittedAt(n)
      BY <1>1, <1>3 DEF AdmittedAt
    <3> QED
      BY <1>2, <3>1, FS_AddElement
  <2>3. ASSUME NEW a \in admitted PROVE a[2] <= Cardinality(AdmittedAt(a[1])')
    <3>1. a[2] <= Cardinality(AdmittedAt(a[1])) /\ a[2] \in Nat
      BY DEF TicketsInv, TypeOK
    <3>2. CASE a[1] = n
      BY <1>2, <2>2, <3>1, <3>2
    <3>3. CASE a[1] # n
      BY <2>1, <3>1, <3>3
    <3> QED
      BY <3>2, <3>3
  <2>4. new[2] <= Cardinality(AdmittedAt(new[1])')
    BY <1>1, <1>2, <2>2
  <2> QED
    BY <1>1, <2>3, <2>4 DEF TicketsInv, AdmittedAt
<1>5. ASSUME NEW s \in Times
      PROVE  Cardinality(AllowedIn(s)') = IF InWindow(n, s) THEN Cardinality(AllowedIn(s)) + 1
                                          ELSE Cardinality(AllowedIn(s))
  <2>1. AllowedIn(s)' = IF InWindow(n, s) THEN AllowedIn(s) \cup {new} ELSE AllowedIn(s)
    BY <1>1 DEF AllowedIn
  <2>2. new \notin AllowedIn(s) /\ IsFiniteSet(AllowedIn(s))
    BY <1>3, SetsAreFinite DEF AllowedIn
  <2> QED
    BY <2>1, <2>2, FS_AddElement
<1> QED
  BY <1>4, <1>5

LEMMA ShiftedIs ==
  ASSUME NEW S, NEW w \in Seq(S), NEW k \in 0..Len(w), NEW e \in S, NEW r,
         r = Append(SubSeq(w, k + 1, Len(w)), e)
  PROVE  /\ Len(r) = Len(w) - k + 1 /\ r[Len(w) - k + 1] = e
         /\ \A i \in 1..(Len(w) - k) : r[i] = w[i + k]
<1> PICK rest : rest = SubSeq(w, k + 1, Len(w))
  OBVIOUS
<1>1. Len(w) \in Nat /\ k \in Nat /\ k <= Len(w)
  OBVIOUS
<1>2. Len(rest) = Len(w) - k /\ rest \in Seq(S)
  BY <1>1
<1>3. \A i \in 1..(Len(w) - k) : rest[i] = w[i + k]
  BY <1>1
<1>4. Len(r) = Len(rest) + 1 /\ r[Len(rest) + 1] = e /\ \A i \in 1..Len(rest) : r[i] = rest[i]
  <2>1. r = Append(rest, e)
    OBVIOUS
  <2>2. rest \in Seq(S) /\ e \in S /\ Len(rest) \in Nat
    BY <1>2
  <2> QED
    BY ONLY <2>1, <2>2
<1> QED
  BY <1>1, <1>2, <1>3, <1>4

\* When nothing of the window is popped, the deque still holds what it held of it.
LEMMA HeldGrows ==
  ASSUME TypeOK, NEW t \in Threads, Allow(t), NEW s \in Times,
         \A i \in 1..Popped(now[t]) : i \notin HeldIn(s)
  PROVE  Cardinality(HeldIn(s)') >= IF InWindow(now[t], s) THEN Cardinality(HeldIn(s)) + 1
                                    ELSE Cardinality(HeldIn(s))
<1> PICK n : n = now[t]
  OBVIOUS
<1> PICK k : k = Popped(n)
  OBVIOUS
<1> PICK l : l = Len(q) - k
  OBVIOUS
<1> DEFINE Moved == {i \in 1..l : InWindow(q'[i], s)}
<1>1. n \in Times /\ q \in Seq(Times) /\ Len(q) \in Nat
  BY DEF TypeOK
<1>2. k \in 0..Len(q) /\ k \in Nat /\ l \in Nat /\ Len(q) = l + k
  BY <1>1, PoppedType
<1>3. /\ Len(q') = l + 1 /\ q'[l + 1] = n
      /\ \A i \in 1..l : q'[i] = q[i + k]
  <2>1. q' = Append(SubSeq(q, k + 1, Len(q)), n)
    BY DEF Allow, Unexpired
  <2>2. /\ Len(q') = Len(q) - k + 1 /\ q'[Len(q) - k + 1] = n
        /\ \A i \in 1..(Len(q) - k) : q'[i] = q[i + k]
    BY ONLY <1>1, <1>2, <2>1, ShiftedIs
  <2> QED
    BY <2>2
<1>4. IsFiniteSet(Moved) /\ Cardinality(Moved) \in Nat
  <2>1. 1 \in Int /\ l \in Int
    BY <1>2
  <2>2. IsFiniteSet(1..l)
    BY ONLY <2>1, FS_Interval, Zenon
  <2>3. Moved \subseteq 1..l
    OBVIOUS
  <2> HIDE DEF Moved
  <2>4. IsFiniteSet(Moved)
    BY ONLY <2>2, <2>3, FS_Subset
  <2> QED
    BY ONLY <2>4, FS_CardinalityType
<1>5. Cardinality(HeldIn(s)) <= Cardinality(Moved)
  <2> DEFINE f == [i \in HeldIn(s) |-> i - k]
  <2>1. ASSUME NEW i \in HeldIn(s) PROVE i \in Nat /\ i - k \in Moved
    <3>1. i \in 1..Len(q) /\ i \notin 1..k /\ InWindow(q[i], s)
      BY DEF HeldIn
    <3>2. i \in Nat /\ k < i /\ i <= l + k
      BY <1>2, <3>1
    <3>3. i - k \in 1..l /\ (i - k) + k = i
      BY <1>2, <3>2
    <3> QED
      BY <1>3, <3>1, <3>2, <3>3
  <2> HIDE DEF Moved
  <2>2. f \in Injection(HeldIn(s), Moved)
    <3>1. f \in [HeldIn(s) -> Moved]
      BY <2>1
    <3>2. ASSUME NEW i \in HeldIn(s), NEW j \in HeldIn(s), f[i] = f[j] PROVE i = j
      <4>1. i - k = j - k
        BY <3>2
      <4>2. i \in Nat /\ j \in Nat
        BY <2>1
      <4> QED
        BY <1>2, <4>1, <4>2
    <3> HIDE DEF f
    <3> QED
      BY <3>1, <3>2 DEF Injection, IsInjective
  <2> HIDE DEF f
  <2> QED
    BY ONLY <1>4, <2>2, FS_Injection
<1>6. HeldIn(s)' = IF InWindow(n, s) THEN Moved \cup {l + 1} ELSE Moved
  <2>1. Len(q') = l + 1 /\ l \in Nat
    BY <1>2, <1>3
  <2>3. 1..Len(q') = (1..l) \cup {l + 1}
    BY ONLY <2>1
  <2>2. HeldIn(s)' = {i \in 1..Len(q') : InWindow(q'[i], s)}
    BY DEF HeldIn, InWindow
  <2> QED
    BY <1>3, <2>2, <2>3
<1>7. l + 1 \notin Moved
  BY <1>2
<1> HIDE DEF Moved
<1>8. Cardinality(HeldIn(s)) \in Nat
  BY SetsAreFinite, <1>1
<1>9. Cardinality(Moved \cup {l + 1}) = Cardinality(Moved) + 1
  BY <1>4, <1>7, FS_AddElement, Zenon
<1> QED
  BY <1>4, <1>5, <1>6, <1>8, <1>9

LEMMA AllowKeepsBound ==
  ASSUME BoundInv, NEW t \in Threads, Allow(t), NEW s \in Times
  PROVE  AllHeld(s)' \/ OnlyLateOnes(s)'
<1>1. /\ TypeOK /\ TicketsInv /\ time \in Nat /\ now[t] \in Nat /\ s \in Nat /\ now[t] <= time
      /\ Limit \in Nat /\ Window \in Nat /\ Len(q) \in Nat /\ Len(q) <= Limit
  BY LimitAssumption, WindowAssumption DEF BoundInv, Inv, TypeOK, Times, ReadingsArePast
<1>2. /\ Cardinality(AllowedIn(s)) \in Nat /\ Cardinality(Late(s)) \in Nat
      /\ Cardinality(Threads) \in Nat /\ Cardinality(HeldIn(s)) \in 0..Len(q)
      /\ IsFiniteSet(Late(s)) /\ IsFiniteSet(Threads)
  BY <1>1, SetsAreFinite, ThreadsAssumption
<1>3. Cardinality(AllowedIn(s)') = IF InWindow(now[t], s) THEN Cardinality(AllowedIn(s)) + 1
                                   ELSE Cardinality(AllowedIn(s))
  BY <1>1, AllowedGrows
<1>4. Late(s)' = Late(s) \ {t} /\ (t \in Late(s) <=> now[t] <= s) /\ time' = time
  BY <1>1 DEF Late, Allow, Leave, TypeOK
<1>5. Cardinality(Late(s)') = IF now[t] <= s THEN Cardinality(Late(s)) - 1 ELSE Cardinality(Late(s))
  BY <1>2, <1>4, FS_RemoveElement
<1>6. CASE OnlyLateOnes(s)
  BY <1>1, <1>2, <1>3, <1>4, <1>5, <1>6 DEF OnlyLateOnes, InWindow
<1>7. ASSUME AllHeld(s), NEW i \in 1..Popped(now[t]), i \in HeldIn(s) PROVE OnlyLateOnes(s)'
  <2>1. q[i] \in Nat /\ s - Window < q[i] /\ q[i] <= now[t] - Window
    <3>1. q \in Seq(Times) /\ now[t] \in Times
      BY <1>1 DEF TypeOK
    <3>2. Expired(q[i], now[t])
      BY <1>7, <3>1, PoppedExpired
    <3>3. i \in 1..Len(q) /\ InWindow(q[i], s)
      BY <1>7 DEF HeldIn
    <3>4. q[i] \in Nat
      <4>1. q[i] \in Times
        BY ONLY <3>1, <3>3
      <4> QED
        BY ONLY <4>1, TimeAssumption DEF Times
    <3> QED
      BY <3>2, <3>3, <3>4 DEF InWindow, Expired
  <2>2. s < now[t]
    BY <1>1, <2>1
  <2>3. Late(s) \subseteq Threads \ {t}
    BY <1>1, <2>2 DEF Late
  <2>4. /\ IsFiniteSet(Threads \ {t})
        /\ Cardinality(Threads \ {t}) = Cardinality(Threads) - 1
    BY <1>2, FS_RemoveElement
  <2>5. Cardinality(Late(s)) <= Cardinality(Threads) - 1
    BY <2>3, <2>4, FS_Subset
  <2> QED
    BY <1>1, <1>2, <1>3, <1>4, <1>5, <1>7, <2>2, <2>5 DEF AllHeld, OnlyLateOnes, InWindow
<1>8. ASSUME AllHeld(s), \A i \in 1..Popped(now[t]) : i \notin HeldIn(s) PROVE AllHeld(s)'
  <2>1. Cardinality(HeldIn(s)') >= IF InWindow(now[t], s) THEN Cardinality(HeldIn(s)) + 1
                                   ELSE Cardinality(HeldIn(s))
    BY <1>1, <1>8, HeldGrows
  <2>2. Cardinality(HeldIn(s)') \in Nat
    <3>1. TypeOK'
      BY AllowInv DEF BoundInv, Inv
    <3>2. IsFiniteSet(HeldIn(s)')
      <4>1. HeldIn(s)' \subseteq 1..Len(q') /\ 1 \in Int /\ Len(q') \in Int
        BY <3>1 DEF HeldIn, TypeOK
      <4>2. IsFiniteSet(1..Len(q'))
        BY ONLY <4>1, FS_Interval, Zenon
      <4> QED
        BY ONLY <4>1, <4>2, FS_Subset
    <3> QED
      BY ONLY <3>2, FS_CardinalityType
  <2> QED
    BY <1>2, <1>3, <1>8, <2>1, <2>2 DEF AllHeld
<1>9. AllHeld(s) \/ OnlyLateOnes(s)
  BY DEF BoundInv, WindowInv
<1> QED
  BY <1>6, <1>7, <1>8, <1>9

LEMMA BoundInvInit == Init => BoundInv
<1> SUFFICES ASSUME Init PROVE BoundInv
  OBVIOUS
<1>1. Inv /\ TypeOK
  BY InvInit DEF Inv
<1>2. ReadingsArePast /\ TicketsInv
  BY DEF Init, ReadingsArePast, TicketsInv
<1>3. ASSUME NEW s \in Times PROVE AllHeld(s)
  <2>1. AllowedIn(s) = {} /\ HeldIn(s) = {}
    BY DEF Init, AllowedIn, HeldIn
  <2> QED
    BY <2>1, FS_EmptySet DEF AllHeld
<1> QED
  BY <1>1, <1>2, <1>3 DEF BoundInv, WindowInv

LEMMA BoundInvStep == BoundInv /\ [Next]_vars => BoundInv'
<1> SUFFICES ASSUME BoundInv, [Next]_vars PROVE BoundInv'
  OBVIOUS
<1>1. Inv' /\ TypeOK' /\ Inv /\ TypeOK
  BY InvStep DEF BoundInv, Inv
<1>2. ReadingsArePast'
  <2>1. \A t \in Threads : now[t] \in Nat /\ time \in Nat
    BY <1>1 DEF TypeOK, Times
  <2>2. CASE Tick
    BY <2>1, <2>2 DEF Tick, ReadingsArePast, BoundInv
  <2>3. ASSUME NEW t \in Threads, ReadClock(t) \/ Allow(t) \/ Refuse(t) PROVE ReadingsArePast'
    <3>1. time' = time /\ (now' = [now EXCEPT ![t] = time] \/ now' = [now EXCEPT ![t] = 0])
      BY <2>3 DEF ReadClock, Allow, Refuse, Leave
    <3>2. ASSUME NEW u \in Threads PROVE now'[u] <= time
      <4>1. now'[u] \in {now[u], time, 0}
        BY <1>1, <3>1 DEF TypeOK
      <4> QED
        BY <2>1, <4>1 DEF ReadingsArePast, BoundInv
    <3> QED
      BY <3>1, <3>2 DEF ReadingsArePast
  <2>4. CASE UNCHANGED vars
    BY <2>4 DEF vars, ReadingsArePast, BoundInv
  <2> QED
    BY <2>2, <2>3, <2>4 DEF Next
\* Whatever is not an allowed request leaves the requests and the deque as they are.
<1>3. ASSUME UNCHANGED <<admitted, q>>, time' = time \/ time' = time + 1,
             \A s \in Times : time > s => Late(s)' \subseteq Late(s)
      PROVE  BoundInv'
  <2>1. TicketsInv'
    BY <1>3 DEF TicketsInv, AdmittedAt, BoundInv
  <2>2. ASSUME NEW s \in Times PROVE AllHeld(s)' \/ OnlyLateOnes(s)'
    <3>1. AllowedIn(s)' = AllowedIn(s) /\ HeldIn(s)' = HeldIn(s)
      BY <1>3 DEF AllowedIn, HeldIn
    <3>2. CASE AllHeld(s)
      BY <3>1, <3>2 DEF AllHeld
    <3>3. CASE OnlyLateOnes(s)
      <4>1. Cardinality(Late(s)') <= Cardinality(Late(s)) /\ Cardinality(Late(s)') \in Nat
        BY <1>1, <1>3, <3>3, FewerLate DEF OnlyLateOnes
      <4>2. /\ Cardinality(AllowedIn(s)) \in Nat /\ Cardinality(Late(s)) \in Nat
            /\ Cardinality(Threads) \in Nat
        BY <1>1, SetsAreFinite
      <4>3. time \in Nat /\ s \in Nat /\ Limit \in Nat
        BY <1>1, LimitAssumption DEF TypeOK, Times
      <4> QED
        BY <1>3, <3>1, <3>3, <4>1, <4>2, <4>3 DEF OnlyLateOnes
    <3> QED
      BY <3>2, <3>3 DEF BoundInv, WindowInv
  <2> QED
    BY <1>1, <1>2, <2>1, <2>2 DEF BoundInv, WindowInv
<1>4. CASE Tick \/ UNCHANGED vars
  BY <1>3, <1>4 DEF Tick, vars, Late
<1>5. ASSUME NEW t \in Threads, ReadClock(t) PROVE BoundInv'
  <2>1. \A s \in Times : time > s => Late(s)' \subseteq Late(s)
    BY <1>1, <1>5 DEF ReadClock, Late, TypeOK, Times
  <2> QED
    BY <1>3, <1>5, <2>1 DEF ReadClock
<1>6. ASSUME NEW t \in Threads, Refuse(t) PROVE BoundInv'
  <2>1. q' = q
    BY <1>1, <1>6, RefuseStep
  <2>2. \A s \in Times : Late(s)' \subseteq Late(s)
    BY <1>1, <1>6 DEF Refuse, Leave, Late, TypeOK
  <2> QED
    BY <1>3, <1>6, <2>1, <2>2 DEF Refuse
<1>7. ASSUME NEW t \in Threads, Allow(t) PROVE BoundInv'
  <2>1. TicketsInv'
    BY <1>1, <1>7, AllowedGrows DEF BoundInv
  <2>2. WindowInv'
    BY <1>7, AllowKeepsBound DEF WindowInv
  <2> QED
    BY <1>1, <1>2, <2>1, <2>2 DEF BoundInv
<1> QED
  BY <1>4, <1>5, <1>6, <1>7 DEF Next

\* In no window are more than `limit' requests allowed, but for one per other thread that
\* had read the clock and not yet the lock when the window moved on (ratelimit.py:34-42):
\* for any number of threads, and whatever order they enter in.
THEOREM WindowIsBounded == Spec => []WindowBound
<1>1. Init => BoundInv
  BY BoundInvInit
<1>2. BoundInv /\ [Next]_vars => BoundInv'
  BY BoundInvStep
<1>3. BoundInv => WindowBound
  <2> SUFFICES ASSUME BoundInv, NEW s \in Times
               PROVE  Allowed(s - Window, s) <= Limit + Cardinality(Threads) - 1
    BY DEF WindowBound
  <2>1. Allowed(s - Window, s) = Cardinality(AllowedIn(s))
    BY DEF Allowed, AllowedIn, InWindow
  <2>2. /\ Cardinality(AllowedIn(s)) \in Nat /\ Cardinality(Late(s)) \in Nat
        /\ Cardinality(Threads) \in Nat /\ Cardinality(HeldIn(s)) \in 0..Len(q)
    BY SetsAreFinite DEF BoundInv, Inv
  <2>3. Len(q) \in Nat /\ Len(q) <= Limit /\ Limit \in Nat
    BY LimitAssumption DEF BoundInv, Inv, TypeOK
  <2>4. Cardinality(Threads) >= 1
    BY <2>2, ThreadsAssumption, FS_EmptySet
  <2> QED
    BY <2>1, <2>2, <2>3, <2>4 DEF BoundInv, WindowInv, AllHeld, OnlyLateOnes
<1> QED
  BY <1>1, <1>2, <1>3, PTL DEF Spec

=============================================================================
