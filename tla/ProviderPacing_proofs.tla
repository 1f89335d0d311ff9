----------------------- MODULE ProviderPacing_proofs -----------------------
(***************************************************************************)
(* Proofs about the limiter of a provider: the rate holds in every         *)
(* interval, no quota is lost, nobody is overtaken and a queue always has  *)
(* a timer, for any number of requests, any limit and any window.          *)
(*                                                                         *)
(* The heart of it is PumpFacts, what one _pump does: it takes a prefix of *)
(* the queue, and gives the pending ones of it the slots that are free.    *)
(***************************************************************************)
EXTENDS ProviderPacing, FiniteSetTheorems, NaturalsInduction, WellFoundedInduction,
        SequenceTheorems, TLAPS

Distinct(s) == \A i, j \in 1..Len(s) : s[i] = s[j] => i = j

\* A request that may still call the upstream has a try left.
TriesLeft == \A r \in Requests :
  phase[r] \notin {"sent", "stream", "over"} => tries[r] < MaxTries

\* The calls that began are among the tries that were counted.
Counted == \A a \in started : a[2] <= tries[a[1]]

\* The queue holds every pending request once, and futures of requests that gave up.
QueueExact ==
  /\ Distinct(waiters)
  /\ \A i \in 1..Len(waiters) : phase[waiters[i]] \in {"queued", "over"}
  /\ \A r \in Requests : phase[r] = "queued" => r \in ToSet(waiters)

\* The window holds no more than Limit attempts; who was granted a slot has it still.
Slots ==
  /\ Distinct(times) /\ Len(times) <= Limit
  /\ \A r \in Requests : phase[r] = "granted" =>
       Upcoming(r) \in ToSet(times) /\ age[Upcoming(r)] < Window

\* A call that began within the window holds a slot, and its stamp is when it began.
Stamped == \A a \in started :
  since[a] < Window => a \in ToSet(times) /\ age[a] = since[a]

\* A queue that is not empty has a timer: nobody waits for a wake-up that was lost.
QueueIsArmed == waiters # <<>> => timer # None

Inductive ==
  /\ TypeOK /\ TriesLeft /\ Counted /\ QueueExact /\ Slots /\ NoQuotaLost
  /\ Stamped /\ QueueIsArmed

-----------------------------------------------------------------------------
\* A set of numbers has a least one.
LEMMA NatMinimum ==
  ASSUME NEW T \in SUBSET Nat, T # {}
  PROVE  \E k \in T : \A i \in T : k <= i
<1> DEFINE R == OpToRel(<, Nat)
<1>1. PICK k \in T : \A i \in T : <<i, k>> \notin R
  BY NatLessThanWellFounded, WFMin
<1>2. \A i \in T : i < k => <<i, k>> \in R
  BY <1>1 DEF OpToRel
<1> HIDE DEF R
<1>3. ASSUME NEW i \in T PROVE k <= i
  <2>1. ~(i < k)
    BY <1>1, <1>2
  <2>2. i \in Nat /\ k \in Nat
    OBVIOUS
  <2> QED BY <2>1, <2>2
<1> QED BY <1>3

\* Induction, for a set of numbers.
LEMMA NatByInduction ==
  ASSUME NEW T, 0 \in T, \A n \in Nat : n \in T => n + 1 \in T
  PROVE  Nat \subseteq T
<1> SUFFICES ASSUME Nat \ T # {} PROVE FALSE
  OBVIOUS
<1>1. PICK k \in Nat \ T : \A i \in Nat \ T : k <= i
  BY NatMinimum
<1>2. k # 0 /\ k - 1 \in Nat /\ ~(k <= k - 1) /\ (k - 1) + 1 = k
  BY <1>1
<1>3. k - 1 \in T
  BY <1>1, <1>2
<1> QED BY <1>1, <1>2, <1>3

\* RemoveFirst takes one occurrence out and keeps the order of the others.
LEMMA RemoveFirstFacts ==
  ASSUME NEW S, NEW s \in Seq(S), NEW e
  PROVE  /\ e \notin ToSet(s) => RemoveFirst(s, e) = s
         /\ e \in ToSet(s) => \E k \in 1..Len(s) :
              /\ s[k] = e
              /\ RemoveFirst(s, e) \in Seq(S)
              /\ Len(RemoveFirst(s, e)) = Len(s) - 1
              /\ \A j \in 1..(Len(s) - 1) :
                   RemoveFirst(s, e)[j] = IF j < k THEN s[j] ELSE s[j + 1]
<1> DEFINE I == {i \in 1..Len(s) : s[i] = e}
<1>1. CASE e \notin ToSet(s)
  <2>1. ~ \E i \in 1..Len(s) : s[i] = e
    BY <1>1 DEF ToSet
  <2> QED BY <1>1, <2>1 DEF RemoveFirst
<1>2. CASE e \in ToSet(s)
  <2>1. I # {} /\ I \subseteq Nat
    BY <1>2 DEF ToSet
  <2>2. PICK k \in I : \A i \in I : k <= i
    BY <2>1, NatMinimum
  <2>3. Min(I) = k
    BY <2>2 DEF Min
  <2>4. RemoveFirst(s, e) = RemoveAt(s, k)
    BY <2>1, <2>3 DEF RemoveFirst, SelectInSeq
  <2> DEFINE before == SubSeq(s, 1, k - 1)
             after == SubSeq(s, k + 1, Len(s))
             t == RemoveFirst(s, e)
  <2>5. /\ before \in Seq(S) /\ Len(before) = k - 1
        /\ \A j \in 1..(k - 1) : before[j] = s[j]
    OBVIOUS
  <2>6. /\ after \in Seq(S) /\ Len(after) = Len(s) - k
        /\ \A j \in 1..(Len(s) - k) : after[j] = s[j + k]
    OBVIOUS
  <2>7. t = before \o after
    BY <2>4 DEF RemoveAt
  <2> HIDE DEF t, before, after
  <2>8. /\ t \in Seq(S) /\ Len(t) = Len(before) + Len(after)
        /\ \A j \in 1..(Len(before) + Len(after)) :
             t[j] = IF j <= Len(before) THEN before[j] ELSE after[j - Len(before)]
    BY <2>5, <2>6, <2>7, ConcatProperties
  <2>9. ASSUME NEW j \in 1..(Len(s) - 1)
        PROVE  t[j] = IF j < k THEN s[j] ELSE s[j + 1]
    <3>0. Len(before) = k - 1 /\ j \in 1..(Len(before) + Len(after)) /\ k \in Nat
      BY <2>2, <2>5, <2>6
    <3>1. CASE j < k
      <4>1. j <= k - 1 /\ j \in 1..(k - 1)
        BY <3>1, <3>0
      <4>2. t[j] = before[j]
        BY <3>0, <4>1, <2>8
      <4> QED BY <3>1, <4>1, <4>2, <2>5
    <3>2. CASE ~(j < k)
      <4>1. j - (k - 1) \in 1..(Len(s) - k) /\ (j - (k - 1)) + k = j + 1
        BY <3>2, <2>2
      <4>2. t[j] = after[j - (k - 1)]
        BY <3>0, <3>2, <2>8
      <4> QED BY <3>2, <4>1, <4>2, <2>6
    <3> QED BY <3>1, <3>2
  <2>10. Len(t) = Len(s) - 1
    BY <2>2, <2>5, <2>6, <2>8
  <2> QED BY <1>2, <2>2, <2>8, <2>9, <2>10 DEF t
<1> QED BY <1>1, <1>2

\* A set of numbers that goes down to 1 is an interval.
LEMMA DownSet ==
  ASSUME NEW n \in Nat, NEW D \in SUBSET (1..n), \A i \in D : \A j \in 1..i : j \in D
  PROVE  D = 1..Cardinality(D) /\ Cardinality(D) \in 0..n
<1> DEFINE T == {k \in 0..n : k + 1 \notin D}
<1>1. n \in T
  OBVIOUS
<1>2. PICK m \in T : \A k \in T : m <= k
  <2>1. T \subseteq Nat /\ T # {}
    BY <1>1
  <2> HIDE DEF T
  <2> QED BY <2>1, NatMinimum
<1>3. m \in 0..n /\ m + 1 \notin D
  BY <1>2
<1>4. ASSUME NEW i \in D PROVE i \in 1..m
  BY <1>3
<1>5. ASSUME NEW i \in 1..m PROVE i \in D
  <2>1. i - 1 \in 0..n /\ ~(m <= i - 1) /\ (i - 1) + 1 = i
    BY <1>3
  <2> QED BY <1>2, <2>1
<1>6. D = 1..m
  BY <1>4, <1>5
<1>7. Cardinality(D) = m
  <2>1. m \in Int /\ 1 \in Int /\ (IF 1 > m THEN 0 ELSE m - 1 + 1) = m
    BY <1>3
  <2>2. Cardinality(1..m) = IF 1 > m THEN 0 ELSE m - 1 + 1
    BY <2>1, FS_Interval
  <2> QED BY <2>1, <2>2, <1>6
<1> QED BY <1>3, <1>6, <1>7

\* A sequence has no more elements than places.
LEMMA ElementsBound ==
  ASSUME NEW S, NEW s \in Seq(S)
  PROVE  IsFiniteSet(ToSet(s)) /\ Cardinality(ToSet(s)) <= Len(s)
<1>1. IsFiniteSet(1..Len(s)) /\ Cardinality(1..Len(s)) = Len(s)
  <2>1. Len(s) \in Int /\ 1 \in Int /\ (IF 1 > Len(s) THEN 0 ELSE Len(s) - 1 + 1) = Len(s)
    OBVIOUS
  <2>2. /\ IsFiniteSet(1..Len(s))
        /\ Cardinality(1..Len(s)) = IF 1 > Len(s) THEN 0 ELSE Len(s) - 1 + 1
    BY <2>1, FS_Interval
  <2> QED BY <2>1, <2>2
<1>2. s \in Surjection(1..Len(s), ToSet(s))
  BY DEF Surjection, ToSet
<1> QED BY <1>1, <1>2, FS_Surjection DEF ExistsSurjection

\* Membership, spelled out.
LEMMA InSequence ==
  ASSUME NEW S, NEW s \in Seq(S), NEW x
  PROVE  x \in ToSet(s) <=> \E i \in 1..Len(s) : s[i] = x
BY DEF ToSet

-----------------------------------------------------------------------------
(***************************************************************************)
(* What _pump does.                                                        *)
(***************************************************************************)

\* How many of the first i futures of a queue are pending.
Served(queue, ph, i) == Cardinality({j \in 1..i : ph[queue[j]] = "queued"})

LEMMA ServedFacts ==
  ASSUME NEW queue, NEW ph
  PROVE  /\ Served(queue, ph, 0) = 0
         /\ \A i \in Nat : Served(queue, ph, i) \in 0..i
         /\ \A i \in Nat : Served(queue, ph, i + 1) =
              IF ph[queue[i + 1]] = "queued" THEN Served(queue, ph, i) + 1
              ELSE Served(queue, ph, i)
         /\ \A i, k \in Nat : i <= k => Served(queue, ph, i) <= Served(queue, ph, k)
<1> DEFINE Q(i) == {j \in 1..i : ph[queue[j]] = "queued"}
<1>1. ASSUME NEW i \in Nat PROVE IsFiniteSet(Q(i)) /\ Cardinality(Q(i)) \in 0..i
  <2>1. IsFiniteSet(1..i) /\ Cardinality(1..i) = i /\ Q(i) \in SUBSET (1..i)
    BY FS_Interval
  <2>2. IsFiniteSet(Q(i)) /\ Cardinality(Q(i)) <= Cardinality(1..i)
    BY <2>1, FS_Subset
  <2>3. Cardinality(Q(i)) \in Nat
    BY <2>2, FS_CardinalityType
  <2> QED BY <2>1, <2>2, <2>3
<1>2. Q(0) = {} /\ Cardinality(Q(0)) = 0
  BY FS_EmptySet
<1>3. ASSUME NEW i \in Nat
      PROVE  Cardinality(Q(i + 1)) =
               IF ph[queue[i + 1]] = "queued" THEN Cardinality(Q(i)) + 1 ELSE Cardinality(Q(i))
  <2>1. CASE ph[queue[i + 1]] = "queued"
    <3>1. Q(i + 1) = Q(i) \cup {i + 1} /\ i + 1 \notin Q(i)
      BY <2>1
    <3> HIDE DEF Q
    <3> QED BY <2>1, <3>1, <1>1, FS_AddElement
  <2>2. CASE ph[queue[i + 1]] # "queued"
    <3>1. Q(i + 1) = Q(i)
      BY <2>2
    <3> QED BY <2>2, <3>1
  <2> QED BY <2>1, <2>2
<1>4. ASSUME NEW i \in Nat, NEW k \in Nat, i <= k
      PROVE  Cardinality(Q(i)) <= Cardinality(Q(k))
  <2>1. Q(i) \in SUBSET Q(k)
    BY <1>4
  <2> HIDE DEF Q
  <2> QED BY <2>1, <1>1, FS_Subset
<1> QED BY <1>1, <1>2, <1>3, <1>4 DEF Served

\* What is taken off the queue is a prefix; the pending ones in it get the slots
\* that are free, and it stops only at the end of the queue or of the slots.
LEMMA TakenFacts ==
  ASSUME NEW queue \in Seq(Requests), NEW ph, NEW free \in Nat
  PROVE  \E k \in 0..Len(queue) :
           /\ Taken(queue, ph, free) = SubSeq(queue, 1, k)
           /\ Served(queue, ph, k) <= free
           /\ k = Len(queue) \/ Served(queue, ph, k) = free
<1> DEFINE D == {i \in 1..Len(queue) : Served(queue, ph, i - 1) < free}
           k == Cardinality(D)
<1>0. Len(queue) \in Nat /\ \A m \in Nat : Served(queue, ph, m) \in Nat
  <2>1. \A m \in Nat : Served(queue, ph, m) \in 0..m
    BY ServedFacts
  <2> QED BY <2>1
<1>1. D = 1..k /\ k \in 0..Len(queue)
  <2>1. ASSUME NEW i \in D, NEW j \in 1..i PROVE j \in D
    <3>1. i - 1 \in Nat /\ j - 1 \in Nat /\ j - 1 <= i - 1 /\ j \in 1..Len(queue)
      OBVIOUS
    <3>2. Served(queue, ph, j - 1) <= Served(queue, ph, i - 1)
      BY <3>1, ServedFacts
    <3>3. Served(queue, ph, j - 1) \in Nat /\ Served(queue, ph, i - 1) \in Nat
      BY <1>0, <3>1
    <3> QED BY <3>1, <3>2, <3>3
  <2>2. D \in SUBSET (1..Len(queue))
    OBVIOUS
  <2> HIDE DEF D
  <2> QED BY <1>0, <2>1, <2>2, DownSet
<1>2. Taken(queue, ph, free) = SubSeq(queue, 1, k)
  BY DEF Taken, Served
<1> HIDE DEF k
<1>3. Served(queue, ph, k) <= free
  <2>1. CASE k = 0
    BY <2>1, ServedFacts
  <2>2. CASE k # 0
    <3>1. k \in D /\ k - 1 \in Nat /\ (k - 1) + 1 = k
      BY <1>1, <2>2
    <3>2. Served(queue, ph, k - 1) < free
      BY <3>1
    <3>3. Served(queue, ph, k) <= Served(queue, ph, k - 1) + 1 /\ Served(queue, ph, k - 1) \in Nat
      <4>1. PICK i \in Nat : i + 1 = k /\ i = k - 1
        BY <3>1
      <4>2. Served(queue, ph, i + 1) = IF ph[queue[i + 1]] = "queued"
                                       THEN Served(queue, ph, i) + 1 ELSE Served(queue, ph, i)
        BY ServedFacts
      <4>3. Served(queue, ph, i) \in Nat
        BY <1>0
      <4> QED BY <4>1, <4>2, <4>3
    <3>4. Served(queue, ph, k) \in Nat
      BY <1>0, <1>1
    <3> QED BY <3>2, <3>3, <3>4
  <2> QED BY <2>1, <2>2
<1>4. ASSUME k # Len(queue) PROVE Served(queue, ph, k) = free
  <2>1. k + 1 \in 1..Len(queue) /\ (k + 1) - 1 = k /\ k + 1 \notin 1..k
    BY <1>1, <1>4
  <2>2. ~(Served(queue, ph, k) < free)
    BY <1>1, <2>1
  <2>3. Served(queue, ph, k) \in Nat
    BY <1>0, <1>1
  <2> QED BY <1>3, <2>2, <2>3
<1> QED BY <1>1, <1>2, <1>3, <1>4

\* Waiting is the last value of a function that is defined by recursion.
Upto(queue, ph) == CHOOSE g : g = [i \in 0..Len(queue) |-> IF i = 0 THEN <<>>
  ELSE IF ph[queue[i]] = "queued" THEN Append(g[i - 1], queue[i]) ELSE g[i - 1]]

LEMMA WaitingUpto ==
  ASSUME NEW queue, NEW ph PROVE Waiting(queue, ph) = Upto(queue, ph)[Len(queue)]
BY DEF Waiting, Upto

\* There is one, for every queue.
LEMMA UptoExists ==
  ASSUME NEW queue \in Seq(Requests), NEW ph
  PROVE  Upto(queue, ph) = [i \in 0..Len(queue) |-> IF i = 0 THEN <<>>
           ELSE IF ph[queue[i]] = "queued" THEN Append(Upto(queue, ph)[i - 1], queue[i])
           ELSE Upto(queue, ph)[i - 1]]
<1> DEFINE Step(g, i) == IF i = 0 THEN <<>>
             ELSE IF ph[queue[i]] = "queued" THEN Append(g[i - 1], queue[i]) ELSE g[i - 1]
           Is(g, n) == g = [i \in 0..n |-> Step(g, i)]
           T == {n \in Nat : \E g : Is(g, n)}
<1>1. 0 \in T
  <2> DEFINE g == [i \in 0..0 |-> <<>>]
  <2>1. Is(g, 0)
    OBVIOUS
  <2> HIDE DEF g, Is
  <2> QED BY <2>1
<1>2. ASSUME NEW n \in Nat, n \in T PROVE n + 1 \in T
  <2>1. PICK g : Is(g, n)
    BY <1>2
  <2> DEFINE h == [i \in 0..(n + 1) |-> IF i = n + 1 THEN Step(g, n + 1) ELSE g[i]]
  <2>2. ASSUME NEW i \in 0..(n + 1) PROVE h[i] = Step(h, i)
    <3>1. CASE i = 0
      BY <2>1, <3>1
    <3>2. CASE i # 0
      <4>1. i - 1 \in 0..n /\ i - 1 # n + 1 /\ i - 1 \in 0..(n + 1)
        BY <3>2
      <4>2. h[i - 1] = g[i - 1]
        BY <4>1
      <4>3. h[i] = Step(g, i)
        <5>1. CASE i = n + 1
          BY <5>1
        <5>2. CASE i # n + 1
          <6>1. i \in 0..n /\ h[i] = g[i]
            BY <5>2
          <6>2. \A j \in 0..n : g[j] = Step(g, j)
            BY <2>1
          <6> QED BY <6>1, <6>2
        <5> QED BY <5>1, <5>2
      <4> QED BY <3>2, <4>2, <4>3
    <3> QED BY <3>1, <3>2
  <2>3. Is(h, n + 1)
    BY <2>2
  <2> HIDE DEF h, Is
  <2> QED BY <2>3
<1> HIDE DEF T
<1>3. Len(queue) \in T
  BY <1>1, <1>2, NatByInduction
<1>4. \E g : Is(g, Len(queue))
  BY <1>3 DEF T
<1> QED BY <1>4 DEF Upto

\* The pending requests of a queue, in the order of the queue: all of them, and
\* as many as there are pending futures.
LEMMA WaitingFacts ==
  ASSUME NEW queue \in Seq(Requests), NEW ph
  PROVE  /\ Waiting(queue, ph) \in Seq(Requests)
         /\ Len(Waiting(queue, ph)) = Served(queue, ph, Len(queue))
         /\ \A r : (\E j \in 1..Len(Waiting(queue, ph)) : Waiting(queue, ph)[j] = r)
                     <=> ph[r] = "queued" /\ \E j \in 1..Len(queue) : queue[j] = r
         /\ Distinct(queue) => Distinct(Waiting(queue, ph))
<1> DEFINE g == Upto(queue, ph)
           In(s, r) == \E j \in 1..Len(s) : s[j] = r
           First(i, r) == ph[r] = "queued" /\ \E j \in 1..i : queue[j] = r
           Good(i) == /\ g[i] \in Seq(Requests)
                      /\ Len(g[i]) = Served(queue, ph, i)
                      /\ \A r : In(g[i], r) <=> First(i, r)
                      /\ Distinct(queue) => Distinct(g[i])
           T == {i \in Nat : i <= Len(queue) => Good(i)}
<1>1. 0 \in T
  <2>1. g[0] = <<>>
    BY UptoExists
  <2> HIDE DEF g
  <2>2. Good(0)
    BY <2>1, ServedFacts DEF Distinct
  <2> HIDE DEF Good
  <2> QED BY <2>2
<1>2. ASSUME NEW n \in Nat, n \in T PROVE n + 1 \in T
  <2> SUFFICES ASSUME n + 1 <= Len(queue) PROVE Good(n + 1)
    <3> HIDE DEF Good
    <3> QED OBVIOUS
  <2>1. n + 1 \in 1..Len(queue) /\ n + 1 \in 0..Len(queue) /\ (n + 1) - 1 = n /\ n + 1 # 0
    OBVIOUS
  <2>2. Good(n)
    BY <1>2
  <2>3. g[n + 1] = IF ph[queue[n + 1]] = "queued" THEN Append(g[n], queue[n + 1]) ELSE g[n]
    <3>1. g = [i \in 0..Len(queue) |-> IF i = 0 THEN <<>>
                ELSE IF ph[queue[i]] = "queued" THEN Append(g[i - 1], queue[i]) ELSE g[i - 1]]
      BY UptoExists
    <3> HIDE DEF g
    <3> QED BY <2>1, <3>1
  <2> HIDE DEF g
  <2>4. CASE ph[queue[n + 1]] = "queued"
    <3> DEFINE s == g[n]
               x == queue[n + 1]
               t == Append(s, x)
    <3>1. g[n + 1] = t /\ s \in Seq(Requests) /\ x \in Requests
      BY <2>1, <2>2, <2>3, <2>4
    <3>2. /\ t \in Seq(Requests) /\ Len(t) = Len(s) + 1 /\ t[Len(s) + 1] = x
          /\ \A j \in 1..Len(s) : t[j] = s[j]
      BY <3>1
    <3>3. Len(s) = Served(queue, ph, n) /\ \A r : In(s, r) <=> First(n, r)
      BY <2>2
    <3> HIDE DEF s, t
    <3>4. Len(t) = Served(queue, ph, n + 1)
      <4>1. Served(queue, ph, n + 1) = Served(queue, ph, n) + 1
        BY <2>4, ServedFacts
      <4> QED BY <3>2, <3>3, <4>1
    <3>5. ASSUME NEW r PROVE In(t, r) <=> First(n + 1, r)
      <4>1. In(t, r) <=> In(s, r) \/ x = r
        <5>1. Len(s) \in Nat
          BY <3>1
        <5> QED BY <3>2, <5>1
      <4>2. First(n + 1, r) <=> First(n, r) \/ x = r
        BY <2>4 DEF x
      <4> QED BY <3>3, <4>1, <4>2
    <3>6. ASSUME Distinct(queue) PROVE Distinct(t)
      <4>1. Distinct(s)
        BY <2>2, <3>6 DEF s
      <4>2. ASSUME NEW j \in 1..Len(s) PROVE s[j] # x
        <5>1. First(n, s[j])
          BY <3>3
        <5>2. PICK m \in 1..n : queue[m] = s[j]
          BY <5>1
        <5>3. m # n + 1 /\ m \in 1..Len(queue)
          BY <2>1
        <5> QED BY <2>1, <5>2, <5>3, <3>6 DEF Distinct, x
      <4>3. Len(s) \in Nat
        BY <3>1
      <4>4. ASSUME NEW i \in 1..Len(t), NEW j \in 1..Len(t), t[i] = t[j] PROVE i = j
        BY <3>2, <4>1, <4>2, <4>3, <4>4 DEF Distinct
      <4> QED BY <4>4 DEF Distinct
    <3> QED BY <3>1, <3>2, <3>4, <3>5, <3>6
  <2>5. CASE ph[queue[n + 1]] # "queued"
    <3>1. g[n + 1] = g[n]
      BY <2>3, <2>5
    <3>2. Served(queue, ph, n + 1) = Served(queue, ph, n)
      BY <2>5, ServedFacts
    <3>3. \A r : First(n + 1, r) <=> First(n, r)
      BY <2>5
    <3> HIDE DEF In, First
    <3> QED BY <2>2, <3>1, <3>2, <3>3
  <2> QED BY <2>4, <2>5
<1>3. Len(queue) \in T
  <2> HIDE DEF T
  <2> QED BY <1>1, <1>2, NatByInduction
<1>4. Good(Len(queue))
  BY <1>3
<1>5. Waiting(queue, ph) = g[Len(queue)]
  BY WaitingUpto
<1> HIDE DEF g
<1> QED BY <1>4, <1>5

LEMMA WaitingMembers ==
  ASSUME NEW queue \in Seq(Requests), NEW ph, NEW r
  PROVE  (\E j \in 1..Len(Waiting(queue, ph)) : Waiting(queue, ph)[j] = r)
           <=> ph[r] = "queued" /\ \E j \in 1..Len(queue) : queue[j] = r
BY WaitingFacts

\* The stamps that _prune keeps are the last ones, and every young one is among them.
LEMMA PrunedFacts ==
  ASSUME TypeOK, NEW stamps \in Seq(Attempts)
  PROVE  \E k \in 0..Len(stamps) :
           /\ Pruned(stamps) \in Seq(Attempts)
           /\ Len(Pruned(stamps)) = Len(stamps) - k
           /\ \A i \in 1..(Len(stamps) - k) : Pruned(stamps)[i] = stamps[i + k]
           /\ \A i \in 1..Len(stamps) : age[stamps[i]] < Window => k < i
<1> DEFINE D == {i \in 1..Len(stamps) : \A j \in 1..i : age[stamps[j]] = Window}
           k == Cardinality(D)
<1>1. (\A i : i \in D <=> i \in 1..k) /\ k \in 0..Len(stamps)
  <2>1. D \in SUBSET (1..Len(stamps)) /\ Len(stamps) \in Nat
    OBVIOUS
  <2>2. ASSUME NEW i \in D, NEW j \in 1..i PROVE j \in D
    OBVIOUS
  <2> HIDE DEF D
  <2>3. D = 1..k /\ k \in 0..Len(stamps)
    BY <2>1, <2>2, DownSet
  <2> QED BY <2>3
<1>2. Pruned(stamps) = SubSeq(stamps, k + 1, Len(stamps))
  BY DEF Pruned
<1>3. ASSUME NEW i \in 1..Len(stamps), age[stamps[i]] < Window PROVE k < i
  <2>1. i \notin D
    BY <1>3, PacingAssumption
  <2> HIDE DEF D, k
  <2>2. i \notin 1..k /\ k \in Nat
    BY <1>1, <2>1
  <2> QED BY <2>2
<1> HIDE DEF k
<1>4. /\ SubSeq(stamps, k + 1, Len(stamps)) \in Seq(Attempts)
      /\ Len(SubSeq(stamps, k + 1, Len(stamps))) = Len(stamps) - k
      /\ \A i \in 1..(Len(stamps) - k) : SubSeq(stamps, k + 1, Len(stamps))[i] = stamps[i + k]
  BY <1>1
<1> QED BY <1>1, <1>2, <1>3, <1>4

\* The requests that a _pump which takes k futures off this queue admits.
Admits(queue, ph, k) == {r \in Requests : ph[r] = "queued" /\ \E i \in 1..k : queue[i] = r}

\* What one _pump does when it takes k futures off the queue: the pending ones of
\* them get a slot that counts from now, every young stamp stays, there are never
\* more stamps than slots, and what is left of the queue has a timer.
Pumped(stamps, queue, ph, k) ==
  /\ waiters' = SubSeq(queue, k + 1, Len(queue))
  /\ phase' = [r \in Requests |-> IF r \in Admits(queue, ph, k) THEN "granted" ELSE ph[r]]
  /\ times' \in Seq(Attempts) /\ Distinct(times') /\ Len(times') <= Limit
  /\ \A a \in ToSet(times') :
       a \in ToSet(stamps) \/ \E r \in Admits(queue, ph, k) : a = Upcoming(r)
  /\ \A r \in Admits(queue, ph, k) : Upcoming(r) \in ToSet(times')
  /\ \A a \in ToSet(stamps) : age[a] < Window => a \in ToSet(times')
  /\ age' = [a \in Attempts |-> IF \E r \in Admits(queue, ph, k) : a = Upcoming(r)
                                THEN 0 ELSE age[a]]
  /\ timer' \in Ages \cup {None}
  /\ waiters' # <<>> => timer' # None

LEMMA PumpFacts ==
  ASSUME TypeOK, NEW stamps \in Seq(Attempts), NEW queue \in Seq(Requests), NEW ph,
         Pump(stamps, queue, ph),
         Distinct(stamps), Distinct(queue), Len(stamps) <= Limit,
         \A r \in Requests : ph[r] = "queued" =>
           Upcoming(r) \in Attempts /\ Upcoming(r) \notin ToSet(stamps)
  PROVE  \E k \in 0..Len(queue) : Pumped(stamps, queue, ph, k)
<1> DEFINE kept == Pruned(stamps)
           free == Limit - Len(kept)
           taken == Taken(queue, ph, free)
           granted == Waiting(taken, ph)
           reserved == [i \in 1..Len(granted) |-> Upcoming(granted[i])]
<1>0. Limit \in Nat \ {0} /\ Window \in Nat \ {0} /\ None \notin Nat
  BY PacingAssumption
<1>1. PICK c \in 0..Len(stamps) :
        /\ kept \in Seq(Attempts) /\ Len(kept) = Len(stamps) - c
        /\ \A i \in 1..(Len(stamps) - c) : kept[i] = stamps[i + c]
        /\ \A i \in 1..Len(stamps) : age[stamps[i]] < Window => c < i
  BY PrunedFacts
<1>2. /\ times' = kept \o reserved
      /\ waiters' = SubSeq(queue, Len(taken) + 1, Len(queue))
      /\ age' = [a \in Attempts |-> IF a \in ToSet(reserved) THEN 0 ELSE age[a]]
      /\ phase' = [r \in Requests |-> IF r \in ToSet(granted) THEN "granted" ELSE ph[r]]
      /\ timer' = IF waiters' = <<>> \/ times' = <<>> THEN None
                  ELSE Window - age'[Head(times')]
  BY DEF Pump
<1>3. free \in Nat
  BY <1>0, <1>1
<1> HIDE DEF kept, free
<1>4. PICK k \in 0..Len(queue) :
        /\ taken = SubSeq(queue, 1, k)
        /\ Served(queue, ph, k) <= free
        /\ k = Len(queue) \/ Served(queue, ph, k) = free
  BY <1>3, TakenFacts
<1>5. /\ taken \in Seq(Requests) /\ Len(taken) = k
      /\ \A i \in 1..k : taken[i] = queue[i]
  BY <1>4
<1>6. Served(taken, ph, k) = Served(queue, ph, k)
  <2>1. {j \in 1..k : ph[taken[j]] = "queued"} = {j \in 1..k : ph[queue[j]] = "queued"}
    BY <1>5
  <2> QED BY <2>1 DEF Served
<1> HIDE DEF taken
<1>7. /\ granted \in Seq(Requests) /\ Len(granted) = Served(queue, ph, k)
      /\ \A r : (\E j \in 1..Len(granted) : granted[j] = r)
                  <=> ph[r] = "queued" /\ \E j \in 1..k : queue[j] = r
      /\ Distinct(granted)
  <2>1. Distinct(taken)
    BY <1>5 DEF Distinct
  <2>2. \A r : (\E j \in 1..k : taken[j] = r) <=> \E j \in 1..k : queue[j] = r
    BY <1>5
  <2>3. /\ granted \in Seq(Requests) /\ Len(granted) = Served(taken, ph, Len(taken))
        /\ \A r : (\E j \in 1..Len(granted) : granted[j] = r)
                    <=> ph[r] = "queued" /\ \E j \in 1..Len(taken) : taken[j] = r
        /\ Distinct(granted)
    <3> HIDE DEF taken
    <3>0. taken \in Seq(Requests)
      BY <1>5
    <3>1. /\ Waiting(taken, ph) \in Seq(Requests)
          /\ Len(Waiting(taken, ph)) = Served(taken, ph, Len(taken))
          /\ Distinct(taken) => Distinct(Waiting(taken, ph))
      BY <3>0, WaitingFacts
    <3>2. \A r : (\E j \in 1..Len(Waiting(taken, ph)) : Waiting(taken, ph)[j] = r)
                    <=> ph[r] = "queued" /\ \E j \in 1..Len(taken) : taken[j] = r
      BY <3>0, WaitingMembers
    <3> QED BY <2>1, <3>1, <3>2
  <2> HIDE DEF granted, taken
  <2> QED BY <1>5, <1>6, <2>2, <2>3
<1> HIDE DEF granted
<1>8. \A r : r \in ToSet(granted) <=> r \in Admits(queue, ph, k)
  <2>1. \A r : r \in ToSet(granted) <=> \E j \in 1..Len(granted) : granted[j] = r
    BY <1>7, InSequence
  <2>2. \A r : (\E j \in 1..k : queue[j] = r) => r \in Requests
    OBVIOUS
  <2> QED BY <1>7, <2>1, <2>2 DEF Admits
<1>9. \A j \in 1..Len(granted) : granted[j] \in Admits(queue, ph, k)
  BY <1>7, <1>8, InSequence
<1>10. \A r \in Admits(queue, ph, k) :
         /\ Upcoming(r) \in Attempts /\ Upcoming(r) \notin ToSet(stamps)
         /\ \E j \in 1..Len(granted) : granted[j] = r
  BY <1>7 DEF Admits
<1>11. /\ reserved \in Seq(Attempts) /\ Len(reserved) = Len(granted)
       /\ \A j \in 1..Len(granted) : reserved[j] = Upcoming(granted[j])
  <2>1. \A j \in 1..Len(granted) : Upcoming(granted[j]) \in Attempts
    BY <1>9, <1>10
  <2>2. Len(granted) \in Nat
    BY <1>7
  <2> QED BY <2>1, <2>2
<1> HIDE DEF reserved
<1>12. \A a : a \in ToSet(reserved) <=> \E r \in Admits(queue, ph, k) : a = Upcoming(r)
  <2>1. \A a : a \in ToSet(reserved) <=> \E j \in 1..Len(reserved) : reserved[j] = a
    BY <1>11, InSequence
  <2>2. ASSUME NEW j \in 1..Len(granted)
        PROVE  \E r \in Admits(queue, ph, k) : reserved[j] = Upcoming(r)
    BY <1>9, <1>11
  <2>3. ASSUME NEW r \in Admits(queue, ph, k)
        PROVE  \E j \in 1..Len(granted) : reserved[j] = Upcoming(r)
    <3>1. PICK j \in 1..Len(granted) : granted[j] = r
      BY <1>10
    <3>2. reserved[j] = Upcoming(r)
      BY <1>11, <3>1
    <3> QED BY <3>2
  <2> QED BY <2>1, <2>2, <2>3, <1>11
<1>13. \A a : a \in ToSet(kept) => a \in ToSet(stamps)
  <2> SUFFICES ASSUME NEW a \in ToSet(kept) PROVE a \in ToSet(stamps)
    OBVIOUS
  <2>1. PICK i \in 1..Len(kept) : kept[i] = a
    BY <1>1, InSequence
  <2>2. i + c \in 1..Len(stamps) /\ stamps[i + c] = a
    BY <1>1, <2>1
  <2> QED BY <2>2, InSequence
<1>14. \A a \in ToSet(stamps) : age[a] < Window => a \in ToSet(kept)
  <2> SUFFICES ASSUME NEW a \in ToSet(stamps), age[a] < Window PROVE a \in ToSet(kept)
    OBVIOUS
  <2>1. PICK i \in 1..Len(stamps) : stamps[i] = a
    BY InSequence
  <2>2. i - c \in 1..Len(kept) /\ i - c \in 1..(Len(stamps) - c) /\ (i - c) + c = i
    BY <1>1, <2>1
  <2>3. kept[i - c] = a
    BY <1>1, <2>1, <2>2
  <2> QED BY <1>1, <2>2, <2>3, InSequence
<1>15. /\ times' \in Seq(Attempts) /\ Len(times') = Len(kept) + Len(reserved)
       /\ \A i \in 1..(Len(kept) + Len(reserved)) :
            times'[i] = IF i <= Len(kept) THEN kept[i] ELSE reserved[i - Len(kept)]
  <2>1. kept \in Seq(Attempts) /\ reserved \in Seq(Attempts) /\ times' = kept \o reserved
    BY <1>1, <1>2, <1>11
  <2> QED BY <2>1, ConcatProperties
<1>16. \A a : a \in ToSet(times') <=> a \in ToSet(kept) \/ a \in ToSet(reserved)
  <2>0. Len(kept) \in Nat /\ Len(reserved) \in Nat
    BY <1>1, <1>11
  <2> SUFFICES ASSUME NEW a
               PROVE  a \in ToSet(times') <=> a \in ToSet(kept) \/ a \in ToSet(reserved)
    OBVIOUS
  <2>1. /\ a \in ToSet(times') <=> \E i \in 1..Len(times') : times'[i] = a
        /\ a \in ToSet(kept) <=> \E i \in 1..Len(kept) : kept[i] = a
        /\ a \in ToSet(reserved) <=> \E i \in 1..Len(reserved) : reserved[i] = a
    <3>1. a \in ToSet(times') <=> \E i \in 1..Len(times') : times'[i] = a
      BY <1>15, InSequence
    <3>2. a \in ToSet(kept) <=> \E i \in 1..Len(kept) : kept[i] = a
      BY <1>1, InSequence
    <3>3. a \in ToSet(reserved) <=> \E i \in 1..Len(reserved) : reserved[i] = a
      BY <1>11, InSequence
    <3> QED BY <3>1, <3>2, <3>3
  <2>2. ASSUME NEW i \in 1..Len(times'), times'[i] = a
        PROVE  \/ \E j \in 1..Len(kept) : kept[j] = a
               \/ \E j \in 1..Len(reserved) : reserved[j] = a
    <3>1. CASE i <= Len(kept)
      <4>1. i \in 1..Len(kept) /\ i \in 1..(Len(kept) + Len(reserved))
        BY <2>0, <1>15, <3>1
      <4>2. kept[i] = a
        BY <2>2, <1>15, <3>1, <4>1
      <4> QED BY <4>1, <4>2
    <3>2. CASE ~(i <= Len(kept))
      <4>1. i - Len(kept) \in 1..Len(reserved)
        BY <2>0, <1>15, <3>2
      <4> QED BY <2>2, <1>15, <3>2, <4>1
    <3> QED BY <3>1, <3>2
  <2>3. ASSUME NEW j \in 1..Len(kept), kept[j] = a PROVE \E i \in 1..Len(times') : times'[i] = a
    <3>1. j \in 1..Len(times') /\ times'[j] = a
      BY <2>0, <2>3, <1>15
    <3> QED BY <3>1
  <2>4. ASSUME NEW j \in 1..Len(reserved), reserved[j] = a
        PROVE  \E i \in 1..Len(times') : times'[i] = a
    <3>1. j + Len(kept) \in 1..Len(times') /\ ~(j + Len(kept) <= Len(kept))
          /\ (j + Len(kept)) - Len(kept) = j
      BY <2>0, <1>15
    <3>2. times'[j + Len(kept)] = a
      BY <2>4, <1>15, <3>1
    <3> QED BY <3>1, <3>2
  <2> QED BY <2>1, <2>2, <2>3, <2>4
<1>17. Distinct(times')
  <2>0. Len(kept) \in Nat /\ Len(reserved) \in Nat
    BY <1>1, <1>11
  <2>1. Distinct(kept)
    <3>1. ASSUME NEW i \in 1..Len(kept), NEW j \in 1..Len(kept), kept[i] = kept[j] PROVE i = j
      <4>1. /\ i + c \in 1..Len(stamps) /\ j + c \in 1..Len(stamps)
            /\ stamps[i + c] = stamps[j + c]
        BY <1>1, <3>1
      <4>2. i + c = j + c
        BY <4>1 DEF Distinct
      <4> QED BY <4>2
    <3> QED BY <3>1 DEF Distinct
  <2>2. Distinct(reserved)
    <3>1. ASSUME NEW i \in 1..Len(granted), NEW j \in 1..Len(granted), reserved[i] = reserved[j]
          PROVE  i = j
      <4>1. granted[i] = granted[j]
        BY <1>11, <3>1 DEF Upcoming
      <4> QED BY <1>7, <4>1 DEF Distinct
    <3> QED BY <1>11, <3>1 DEF Distinct
  <2>3. ASSUME NEW i \in 1..Len(kept), NEW j \in 1..Len(reserved) PROVE kept[i] # reserved[j]
    <3>1. kept[i] \in ToSet(stamps)
      BY <1>1, <1>13, InSequence
    <3>2. reserved[j] \notin ToSet(stamps)
      BY <1>9, <1>10, <1>11
    <3> QED BY <3>1, <3>2
  <2>4. ASSUME NEW i \in 1..Len(times'), NEW j \in 1..Len(times'), times'[i] = times'[j]
        PROVE  i = j
    <3>1. CASE i <= Len(kept) /\ j <= Len(kept)
      <4>1. /\ i \in 1..Len(kept) /\ j \in 1..Len(kept)
            /\ times'[i] = kept[i] /\ times'[j] = kept[j]
        <5>1. /\ i \in 1..(Len(kept) + Len(reserved)) /\ j \in 1..(Len(kept) + Len(reserved))
          BY <1>15
        <5>2. times'[i] = kept[i] /\ times'[j] = kept[j]
          BY <1>15, <3>1, <5>1
        <5>3. i \in 1..Len(kept) /\ j \in 1..Len(kept)
          BY <2>0, <3>1, <5>1
        <5> QED BY <5>2, <5>3
      <4> QED BY <2>1, <2>4, <4>1 DEF Distinct
    <3>2. CASE i <= Len(kept) /\ ~(j <= Len(kept))
      <4>1. /\ i \in 1..Len(kept) /\ j - Len(kept) \in 1..Len(reserved)
            /\ times'[i] = kept[i] /\ times'[j] = reserved[j - Len(kept)]
        <5>1. /\ i \in 1..(Len(kept) + Len(reserved)) /\ j \in 1..(Len(kept) + Len(reserved))
          BY <1>15
        <5>2. times'[i] = kept[i] /\ times'[j] = reserved[j - Len(kept)]
          BY <1>15, <3>2, <5>1
        <5>3. i \in 1..Len(kept) /\ j - Len(kept) \in 1..Len(reserved)
          BY <2>0, <3>2, <5>1
        <5> QED BY <5>2, <5>3
      <4> QED BY <2>3, <2>4, <4>1
    <3>3. CASE ~(i <= Len(kept)) /\ j <= Len(kept)
      <4>1. /\ j \in 1..Len(kept) /\ i - Len(kept) \in 1..Len(reserved)
            /\ times'[j] = kept[j] /\ times'[i] = reserved[i - Len(kept)]
        <5>1. /\ i \in 1..(Len(kept) + Len(reserved)) /\ j \in 1..(Len(kept) + Len(reserved))
          BY <1>15
        <5>2. times'[j] = kept[j] /\ times'[i] = reserved[i - Len(kept)]
          BY <1>15, <3>3, <5>1
        <5>3. j \in 1..Len(kept) /\ i - Len(kept) \in 1..Len(reserved)
          BY <2>0, <3>3, <5>1
        <5> QED BY <5>2, <5>3
      <4> QED BY <2>3, <2>4, <4>1
    <3>4. CASE ~(i <= Len(kept)) /\ ~(j <= Len(kept))
      <4>1. i - Len(kept) \in 1..Len(reserved) /\ j - Len(kept) \in 1..Len(reserved)
        BY <2>0, <3>4, <1>15
      <4>2. reserved[i - Len(kept)] = reserved[j - Len(kept)]
        BY <2>4, <3>4, <1>15
      <4>3. i - Len(kept) = j - Len(kept)
        BY <2>2, <4>1, <4>2 DEF Distinct
      <4> QED BY <2>0, <4>3
    <3> QED BY <3>1, <3>2, <3>3, <3>4
  <2> QED BY <2>4 DEF Distinct
<1>18. Len(times') <= Limit
  BY <1>0, <1>1, <1>4, <1>7, <1>11, <1>15 DEF free
<1>19. age' = [a \in Attempts |-> IF \E r \in Admits(queue, ph, k) : a = Upcoming(r)
                                  THEN 0 ELSE age[a]]
  BY <1>2, <1>12
<1>20. waiters' # <<>> => times' # <<>>
  <2> SUFFICES ASSUME waiters' # <<>>, times' = <<>> PROVE FALSE
    OBVIOUS
  <2>1. Len(kept) = 0 /\ Len(reserved) = 0
    BY <1>1, <1>11, <1>15
  <2>2. Served(queue, ph, k) = 0 /\ free # 0
    BY <1>0, <1>7, <1>11, <2>1 DEF free
  <2>3. k = Len(queue)
    BY <1>4, <2>2
  <2>4. waiters' = SubSeq(queue, Len(queue) + 1, Len(queue))
    BY <1>2, <1>5, <2>3
  <2> QED BY <2>4
<1>21. timer' \in Ages \cup {None} /\ (waiters' # <<>> => timer' # None)
  <2>1. CASE waiters' = <<>> \/ times' = <<>>
    BY <1>2, <1>20, <2>1
  <2>2. CASE ~(waiters' = <<>> \/ times' = <<>>)
    <3>1. Head(times') \in Attempts
      BY <1>15, <2>2
    <3>2. age' \in [Attempts -> Ages]
      BY <1>0, <1>19 DEF TypeOK, Ages
    <3>3. age'[Head(times')] \in Ages
      BY <3>1, <3>2
    <3>4. timer' = Window - age'[Head(times')]
      BY <1>2, <2>2
    <3>5. timer' \in Ages
      BY <1>0, <3>3, <3>4 DEF Ages
    <3> QED BY <1>0, <3>5 DEF Ages
  <2> QED BY <2>1, <2>2
<1>22. waiters' = SubSeq(queue, k + 1, Len(queue))
  BY <1>2, <1>5
<1>23. phase' = [r \in Requests |-> IF r \in Admits(queue, ph, k) THEN "granted" ELSE ph[r]]
  BY <1>2, <1>8
<1>24. \A a \in ToSet(times') :
         a \in ToSet(stamps) \/ \E r \in Admits(queue, ph, k) : a = Upcoming(r)
  BY <1>12, <1>13, <1>16
<1>25. \A r \in Admits(queue, ph, k) : Upcoming(r) \in ToSet(times')
  BY <1>12, <1>16
<1>26. \A a \in ToSet(stamps) : age[a] < Window => a \in ToSet(times')
  BY <1>14, <1>16
<1> QED BY <1>15, <1>17, <1>18, <1>19, <1>21, <1>22, <1>23, <1>24, <1>25, <1>26
       DEF Pumped

-----------------------------------------------------------------------------
(***************************************************************************)
(* Every step keeps the invariant.                                         *)
(***************************************************************************)

\* The bounds, and what they say of an upcoming attempt.
LEMMA Bounds ==
  /\ Limit \in Nat \ {0} /\ Window \in Nat \ {0} /\ MaxTries \in Nat \ {0} /\ Delay \in Nat
  /\ None \notin Nat /\ 0 \in Ages /\ Window \in Ages /\ Ages \subseteq Nat
BY PacingAssumption DEF Ages

LEMMA UpcomingFacts ==
  ASSUME TypeOK, Counted, NEW r \in Requests
  PROVE  /\ tries[r] \in Nat
         /\ tries[r] < MaxTries => Upcoming(r) \in Attempts
         /\ Upcoming(r) \notin started
         /\ \A q \in Requests : Upcoming(q) = Upcoming(r) => q = r
<1>1. tries[r] \in Nat /\ MaxTries \in Nat
  BY Bounds DEF TypeOK
<1>2. ASSUME tries[r] < MaxTries PROVE Upcoming(r) \in Attempts
  BY <1>1, <1>2 DEF Attempts, Upcoming
<1>3. ASSUME Upcoming(r) \in started PROVE FALSE
  <2>1. Upcoming(r)[2] <= tries[Upcoming(r)[1]]
    BY <1>3 DEF Counted
  <2> QED BY <1>1, <2>1 DEF Upcoming
<1>4. \A q \in Requests : Upcoming(q) = Upcoming(r) => q = r
  BY DEF Upcoming
<1> QED BY <1>1, <1>2, <1>3, <1>4

\* A _pump over a window and a queue that are in order.
LEMMA PumpKeeps ==
  ASSUME Inductive, UNCHANGED <<tries, sleep, blocked, ghostVars>>,
         NEW stamps \in Seq(Attempts), NEW queue \in Seq(Requests),
         NEW ph \in [Requests -> Phases], Pump(stamps, queue, ph),
         \A r \in Requests : ph[r] \notin {"sent", "stream", "over"} => tries[r] < MaxTries,
         Distinct(stamps), Len(stamps) <= Limit,
         \A r \in Requests : ph[r] = "granted" =>
           phase[r] = "granted" /\ Upcoming(r) \in ToSet(stamps),
         \A a \in ToSet(stamps) :
           a \in started \/ \E r \in Requests : ph[r] = "granted" /\ a = Upcoming(r),
         \A a \in started : since[a] < Window => a \in ToSet(stamps),
         Distinct(queue),
         \A i \in 1..Len(queue) : ph[queue[i]] \in {"queued", "over"},
         \A r \in Requests : ph[r] = "queued" => r \in ToSet(queue)
  PROVE  Inductive'
<1>0. /\ TypeOK /\ Counted /\ Slots /\ Stamped /\ Limit \in Nat /\ Window \in Nat \ {0}
      /\ None \notin Nat
  BY Bounds DEF Inductive
<1>1. /\ tries' = tries /\ sleep' = sleep /\ blocked' = blocked /\ started' = started
      /\ since' = since /\ \A r : Upcoming(r)' = Upcoming(r)
  BY DEF ghostVars, Upcoming
<1>2. ASSUME NEW r \in Requests, ph[r] = "queued"
      PROVE  Upcoming(r) \in Attempts /\ Upcoming(r) \notin ToSet(stamps)
  <2>1. Upcoming(r) \in Attempts
    BY <1>0, <1>2, UpcomingFacts
  <2>2. ASSUME NEW q \in Requests, ph[q] = "granted" PROVE Upcoming(r) # Upcoming(q)
    BY <1>0, <1>2, <2>2, UpcomingFacts
  <2>3. Upcoming(r) \notin started
    BY <1>0, UpcomingFacts
  <2> QED BY <2>1, <2>2, <2>3
<1>3. PICK k \in 0..Len(queue) : Pumped(stamps, queue, ph, k)
  BY <1>0, <1>2, PumpFacts
<1> USE <1>3 DEF Pumped
<1>4. /\ waiters' \in Seq(Requests) /\ Len(waiters') = Len(queue) - k
      /\ \A i \in 1..(Len(queue) - k) : waiters'[i] = queue[i + k]
  BY <1>3
<1>5. \A r \in Admits(queue, ph, k) :
        /\ r \in Requests /\ ph[r] = "queued"
        /\ \E i \in 1..k : queue[i] = r
  BY DEF Admits
<1>6. TypeOK'
  <2>1. phase' \in [Requests -> Phases]
    BY <1>3 DEF Phases, Holding
  <2>2. age' \in [Attempts -> Ages]
    BY <1>0, <1>3, Bounds DEF TypeOK
  <2> QED BY <1>0, <1>1, <1>3, <1>4, <2>1, <2>2 DEF TypeOK
<1>7. TriesLeft'
  BY <1>1, <1>3, <1>5 DEF TriesLeft
<1>8. Counted'
  BY <1>0, <1>1 DEF Counted
<1>9. QueueExact'
  <2>1. Distinct(waiters')
    <3>1. ASSUME NEW i \in 1..Len(waiters'), NEW j \in 1..Len(waiters'), waiters'[i] = waiters'[j]
          PROVE  i = j
      <4>0. Len(queue) \in Nat /\ k \in Nat /\ i \in Nat /\ j \in Nat
        BY <1>4
      <4>1. i + k \in 1..Len(queue) /\ j + k \in 1..Len(queue)
        BY <4>0, <1>4
      <4>2. queue[i + k] = queue[j + k]
        BY <1>4, <3>1
      <4>3. i + k = j + k
        BY <4>1, <4>2 DEF Distinct
      <4> QED BY <4>0, <4>3
    <3> QED BY <3>1 DEF Distinct
  <2>2. ASSUME NEW i \in 1..Len(waiters') PROVE phase'[waiters'[i]] \in {"queued", "over"}
    <3>1. i + k \in 1..Len(queue) /\ waiters'[i] = queue[i + k] /\ waiters'[i] \in Requests
      BY <1>4
    <3>2. waiters'[i] \notin Admits(queue, ph, k)
      <4> SUFFICES ASSUME waiters'[i] \in Admits(queue, ph, k) PROVE FALSE
        OBVIOUS
      <4>1. PICK j \in 1..k : queue[j] = queue[i + k]
        BY <1>5, <3>1
      <4>2. j \in 1..Len(queue) /\ j # i + k
        BY <3>1
      <4> QED BY <3>1, <4>1, <4>2 DEF Distinct
    <3>3. phase'[waiters'[i]] = ph[queue[i + k]]
      BY <1>3, <3>1, <3>2
    <3> QED BY <3>1, <3>3
  <2>3. ASSUME NEW r \in Requests, phase'[r] = "queued" PROVE r \in ToSet(waiters')
    <3>1. ph[r] = "queued" /\ r \notin Admits(queue, ph, k)
      BY <1>3, <2>3
    <3>2. PICK j \in 1..Len(queue) : queue[j] = r
      BY <3>1, InSequence
    <3>3. j \notin 1..k
      BY <3>1, <3>2 DEF Admits
    <3>4. j - k \in 1..Len(waiters') /\ j - k \in 1..(Len(queue) - k) /\ (j - k) + k = j
      BY <1>4, <3>3
    <3>5. waiters'[j - k] = r
      BY <1>4, <3>2, <3>4
    <3> QED BY <1>4, <3>4, <3>5, InSequence
  <2> QED BY <2>1, <2>2, <2>3 DEF QueueExact
<1>10. Slots'
  <2>1. ASSUME NEW r \in Requests, phase'[r] = "granted"
        PROVE  Upcoming(r) \in ToSet(times') /\ age'[Upcoming(r)] < Window
    <3>1. CASE r \in Admits(queue, ph, k)
      <4>1. Upcoming(r) \in Attempts
        BY <1>2, <1>5, <3>1
      <4> QED BY <1>0, <1>3, <3>1, <4>1
    <3>2. CASE r \notin Admits(queue, ph, k)
      <4>1. ph[r] = "granted"
        BY <1>3, <2>1, <3>2
      <4>2. Upcoming(r) \in ToSet(stamps) /\ phase[r] = "granted"
        BY <4>1
      <4>3. age[Upcoming(r)] < Window
        BY <1>0, <4>2 DEF Slots
      <4>4. Upcoming(r) \in Attempts
        BY <1>0, <4>1, UpcomingFacts
      <4>5. age'[Upcoming(r)] \in {0, age[Upcoming(r)]}
        BY <1>3, <4>4
      <4> QED BY <1>0, <1>3, <4>2, <4>3, <4>5
    <3> QED BY <3>1, <3>2
  <2> QED BY <1>1, <1>3, <2>1 DEF Slots
<1>11. NoQuotaLost'
  <2> SUFFICES ASSUME NEW a \in ToSet(times')
               PROVE  a \in started \/ \E r \in Requests : phase'[r] = "granted" /\ a = Upcoming(r)
    BY <1>1 DEF NoQuotaLost
  <2>1. CASE \E r \in Admits(queue, ph, k) : a = Upcoming(r)
    BY <1>3, <1>5, <2>1
  <2>2. CASE a \in ToSet(stamps)
    BY <1>3, <2>2
  <2> QED BY <1>3, <2>1, <2>2
<1>12. Stamped'
  <2> SUFFICES ASSUME NEW a \in started, since[a] < Window
               PROVE  a \in ToSet(times') /\ age'[a] = since[a]
    BY <1>1 DEF Stamped
  <2>1. a \in ToSet(stamps) /\ age[a] = since[a] /\ a \in Attempts
    BY <1>0 DEF Stamped, TypeOK
  <2>2. ASSUME NEW r \in Admits(queue, ph, k) PROVE a # Upcoming(r)
    BY <1>0, <1>5, <2>2, UpcomingFacts
  <2> QED BY <1>3, <2>1, <2>2
<1>13. QueueIsArmed'
  BY <1>3 DEF QueueIsArmed
<1> QED BY <1>6, <1>7, <1>8, <1>9, <1>10, <1>11, <1>12, <1>13 DEF Inductive

\* A step in which one request goes on and the window is left alone.
LEMMA MoveKeeps ==
  ASSUME Inductive, NEW r \in Requests, NEW p \in Phases, Goto(r, p),
         UNCHANGED <<tries, windowVars, ghostVars>>,
         sleep' \in [Requests -> 0..Delay], blocked' \in 0..Delay,
         phase[r] \notin {"granted", "over"}, p \notin {"queued", "granted"},
         phase[r] = "queued" => p = "over",
         p \notin {"sent", "stream", "over"} => tries[r] < MaxTries
  PROVE  Inductive'
<1>0. /\ tries' = tries /\ waiters' = waiters /\ times' = times /\ age' = age /\ timer' = timer
      /\ started' = started /\ since' = since
      /\ phase' = [phase EXCEPT ![r] = p] /\ phase \in [Requests -> Phases]
      /\ \A q : Upcoming(q)' = Upcoming(q)
  BY DEF windowVars, ghostVars, Goto, Inductive, TypeOK, Upcoming
<1>1. TypeOK'
  BY <1>0 DEF Inductive, TypeOK
<1>2. TriesLeft' /\ Counted'
  BY <1>0 DEF Inductive, TriesLeft, Counted
<1>3. QueueExact'
  <2>1. ASSUME NEW i \in 1..Len(waiters) PROVE phase'[waiters[i]] \in {"queued", "over"}
    <3>1. phase[waiters[i]] \in {"queued", "over"} /\ waiters[i] \in Requests
      <4>1. phase[waiters[i]] \in {"queued", "over"}
        BY DEF Inductive, QueueExact
      <4>2. waiters \in Seq(Requests)
        BY DEF Inductive, TypeOK
      <4> QED BY <4>1, <4>2
    <3> QED BY <1>0, <3>1
  <2> QED BY <1>0, <2>1 DEF Inductive, QueueExact, Distinct
<1>4. Slots'
  BY <1>0 DEF Inductive, Slots, Distinct
<1>5. NoQuotaLost'
  BY <1>0 DEF Inductive, NoQuotaLost
<1>6. Stamped' /\ QueueIsArmed'
  BY <1>0 DEF Inductive, Stamped, QueueIsArmed
<1> QED BY <1>1, <1>2, <1>3, <1>4, <1>5, <1>6 DEF Inductive

\* A request gets in line, and the _pump may admit it at once.
LEMMA EnqueueKeeps ==
  ASSUME Inductive, NEW r \in Requests, Enqueue(r) PROVE Inductive'
<1> DEFINE queue == Append(waiters, r)
           ph == [phase EXCEPT ![r] = "queued"]
<1>0. TypeOK /\ TriesLeft /\ QueueExact /\ Slots /\ NoQuotaLost /\ Stamped
  BY DEF Inductive
<1>1. /\ phase[r] = "paced" /\ phase \in [Requests -> Phases] /\ waiters \in Seq(Requests)
      /\ Pump(times, queue, ph) /\ UNCHANGED <<tries, sleep, blocked, ghostVars>>
  BY <1>0 DEF Enqueue, TypeOK
<1>2. /\ queue \in Seq(Requests) /\ Len(queue) = Len(waiters) + 1 /\ queue[Len(waiters) + 1] = r
      /\ \A i \in 1..Len(waiters) : queue[i] = waiters[i] /\ waiters[i] \in Requests
      /\ Len(waiters) \in Nat
  BY <1>1
<1>3. ph \in [Requests -> Phases] /\ ph[r] = "queued" /\ \A q \in Requests \ {r} : ph[q] = phase[q]
  BY <1>1 DEF Phases, Holding
<1> HIDE DEF queue, ph
<1>4. \A i \in 1..Len(waiters) : waiters[i] # r
  BY <1>0, <1>1 DEF QueueExact
<1>5. Distinct(queue)
  <2>1. ASSUME NEW i \in 1..Len(queue), NEW j \in 1..Len(queue), queue[i] = queue[j] PROVE i = j
    <3>1. CASE i \in 1..Len(waiters) /\ j \in 1..Len(waiters)
      BY <1>0, <1>2, <2>1, <3>1 DEF QueueExact, Distinct
    <3>2. CASE i = Len(waiters) + 1 \/ j = Len(waiters) + 1
      BY <1>2, <1>4, <2>1, <3>2
    <3> QED BY <1>2, <3>1, <3>2
  <2> QED BY <2>1 DEF Distinct
<1>6. ASSUME NEW i \in 1..Len(queue) PROVE ph[queue[i]] \in {"queued", "over"}
  <2>1. CASE i \in 1..Len(waiters)
    BY <1>0, <1>2, <1>3, <1>4, <2>1 DEF QueueExact
  <2>2. CASE i = Len(waiters) + 1
    BY <1>2, <1>3, <2>2
  <2> QED BY <1>2, <2>1, <2>2
<1>7. ASSUME NEW q \in Requests, ph[q] = "queued" PROVE q \in ToSet(queue)
  <2>1. CASE q = r
    BY <1>2, <2>1, InSequence
  <2>2. CASE q # r
    <3>1. phase[q] = "queued"
      BY <1>3, <1>7, <2>2
    <3>2. q \in ToSet(waiters)
      BY <1>0, <3>1 DEF QueueExact
    <3>3. PICK i \in 1..Len(waiters) : waiters[i] = q
      BY <1>1, <3>2, InSequence
    <3>4. i \in 1..Len(queue) /\ queue[i] = q
      BY <1>2, <3>3
    <3> QED BY <1>2, <3>4, InSequence
  <2> QED BY <2>1, <2>2
<1>8. \A q \in Requests : ph[q] \notin {"sent", "stream", "over"} => tries[q] < MaxTries
  BY <1>0, <1>1, <1>3 DEF TriesLeft
<1>9. \A q \in Requests : ph[q] = "granted" => phase[q] = "granted" /\ Upcoming(q) \in ToSet(times)
  BY <1>0, <1>3 DEF Slots
<1>10. \A a \in ToSet(times) :
         a \in started \/ \E q \in Requests : ph[q] = "granted" /\ a = Upcoming(q)
  BY <1>0, <1>1, <1>3 DEF NoQuotaLost
<1>11. \A a \in started : since[a] < Window => a \in ToSet(times)
  BY <1>0 DEF Stamped
<1>12. times \in Seq(Attempts) /\ Distinct(times) /\ Len(times) <= Limit
  BY <1>0 DEF TypeOK, Slots
<1> QED BY <1>1, <1>2, <1>3, <1>5, <1>6, <1>7, <1>8, <1>9, <1>10, <1>11, <1>12, PumpKeeps

\* The timer fires, on time or late.
LEMMA TimerFiresKeeps ==
  ASSUME Inductive, TimerFires PROVE Inductive'
<1>0. TypeOK /\ TriesLeft /\ QueueExact /\ Slots /\ NoQuotaLost /\ Stamped
  BY DEF Inductive
<1>1. /\ Pump(times, waiters, phase) /\ UNCHANGED <<tries, sleep, blocked, ghostVars>>
      /\ times \in Seq(Attempts) /\ waiters \in Seq(Requests) /\ phase \in [Requests -> Phases]
  BY <1>0 DEF TimerFires, TypeOK
<1>2. \A r \in Requests : phase[r] \notin {"sent", "stream", "over"} => tries[r] < MaxTries
  BY <1>0 DEF TriesLeft
<1>3. /\ Distinct(times) /\ Len(times) <= Limit
      /\ \A r \in Requests : phase[r] = "granted" => Upcoming(r) \in ToSet(times)
  BY <1>0 DEF Slots
<1>4. \A a \in ToSet(times) :
        a \in started \/ \E r \in Requests : phase[r] = "granted" /\ a = Upcoming(r)
  BY <1>0 DEF NoQuotaLost
<1>5. \A a \in started : since[a] < Window => a \in ToSet(times)
  BY <1>0 DEF Stamped
<1>6. /\ Distinct(waiters)
      /\ \A i \in 1..Len(waiters) : phase[waiters[i]] \in {"queued", "over"}
      /\ \A r \in Requests : phase[r] = "queued" => r \in ToSet(waiters)
  BY <1>0 DEF QueueExact
<1> QED BY <1>1, <1>2, <1>3, <1>4, <1>5, <1>6, PumpKeeps

\* Taking an attempt out of the window.
LEMMA WithoutAttempt ==
  ASSUME TypeOK, Slots, NEW a \in ToSet(times)
  PROVE  LET s == RemoveFirst(times, a) IN
         /\ s \in Seq(Attempts) /\ Distinct(s) /\ Len(s) = Len(times) - 1
         /\ \A b : b \in ToSet(s) <=> b \in ToSet(times) /\ b # a
<1> DEFINE s == RemoveFirst(times, a)
<1>0. times \in Seq(Attempts) /\ Distinct(times)
  BY DEF TypeOK, Slots
<1>1. PICK k \in 1..Len(times) :
        /\ times[k] = a /\ s \in Seq(Attempts) /\ Len(s) = Len(times) - 1
        /\ \A j \in 1..(Len(times) - 1) : s[j] = IF j < k THEN times[j] ELSE times[j + 1]
  BY <1>0, RemoveFirstFacts
<1> HIDE DEF s
<1> DEFINE from(j) == IF j < k THEN j ELSE j + 1
<1>2. \A j \in 1..Len(s) : from(j) \in 1..Len(times) /\ s[j] = times[from(j)] /\ from(j) # k
  BY <1>0, <1>1
<1>3. \A i, j \in 1..Len(s) : from(i) = from(j) => i = j
  BY <1>0, <1>1
<1>4. \A i \in 1..Len(times) : i # k => \E j \in 1..Len(s) : from(j) = i
  <2> SUFFICES ASSUME NEW i \in 1..Len(times), i # k PROVE \E j \in 1..Len(s) : from(j) = i
    OBVIOUS
  <2>0. Len(times) \in Nat /\ k \in Nat /\ i \in Nat
    BY <1>0
  <2>1. CASE i < k
    <3>1. i \in 1..Len(s) /\ from(i) = i
      BY <1>1, <2>0, <2>1
    <3> QED BY <3>1
  <2>2. CASE ~(i < k)
    <3>1. i - 1 \in 1..Len(s) /\ from(i - 1) = i
      BY <1>1, <2>0, <2>2
    <3> QED BY <3>1
  <2> QED BY <2>1, <2>2
<1> HIDE DEF from
<1>5. Distinct(s)
  <2>1. ASSUME NEW i \in 1..Len(s), NEW j \in 1..Len(s), s[i] = s[j] PROVE i = j
    BY <1>0, <1>2, <1>3, <2>1 DEF Distinct
  <2> QED BY <2>1 DEF Distinct
<1>6. ASSUME NEW b PROVE b \in ToSet(s) <=> b \in ToSet(times) /\ b # a
  <2>1. b \in ToSet(s) <=> \E j \in 1..Len(s) : s[j] = b
    BY <1>1, InSequence
  <2>2. b \in ToSet(times) <=> \E j \in 1..Len(times) : times[j] = b
    BY <1>0, InSequence
  <2>3. ASSUME NEW j \in 1..Len(s), s[j] = b PROVE b # a /\ \E i \in 1..Len(times) : times[i] = b
    <3>1. from(j) \in 1..Len(times) /\ times[from(j)] = b /\ from(j) # k
      BY <1>2, <2>3
    <3> QED BY <1>0, <1>1, <3>1 DEF Distinct
  <2>4. ASSUME NEW i \in 1..Len(times), times[i] = b, b # a PROVE \E j \in 1..Len(s) : s[j] = b
    <3>1. i # k
      BY <1>1, <2>4
    <3>2. PICK j \in 1..Len(s) : from(j) = i
      BY <1>4, <3>1
    <3> QED BY <1>2, <2>4, <3>2
  <2> QED BY <2>1, <2>2, <2>3, <2>4
<1> QED BY <1>1, <1>5, <1>6 DEF s

\* Somebody who was granted a slot gives it back: turned away, or cancelled.
LEMMA ReleaseKeeps ==
  ASSUME Inductive, NEW r \in Requests, phase[r] = "granted", NEW p \in {"paced", "over"},
         Release(r, [phase EXCEPT ![r] = p]), UNCHANGED <<tries, sleep, blocked, ghostVars>>
  PROVE  Inductive'
<1> DEFINE ph == [phase EXCEPT ![r] = p]
           a == Upcoming(r)
           stamps == RemoveFirst(times, a)
<1>0. TypeOK /\ TriesLeft /\ Counted /\ QueueExact /\ Slots /\ NoQuotaLost /\ Stamped
  BY DEF Inductive
<1>1. a \in ToSet(times)
  BY <1>0 DEF Slots
<1>2. Pump(stamps, waiters, ph)
  BY <1>1 DEF Release
<1>3. ph \in [Requests -> Phases] /\ ph[r] = p /\ \A q \in Requests \ {r} : ph[q] = phase[q]
  BY <1>0 DEF TypeOK, Phases, Holding
<1>4. /\ stamps \in Seq(Attempts) /\ Distinct(stamps) /\ Len(stamps) = Len(times) - 1
      /\ \A b : b \in ToSet(stamps) <=> b \in ToSet(times) /\ b # a
  BY <1>0, <1>1, WithoutAttempt
<1>5. /\ \A q \in Requests : Upcoming(q) = a => q = r
      /\ a \notin started
  BY <1>0, UpcomingFacts
<1> HIDE DEF ph, a, stamps
<1>6. \A q \in Requests : ph[q] \notin {"sent", "stream", "over"} => tries[q] < MaxTries
  BY <1>0, <1>3 DEF TriesLeft
<1>7. Len(stamps) <= Limit
  <2>1. Len(times) \in Nat /\ Limit \in Nat /\ Len(times) <= Limit
    BY <1>0, Bounds DEF TypeOK, Slots
  <2> QED BY <1>4, <2>1
<1>8. \A q \in Requests : ph[q] = "granted" => phase[q] = "granted" /\ Upcoming(q) \in ToSet(stamps)
  BY <1>0, <1>3, <1>4, <1>5 DEF Slots
<1>9. \A b \in ToSet(stamps) :
        b \in started \/ \E q \in Requests : ph[q] = "granted" /\ b = Upcoming(q)
  BY <1>0, <1>3, <1>4 DEF NoQuotaLost, a
<1>10. \A b \in started : since[b] < Window => b \in ToSet(stamps)
  BY <1>0, <1>4, <1>5 DEF Stamped
<1>11. /\ waiters \in Seq(Requests) /\ Distinct(waiters)
       /\ \A i \in 1..Len(waiters) : ph[waiters[i]] \in {"queued", "over"}
       /\ \A q \in Requests : ph[q] = "queued" => q \in ToSet(waiters)
  <2>1. waiters \in Seq(Requests) /\ \A i \in 1..Len(waiters) : waiters[i] \in Requests
    BY <1>0 DEF TypeOK
  <2> QED BY <1>0, <1>3, <2>1 DEF QueueExact
<1> QED BY <1>2, <1>3, <1>4, <1>6, <1>7, <1>8, <1>9, <1>10, <1>11, PumpKeeps

\* The upstream call begins: the slot of the request counts from now.
LEMMA ResumeKeeps ==
  ASSUME Inductive, NEW r \in Requests, Resume(r) PROVE Inductive'
<1> DEFINE a == Upcoming(r)
           s == RemoveFirst(times, a)
<1>0. TypeOK /\ TriesLeft /\ Counted /\ QueueExact /\ Slots /\ NoQuotaLost /\ Stamped /\ QueueIsArmed
  BY DEF Inductive
<1>1. /\ phase[r] = "granted" /\ phase' = [phase EXCEPT ![r] = "sent"]
      /\ tries' = [tries EXCEPT ![r] = @ + 1] /\ started' = started \cup {a}
      /\ since' = [since EXCEPT ![a] = 0]
      /\ sleep' = sleep /\ waiters' = waiters /\ timer' = timer /\ blocked' = blocked
  BY DEF Resume, Goto
<1>2. a \in ToSet(times) /\ tries[r] \in Nat /\ tries[r] < MaxTries /\ MaxTries \in Nat
  BY <1>0, <1>1, Bounds, UpcomingFacts DEF Slots, TriesLeft
<1>3. times' = Append(s, a) /\ age' = [age EXCEPT ![a] = 0]
  BY <1>2 DEF Resume, Restamp
<1>4. /\ s \in Seq(Attempts) /\ Distinct(s) /\ Len(s) = Len(times) - 1
      /\ \A b : b \in ToSet(s) <=> b \in ToSet(times) /\ b # a
  BY <1>0, <1>2, WithoutAttempt
<1>5. /\ \A q \in Requests : Upcoming(q) = a => q = r
      /\ a \notin started /\ a \in Attempts /\ a[1] = r /\ a[2] = tries[r] + 1
  BY <1>0, <1>2, UpcomingFacts DEF Upcoming
<1>6. \A q \in Requests \ {r} : /\ Upcoming(q)' = Upcoming(q) /\ tries'[q] = tries[q]
                                /\ phase'[q] = phase[q]
  BY <1>0, <1>1 DEF Upcoming, TypeOK
<1>7. tries'[r] = tries[r] + 1 /\ phase'[r] = "sent"
  BY <1>0, <1>1 DEF TypeOK
<1> HIDE DEF s, a
<1>8. /\ times' \in Seq(Attempts) /\ Len(times') = Len(times)
      /\ \A b : b \in ToSet(times') <=> b \in ToSet(times)
      /\ Distinct(times')
  <2>1. /\ times' \in Seq(Attempts) /\ Len(times') = Len(s) + 1 /\ times'[Len(s) + 1] = a
        /\ (\A i \in 1..Len(s) : times'[i] = s[i]) /\ Len(s) \in Nat
    BY <1>3, <1>4, <1>5
  <2>2. Len(times) \in Nat
    BY <1>0 DEF TypeOK
  <2>3. ASSUME NEW b PROVE b \in ToSet(times') <=> b \in ToSet(s) \/ b = a
    <3>1. b \in ToSet(times') <=> \E i \in 1..Len(times') : times'[i] = b
      BY <2>1, InSequence
    <3>2. b \in ToSet(s) <=> \E i \in 1..Len(s) : s[i] = b
      BY <1>4, InSequence
    <3> QED BY <2>1, <3>1, <3>2
  <2>4. \A i \in 1..Len(s) : s[i] # a
    BY <1>4, InSequence
  <2>5. ASSUME NEW i \in 1..Len(times'), NEW j \in 1..Len(times'), times'[i] = times'[j]
        PROVE  i = j
    BY <1>4, <2>1, <2>4, <2>5 DEF Distinct
  <2>6. Distinct(times')
    BY <2>5 DEF Distinct
  <2>7. Len(times') = Len(times)
    BY <1>4, <2>1, <2>2
  <2>8. ASSUME NEW b PROVE b \in ToSet(times') <=> b \in ToSet(times)
    BY <1>2, <1>4, <2>3
  <2> QED BY <2>1, <2>6, <2>7, <2>8
<1>9. TypeOK'
  <2>1. tries' \in [Requests -> 0..MaxTries]
    BY <1>0, <1>1, <1>2 DEF TypeOK
  <2>2. age' \in [Attempts -> Ages] /\ since' \in [Attempts -> Ages]
    BY <1>0, <1>1, <1>3, Bounds DEF TypeOK
  <2>3. phase' \in [Requests -> Phases]
    BY <1>0, <1>1 DEF TypeOK, Phases, Holding
  <2>4. started' \in SUBSET Attempts
    BY <1>0, <1>1, <1>5 DEF TypeOK
  <2> QED BY <1>0, <1>1, <1>8, <2>1, <2>2, <2>3, <2>4 DEF TypeOK
<1>10. TriesLeft'
  BY <1>0, <1>6, <1>7 DEF TriesLeft
<1>11. Counted'
  <2>1. ASSUME NEW b \in started PROVE b[2] <= tries'[b[1]]
    <3>1. b[1] \in Requests /\ b[2] \in Nat /\ b[2] <= tries[b[1]]
      BY <1>0 DEF Counted, TypeOK, Attempts
    <3> QED BY <1>2, <1>6, <1>7, <3>1
  <2>2. a[2] <= tries'[a[1]]
    BY <1>2, <1>5, <1>7
  <2> QED BY <1>1, <2>1, <2>2 DEF Counted
<1>12. QueueExact'
  <2>1. ASSUME NEW i \in 1..Len(waiters) PROVE phase'[waiters[i]] \in {"queued", "over"}
    <3>1. phase[waiters[i]] \in {"queued", "over"} /\ waiters[i] \in Requests
      BY <1>0 DEF QueueExact, TypeOK
    <3> QED BY <1>1, <1>6, <3>1
  <2> QED BY <1>0, <1>1, <1>6, <1>7, <2>1 DEF QueueExact, Distinct
<1>13. Slots'
  <2>1. ASSUME NEW q \in Requests, phase'[q] = "granted"
        PROVE  Upcoming(q)' \in ToSet(times') /\ age'[Upcoming(q)'] < Window
    <3>1. q # r /\ phase[q] = "granted" /\ Upcoming(q)' = Upcoming(q) /\ Upcoming(q) # a
      BY <1>5, <1>6, <1>7, <2>1
    <3>2. Upcoming(q) \in ToSet(times) /\ age[Upcoming(q)] < Window
      BY <1>0, <3>1 DEF Slots
    <3>3. age'[Upcoming(q)] = age[Upcoming(q)]
      BY <1>0, <1>3, <3>1 DEF TypeOK
    <3> QED BY <1>8, <3>1, <3>2, <3>3
  <2>2. Len(times') <= Limit
    BY <1>0, <1>8 DEF Slots
  <2> QED BY <1>8, <2>1, <2>2 DEF Slots
<1>14. NoQuotaLost'
  <2> SUFFICES ASSUME NEW b \in ToSet(times')
               PROVE  b \in started' \/ \E q \in Requests : phase'[q] = "granted" /\ b = Upcoming(q)'
    BY DEF NoQuotaLost
  <2>1. b \in started \/ \E q \in Requests : phase[q] = "granted" /\ b = Upcoming(q)
    BY <1>0, <1>8 DEF NoQuotaLost
  <2>2. CASE b \in started
    BY <1>1, <2>2
  <2>3. ASSUME NEW q \in Requests, phase[q] = "granted", b = Upcoming(q)
        PROVE  b \in started' \/ \E x \in Requests : phase'[x] = "granted" /\ b = Upcoming(x)'
    <3>1. CASE q = r
      BY <1>1, <2>3, <3>1 DEF a
    <3>2. CASE q # r
      BY <1>6, <2>3, <3>2
    <3> QED BY <3>1, <3>2
  <2> QED BY <2>1, <2>2, <2>3
<1>15. Stamped'
  <2>1. ASSUME NEW b \in started, since'[b] < Window PROVE b \in ToSet(times') /\ age'[b] = since'[b]
    <3>1. b # a /\ b \in Attempts
      BY <1>0, <1>5 DEF TypeOK
    <3>2. since'[b] = since[b] /\ age'[b] = age[b]
      BY <1>0, <1>1, <1>3, <3>1 DEF TypeOK
    <3> QED BY <1>0, <1>8, <2>1, <3>2 DEF Stamped
  <2>2. a \in ToSet(times') /\ age'[a] = since'[a]
    BY <1>0, <1>1, <1>2, <1>3, <1>5, <1>8 DEF TypeOK
  <2> QED BY <1>1, <2>1, <2>2 DEF Stamped
<1>16. QueueIsArmed'
  BY <1>0, <1>1 DEF QueueIsArmed
<1> QED BY <1>9, <1>10, <1>11, <1>12, <1>13, <1>14, <1>15, <1>16 DEF Inductive

\* Time passes: what was stamped when it began gets old with it, and no slot of
\* somebody who is about to begin gets too old.
LEMMA TickKeeps ==
  ASSUME Inductive, Tick PROVE Inductive'
<1>0. TypeOK /\ TriesLeft /\ Counted /\ QueueExact /\ Slots /\ NoQuotaLost /\ Stamped /\ QueueIsArmed
  BY DEF Inductive
<1>1. /\ phase' = phase /\ tries' = tries /\ waiters' = waiters /\ times' = times
      /\ started' = started /\ timer' = Less(timer) /\ blocked' = Less(blocked)
      /\ age' = [a \in Attempts |-> Older(age[a])]
      /\ since' = [a \in Attempts |-> Older(since[a])]
      /\ sleep' = [r \in Requests |-> Less(sleep[r])]
      /\ \A r : Upcoming(r)' = Upcoming(r)
  BY DEF Tick, Upcoming
<1>2. \A n \in Ages : Older(n) \in Ages /\ (Older(n) < Window => n < Window)
  BY Bounds DEF Older, Ages
<1>3. TypeOK'
  <2>1. age' \in [Attempts -> Ages] /\ since' \in [Attempts -> Ages]
    BY <1>0, <1>1, <1>2 DEF TypeOK
  <2>2. Less(timer) \in Ages \cup {None}
    BY <1>0, Bounds DEF TypeOK, Less, Ages
  <2>3. \A n \in 0..Delay : Less(n) \in 0..Delay
    BY Bounds DEF Less
  <2> QED BY <1>0, <1>1, <2>1, <2>2, <2>3 DEF TypeOK
<1>4. TriesLeft' /\ Counted' /\ QueueExact' /\ NoQuotaLost'
  BY <1>0, <1>1 DEF TriesLeft, Counted, QueueExact, Distinct, NoQuotaLost
<1>5. Slots'
  <2>1. ASSUME NEW r \in Requests, phase[r] = "granted" PROVE age'[Upcoming(r)] < Window
    <3>1. Upcoming(r) \in Attempts /\ age[Upcoming(r)] \in Ages
      BY <1>0, <2>1, UpcomingFacts DEF TypeOK, TriesLeft
    <3>2. age[Upcoming(r)] + 1 < Window
      BY <2>1 DEF Tick, LoopKeepsUp
    <3>3. Older(age[Upcoming(r)]) < Window
      BY <3>1, <3>2, Bounds DEF Older, Ages
    <3> QED BY <1>1, <3>1, <3>3
  <2> QED BY <1>0, <1>1, <2>1 DEF Slots, Distinct
<1>6. Stamped'
  <2>1. ASSUME NEW a \in started, since'[a] < Window PROVE a \in ToSet(times) /\ age'[a] = since'[a]
    <3>1. a \in Attempts /\ since[a] \in Ages
      BY <1>0 DEF TypeOK
    <3>2. since[a] < Window
      BY <1>1, <1>2, <2>1, <3>1
    <3> QED BY <1>0, <1>1, <3>1, <3>2 DEF Stamped
  <2> QED BY <1>1, <2>1 DEF Stamped
<1>7. QueueIsArmed'
  <2>1. timer # None => Less(timer) # None
    BY <1>0, Bounds DEF Less, TypeOK, Ages
  <2> QED BY <1>0, <1>1, <2>1 DEF QueueIsArmed
<1> QED BY <1>3, <1>4, <1>5, <1>6, <1>7 DEF Inductive

\* The other steps of a request only move it on.
LEMMA RequestKeeps ==
  ASSUME Inductive, NEW r \in Requests,
         \/ Arrive(r) \/ TakeSlot(r) \/ Enqueue(r) \/ Resume(r) \/ TurnedAway(r)
         \/ Answered(r) \/ BackoffEnds(r) \/ Cancel(r)
         \/ \E d \in 0..Delay : StreamEnds(r, d) \/ \E t \in BOOLEAN : Failed(r, d, t)
  PROVE  Inductive'
<1>0. /\ sleep \in [Requests -> 0..Delay] /\ blocked \in 0..Delay /\ phase[r] \in Phases
      /\ {"new", "slot", "paced", "sent", "backoff", "stream", "over"} \subseteq Phases
  BY DEF Inductive, TypeOK, Phases, Holding
<1>1. phase[r] \notin {"sent", "stream", "over"} => tries[r] < MaxTries
  BY DEF Inductive, TriesLeft
<1>2. CASE Arrive(r)
  BY <1>0, <1>1, <1>2, MoveKeeps DEF Arrive
<1>3. CASE TakeSlot(r)
  BY <1>0, <1>1, <1>3, MoveKeeps DEF TakeSlot
<1>4. CASE Enqueue(r)
  BY <1>4, EnqueueKeeps
<1>5. CASE Resume(r)
  BY <1>5, ResumeKeeps
<1>6. CASE TurnedAway(r)
  BY <1>6, ReleaseKeeps DEF TurnedAway
<1>7. CASE Answered(r)
  BY <1>0, <1>7, MoveKeeps DEF Answered
<1>8. CASE BackoffEnds(r)
  BY <1>0, <1>1, <1>8, MoveKeeps DEF BackoffEnds
<1>9. CASE Cancel(r)
  <2>1. CASE phase[r] = "granted"
    BY <1>9, <2>1, ReleaseKeeps DEF Cancel
  <2>2. CASE phase[r] # "granted"
    BY <1>0, <1>9, <2>2, MoveKeeps DEF Cancel
  <2> QED BY <2>1, <2>2
<1>10. ASSUME NEW d \in 0..Delay, StreamEnds(r, d) PROVE Inductive'
  BY <1>0, <1>10, MoveKeeps DEF StreamEnds
<1>11. ASSUME NEW d \in 0..Delay, NEW t \in BOOLEAN, Failed(r, d, t) PROVE Inductive'
  <2>1. sleep' \in [Requests -> 0..Delay] /\ blocked' \in 0..Delay
    BY <1>0, <1>11 DEF Failed
  <2>2. CASE tries[r] < MaxTries
    BY <1>0, <1>11, <2>1, <2>2, MoveKeeps DEF Failed
  <2>3. CASE ~(tries[r] < MaxTries)
    BY <1>0, <1>11, <2>1, <2>3, MoveKeeps DEF Failed
  <2> QED BY <2>2, <2>3
<1> QED BY <1>2, <1>3, <1>4, <1>5, <1>6, <1>7, <1>8, <1>9, <1>10, <1>11

LEMMA Start == Init => Inductive
<1> SUFFICES ASSUME Init PROVE Inductive
  OBVIOUS
<1>1. TypeOK
  BY Bounds DEF Init, TypeOK, Phases
<1>2. TriesLeft /\ Counted /\ NoQuotaLost /\ Stamped /\ QueueIsArmed
  BY Bounds DEF Init, TriesLeft, Counted, NoQuotaLost, Stamped, QueueIsArmed, ToSet
<1>3. QueueExact /\ Slots
  BY Bounds DEF Init, QueueExact, Slots, Distinct
<1> QED BY <1>1, <1>2, <1>3 DEF Inductive

LEMMA Step == Inductive /\ [Next]_vars => Inductive'
<1> SUFFICES ASSUME Inductive, [Next]_vars PROVE Inductive'
  OBVIOUS
<1>1. CASE UNCHANGED vars
  <2>1. /\ UNCHANGED <<phase, tries, sleep, waiters, times, age, timer, blocked, started, since>>
        /\ \A r : Upcoming(r)' = Upcoming(r)
    BY <1>1 DEF vars, requestVars, windowVars, ghostVars, Upcoming
  <2>2. TypeOK' /\ TriesLeft' /\ Counted' /\ QueueExact'
    BY <2>1 DEF Inductive, TypeOK, TriesLeft, Counted, QueueExact, Distinct
  <2>3. Slots' /\ NoQuotaLost' /\ Stamped' /\ QueueIsArmed'
    BY <2>1 DEF Inductive, Slots, Distinct, NoQuotaLost, Stamped, QueueIsArmed
  <2> QED BY <2>2, <2>3 DEF Inductive
<1> QED BY <1>1, RequestKeeps, TimerFiresKeeps, TickKeeps DEF Next, Finished

-----------------------------------------------------------------------------
(***************************************************************************)
(* The theorems.                                                           *)
(***************************************************************************)

\* The inductive invariant holds in every state of every behaviour.
THEOREM InductiveCorrect == Spec => []Inductive
<1>1. Init => Inductive
  BY Start
<1>2. Inductive /\ [Next]_vars => Inductive'
  BY Step
<1> QED BY <1>1, <1>2, PTL DEF Spec

\* In no interval of one window do more than Limit upstream calls begin: whoever
\* began within the window holds a stamp of the same age (_restamp), stamps are
\* never doubled, and _pump never hands out more of them than there are slots.
THEOREM RateBoundCorrect == Spec => []RateBound
<1>1. Inductive => RateBound
  <2> SUFFICES ASSUME Inductive PROVE RateBound
    OBVIOUS
  <2> DEFINE recent == {a \in started : since[a] < Window}
  <2>1. recent \subseteq ToSet(times)
    BY DEF Inductive, Stamped
  <2>2. /\ times \in Seq(Attempts) /\ Len(times) <= Limit /\ Limit \in Nat
    BY Bounds DEF Inductive, TypeOK, Slots
  <2>3. IsFiniteSet(ToSet(times)) /\ Cardinality(ToSet(times)) <= Len(times)
    BY <2>2, ElementsBound
  <2> HIDE DEF recent
  <2>4. IsFiniteSet(recent) /\ Cardinality(recent) <= Cardinality(ToSet(times))
    BY <2>1, <2>3, FS_Subset
  <2>5. Cardinality(recent) \in Nat /\ Cardinality(ToSet(times)) \in Nat /\ Len(times) \in Nat
    BY <2>2, <2>3, <2>4, FS_CardinalityType
  <2>6. Cardinality(recent) <= Limit
    BY <2>2, <2>3, <2>4, <2>5
  <2> QED BY <2>6 DEF RateBound, recent
<1> QED BY <1>1, InductiveCorrect, PTL

\* Every slot of the window belongs to a call that began or to a waiter that is
\* about to begin: whoever gives up gives his slot back (_release).
THEOREM NoQuotaLostCorrect == Spec => []NoQuotaLost
<1>1. Inductive => NoQuotaLost
  BY DEF Inductive
<1> QED BY <1>1, InductiveCorrect, PTL

\* A queue that is not empty has a timer: the wake-up of those who wait is never
\* lost, whoever is cancelled or gives a slot back.
THEOREM QueueIsArmedCorrect == Spec => []QueueIsArmed
<1>1. Inductive => QueueIsArmed
  BY DEF Inductive
<1> QED BY <1>1, InductiveCorrect, PTL

\* No upstream call begins under a block, also one that was installed while the
\* call waited for the window (acquire_if).
THEOREM NeverWhileBlockedCorrect == Spec => NeverWhileBlocked
<1>1. [Next]_vars => [started' # started => blocked = 0]_vars
  <2> SUFFICES ASSUME Next, started' # started PROVE blocked = 0
    OBVIOUS
  <2>1. PICK r \in Requests : Resume(r)
    BY DEF Next, ghostVars, vars, Finished, Tick, TimerFires, Arrive, TakeSlot, Enqueue,
           TurnedAway, Answered, BackoffEnds, Cancel, StreamEnds, Failed
  <2> QED BY <2>1 DEF Resume, Admitted
<1> QED BY <1>1, PTL DEF Spec, NeverWhileBlocked

\* In a _pump nobody who stays in the queue is behind somebody who is admitted.
LEMMA PumpInOrder ==
  ASSUME Inductive, NEW stamps \in Seq(Attempts), NEW queue \in Seq(Requests), NEW ph,
         Pump(stamps, queue, ph), Distinct(stamps), Distinct(queue), Len(stamps) <= Limit,
         \A q \in Requests : ph[q] = "queued" =>
           Upcoming(q) \in Attempts /\ Upcoming(q) \notin ToSet(stamps),
         \A i \in 1..Len(waiters) : i \in 1..Len(queue) /\ queue[i] = waiters[i],
         NEW r \in Requests, NEW w \in Requests,
         phase'[r] = "granted", ph[r] # "granted", phase'[w] = "queued",
         w \in ToSet(waiters)
  PROVE  \E i, j \in 1..Len(waiters) : i < j /\ waiters[i] = r /\ waiters[j] = w
<1>0. TypeOK /\ waiters \in Seq(Requests)
  BY DEF Inductive, TypeOK
<1>1. PICK k \in 0..Len(queue) : Pumped(stamps, queue, ph, k)
  BY <1>0, PumpFacts
<1>2. PICK i \in 1..k : queue[i] = r
  BY <1>1 DEF Pumped, Admits
<1>3. PICK j \in 1..Len(waiters) : waiters[j] = w
  BY <1>0, InSequence
<1>4. w \notin Admits(queue, ph, k) /\ ph[w] = "queued"
  BY <1>1 DEF Pumped
<1>5. ~(j <= k)
  BY <1>3, <1>4 DEF Admits
<1>6. i < j /\ i \in 1..Len(waiters)
  BY <1>0, <1>2, <1>3, <1>5
<1> QED BY <1>2, <1>3, <1>6

\* Admission is first come, first served: a request that gets a slot queued before
\* everybody who still waits, when the timer is late, when slots come back out of
\* order and when waiters in between were cancelled.
THEOREM FirstComeFirstAdmittedCorrect == Spec => FirstComeFirstAdmitted
<1> DEFINE Order == \A r, w \in Requests :
      phase'[r] = "granted" /\ phase[r] # "granted" /\ {phase[w], phase'[w]} = {"queued"}
        => \E i, j \in 1..Len(waiters) : i < j /\ waiters[i] = r /\ waiters[j] = w
<1>1. ASSUME Inductive, [Next]_vars PROVE [Order]_vars
  <2> SUFFICES ASSUME Next PROVE Order
    BY <1>1
  <2> SUFFICES ASSUME NEW r \in Requests, NEW w \in Requests,
                      phase'[r] = "granted", phase[r] # "granted",
                      {phase[w], phase'[w]} = {"queued"}
               PROVE  \E i, j \in 1..Len(waiters) : i < j /\ waiters[i] = r /\ waiters[j] = w
    OBVIOUS
  <2> SUFFICES ASSUME phase[w] = "queued", phase'[w] = "queued"
               PROVE  \E i, j \in 1..Len(waiters) : i < j /\ waiters[i] = r /\ waiters[j] = w
    OBVIOUS
  <2>0. /\ TypeOK /\ TriesLeft /\ Counted /\ QueueExact /\ Slots /\ NoQuotaLost
        /\ phase \in [Requests -> Phases] /\ waiters \in Seq(Requests) /\ times \in Seq(Attempts)
        /\ Limit \in Nat
    BY <1>1, Bounds DEF Inductive, TypeOK
  <2>1. w \in ToSet(waiters)
    BY <2>0 DEF QueueExact
  <2>2. ASSUME NEW q \in Requests, phase[q] \in {"queued", "paced"}
        PROVE  Upcoming(q) \in Attempts /\ Upcoming(q) \notin ToSet(times)
    <3>1. Upcoming(q) \in Attempts /\ Upcoming(q) \notin started
      BY <2>0, <2>2, UpcomingFacts DEF TriesLeft
    <3>2. ASSUME NEW p \in Requests, phase[p] = "granted" PROVE Upcoming(p) # Upcoming(q)
      BY <2>0, <2>2, <3>2, UpcomingFacts
    <3> QED BY <2>0, <3>1, <3>2 DEF NoQuotaLost
  <2>3. CASE TimerFires
    <3>1. Pump(times, waiters, phase)
      BY <2>3 DEF TimerFires
    <3> QED BY <1>1, <2>0, <2>1, <2>2, <3>1, PumpInOrder DEF Slots, QueueExact
  <2>4. ASSUME NEW q \in Requests, Enqueue(q)
        PROVE  \E i, j \in 1..Len(waiters) : i < j /\ waiters[i] = r /\ waiters[j] = w
    <3> DEFINE queue == Append(waiters, q)
               ph == [phase EXCEPT ![q] = "queued"]
    <3>1. Pump(times, queue, ph) /\ phase[q] = "paced"
      BY <2>4 DEF Enqueue
    <3>2. /\ queue \in Seq(Requests) /\ Len(queue) = Len(waiters) + 1
          /\ queue[Len(waiters) + 1] = q /\ Len(waiters) \in Nat
          /\ \A i \in 1..Len(waiters) : i \in 1..Len(queue) /\ queue[i] = waiters[i]
      BY <2>0
    <3>3. ph[r] # "granted"
      BY <2>0
    <3>4. \A p \in Requests : ph[p] = "queued" => phase[p] \in {"queued", "paced"}
      BY <2>0, <3>1
    <3> HIDE DEF queue, ph
    <3>5. \A i \in 1..Len(waiters) : waiters[i] # q
      BY <2>0, <3>1 DEF QueueExact
    <3>6. ASSUME NEW i \in 1..Len(queue), NEW j \in 1..Len(queue), queue[i] = queue[j]
          PROVE  i = j
      <4>1. CASE i \in 1..Len(waiters) /\ j \in 1..Len(waiters)
        BY <2>0, <3>2, <3>6, <4>1 DEF QueueExact, Distinct
      <4>2. CASE i = Len(waiters) + 1 \/ j = Len(waiters) + 1
        BY <3>2, <3>5, <3>6, <4>2
      <4> QED BY <3>2, <4>1, <4>2
    <3>7. Distinct(queue) /\ Distinct(times) /\ Len(times) <= Limit
      BY <2>0, <3>6 DEF Distinct, Slots
    <3>8. \A p \in Requests : ph[p] = "queued" =>
            Upcoming(p) \in Attempts /\ Upcoming(p) \notin ToSet(times)
      BY <2>2, <3>4
    <3> QED BY <1>1, <2>0, <2>1, <3>1, <3>2, <3>3, <3>7, <3>8, PumpInOrder
  <2>5. ASSUME NEW q \in Requests, phase[q] = "granted", NEW p \in {"paced", "over"},
               Release(q, [phase EXCEPT ![q] = p])
        PROVE  \E i, j \in 1..Len(waiters) : i < j /\ waiters[i] = r /\ waiters[j] = w
    <3> DEFINE ph == [phase EXCEPT ![q] = p]
               stamps == RemoveFirst(times, Upcoming(q))
    <3>1. Upcoming(q) \in ToSet(times)
      BY <2>0, <2>5 DEF Slots
    <3>2. Pump(stamps, waiters, ph)
      BY <2>5, <3>1 DEF Release
    <3>3. /\ stamps \in Seq(Attempts) /\ Distinct(stamps) /\ Len(stamps) = Len(times) - 1
          /\ \A b : b \in ToSet(stamps) <=> b \in ToSet(times) /\ b # Upcoming(q)
      BY <2>0, <3>1, WithoutAttempt
    <3>4. ph[r] # "granted" /\ \A x \in Requests : ph[x] = "queued" => phase[x] = "queued"
      BY <2>0
    <3> HIDE DEF ph, stamps
    <3>5. Len(stamps) <= Limit
      BY <2>0, <3>3 DEF Slots
    <3>6. \A x \in Requests : ph[x] = "queued" =>
            Upcoming(x) \in Attempts /\ Upcoming(x) \notin ToSet(stamps)
      BY <2>2, <3>3, <3>4
    <3> DEFINE queue == waiters
    <3>7. /\ queue \in Seq(Requests) /\ Distinct(queue) /\ Pump(stamps, queue, ph)
          /\ \A i \in 1..Len(waiters) : i \in 1..Len(queue) /\ queue[i] = waiters[i]
      BY <2>0, <3>2 DEF QueueExact
    <3> HIDE DEF queue
    <3> QED BY <1>1, <2>1, <3>3, <3>4, <3>5, <3>6, <3>7, PumpInOrder
  <2>6. ASSUME NEW q \in Requests, NEW p \in Phases, Goto(q, p), p # "granted" PROVE FALSE
    BY <2>0, <2>6 DEF Goto
  <2>7. {"slot", "paced", "sent", "stream", "over", "backoff"} \subseteq Phases
    BY DEF Phases, Holding
  <2>8. ASSUME NEW q \in Requests,
               \/ Arrive(q) \/ TakeSlot(q) \/ Resume(q) \/ Answered(q) \/ BackoffEnds(q)
               \/ \E d \in 0..Delay : StreamEnds(q, d) \/ \E t \in BOOLEAN : Failed(q, d, t)
        PROVE  FALSE
    BY <2>6, <2>7, <2>8 DEF Arrive, TakeSlot, Resume, Answered, BackoffEnds, StreamEnds, Failed
  <2>9. ASSUME NEW q \in Requests, TurnedAway(q) \/ Cancel(q)
        PROVE  \E i, j \in 1..Len(waiters) : i < j /\ waiters[i] = r /\ waiters[j] = w
    BY <2>5, <2>6, <2>7, <2>9 DEF TurnedAway, Cancel
  <2>10. ASSUME Tick \/ Finished PROVE FALSE
    BY <2>10 DEF Tick, Finished, vars, requestVars
  <2> QED BY <2>3, <2>4, <2>8, <2>9, <2>10 DEF Next
<1> QED BY <1>1, InductiveCorrect, PTL DEF Spec, FirstComeFirstAdmitted
=============================================================================
