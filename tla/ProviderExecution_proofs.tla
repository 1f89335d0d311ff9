---------------------- MODULE ProviderExecution_proofs ----------------------
(***************************************************************************)
(* Proofs about one request of the proxy, on a route of any length.        *)
(*                                                                         *)
(* The ledger: whatever fails and whoever takes over, it accounts for      *)
(* every attempt.  The heart of it is the walk along the candidates        *)
(* (_prepare_from): what one walk leaves in the ledger, WalkFacts, and     *)
(* what it tells of each model that was tried, WalkTells.                  *)
(*                                                                         *)
(* The message: whoever wrote it, the client can read it as one message.   *)
(* The heart of it is what the splicer knows of the message it continues   *)
(* and of the stream that continues it (Knows, Follows), and that every    *)
(* frame of that stream carries both along, RewriteCarries.                *)
(***************************************************************************)
EXTENDS ProviderExecution, FiniteSetTheorems, NaturalsInduction, WellFoundedInduction,
        SequenceTheorems, TLAPS

\* Before the first model was found.
Before == {"new", "prepare"}

\* The verdict v tells of model m what became of it: it does not say that m was skipped,
\* but for the two verdicts that overwrite what is known, where q are the positions
\* that were probed.
Tells(v, m, q) == v \notin Skips \/ v = "ended" \/ (v = "late" /\ m \in Siblings /\ q # {})

\* The ledger still waits for the verdict on the attempt under way.
Deciding == {"made", "read", "closing", "seam", "resume", "cutting", "finishing", "finished",
             "left", "unread"}

\* The attempt under way is on the route, and so is the one that is to follow it.
OnRoute ==
  /\ \A p, q \in 1..Len(order) : order[p] = order[q] => p = q
  /\ Len(order) <= Length /\ position <= Len(order)
  /\ pc \notin Before \cup {"raised"} => position # 0 /\ current # 0
  /\ pc \in {"seam", "resume"} =>
       following \in (position + 1)..Len(order) /\ current = order[following]
  /\ pc \in Before \cup {"made", "read"} => fault = "none"
  /\ \A p \in 1..Length : tries[p] # 0
  /\ pc \in Before => position = 0 /\ attempted = {}

\* Who succeeded, who is charged, and that the ledger is published in the end.
Accounts ==
  /\ \A m \in Models : rows[m] = "succeeded" <=> (pc = "done" /\ m = Model)
  /\ \A m \in Models : owed[m] > 0 =>
       m = Model /\ (Undecided \/ pc = "left" \/ (pc = "raised" /\ Committed))
  /\ Undecided => owed[Model] = 1
  /\ Over /\ pc # "unread" => published
  /\ pc = "left" => rows[current] = "interrupted"

\* Every model that was tried has its verdict, but for the attempt under way and the
\* one that is to follow it.
Told ==
  \A m \in attempted :
    \/ Tells(rows[m], m, probed)
    \/ pc \in Deciding /\ m = Model
    \/ pc \in {"seam", "resume"} /\ m = order[following]

Inductive == TypeOK /\ OnRoute /\ Accounts /\ Told

-----------------------------------------------------------------------------
\* A set of numbers has a least one.
LEMMA NatMinimum ==
  ASSUME NEW T \in SUBSET Nat, T # {}
  PROVE  \E k \in T : \A i \in T : k <= i
<1> DEFINE R == OpToRel(<, Nat)
<1>1. PICK k \in T : \A i \in T : <<i, k>> \notin R
  BY NatLessThanWellFounded, WFMin
<1>2. \A i \in T : i < k => <<i, k>> \in R
  BY <1>1 DEF OpToRel
<1> HIDE DEF R
<1>3. ASSUME NEW i \in T PROVE k <= i
  <2>1. ~(i < k)
    BY <1>1, <1>2
  <2>2. i \in Nat /\ k \in Nat
    OBVIOUS
  <2> QED BY <2>1, <2>2
<1> QED BY <1>3

\* Induction, for a set of numbers.
LEMMA NatByInduction ==
  ASSUME NEW T, 0 \in T, \A n \in Nat : n \in T => n + 1 \in T
  PROVE  Nat \subseteq T
<1> SUFFICES ASSUME Nat \ T # {} PROVE FALSE
  OBVIOUS
<1>1. PICK k \in Nat \ T : \A i \in Nat \ T : k <= i
  BY NatMinimum
<1>2. k # 0 /\ k - 1 \in Nat /\ ~(k <= k - 1) /\ (k - 1) + 1 = k
  BY <1>1
<1>3. k - 1 \in T
  BY <1>1, <1>2
<1> QED BY <1>1, <1>2, <1>3

\* A set of numbers that is bounded has a greatest one.
LEMMA GreatestFacts ==
  ASSUME NEW n \in Nat, NEW S \in SUBSET (0..n), S # {}
  PROVE  Max(S) \in S /\ \A x \in S : Max(S) >= x
<1> DEFINE T == {k \in 0..n : \A x \in S : x <= k}
<1>1. PICK k \in T : \A i \in T : k <= i
  <2>1. n \in T /\ T \subseteq Nat
    OBVIOUS
  <2> HIDE DEF T
  <2> QED BY <2>1, NatMinimum
<1>2. k \in S
  <2> SUFFICES ASSUME k \notin S PROVE FALSE
    OBVIOUS
  <2>1. k \in 0..n /\ \A x \in S : x <= k /\ x # k /\ x \in 0..n
    BY <1>1
  <2>2. k # 0
    <3>1. PICK x \in S : TRUE
      OBVIOUS
    <3>2. x <= k /\ x # k /\ x \in 0..n /\ k \in 0..n
      BY <2>1
    <3> QED BY <3>2
  <2>3. k - 1 \in 0..n /\ \A x \in S : x <= k - 1
    BY <2>1, <2>2
  <2>4. k - 1 \in T /\ ~(k <= k - 1)
    BY <2>3
  <2> QED BY <1>1, <2>4
<1>3. \E x \in S : \A y \in S : x >= y
  BY <1>1, <1>2
<1> QED BY <1>3 DEF Max

\* Max is a bound of a finite set, and one of its members.
LEMMA MaxFacts ==
  ASSUME NEW n \in Nat, NEW S \in SUBSET (1..n), S # {}
  PROVE  Max(S) \in S /\ \A x \in S : Max(S) >= x
<1>1. S \in SUBSET (0..n)
  OBVIOUS
<1> QED BY <1>1, GreatestFacts

\* A set of numbers that is bounded can be put in order, and its order covers it.
LEMMA InOrder ==
  ASSUME NEW N \in Nat, NEW S \in SUBSET (0..N)
  PROVE  /\ IsFiniteSet(S) /\ Cardinality(S) \in 0..(N + 1)
         /\ Ascending(S) \in [1..Cardinality(S) -> S]
         /\ \A i, j \in 1..Cardinality(S) : Ascending(S)[i] = Ascending(S)[j] => i = j
         /\ \A i, j \in 1..Cardinality(S) : i < j => Ascending(S)[i] < Ascending(S)[j]
         /\ \A x \in S : \E i \in 1..Cardinality(S) : Ascending(S)[i] = x
<1> DEFINE Sorted(s, n) == \A i, j \in 1..n : i < j => s[i] < s[j]
           T == {n \in Nat : \A X \in SUBSET (0..N) : IsFiniteSet(X) /\ Cardinality(X) = n
                               => \E s \in [1..n -> X] : Sorted(s, n)}
<1>0. \A X \in SUBSET (0..N) : \A y \in X : y \in Nat
  OBVIOUS
<1>1. 0 \in T
  <2> SUFFICES ASSUME NEW X \in SUBSET (0..N) PROVE \E s \in [1..0 -> X] : Sorted(s, 0)
    OBVIOUS
  <2>1. <<>> \in [1..0 -> X] /\ Sorted(<<>>, 0)
    OBVIOUS
  <2> QED BY <2>1
<1>2. ASSUME NEW n \in Nat, n \in T PROVE n + 1 \in T
  <2> SUFFICES ASSUME NEW X \in SUBSET (0..N), IsFiniteSet(X), Cardinality(X) = n + 1
               PROVE  \E s \in [1..(n + 1) -> X] : Sorted(s, n + 1)
    OBVIOUS
  <2>1. X # {}
    BY FS_EmptySet
  <2> DEFINE x == Max(X)
             Y == X \ {x}
  <2>2. x \in X /\ \A y \in X : x >= y
    BY <2>1, GreatestFacts
  <2> HIDE DEF x
  <2>3. IsFiniteSet(Y) /\ Cardinality(Y) = n /\ Y \in SUBSET (0..N)
    <3>1. IsFiniteSet(Y) /\ Cardinality(Y) = Cardinality(X) - 1
      BY <2>2, FS_RemoveElement
    <3>2. Y \in SUBSET (0..N)
      OBVIOUS
    <3> HIDE DEF Y
    <3> QED BY <3>1, <3>2
  <2>4. PICK s \in [1..n -> Y] : Sorted(s, n)
    BY <1>2, <2>3
  <2> DEFINE t == [i \in 1..(n + 1) |-> IF i = n + 1 THEN x ELSE s[i]]
  <2>5. t \in [1..(n + 1) -> X]
    BY <2>2, <2>4
  <2>6. ASSUME NEW i \in 1..(n + 1), NEW j \in 1..(n + 1), i < j PROVE t[i] < t[j]
    <3>1. i \in 1..n /\ t[i] = s[i] /\ s[i] \in Y
      BY <2>6, <2>4
    <3>2. CASE j = n + 1
      <4>1. t[j] = x /\ s[i] \in X /\ s[i] # x
        BY <3>1, <3>2
      <4>2. s[i] \in Nat /\ x \in Nat /\ x >= s[i]
        BY <1>0, <2>2, <4>1
      <4> QED BY <3>1, <4>1, <4>2
    <3>3. CASE j # n + 1
      BY <2>4, <2>6, <3>1, <3>3
    <3> QED BY <3>2, <3>3
  <2> HIDE DEF t
  <2> QED BY <2>5, <2>6
<1>3. IsFiniteSet(S) /\ Cardinality(S) \in 0..(N + 1)
  <2>1. IsFiniteSet(0..N) /\ Cardinality(0..N) = N + 1
    <3>1. N \in Int /\ 0 \in Int /\ (IF 0 > N THEN 0 ELSE N - 0 + 1) = N + 1
      OBVIOUS
    <3>2. IsFiniteSet(0..N) /\ Cardinality(0..N) = IF 0 > N THEN 0 ELSE N - 0 + 1
      BY <3>1, FS_Interval
    <3> QED BY <3>1, <3>2
  <2>2. IsFiniteSet(S) /\ Cardinality(S) <= Cardinality(0..N)
    BY <2>1, FS_Subset
  <2>3. Cardinality(S) \in Nat
    BY <2>2, FS_CardinalityType
  <2> QED BY <2>1, <2>2, <2>3
<1> DEFINE n == Cardinality(S)
<1>4. n \in T
  <2> HIDE DEF T, n
  <2>1. Nat \subseteq T
    BY <1>1, <1>2, NatByInduction
  <2> QED BY <1>3, <2>1 DEF n
<1>5. \E s \in [1..n -> S] : Sorted(s, n)
  BY <1>3, <1>4
<1> HIDE DEF T
<1>6. Ascending(S) \in [1..n -> S] /\ Sorted(Ascending(S), n)
  BY <1>5 DEF Ascending
<1>7. ASSUME NEW i \in 1..n, NEW j \in 1..n, Ascending(S)[i] = Ascending(S)[j] PROVE i = j
  <2> HIDE DEF n
  <2>1. \A k \in 1..n : Ascending(S)[k] \in Nat
    BY <1>0, <1>6
  <2> QED BY <1>3, <1>6, <1>7, <2>1 DEF n
<1>8. \A x \in S : \E i \in 1..n : Ascending(S)[i] = x
  <2>1. Ascending(S) \in Injection(1..n, S)
    <3> HIDE DEF n
    <3> QED BY <1>6, <1>7 DEF Injection, IsInjective
  <2>2. n \in Nat /\ Cardinality(1..n) = n
    <3>1. n \in Nat
      BY <1>3
    <3> HIDE DEF n
    <3>2. n \in Int /\ 1 \in Int /\ (IF 1 > n THEN 0 ELSE n - 1 + 1) = n
      BY <3>1
    <3>3. Cardinality(1..n) = IF 1 > n THEN 0 ELSE n - 1 + 1
      BY <3>2, FS_Interval
    <3> QED BY <3>1, <3>2, <3>3
  <2>3. Ascending(S) \in Surjection(1..n, S)
    BY <1>3, <2>1, <2>2, FS_Injection
  <2> QED BY <2>3 DEF Surjection
<1> QED BY <1>3, <1>6, <1>7, <1>8

\* A set of positions or of models can be put in order.
LEMMA AscendingFacts ==
  ASSUME NEW N \in Nat, NEW S \in SUBSET (1..N)
  PROVE  /\ IsFiniteSet(S) /\ Cardinality(S) \in 0..N
         /\ Ascending(S) \in Seq(S) /\ Len(Ascending(S)) = Cardinality(S)
         /\ \A i, j \in 1..Len(Ascending(S)) : Ascending(S)[i] = Ascending(S)[j] => i = j
         /\ \A i, j \in 1..Len(Ascending(S)) : i < j => Ascending(S)[i] < Ascending(S)[j]
<1>1. S \in SUBSET (0..N)
  OBVIOUS
<1>2. /\ IsFiniteSet(S) /\ Cardinality(S) \in 0..(N + 1)
      /\ Ascending(S) \in [1..Cardinality(S) -> S]
      /\ \A i, j \in 1..Cardinality(S) : Ascending(S)[i] = Ascending(S)[j] => i = j
      /\ \A i, j \in 1..Cardinality(S) : i < j => Ascending(S)[i] < Ascending(S)[j]
  BY <1>1, InOrder
<1>3. Cardinality(S) <= N
  <2>1. IsFiniteSet(1..N) /\ Cardinality(1..N) = N
    <3>1. N \in Int /\ 1 \in Int /\ (IF 1 > N THEN 0 ELSE N - 1 + 1) = N
      OBVIOUS
    <3>2. IsFiniteSet(1..N) /\ Cardinality(1..N) = IF 1 > N THEN 0 ELSE N - 1 + 1
      BY <3>1, FS_Interval
    <3> QED BY <3>1, <3>2
  <2> QED BY <2>1, FS_Subset
<1>4. Ascending(S) \in Seq(S) /\ Len(Ascending(S)) = Cardinality(S)
  BY <1>2
<1> QED BY <1>2, <1>3, <1>4

-----------------------------------------------------------------------------
(***************************************************************************)
(* A walk along the candidates.                                            *)
(***************************************************************************)

Verdicts == Skips \cup {"failed", "succeeded", "interrupted"}
Meetings == {"late", "cooling", "refused", "ends_route", "ready"}

\* A walk meets no position twice, and a position out of turn only if the model there
\* is one of the set S.
Ordered(cands, S) ==
  \A i, j \in 1..Len(cands) :
    i < j => cands[i] # cands[j] /\ (cands[i] < cands[j] \/ order[cands[i]] \in S)

\* The candidates of every walk are positions of the route.
LEMMA CandidatesFacts ==
  ASSUME order \in Seq(Models), NEW s \in 1..(Len(order) + 1)
  PROVE  /\ Candidates(s) \in Seq(1..Len(order))
         /\ Len(Candidates(s)) = Len(order) - s + 1
         /\ \A n \in 1..(Len(order) - s + 1) : Candidates(s)[n] = s + n - 1
         /\ Ordered(Candidates(s), {})
<1>1. Len(order) \in Nat /\ Len(order) - s + 1 \in Nat /\ s \in Nat
  OBVIOUS
<1>2. \A n \in 1..(Len(order) - s + 1) : s + n - 1 \in 1..Len(order)
  BY <1>1
<1>3. /\ Candidates(s) \in Seq(1..Len(order))
      /\ Len(Candidates(s)) = Len(order) - s + 1
      /\ \A n \in 1..(Len(order) - s + 1) : Candidates(s)[n] = s + n - 1
  BY <1>1, <1>2 DEF Candidates
<1>4. Ordered(Candidates(s), {})
  <2> DEFINE c == Candidates(s)
  <2>1. /\ \A n \in 1..Len(c) : c[n] = s + n - 1
        /\ Len(c) \in Nat
    BY <1>1, <1>3
  <2> HIDE DEF c
  <2>2. \A i, j \in 1..Len(c) : i < j => c[i] # c[j] /\ c[i] < c[j]
    BY <1>1, <2>1
  <2> QED BY <2>2 DEF Ordered, c
<1> QED BY <1>3, <1>4

\* A sequence over a set is one over any larger set.
LEMMA SeqOfMore ==
  ASSUME NEW A, NEW B, A \subseteq B, NEW s \in Seq(A)
  PROVE  s \in Seq(B)
<1>1. Len(s) \in Nat /\ s = [i \in 1..Len(s) |-> s[i]] /\ \A i \in 1..Len(s) : s[i] \in B
  OBVIOUS
<1> QED BY <1>1

\* The siblings, and then the others, are positions of the route.
LEMMA SiblingsFacts ==
  ASSUME order \in Seq(Models), NEW s \in 1..(Len(order) + 1)
  PROVE  SiblingsFirst(s) \in Seq(1..Len(order)) /\ Ordered(SiblingsFirst(s), Siblings)
<1> DEFINE near == {p \in s..Len(order) : order[p] \in Siblings}
           far == (s..Len(order)) \ near
<1>1. Len(order) \in Nat /\ near \in SUBSET (1..Len(order)) /\ far \in SUBSET (1..Len(order))
  OBVIOUS
<1>2. SiblingsFirst(s) = Ascending(near) \o Ascending(far)
  BY DEF SiblingsFirst
<1> HIDE DEF near, far
<1> DEFINE a == Ascending(near)
           b == Ascending(far)
<1>3. /\ a \in Seq(near) /\ b \in Seq(far)
      /\ \A i, j \in 1..Len(a) : i < j => a[i] < a[j]
      /\ \A i, j \in 1..Len(b) : i < j => b[i] < b[j]
  BY <1>1, AscendingFacts
<1>4. a \in Seq(1..Len(order)) /\ b \in Seq(1..Len(order))
  BY <1>1, <1>3, SeqOfMore
<1>5. /\ \A p \in near : order[p] \in Siblings /\ p \notin far
      /\ \A p \in near \cup far : p \in Nat
  BY <1>1 DEF near, far
<1> HIDE DEF a, b
<1>6. Ordered(a \o b, Siblings)
  <2> DEFINE c == a \o b
  <2>1. /\ Len(a) \in Nat /\ Len(b) \in Nat /\ Len(c) = Len(a) + Len(b)
        /\ \A i \in 1..Len(c) : c[i] = IF i <= Len(a) THEN a[i] ELSE b[i - Len(a)]
    BY <1>3
  <2>2. /\ \A i \in 1..Len(a) : a[i] \in near
        /\ \A i \in 1..Len(b) : b[i] \in far
    BY <1>3
  <2> HIDE DEF c
  <2>3. ASSUME NEW i \in 1..Len(c), NEW j \in 1..Len(c), i < j
        PROVE  c[i] # c[j] /\ (c[i] < c[j] \/ order[c[i]] \in Siblings)
    <3>1. CASE i <= Len(a)
      <4>1. c[i] = a[i] /\ a[i] \in near /\ i \in 1..Len(a)
        BY <2>1, <2>2, <3>1
      <4>2. CASE j <= Len(a)
        <5>1. c[j] = a[j] /\ a[j] \in near /\ a[i] < a[j]
          BY <1>3, <2>1, <2>2, <2>3, <4>1, <4>2
        <5> QED BY <1>5, <4>1, <5>1
      <4>3. CASE ~(j <= Len(a))
        <5>1. c[j] = b[j - Len(a)] /\ b[j - Len(a)] \in far
          BY <2>1, <2>2, <4>3
        <5> QED BY <1>5, <4>1, <5>1
      <4> QED BY <4>2, <4>3
    <3>2. CASE ~(i <= Len(a))
      <4>1. c[i] = b[i - Len(a)] /\ c[j] = b[j - Len(a)] /\ i - Len(a) < j - Len(a)
            /\ i - Len(a) \in 1..Len(b) /\ j - Len(a) \in 1..Len(b)
        BY <2>1, <2>3, <3>2
      <4>2. c[i] < c[j] /\ c[i] \in Nat /\ c[j] \in Nat
        BY <1>3, <1>5, <2>2, <4>1
      <4> QED BY <4>2
    <3> QED BY <3>1, <3>2
  <2> QED BY <2>3 DEF Ordered, c
<1> QED BY <1>2, <1>4, <1>6 DEF a, b

\* What any walk leaves in the ledger is a ledger; it makes no model succeed, and the
\* attempt it found is the one that was started last.
LEMMA WalkFacts ==
  ASSUME TypeOK, NEW cands \in Seq(1..Len(order)), NEW book \in Prepared(cands)
  PROVE  /\ book.rows \in [Models -> Verdicts]
         /\ book.current \in 0..Length /\ (current # 0 => book.current # 0)
         /\ book.attempted \subseteq Models /\ book.spent \in BOOLEAN
         /\ book.at \in 0..Len(order)
         /\ book.at # 0 => book.current = order[book.at] /\ book.current # 0
         /\ book.at # 0 => \E j \in 1..Len(cands) : book.at = cands[j]
         /\ (\A m \in Models : rows[m] # "succeeded")
              => \A m \in Models : book.rows[m] # "succeeded"
<1>0. /\ order \in Seq(Models) /\ rows \in [Models -> Verdicts] /\ current \in 0..Length
      /\ attempted \subseteq Models /\ spent \in BOOLEAN /\ Models = 1..Length
      /\ Length \in Nat \ {0} /\ Len(order) \in Nat
      /\ \A p \in 1..Len(order) : order[p] \in Models /\ order[p] \in 0..Length /\ order[p] # 0
  <2>1. Models = 1..Length /\ Length \in Nat \ {0}
    BY RouteAssumption DEF Models
  <2>2. /\ order \in Seq(Models) /\ rows \in [Models -> Verdicts] /\ current \in 0..Length
        /\ attempted \subseteq Models /\ spent \in BOOLEAN
    BY DEF TypeOK, Verdicts
  <2>3. Len(order) \in Nat /\ \A p \in 1..Len(order) : order[p] \in Models
    BY <2>2
  <2> QED BY <2>1, <2>2, <2>3
<1>1. CASE book = NoWalk
  BY <1>0, <1>1 DEF NoWalk
<1>2. ASSUME NEW w \in Walks(cands), book = Walked(cands, w), cands # <<>>
      PROVE  /\ book.rows \in [Models -> Verdicts]
             /\ book.current \in 0..Length /\ (current # 0 => book.current # 0)
             /\ book.attempted \subseteq Models /\ book.spent \in BOOLEAN
             /\ book.at \in 0..Len(order)
             /\ book.at # 0 => book.current = order[book.at] /\ book.current # 0
             /\ book.at # 0 => \E j \in 1..Len(cands) : book.at = cands[j]
             /\ (\A m \in Models : rows[m] # "succeeded")
                  => \A m \in Models : book.rows[m] # "succeeded"
  <2>1. PICK n \in 1..Len(cands) : w \in [1..n -> Meetings]
    BY DEF Walks, Meetings
  <2>2. Len(w) = n /\ DOMAIN w = 1..n /\ n \in 1..n /\ n \in Nat
    BY <2>1
  <2> DEFINE last == cands[n]
             Met(verdicts) == {order[cands[j]] : j \in {k \in 1..n : w[k] \in verdicts}}
             started == {j \in 1..n : w[j] \notin {"late", "cooling"}}
             late == IF w[n] = "late" THEN {order[p] : p \in last..Len(order)} ELSE {}
             told == [m \in Models |-> IF m \in late THEN "late"
                                       ELSE IF m \in Met({"cooling"}) THEN "cooldown"
                                       ELSE IF m \in Met({"refused", "ends_route"}) THEN "failed"
                                       ELSE rows[m]]
  <2>3. /\ book.rows = IF w[n] = "ends_route" THEN RouteEnded(told, order[last]) ELSE told
        /\ book.current = IF started = {} THEN current ELSE order[cands[Max(started)]]
        /\ book.attempted = (attempted \ (late \cup Met({"cooling"})))
                              \cup Met({"refused", "ends_route", "ready"})
        /\ book.spent = (w[n] = "late")
        /\ book.at = IF w[n] = "ready" THEN last ELSE 0
    BY <1>2, <2>2 DEF Walked
  <2>4. \A j \in 1..n : cands[j] \in 1..Len(order)
    <3>1. \A j \in 1..n : j \in 1..Len(cands)
      BY <2>1
    <3>2. \A j \in 1..Len(cands) : cands[j] \in 1..Len(order)
      OBVIOUS
    <3> QED BY <3>1, <3>2
  <2>5. told \in [Models -> Verdicts]
    BY <1>0 DEF Verdicts, Skips
  <2>6. (\A m \in Models : rows[m] # "succeeded") => \A m \in Models : told[m] # "succeeded"
    BY <1>0
  <2>7. started # {} => Max(started) \in started /\ \A x \in started : Max(started) >= x
    <3>1. started \in SUBSET (1..n)
      OBVIOUS
    <3> HIDE DEF started
    <3> QED BY <2>2, <3>1, MaxFacts
  <2>8. w[n] = "ready" => started # {} /\ Max(started) = n
    <3> SUFFICES ASSUME w[n] = "ready" PROVE started # {} /\ Max(started) = n
      OBVIOUS
    <3>1. n \in started /\ started \subseteq 1..n
      BY <2>2
    <3> HIDE DEF started
    <3>2. started # {} /\ Max(started) \in 1..n /\ Max(started) >= n
      BY <2>7, <3>1
    <3> QED BY <2>2, <3>2
  <2>9. book.rows \in [Models -> Verdicts]
    <3> HIDE DEF told
    <3> QED BY <2>3, <2>5 DEF RouteEnded, Verdicts, Skips
  <2>10. (\A m \in Models : rows[m] # "succeeded")
           => \A m \in Models : book.rows[m] # "succeeded"
    <3> HIDE DEF told
    <3> QED BY <2>3, <2>6 DEF RouteEnded
  <2>11. Met({"refused", "ends_route", "ready"}) \subseteq Models
    BY <1>0, <2>4
  <2>12. book.current \in 0..Length /\ (current # 0 => book.current # 0)
    <3>1. CASE started = {}
      BY <1>0, <2>3, <3>1
    <3>2. CASE started # {}
      <4>1. Max(started) \in 1..n
        BY <2>7, <3>2
      <4> HIDE DEF started
      <4> QED BY <1>0, <2>3, <2>4, <3>2, <4>1
    <3> QED BY <3>1, <3>2
  <2>13. book.at \in 0..Len(order)
    BY <1>0, <2>2, <2>3, <2>4
  <2>14. book.at # 0 => book.current = order[book.at] /\ book.current # 0
    <3> HIDE DEF started
    <3> QED BY <1>0, <2>2, <2>3, <2>4, <2>8
  <2>15. book.at # 0 => \E j \in 1..Len(cands) : book.at = cands[j]
    BY <2>1, <2>3
  <2> HIDE DEF Met, told, late, started
  <2> QED BY <1>0, <2>3, <2>9, <2>10, <2>11, <2>12, <2>13, <2>14, <2>15
<1> QED BY <1>1, <1>2 DEF Prepared

\* A walk tells of every model that it tries what became of it, but for the attempt it
\* found and for what is met out of turn, and leaves the others that were tried alone.
LEMMA WalkTells ==
  ASSUME TypeOK, \A p, q \in 1..Len(order) : order[p] = order[q] => p = q,
         NEW S, NEW cands \in Seq(1..Len(order)), Ordered(cands, S),
         NEW book \in Prepared(cands)
  PROVE  \A m \in book.attempted :
           \/ m \in attempted /\ book.rows[m] \in {rows[m], "ended"}
           \/ book.rows[m] \in {"failed", "ended"}
           \/ book.rows[m] = "late" /\ m \in S
           \/ book.at # 0 /\ m = order[book.at]
<1>0. /\ order \in Seq(Models) /\ Len(order) \in Nat
      /\ \A p \in 1..Len(order) : order[p] \in Models
      /\ attempted \subseteq Models
      /\ Len(cands) \in Nat /\ \A j \in 1..Len(cands) : cands[j] \in 1..Len(order)
  BY DEF TypeOK
<1>2. CASE book = NoWalk
  BY <1>2 DEF NoWalk
<1>3. ASSUME NEW w \in Walks(cands), book = Walked(cands, w), cands # <<>>
      PROVE  \A m \in book.attempted :
               \/ m \in attempted /\ book.rows[m] \in {rows[m], "ended"}
               \/ book.rows[m] \in {"failed", "ended"}
               \/ book.rows[m] = "late" /\ m \in S
               \/ book.at # 0 /\ m = order[book.at]
  <2>1. PICK n \in 1..Len(cands) : w \in [1..n -> Meetings]
    BY DEF Walks, Meetings
  <2>2. Len(w) = n /\ DOMAIN w = 1..n /\ n \in 1..n /\ n \in Nat
    BY <2>1
  <2> DEFINE last == cands[n]
             Met(verdicts) == {order[cands[j]] : j \in {k \in 1..n : w[k] \in verdicts}}
             late == IF w[n] = "late" THEN {order[p] : p \in last..Len(order)} ELSE {}
             told == [m \in Models |-> IF m \in late THEN "late"
                                       ELSE IF m \in Met({"cooling"}) THEN "cooldown"
                                       ELSE IF m \in Met({"refused", "ends_route"}) THEN "failed"
                                       ELSE rows[m]]
  <2>3. /\ book.rows = IF w[n] = "ends_route" THEN RouteEnded(told, order[last]) ELSE told
        /\ book.attempted = (attempted \ (late \cup Met({"cooling"})))
                              \cup Met({"refused", "ends_route", "ready"})
        /\ book.at = IF w[n] = "ready" THEN last ELSE 0
    BY <1>3, <2>2 DEF Walked
  <2>4. /\ \A j \in 1..n : cands[j] \in 1..Len(order)
        /\ \A j, k \in 1..n : order[cands[j]] = order[cands[k]] => j = k
    <3>1. \A j \in 1..n : j \in 1..Len(cands) /\ cands[j] \in 1..Len(order)
      BY <1>0, <2>1
    <3>2. ASSUME NEW j \in 1..n, NEW k \in 1..n, order[cands[j]] = order[cands[k]] PROVE j = k
      <4>1. cands[j] = cands[k]
        BY <3>1, <3>2
      <4>2. ~(j < k) /\ ~(k < j)
        BY <3>1, <4>1 DEF Ordered
      <4> QED BY <4>2
    <3> QED BY <3>1, <3>2
  <2>5. \A j \in 1..n : w[j] \in {"late", "ends_route", "ready"} => j = n
    BY <2>2 DEF Walks
  <2>6. ASSUME NEW m \in attempted, m \notin late, m \notin Met({"cooling"})
        PROVE  told[m] \in {rows[m], "failed"} /\ m \in Models
    BY <1>0, <2>6
  <2>7. ASSUME NEW j \in 1..n, w[j] \in {"refused", "ends_route"}
        PROVE  \/ told[order[cands[j]]] = "failed"
               \/ told[order[cands[j]]] = "late" /\ w[n] = "late" /\ order[cands[j]] \in S
    <3>1. order[cands[j]] \in late => w[n] = "late" /\ order[cands[j]] \in S
      <4> SUFFICES ASSUME w[n] = "late", NEW p \in last..Len(order), order[cands[j]] = order[p]
                   PROVE  order[cands[j]] \in S
        OBVIOUS
      <4>1. cands[j] \in 1..Len(order) /\ last \in 1..Len(order)
        BY <2>2, <2>4
      <4>2. p \in 1..Len(order) /\ p = cands[j]
        <5> DEFINE c == cands[j]
        <5>1. c \in 1..Len(order) /\ order[c] = order[p]
          BY <4>1
        <5>2. p \in 1..Len(order)
          <6> HIDE DEF last
          <6> QED BY <1>0, <4>1
        <5> HIDE DEF c
        <5>3. p = c
          BY <5>1, <5>2
        <5> QED BY <5>2, <5>3 DEF c
      <4>3. j # n /\ j < n /\ j \in 1..Len(cands) /\ n \in 1..Len(cands)
        BY <2>1, <2>2, <2>7
      <4>4. ~(cands[j] < last)
        BY <1>0, <4>1, <4>2
      <4> QED BY <4>3, <4>4 DEF Ordered
    <3>2. order[cands[j]] \notin Met({"cooling"})
      BY <2>4, <2>7
    <3>3. order[cands[j]] \in Met({"refused", "ends_route"}) /\ order[cands[j]] \in Models
      BY <1>0, <2>4, <2>7
    <3> QED BY <3>1, <3>2, <3>3
  <2>8. ASSUME NEW m \in Models
        PROVE  /\ book.rows[m] \in {told[m], "ended"}
               /\ w[n] # "ends_route" => book.rows[m] = told[m]
    <3>1. DOMAIN told = Models
      OBVIOUS
    <3> HIDE DEF told
    <3> QED BY <2>3 DEF RouteEnded
  <2>9. ASSUME NEW m \in book.attempted
        PROVE  \/ m \in attempted /\ m \notin late /\ m \notin Met({"cooling"})
               \/ \E j \in 1..n : m = order[cands[j]] /\ w[j] \in {"refused", "ends_route", "ready"}
    BY <2>3
  <2> HIDE DEF told, late, Met
  <2>10. ASSUME NEW m \in book.attempted
         PROVE  \/ m \in attempted /\ book.rows[m] \in {rows[m], "ended"}
                \/ book.rows[m] \in {"failed", "ended"}
                \/ book.rows[m] = "late" /\ m \in S
                \/ book.at # 0 /\ m = order[book.at]
    <3>1. CASE m \in attempted /\ m \notin late /\ m \notin Met({"cooling"})
      BY <2>6, <2>8, <3>1
    <3>2. CASE \E j \in 1..n : m = order[cands[j]] /\ w[j] \in {"refused", "ends_route", "ready"}
      <4>1. PICK j \in 1..n : m = order[cands[j]] /\ w[j] \in {"refused", "ends_route", "ready"}
        BY <3>2
      <4>2. CASE w[j] = "ready"
        BY <1>0, <2>2, <2>3, <2>4, <2>5, <4>1, <4>2
      <4>3. CASE w[j] \in {"refused", "ends_route"}
        <5>1. m \in Models
          BY <1>0, <2>4, <4>1
        <5>2. told[m] = "failed" \/ (told[m] = "late" /\ w[n] = "late" /\ m \in S)
          BY <2>7, <4>1, <4>3
        <5> QED BY <2>8, <5>1, <5>2
      <4> QED BY <4>1, <4>2, <4>3
    <3> QED BY <2>9, <3>1, <3>2
  <2> QED BY <2>10
<1> QED BY <1>2, <1>3 DEF Prepared

\* With what was told before: after a walk that meets at most siblings out of turn, and
\* those only for a limited model that is remembered as probed.
LEMMA WalkTold ==
  ASSUME TypeOK, OnRoute, Told, pc \notin {"seam", "resume"},
         NEW S, NEW cands \in Seq(1..Len(order)), Ordered(cands, S),
         NEW book \in Prepared(cands),
         NEW q, probed # {} => q # {}, \A m \in S : m \in Siblings /\ q # {}
  PROVE  \A m \in book.attempted :
           \/ Tells(book.rows[m], m, q)
           \/ pc \in Deciding /\ m = Model
           \/ book.at # 0 /\ m = order[book.at]
<1> SUFFICES ASSUME NEW m \in book.attempted
             PROVE  \/ Tells(book.rows[m], m, q)
                    \/ pc \in Deciding /\ m = Model
                    \/ book.at # 0 /\ m = order[book.at]
  OBVIOUS
<1>1. \/ m \in attempted /\ book.rows[m] \in {rows[m], "ended"}
      \/ book.rows[m] \in {"failed", "ended"}
      \/ book.rows[m] = "late" /\ m \in S
      \/ book.at # 0 /\ m = order[book.at]
  BY WalkTells DEF OnRoute
<1>2. CASE m \in attempted /\ book.rows[m] \in {rows[m], "ended"}
  <2>1. Tells(rows[m], m, probed) \/ (pc \in Deciding /\ m = Model)
    BY <1>2 DEF Told
  <2> QED BY <1>2, <2>1 DEF Tells
<1>3. CASE book.rows[m] \in {"failed", "ended"}
  BY <1>3 DEF Tells, Skips
<1>4. CASE book.rows[m] = "late" /\ m \in S
  BY <1>4 DEF Tells
<1> QED BY <1>1, <1>2, <1>3, <1>4

-----------------------------------------------------------------------------
(***************************************************************************)
(* Every step keeps the invariant.                                         *)
(***************************************************************************)

\* The models are numbers, and the attempt under way is one of them.
LEMMA ModelFacts ==
  ASSUME TypeOK, OnRoute
  PROVE  /\ order \in Seq(Models) /\ Len(order) \in Nat
         /\ position \in Nat /\ position <= Len(order)
         /\ \A p \in 1..Len(order) : order[p] \in Models /\ order[p] # 0
         /\ Models = 1..Length /\ Length \in Nat /\ 0 \notin Models
         /\ pc \notin Before \cup {"raised"} => Model \in Models /\ current \in Models
         /\ pc \in {"seam", "resume"} =>
              following \in 1..Len(order) /\ position < following /\ order[following] \in Models
<1>1. Models = 1..Length /\ Length \in Nat /\ 0 \notin Models
  BY RouteAssumption DEF Models
<1>2. /\ order \in Seq(Models) /\ Len(order) \in Nat /\ position \in Nat /\ position <= Len(order)
      /\ current \in 0..Length
  BY <1>1 DEF TypeOK, OnRoute
<1>3. \A p \in 1..Len(order) : order[p] \in Models /\ order[p] # 0
  BY <1>1, <1>2
<1>4. pc \notin Before \cup {"raised"} => Model \in Models /\ current \in Models
  BY <1>1, <1>2, <1>3 DEF OnRoute, Model
<1>5. pc \in {"seam", "resume"} =>
        following \in 1..Len(order) /\ position < following /\ order[following] \in Models
  BY <1>2, <1>3 DEF OnRoute
<1> QED BY <1>1, <1>2, <1>3, <1>4, <1>5

\* What nothing but the place in the code changes in.
LEMMA StandsStill ==
  ASSUME UNCHANGED <<order, position, following, attempted, retryVars, surface>>
  PROVE  Model' = Model /\ probed' = probed
BY DEF Model, retryVars

\* What a provider stream emits next is a state of a stream.
LEMMA UpstreamTypes ==
  /\ Fresh \in [phase : {"new", "between", "reason", "stopped"} \cup Kinds,
                 blocks : 0..MaxBlocks, spoke : BOOLEAN]
  /\ TypeOK => \A e \in Emissions :
       e.upstream \in [phase : {"new", "between", "reason", "stopped"} \cup Kinds,
                       blocks : 0..MaxBlocks, spoke : BOOLEAN]
<1> DEFINE Streams == [phase : {"new", "between", "reason", "stopped"} \cup Kinds,
                       blocks : 0..MaxBlocks, spoke : BOOLEAN]
<1>1. Fresh \in Streams
  BY BlocksAssumption DEF Fresh
<1>2. ASSUME TypeOK, NEW e \in Emissions PROVE e.upstream \in Streams
  <2> DEFINE n == upstream.blocks
             MayOpen == \/ n = 0
                        \/ n < MaxBlocks /\ Cardinality(attempted) + NextIndex(shown) <= MaxLong
             Opens == {Step(Open(n, k), k, n + 1, FALSE) : k \in IF MayOpen THEN Kinds ELSE {}}
             Reasons == {Step(Reason("own"), "reason", n, FALSE) : x \in IF n > 0 THEN {1} ELSE {}}
             Deltas == {Step(Delta(n - 1, upstream.phase, Model, w), upstream.phase, n, TRUE) :
                          w \in IF Continuing /\ upstream.phase = "text" THEN {"new", "again"}
                                ELSE {"new"}}
  <2>1. /\ upstream.phase \in {"new", "between", "reason", "stopped"} \cup Kinds
        /\ n \in 0..MaxBlocks /\ MaxBlocks \in Nat \ {0}
    BY <1>2, BlocksAssumption DEF TypeOK
  <2>2. \A f, p, b, s : Step(f, p, b, s).upstream = [phase |-> p, blocks |-> b, spoke |-> s]
    BY DEF Step
  <2>3. MayOpen => n + 1 \in 0..MaxBlocks
    BY <2>1
  <2>4. \/ upstream.phase \in Kinds /\ e \in Deltas \cup {Step(Close(n - 1), "between", n, FALSE)}
        \/ e \in Opens \cup Reasons
        \/ e \in {Step(Start, "between", n, FALSE), Step(Stop, "stopped", n, FALSE)}
    BY <1>2, <2>1 DEF Emissions, Kinds
  <2>5. \/ e \in Opens
        \/ e \in Reasons
        \/ upstream.phase \in Kinds /\ e \in Deltas
        \/ e = Step(Close(n - 1), "between", n, FALSE)
        \/ e = Step(Start, "between", n, FALSE)
        \/ e = Step(Stop, "stopped", n, FALSE)
    BY <2>4
  <2>r. \A p \in {"new", "between", "reason", "stopped"} \cup Kinds, b \in 0..MaxBlocks, x \in BOOLEAN :
          [phase |-> p, blocks |-> b, spoke |-> x] \in Streams
    OBVIOUS
  <2>6. CASE e \in Opens
    <3>1. PICK k \in Kinds : e = Step(Open(n, k), k, n + 1, FALSE) /\ MayOpen
      BY <2>6
    <3>2. e.upstream = [phase |-> k, blocks |-> n + 1, spoke |-> FALSE]
      BY <3>1 DEF Step
    <3> HIDE DEF MayOpen, Streams
    <3> QED BY <2>r, <2>3, <3>1, <3>2
  <2>7. CASE e \in Reasons
    <3>0. e = Step(Reason("own"), "reason", n, FALSE)
      BY <2>7
    <3>1. e.upstream = [phase |-> "reason", blocks |-> n, spoke |-> FALSE]
      BY <3>0 DEF Step
    <3> HIDE DEF Streams
    <3> QED BY <2>r, <2>1, <3>1
  <2>8. CASE upstream.phase \in Kinds /\ e \in Deltas
    <3>0. \E w : e = Step(Delta(n - 1, upstream.phase, Model, w), upstream.phase, n, TRUE)
      BY <2>8
    <3>1. e.upstream = [phase |-> upstream.phase, blocks |-> n, spoke |-> TRUE]
      BY <3>0 DEF Step
    <3> HIDE DEF Streams
    <3> QED BY <2>r, <2>1, <2>8, <3>1
  <2>9. CASE e = Step(Close(n - 1), "between", n, FALSE)
    <3>1. e.upstream = [phase |-> "between", blocks |-> n, spoke |-> FALSE]
      BY <2>9 DEF Step
    <3> HIDE DEF Streams
    <3> QED BY <2>r, <2>1, <3>1
  <2>10. CASE e = Step(Start, "between", n, FALSE)
    <3>1. e.upstream = [phase |-> "between", blocks |-> n, spoke |-> FALSE]
      BY <2>10 DEF Step
    <3> HIDE DEF Streams
    <3> QED BY <2>r, <2>1, <3>1
  <2>11. CASE e = Step(Stop, "stopped", n, FALSE)
    <3>1. e.upstream = [phase |-> "stopped", blocks |-> n, spoke |-> FALSE]
      BY <2>11 DEF Step
    <3> HIDE DEF Streams
    <3> QED BY <2>r, <2>1, <3>1
  <2> QED BY <2>5, <2>6, <2>7, <2>8, <2>9, <2>10, <2>11
<1> QED BY <1>1, <1>2

\* The client asks for the stream.
LEMMA FirstPullKeeps ==
  ASSUME Inductive, FirstPull PROVE Inductive'
<1>0. TypeOK /\ OnRoute /\ Accounts /\ Told
  BY DEF Inductive
<1>1. TypeOK'
  BY <1>0 DEF FirstPull, TypeOK, ledgerVars, attemptVars, retryVars, Ends
<1>2. OnRoute'
  BY <1>0, ModelFacts, StandsStill DEF FirstPull, OnRoute, ledgerVars, attemptVars, retryVars,
      Before
<1>3. Accounts'
  BY <1>0, ModelFacts, StandsStill DEF FirstPull, Accounts, ledgerVars, attemptVars,
      retryVars, Undecided, Over, Ends, Committed
<1>4. Told'
  BY <1>0, ModelFacts, StandsStill DEF FirstPull, Told, ledgerVars, attemptVars, retryVars,
      Deciding, Over, Ends
<1> QED BY <1>1, <1>2, <1>3, <1>4 DEF Inductive

\* Or never does.
LEMMA NeverPulledKeeps ==
  ASSUME Inductive, NeverPulled PROVE Inductive'
<1>0. TypeOK /\ OnRoute /\ Accounts /\ Told
  BY DEF Inductive
<1>1. TypeOK'
  BY <1>0 DEF NeverPulled, TypeOK, ledgerVars, attemptVars, retryVars, Ends
<1>2. OnRoute'
  BY <1>0, ModelFacts, StandsStill DEF NeverPulled, OnRoute, ledgerVars, attemptVars,
      retryVars, Before
<1>3. Accounts'
  BY <1>0, ModelFacts, StandsStill DEF NeverPulled, Accounts, ledgerVars, attemptVars,
      retryVars, Undecided, Over, Ends, Committed
<1>4. Told'
  BY <1>0, ModelFacts, StandsStill DEF NeverPulled, Told, ledgerVars, attemptVars, retryVars,
      Deciding, Over, Ends
<1> QED BY <1>1, <1>2, <1>3, <1>4 DEF Inductive

\* A stream ends.
LEMMA StreamEndsKeeps ==
  ASSUME Inductive, StreamEnds PROVE Inductive'
<1>0. TypeOK /\ OnRoute /\ Accounts /\ Told
  BY DEF Inductive
<1>f. pc = "read" => fault = "none"
  BY <1>0 DEF OnRoute
<1>1. TypeOK'
  BY <1>0, <1>f, UpstreamTypes DEF StreamEnds, TypeOK, ledgerVars, attemptVars, retryVars, Ends
<1>2. OnRoute'
  BY <1>0, ModelFacts, StandsStill, <1>f DEF StreamEnds, OnRoute, ledgerVars, attemptVars,
      retryVars, Before
<1>3. Accounts'
  BY <1>0, ModelFacts, StandsStill, <1>f DEF StreamEnds, Accounts, ledgerVars, attemptVars,
      retryVars, Undecided, Over, Ends, Committed
<1>4. Told'
  BY <1>0, ModelFacts, StandsStill, <1>f DEF StreamEnds, Told, ledgerVars, attemptVars,
      retryVars, Deciding, Over, Ends
<1> QED BY <1>1, <1>2, <1>3, <1>4 DEF Inductive

\* A chunk arrives.
LEMMA ChunkKeeps ==
  ASSUME Inductive, Chunk PROVE Inductive'
<1>0. TypeOK /\ OnRoute /\ Accounts /\ Told
  BY DEF Inductive
<1>1. TypeOK'
  BY <1>0, UpstreamTypes DEF Chunk, TypeOK, ledgerVars, attemptVars, retryVars, Ends
<1>2. OnRoute'
  BY <1>0, ModelFacts, StandsStill DEF Chunk, OnRoute, ledgerVars, attemptVars, retryVars,
      Before
<1>3. Accounts'
  BY <1>0, ModelFacts, StandsStill DEF Chunk, Accounts, ledgerVars, attemptVars, retryVars,
      Undecided, Over, Ends, Committed
<1>4. Told'
  BY <1>0, ModelFacts, StandsStill DEF Chunk, Told, ledgerVars, attemptVars, retryVars,
      Deciding, Over, Ends
<1> QED BY <1>1, <1>2, <1>3, <1>4 DEF Inductive

\* A stream fails.
LEMMA StreamFailsKeeps ==
  ASSUME Inductive, NEW f \in Faults, StreamFails(f) PROVE Inductive'
<1>0. TypeOK /\ OnRoute /\ Accounts /\ Told
  BY DEF Inductive
<1>f. Model \in Models /\ owed \in [Models -> 0..1] /\ (\A m \in Models : owed[m] = 0)
  BY <1>0, ModelFacts DEF StreamFails, TypeOK, Accounts, Undecided, Before
<1>1. TypeOK'
  BY <1>0, <1>f, UpstreamTypes DEF StreamFails, Faults, TypeOK, ledgerVars, attemptVars,
      retryVars, Ends
<1>2. OnRoute'
  BY <1>0, ModelFacts, StandsStill, <1>f DEF StreamFails, Faults, OnRoute, ledgerVars,
      attemptVars, retryVars, Before
<1>3. Accounts'
  BY <1>0, ModelFacts, StandsStill, <1>f DEF StreamFails, Faults, Accounts, ledgerVars,
      attemptVars, retryVars, Undecided, Over, Ends, Committed
<1>4. Told'
  BY <1>0, ModelFacts, StandsStill, <1>f DEF StreamFails, Faults, Told, ledgerVars,
      attemptVars, retryVars, Deciding, Over, Ends
<1> QED BY <1>1, <1>2, <1>3, <1>4 DEF Inductive

\* What was held back is sent.
LEMMA FinishKeeps ==
  ASSUME Inductive, Finish PROVE Inductive'
<1>0. TypeOK /\ OnRoute /\ Accounts /\ Told
  BY DEF Inductive
<1>1. TypeOK'
  BY <1>0 DEF Finish, TypeOK, ledgerVars, attemptVars, retryVars, Ends
<1>2. OnRoute'
  BY <1>0, ModelFacts, StandsStill DEF Finish, OnRoute, ledgerVars, attemptVars, retryVars,
      Before
<1>3. Accounts'
  BY <1>0, ModelFacts, StandsStill DEF Finish, Accounts, ledgerVars, attemptVars, retryVars,
      Undecided, Over, Ends, Committed
<1>4. Told'
  BY <1>0, ModelFacts, StandsStill DEF Finish, Told, ledgerVars, attemptVars, retryVars,
      Deciding, Over, Ends
<1> QED BY <1>1, <1>2, <1>3, <1>4 DEF Inductive

\* It was: the model under way succeeded.
LEMMA FinishSentKeeps ==
  ASSUME Inductive, FinishSent PROVE Inductive'
<1>0. TypeOK /\ OnRoute /\ Accounts /\ Told
  BY DEF Inductive
<1>f. /\ pc \in {"finishing", "finished"} /\ pc' = "done" /\ published' = TRUE /\ owed' = owed
      /\ attempted' = attempted /\ Model \in Models /\ Model' = Model /\ probed' = probed
      /\ \A m \in Models : rows'[m] = IF m = Model THEN "succeeded" ELSE rows[m]
      /\ attempted \subseteq Models
  BY <1>0, ModelFacts, StandsStill DEF FinishSent, TypeOK, Before, ledgerVars, attemptVars,
      retryVars
<1>1. TypeOK'
  BY <1>0 DEF FinishSent, TypeOK, ledgerVars, attemptVars, retryVars, Ends
<1>2. OnRoute'
  BY <1>0, ModelFacts, StandsStill DEF FinishSent, OnRoute, ledgerVars, attemptVars,
      retryVars, Before
<1>3. Accounts'
  BY <1>0, <1>f DEF Accounts, Undecided, Over, Ends, Committed
<1>4. Told'
  BY <1>0, <1>f DEF Told, Tells, Deciding, Skips
<1> QED BY <1>1, <1>2, <1>3, <1>4 DEF Inductive

\* The ending was sent: the failure is recorded and charged.
LEMMA CutSentKeeps ==
  ASSUME Inductive, CutSent PROVE Inductive'
<1>0. TypeOK /\ OnRoute /\ Accounts /\ Told
  BY DEF Inductive
<1>f. /\ pc = "cutting" /\ pc' = "truncated" /\ published' = TRUE /\ attempted' = attempted
      /\ Model \in Models /\ Model' = Model /\ probed' = probed /\ attempted \subseteq Models
  BY <1>0, ModelFacts, StandsStill DEF CutSent, TypeOK, Before, attemptVars, retryVars
<1>g. owed' \in [Models -> 0..1] /\ \A m \in Models : owed'[m] = 0
  BY <1>0, <1>f DEF CutSent, Charge, TypeOK, Accounts, Undecided
<1>r. /\ rows' \in [Models -> Verdicts]
      /\ \A m \in Models : rows'[m] \in (IF m = Model THEN {} ELSE {rows[m]}) \cup {"failed", "ended"}
  BY <1>0, <1>f DEF CutSent, RouteEnded, TypeOK, Verdicts, Skips
<1>1. TypeOK'
  BY <1>0, <1>g, <1>r DEF CutSent, TypeOK, ledgerVars, attemptVars, retryVars, Ends, Verdicts,
      Skips
<1>2. OnRoute'
  BY <1>0, ModelFacts, StandsStill DEF CutSent, OnRoute, ledgerVars, attemptVars, retryVars,
      Before
<1>3. Accounts'
  BY <1>0, <1>f, <1>g, <1>r DEF Accounts, Undecided, Over, Ends, Committed
<1>4. Told'
  BY <1>0, <1>f, <1>r DEF Told, Tells, Deciding, Skips
<1> QED BY <1>1, <1>2, <1>3, <1>4 DEF Inductive

\* A failure the client does not know of is recorded and charged.
LEMMA UncommittedFailureKeeps ==
  ASSUME Inductive, UncommittedFailure PROVE Inductive'
<1>0. TypeOK /\ OnRoute /\ Accounts /\ Told
  BY DEF Inductive
<1>f. /\ pc = "closing" /\ fault # "none" /\ pc' \in {"raised", "retry", "route"}
      /\ pc' = "raised" => published'
      /\ published' \in BOOLEAN /\ attempted' = attempted /\ position' = position /\ Model \in Models
      /\ Model' = Model /\ probed' = probed /\ attempted \subseteq Models
  BY <1>0, ModelFacts, StandsStill
     DEF UncommittedFailure, Raise, TypeOK, Before, attemptVars, retryVars
<1>g. owed' \in [Models -> 0..1] /\ \A m \in Models : owed'[m] = 0
  BY <1>0, <1>f DEF UncommittedFailure, Charge, TypeOK, Accounts, Undecided
<1>r. /\ rows' \in [Models -> Verdicts]
      /\ \A m \in Models : rows'[m] \in (IF m = Model THEN {} ELSE {rows[m]}) \cup {"failed", "ended"}
  BY <1>0, <1>f DEF UncommittedFailure, Raise, RouteEnded, TypeOK, Verdicts, Skips
<1>1. TypeOK'
  BY <1>0, <1>f, <1>g, <1>r DEF UncommittedFailure, TypeOK, ledgerVars, attemptVars,
      retryVars, Ends, Verdicts, Skips
<1>2. OnRoute'
  BY <1>0, ModelFacts, StandsStill, <1>f DEF UncommittedFailure, OnRoute, ledgerVars,
      attemptVars, retryVars, Before
<1>3. Accounts'
  BY <1>0, <1>f, <1>g, <1>r DEF Accounts, Undecided, Over, Ends, Committed
<1>4. Told'
  BY <1>0, <1>f, <1>r DEF Told, Tells, Deciding, Skips
<1> QED BY <1>1, <1>2, <1>3, <1>4 DEF Inductive

\* The credential answers.
LEMMA ProbeAnsweredKeeps ==
  ASSUME Inductive, ProbeAnswered PROVE Inductive'
<1>0. TypeOK /\ OnRoute /\ Accounts /\ Told
  BY DEF Inductive
<1>1. TypeOK'
  BY <1>0 DEF ProbeAnswered, TypeOK, ledgerVars, attemptVars, retryVars, Ends
<1>2. OnRoute'
  BY <1>0, ModelFacts, StandsStill DEF ProbeAnswered, OnRoute, ledgerVars, attemptVars,
      retryVars, Before
<1>3. Accounts'
  BY <1>0, ModelFacts, StandsStill DEF ProbeAnswered, Accounts, ledgerVars, attemptVars,
      retryVars, Undecided, Over, Ends, Committed
<1>4. Told'
  BY <1>0, ModelFacts, StandsStill DEF ProbeAnswered, Told, ledgerVars, attemptVars,
      retryVars, Deciding, Over, Ends
<1> QED BY <1>1, <1>2, <1>3, <1>4 DEF Inductive

\* The credential is asked.
LEMMA ProbeKeeps ==
  ASSUME Inductive, Probe PROVE Inductive'
<1>0. TypeOK /\ OnRoute /\ Accounts /\ Told
  BY DEF Inductive
<1>f. /\ pc = "route" /\ pc' \in {"probe", "fall"} /\ position \in 1..Length /\ Model' = Model
      /\ probed' = probed \cup {position} /\ probed' # {}
  BY <1>0, ModelFacts DEF Probe, OnRoute, Before, Model, attemptVars
<1>1. TypeOK'
  BY <1>0, <1>f DEF Probe, TypeOK, ledgerVars, attemptVars, retryVars, Ends
<1>2. OnRoute'
  BY <1>0, <1>f DEF Probe, OnRoute, ledgerVars, attemptVars, retryVars, Before
<1>3. Accounts'
  BY <1>0, <1>f DEF Probe, Accounts, ledgerVars, attemptVars, retryVars, Undecided, Over, Ends,
      Committed
<1>4. Told'
  <2>1. \A m \in attempted : Tells(rows[m], m, probed) => Tells(rows[m], m, probed')
    BY <1>f DEF Tells
  <2>2. rows' = rows /\ attempted' = attempted
    BY DEF Probe, ledgerVars
  <2> QED BY <1>0, <1>f, <2>1, <2>2 DEF Told, Deciding
<1> QED BY <1>1, <1>2, <1>3, <1>4 DEF Inductive

\* The client leaves.
LEMMA ClientLeavesKeeps ==
  ASSUME Inductive, ClientLeaves PROVE Inductive'
<1>0. TypeOK /\ OnRoute /\ Accounts /\ Told
  BY DEF Inductive
<1>f. /\ pc \in {"read", "closing", "probe", "seam", "cutting", "finishing"} /\ pc' = "left"
      /\ published' = TRUE /\ attempted' = attempted /\ owed' = owed /\ current' = current
      /\ current \in Models /\ Model' = Model /\ probed' = probed /\ attempted \subseteq Models
      /\ \A m \in Models : rows'[m] = IF m = current THEN "interrupted" ELSE rows[m]
  BY <1>0, ModelFacts, StandsStill DEF ClientLeaves, TypeOK, Before, attemptVars, retryVars
<1>g. pc = "seam" => current = order[following]
  BY <1>0 DEF OnRoute
<1>1. TypeOK'
  BY <1>0, <1>f, UpstreamTypes DEF ClientLeaves, TypeOK, ledgerVars, attemptVars, retryVars,
      Ends
<1>2. OnRoute'
  BY <1>0, ModelFacts, StandsStill, <1>f DEF ClientLeaves, OnRoute, ledgerVars, attemptVars,
      retryVars, Before
<1>3. Accounts'
  BY <1>0, <1>f DEF Accounts, Undecided, Over, Ends, Committed
<1>4. Told'
  BY <1>0, <1>f, <1>g DEF Told, Tells, Deciding, Skips
<1> QED BY <1>1, <1>2, <1>3, <1>4 DEF Inductive


\* The models worth attempting are fixed: a position for each of them.
LEMMA PlanKeeps ==
  ASSUME Inductive, Plan PROVE Inductive'
<1>0. TypeOK /\ OnRoute /\ Accounts /\ Told
  BY DEF Inductive
<1>1. PICK usable \in SUBSET Models :
        /\ order' = Ascending(usable)
        /\ rows' \in [Models -> {"never", "paused", "ejected"}]
        /\ pc' \in {"raised", "prepare"}
        /\ IF pc' = "raised" THEN published' = TRUE ELSE published' = published
  BY DEF Plan, Usable, Raise
<1>2. Models = 1..Length /\ Length \in Nat
  BY RouteAssumption DEF Models
<1>3. /\ order' \in Seq(Models) /\ Len(order') \in 0..Length
      /\ \A i, j \in 1..Len(order') : order'[i] = order'[j] => i = j
  BY <1>1, <1>2, AscendingFacts, SeqOfMore
<1>4. /\ pc = "new" /\ position' = 0 /\ attempted' = {} /\ current' = current /\ owed' = owed
      /\ UNCHANGED <<surface, upstream, fault, following, attempted, retried, probed, tries, spent>>
      /\ \A m \in Models : owed[m] \in 0..1 /\ ~(owed[m] > 0)
  BY <1>0 DEF Plan, OnRoute, Accounts, Undecided, TypeOK, Before, attemptVars, retryVars
<1>v. rows' \in [Models -> Skips \cup {"failed", "succeeded", "interrupted"}] /\ published' \in BOOLEAN
  BY <1>0, <1>1 DEF TypeOK, Skips
<1>w. order' \in Seq(Models) /\ pc' \in {"raised", "prepare"} /\ attempted' \subseteq Models
  BY <1>1, <1>3, <1>4
<1>5. TypeOK'
  BY <1>0, <1>2, <1>4, <1>v, <1>w DEF TypeOK, Ends
<1>6. OnRoute'
  BY <1>0, <1>1, <1>2, <1>3, <1>4 DEF OnRoute, Before
<1>7. Accounts'
  BY <1>1, <1>4 DEF Accounts, Undecided, Over, Ends
<1>8. Told'
  BY <1>1, <1>4 DEF Told
<1> QED BY <1>5, <1>6, <1>7, <1>8 DEF Inductive

\* The first model of the route that can be asked is found.
LEMMA PreflightKeeps ==
  ASSUME Inductive, Preflight PROVE Inductive'
<1>0. TypeOK /\ OnRoute /\ Accounts /\ Told
  BY DEF Inductive
<1>1. PICK book \in Prepared(Candidates(1)) :
        /\ rows' = book.rows /\ current' = book.current /\ attempted' = book.attempted
        /\ spent' = book.spent /\ position' = book.at
        /\ IF book.at = 0 THEN pc' = "raised" /\ published' = TRUE
           ELSE pc' = "made" /\ published' = published
  BY DEF Preflight, Enter, Raise
<1>2. /\ pc = "prepare" /\ position = 0 /\ attempted = {}
      /\ UNCHANGED <<surface, order, upstream, fault, following, owed, retried, probed, tries>>
      /\ \A m \in Models : owed[m] \in 0..1 /\ ~(owed[m] > 0) /\ rows[m] # "succeeded"
  BY <1>0 DEF Preflight, OnRoute, Accounts, Undecided, TypeOK, Before, retryVars
<1>3. /\ order \in Seq(Models) /\ Len(order) \in Nat /\ 1 \in 1..(Len(order) + 1)
      /\ Candidates(1) \in Seq(1..Len(order)) /\ Ordered(Candidates(1), {})
      /\ Len(order) <= Length /\ Length \in Nat
  BY <1>0, <1>2, ModelFacts, CandidatesFacts DEF OnRoute
<1>4. /\ book.rows \in [Models -> Verdicts]
      /\ book.current \in 0..Length /\ book.attempted \subseteq Models /\ book.spent \in BOOLEAN
      /\ book.at \in 0..Len(order)
      /\ book.at # 0 => book.current = order[book.at] /\ book.current # 0
      /\ \A m \in Models : book.rows[m] # "succeeded"
  BY <1>0, <1>2, <1>3, WalkFacts
<1>5. \A m \in book.attempted :
        Tells(book.rows[m], m, probed) \/ (book.at # 0 /\ m = order[book.at])
  <2>1. pc \notin Deciding \cup {"seam", "resume"}
    BY <1>2 DEF Deciding
  <2> QED BY <1>0, <1>3, <2>1, WalkTold
<1>6. Model' = order[book.at]
  BY <1>1, <1>2 DEF Model
<1>v. /\ rows' \in [Models -> Skips \cup {"failed", "succeeded", "interrupted"}]
      /\ published' \in BOOLEAN
  BY <1>0, <1>1, <1>4 DEF TypeOK, Verdicts
<1>w. position' \in 0..Length /\ position' <= Len(order)
  BY <1>1, <1>3, <1>4
<1>7. TypeOK'
  BY <1>0, <1>1, <1>2, <1>4, <1>v, <1>w DEF TypeOK, Ends
<1>8. OnRoute'
  BY <1>0, <1>1, <1>2, <1>4, <1>w DEF OnRoute, Before
<1>9. Accounts'
  BY <1>1, <1>2, <1>4 DEF Accounts, Undecided, Over, Ends
<1>10. Told'
  <2>1. pc' = "made" => pc' \in Deciding
    BY DEF Deciding
  <2> QED BY <1>1, <1>2, <1>5, <1>6, <2>1 DEF Told
<1> QED BY <1>7, <1>8, <1>9, <1>10 DEF Inductive

\* The next model is found, or the message is cut short or the error passed on.
LEMMA CommittedFailureKeeps ==
  ASSUME Inductive, CommittedFailure PROVE Inductive'
<1>0. TypeOK /\ OnRoute /\ Accounts /\ Told
  BY DEF Inductive
<1>1. PICK book \in IF Resumable THEN Prepared(Candidates(position + 1)) ELSE {NoWalk} :
        IF book.at # 0
        THEN /\ pc' \in {"resume", "seam"} /\ following' = book.at
             /\ Enter(book) /\ published' = published
        ELSE CutShort(book) /\ following' = following
  <2>1. pc' = (IF CloseFrames(shown) = <<>> THEN "resume" ELSE "seam")
          => pc' \in {"resume", "seam"}
    OBVIOUS
  <2> QED BY <2>1 DEF CommittedFailure
<1>2. /\ pc = "closing" /\ fault # "none" /\ Committed
      /\ UNCHANGED <<surface, order, position, upstream, fault, owed, retried, probed, tries>>
  BY DEF CommittedFailure, attemptVars, retryVars
<1>3. /\ Model' = Model
      /\ Model \in Models /\ position \in Nat /\ Len(order) \in Nat /\ current # 0
      /\ Len(order) <= Length /\ Length \in Nat /\ owed[Model] = 1 /\ position # 0
      /\ \A m \in Models : owed[m] > 0 => m = Model
      /\ \A m \in Models : rows[m] # "succeeded"
  <2>1. Model' = Model
    BY <1>2 DEF Model
  <2>2. \A m \in Models : owed[m] > 0 => m = Model
    BY <1>0 DEF Accounts
  <2> QED BY <1>0, <1>2, <2>1, <2>2, ModelFacts DEF OnRoute, Before, Accounts, Undecided
<1>4. /\ book.rows \in [Models -> Verdicts]
      /\ book.current \in 0..Length /\ book.current # 0
      /\ book.attempted \subseteq Models /\ book.spent \in BOOLEAN
      /\ book.at \in 0..Len(order)
      /\ book.at # 0 => book.current = order[book.at]
      /\ \A m \in Models : book.rows[m] # "succeeded"
  <2>1. /\ <<>> \in Seq(1..Len(order)) /\ NoWalk \in Prepared(<<>>)
        /\ Candidates(position + 1) \in Seq(1..Len(order))
    BY <1>0, <1>3, ModelFacts, CandidatesFacts DEF Prepared
  <2>2. CASE book \in Prepared(Candidates(position + 1))
    BY <1>0, <1>3, <2>1, <2>2, WalkFacts
  <2>3. CASE book = NoWalk
    BY <1>0, <1>3, <2>1, <2>3, WalkFacts
  <2> QED BY <2>2, <2>3
<1>5. \A m \in book.attempted :
        Tells(book.rows[m], m, probed) \/ m = Model \/ (book.at # 0 /\ m = order[book.at])
  <2>1. pc \notin {"seam", "resume"}
    BY <1>2
  <2>2. CASE book \in Prepared(Candidates(position + 1))
    <3>1. position + 1 \in 1..(Len(order) + 1) /\ order \in Seq(Models)
      BY <1>0, <1>3, ModelFacts
    <3>2. /\ Candidates(position + 1) \in Seq(1..Len(order))
          /\ Ordered(Candidates(position + 1), {})
      BY <3>1, CandidatesFacts
    <3> QED BY <1>0, <2>1, <2>2, <3>2, WalkTold
  <2>3. CASE book = NoWalk
    BY <1>0, <2>1, <2>3 DEF NoWalk, Told
  <2> QED BY <2>2, <2>3
<1>6. book.at # 0 => book.at > position
  <2>1. CASE book \in Prepared(Candidates(position + 1))
    <3>1. order \in Seq(Models) /\ position + 1 \in 1..(Len(order) + 1)
      BY <1>0, <1>3, ModelFacts
    <3>2. /\ Candidates(position + 1) \in Seq(1..Len(order))
          /\ Len(Candidates(position + 1)) = Len(order) - (position + 1) + 1
          /\ \A n \in 1..(Len(order) - (position + 1) + 1) :
               Candidates(position + 1)[n] = (position + 1) + n - 1
      BY <3>1, CandidatesFacts
    <3>3. book.at # 0 =>
            \E j \in 1..Len(Candidates(position + 1)) : book.at = Candidates(position + 1)[j]
      BY <1>0, <2>1, <3>2, WalkFacts
    <3> DEFINE c == Candidates(position + 1)
    <3>4. \A j \in 1..Len(c) : c[j] = (position + 1) + j - 1
      BY <3>2
    <3>5. Len(c) \in Nat
      BY <3>2
    <3> HIDE DEF c
    <3>6. \A j \in 1..Len(c) : c[j] > position
      BY <1>3, <3>4, <3>5
    <3>7. book.at # 0 => \E j \in 1..Len(c) : book.at = c[j]
      BY <3>3 DEF c
    <3> QED BY <3>6, <3>7
  <2>2. CASE book = NoWalk
    BY <2>2 DEF NoWalk
  <2> QED BY <2>1, <2>2
<1>7. CASE book.at # 0
  <2>1. /\ pc' \in {"resume", "seam"} /\ following' = book.at /\ published' = published
        /\ rows' = book.rows /\ current' = book.current /\ attempted' = book.attempted
        /\ spent' = book.spent
    BY <1>1, <1>7 DEF Enter
  <2>2. TypeOK'
    BY <1>0, <1>2, <1>3, <1>4, <2>1 DEF TypeOK, Verdicts
  <2>3. OnRoute'
    BY <1>0, <1>2, <1>3, <1>4, <1>6, <1>7, <2>1 DEF OnRoute, Before
  <2>4. Accounts'
    BY <1>2, <1>3, <1>4, <2>1 DEF Accounts, Undecided, Over, Ends
  <2>5. Told'
    BY <1>2, <1>3, <1>5, <1>7, <2>1 DEF Told, Deciding
  <2> QED BY <2>2, <2>3, <2>4, <2>5 DEF Inductive
<1>8. CASE book.at = 0
  <2>0. CutShort(book) /\ following' = following
    BY <1>1, <1>8
  <2>1. CASE pc' = "cutting" /\ Enter(book) /\ published' = published
    <3>1. /\ rows' = book.rows /\ current' = book.current /\ attempted' = book.attempted
          /\ spent' = book.spent
      BY <2>1 DEF Enter
    <3>2. TypeOK'
      BY <1>0, <1>2, <1>3, <1>4, <2>0, <2>1, <3>1 DEF TypeOK, Verdicts
    <3>3. OnRoute'
      BY <1>0, <1>2, <1>3, <1>4, <2>0, <2>1, <3>1 DEF OnRoute, Before
    <3>4. Accounts'
      BY <1>2, <1>3, <1>4, <2>1, <3>1 DEF Accounts, Undecided, Over, Ends
    <3>5. Told'
      BY <1>2, <1>3, <1>5, <1>8, <2>1, <3>1 DEF Told, Deciding
    <3> QED BY <3>2, <3>3, <3>4, <3>5 DEF Inductive
  <2>2. CASE /\ rows' = RouteEnded([book.rows EXCEPT ![Model] = "failed"], Model)
             /\ current' = book.current /\ attempted' = book.attempted /\ spent' = book.spent
             /\ Raise /\ UNCHANGED shown
    <3>1. pc' = "raised" /\ published' = TRUE
      BY <2>2 DEF Raise
    <3>2. /\ rows' \in [Models -> Skips \cup {"failed", "succeeded", "interrupted"}]
          /\ \A m \in Models : /\ rows'[m] # "succeeded"
                               /\ rows'[m] \in {book.rows[m], "failed", "ended"}
                               /\ m = Model => rows'[m] \in {"failed", "ended"}
      BY <1>3, <1>4, <2>2 DEF RouteEnded, Verdicts, Skips
    <3>3. Committed'
      BY <1>2, <2>2 DEF Committed
    <3>4. TypeOK'
      BY <1>0, <1>2, <1>3, <1>4, <2>0, <2>2, <3>1, <3>2 DEF TypeOK, Ends
    <3>5. OnRoute'
      BY <1>0, <1>2, <1>3, <1>4, <2>0, <2>2, <3>1 DEF OnRoute, Before
    <3>6. Accounts'
      BY <1>2, <1>3, <3>1, <3>2, <3>3 DEF Accounts, Undecided, Over, Ends
    <3>7. Told'
      <4>1. ASSUME NEW m \in book.attempted PROVE Tells(rows'[m], m, probed)
        <5>1. m \in Models
          BY <1>4
        <5>2. Tells(book.rows[m], m, probed) \/ m = Model
          BY <1>5, <1>8
        <5> QED BY <3>2, <5>1, <5>2 DEF Tells, Skips
      <4> QED BY <1>2, <2>2, <4>1 DEF Told
    <3> QED BY <3>4, <3>5, <3>6, <3>7 DEF Inductive
  <2> QED BY <2>0, <2>1, <2>2 DEF CutShort
<1> QED BY <1>4, <1>7, <1>8

\* The turn of the model that continues the message begins.
LEMMA SeamSentKeeps ==
  ASSUME Inductive, SeamSent PROVE Inductive'
<1>0. TypeOK /\ OnRoute /\ Accounts /\ Told
  BY DEF Inductive
<1>1. /\ pc \in {"seam", "resume"} /\ pc' = "read" /\ position' = following /\ following' = 0
      /\ upstream' = Fresh /\ fault' = "none" /\ rows' = [rows EXCEPT ![Model] = "failed"]
      /\ owed' = [owed EXCEPT ![Model] = @ - 1]
      /\ UNCHANGED <<surface, order, current, published, attempted, retried, probed, tries, spent>>
  BY DEF SeamSent, Resume, Charge, Begin, retryVars
<1>2. /\ following \in 1..Len(order) /\ Len(order) \in Nat /\ Len(order) <= Length /\ Length \in Nat
      /\ Model \in Models /\ current # 0 /\ Models = 1..Length
  BY <1>0, <1>1, ModelFacts DEF OnRoute, Before
<1>3. Model' = order[following] /\ probed' = probed
  BY <1>1 DEF Model
<1>4. owed' \in [Models -> 0..1] /\ \A m \in Models : owed'[m] = 0
  BY <1>0, <1>1, <1>2 DEF TypeOK, Accounts, Undecided
<1>5. /\ rows' \in [Models -> Skips \cup {"failed", "succeeded", "interrupted"}]
      /\ \A m \in Models : /\ rows'[m] = IF m = Model THEN "failed" ELSE rows[m]
                           /\ rows'[m] # "succeeded"
  <2>1. \A m \in Models : rows[m] # "succeeded"
    BY <1>0, <1>1 DEF Accounts
  <2> QED BY <1>0, <1>1, <1>2, <2>1 DEF TypeOK, Skips
<1>6. /\ attempted \subseteq Models
      /\ \A m \in attempted : Tells(rows[m], m, probed) \/ m = Model \/ m = order[following]
  BY <1>0, <1>1 DEF Told, TypeOK
<1>7. TypeOK'
  <2>1. position' \in 0..Length /\ following' \in 0..Length /\ fault' \in Faults \cup {"none"}
    BY <1>1, <1>2
  <2>2. upstream' \in [phase : {"new", "between", "reason", "stopped"} \cup Kinds,
                       blocks : 0..MaxBlocks, spoke : BOOLEAN]
    BY <1>1, UpstreamTypes
  <2> QED BY <1>0, <1>1, <1>4, <1>5, <2>1, <2>2 DEF TypeOK
<1>8. OnRoute'
  BY <1>0, <1>1, <1>2 DEF OnRoute, Before
<1>9. Accounts'
  BY <1>1, <1>4, <1>5 DEF Accounts, Undecided, Over, Ends
<1>10. Told'
  BY <1>1, <1>3, <1>5, <1>6 DEF Told, Tells, Deciding, Skips
<1> QED BY <1>7, <1>8, <1>9, <1>10 DEF Inductive

\* A walk for a request whose client knows of nothing: what it found begins, or the
\* request goes on to another walk or ends with its error.
LEMMA WalkKeeps ==
  ASSUME Inductive, pc \in {"retry", "route", "fall", "again", "ladder"},
         NEW cands \in Seq(1..Len(order)), NEW book \in Prepared(cands),
         Enter(book), UNCHANGED <<surface, order, following, owed>>,
         retried' \in BOOLEAN, probed' \subseteq 1..Length,
         tries' \in [1..Length -> Nat], \A p \in 1..Length : tries'[p] # 0,
         IF book.at # 0 THEN Begin(book.at) /\ published' = published
         ELSE /\ \/ pc' = "raised" /\ published' = TRUE
                 \/ pc' \in {"ladder", "route"} /\ published' = published
              /\ UNCHANGED <<position, upstream, fault>>,
         probed # {} => probed' # {},
         NEW S, \A m \in S : m \in Siblings /\ probed' # {}, Ordered(cands, S)
  PROVE  Inductive'
<1>0. TypeOK /\ OnRoute /\ Accounts /\ Told
  BY DEF Inductive
<1>1. /\ rows' = book.rows /\ current' = book.current /\ attempted' = book.attempted
      /\ spent' = book.spent /\ UNCHANGED <<surface, order, following, owed>>
  BY DEF Enter
<1>2. /\ Model \in Models /\ current # 0 /\ position # 0 /\ position <= Len(order)
      /\ Len(order) \in Nat /\ Len(order) <= Length /\ Length \in Nat
      /\ \A m \in Models : rows[m] # "succeeded" /\ owed[m] \in 0..1 /\ ~(owed[m] > 0)
  BY <1>0, ModelFacts DEF OnRoute, Before, Accounts, Undecided, TypeOK
<1>3. /\ book.rows \in [Models -> Verdicts]
      /\ book.current \in 0..Length /\ book.current # 0
      /\ book.attempted \subseteq Models /\ book.spent \in BOOLEAN
      /\ book.at \in 0..Len(order)
      /\ \A m \in Models : book.rows[m] # "succeeded"
  BY <1>0, <1>2, WalkFacts
<1>4. \A m \in book.attempted :
        Tells(book.rows[m], m, probed') \/ (book.at # 0 /\ m = order[book.at])
  <2>1. pc \notin Deciding \cup {"seam", "resume"}
    BY DEF Deciding
  <2> QED BY <1>0, <2>1, WalkTold
<1>5. CASE book.at # 0
  <2>1. /\ pc' = "read" /\ position' = book.at /\ upstream' = Fresh /\ fault' = "none"
        /\ published' = published
    BY <1>5 DEF Begin
  <2>2. Model' = order[book.at]
    BY <1>1, <2>1 DEF Model
  <2>3. TypeOK'
    <3>1. position' \in 0..Length /\ fault' \in Faults \cup {"none"}
      BY <1>2, <1>3, <2>1
    <3>2. upstream' \in [phase : {"new", "between", "reason", "stopped"} \cup Kinds,
                         blocks : 0..MaxBlocks, spoke : BOOLEAN]
      BY <2>1, UpstreamTypes
    <3> QED BY <1>0, <1>1, <1>3, <2>1, <3>1, <3>2 DEF TypeOK, Verdicts
  <2>4. OnRoute'
    <3>1. position' # 0 /\ position' <= Len(order') /\ current' # 0 /\ order' = order
      BY <1>1, <1>2, <1>3, <1>5, <2>1
    <3>2. pc' = "read" /\ fault' = "none"
      BY <2>1
    <3> QED BY <1>0, <3>1, <3>2 DEF OnRoute, Before
  <2>5. Accounts'
    BY <1>1, <1>2, <1>3, <2>1 DEF Accounts, Undecided, Over, Ends
  <2>6. Told'
    BY <1>1, <1>4, <1>5, <2>1, <2>2 DEF Told, Deciding
  <2> QED BY <2>3, <2>4, <2>5, <2>6 DEF Inductive
<1>6. CASE book.at = 0
  <2>1. /\ \/ pc' = "raised" /\ published' = TRUE
           \/ pc' \in {"ladder", "route"} /\ published' = published
        /\ UNCHANGED <<position, upstream, fault>>
    BY <1>6
  <2>2. TypeOK'
    BY <1>0, <1>1, <1>2, <1>3, <2>1 DEF TypeOK, Verdicts, Ends
  <2>3. OnRoute'
    BY <1>0, <1>1, <1>2, <1>3, <2>1 DEF OnRoute, Before
  <2>4. Accounts'
    BY <1>1, <1>2, <1>3, <2>1 DEF Accounts, Undecided, Over, Ends
  <2>5. Told'
    BY <1>1, <1>4, <1>6, <2>1 DEF Told
  <2> QED BY <2>2, <2>3, <2>4, <2>5 DEF Inductive
<1> QED BY <1>3, <1>5, <1>6

\* The first model is tried once more.
LEMMA RetryPrimaryKeeps ==
  ASSUME Inductive, RetryPrimary PROVE Inductive'
<1>0. TypeOK /\ OnRoute
  BY DEF Inductive
<1>1. PICK book \in Prepared(Candidates(position)) :
        /\ Enter(book)
        /\ IF book.at # 0 THEN Begin(book.at) /\ published' = published
           ELSE /\ pc' = "route" /\ published' = published
                /\ UNCHANGED <<position, upstream, fault>>
  BY DEF RetryPrimary, Walk, GoTo, attemptVars
<1>2. /\ pc = "retry" /\ retried' = TRUE
      /\ UNCHANGED <<surface, order, following, owed, probed, tries>>
  BY DEF RetryPrimary, Walk
<1>3. Candidates(position) \in Seq(1..Len(order)) /\ Ordered(Candidates(position), {})
  <2>1. order \in Seq(Models) /\ position \in 1..(Len(order) + 1)
    BY <1>0, <1>2, ModelFacts DEF OnRoute, Before
  <2> QED BY <2>1, CandidatesFacts
<1>4. /\ probed' = probed /\ probed' \subseteq 1..Length /\ tries' \in [1..Length -> Nat]
      /\ retried' \in BOOLEAN
      /\ \A p \in 1..Length : tries'[p] # 0
  BY <1>0, <1>2 DEF TypeOK, OnRoute
<1> QED BY <1>1, <1>2, <1>3, <1>4, WalkKeeps

\* No candidate is left.
LEMMA ExhaustedFacts ==
  ASSUME Exhausted
  PROVE  \/ pc' = "raised" /\ published' = TRUE
         \/ pc' = "ladder" /\ published' = published
BY DEF Exhausted, GoTo, Raise

\* The models on the provider of the limited one are tried first.
LEMMA PreferSiblingKeeps ==
  ASSUME Inductive, PreferSibling PROVE Inductive'
<1>0. TypeOK /\ OnRoute
  BY DEF Inductive
<1>1. PICK book \in Prepared(SiblingsFirst(position + 1)) :
        /\ Enter(book)
        /\ IF book.at # 0 THEN Begin(book.at) /\ published' = published
           ELSE Exhausted /\ UNCHANGED <<position, upstream, fault>>
  BY DEF PreferSibling, Walk, attemptVars
<1>2. /\ pc = "route" /\ probed' = probed \cup {position}
      /\ UNCHANGED <<surface, order, following, owed, retried, tries>>
  BY DEF PreferSibling, Walk
<1>3. /\ position + 1 \in 1..(Len(order) + 1) /\ order \in Seq(Models) /\ position \in 1..Length
  <2>1. pc \notin Before \cup {"raised"}
    BY <1>2 DEF Before
  <2>2. /\ order \in Seq(Models) /\ Len(order) \in Nat /\ position \in Nat
        /\ position <= Len(order) /\ Length \in Nat
    BY <1>0, ModelFacts
  <2>3. position # 0 /\ Len(order) <= Length
    BY <1>0, <2>1 DEF OnRoute
  <2> QED BY <2>2, <2>3
<1>4. /\ SiblingsFirst(position + 1) \in Seq(1..Len(order))
      /\ Ordered(SiblingsFirst(position + 1), Siblings)
  BY <1>3, SiblingsFacts
<1>5. probed' # {} /\ probed' \subseteq 1..Length /\ retried' \in BOOLEAN
      /\ tries' \in [1..Length -> Nat] /\ \A p \in 1..Length : tries'[p] # 0
  BY <1>0, <1>2, <1>3 DEF TypeOK, OnRoute
<1> QED BY <1>1, <1>2, <1>4, <1>5, ExhaustedFacts, WalkKeeps

\* The next model takes over, or the same one once its credential answered.
LEMMA FallbackKeeps ==
  ASSUME Inductive, Fallback PROVE Inductive'
<1>0. TypeOK /\ OnRoute
  BY DEF Inductive
<1> DEFINE start == IF pc = "again" THEN position ELSE position + 1
<1>1. PICK book \in Prepared(Candidates(start)) :
        /\ Enter(book)
        /\ IF book.at # 0 THEN Begin(book.at) /\ published' = published
           ELSE Exhausted /\ UNCHANGED <<position, upstream, fault>>
  BY DEF Fallback, Walk, attemptVars
<1>2. /\ pc \in {"fall", "again", "route"}
      /\ UNCHANGED <<surface, order, following, owed, retried, probed, tries>>
  BY DEF Fallback, Walk, retryVars
<1>3. Candidates(start) \in Seq(1..Len(order)) /\ Ordered(Candidates(start), {})
  <2>1. order \in Seq(Models) /\ start \in 1..(Len(order) + 1)
    BY <1>0, <1>2, ModelFacts DEF OnRoute, Before
  <2> HIDE DEF start
  <2> QED BY <2>1, CandidatesFacts
<1>4. /\ probed' = probed /\ probed' \subseteq 1..Length /\ retried' \in BOOLEAN
      /\ tries' \in [1..Length -> Nat] /\ \A p \in 1..Length : tries'[p] # 0
  BY <1>0, <1>2 DEF TypeOK, OnRoute
<1> HIDE DEF start
<1> QED BY <1>1, <1>2, <1>3, <1>4, ExhaustedFacts, WalkKeeps

\* The model that was only rate limited is tried again.
LEMMA LadderKeeps ==
  ASSUME Inductive, Ladder PROVE Inductive'
<1>0. TypeOK /\ OnRoute
  BY DEF Inductive
<1>1. PICK book \in Prepared(Candidates(position)) :
        /\ Enter(book)
        /\ IF book.at # 0 THEN Begin(book.at) /\ published' = published
           ELSE /\ pc' = "raised" /\ published' = TRUE
                /\ UNCHANGED <<position, upstream, fault>>
  BY DEF Ladder, Walk, Raise, attemptVars
<1>2. /\ pc = "ladder" /\ tries' = [tries EXCEPT ![position] = @ + 1]
      /\ UNCHANGED <<surface, order, following, owed, retried, probed>>
  BY DEF Ladder, Walk
<1>3. /\ position \in 1..Length /\ position \in 1..(Len(order) + 1)
      /\ Candidates(position) \in Seq(1..Len(order)) /\ Ordered(Candidates(position), {})
  <2>1. /\ order \in Seq(Models) /\ position \in 1..Length
        /\ position \in 1..(Len(order) + 1)
    BY <1>0, <1>2, ModelFacts DEF OnRoute, Before
  <2> QED BY <2>1, CandidatesFacts
<1>4. tries' \in [1..Length -> Nat] /\ \A p \in 1..Length : tries'[p] # 0
  <2>1. tries \in [1..Length -> Nat]
    BY <1>0 DEF TypeOK
  <2>2. \A p \in 1..Length : tries[p] # 0 /\ tries[p] \in Nat /\ tries[p] + 1 \in Nat \ {0}
    BY <1>0, <2>1 DEF OnRoute
  <2> QED BY <1>2, <1>3, <2>1, <2>2
<1>5. probed' = probed /\ probed' \subseteq 1..Length /\ retried' \in BOOLEAN
  BY <1>0, <1>2 DEF TypeOK
<1> QED BY <1>1, <1>2, <1>3, <1>4, <1>5, WalkKeeps

-----------------------------------------------------------------------------
(***************************************************************************)
(* The theorems.                                                           *)
(***************************************************************************)

\* The invariant of the ledger holds at first;
LEMMA AtFirst == Init => Inductive
<1> SUFFICES ASSUME Init PROVE Inductive
  OBVIOUS
<1>0. Models = 1..Length /\ Length \in Nat
  BY RouteAssumption DEF Models
<1>1. TypeOK
  <2>1. surface \in Surfaces => DOMAIN surface = {"buffered", "messages", "clean", "resume", "retryOnce"}
    BY DEF Surfaces
  <2>2. upstream = Fresh => upstream \in [phase : {"new", "between", "reason", "stopped"} \cup Kinds,
                                          blocks : 0..MaxBlocks, spoke : BOOLEAN]
    BY UpstreamTypes
  <2>3. order \in Seq(Models) /\ rows \in [Models -> Skips \cup {"failed", "succeeded", "interrupted"}]
    BY DEF Init, Skips
  <2>4. tries \in [1..Length -> Nat] /\ owed \in [Models -> 0..1] /\ probed \subseteq 1..Length
    BY DEF Init
  <2>5. /\ position \in 0..Length /\ following \in 0..Length /\ current \in 0..Length
        /\ attempted \subseteq Models /\ fault \in Faults \cup {"none"} /\ pc = "new"
        /\ surface \in Surfaces /\ upstream = Fresh
    BY <1>0 DEF Init
  <2>6. published \in BOOLEAN /\ retried \in BOOLEAN /\ spent \in BOOLEAN
    <3>1. published = FALSE /\ retried = FALSE /\ spent = FALSE /\ FALSE \in BOOLEAN
      BY DEF Init
    <3> QED BY <3>1, Zenon
  <2> QED BY <2>1, <2>2, <2>3, <2>4, <2>5, <2>6 DEF TypeOK
<1>2. OnRoute
  BY <1>0 DEF Init, OnRoute, Before
<1>3. Accounts
  BY DEF Init, Accounts, Undecided, Over, Ends
<1>4. Told
  BY DEF Init, Told
<1> QED BY <1>1, <1>2, <1>3, <1>4 DEF Inductive

\* a step that changes nothing of the request keeps it;
LEMMA Stutter == Inductive /\ UNCHANGED vars => Inductive'
<1> SUFFICES ASSUME Inductive, UNCHANGED vars PROVE Inductive'
  OBVIOUS
<1>0. UNCHANGED <<surface, order, pc, position, upstream, fault, following, shown, rows, current,
                  published, attempted, owed, retried, probed, tries, spent>>
  BY DEF vars, ledgerVars, attemptVars, retryVars
<1>1. TypeOK'
  BY <1>0 DEF Inductive, TypeOK
<1>2. OnRoute'
  BY <1>0 DEF Inductive, OnRoute
<1>3. Accounts'
  BY <1>0 DEF Inductive, Accounts, Undecided, Over, Model, Committed
<1>4. Told'
  BY <1>0 DEF Inductive, Told, Model
<1> QED BY <1>1, <1>2, <1>3, <1>4 DEF Inductive

\* and so does every step.
LEMMA EveryStep == Inductive /\ [Next]_vars => Inductive'
<1> SUFFICES ASSUME Inductive, [Next]_vars PROVE Inductive'
  OBVIOUS
<1>1. CASE Attempt
  BY <1>1, ChunkKeeps, StreamEndsKeeps, StreamFailsKeeps DEF Attempt, DeadlineReached, Faults
<1>2. CASE Decision
  BY <1>2, PlanKeeps, PreflightKeeps, CommittedFailureKeeps, FinishKeeps,
      UncommittedFailureKeeps,
     RetryPrimaryKeeps, PreferSiblingKeeps, ProbeKeeps, ProbeAnsweredKeeps, FallbackKeeps,
     LadderKeeps DEF Decision
<1>3. CASE Pulled
  BY <1>3, FirstPullKeeps, NeverPulledKeeps, SeamSentKeeps, CutSentKeeps, FinishSentKeeps,
     ClientLeavesKeeps DEF Pulled
<1>4. CASE \E f \in Faults : StreamFails(f)
  BY <1>4, StreamFailsKeeps
<1>5. CASE Ended \/ UNCHANGED vars
  BY <1>5, Stutter DEF Ended
<1> QED BY <1>1, <1>2, <1>3, <1>4, <1>5 DEF Next

\* The invariant holds, for a route of any length, any choice of its providers and every
\* policy of Surfaces (a retry of the first model with the defaults of the rest only).
THEOREM InductiveCorrect == Spec => []Inductive
<1> QED BY AtFirst, EveryStep, PTL DEF Spec

\* Every variable stays in its type; in particular no failure is charged twice.
THEOREM TypeCorrect == Spec => []TypeOK
<1>1. Inductive => TypeOK
  BY DEF Inductive
<1> QED BY <1>1, InductiveCorrect, PTL

\* Whatever fails: the failure of a stream is charged once, before the next attempt begins
\* or the request ends, but for an error that is passed on and for a client that leaves
\* first; and however the request ends, the ledger that is published tells what became of
\* every model that was tried, but for what EveryAttemptAccounted names (_AttemptLedger
\* and _charge_failure in application/execution.py).
THEOREM EveryAttemptAccountedCorrect == Spec => []EveryAttemptAccounted
<1>1. Inductive => EveryAttemptAccounted
  <2> SUFFICES ASSUME Inductive PROVE EveryAttemptAccounted
    OBVIOUS
  <2>1. TypeOK /\ Accounts /\ Told
    BY DEF Inductive
  <2>2. ASSUME NEW m \in Models
        PROVE  /\ owed[m] \in {0, 1}
               /\ owed[m] = 1 =>
                    m = Model /\ (Undecided \/ pc = "left" \/ (pc = "raised" /\ Committed))
    <3>1. owed[m] \in 0..1
      BY <2>1 DEF TypeOK
    <3>2. owed[m] > 0 =>
            m = Model /\ (Undecided \/ pc = "left" \/ (pc = "raised" /\ Committed))
      BY <2>1 DEF Accounts
    <3> QED BY <3>1, <3>2
  <2>3. Over /\ pc # "unread" =>
          /\ published
          /\ \A m \in Models : rows[m] = "succeeded" <=> (pc = "done" /\ m = Model)
          /\ pc = "left" => rows[current] = "interrupted"
    BY <2>1 DEF Accounts
  <2>4. ASSUME Over, pc # "unread", NEW m \in attempted
        PROVE  \/ rows[m] \notin Skips
               \/ rows[m] = "ended"
               \/ rows[m] = "late" /\ m \in Siblings /\ probed # {}
               \/ pc = "left" /\ m = Model
    BY <2>1, <2>4 DEF Told, Tells, Deciding, Over, Ends
  <2> QED BY <2>2, <2>3, <2>4 DEF EveryAttemptAccounted
<1> QED BY <1>1, InductiveCorrect, PTL

-----------------------------------------------------------------------------
(***************************************************************************)
(* The message.                                                            *)
(***************************************************************************)

Frames ==
  [type : {"start", "stop"}] \cup [type : {"reason"}, why : {"own", "cut"}]
    \cup [type : {"open"}, index : Nat, kind : Kinds] \cup [type : {"close"}, index : Nat]
    \cup [type : {"delta"}, index : Nat, kind : Kinds, by : Models, words : {"new", "again"}]

\* No tool call is closed without its arguments, and who thinks began the answer.
ToolsAreWhole(s) ==
  \A n \in FramesOf(s, "close") : IsKind(s, s[n].index, "tool") => HasContent(s, s[n].index)
FirstOneThinks(s) ==
  \A n, first \in FramesOf(s, "delta") :
    s[n].kind = "thinking" /\ (\A m \in FramesOf(s, "delta") : first <= m)
      => s[n].by = s[first].by

\* The beginning of a message that is nobody's patchwork.
Sound(s) == s \in Seq(Frames) /\ WellFormed(s) /\ ToolsAreWhole(s) /\ FirstOneThinks(s)

\* A message that may go on.
Underway(s) == s # <<>> /\ FramesOf(s, "reason") = {}

Written(s, m) == \A n \in FramesOf(s, "delta") : s[n].by = m

\* A tool block without its arguments.
Hollow(s, i) == i \in OpenBlocks(s) /\ IsKind(s, i, "tool") /\ ~HasContent(s, i)

\* What one model has written of a message, and where its stream is.
Mirrors(s, u) ==
  /\ s = <<>> <=> u.phase = "new"
  /\ u.phase \in {"between"} \cup Kinds => FramesOf(s, "reason") = {}
  /\ \A i \in Opened(s) : i < u.blocks
  /\ OpenBlocks(s) = IF u.phase \in Kinds THEN {u.blocks - 1} ELSE {}
  /\ u.phase \in Kinds => IsKind(s, u.blocks - 1, u.phase)
                            /\ (u.spoke => HasContent(s, u.blocks - 1))
  /\ u.phase = "reason" => s[Len(s)] = Reason("own")
  /\ u.phase = "stopped" => s[Len(s)] = Stop

Splicers ==
  [text : Nat \cup {NoIndex}, next : Nat, open : SUBSET Nat,
   index : [Sources -> Nat \cup {NoIndex}], adopted : Sources \cup {NoIndex},
   dropped : SUBSET Sources, candidate : Seq(Frames), decided : BOOLEAN, rejected : BOOLEAN,
   spoke : BOOLEAN]

\* What the splicer knows of the message it continues.
Knows(sp, s) ==
  /\ sp \in Splicers
  /\ sp.open = OpenBlocks(s)
  /\ \A i \in Opened(s) : i < sp.next
  /\ sp.text # NoIndex => sp.text \in Opened(s)
  /\ sp.text # NoIndex /\ (sp.adopted = NoIndex \/ ~sp.decided)
       => sp.text \in OpenBlocks(s) /\ IsKind(s, sp.text, "text")
  /\ sp.candidate # <<>> =>
       /\ ~sp.decided /\ sp.text # NoIndex
       /\ \E m \in Models, w \in {"new", "again"} : sp.candidate = <<Delta(sp.text, "text", m, w)>>
  /\ sp.rejected => sp.decided

\* What it knows of the stream that continues it.
Follows(sp, s, u) ==
  LET b == u.blocks - 1
  IN /\ sp.adopted < u.blocks /\ \A d \in sp.dropped : d < u.blocks
     /\ \A i \in Nat : Hollow(s, i) =>
          u.phase = "tool" /\ ~u.spoke /\ ~sp.rejected /\ sp.index[b] = i
     /\ u.phase \in Kinds /\ ~sp.rejected =>
          /\ b \in Sources
          /\ b \in sp.dropped <=> u.phase = "thinking"
          /\ u.phase # "thinking" =>
               /\ sp.index[b] \in OpenBlocks(s) /\ IsKind(s, sp.index[b], u.phase)
               /\ b = sp.adopted => u.phase = "text" /\ sp.index[b] = sp.text
               /\ b # sp.adopted => sp.decided /\ sp.index[b] # sp.text
               /\ u.phase = "tool" /\ u.spoke => HasContent(s, sp.index[b])

\* The message is continued.
Spliced == Underway(shown) /\ FramesOf(shown, "delta") # {} /\ Knows(splicer, shown)

Draft == IF surface.buffered THEN held ELSE shown

\* Nothing was sent, and nothing is continued.
Unsaid == {"new", "prepare", "made", "unread", "retry", "route", "probe", "fall", "again", "ladder"}

Message ==
  /\ Sound(shown) /\ Sound(held)
  /\ Continuing => ~surface.buffered /\ shown # <<>>
  /\ ~surface.buffered => held = <<>>
  /\ surface.buffered =>
       /\ pc \notin {"finishing", "done", "left"} => shown = <<>>
       /\ pc \notin Before \cup {"raised"} => Written(shown, Model)
  /\ pc \in Unsaid => shown = <<>> /\ ~Continuing
  /\ pc \in Before \cup {"made"} => upstream = Fresh /\ held = <<>>
  /\ pc = "read" /\ ~Continuing => Mirrors(Draft, upstream) /\ Written(Draft, Model)
  /\ pc = "read" /\ Continuing => Spliced /\ Follows(splicer, shown, upstream)
  /\ pc \in {"seam", "resume"} => Continuing /\ Spliced /\ Follows(splicer, shown, Fresh)
  /\ pc = "closing" /\ fault = "none" =>
       IF Continuing THEN Spliced /\ ~IncompleteToolUse(shown)
       ELSE Whole(Draft) /\ Written(Draft, Model)
  /\ pc \in {"cutting", "truncated"} => Whole(shown) /\ Reason("own") \notin Range(shown)
  /\ pc \in {"finishing", "finished", "done"} => Whole(shown)

\* What the frames are made of.
LEMMA FrameFacts ==
  ASSUME NEW f \in Frames
  PROVE  /\ f.type \in {"start", "stop", "reason", "open", "close", "delta"}
         /\ f.type \in {"open", "close", "delta"} => f.index \in Nat
         /\ f.type \in {"open", "delta"} => f.kind \in Kinds
         /\ f.type = "open" => f = Open(f.index, f.kind)
         /\ f.type = "stop" => f = Stop
<1>1. CASE f \in [type : {"start", "stop"}]
  BY <1>1 DEF Stop
<1>2. CASE f \in [type : {"reason"}, why : {"own", "cut"}]
  BY <1>2
<1>3. CASE f \in [type : {"open"}, index : Nat, kind : Kinds]
  BY <1>3 DEF Open
<1>4. CASE f \in [type : {"close"}, index : Nat]
  BY <1>4
<1>5. CASE f \in [type : {"delta"}, index : Nat, kind : Kinds, by : Models,
                  words : {"new", "again"}]
  BY <1>5
<1> QED BY <1>1, <1>2, <1>3, <1>4, <1>5 DEF Frames

\* What the frames are that the code makes.
LEMMA MadeFrames ==
  /\ Start \in Frames /\ Start.type = "start"
  /\ Stop \in Frames /\ Stop.type = "stop"
  /\ \A w \in {"own", "cut"} : Reason(w) \in Frames /\ Reason(w).type = "reason"
  /\ Reason("cut") # Reason("own")
  /\ \A i \in Nat : Close(i) \in Frames /\ Close(i).type = "close" /\ Close(i).index = i
  /\ \A i \in Nat, k \in Kinds :
       Open(i, k) \in Frames /\ Open(i, k).type = "open" /\ Open(i, k).index = i
         /\ Open(i, k).kind = k
  /\ \A i \in Nat, k \in Kinds, m \in Models, w \in {"new", "again"} :
       LET d == Delta(i, k, m, w)
       IN d \in Frames /\ d.type = "delta" /\ d.index = i /\ d.kind = k /\ d.by = m
            /\ d.words = w
<1>1. Start \in Frames /\ Start.type = "start"
  BY DEF Start, Frames
<1>2. Stop \in Frames /\ Stop.type = "stop"
  BY DEF Stop, Frames
<1>3. \A w \in {"own", "cut"} : Reason(w) \in Frames /\ Reason(w).type = "reason"
  BY DEF Reason, Frames
<1>4. Reason("cut") # Reason("own")
  <2>1. Reason("cut").why = "cut" /\ Reason("own").why = "own"
    BY DEF Reason
  <2> QED BY <2>1
<1>5. \A i \in Nat : Close(i) \in Frames /\ Close(i).type = "close" /\ Close(i).index = i
  BY DEF Close, Frames
<1>6. \A i \in Nat, k \in Kinds :
        Open(i, k) \in Frames /\ Open(i, k).type = "open" /\ Open(i, k).index = i
          /\ Open(i, k).kind = k
  BY DEF Open, Frames
<1>7. ASSUME NEW i \in Nat, NEW k \in Kinds, NEW m \in Models, NEW w \in {"new", "again"}
      PROVE  LET d == Delta(i, k, m, w)
             IN d \in Frames /\ d.type = "delta" /\ d.index = i /\ d.kind = k /\ d.by = m
                  /\ d.words = w
  BY DEF Delta, Frames
<1> QED BY <1>1, <1>2, <1>3, <1>4, <1>5, <1>6, <1>7

\* What the frames of one type, the blocks and their kinds are.
LEMMA FramesFacts ==
  ASSUME NEW s \in Seq(Frames)
  PROVE  /\ Len(s) \in Nat /\ DOMAIN s = 1..Len(s)
         /\ \A n \in 1..Len(s) : s[n] \in Frames
         /\ \A type : FramesOf(s, type) = {n \in 1..Len(s) : s[n].type = type}
         /\ Opened(s) \subseteq Nat /\ OpenBlocks(s) \subseteq Opened(s)
         /\ \A i, k : IsKind(s, i, k) <=>
              \E n \in FramesOf(s, "open") : s[n].index = i /\ s[n].kind = k
<1>1. Len(s) \in Nat /\ DOMAIN s = 1..Len(s) /\ \A n \in 1..Len(s) : s[n] \in Frames
  OBVIOUS
<1>2. \A type : FramesOf(s, type) = {n \in 1..Len(s) : s[n].type = type}
  BY <1>1 DEF FramesOf
<1>3. Opened(s) \subseteq Nat /\ OpenBlocks(s) \subseteq Opened(s)
  <2>1. \A n \in FramesOf(s, "open") : s[n].index \in Nat
    BY <1>1, <1>2, FrameFacts
  <2> QED BY <2>1 DEF Opened, OpenBlocks
<1>4. ASSUME NEW i, NEW k
      PROVE  IsKind(s, i, k) <=> \E n \in FramesOf(s, "open") : s[n].index = i /\ s[n].kind = k
  <2>1. ASSUME NEW n \in FramesOf(s, "open")
        PROVE  s[n] = Open(i, k) <=> s[n].index = i /\ s[n].kind = k
    <3>1. s[n] = Open(s[n].index, s[n].kind)
      BY <1>1, <1>2, FrameFacts
    <3>2. Open(i, k).index = i /\ Open(i, k).kind = k
      BY DEF Open
    <3> QED BY <3>1, <3>2
  <2> QED BY <2>1 DEF IsKind
<1> QED BY <1>1, <1>2, <1>3, <1>4

\* A block has one kind.
LEMMA OneKind ==
  ASSUME NEW s \in Seq(Frames), WellFormed(s), NEW i, NEW j, NEW k,
         IsKind(s, i, j), IsKind(s, i, k)
  PROVE  j = k
<1>1. PICK m \in FramesOf(s, "open") : s[m].index = i /\ s[m].kind = j
  BY FramesFacts
<1>2. PICK n \in FramesOf(s, "open") : s[n].index = i /\ s[n].kind = k
  BY FramesFacts
<1> QED BY <1>1, <1>2 DEF WellFormed

\* The blocks of a message have a greatest number.
LEMMA BlocksAreBounded ==
  ASSUME NEW s \in Seq(Frames)
  PROVE  \E b \in Nat : Opened(s) \in SUBSET (0..b)
<1> DEFINE T == {n \in Nat : \E b \in Nat : \A m \in FramesOf(s, "open") :
                               m <= n => s[m].index <= b}
<1>0. /\ FramesOf(s, "open") \subseteq 1..Len(s) /\ Len(s) \in Nat
      /\ \A m \in FramesOf(s, "open") : s[m].index \in Nat
  BY FramesFacts, FrameFacts
<1>1. 0 \in T
  BY <1>0
<1>2. ASSUME NEW n \in Nat, n \in T PROVE n + 1 \in T
  <2>1. PICK b \in Nat : \A m \in FramesOf(s, "open") : m <= n => s[m].index <= b
    BY <1>2
  <2> DEFINE c == IF n + 1 \in FramesOf(s, "open") /\ ~(s[n + 1].index <= b)
                  THEN s[n + 1].index ELSE b
  <2>2. c \in Nat /\ b <= c /\ (n + 1 \in FramesOf(s, "open") => s[n + 1].index <= c)
    BY <1>0
  <2> HIDE DEF c
  <2>3. ASSUME NEW m \in FramesOf(s, "open"), m <= n + 1 PROVE s[m].index <= c
    <3>1. m = n + 1 \/ m <= n
      BY <1>0, <2>3
    <3> QED BY <1>0, <2>1, <2>2, <3>1
  <2> QED BY <2>2, <2>3
<1>3. Len(s) \in T
  <2> HIDE DEF T
  <2> QED BY <1>0, <1>1, <1>2, NatByInduction
<1>4. PICK b \in Nat : \A m \in FramesOf(s, "open") : s[m].index <= b
  BY <1>0, <1>3
<1>5. \A m \in FramesOf(s, "open") : s[m].index \in 0..b
  BY <1>0, <1>4
<1> QED BY <1>5 DEF Opened

-----------------------------------------------------------------------------
(* A message that goes on. *)

Extends(s, t) == Len(s) <= Len(t) /\ \A n \in 1..Len(s) : t[n] = s[n]
Added(s, t, type) == {n \in (Len(s) + 1)..Len(t) : t[n].type = type}
Indices(s, N) == {s[n].index : n \in N}

\* The frames of a longer message are the old ones and the added ones;
LEMMA FramesExtend ==
  ASSUME NEW s \in Seq(Frames), NEW t \in Seq(Frames), NEW type, Extends(s, t)
  PROVE  /\ FramesOf(t, type) = FramesOf(s, type) \cup Added(s, t, type)
         /\ \A n \in FramesOf(s, type) : n \in 1..Len(s) /\ t[n] = s[n]
         /\ \A n \in Added(s, t, type) : n \in 1..Len(t) /\ Len(s) < n /\ t[n].type = type
<1>0. Len(s) \in Nat /\ Len(t) \in Nat /\ Len(s) <= Len(t) /\ \A n \in 1..Len(s) : t[n] = s[n]
  BY DEF Extends
<1>1. /\ FramesOf(t, type) = {n \in 1..Len(t) : t[n].type = type}
      /\ FramesOf(s, type) = {n \in 1..Len(s) : s[n].type = type}
  BY FramesFacts
<1>2. \A n \in 1..Len(t) : n \in 1..Len(s) \/ n \in (Len(s) + 1)..Len(t)
  BY <1>0
<1>3. \A n : n \in 1..Len(s) \/ n \in (Len(s) + 1)..Len(t) => n \in 1..Len(t)
  BY <1>0
<1>4. FramesOf(t, type) \subseteq FramesOf(s, type) \cup Added(s, t, type)
  BY <1>0, <1>1, <1>2 DEF Added
<1>5. FramesOf(s, type) \cup Added(s, t, type) \subseteq FramesOf(t, type)
  BY <1>0, <1>1, <1>3 DEF Added
<1>6. \A n \in FramesOf(s, type) : n \in 1..Len(s) /\ t[n] = s[n]
  BY <1>0, <1>1
<1>7. \A n \in Added(s, t, type) : n \in 1..Len(t) /\ Len(s) < n /\ t[n].type = type
  BY <1>0 DEF Added
<1> QED BY <1>4, <1>5, <1>6, <1>7

\* and so are its blocks,
LEMMA OpenedExtends ==
  ASSUME NEW s \in Seq(Frames), NEW t \in Seq(Frames), Extends(s, t)
  PROVE  Opened(t) = Opened(s) \cup Indices(t, Added(s, t, "open"))
<1>1. /\ FramesOf(t, "open") = FramesOf(s, "open") \cup Added(s, t, "open")
      /\ \A n \in FramesOf(s, "open") : t[n] = s[n]
  BY FramesExtend
<1> QED BY <1>1 DEF Opened, Indices

\* their kinds,
LEMMA KindExtends ==
  ASSUME NEW s \in Seq(Frames), NEW t \in Seq(Frames), NEW i, NEW k, Extends(s, t)
  PROVE  IsKind(t, i, k) <=> \/ IsKind(s, i, k)
                             \/ \E n \in Added(s, t, "open") : t[n].index = i /\ t[n].kind = k
<1>1. /\ FramesOf(t, "open") = FramesOf(s, "open") \cup Added(s, t, "open")
      /\ \A n \in FramesOf(s, "open") : t[n] = s[n]
  BY FramesExtend
<1>2. IsKind(t, i, k) <=> \E n \in FramesOf(t, "open") : t[n].index = i /\ t[n].kind = k
  BY FramesFacts
<1>3. IsKind(s, i, k) <=> \E n \in FramesOf(s, "open") : s[n].index = i /\ s[n].kind = k
  BY FramesFacts
<1> QED BY <1>1, <1>2, <1>3

\* and the blocks with content.
LEMMA ContentExtends ==
  ASSUME NEW s \in Seq(Frames), NEW t \in Seq(Frames), NEW i, Extends(s, t)
  PROVE  HasContent(t, i) <=> HasContent(s, i) \/ i \in Indices(t, Added(s, t, "delta"))
<1>1. /\ FramesOf(t, "delta") = FramesOf(s, "delta") \cup Added(s, t, "delta")
      /\ \A n \in FramesOf(s, "delta") : t[n] = s[n]
  BY FramesExtend
<1> QED BY <1>1 DEF HasContent, Indices

\* Frames inside the blocks of a message, and frames that open new ones.
Inside(s, t) ==
  /\ \A n \in (Len(s) + 1)..Len(t) : t[n].type \in {"open", "close", "delta"}
  /\ \A n \in Added(s, t, "open") : t[n].index \notin Opened(s)
  /\ \A m, n \in Added(s, t, "open") : t[m].index = t[n].index => m = n
  /\ \A n \in Added(s, t, "close") \cup Added(s, t, "delta") :
       /\ t[n].index \in OpenBlocks(s)
       /\ \A c \in Added(s, t, "close") : c < n => t[c].index # t[n].index
  /\ \A n \in Added(s, t, "delta") :
       /\ IsKind(s, t[n].index, t[n].kind)
       /\ t[n].kind = "thinking" =>
            Written(s, t[n].by) /\ \A m \in Added(s, t, "delta") : t[m].by = t[n].by
  /\ \A n \in Added(s, t, "close") :
       IsKind(s, t[n].index, "tool") => HasContent(s, t[n].index)

\* Such frames leave a sound message sound.
LEMMA InsideKeeps ==
  ASSUME NEW s, NEW t \in Seq(Frames), Sound(s), Underway(s), Extends(s, t), Inside(s, t)
  PROVE  /\ Sound(t) /\ Underway(t)
         /\ OpenBlocks(t) = (OpenBlocks(s) \cup Indices(t, Added(s, t, "open")))
                              \ Indices(t, Added(s, t, "close"))
<1>0. /\ s \in Seq(Frames) /\ WellFormed(s) /\ ToolsAreWhole(s) /\ FirstOneThinks(s)
      /\ s # <<>> /\ Len(s) \in Nat /\ Len(s) # 0 /\ Len(t) \in Nat /\ Len(s) <= Len(t)
  BY DEF Sound, Underway, Extends
<1> DEFINE New(type) == Added(s, t, type)
<1>1. /\ \A type : FramesOf(t, type) = FramesOf(s, type) \cup New(type)
      /\ \A type : \A n \in FramesOf(s, type) : n \in 1..Len(s) /\ t[n] = s[n]
      /\ \A type : \A n \in New(type) : n \in 1..Len(t) /\ Len(s) < n /\ t[n].type = type
  BY <1>0, FramesExtend
<1>k. \A i, k : IsKind(t, i, k) <=>
        IsKind(s, i, k) \/ \E n \in New("open") : t[n].index = i /\ t[n].kind = k
  BY <1>0, KindExtends
<1>h. \A i : HasContent(s, i) => HasContent(t, i)
  BY <1>0, ContentExtends
<1>2. New("start") = {} /\ New("reason") = {} /\ New("stop") = {}
  BY DEF Added, Inside
<1>3. FramesOf(s, "reason") = {} /\ FramesOf(s, "stop") = {} /\ FramesOf(s, "start") = {1}
  <2>1. FramesOf(s, "reason") = {} /\ FramesOf(s, "start") = {1}
    BY <1>0 DEF Underway, WellFormed
  <2>2. ASSUME NEW n \in FramesOf(s, "stop") PROVE FALSE
    <3>1. n = Len(s) /\ s[n - 1].type = "reason"
      BY <1>0 DEF WellFormed
    <3>2. n # 1
      <4>0. 1 \in FramesOf(s, "start") /\ n \in FramesOf(s, "stop")
        BY <2>1
      <4>1. s[1].type = "start" /\ s[n].type = "stop"
        BY <1>0, <4>0, FramesFacts
      <4> QED BY <4>1
    <3>3. n - 1 \in FramesOf(s, "reason")
      BY <1>0, <3>1, <3>2, FramesFacts
    <3> QED BY <2>1, <3>3
  <2> QED BY <2>1, <2>2
<1>4. t # <<>> /\ FramesOf(t, "reason") = {} /\ FramesOf(t, "stop") = {}
        /\ FramesOf(t, "start") = {1}
  BY <1>0, <1>1, <1>2, <1>3
<1>5. \A m, n \in FramesOf(t, "open") : t[m].index = t[n].index => m = n
  <2>1. \A m, n \in FramesOf(s, "open") : s[m].index = s[n].index => m = n
    BY <1>0 DEF WellFormed
  <2>2. \A m \in FramesOf(s, "open"), n \in New("open") : s[m].index # t[n].index
    BY DEF Inside, Opened
  <2>3. \A m, n \in New("open") : t[m].index = t[n].index => m = n
    BY DEF Inside
  <2> QED BY <1>1, <2>1, <2>2, <2>3
<1>6. ASSUME NEW n \in FramesOf(t, "close") \cup FramesOf(t, "delta") PROVE InBlock(t, n)
  <2>1. CASE n \in FramesOf(s, "close") \cup FramesOf(s, "delta")
    <3>1. InBlock(s, n)
      BY <1>0, <2>1 DEF WellFormed
    <3>2. n \in 1..Len(s) /\ t[n] = s[n]
      BY <1>1, <2>1
    <3>3. \E o \in FramesOf(t, "open") :
            o < n /\ t[o].index = t[n].index /\ (t[n].type = "delta" => t[o].kind = t[n].kind)
      BY <1>1, <3>1, <3>2 DEF InBlock
    <3>4. ASSUME NEW c \in FramesOf(t, "close"), c < n PROVE t[c].index # t[n].index
      <4>1. c \notin New("close")
        <5> SUFFICES ASSUME c \in New("close") PROVE FALSE
          OBVIOUS
        <5>1. c \in 1..Len(t) /\ Len(s) < c
          BY <1>1
        <5> QED BY <1>0, <3>2, <3>4, <5>1
      <4>2. c \in FramesOf(s, "close") /\ t[c] = s[c]
        BY <1>1, <4>1
      <4> QED BY <3>1, <3>2, <3>4, <4>2 DEF InBlock
    <3> QED BY <3>3, <3>4 DEF InBlock
  <2>2. CASE n \in New("close") \cup New("delta")
    <3>1. /\ t[n].index \in OpenBlocks(s) /\ n \in 1..Len(t) /\ Len(s) < n
          /\ \A c \in New("close") : c < n => t[c].index # t[n].index
      BY <1>1, <2>2 DEF Inside
    <3>2. \E o \in FramesOf(s, "open") :
            /\ s[o].index = t[n].index
            /\ t[n].type = "delta" => s[o].kind = t[n].kind
      <4>1. CASE n \in New("delta")
        <5>1. IsKind(s, t[n].index, t[n].kind)
          BY <4>1 DEF Inside
        <5> QED BY <1>0, <5>1, FramesFacts
      <4>2. CASE n \in New("close")
        <5>1. t[n].type = "close"
          BY <1>1, <4>2
        <5>2. t[n].index \in Opened(s)
          BY <1>0, <3>1, FramesFacts
        <5> QED BY <5>1, <5>2 DEF Opened
      <4> QED BY <2>2, <4>1, <4>2
    <3>3. PICK o \in FramesOf(s, "open") :
            /\ s[o].index = t[n].index
            /\ t[n].type = "delta" => s[o].kind = t[n].kind
      BY <3>2
    <3>4. o \in FramesOf(t, "open") /\ t[o] = s[o] /\ o < n
      <4>1. o \in 1..Len(s) /\ t[o] = s[o] /\ o \in FramesOf(t, "open")
        BY <1>1
      <4> QED BY <1>0, <3>1, <4>1
    <3>5. ASSUME NEW c \in FramesOf(s, "close") PROVE t[c].index # t[n].index
      BY <1>1, <3>1 DEF OpenBlocks
    <3> QED BY <1>1, <3>1, <3>3, <3>4, <3>5 DEF InBlock
  <2> QED BY <1>1, <2>1, <2>2
<1>7. OpenBlocks(t) = (OpenBlocks(s) \cup Indices(t, New("open"))) \ Indices(t, New("close"))
  <2>1. Opened(t) = Opened(s) \cup Indices(t, New("open"))
    BY <1>0, OpenedExtends
  <2>2. {t[n].index : n \in FramesOf(t, "close")}
          = {s[n].index : n \in FramesOf(s, "close")} \cup Indices(t, New("close"))
    BY <1>1 DEF Indices
  <2>3. {s[n].index : n \in FramesOf(s, "close")} \subseteq Opened(s)
    <3>1. ASSUME NEW n \in FramesOf(s, "close") PROVE s[n].index \in Opened(s)
      <4>1. InBlock(s, n)
        BY <1>0 DEF WellFormed
      <4> QED BY <4>1 DEF InBlock, Opened
    <3> QED BY <3>1
  <2>4. Indices(t, New("open")) \cap Opened(s) = {}
    BY DEF Inside, Indices
  <2> QED BY <2>1, <2>2, <2>3, <2>4 DEF OpenBlocks
<1>8. WellFormed(t)
  BY <1>4, <1>5, <1>6 DEF WellFormed
<1>9. ToolsAreWhole(t)
  <2> SUFFICES ASSUME NEW n \in FramesOf(t, "close"), IsKind(t, t[n].index, "tool")
               PROVE  HasContent(t, t[n].index)
    BY DEF ToolsAreWhole
  <2>1. t[n].index \in Opened(s) /\ (IsKind(s, t[n].index, "tool") => HasContent(s, t[n].index))
    <3>1. CASE n \in FramesOf(s, "close")
      <4>1. InBlock(s, n) /\ t[n] = s[n]
        BY <1>0, <1>1, <3>1 DEF WellFormed
      <4> QED BY <1>0, <3>1, <4>1 DEF InBlock, Opened, ToolsAreWhole
    <3>2. CASE n \in New("close")
      <4>1. t[n].index \in OpenBlocks(s) /\ OpenBlocks(s) \subseteq Opened(s)
        BY <1>0, <3>2, FramesFacts DEF Inside
      <4> QED BY <3>2, <4>1 DEF Inside
    <3> QED BY <1>1, <3>1, <3>2
  <2>2. IsKind(s, t[n].index, "tool")
    <3>1. ~\E o \in New("open") : t[o].index = t[n].index
      BY <2>1 DEF Inside
    <3> QED BY <1>k, <3>1
  <2> QED BY <1>h, <2>1, <2>2
<1>10. FirstOneThinks(t)
  <2> SUFFICES ASSUME NEW n \in FramesOf(t, "delta"), NEW first \in FramesOf(t, "delta"),
                      t[n].kind = "thinking", \A m \in FramesOf(t, "delta") : first <= m
               PROVE  t[n].by = t[first].by
    BY DEF FirstOneThinks
  <2>1. CASE n \in FramesOf(s, "delta")
    <3>1. first <= n /\ n \in 1..Len(s)
      BY <1>1, <2>1
    <3>2. first \in FramesOf(s, "delta")
      <4> SUFFICES ASSUME first \in New("delta") PROVE FALSE
        BY <1>1
      <4>1. first \in 1..Len(t) /\ Len(s) < first
        BY <1>1
      <4> QED BY <1>0, <3>1, <4>1
    <3>3. \A m \in FramesOf(s, "delta") : first <= m
      BY <1>1
    <3> QED BY <1>0, <1>1, <2>1, <3>2, <3>3 DEF FirstOneThinks
  <2>2. CASE n \in New("delta")
    <3>1. Written(s, t[n].by) /\ \A m \in New("delta") : t[m].by = t[n].by
      BY <2>2 DEF Inside
    <3> QED BY <1>1, <3>1 DEF Written
  <2> QED BY <1>1, <2>1, <2>2
<1> QED BY <1>0, <1>4, <1>7, <1>8, <1>9, <1>10 DEF Sound, Underway

\* One frame more.
Longer(s, f, t) ==
  /\ t \in Seq(Frames) /\ Extends(s, t)
  /\ Len(t) = Len(s) + 1 /\ t[Len(s) + 1] = f

\* Longer is what Append does,
LEMMA AppendIsLonger ==
  ASSUME NEW s \in Seq(Frames), NEW f \in Frames
  PROVE  Longer(s, f, Append(s, f))
<1> DEFINE t == Append(s, f)
<1>1. t \in Seq(Frames) /\ Len(t) = Len(s) + 1 /\ t[Len(s) + 1] = f
        /\ \A n \in 1..Len(s) : t[n] = s[n]
  BY AppendProperties
<1>2. Len(s) \in Nat
  OBVIOUS
<1> HIDE DEF t
<1>3. Longer(s, f, t)
  BY <1>1, <1>2 DEF Longer, Extends
<1> QED BY <1>3 DEF t

\* and this is what it adds.
LEMMA LongerAdds ==
  ASSUME NEW s \in Seq(Frames), NEW f, NEW t, Longer(s, f, t), NEW type
  PROVE  /\ f.type = type => /\ Added(s, t, type) = {Len(s) + 1}
                             /\ Indices(t, Added(s, t, type)) = {f.index}
         /\ f.type # type => /\ Added(s, t, type) = {}
                             /\ Indices(t, Added(s, t, type)) = {}
<1>1. (Len(s) + 1)..Len(t) = {Len(s) + 1} /\ t[Len(s) + 1] = f
  BY DEF Longer
<1>2. ASSUME f.type = type PROVE Added(s, t, type) = {Len(s) + 1}
  BY <1>1, <1>2 DEF Added
<1>3. ASSUME f.type # type PROVE Added(s, t, type) = {}
  BY <1>1, <1>3 DEF Added
<1> QED BY <1>1, <1>2, <1>3 DEF Indices

\* A new block may be opened in a sound message;
LEMMA OpenFollows ==
  ASSUME NEW s, Sound(s), Underway(s), NEW i \in Nat, NEW k \in Kinds, i \notin Opened(s),
         NEW t, Longer(s, Open(i, k), t)
  PROVE  /\ Sound(t) /\ Underway(t)
         /\ Opened(t) = Opened(s) \cup {i} /\ OpenBlocks(t) = OpenBlocks(s) \cup {i}
         /\ \A j, l : IsKind(t, j, l) <=> IsKind(s, j, l) \/ (j = i /\ l = k)
         /\ \A j : HasContent(t, j) <=> HasContent(s, j)
         /\ FramesOf(t, "delta") = FramesOf(s, "delta")
         /\ \A m : Written(s, m) => Written(t, m)
<1> DEFINE f == Open(i, k)
<1>s. s \in Seq(Frames)
  BY DEF Sound
<1>0. f \in Frames /\ f.type = "open" /\ f.index = i /\ f.kind = k
  <2>1. i \in Nat
    BY <1>s, FramesFacts
  <2> QED BY <2>1, MadeFrames
<1>1. Longer(s, f, t)
  OBVIOUS
<1> HIDE DEF f
<1>2. /\ t \in Seq(Frames) /\ Len(s) \in Nat /\ Len(t) = Len(s) + 1
      /\ t[Len(s) + 1] = f /\ (Len(s) + 1)..Len(t) = {Len(s) + 1}
  BY <1>s, <1>1 DEF Longer
<1>e. t \in Seq(Frames) /\ Extends(s, t)
  BY <1>1 DEF Longer
<1>o. Added(s, t, "open") = {Len(s) + 1} /\ Indices(t, Added(s, t, "open")) = {i}
  <2>1. Added(s, t, "open") = {Len(s) + 1} /\ Indices(t, Added(s, t, "open")) = {f.index}
    BY <1>s, <1>0, <1>1, LongerAdds
  <2> QED BY <2>1, <1>0
<1>c. Added(s, t, "close") = {} /\ Indices(t, Added(s, t, "close")) = {}
  BY <1>s, <1>0, <1>1, LongerAdds
<1>d. Added(s, t, "delta") = {} /\ Indices(t, Added(s, t, "delta")) = {}
  BY <1>s, <1>0, <1>1, LongerAdds
<1>3. Inside(s, t)
  BY <1>0, <1>2, <1>o, <1>c, <1>d DEF Inside
<1>4. /\ Sound(t) /\ Underway(t)
      /\ OpenBlocks(t) = (OpenBlocks(s) \cup Indices(t, Added(s, t, "open")))
                           \ Indices(t, Added(s, t, "close"))
  BY <1>2, <1>3, <1>e, InsideKeeps
<1>5. OpenBlocks(t) = OpenBlocks(s) \cup {i}
  BY <1>4, <1>o, <1>c
<1>6. Opened(t) = Opened(s) \cup {i}
  <2>1. Opened(t) = Opened(s) \cup Indices(t, Added(s, t, "open"))
    BY <1>s, <1>e, OpenedExtends
  <2> QED BY <2>1, <1>o
<1>7. /\ FramesOf(t, "delta") = FramesOf(s, "delta") \cup Added(s, t, "delta")
      /\ \A n \in FramesOf(s, "delta") : t[n] = s[n]
  BY <1>s, <1>e, FramesExtend
<1>8. \A j : HasContent(t, j) <=> HasContent(s, j)
  <2>1. \A j : HasContent(t, j) <=> HasContent(s, j) \/ j \in Indices(t, Added(s, t, "delta"))
    BY <1>s, <1>e, ContentExtends
  <2> QED BY <2>1, <1>d
<1>9. \A j, l : IsKind(t, j, l) <=> IsKind(s, j, l) \/ (j = i /\ l = k)
  <2>1. \A j, l : IsKind(t, j, l) <=> \/ IsKind(s, j, l)
                                      \/ \E n \in Added(s, t, "open") :
                                           t[n].index = j /\ t[n].kind = l
    BY <1>s, <1>e, KindExtends
  <2> QED BY <2>1, <1>0, <1>2, <1>o
<1>10. FramesOf(t, "delta") = FramesOf(s, "delta")
  BY <1>7, <1>d
<1>11. \A m : Written(s, m) => Written(t, m)
  BY <1>0, <1>2, <1>7, <1>d DEF Written
<1> QED BY <1>4, <1>5, <1>6, <1>8, <1>9, <1>10, <1>11

\* an open block may be written to, in thinking only by the one who wrote all of it;
LEMMA DeltaFollows ==
  ASSUME NEW s, Sound(s), Underway(s), NEW i \in OpenBlocks(s), NEW k \in Kinds,
         NEW m \in Models, NEW w \in {"new", "again"}, IsKind(s, i, k),
         k = "thinking" => Written(s, m),
         NEW t, Longer(s, Delta(i, k, m, w), t)
  PROVE  /\ Sound(t) /\ Underway(t)
         /\ Opened(t) = Opened(s) /\ OpenBlocks(t) = OpenBlocks(s)
         /\ \A j, l : IsKind(t, j, l) <=> IsKind(s, j, l)
         /\ \A j : HasContent(t, j) <=> HasContent(s, j) \/ j = i
         /\ FramesOf(t, "delta") # {}
         /\ Written(s, m) => Written(t, m)
<1> DEFINE f == Delta(i, k, m, w)
<1>s. s \in Seq(Frames)
  BY DEF Sound
<1>0. f \in Frames /\ f.type = "delta" /\ f.index = i /\ f.kind = k /\ f.by = m
  <2>1. i \in Nat
    BY <1>s, FramesFacts
  <2> QED BY <2>1, MadeFrames
<1>1. Longer(s, f, t)
  OBVIOUS
<1> HIDE DEF f
<1>2. /\ t \in Seq(Frames) /\ Len(s) \in Nat /\ Len(t) = Len(s) + 1
      /\ t[Len(s) + 1] = f /\ (Len(s) + 1)..Len(t) = {Len(s) + 1}
  BY <1>s, <1>1 DEF Longer
<1>e. t \in Seq(Frames) /\ Extends(s, t)
  BY <1>1 DEF Longer
<1>o. Added(s, t, "open") = {} /\ Indices(t, Added(s, t, "open")) = {}
  BY <1>s, <1>0, <1>1, LongerAdds
<1>c. Added(s, t, "close") = {} /\ Indices(t, Added(s, t, "close")) = {}
  BY <1>s, <1>0, <1>1, LongerAdds
<1>d. Added(s, t, "delta") = {Len(s) + 1} /\ Indices(t, Added(s, t, "delta")) = {i}
  <2>1. Added(s, t, "delta") = {Len(s) + 1} /\ Indices(t, Added(s, t, "delta")) = {f.index}
    BY <1>s, <1>0, <1>1, LongerAdds
  <2> QED BY <2>1, <1>0
<1>3. Inside(s, t)
  BY <1>0, <1>2, <1>o, <1>c, <1>d DEF Inside
<1>4. /\ Sound(t) /\ Underway(t)
      /\ OpenBlocks(t) = (OpenBlocks(s) \cup Indices(t, Added(s, t, "open")))
                           \ Indices(t, Added(s, t, "close"))
  BY <1>2, <1>3, <1>e, InsideKeeps
<1>5. OpenBlocks(t) = OpenBlocks(s)
  BY <1>4, <1>o, <1>c
<1>6. Opened(t) = Opened(s)
  <2>1. Opened(t) = Opened(s) \cup Indices(t, Added(s, t, "open"))
    BY <1>s, <1>e, OpenedExtends
  <2> QED BY <2>1, <1>o
<1>7. /\ FramesOf(t, "delta") = FramesOf(s, "delta") \cup Added(s, t, "delta")
      /\ \A n \in FramesOf(s, "delta") : t[n] = s[n]
  BY <1>s, <1>e, FramesExtend
<1>8. \A j : HasContent(t, j) <=> HasContent(s, j) \/ j = i
  <2>1. \A j : HasContent(t, j) <=> HasContent(s, j) \/ j \in Indices(t, Added(s, t, "delta"))
    BY <1>s, <1>e, ContentExtends
  <2> QED BY <2>1, <1>d
<1>9. \A j, l : IsKind(t, j, l) <=> IsKind(s, j, l)
  <2>1. \A j, l : IsKind(t, j, l) <=> \/ IsKind(s, j, l)
                                      \/ \E n \in Added(s, t, "open") :
                                           t[n].index = j /\ t[n].kind = l
    BY <1>s, <1>e, KindExtends
  <2> QED BY <2>1, <1>0, <1>2, <1>o
<1>10. FramesOf(t, "delta") # {}
  BY <1>7, <1>d
<1>11. Written(s, m) => Written(t, m)
  BY <1>0, <1>2, <1>7, <1>d DEF Written
<1> QED BY <1>4, <1>5, <1>6, <1>8, <1>9, <1>10, <1>11

\* and an open block may be closed, a tool call only once it has its arguments.
LEMMA CloseFollows ==
  ASSUME NEW s, Sound(s), Underway(s), NEW i \in OpenBlocks(s),
         IsKind(s, i, "tool") => HasContent(s, i),
         NEW t, Longer(s, Close(i), t)
  PROVE  /\ Sound(t) /\ Underway(t)
         /\ Opened(t) = Opened(s) /\ OpenBlocks(t) = OpenBlocks(s) \ {i}
         /\ \A j, l : IsKind(t, j, l) <=> IsKind(s, j, l)
         /\ \A j : HasContent(t, j) <=> HasContent(s, j)
         /\ FramesOf(t, "delta") = FramesOf(s, "delta")
         /\ \A m : Written(s, m) => Written(t, m)
<1> DEFINE f == Close(i)
<1>s. s \in Seq(Frames)
  BY DEF Sound
<1>0. f \in Frames /\ f.type = "close" /\ f.index = i
  <2>1. i \in Nat
    BY <1>s, FramesFacts
  <2> QED BY <2>1, MadeFrames
<1>1. Longer(s, f, t)
  OBVIOUS
<1> HIDE DEF f
<1>2. /\ t \in Seq(Frames) /\ Len(s) \in Nat /\ Len(t) = Len(s) + 1
      /\ t[Len(s) + 1] = f /\ (Len(s) + 1)..Len(t) = {Len(s) + 1}
  BY <1>s, <1>1 DEF Longer
<1>e. t \in Seq(Frames) /\ Extends(s, t)
  BY <1>1 DEF Longer
<1>o. Added(s, t, "open") = {} /\ Indices(t, Added(s, t, "open")) = {}
  BY <1>s, <1>0, <1>1, LongerAdds
<1>c. Added(s, t, "close") = {Len(s) + 1} /\ Indices(t, Added(s, t, "close")) = {i}
  <2>1. Added(s, t, "close") = {Len(s) + 1} /\ Indices(t, Added(s, t, "close")) = {f.index}
    BY <1>s, <1>0, <1>1, LongerAdds
  <2> QED BY <2>1, <1>0
<1>d. Added(s, t, "delta") = {} /\ Indices(t, Added(s, t, "delta")) = {}
  BY <1>s, <1>0, <1>1, LongerAdds
<1>3. Inside(s, t)
  BY <1>0, <1>2, <1>o, <1>c, <1>d DEF Inside
<1>4. /\ Sound(t) /\ Underway(t)
      /\ OpenBlocks(t) = (OpenBlocks(s) \cup Indices(t, Added(s, t, "open")))
                           \ Indices(t, Added(s, t, "close"))
  BY <1>2, <1>3, <1>e, InsideKeeps
<1>5. OpenBlocks(t) = OpenBlocks(s) \ {i}
  BY <1>4, <1>o, <1>c
<1>6. Opened(t) = Opened(s)
  <2>1. Opened(t) = Opened(s) \cup Indices(t, Added(s, t, "open"))
    BY <1>s, <1>e, OpenedExtends
  <2> QED BY <2>1, <1>o
<1>7. /\ FramesOf(t, "delta") = FramesOf(s, "delta") \cup Added(s, t, "delta")
      /\ \A n \in FramesOf(s, "delta") : t[n] = s[n]
  BY <1>s, <1>e, FramesExtend
<1>8. \A j : HasContent(t, j) <=> HasContent(s, j)
  <2>1. \A j : HasContent(t, j) <=> HasContent(s, j) \/ j \in Indices(t, Added(s, t, "delta"))
    BY <1>s, <1>e, ContentExtends
  <2> QED BY <2>1, <1>d
<1>9. \A j, l : IsKind(t, j, l) <=> IsKind(s, j, l)
  <2>1. \A j, l : IsKind(t, j, l) <=> \/ IsKind(s, j, l)
                                      \/ \E n \in Added(s, t, "open") :
                                           t[n].index = j /\ t[n].kind = l
    BY <1>s, <1>e, KindExtends
  <2> QED BY <2>1, <1>0, <1>2, <1>o
<1>10. FramesOf(t, "delta") = FramesOf(s, "delta")
  BY <1>7, <1>d
<1>11. \A m : Written(s, m) => Written(t, m)
  BY <1>0, <1>2, <1>7, <1>d DEF Written
<1> QED BY <1>4, <1>5, <1>6, <1>8, <1>9, <1>10, <1>11

\* A message begins.
LEMMA StartFollows ==
  ASSUME NEW t, Longer(<<>>, Start, t)
  PROVE  /\ Sound(t) /\ Underway(t)
         /\ Opened(t) = {} /\ OpenBlocks(t) = {} /\ FramesOf(t, "delta") = {}
<1>1. t \in Seq(Frames) /\ Len(t) = 1 /\ t[1] = Start /\ t # <<>>
  <2>1. t \in Seq(Frames) /\ Len(t) = Len(<<>>) + 1 /\ t[Len(<<>>) + 1] = Start
    BY DEF Longer
  <2>2. Len(<<>>) = 0 /\ 0 + 1 = 1
    OBVIOUS
  <2>3. Len(t) = 1 /\ t[1] = Start
    BY <2>1, <2>2
  <2> QED BY <2>1, <2>2, <2>3
<1>2. \A type : FramesOf(t, type) = {n \in 1..1 : t[n].type = type}
  BY <1>1, FramesFacts
<1>3. FramesOf(t, "start") = {1}
  BY <1>1, <1>2, MadeFrames
<1>4. /\ FramesOf(t, "open") = {} /\ FramesOf(t, "close") = {} /\ FramesOf(t, "delta") = {}
      /\ FramesOf(t, "reason") = {} /\ FramesOf(t, "stop") = {}
  BY <1>1, <1>2, MadeFrames
<1>5. Opened(t) = {} /\ OpenBlocks(t) = {}
  BY <1>4 DEF Opened, OpenBlocks
<1>6. WellFormed(t)
  BY <1>1, <1>3, <1>4 DEF WellFormed
<1>7. ToolsAreWhole(t) /\ FirstOneThinks(t)
  BY <1>4 DEF ToolsAreWhole, FirstOneThinks
<1> QED BY <1>1, <1>4, <1>5, <1>6, <1>7 DEF Sound, Underway

\* Nothing sent yet is sound.
LEMMA NothingIsSound ==
  /\ Sound(<<>>) /\ Opened(<<>>) = {} /\ OpenBlocks(<<>>) = {} /\ FramesOf(<<>>, "delta") = {}
  /\ \A m : Written(<<>>, m)
<1>1. <<>> \in Seq(Frames) /\ \A type : FramesOf(<<>>, type) = {}
  BY DEF FramesOf
<1>2. Opened(<<>>) = {} /\ OpenBlocks(<<>>) = {}
  BY <1>1 DEF Opened, OpenBlocks
<1>3. WellFormed(<<>>)
  BY <1>1 DEF WellFormed
<1> QED BY <1>1, <1>2, <1>3 DEF Sound, ToolsAreWhole, FirstOneThinks, Written

\* A message has no stop before its reason.
LEMMA NoStopBefore ==
  ASSUME NEW s \in Seq(Frames), WellFormed(s), FramesOf(s, "reason") = {}
  PROVE  FramesOf(s, "stop") = {}
<1> SUFFICES ASSUME NEW n \in FramesOf(s, "stop") PROVE FALSE
  OBVIOUS
<1>1. n = Len(s) /\ s[n - 1].type = "reason"
  BY DEF WellFormed
<1>2. n \in 1..Len(s) /\ s[n].type = "stop" /\ Len(s) \in Nat
  BY FramesFacts
<1>3. FramesOf(s, "start") = {1}
  BY <1>2 DEF WellFormed
<1>4. s[1].type = "start"
  <2>1. 1 \in FramesOf(s, "start")
    BY <1>3
  <2> QED BY <2>1, FramesFacts
<1>5. n # 1
  BY <1>2, <1>4
<1>6. n - 1 \in FramesOf(s, "reason")
  BY <1>1, <1>2, <1>5, FramesFacts
<1> QED BY <1>6

\* It says why it ends once its blocks are closed.
LEMMA ReasonFollows ==
  ASSUME NEW s, Sound(s), Underway(s), OpenBlocks(s) = {}, NEW w \in {"own", "cut"},
         NEW t, Longer(s, Reason(w), t)
  PROVE  /\ Sound(t) /\ t # <<>> /\ t[Len(t)] = Reason(w)
         /\ FramesOf(t, "reason") = {Len(t)} /\ FramesOf(t, "stop") = {}
         /\ Opened(t) = Opened(s) /\ OpenBlocks(t) = {}
         /\ \A m : Written(s, m) => Written(t, m)
<1> DEFINE f == Reason(w)
<1>s. s \in Seq(Frames) /\ WellFormed(s) /\ ToolsAreWhole(s) /\ FirstOneThinks(s)
        /\ s # <<>> /\ Len(s) \in Nat /\ FramesOf(s, "reason") = {}
  BY DEF Sound, Underway
<1>0. f \in Frames /\ f.type = "reason"
  BY MadeFrames
<1>1. Longer(s, f, t)
  OBVIOUS
<1> HIDE DEF f
<1>2. t \in Seq(Frames) /\ Extends(s, t) /\ Len(t) = Len(s) + 1 /\ t[Len(s) + 1] = f
  BY <1>1 DEF Longer
<1>3. /\ Added(s, t, "reason") = {Len(s) + 1} /\ Added(s, t, "start") = {}
      /\ Added(s, t, "open") = {} /\ Added(s, t, "close") = {}
      /\ Added(s, t, "delta") = {} /\ Added(s, t, "stop") = {}
  <2>1. Added(s, t, "reason") = {Len(s) + 1}
    BY <1>s, <1>0, <1>1, LongerAdds
  <2>2. Added(s, t, "start") = {} /\ Added(s, t, "open") = {} /\ Added(s, t, "close") = {}
    BY <1>s, <1>0, <1>1, LongerAdds
  <2>3. Added(s, t, "delta") = {} /\ Added(s, t, "stop") = {}
    BY <1>s, <1>0, <1>1, LongerAdds
  <2> QED BY <2>1, <2>2, <2>3
<1>4. \A type : FramesOf(t, type) = FramesOf(s, type) \cup Added(s, t, type)
                  /\ \A n \in FramesOf(s, type) : n \in 1..Len(s) /\ t[n] = s[n]
  BY <1>s, <1>2, FramesExtend
<1>5. FramesOf(s, "stop") = {}
  BY <1>s, NoStopBefore
<1>6. /\ FramesOf(t, "start") = FramesOf(s, "start")
      /\ FramesOf(t, "open") = FramesOf(s, "open")
      /\ FramesOf(t, "close") = FramesOf(s, "close")
      /\ FramesOf(t, "delta") = FramesOf(s, "delta")
      /\ FramesOf(t, "stop") = {} /\ FramesOf(t, "reason") = {Len(s) + 1}
  BY <1>s, <1>3, <1>4, <1>5
<1>7. /\ \A n \in FramesOf(s, "open") : t[n] = s[n]
      /\ \A n \in FramesOf(s, "close") : t[n] = s[n]
      /\ \A n \in FramesOf(s, "delta") : t[n] = s[n]
  BY <1>4
<1>8. Opened(t) = Opened(s) /\ OpenBlocks(t) = OpenBlocks(s)
  BY <1>6, <1>7 DEF Opened, OpenBlocks
<1>9. WellFormed(t)
  <2>1. FramesOf(t, "start") = {1}
    BY <1>s, <1>6 DEF WellFormed
  <2>2. \A m, n \in FramesOf(t, "open") : t[m].index = t[n].index => m = n
    BY <1>s, <1>6, <1>7 DEF WellFormed
  <2>3. ASSUME NEW n \in FramesOf(t, "close") \cup FramesOf(t, "delta") PROVE InBlock(t, n)
    <3>1. InBlock(s, n) /\ t[n] = s[n]
      BY <1>s, <1>6, <1>7, <2>3 DEF WellFormed
    <3> QED BY <1>6, <1>7, <3>1 DEF InBlock
  <2>4. \A m \in DOMAIN t : ~(m > Len(s) + 1)
    BY <1>s, <1>2
  <2> QED BY <1>6, <1>8, <2>1, <2>2, <2>3, <2>4 DEF WellFormed
<1>10. \A i, k : IsKind(t, i, k) <=> IsKind(s, i, k)
  <2>1. \A i, k : IsKind(t, i, k) <=> \E n \in FramesOf(t, "open") : t[n] = Open(i, k)
    BY DEF IsKind
  <2>2. \A i, k : IsKind(s, i, k) <=> \E n \in FramesOf(s, "open") : s[n] = Open(i, k)
    BY DEF IsKind
  <2> QED BY <1>6, <1>7, <2>1, <2>2
<1>11. ToolsAreWhole(t) /\ FirstOneThinks(t)
  <2>1. \A i : HasContent(t, i) <=> HasContent(s, i)
    BY <1>6, <1>7 DEF HasContent
  <2>2. ToolsAreWhole(t)
    BY <1>s, <1>6, <1>7, <1>10, <2>1 DEF ToolsAreWhole
  <2>3. FirstOneThinks(t)
    BY <1>s, <1>6, <1>7 DEF FirstOneThinks
  <2> QED BY <2>2, <2>3
<1>12. \A m : Written(s, m) => Written(t, m)
  BY <1>6, <1>7 DEF Written
<1>13. t # <<>> /\ t[Len(t)] = Reason(w) /\ FramesOf(t, "reason") = {Len(t)}
  BY <1>s, <1>2, <1>6 DEF f
<1> QED BY <1>2, <1>6, <1>8, <1>9, <1>11, <1>12, <1>13 DEF Sound

\* And stops.
LEMMA StopFollows ==
  ASSUME NEW s, Sound(s), s # <<>>, s[Len(s)].type = "reason", NEW t, Longer(s, Stop, t)
  PROVE  /\ Sound(t) /\ Whole(t) /\ t[Len(t)] = Stop
         /\ Opened(t) = Opened(s) /\ OpenBlocks(t) = OpenBlocks(s)
         /\ \A m : Written(s, m) => Written(t, m)
<1>s. s \in Seq(Frames) /\ WellFormed(s) /\ ToolsAreWhole(s) /\ FirstOneThinks(s)
        /\ s # <<>> /\ Len(s) \in Nat /\ Len(s) # 0
  BY DEF Sound
<1>0. Stop \in Frames /\ Stop.type = "stop"
  BY MadeFrames
<1>2. t \in Seq(Frames) /\ Extends(s, t) /\ Len(t) = Len(s) + 1 /\ t[Len(s) + 1] = Stop
  BY DEF Longer
<1>3. /\ Added(s, t, "stop") = {Len(s) + 1} /\ Added(s, t, "start") = {}
      /\ Added(s, t, "open") = {} /\ Added(s, t, "close") = {}
      /\ Added(s, t, "delta") = {} /\ Added(s, t, "reason") = {}
  <2>1. Added(s, t, "stop") = {Len(s) + 1}
    BY <1>s, <1>0, LongerAdds
  <2>2. Added(s, t, "start") = {} /\ Added(s, t, "open") = {} /\ Added(s, t, "close") = {}
    BY <1>s, <1>0, LongerAdds
  <2>3. Added(s, t, "delta") = {} /\ Added(s, t, "reason") = {}
    BY <1>s, <1>0, LongerAdds
  <2> QED BY <2>1, <2>2, <2>3
<1>4. \A type : FramesOf(t, type) = FramesOf(s, type) \cup Added(s, t, type)
                  /\ \A n \in FramesOf(s, type) : n \in 1..Len(s) /\ t[n] = s[n]
  BY <1>s, <1>2, FramesExtend
<1>5. FramesOf(s, "stop") = {}
  <2> SUFFICES ASSUME NEW n \in FramesOf(s, "stop") PROVE FALSE
    OBVIOUS
  <2>1. n = Len(s)
    BY <1>s DEF WellFormed
  <2>2. s[n].type = "stop"
    BY <1>s, FramesFacts
  <2> QED BY <2>1, <2>2
<1>6. /\ FramesOf(t, "start") = FramesOf(s, "start")
      /\ FramesOf(t, "open") = FramesOf(s, "open")
      /\ FramesOf(t, "close") = FramesOf(s, "close")
      /\ FramesOf(t, "delta") = FramesOf(s, "delta")
      /\ FramesOf(t, "reason") = FramesOf(s, "reason") /\ FramesOf(t, "stop") = {Len(s) + 1}
  BY <1>s, <1>3, <1>4, <1>5
<1>7. /\ \A n \in FramesOf(s, "open") : t[n] = s[n]
      /\ \A n \in FramesOf(s, "close") : t[n] = s[n]
      /\ \A n \in FramesOf(s, "delta") : t[n] = s[n]
      /\ \A n \in 1..Len(s) : t[n] = s[n]
  BY <1>2, <1>4 DEF Extends
<1>8. Opened(t) = Opened(s) /\ OpenBlocks(t) = OpenBlocks(s)
  BY <1>6, <1>7 DEF Opened, OpenBlocks
<1>9. WellFormed(t)
  <2>1. FramesOf(t, "start") = {1}
    BY <1>s, <1>6 DEF WellFormed
  <2>2. \A m, n \in FramesOf(t, "open") : t[m].index = t[n].index => m = n
    BY <1>s, <1>6, <1>7 DEF WellFormed
  <2>3. ASSUME NEW n \in FramesOf(t, "close") \cup FramesOf(t, "delta") PROVE InBlock(t, n)
    <3>1. InBlock(s, n) /\ t[n] = s[n]
      BY <1>s, <1>6, <1>7, <2>3 DEF WellFormed
    <3> QED BY <1>6, <1>7, <3>1 DEF InBlock
  <2>4. ASSUME NEW n \in FramesOf(t, "reason")
        PROVE  OpenBlocks(t) = {} /\ \A m \in DOMAIN t : m > n => t[m] = Stop
    <3>1. OpenBlocks(s) = {} /\ \A m \in DOMAIN s : m > n => s[m] = Stop
      BY <1>s, <1>6 DEF WellFormed
    <3>2. DOMAIN t = 1..Len(s) \cup {Len(s) + 1} /\ DOMAIN s = 1..Len(s)
      BY <1>s, <1>2
    <3> QED BY <1>2, <1>7, <1>8, <3>1, <3>2
  <2>5. Len(s) + 1 = Len(t) /\ t[(Len(s) + 1) - 1].type = "reason"
    <3>1. (Len(s) + 1) - 1 = Len(s) /\ Len(s) \in 1..Len(s)
      BY <1>s
    <3>2. t[Len(s)] = s[Len(s)]
      BY <1>7, <3>1
    <3> QED BY <1>2, <3>1, <3>2
  <2> QED BY <1>6, <2>1, <2>2, <2>3, <2>4, <2>5 DEF WellFormed
<1>10. \A i, k : IsKind(t, i, k) <=> IsKind(s, i, k)
  <2>1. \A i, k : IsKind(t, i, k) <=> \E n \in FramesOf(t, "open") : t[n] = Open(i, k)
    BY DEF IsKind
  <2>2. \A i, k : IsKind(s, i, k) <=> \E n \in FramesOf(s, "open") : s[n] = Open(i, k)
    BY DEF IsKind
  <2> QED BY <1>6, <1>7, <2>1, <2>2
<1>11. ToolsAreWhole(t) /\ FirstOneThinks(t)
  <2>1. \A i : HasContent(t, i) <=> HasContent(s, i)
    BY <1>6, <1>7 DEF HasContent
  <2>2. ToolsAreWhole(t)
    BY <1>s, <1>6, <1>7, <1>10, <2>1 DEF ToolsAreWhole
  <2>3. FirstOneThinks(t)
    BY <1>s, <1>6, <1>7 DEF FirstOneThinks
  <2> QED BY <2>2, <2>3
<1>12. \A m : Written(s, m) => Written(t, m)
  BY <1>6, <1>7 DEF Written
<1>13. t # <<>> /\ Last(t) = Stop /\ t[Len(t)] = Stop
  BY <1>s, <1>2 DEF Last
<1> QED BY <1>2, <1>8, <1>9, <1>11, <1>12, <1>13 DEF Sound, Whole

\* The open blocks of a message are closed, each once.
LEMMA ClosingsFacts ==
  ASSUME NEW s \in Seq(Frames), NEW B \in SUBSET Opened(s)
  PROVE  /\ Closings(B) \in Seq(Frames)
         /\ \A n \in 1..Len(Closings(B)) :
              Closings(B)[n].type = "close" /\ Closings(B)[n].index \in B
         /\ \A m, n \in 1..Len(Closings(B)) :
              Closings(B)[m].index = Closings(B)[n].index => m = n
         /\ \A i \in B : \E n \in 1..Len(Closings(B)) : Closings(B)[n].index = i
<1> DEFINE k == Cardinality(B)
           a == Ascending(B)
           c == Closings(B)
<1>1. PICK N \in Nat : B \in SUBSET (0..N)
  BY BlocksAreBounded
<1>2. /\ k \in Nat /\ a \in [1..k -> B]
      /\ \A i, j \in 1..k : a[i] = a[j] => i = j
      /\ \A x \in B : \E i \in 1..k : a[i] = x
  <2>1. /\ Cardinality(B) \in 0..(N + 1) /\ Ascending(B) \in [1..Cardinality(B) -> B]
        /\ \A i, j \in 1..Cardinality(B) : Ascending(B)[i] = Ascending(B)[j] => i = j
        /\ \A x \in B : \E i \in 1..Cardinality(B) : Ascending(B)[i] = x
    BY <1>1, InOrder
  <2>2. \A n \in 0..(N + 1) : n \in Nat
    BY <1>1
  <2> QED BY <2>1, <2>2
<1>3. c = [n \in 1..k |-> Close(a[n])]
  BY DEF Closings
<1>4. \A n \in 1..k : a[n] \in B /\ a[n] \in Nat
  <2>1. \A x \in B : x \in Nat
    BY <1>1
  <2>2. \A n \in 1..k : a[n] \in B
    BY <1>2
  <2> QED BY <2>1, <2>2
<1> HIDE DEF k, a, c
<1>5. \A n \in 1..k : c[n] \in Frames /\ c[n].type = "close" /\ c[n].index = a[n]
  BY <1>3, <1>4, MadeFrames
<1>6. c \in Seq(Frames) /\ Len(c) = k
  <2>1. c \in [1..k -> Frames]
    BY <1>3, <1>5
  <2> QED BY <1>2, <2>1
<1>7. \A n \in 1..Len(c) : c[n].type = "close" /\ c[n].index \in B
  BY <1>4, <1>5, <1>6
<1>8. \A m, n \in 1..Len(c) : c[m].index = c[n].index => m = n
  BY <1>2, <1>5, <1>6
<1>9. \A i \in B : \E n \in 1..Len(c) : c[n].index = i
  BY <1>2, <1>5, <1>6
<1> QED BY <1>6, <1>7, <1>8, <1>9 DEF c

\* Some frames more.
Joined(s, c, t) ==
  /\ t \in Seq(Frames) /\ Extends(s, t)
  /\ Len(t) = Len(s) + Len(c) /\ \A n \in 1..Len(c) : t[Len(s) + n] = c[n]

\* The order of concatenations does not matter.
LEMMA Associative ==
  \A s, c, t \in Seq(Frames) : s \o (c \o t) = (s \o c) \o t
<1> SUFFICES ASSUME NEW s \in Seq(Frames), NEW c \in Seq(Frames), NEW t \in Seq(Frames)
             PROVE  s \o (c \o t) = (s \o c) \o t
  OBVIOUS
<1> QED BY ConcatAssociative, SMTT(30)

\* Joined is what concatenation does.
LEMMA ConcatIsJoined ==
  ASSUME NEW s \in Seq(Frames), NEW c \in Seq(Frames)
  PROVE  Joined(s, c, s \o c)
<1> DEFINE t == s \o c
<1>1. t \in Seq(Frames) /\ Len(t) = Len(s) + Len(c)
        /\ \A n \in 1..(Len(s) + Len(c)) : t[n] = IF n <= Len(s) THEN s[n] ELSE c[n - Len(s)]
  BY ConcatProperties
<1>2. Len(s) \in Nat /\ Len(c) \in Nat
  OBVIOUS
<1> HIDE DEF t
<1>3. ASSUME NEW n \in 1..Len(s) PROVE t[n] = s[n]
  <2>1. n \in 1..(Len(s) + Len(c)) /\ n <= Len(s)
    BY <1>2
  <2> QED BY <1>1, <2>1
<1>4. ASSUME NEW n \in 1..Len(c) PROVE t[Len(s) + n] = c[n]
  <2>1. Len(s) + n \in 1..(Len(s) + Len(c)) /\ ~(Len(s) + n <= Len(s))
          /\ (Len(s) + n) - Len(s) = n
    BY <1>2
  <2> QED BY <1>1, <2>1
<1>5. Joined(s, c, t)
  BY <1>1, <1>2, <1>3, <1>4 DEF Joined, Extends
<1> QED BY <1>5 DEF t

\* Open blocks may be closed all at once, the tool calls among them being whole.
LEMMA ClosingsFollow ==
  ASSUME NEW s, Sound(s), Underway(s), NEW B \in SUBSET OpenBlocks(s),
         \A i \in B : IsKind(s, i, "tool") => HasContent(s, i),
         NEW t, Joined(s, Closings(B), t)
  PROVE  /\ Sound(t) /\ Underway(t)
         /\ Opened(t) = Opened(s) /\ OpenBlocks(t) = OpenBlocks(s) \ B
         /\ \A j, l : IsKind(t, j, l) <=> IsKind(s, j, l)
         /\ \A j : HasContent(t, j) <=> HasContent(s, j)
         /\ FramesOf(t, "delta") = FramesOf(s, "delta")
         /\ \A m : Written(s, m) => Written(t, m)
         /\ \A n \in FramesOf(t, "reason") : FALSE
<1> DEFINE c == Closings(B)
<1>s. s \in Seq(Frames)
  BY DEF Sound
<1>b. B \in SUBSET Opened(s)
  BY <1>s, FramesFacts
<1>1. Joined(s, c, t)
  OBVIOUS
<1>2. /\ c \in Seq(Frames)
      /\ \A n \in 1..Len(c) : c[n].type = "close" /\ c[n].index \in B
      /\ \A m, n \in 1..Len(c) : c[m].index = c[n].index => m = n
      /\ \A i \in B : \E n \in 1..Len(c) : c[n].index = i
  BY <1>s, <1>b, ClosingsFacts
<1> HIDE DEF c
<1>3. /\ t \in Seq(Frames) /\ Extends(s, t) /\ Len(s) \in Nat /\ Len(c) \in Nat
      /\ Len(t) = Len(s) + Len(c) /\ \A n \in 1..Len(c) : t[Len(s) + n] = c[n]
  <2>1. /\ t \in Seq(Frames) /\ Extends(s, t)
        /\ Len(t) = Len(s) + Len(c) /\ \A n \in 1..Len(c) : t[Len(s) + n] = c[n]
    BY <1>1 DEF Joined
  <2>2. Len(s) \in Nat /\ Len(c) \in Nat
    BY <1>s, <1>2
  <2> QED BY <2>1, <2>2
<1>4. ASSUME NEW n \in (Len(s) + 1)..Len(t)
      PROVE  n - Len(s) \in 1..Len(c) /\ t[n] = c[n - Len(s)]
  <2>1. n - Len(s) \in 1..Len(c) /\ Len(s) + (n - Len(s)) = n
    BY <1>3
  <2>2. t[Len(s) + (n - Len(s))] = c[n - Len(s)]
    BY <1>3, <2>1
  <2> QED BY <2>1, <2>2
<1>5. ASSUME NEW n \in (Len(s) + 1)..Len(t) PROVE t[n].type = "close" /\ t[n].index \in B
  <2>1. n - Len(s) \in 1..Len(c) /\ t[n] = c[n - Len(s)]
    BY <1>4
  <2> QED BY <1>2, <2>1
<1>6. ASSUME NEW m \in (Len(s) + 1)..Len(t), NEW n \in (Len(s) + 1)..Len(t),
             t[m].index = t[n].index
      PROVE  m = n
  <2>1. /\ m - Len(s) \in 1..Len(c) /\ n - Len(s) \in 1..Len(c)
        /\ t[m] = c[m - Len(s)] /\ t[n] = c[n - Len(s)]
    BY <1>4
  <2>2. c[m - Len(s)].index = c[n - Len(s)].index
    BY <1>6, <2>1
  <2>3. m - Len(s) = n - Len(s)
    BY <1>2, <2>1, <2>2
  <2> QED BY <1>3, <2>3
<1>7. ASSUME NEW i \in B PROVE \E n \in (Len(s) + 1)..Len(t) : t[n].index = i
  <2>1. PICK n \in 1..Len(c) : c[n].index = i
    BY <1>2
  <2>2. Len(s) + n \in (Len(s) + 1)..Len(t)
    BY <1>3
  <2>3. t[Len(s) + n].index = i
    BY <1>3, <2>1
  <2> QED BY <2>2, <2>3
<1>o. /\ Added(s, t, "open") = {} /\ Added(s, t, "delta") = {} /\ Added(s, t, "reason") = {}
      /\ Added(s, t, "close") = (Len(s) + 1)..Len(t)
  BY <1>5 DEF Added
<1>x. Indices(t, Added(s, t, "open")) = {} /\ Indices(t, Added(s, t, "delta")) = {}
  BY <1>o DEF Indices
<1>y. Indices(t, Added(s, t, "close")) = B
  <2>1. Indices(t, Added(s, t, "close")) \subseteq B
    BY <1>o, <1>5 DEF Indices
  <2>2. B \subseteq Indices(t, Added(s, t, "close"))
    BY <1>o, <1>7 DEF Indices
  <2> QED BY <2>1, <2>2
<1>8. Inside(s, t)
  <2>1. \A n \in (Len(s) + 1)..Len(t) : t[n].type \in {"open", "close", "delta"}
    BY <1>5
  <2>2. ASSUME NEW n \in Added(s, t, "close") \cup Added(s, t, "delta")
        PROVE  /\ t[n].index \in OpenBlocks(s)
               /\ \A m \in Added(s, t, "close") : m < n => t[m].index # t[n].index
    <3>1. n \in (Len(s) + 1)..Len(t)
      BY <1>o
    <3>2. \A m \in (Len(s) + 1)..Len(t) : m < n => m # n
      BY <1>3
    <3> QED BY <1>o, <1>5, <1>6, <3>1, <3>2
  <2>3. \A n \in Added(s, t, "close") :
          IsKind(s, t[n].index, "tool") => HasContent(s, t[n].index)
    BY <1>o, <1>5
  <2> QED BY <1>o, <2>1, <2>2, <2>3 DEF Inside
<1>9. /\ Sound(t) /\ Underway(t)
      /\ OpenBlocks(t) = (OpenBlocks(s) \cup Indices(t, Added(s, t, "open")))
                           \ Indices(t, Added(s, t, "close"))
  BY <1>3, <1>8, InsideKeeps
<1>10. OpenBlocks(t) = OpenBlocks(s) \ B
  BY <1>9, <1>x, <1>y
<1>11. Opened(t) = Opened(s)
  <2>1. Opened(t) = Opened(s) \cup Indices(t, Added(s, t, "open"))
    BY <1>s, <1>3, OpenedExtends
  <2> QED BY <2>1, <1>x
<1>12. /\ FramesOf(t, "delta") = FramesOf(s, "delta") \cup Added(s, t, "delta")
       /\ \A n \in FramesOf(s, "delta") : t[n] = s[n]
  BY <1>s, <1>3, FramesExtend
<1>13. \A j : HasContent(t, j) <=> HasContent(s, j)
  <2>1. \A j : HasContent(t, j) <=> HasContent(s, j) \/ j \in Indices(t, Added(s, t, "delta"))
    BY <1>s, <1>3, ContentExtends
  <2> QED BY <2>1, <1>x
<1>14. \A j, l : IsKind(t, j, l) <=> IsKind(s, j, l)
  <2>1. \A j, l : IsKind(t, j, l) <=> \/ IsKind(s, j, l)
                                      \/ \E n \in Added(s, t, "open") :
                                           t[n].index = j /\ t[n].kind = l
    BY <1>s, <1>3, KindExtends
  <2> QED BY <2>1, <1>o
<1>15. FramesOf(t, "delta") = FramesOf(s, "delta")
  BY <1>12, <1>o
<1>16. \A m : Written(s, m) => Written(t, m)
  BY <1>12, <1>o DEF Written
<1>17. \A n \in FramesOf(t, "reason") : FALSE
  BY <1>9 DEF Underway
<1> QED BY <1>9, <1>10, <1>11, <1>13, <1>14, <1>15, <1>16, <1>17

\* A message whose blocks are closed is ended.
LEMMA EndingFollows ==
  ASSUME NEW s, Sound(s), Underway(s), OpenBlocks(s) = {}, NEW w \in {"own", "cut"},
         NEW t, t = s \o <<Reason(w), Stop>>
  PROVE  /\ Sound(t) /\ Whole(t)
         /\ w = "cut" => Reason("own") \notin Range(t)
<1> DEFINE r == Append(s, Reason(w))
           u == Append(r, Stop)
<1>s. s \in Seq(Frames) /\ FramesOf(s, "reason") = {}
  BY DEF Sound, Underway
<1>f. Reason(w) \in Frames /\ Stop \in Frames /\ Reason(w).type = "reason"
  BY MadeFrames
<1>1. Longer(s, Reason(w), r)
  BY <1>s, <1>f, AppendIsLonger
<1>2. r \in Seq(Frames)
  BY <1>1 DEF Longer
<1>3. Longer(r, Stop, u)
  BY <1>2, <1>f, AppendIsLonger
<1>4. t = u
  <2>1. t = s \o <<Reason(w), Stop>> /\ s \in Seq(Frames)
    BY <1>s
  <2> QED BY <2>1, <1>f
<1> HIDE DEF r, u
<1>5. Sound(r) /\ r # <<>> /\ r[Len(r)] = Reason(w)
  BY <1>1, ReasonFollows
<1>6. Sound(u) /\ Whole(u)
  BY <1>3, <1>5, <1>f, StopFollows
<1>7. ASSUME w = "cut" PROVE Reason("own") \notin Range(u)
  <2>1. /\ u \in Seq(Frames) /\ Len(u) = Len(r) + 1 /\ u[Len(r) + 1] = Stop
        /\ \A n \in 1..Len(r) : u[n] = r[n]
    BY <1>3 DEF Longer, Extends
  <2>2. /\ Len(r) = Len(s) + 1 /\ r[Len(s) + 1] = Reason(w)
        /\ \A n \in 1..Len(s) : r[n] = s[n]
    BY <1>1 DEF Longer, Extends
  <2>3. /\ Reason("own").type = "reason" /\ Stop.type = "stop"
        /\ Reason(w) # Reason("own")
    BY <1>7, MadeFrames
  <2>4. \A n \in 1..Len(s) : s[n] # Reason("own")
    <3>1. FramesOf(s, "reason") = {n \in 1..Len(s) : s[n].type = "reason"}
      BY <1>s, FramesFacts
    <3>2. \A n \in 1..Len(s) : s[n].type # "reason"
      BY <1>s, <3>1
    <3> QED BY <2>3, <3>2
  <2>5. \A n \in 1..Len(u) : n \in 1..Len(s) \/ n = Len(s) + 1 \/ n = Len(r) + 1
    BY <1>s, <2>1, <2>2
  <2>6. \A n \in 1..Len(s) : n \in 1..Len(r)
    BY <1>s, <2>2
  <2>7. Len(s) + 1 \in 1..Len(r)
    BY <1>s, <2>2
  <2>8. \A n \in 1..Len(s) : u[n] # Reason("own")
    BY <2>1, <2>2, <2>4, <2>6
  <2>9. u[Len(s) + 1] # Reason("own")
    BY <2>1, <2>2, <2>3, <2>7
  <2>10. u[Len(r) + 1] # Reason("own")
    BY <2>1, <2>3
  <2>11. ASSUME NEW n \in 1..Len(u) PROVE u[n] # Reason("own")
    <3>1. n \in 1..Len(s) \/ n = Len(s) + 1 \/ n = Len(r) + 1
      BY <2>5
    <3> QED BY <2>8, <2>9, <2>10, <3>1
  <2>12. DOMAIN u = 1..Len(u)
    BY <2>1
  <2> QED BY <2>11, <2>12 DEF Range
<1> QED BY <1>4, <1>6, <1>7

-----------------------------------------------------------------------------
(* The seam. *)

\* The number of the next block is above all, and the text block that goes on is open.
LEMMA NextIndexFacts ==
  ASSUME NEW s \in Seq(Frames)
  PROVE  NextIndex(s) \in Nat /\ \A i \in Opened(s) : i < NextIndex(s)
<1>1. CASE Opened(s) = {}
  BY <1>1 DEF NextIndex
<1>2. CASE Opened(s) # {}
  <2> DEFINE x == Max(Opened(s))
  <2>1. PICK b \in Nat : Opened(s) \in SUBSET (0..b)
    BY BlocksAreBounded
  <2>2. x \in Opened(s) /\ \A i \in Opened(s) : x >= i
    BY <1>2, <2>1, GreatestFacts
  <2>3. NextIndex(s) = x + 1
    BY <1>2 DEF NextIndex
  <2>4. Opened(s) \subseteq Nat
    BY <2>1
  <2> HIDE DEF x
  <2>5. x \in Nat
    BY <2>2, <2>4
  <2>6. ASSUME NEW i \in Opened(s) PROVE i < x + 1
    <3>1. i \in Nat /\ x >= i
      BY <2>2, <2>4
    <3> QED BY <2>5, <3>1
  <2> QED BY <2>3, <2>5, <2>6
<1> QED BY <1>1, <1>2

\* The open text block the splicer finds is one of the open text blocks.
LEMMA OpenTextFacts ==
  ASSUME NEW s \in Seq(Frames)
  PROVE  \/ OpenText(s) = NoIndex
         \/ OpenText(s) \in OpenBlocks(s) /\ IsKind(s, OpenText(s), "text")
<1> DEFINE texts == {i \in OpenBlocks(s) : IsKind(s, i, "text")}
<1>1. OpenText(s) = NoIndex \/ (texts # {} /\ OpenText(s) = Min(texts))
  BY DEF OpenText
<1>2. ASSUME texts # {} PROVE Min(texts) \in texts
  <2>1. texts \in SUBSET Nat
    BY FramesFacts
  <2> HIDE DEF texts
  <2>2. \E k \in texts : \A i \in texts : k <= i
    BY <1>2, <2>1, NatMinimum
  <2> QED BY <2>2 DEF Min
<1> QED BY <1>1, <1>2

\* A splicer tells itself from none.
LEMMA SplicerFacts ==
  ASSUME NEW sp \in Splicers
  PROVE  sp # NoSplicer
<1>1. "text" \in DOMAIN sp
  BY DEF Splicers
<1>2. "text" \notin DOMAIN NoSplicer
  BY DEF NoSplicer
<1> QED BY <1>1, <1>2

\* What the splicer of a message that is closed for another model knows of it.
LEMMA SeamFollows ==
  ASSUME NEW s, Sound(s), Closable(s), HasText(s), NEW t, t = s \o CloseFrames(s)
  PROVE  /\ Sound(t) /\ Underway(t) /\ FramesOf(t, "delta") # {}
         /\ Knows(NewSplicer(s), t) /\ Follows(NewSplicer(s), t, Fresh)
<1> DEFINE x == OpenText(s)
           B == OpenBlocks(s) \ {x}
           sp == NewSplicer(s)
<1>s. s \in Seq(Frames) /\ WellFormed(s)
  BY DEF Sound
<1>1. /\ \A type : FramesOf(s, type) = {n \in 1..Len(s) : s[n].type = type}
      /\ Opened(s) \subseteq Nat /\ OpenBlocks(s) \subseteq Opened(s)
  BY <1>s, FramesFacts
<1>2. Underway(s)
  <2>1. FramesOf(s, "delta") # {} /\ FramesOf(s, "reason") = {}
    BY DEF Closable, HasText
  <2>2. s # <<>>
    BY <1>1, <2>1
  <2> QED BY <2>1, <2>2 DEF Underway
<1>3. \A i \in OpenBlocks(s) : IsKind(s, i, "tool") => HasContent(s, i)
  BY DEF Closable, IncompleteToolUse
<1>4. B \in SUBSET OpenBlocks(s) /\ B \in SUBSET Opened(s)
  BY <1>1
<1>5. Joined(s, Closings(B), t)
  <2>1. CloseFrames(s) = Closings(B)
    BY DEF CloseFrames
  <2>2. Closings(B) \in Seq(Frames)
    BY <1>s, <1>4, ClosingsFacts
  <2> QED BY <1>s, <2>1, <2>2, ConcatIsJoined
<1>6. /\ Sound(t) /\ Underway(t)
      /\ Opened(t) = Opened(s) /\ OpenBlocks(t) = OpenBlocks(s) \ B
      /\ \A j, l : IsKind(t, j, l) <=> IsKind(s, j, l)
      /\ FramesOf(t, "delta") = FramesOf(s, "delta")
  BY <1>2, <1>3, <1>4, <1>5, ClosingsFollow
<1>7. x = NoIndex \/ (x \in OpenBlocks(s) /\ IsKind(s, x, "text"))
  BY <1>s, OpenTextFacts
<1>8. NextIndex(s) \in Nat /\ \A i \in Opened(s) : i < NextIndex(s)
  BY <1>s, NextIndexFacts
<1>9. sp = [text |-> x, next |-> NextIndex(s), open |-> {x} \ {NoIndex},
            index |-> [b \in Sources |-> NoIndex], adopted |-> NoIndex, dropped |-> {},
            candidate |-> <<>>, decided |-> FALSE, rejected |-> FALSE, spoke |-> FALSE]
  BY DEF NewSplicer
<1>10. OpenBlocks(t) = {x} \ {NoIndex}
  <2>1. NoIndex \notin OpenBlocks(s)
    BY <1>1 DEF NoIndex
  <2> QED BY <1>6, <1>7, <2>1
<1>11. x \in Nat \cup {NoIndex} /\ {x} \ {NoIndex} \in SUBSET Nat
  BY <1>1, <1>7
<1> HIDE DEF x, B, sp
<1>f. /\ sp.text = x /\ sp.next = NextIndex(s) /\ sp.open = {x} \ {NoIndex}
      /\ sp.adopted = NoIndex /\ sp.dropped = {} /\ sp.candidate = <<>>
      /\ sp.decided = FALSE /\ sp.rejected = FALSE
  BY <1>9
<1>12. sp \in Splicers
  <2>1. [b \in Sources |-> NoIndex] \in [Sources -> Nat \cup {NoIndex}]
    OBVIOUS
  <2>2. <<>> \in Seq(Frames) /\ {} \in SUBSET Sources
    OBVIOUS
  <2> QED BY <1>8, <1>9, <1>11, <2>1, <2>2 DEF Splicers
<1>13. Knows(sp, t)
  <2>1. sp.open = OpenBlocks(t) /\ \A i \in Opened(t) : i < sp.next
    BY <1>6, <1>8, <1>10, <1>f
  <2>2. sp.text # NoIndex =>
          sp.text \in Opened(t) /\ sp.text \in OpenBlocks(t) /\ IsKind(t, sp.text, "text")
    <3>1. sp.text # NoIndex => x \in OpenBlocks(t) /\ x \in Opened(t)
      BY <1>1, <1>6, <1>7, <1>10, <1>f
    <3>2. sp.text # NoIndex => IsKind(t, x, "text")
      BY <1>6, <1>7, <1>f
    <3> QED BY <3>1, <3>2, <1>f
  <2> QED BY <1>12, <1>f, <2>1, <2>2 DEF Knows
<1>14. Follows(sp, t, Fresh)
  <2>1. Fresh.phase = "new" /\ Fresh.blocks = 0 /\ "new" \notin Kinds
    BY DEF Fresh, Kinds
  <2>2. ASSUME NEW i, Hollow(t, i) PROVE FALSE
    <3>1. i \in OpenBlocks(t) /\ IsKind(t, i, "tool")
      BY <2>2 DEF Hollow
    <3>2. i = x /\ IsKind(s, x, "tool") /\ IsKind(s, x, "text")
      BY <1>6, <1>7, <1>10, <3>1
    <3> QED BY <1>s, <3>2, OneKind
  <2>3. NoIndex < 0
    BY DEF NoIndex
  <2> QED BY <1>f, <2>1, <2>2, <2>3 DEF Follows
<1>15. FramesOf(t, "delta") # {}
  BY <1>6 DEF HasText
<1> QED BY <1>6, <1>13, <1>14, <1>15 DEF sp

-----------------------------------------------------------------------------
(* A message that is continued. *)

\* What the frames sent so far leave open or empty only becomes less.
Grows(s, t) ==
  /\ OpenBlocks(t) = OpenBlocks(s) /\ Opened(t) = Opened(s)
  /\ \A j, l : IsKind(t, j, l) <=> IsKind(s, j, l)
  /\ \A j : HasContent(s, j) => HasContent(t, j)
  /\ FramesOf(s, "delta") # {} => FramesOf(t, "delta") # {}

\* One frame of the continuation is dealt with, and its stream is at v.
Carries(s, r, v) ==
  LET t == s \o r.out
  IN /\ Sound(t) /\ Underway(t)
     /\ FramesOf(s, "delta") # {} => FramesOf(t, "delta") # {}
     /\ Knows(r.splicer, t) /\ Follows(r.splicer, t, v)

\* The verdict: what the splicer held back is sent, or given up.
LEMMA DecideCases ==
  ASSUME NEW s, Sound(s), NEW sp, Knows(sp, s)
  PROVE  LET d == Decide(sp)
         IN /\ d.splicer \in Splicers /\ d.splicer.decided /\ d.splicer.candidate = <<>>
            /\ d.splicer.text = sp.text /\ d.splicer.next = sp.next
            /\ d.splicer.open = sp.open /\ d.splicer.index = sp.index
            /\ d.splicer.adopted = sp.adopted /\ d.splicer.dropped = sp.dropped
            /\ sp.decided => d.splicer = sp /\ d.out = <<>>
            /\ d.splicer.rejected => d.out = <<>>
            /\ \/ d.out = <<>>
               \/ /\ ~sp.decided /\ sp.text # NoIndex
                  /\ \E m \in Models, w \in {"new", "again"} :
                       d.out = <<Delta(sp.text, "text", m, w)>>
<1> DEFINE d == Decide(sp)
<1>1. /\ sp \in Splicers
      /\ sp.candidate # <<>> =>
           /\ ~sp.decided /\ sp.text # NoIndex
           /\ \E m \in Models, w \in {"new", "again"} :
                sp.candidate = <<Delta(sp.text, "text", m, w)>>
      /\ sp.rejected => sp.decided
  BY DEF Knows
<1>2. CASE sp.decided
  <2>1. d = [splicer |-> sp, out |-> <<>>]
    BY <1>2 DEF Decide, Result
  <2>2. d.splicer = sp /\ d.out = <<>>
    BY <2>1
  <2>3. sp.candidate = <<>>
    BY <1>1, <1>2
  <2> HIDE DEF d
  <2>4. d.splicer \in Splicers /\ d.splicer.decided /\ d.splicer.candidate = <<>>
    BY <1>1, <1>2, <2>2, <2>3
  <2> QED BY <2>2, <2>4 DEF d
<1>3. CASE ~sp.decided
  <2> DEFINE r == [sp EXCEPT !.decided = TRUE, !.rejected = TRUE, !.candidate = <<>>]
             a == [sp EXCEPT !.decided = TRUE, !.spoke = sp.candidate # <<>>, !.candidate = <<>>]
  <2>0. ~sp.rejected
    BY <1>1, <1>3
  <2>1. d = [splicer |-> r, out |-> <<>>] \/ d = [splicer |-> a, out |-> sp.candidate]
    BY <1>3 DEF Decide, Result
  <2>2. <<>> \in Seq(Frames) /\ (sp.candidate # <<>>) \in BOOLEAN
    OBVIOUS
  <2>r. /\ r \in Splicers /\ r.decided = TRUE /\ r.candidate = <<>> /\ r.text = sp.text
        /\ r.next = sp.next /\ r.open = sp.open /\ r.index = sp.index
        /\ r.adopted = sp.adopted /\ r.dropped = sp.dropped
    BY <1>1, <2>2 DEF Splicers
  <2>a. /\ a \in Splicers /\ a.decided = TRUE /\ a.candidate = <<>> /\ a.text = sp.text
        /\ a.next = sp.next /\ a.open = sp.open /\ a.index = sp.index
        /\ a.adopted = sp.adopted /\ a.dropped = sp.dropped /\ a.rejected = sp.rejected
    BY <1>1, <2>2 DEF Splicers
  <2> HIDE DEF r, a, d
  <2>3. CASE d = [splicer |-> r, out |-> <<>>]
    <3>1. d.splicer = r /\ d.out = <<>>
      BY <2>3
    <3> QED BY <1>3, <2>r, <3>1 DEF d
  <2>4. CASE d = [splicer |-> a, out |-> sp.candidate]
    <3>1. d.splicer = a /\ d.out = sp.candidate
      BY <2>4
    <3>2. ~a.rejected
      BY <2>0, <2>a
    <3>3. \/ d.out = <<>>
          \/ /\ ~sp.decided /\ sp.text # NoIndex
             /\ \E m \in Models, w \in {"new", "again"} :
                  d.out = <<Delta(sp.text, "text", m, w)>>
      BY <1>1, <3>1
    <3> QED BY <1>3, <2>a, <3>1, <3>2, <3>3 DEF d
  <2> QED BY <2>1, <2>3, <2>4
<1> QED BY <1>2, <1>3

\* The verdict on the seam leaves the message sound, and the splicer true to it.
LEMMA DecideKeeps ==
  ASSUME NEW s, NEW sp, Sound(s), Underway(s), Knows(sp, s)
  PROVE  LET t == s \o Decide(sp).out
         IN /\ Sound(t) /\ Underway(t) /\ Grows(s, t)
            /\ Decide(sp).out \in Seq(Frames)
            /\ Knows(Decide(sp).splicer, t)
            /\ \A u : Follows(sp, s, u) => Follows(Decide(sp).splicer, t, u)
                                          /\ Carries(s, Decide(sp), u)
            /\ Decide(sp).out = <<>> => t = s
<1> DEFINE e == Decide(sp).splicer
           o == Decide(sp).out
           t == s \o o
<1>s. s \in Seq(Frames)
  BY DEF Sound
<1>1. /\ e \in Splicers /\ e.decided /\ e.candidate = <<>>
      /\ e.text = sp.text /\ e.next = sp.next /\ e.open = sp.open /\ e.index = sp.index
      /\ e.adopted = sp.adopted /\ e.dropped = sp.dropped
      /\ sp.decided => e = sp
  BY DecideCases
<1>2. \/ o = <<>>
      \/ /\ ~sp.decided /\ sp.text # NoIndex
         /\ \E m \in Models, w \in {"new", "again"} : o = <<Delta(sp.text, "text", m, w)>>
  BY DecideCases
<1>t. t = s \o o
  OBVIOUS
<1> HIDE DEF e, o, t
<1>3. /\ sp.open = OpenBlocks(s) /\ (\A i \in Opened(s) : i < sp.next)
      /\ sp.text # NoIndex => sp.text \in Opened(s)
      /\ sp.text # NoIndex /\ (sp.adopted = NoIndex \/ ~sp.decided)
           => sp.text \in OpenBlocks(s) /\ IsKind(s, sp.text, "text")
  BY DEF Knows
<1>4. /\ Sound(t) /\ Underway(t) /\ Grows(s, t) /\ o \in Seq(Frames) /\ (o = <<>> => t = s)
  <2>1. CASE o = <<>>
    <3>1. t = s
      BY <1>s, <1>t, <2>1, ConcatEmptySeq
    <3> QED BY <2>1, <3>1 DEF Grows
  <2>2. CASE /\ ~sp.decided /\ sp.text # NoIndex
             /\ \E m \in Models, w \in {"new", "again"} : o = <<Delta(sp.text, "text", m, w)>>
    <3>1. PICK m \in Models, w \in {"new", "again"} : o = <<Delta(sp.text, "text", m, w)>>
      BY <2>2
    <3>2. sp.text \in OpenBlocks(s) /\ IsKind(s, sp.text, "text") /\ "text" \in Kinds
      BY <1>3, <2>2 DEF Kinds
    <3> DEFINE f == Delta(sp.text, "text", m, w)
    <3>3. f \in Frames
      <4>1. sp.text \in Nat
        BY <1>s, <3>2, FramesFacts
      <4> QED BY <3>2, <4>1, MadeFrames
    <3>o. o = <<f>>
      BY <3>1
    <3> HIDE DEF f
    <3>4. t = Append(s, f) /\ o \in Seq(Frames) /\ o # <<>>
      BY <1>s, <1>t, <3>3, <3>o, AppendIsConcat
    <3>5. Longer(s, f, t)
      BY <1>s, <3>3, <3>4, AppendIsLonger
    <3>6. Longer(s, Delta(sp.text, "text", m, w), t)
      BY <3>5 DEF f
    <3>7. /\ Sound(t) /\ Underway(t)
          /\ Opened(t) = Opened(s) /\ OpenBlocks(t) = OpenBlocks(s)
          /\ \A j, l : IsKind(t, j, l) <=> IsKind(s, j, l)
          /\ \A j : HasContent(t, j) <=> HasContent(s, j) \/ j = sp.text
          /\ FramesOf(t, "delta") # {}
      BY <3>2, <3>6, DeltaFollows
    <3> QED BY <3>4, <3>7 DEF Grows
  <2> QED BY <1>2, <2>1, <2>2
<1>5. /\ OpenBlocks(t) = OpenBlocks(s) /\ Opened(t) = Opened(s)
      /\ \A j, l : IsKind(t, j, l) <=> IsKind(s, j, l)
      /\ \A j : HasContent(s, j) => HasContent(t, j)
  BY <1>4 DEF Grows
<1>6. Knows(e, t)
  BY <1>1, <1>3, <1>5 DEF Knows
<1>7. ASSUME NEW u, Follows(sp, s, u) PROVE Follows(e, t, u)
  <2> DEFINE b == u.blocks - 1
  <2>1. /\ sp.adopted < u.blocks /\ \A c \in sp.dropped : c < u.blocks
        /\ \A i \in Nat : Hollow(s, i) =>
             u.phase = "tool" /\ ~u.spoke /\ ~sp.rejected /\ sp.index[b] = i
        /\ u.phase \in Kinds /\ ~sp.rejected =>
             /\ b \in Sources
             /\ b \in sp.dropped <=> u.phase = "thinking"
             /\ u.phase # "thinking" =>
                  /\ sp.index[b] \in OpenBlocks(s) /\ IsKind(s, sp.index[b], u.phase)
                  /\ b = sp.adopted => u.phase = "text" /\ sp.index[b] = sp.text
                  /\ b # sp.adopted => sp.decided /\ sp.index[b] # sp.text
                  /\ u.phase = "tool" /\ u.spoke => HasContent(s, sp.index[b])
    BY <1>7 DEF Follows
  <2> HIDE DEF b
  <2>2. ~e.rejected => ~sp.rejected
    <3>1. sp.rejected => sp.decided
      BY DEF Knows
    <3> QED BY <1>1, <3>1
  <2>3. ASSUME NEW i \in Nat, Hollow(t, i)
        PROVE  u.phase = "tool" /\ ~u.spoke /\ ~e.rejected /\ e.index[b] = i
    <3>1. Hollow(s, i)
      BY <1>5, <2>3 DEF Hollow
    <3>2. u.phase = "tool" /\ ~u.spoke /\ ~sp.rejected /\ sp.index[b] = i
      BY <2>1, <3>1
    <3>3. sp.decided
      BY <2>1, <3>2 DEF Kinds
    <3> QED BY <1>1, <3>2, <3>3
  <2>4. ASSUME u.phase \in Kinds, ~e.rejected
        PROVE  /\ b \in Sources
               /\ b \in e.dropped <=> u.phase = "thinking"
               /\ u.phase # "thinking" =>
                    /\ e.index[b] \in OpenBlocks(t) /\ IsKind(t, e.index[b], u.phase)
                    /\ b = e.adopted => u.phase = "text" /\ e.index[b] = e.text
                    /\ b # e.adopted => e.decided /\ e.index[b] # e.text
                    /\ u.phase = "tool" /\ u.spoke => HasContent(t, e.index[b])
    BY <1>1, <1>5, <2>1, <2>2, <2>4
  <2> QED BY <1>1, <2>1, <2>3, <2>4 DEF Follows, b
<1>8. ASSUME NEW u, Follows(sp, s, u) PROVE Carries(s, Decide(sp), u)
  <2>1. Follows(e, t, u)
    BY <1>7, <1>8
  <2>2. FramesOf(s, "delta") # {} => FramesOf(t, "delta") # {}
    BY <1>4 DEF Grows
  <2>3. Decide(sp).splicer = e /\ s \o Decide(sp).out = t
    BY DEF e, o, t
  <2> QED BY <1>4, <1>6, <2>1, <2>2, <2>3 DEF Carries
<1> QED BY <1>4, <1>6, <1>7, <1>8 DEF e, o, t

\* A frame the splicer keeps silent about carries the message along;
LEMMA SilenceCarries ==
  ASSUME NEW s, Sound(s), Underway(s), NEW sp, NEW v, Knows(sp, s), Follows(sp, s, v)
  PROVE  Carries(s, Result(sp, <<>>), v)
<1>1. s \o <<>> = s
  <2>1. s \in Seq(Frames)
    BY DEF Sound
  <2> QED BY <2>1, ConcatEmptySeq
<1>2. Result(sp, <<>>).splicer = sp /\ Result(sp, <<>>).out = <<>>
  BY DEF Result
<1> QED BY <1>1, <1>2 DEF Carries

\* and so does one that only brings the verdict.
LEMMA VerdictCarries ==
  ASSUME NEW s, NEW sp, NEW v, Sound(s), Underway(s), Knows(sp, s), Follows(sp, s, v)
  PROVE  Carries(s, Decide(sp), v)
<1>1. \A u : Follows(sp, s, u) => Carries(s, Decide(sp), u)
  BY DecideKeeps
<1> QED BY <1>1

\* A frame that follows the verdict.
LEMMA JudgedCarries ==
  ASSUME NEW s, Sound(s), Underway(s), NEW sp, Knows(sp, s), NEW e, NEW f \in Frames, NEW v,
         Decide(sp).splicer.rejected => Carries(s, Decide(sp), v),
         ~Decide(sp).splicer.rejected => Carries(s \o Decide(sp).out, Result(e, <<f>>), v)
  PROVE  Carries(s, Judged(Decide(sp), Result(e, <<f>>)), v)
<1> DEFINE d == Decide(sp)
           t == s \o d.out
<1>0. d.out \in Seq(Frames) /\ Grows(s, t) /\ s \in Seq(Frames)
  <2>1. s \in Seq(Frames)
    BY DEF Sound
  <2>2. d.out \in Seq(Frames) /\ Grows(s, t)
    BY DecideKeeps
  <2> QED BY <2>1, <2>2
<1>1. CASE d.splicer.rejected
  <2>1. Judged(d, Result(e, <<f>>)) = d
    BY <1>1 DEF Judged
  <2> QED BY <1>1, <2>1
<1>2. CASE ~d.splicer.rejected
  <2>1. Judged(d, Result(e, <<f>>)) = Result(e, d.out \o <<f>>)
    BY <1>2 DEF Judged, Result
  <2>2. Carries(t, Result(e, <<f>>), v)
    BY <1>2
  <2>3. Result(e, <<f>>).out = <<f>> /\ Result(e, <<f>>).splicer = e
    BY DEF Result
  <2>4. Result(e, d.out \o <<f>>).out = d.out \o <<f>> /\ Result(e, d.out \o <<f>>).splicer = e
    BY DEF Result
  <2>5. s \o (d.out \o <<f>>) = t \o <<f>>
    <3> DEFINE o == d.out
               g == <<f>>
    <3>1. g \in Seq(Frames) /\ o \in Seq(Frames) /\ s \in Seq(Frames)
      BY <1>0
    <3> HIDE DEF o, g
    <3>2. (s \o o) \o g = s \o (o \o g)
      BY <3>1, ConcatAssociative
    <3> QED BY <3>2 DEF o, g
  <2> HIDE DEF d
  <2>6. FramesOf(s, "delta") # {} => FramesOf(t, "delta") # {}
    BY <1>0 DEF Grows
  <2> HIDE DEF t
  <2>7. /\ Sound(t \o <<f>>) /\ Underway(t \o <<f>>)
        /\ FramesOf(t, "delta") # {} => FramesOf(t \o <<f>>, "delta") # {}
        /\ Knows(e, t \o <<f>>) /\ Follows(e, t \o <<f>>, v)
    BY <2>2, <2>3 DEF Carries
  <2>8. Carries(s, Result(e, d.out \o <<f>>), v)
    BY <2>4, <2>5, <2>6, <2>7 DEF Carries
  <2> QED BY <2>1, <2>8 DEF d
<1> QED BY <1>1, <1>2

\* One frame is sent.
LEMMA SentCarries ==
  ASSUME NEW s \in Seq(Frames), NEW e, NEW f \in Frames, NEW v,
         NEW t, Longer(s, f, t),
         Sound(t), Underway(t), FramesOf(s, "delta") # {} => FramesOf(t, "delta") # {},
         Knows(e, t), Follows(e, t, v), t = Append(s, f)
  PROVE  Carries(s, Result(e, <<f>>), v)
<1>1. t = s \o <<f>>
  BY AppendIsConcat
<1>2. Result(e, <<f>>).out = <<f>> /\ Result(e, <<f>>).splicer = e
  BY DEF Result
<1> HIDE DEF Longer
<1> QED BY <1>1, <1>2 DEF Carries

\* Where a stream is.
At(u, phase, blocks, spoke) == u.phase = phase /\ u.blocks = blocks /\ u.spoke = spoke

\* What nothing is made of changes nothing.
LEMMA IgnoredFollows ==
  ASSUME NEW s, NEW sp, NEW u, NEW v, Knows(sp, s), Follows(sp, s, u),
         u.blocks \in Nat, v.blocks \in {u.blocks, u.blocks + 1},
         sp.rejected \/ (u.phase # "tool" /\ v.phase \notin Kinds)
  PROVE  Follows(sp, s, v)
<1>1. sp.adopted \in Int /\ (\A d \in sp.dropped : d \in Int) /\ u.blocks <= v.blocks
        /\ v.blocks \in Nat
  BY DEF Knows, Splicers, Sources, NoIndex
<1>2. /\ sp.adopted < u.blocks /\ \A d \in sp.dropped : d < u.blocks
      /\ \A i \in Nat : Hollow(s, i) => u.phase = "tool" /\ ~sp.rejected
  BY DEF Follows
<1>3. sp.adopted < v.blocks /\ \A d \in sp.dropped : d < v.blocks
  BY <1>1, <1>2
<1>4. \A i \in Nat : ~Hollow(s, i)
  BY <1>2
<1>5. ~(v.phase \in Kinds /\ ~sp.rejected)
  OBVIOUS
<1> QED BY <1>3, <1>4, <1>5 DEF Follows

\* A thinking block begins: its frames are left out.
LEMMA ThinkingOpens ==
  ASSUME NEW s, NEW sp, NEW u, NEW v, NEW n \in Sources, Knows(sp, s), Follows(sp, s, u),
         u.phase = "between", u.blocks = n, At(v, "thinking", n + 1, FALSE)
  PROVE  LET e == [sp EXCEPT !.dropped = @ \cup {n}] IN Knows(e, s) /\ Follows(e, s, v)
<1> DEFINE e == [sp EXCEPT !.dropped = @ \cup {n}]
<1>1. sp \in Splicers /\ n \in Nat
  BY DEF Knows, Sources
<1>2. /\ e \in Splicers /\ e.text = sp.text /\ e.next = sp.next /\ e.open = sp.open
      /\ e.index = sp.index /\ e.adopted = sp.adopted /\ e.dropped = sp.dropped \cup {n}
      /\ e.candidate = sp.candidate /\ e.decided = sp.decided /\ e.rejected = sp.rejected
  BY <1>1 DEF Splicers
<1> HIDE DEF e
<1>3. Knows(e, s)
  BY <1>2 DEF Knows
<1>4. sp.adopted \in Int /\ \A d \in sp.dropped : d \in Int
  BY <1>1 DEF Splicers, Sources, NoIndex
<1>5. /\ sp.adopted < n /\ \A d \in sp.dropped : d < n
      /\ \A i \in Nat : ~Hollow(s, i)
  BY DEF Follows
<1>6. e.adopted < v.blocks /\ \A d \in e.dropped : d < v.blocks
  BY <1>1, <1>2, <1>4, <1>5 DEF At
<1>7. v.phase = "thinking" /\ v.blocks - 1 = n
  BY <1>1 DEF At
<1>8. Follows(e, s, v)
  BY <1>2, <1>5, <1>6, <1>7 DEF Follows
<1> QED BY <1>3, <1>8 DEF e

\* The first text block goes on writing the block that is open.
LEMMA TextAdopted ==
  ASSUME NEW s, NEW sp, NEW u, NEW v, NEW n \in Sources, Knows(sp, s), Follows(sp, s, u),
         u.phase = "between", u.blocks = n, At(v, "text", n + 1, FALSE),
         sp.text # NoIndex, sp.adopted = NoIndex
  PROVE  LET e == [sp EXCEPT !.adopted = n, !.index[n] = sp.text]
         IN Knows(e, s) /\ Follows(e, s, v)
<1> DEFINE e == [sp EXCEPT !.adopted = n, !.index[n] = sp.text]
<1>1. sp \in Splicers /\ n \in Nat
  BY DEF Knows, Sources
<1>2. /\ e \in Splicers /\ e.text = sp.text /\ e.next = sp.next /\ e.open = sp.open
      /\ e.index[n] = sp.text /\ e.adopted = n /\ e.dropped = sp.dropped
      /\ e.candidate = sp.candidate /\ e.decided = sp.decided /\ e.rejected = sp.rejected
  BY <1>1 DEF Splicers
<1> HIDE DEF e
<1>k. sp.text \in OpenBlocks(s) /\ IsKind(s, sp.text, "text")
  BY DEF Knows
<1>3. Knows(e, s)
  BY <1>2, <1>k DEF Knows
<1>4. \A d \in sp.dropped : d \in Int
  BY <1>1 DEF Splicers, Sources
<1>5. (\A d \in sp.dropped : d < n) /\ \A i \in Nat : ~Hollow(s, i)
  BY DEF Follows
<1>6. e.adopted < v.blocks /\ \A d \in e.dropped : d < v.blocks
  BY <1>1, <1>2, <1>4, <1>5 DEF At
<1>7. v.phase = "text" /\ v.blocks - 1 = n /\ n \notin sp.dropped
  BY <1>1, <1>4, <1>5 DEF At
<1>8. Follows(e, s, v)
  BY <1>2, <1>k, <1>5, <1>6, <1>7 DEF Follows
<1> QED BY <1>3, <1>8 DEF e

\* Any other block gets the next number.
LEMMA BlockOpens ==
  ASSUME NEW s, NEW sp, NEW u, NEW v, NEW n \in Sources, NEW k \in {"text", "tool"},
         Sound(s), Underway(s), Knows(sp, s), Follows(sp, s, u),
         u.phase = "between", u.blocks = n, At(v, k, n + 1, FALSE), sp.decided, ~sp.rejected
  PROVE  Carries(s, Result([sp EXCEPT !.index[n] = sp.next, !.next = @ + 1,
                                      !.open = @ \cup {sp.next}],
                           <<Open(sp.next, k)>>), v)
<1> DEFINE e == [sp EXCEPT !.index[n] = sp.next, !.next = @ + 1, !.open = @ \cup {sp.next}]
           f == Open(sp.next, k)
           t == Append(s, f)
<1>s. s \in Seq(Frames)
  BY DEF Sound
<1>1. sp \in Splicers /\ n \in Nat /\ sp.next \in Nat /\ k \in Kinds
  BY DEF Knows, Sources, Splicers, Kinds
<1>2. /\ e \in Splicers /\ e.text = sp.text /\ e.next = sp.next + 1
      /\ e.open = sp.open \cup {sp.next}
      /\ e.index[n] = sp.next /\ e.adopted = sp.adopted /\ e.dropped = sp.dropped
      /\ e.candidate = sp.candidate /\ e.decided = sp.decided /\ e.rejected = sp.rejected
  <2> DEFINE j == [sp.index EXCEPT ![n] = sp.next]
  <2>1. e = [sp EXCEPT !.index = j, !.next = sp.next + 1, !.open = sp.open \cup {sp.next}]
    OBVIOUS
  <2>2. sp.index \in [Sources -> Nat \cup {NoIndex}] /\ sp.open \in SUBSET Nat
    BY <1>1 DEF Splicers
  <2>3. j \in [Sources -> Nat \cup {NoIndex}] /\ j[n] = sp.next
    BY <1>1, <2>2
  <2>4. sp.next + 1 \in Nat /\ sp.open \cup {sp.next} \in SUBSET Nat
    BY <1>1, <2>2
  <2> HIDE DEF e, j
  <2>5. e \in Splicers /\ e.index = j
    BY <1>1, <2>1, <2>3, <2>4 DEF Splicers
  <2>6. /\ e.text = sp.text /\ e.next = sp.next + 1
        /\ e.open = sp.open \cup {sp.next} /\ e.adopted = sp.adopted
        /\ e.dropped = sp.dropped /\ e.candidate = sp.candidate /\ e.decided = sp.decided
        /\ e.rejected = sp.rejected
    BY <1>1, <2>1 DEF Splicers
  <2> QED BY <2>3, <2>5, <2>6
<1>f. f \in Frames
  BY <1>1, MadeFrames
<1>3. Longer(s, f, t)
  BY <1>s, <1>f, AppendIsLonger
<1>t. t = Append(s, f)
  OBVIOUS
<1>4. Longer(s, Open(sp.next, k), t)
  BY <1>3
<1> HIDE DEF e, f, t
<1>5. /\ sp.open = OpenBlocks(s) /\ (\A i \in Opened(s) : i < sp.next)
      /\ sp.text # NoIndex => sp.text \in Opened(s)
      /\ sp.text # NoIndex /\ sp.adopted = NoIndex
           => sp.text \in OpenBlocks(s) /\ IsKind(s, sp.text, "text")
      /\ sp.candidate = <<>>
  BY DEF Knows
<1>6. Opened(s) \subseteq Nat /\ OpenBlocks(s) \subseteq Opened(s)
  BY <1>s, FramesFacts
<1>7. sp.next \notin Opened(s) /\ sp.text # sp.next
  <2>1. ~(sp.next < sp.next)
    BY <1>1
  <2>2. sp.text # sp.next
    BY <1>1, <1>5, <2>1 DEF NoIndex
  <2> QED BY <1>5, <2>1, <2>2
<1>8. /\ Sound(t) /\ Underway(t)
      /\ Opened(t) = Opened(s) \cup {sp.next} /\ OpenBlocks(t) = OpenBlocks(s) \cup {sp.next}
      /\ \A j, l : IsKind(t, j, l) <=> IsKind(s, j, l) \/ (j = sp.next /\ l = k)
      /\ \A j : HasContent(t, j) <=> HasContent(s, j)
      /\ FramesOf(t, "delta") = FramesOf(s, "delta")
  BY <1>1, <1>4, <1>7, OpenFollows
<1>9. Knows(e, t)
  <2>1. \A i \in Opened(t) : i < e.next
    BY <1>1, <1>2, <1>5, <1>6, <1>8
  <2>2. e.open = OpenBlocks(t)
    BY <1>2, <1>5, <1>8
  <2>3. /\ e.text # NoIndex => e.text \in Opened(t)
        /\ e.text # NoIndex /\ e.adopted = NoIndex
             => e.text \in OpenBlocks(t) /\ IsKind(t, e.text, "text")
    BY <1>2, <1>5, <1>8
  <2>4. e.decided /\ e.candidate = <<>>
    BY <1>2, <1>5
  <2> QED BY <1>2, <2>1, <2>2, <2>3, <2>4 DEF Knows
<1>10. sp.adopted \in Int /\ \A d \in sp.dropped : d \in Int
  BY <1>1 DEF Splicers, Sources, NoIndex
<1>11. /\ sp.adopted < n /\ \A d \in sp.dropped : d < n
       /\ \A i \in Nat : ~Hollow(s, i)
  BY DEF Follows
<1>12. e.adopted < v.blocks /\ \A d \in e.dropped : d < v.blocks
  BY <1>1, <1>2, <1>10, <1>11 DEF At
<1>13. v.phase = k /\ v.blocks - 1 = n /\ ~v.spoke /\ n \notin sp.dropped /\ n # sp.adopted
  BY <1>1, <1>10, <1>11 DEF At
<1>14. ASSUME NEW i \in Nat, Hollow(t, i) PROVE v.phase = "tool" /\ e.index[n] = i
  <2>1. i \in OpenBlocks(t) /\ IsKind(t, i, "tool") /\ ~HasContent(t, i)
    BY <1>14 DEF Hollow
  <2>2. i = sp.next
    <3> SUFFICES ASSUME i # sp.next PROVE FALSE
      OBVIOUS
    <3>1. i \in OpenBlocks(s) /\ IsKind(s, i, "tool") /\ ~HasContent(s, i)
      BY <1>8, <2>1
    <3> QED BY <1>11, <3>1 DEF Hollow
  <2>3. ~IsKind(s, i, "tool")
    <3> SUFFICES ASSUME IsKind(s, i, "tool") PROVE FALSE
      OBVIOUS
    <3>1. \E m \in FramesOf(s, "open") : s[m].index = i
      BY <1>s, FramesFacts
    <3> QED BY <1>7, <2>2, <3>1 DEF Opened
  <2> QED BY <1>2, <1>8, <1>13, <2>1, <2>2, <2>3
<1>15. e.index[n] \in OpenBlocks(t) /\ IsKind(t, e.index[n], k)
  BY <1>2, <1>8
<1>16. Follows(e, t, v)
  BY <1>2, <1>7, <1>12, <1>13, <1>14, <1>15 DEF Follows
<1>17. FramesOf(s, "delta") # {} => FramesOf(t, "delta") # {}
  BY <1>8
<1>18. Carries(s, Result(e, <<f>>), v)
  BY <1>s, <1>f, <1>3, <1>t, <1>8, <1>9, <1>16, <1>17, SentCarries
<1> QED BY <1>18 DEF e, f

\* What follows a stream that is inside a block.
LEMMA InsideFacts ==
  ASSUME NEW s, NEW sp, NEW u, Follows(sp, s, u), u.phase \in Kinds, ~sp.rejected
  PROVE  LET b == u.blocks - 1
         IN /\ sp.adopted < u.blocks /\ \A d \in sp.dropped : d < u.blocks
            /\ \A i \in Nat : Hollow(s, i) => u.phase = "tool" /\ ~u.spoke /\ sp.index[b] = i
            /\ b \in Sources /\ (b \in sp.dropped <=> u.phase = "thinking")
            /\ u.phase # "thinking" =>
                 /\ sp.index[b] \in OpenBlocks(s) /\ IsKind(s, sp.index[b], u.phase)
                 /\ b = sp.adopted => u.phase = "text" /\ sp.index[b] = sp.text
                 /\ b # sp.adopted => sp.decided /\ sp.index[b] # sp.text
                 /\ u.phase = "tool" /\ u.spoke => HasContent(s, sp.index[b])
BY DEF Follows

\* Thinking is left out.
LEMMA ThinkingLeftOut ==
  ASSUME NEW s, NEW sp, NEW u, NEW v, Follows(sp, s, u), u.phase = "thinking", ~sp.rejected,
         At(v, "thinking", u.blocks, TRUE)
  PROVE  Follows(sp, s, v)
<1> DEFINE b == u.blocks - 1
<1>1. u.phase \in Kinds /\ "thinking" # "tool"
  BY DEF Kinds
<1>2. /\ sp.adopted < u.blocks /\ \A d \in sp.dropped : d < u.blocks
      /\ \A i \in Nat : ~Hollow(s, i)
      /\ b \in Sources /\ b \in sp.dropped
  BY <1>1, InsideFacts
<1> QED BY <1>2 DEF Follows, At

\* The words of the block that goes on are held, given up or sent.
LEMMA WordsCarry ==
  ASSUME NEW s, NEW sp, NEW u, NEW v, NEW m \in Models, NEW w \in {"new", "again"}, NEW f,
         Sound(s), Underway(s), Knows(sp, s), Follows(sp, s, u),
         u.phase \in {"text", "tool"}, u.blocks - 1 = sp.adopted, ~sp.rejected,
         At(v, u.phase, u.blocks, TRUE), f.by = m, f.words = w,
         NEW r \in OnCandidateText(sp, f)
  PROVE  Carries(s, r, v)
<1> DEFINE b == u.blocks - 1
           words == Delta(sp.text, "text", m, w)
<1>s. s \in Seq(Frames)
  BY DEF Sound
<1>k. u.phase \in Kinds /\ "text" # "tool" /\ "text" # "thinking" /\ "tool" # "thinking"
        /\ "text" \in Kinds
  BY DEF Kinds
<1>1. /\ sp.adopted < u.blocks /\ \A d \in sp.dropped : d < u.blocks
      /\ b \in Sources /\ b \notin sp.dropped
      /\ \A i \in Nat : Hollow(s, i) => u.phase = "tool"
      /\ sp.index[b] \in OpenBlocks(s) /\ IsKind(s, sp.index[b], u.phase)
      /\ u.phase = "text" /\ sp.index[b] = sp.text
  BY <1>k, InsideFacts
<1>2. sp.text \in OpenBlocks(s) /\ IsKind(s, sp.text, "text") /\ sp.text \in Nat
        /\ sp.text # NoIndex
  <2>1. OpenBlocks(s) \subseteq Nat
    BY <1>s, FramesFacts
  <2> QED BY <1>1, <2>1 DEF NoIndex
<1>f. words \in Frames
  BY <1>2, <1>k, MadeFrames
<1>3. sp \in Splicers
  BY DEF Knows
<1>v. v.phase = "text" /\ v.blocks = u.blocks
  BY <1>1 DEF At
<1>h. \A i \in Nat : ~Hollow(s, i)
  BY <1>1, <1>k
<1>4. CASE sp.decided
  <2> DEFINE e == [sp EXCEPT !.spoke = TRUE]
             t == Append(s, words)
  <2>1. r = Result(e, <<words>>)
    BY <1>4 DEF OnCandidateText
  <2>2. /\ e \in Splicers /\ e.text = sp.text /\ e.next = sp.next /\ e.open = sp.open
        /\ e.index = sp.index /\ e.adopted = sp.adopted /\ e.dropped = sp.dropped
        /\ e.candidate = sp.candidate /\ e.decided = sp.decided /\ e.rejected = sp.rejected
    BY <1>3 DEF Splicers
  <2>3. t = Append(s, words) /\ Longer(s, words, t)
    BY <1>s, <1>f, AppendIsLonger
  <2>w. Longer(s, Delta(sp.text, "text", m, w), t)
    BY <2>3
  <2> HIDE DEF e, t
  <2>4. /\ Sound(t) /\ Underway(t)
        /\ Opened(t) = Opened(s) /\ OpenBlocks(t) = OpenBlocks(s)
        /\ \A j, l : IsKind(t, j, l) <=> IsKind(s, j, l)
        /\ \A j : HasContent(t, j) <=> HasContent(s, j) \/ j = sp.text
        /\ FramesOf(t, "delta") # {}
    BY <1>2, <1>k, <2>w, DeltaFollows
  <2>5. Knows(e, t)
    BY <2>2, <2>4 DEF Knows
  <2>6. \A i \in Nat : ~Hollow(t, i)
    BY <1>h, <2>4 DEF Hollow
  <2>7. Follows(e, t, v)
    BY <1>1, <1>k, <1>v, <1>4, <2>2, <2>4, <2>6 DEF Follows
  <2> HIDE DEF words
  <2>8. Carries(s, Result(e, <<words>>), v)
    BY <1>s, <1>f, <2>3, <2>4, <2>5, <2>7, SentCarries
  <2> QED BY <2>1, <2>8
<1>5. CASE ~sp.decided
  <2> DEFINE e == [sp EXCEPT !.candidate = <<words>>]
  <2>1. r = Result(e, <<>>) \/ r = Decide(e)
    BY <1>5 DEF OnCandidateText
  <2>2. /\ e \in Splicers /\ e.text = sp.text /\ e.next = sp.next /\ e.open = sp.open
        /\ e.index = sp.index /\ e.adopted = sp.adopted /\ e.dropped = sp.dropped
        /\ e.candidate = <<words>> /\ e.decided = sp.decided /\ e.rejected = sp.rejected
    <3>1. <<words>> \in Seq(Frames)
      BY <1>f
    <3> HIDE DEF words
    <3> QED BY <1>3, <3>1 DEF Splicers
  <2> HIDE DEF e
  <2>3. Knows(e, s)
    <3>1. \E x \in Models, y \in {"new", "again"} : e.candidate = <<Delta(e.text, "text", x, y)>>
      BY <2>2
    <3> HIDE DEF words
    <3> QED BY <1>2, <1>5, <2>2, <3>1 DEF Knows
  <2>4. Follows(e, s, v)
    BY <1>1, <1>k, <1>v, <1>h, <2>2 DEF Follows
  <2>5. Carries(s, Result(e, <<>>), v)
    BY <2>3, <2>4, SilenceCarries
  <2>6. Carries(s, Decide(e), v)
    BY <2>3, <2>4, VerdictCarries
  <2> QED BY <2>1, <2>5, <2>6
<1> QED BY <1>4, <1>5

\* The content of any other block is sent.
LEMMA ContentCarries ==
  ASSUME NEW s, NEW sp, NEW u, NEW v, NEW m \in Models, NEW w \in {"new", "again"}, NEW b,
         Sound(s), Underway(s), Knows(sp, s), Follows(sp, s, u),
         u.phase \in {"text", "tool"}, b = u.blocks - 1, b # sp.adopted, ~sp.rejected,
         At(v, u.phase, u.blocks, TRUE)
  PROVE  LET e == [sp EXCEPT !.spoke = @ \/ u.phase = "text"]
             f == Delta(sp.index[b], u.phase, m, w)
         IN sp.decided /\ f \in Frames /\ Carries(s, Result(e, <<f>>), v)
<1> DEFINE e == [sp EXCEPT !.spoke = @ \/ u.phase = "text"]
           i == sp.index[b]
           f == Delta(i, u.phase, m, w)
           t == Append(s, f)
<1>s. s \in Seq(Frames)
  BY DEF Sound
<1>k. u.phase \in Kinds /\ u.phase # "thinking"
  BY DEF Kinds
<1>1. /\ sp.adopted < u.blocks /\ \A d \in sp.dropped : d < u.blocks
      /\ b \in Sources /\ b \notin sp.dropped
      /\ \A j \in Nat : Hollow(s, j) => i = j
      /\ i \in OpenBlocks(s) /\ IsKind(s, i, u.phase)
      /\ sp.decided /\ i # sp.text
  BY <1>k, InsideFacts
<1>2. i \in Nat
  <2>1. OpenBlocks(s) \subseteq Nat
    BY <1>s, FramesFacts
  <2> QED BY <1>1, <2>1
<1>3. sp \in Splicers /\ sp.spoke \in BOOLEAN /\ (u.phase = "text") \in BOOLEAN
  BY DEF Knows, Splicers
<1>4. /\ e \in Splicers /\ e.text = sp.text /\ e.next = sp.next /\ e.open = sp.open
      /\ e.index = sp.index /\ e.adopted = sp.adopted /\ e.dropped = sp.dropped
      /\ e.candidate = sp.candidate /\ e.decided = sp.decided /\ e.rejected = sp.rejected
  BY <1>3 DEF Splicers
<1> HIDE DEF e, i
<1>f. f \in Frames
  BY <1>2, <1>k, MadeFrames
<1>5. t = Append(s, f) /\ Longer(s, f, t)
  BY <1>s, <1>f, AppendIsLonger
<1>w. Longer(s, Delta(i, u.phase, m, w), t)
  BY <1>5
<1> HIDE DEF t
<1>6. /\ Sound(t) /\ Underway(t)
      /\ Opened(t) = Opened(s) /\ OpenBlocks(t) = OpenBlocks(s)
      /\ \A j, l : IsKind(t, j, l) <=> IsKind(s, j, l)
      /\ \A j : HasContent(t, j) <=> HasContent(s, j) \/ j = i
      /\ FramesOf(t, "delta") # {}
  BY <1>1, <1>k, <1>w, DeltaFollows
<1>7. Knows(e, t)
  BY <1>4, <1>6 DEF Knows
<1>8. ASSUME NEW j \in Nat, Hollow(t, j) PROVE FALSE
  <2>1. Hollow(s, j) /\ j # i
    BY <1>6, <1>8 DEF Hollow
  <2> QED BY <1>1, <2>1
<1>v. v.phase = u.phase /\ v.blocks = u.blocks
  BY DEF At
<1>9. e.index[b] = i /\ HasContent(t, i)
  BY <1>4, <1>6 DEF i
<1>10. Follows(e, t, v)
  BY <1>1, <1>k, <1>v, <1>4, <1>6, <1>8, <1>9 DEF Follows
<1> HIDE DEF f
<1>11. Carries(s, Result(e, <<f>>), v)
  BY <1>s, <1>f, <1>5, <1>6, <1>7, <1>10, SentCarries
<1> QED BY <1>1, <1>f, <1>11 DEF e, f, i

\* A block that was written is closed.
LEMMA BlockCloses ==
  ASSUME NEW s, NEW sp, NEW u, NEW v, NEW b,
         Sound(s), Underway(s), Knows(sp, s), Follows(sp, s, u),
         u.phase \in {"text", "tool"}, u.spoke, b = u.blocks - 1, sp.decided, ~sp.rejected,
         At(v, "between", u.blocks, FALSE)
  PROVE  LET e == [sp EXCEPT !.open = @ \ {sp.index[b]}]
             f == Close(sp.index[b])
         IN f \in Frames /\ Carries(s, Result(e, <<f>>), v)
<1> DEFINE i == sp.index[b]
           e == [sp EXCEPT !.open = @ \ {i}]
           f == Close(i)
           t == Append(s, f)
<1>s. s \in Seq(Frames) /\ WellFormed(s)
  BY DEF Sound
<1>k. u.phase \in Kinds /\ u.phase # "thinking"
  BY DEF Kinds
<1>1. /\ sp.adopted < u.blocks /\ \A d \in sp.dropped : d < u.blocks
      /\ \A j \in Nat : ~Hollow(s, j)
      /\ i \in OpenBlocks(s) /\ IsKind(s, i, u.phase)
      /\ b # sp.adopted => i # sp.text
      /\ u.phase = "tool" => HasContent(s, i)
      /\ b \in Sources
  BY <1>k, InsideFacts
<1>2. i \in Nat
  <2>1. OpenBlocks(s) \subseteq Nat
    BY <1>s, FramesFacts
  <2> QED BY <1>1, <2>1
<1> HIDE DEF i
<1>3. sp \in Splicers /\ sp.open \in SUBSET Nat
  BY DEF Knows, Splicers
<1>4. /\ e \in Splicers /\ e.text = sp.text /\ e.next = sp.next /\ e.open = sp.open \ {i}
      /\ e.index = sp.index /\ e.adopted = sp.adopted /\ e.dropped = sp.dropped
      /\ e.candidate = sp.candidate /\ e.decided = sp.decided /\ e.rejected = sp.rejected
  BY <1>3 DEF Splicers
<1> HIDE DEF e
<1>f. f \in Frames
  BY <1>2, MadeFrames
<1>5. t = Append(s, f) /\ Longer(s, f, t)
  BY <1>s, <1>f, AppendIsLonger
<1>w. Longer(s, Close(i), t)
  BY <1>5
<1> HIDE DEF t
<1>c. IsKind(s, i, "tool") => HasContent(s, i)
  <2>1. IsKind(s, i, "tool") => u.phase = "tool"
    BY <1>s, <1>1, OneKind
  <2> QED BY <1>1, <2>1
<1>6. /\ Sound(t) /\ Underway(t)
      /\ Opened(t) = Opened(s) /\ OpenBlocks(t) = OpenBlocks(s) \ {i}
      /\ \A j, l : IsKind(t, j, l) <=> IsKind(s, j, l)
      /\ \A j : HasContent(t, j) <=> HasContent(s, j)
      /\ FramesOf(t, "delta") = FramesOf(s, "delta")
  BY <1>1, <1>c, <1>w, CloseFollows
<1>7. Knows(e, t)
  <2>1. /\ sp.open = OpenBlocks(s) /\ (\A j \in Opened(s) : j < sp.next)
        /\ sp.text # NoIndex => sp.text \in Opened(s)
        /\ sp.text # NoIndex /\ sp.adopted = NoIndex
             => sp.text \in OpenBlocks(s) /\ IsKind(s, sp.text, "text")
        /\ sp.candidate = <<>>
    BY DEF Knows
  <2>2. sp.adopted = NoIndex => b # sp.adopted
    BY <1>1 DEF Sources, NoIndex
  <2> QED BY <1>1, <1>4, <1>6, <2>1, <2>2 DEF Knows
<1>8. \A j \in Nat : ~Hollow(t, j)
  BY <1>1, <1>6 DEF Hollow
<1>v. v.phase = "between" /\ v.blocks = u.blocks /\ "between" \notin Kinds
  BY DEF At, Kinds
<1>9. Follows(e, t, v)
  BY <1>1, <1>v, <1>4, <1>8 DEF Follows
<1>10. FramesOf(s, "delta") # {} => FramesOf(t, "delta") # {}
  BY <1>6
<1> HIDE DEF f
<1>11. Carries(s, Result(e, <<f>>), v)
  BY <1>s, <1>f, <1>5, <1>6, <1>7, <1>9, <1>10, SentCarries
<1> QED BY <1>f, <1>11 DEF e, f, i

-----------------------------------------------------------------------------
(* What arrives. *)

\* A provider stream at u emits a frame of model m, and is at v then.
Emits(u, f, v, m) ==
  LET n == u.blocks
  IN \/ u.phase = "new" /\ f = Start /\ At(v, "between", n, FALSE)
     \/ /\ u.phase = "between" /\ n \in Sources
        /\ \E k \in Kinds : f = Open(n, k) /\ At(v, k, n + 1, FALSE)
     \/ u.phase = "between" /\ f = Reason("own") /\ At(v, "reason", n, FALSE)
     \/ /\ u.phase \in Kinds /\ ~u.spoke /\ At(v, u.phase, n, TRUE)
        /\ \E w \in {"new", "again"} : f = Delta(n - 1, u.phase, m, w)
     \/ u.phase \in Kinds /\ u.spoke /\ f = Close(n - 1) /\ At(v, "between", n, FALSE)
     \/ u.phase = "reason" /\ f = Stop /\ At(v, "stopped", n, FALSE)

\* The frames of a stream are of those shapes.
LEMMA EmissionsEmit ==
  ASSUME TypeOK, NEW e \in Emissions
  PROVE  Emits(upstream, e.frame, e.upstream, Model)
<1> DEFINE n == upstream.blocks
           MayOpen == \/ n = 0
                      \/ n < MaxBlocks /\ Cardinality(attempted) + NextIndex(shown) <= MaxLong
           Opens == {Step(Open(n, k), k, n + 1, FALSE) : k \in IF MayOpen THEN Kinds ELSE {}}
           Reasons == {Step(Reason("own"), "reason", n, FALSE) : x \in IF n > 0 THEN {1} ELSE {}}
           Deltas == {Step(Delta(n - 1, upstream.phase, Model, w), upstream.phase, n, TRUE) :
                        w \in IF Continuing /\ upstream.phase = "text" THEN {"new", "again"}
                              ELSE {"new"}}
<1>1. /\ upstream.phase \in {"new", "between", "reason", "stopped"} \cup Kinds
      /\ n \in 0..MaxBlocks /\ MaxBlocks \in Nat \ {0} /\ upstream.spoke \in BOOLEAN
  BY BlocksAssumption DEF TypeOK
<1>2. \A f, p, b, s : /\ Step(f, p, b, s).frame = f
                      /\ At(Step(f, p, b, s).upstream, p, b, s)
  BY DEF Step, At
<1>3. MayOpen => n \in Sources
  BY <1>1 DEF Sources
<1>4. \/ upstream.phase = "new" /\ e \in {Step(Start, "between", n, FALSE)}
      \/ upstream.phase = "between" /\ e \in Opens \cup Reasons
      \/ upstream.phase \in Kinds /\ ~upstream.spoke /\ e \in Deltas
      \/ /\ upstream.phase \in Kinds /\ upstream.spoke
         /\ e \in {Step(Close(n - 1), "between", n, FALSE)}
      \/ upstream.phase = "reason" /\ e \in {Step(Stop, "stopped", n, FALSE)}
  BY <1>1 DEF Emissions, Kinds
<1>5. CASE upstream.phase = "new" /\ e \in {Step(Start, "between", n, FALSE)}
  <2>1. e.frame = Start /\ At(e.upstream, "between", n, FALSE)
    <3>1. e = Step(Start, "between", n, FALSE)
      BY <1>5
    <3> QED BY <1>2, <3>1
  <2> QED BY <1>5, <2>1 DEF Emits
<1>6. CASE upstream.phase = "between" /\ e \in Opens
  <2>1. PICK k \in Kinds : e = Step(Open(n, k), k, n + 1, FALSE) /\ MayOpen
    BY <1>6
  <2>2. e.frame = Open(n, k) /\ At(e.upstream, k, n + 1, FALSE)
    BY <1>2, <2>1
  <2> HIDE DEF MayOpen
  <2> QED BY <1>3, <1>6, <2>1, <2>2 DEF Emits
<1>7. CASE upstream.phase = "between" /\ e \in Reasons
  <2>1. e = Step(Reason("own"), "reason", n, FALSE)
    BY <1>7
  <2>2. e.frame = Reason("own") /\ At(e.upstream, "reason", n, FALSE)
    BY <1>2, <2>1
  <2> QED BY <1>7, <2>2 DEF Emits
<1>8. CASE upstream.phase \in Kinds /\ ~upstream.spoke /\ e \in Deltas
  <2>1. PICK w \in {"new", "again"} :
          e = Step(Delta(n - 1, upstream.phase, Model, w), upstream.phase, n, TRUE)
    BY <1>8
  <2>2. e.frame = Delta(n - 1, upstream.phase, Model, w)
          /\ At(e.upstream, upstream.phase, n, TRUE)
    BY <1>2, <2>1
  <2> QED BY <1>8, <2>2 DEF Emits
<1>9. CASE /\ upstream.phase \in Kinds /\ upstream.spoke
           /\ e \in {Step(Close(n - 1), "between", n, FALSE)}
  <2>1. e.frame = Close(n - 1) /\ At(e.upstream, "between", n, FALSE)
    <3>1. e = Step(Close(n - 1), "between", n, FALSE)
      BY <1>9
    <3> QED BY <1>2, <3>1
  <2> QED BY <1>9, <2>1 DEF Emits
<1>10. CASE upstream.phase = "reason" /\ e \in {Step(Stop, "stopped", n, FALSE)}
  <2>1. e.frame = Stop /\ At(e.upstream, "stopped", n, FALSE)
    <3>1. e = Step(Stop, "stopped", n, FALSE)
      BY <1>10
    <3> QED BY <1>2, <3>1
  <2> QED BY <1>10, <2>1 DEF Emits
<1> QED BY <1>4, <1>5, <1>6, <1>7, <1>8, <1>9, <1>10

\* A frame of the continuation.
LEMMA OpenRewritten ==
  ASSUME NEW s, NEW sp, NEW u, NEW v, NEW n \in Sources, NEW k \in Kinds,
         Sound(s), Underway(s), Knows(sp, s), Follows(sp, s, u),
         u.phase = "between", u.blocks = n, At(v, k, n + 1, FALSE), ~sp.rejected
  PROVE  Carries(s, OnBlockStart(sp, Open(n, k)), v)
<1> DEFINE f == Open(n, k)
           d == Decide(sp)
           Numbered(x) == [x EXCEPT !.index[n] = x.next, !.next = @ + 1, !.open = @ \cup {x.next}]
<1>f. f.index = n /\ f.kind = k
  BY DEF Open
<1>k. k \in {"text", "thinking", "tool"} /\ "between" # "tool" /\ u.blocks \in Nat
  BY DEF Kinds, Sources
<1>1. CASE k = "thinking"
  <2> DEFINE e == [sp EXCEPT !.dropped = @ \cup {n}]
  <2>1. OnBlockStart(sp, f) = Result(e, <<>>)
    BY <1>f, <1>1 DEF OnBlockStart
  <2>2. Knows(e, s) /\ Follows(e, s, v)
    BY <1>1, ThinkingOpens
  <2> HIDE DEF e, f
  <2>3. Carries(s, Result(e, <<>>), v)
    BY <2>2, SilenceCarries
  <2> QED BY <2>1, <2>3 DEF f
<1>2. CASE k = "text" /\ sp.text # NoIndex /\ sp.adopted = NoIndex
  <2> DEFINE e == [sp EXCEPT !.adopted = n, !.index[n] = sp.text]
  <2>1. OnBlockStart(sp, f) = Result(e, <<>>)
    BY <1>f, <1>2 DEF OnBlockStart
  <2>2. Knows(e, s) /\ Follows(e, s, v)
    BY <1>2, TextAdopted
  <2> HIDE DEF e, f
  <2>3. Carries(s, Result(e, <<>>), v)
    BY <2>2, SilenceCarries
  <2> QED BY <2>1, <2>3 DEF f
<1>3. CASE /\ k # "thinking" /\ ~(k = "text" /\ sp.text # NoIndex /\ sp.adopted = NoIndex)
  <2> DEFINE x == d.splicer
             t == s \o d.out
             g == Open(x.next, k)
             e == Numbered(x)
  <2>0. k \in {"text", "tool"}
    BY <1>k, <1>3
  <2>1. OnBlockStart(sp, f) = Judged(d, Result(e, <<g>>))
    BY <1>f, <1>3 DEF OnBlockStart
  <2>2. t = s \o d.out
    OBVIOUS
  <2>3. x \in Splicers /\ x.decided
    BY DecideCases
  <2>4. g \in Frames
    <3>1. x.next \in Nat
      BY <2>3 DEF Splicers
    <3> QED BY <3>1, MadeFrames
  <2>5. /\ Sound(t) /\ Underway(t) /\ Grows(s, t) /\ Knows(x, t)
        /\ \A y : Follows(sp, s, y) => Follows(x, t, y)
    <3> HIDE DEF d
    <3>1. d = Decide(sp)
      BY DEF d
    <3> QED BY <3>1, DecideKeeps
  <2> HIDE DEF x, t
  <2>6. Knows(x, t)
    BY <2>5
  <2>7. Follows(x, t, u)
    BY <2>5
  <2>8. ASSUME x.rejected PROVE Carries(s, d, v)
    <3>1. Follows(x, t, v)
      <4>1. x.rejected \/ (u.phase # "tool" /\ v.phase \notin Kinds)
        BY <2>8
      <4>2. v.blocks \in {u.blocks, u.blocks + 1}
        BY DEF At
      <4> QED BY <1>k, <2>6, <2>7, <4>1, <4>2, IgnoredFollows
    <3>2. Grows(s, t)
      BY <2>5
    <3>3. FramesOf(s, "delta") # {} => FramesOf(t, "delta") # {}
      BY <3>2 DEF Grows
    <3> QED BY <2>2, <2>5, <2>6, <3>1, <3>3 DEF Carries, x
  <2>9. ASSUME ~x.rejected PROVE Carries(t, Result(e, <<g>>), v)
    BY <2>0, <2>3, <2>5, <2>6, <2>7, <2>9, BlockOpens
  <2> HIDE DEF e, g, f
  <2>10. Carries(s, Judged(d, Result(e, <<g>>)), v)
    BY <2>2, <2>4, <2>8, <2>9, JudgedCarries DEF x
  <2> QED BY <2>1, <2>10 DEF f
<1> QED BY <1>1, <1>2, <1>3

\* What the splicer makes of content,
LEMMA DeltaRewritten ==
  ASSUME NEW s, NEW sp, NEW u, NEW v, NEW m \in Models, NEW w \in {"new", "again"},
         Sound(s), Underway(s), Knows(sp, s), Follows(sp, s, u),
         u.phase \in Kinds, At(v, u.phase, u.blocks, TRUE), ~sp.rejected,
         NEW r \in OnBlockDelta(sp, Delta(u.blocks - 1, u.phase, m, w))
  PROVE  Carries(s, r, v)
<1> DEFINE b == u.blocks - 1
           f == Delta(b, u.phase, m, w)
<1>f. f.index = b /\ f.kind = u.phase /\ f.by = m /\ f.words = w
  BY DEF Delta
<1>r. r \in OnBlockDelta(sp, f)
  OBVIOUS
<1>1. b \in sp.dropped <=> u.phase = "thinking"
  BY InsideFacts
<1> HIDE DEF b, f
<1>2. CASE u.phase = "thinking"
  <2>1. r = Result(sp, <<>>)
    BY <1>1, <1>2, <1>f, <1>r DEF OnBlockDelta
  <2>2. Follows(sp, s, v)
    BY <1>2, ThinkingLeftOut
  <2> QED BY <2>1, <2>2, SilenceCarries
<1>3. CASE u.phase # "thinking"
  <2>0. u.phase \in {"text", "tool"} /\ b \notin sp.dropped
    BY <1>1, <1>3 DEF Kinds
  <2>1. CASE b = sp.adopted
    <3>1. r \in OnCandidateText(sp, f)
      BY <1>f, <1>r, <2>0, <2>1 DEF OnBlockDelta
    <3>2. u.blocks - 1 = sp.adopted
      BY <2>1 DEF b
    <3> QED BY <1>f, <2>0, <3>1, <3>2, WordsCarry
  <2>2. CASE b # sp.adopted
    <3> DEFINE e == [sp EXCEPT !.spoke = @ \/ u.phase = "text"]
               g == Delta(sp.index[b], u.phase, m, w)
    <3>1. sp.decided /\ g \in Frames /\ Carries(s, Result(e, <<g>>), v)
      <4>1. b = u.blocks - 1
        BY DEF b
      <4> QED BY <2>0, <2>2, <4>1, ContentCarries
    <3>2. Decide(sp) = Result(sp, <<>>)
      BY <3>1 DEF Decide
    <3>3. Result(sp, <<>>).splicer = sp /\ Result(sp, <<>>).out = <<>>
      BY DEF Result
    <3>4. r = Judged(Decide(sp), Result(e, <<g>>))
      <4>1. r = Judged(Decide(sp),
                       Result([Decide(sp).splicer EXCEPT !.spoke = @ \/ f.kind = "text"],
                              <<Delta(Decide(sp).splicer.index[f.index], f.kind, f.by, f.words)>>))
        BY <1>f, <1>r, <2>0, <2>2 DEF OnBlockDelta
      <4> QED BY <1>f, <3>2, <3>3, <4>1
    <3> HIDE DEF e, g
    <3>5. s \o Decide(sp).out = s
      <4>1. s \in Seq(Frames)
        BY DEF Sound
      <4>2. s \o <<>> = s
        BY <4>1, ConcatEmptySeq
      <4> QED BY <3>2, <3>3, <4>2
    <3>6. ~Decide(sp).splicer.rejected
      BY <3>2, <3>3
    <3> QED BY <3>1, <3>4, <3>5, <3>6, JudgedCarries
  <2> QED BY <2>1, <2>2
<1> QED BY <1>2, <1>3

\* of the end of a block,
LEMMA CloseRewritten ==
  ASSUME NEW s, NEW sp, NEW u, NEW v,
         Sound(s), Underway(s), Knows(sp, s), Follows(sp, s, u), u.blocks \in Nat,
         u.phase \in Kinds, u.spoke, At(v, "between", u.blocks, FALSE), ~sp.rejected
  PROVE  Carries(s, OnBlockStop(sp, Close(u.blocks - 1)), v)
<1> DEFINE b == u.blocks - 1
           f == Close(b)
           d == Decide(sp)
<1>f. f.index = b
  BY DEF Close
<1>k. v.phase \notin Kinds /\ v.blocks \in {u.blocks, u.blocks + 1}
  BY DEF At, Kinds
<1>1. b \in sp.dropped <=> u.phase = "thinking"
  BY InsideFacts
<1>2. CASE u.phase = "thinking"
  <2>1. OnBlockStop(sp, f) = Result(sp, <<>>)
    BY <1>1, <1>2, <1>f DEF OnBlockStop
  <2>2. Follows(sp, s, v)
    BY <1>k, <1>2, IgnoredFollows
  <2> HIDE DEF f
  <2>3. Carries(s, Result(sp, <<>>), v)
    BY <2>2, SilenceCarries
  <2> QED BY <2>1, <2>3 DEF f
<1>3. CASE u.phase # "thinking"
  <2> DEFINE x == d.splicer
             t == s \o d.out
             g == Close(x.index[b])
             e == [x EXCEPT !.open = @ \ {x.index[b]}]
  <2>0. u.phase \in {"text", "tool"} /\ b \notin sp.dropped
    BY <1>1, <1>3 DEF Kinds
  <2>1. OnBlockStop(sp, f) = Judged(d, Result(e, <<g>>))
    BY <1>f, <2>0 DEF OnBlockStop
  <2>2. t = s \o d.out
    OBVIOUS
  <2>3. x.decided /\ x.index = sp.index
    BY DecideCases
  <2>4. g \in Frames
    <3>1. x.index[b] \in OpenBlocks(s)
      BY <2>0, <2>3, InsideFacts
    <3>2. OpenBlocks(s) \subseteq Nat
      <4>1. s \in Seq(Frames)
        BY DEF Sound
      <4> QED BY <4>1, FramesFacts
    <3> QED BY <3>1, <3>2, MadeFrames
  <2>5. /\ Sound(t) /\ Underway(t) /\ Grows(s, t) /\ Knows(x, t)
        /\ \A y : Follows(sp, s, y) => Follows(x, t, y)
    <3> HIDE DEF d
    <3>1. d = Decide(sp)
      BY DEF d
    <3> QED BY <3>1, DecideKeeps
  <2> HIDE DEF x, t
  <2>6. Knows(x, t)
    BY <2>5
  <2>7. Follows(x, t, u)
    BY <2>5
  <2>8. ASSUME x.rejected PROVE Carries(s, d, v)
    <3>1. Follows(x, t, v)
      BY <1>k, <2>6, <2>7, <2>8, IgnoredFollows
    <3>2. FramesOf(s, "delta") # {} => FramesOf(t, "delta") # {}
      BY <2>5 DEF Grows
    <3> QED BY <2>2, <2>5, <2>6, <3>1, <3>2 DEF Carries, x
  <2>9. ASSUME ~x.rejected PROVE Carries(t, Result(e, <<g>>), v)
    <3>1. b = u.blocks - 1
      OBVIOUS
    <3> HIDE DEF b
    <3> QED BY <2>0, <2>3, <2>5, <2>6, <2>7, <2>9, <3>1, BlockCloses
  <2> HIDE DEF e, g, f
  <2>10. Carries(s, Judged(d, Result(e, <<g>>)), v)
    BY <2>2, <2>4, <2>8, <2>9, JudgedCarries DEF x
  <2> QED BY <2>1, <2>10 DEF f
<1> QED BY <1>2, <1>3

\* and of any frame of the stream: the message is carried along.
LEMMA RewriteCarries ==
  ASSUME NEW s, NEW sp, NEW u, NEW v, NEW f, NEW m \in Models,
         Sound(s), Underway(s), Knows(sp, s), Follows(sp, s, u), u.blocks \in Nat,
         Emits(u, f, v, m), NEW r \in Rewrites(sp, f)
  PROVE  Carries(s, r, v)
<1> DEFINE n == u.blocks
<1>1. CASE sp.rejected
  <2>1. r = Result(sp, <<>>)
    BY <1>1 DEF Rewrites
  <2>2. v.blocks \in {n, n + 1}
    BY DEF Emits, At
  <2>3. Follows(sp, s, v)
    BY <1>1, <2>2, IgnoredFollows
  <2> QED BY <2>1, <2>3, SilenceCarries
<1>2. CASE /\ ~sp.rejected
           /\ \/ u.phase = "new" /\ f = Start /\ At(v, "between", n, FALSE)
              \/ u.phase = "between" /\ f = Reason("own") /\ At(v, "reason", n, FALSE)
              \/ u.phase = "reason" /\ f = Stop /\ At(v, "stopped", n, FALSE)
  <2>1. f.type \in {"start", "reason", "stop"}
    <3>1. Start.type = "start" /\ Reason("own").type = "reason" /\ Stop.type = "stop"
      BY DEF Start, Reason, Stop
    <3>2. f = Start \/ f = Reason("own") \/ f = Stop
      BY <1>2
    <3> QED BY <3>1, <3>2
  <2>2. r = Result(sp, <<>>)
    BY <2>1 DEF Rewrites
  <2>3. v.blocks \in {n, n + 1} /\ u.phase # "tool" /\ v.phase \notin Kinds
    BY <1>2 DEF At, Kinds
  <2>4. Follows(sp, s, v)
    BY <2>3, IgnoredFollows
  <2> QED BY <2>2, <2>4, SilenceCarries
<1>3. ASSUME ~sp.rejected, u.phase = "between", n \in Sources,
             NEW k \in Kinds, f = Open(n, k), At(v, k, n + 1, FALSE)
      PROVE  Carries(s, r, v)
  <2>1. f.type = "open"
    BY <1>3 DEF Open
  <2>2. r = OnBlockStart(sp, f)
    BY <1>3, <2>1 DEF Rewrites
  <2>3. Carries(s, OnBlockStart(sp, Open(n, k)), v)
    BY <1>3, OpenRewritten
  <2> QED BY <1>3, <2>2, <2>3
<1>4. ASSUME ~sp.rejected, u.phase \in Kinds, At(v, u.phase, n, TRUE),
             NEW w \in {"new", "again"}, f = Delta(n - 1, u.phase, m, w)
      PROVE  Carries(s, r, v)
  <2>1. f.type = "delta"
    BY <1>4 DEF Delta
  <2>2. r \in OnBlockDelta(sp, f)
    BY <1>4, <2>1 DEF Rewrites
  <2>3. r \in OnBlockDelta(sp, Delta(u.blocks - 1, u.phase, m, w))
    BY <1>4, <2>2
  <2> QED BY <1>4, <2>3, DeltaRewritten
<1>5. ASSUME ~sp.rejected, u.phase \in Kinds, u.spoke, f = Close(n - 1),
             At(v, "between", n, FALSE)
      PROVE  Carries(s, r, v)
  <2>1. f.type = "close"
    BY <1>5 DEF Close
  <2>2. r = OnBlockStop(sp, f)
    BY <1>5, <2>1 DEF Rewrites
  <2>3. Carries(s, OnBlockStop(sp, Close(u.blocks - 1)), v)
    BY <1>5, CloseRewritten
  <2> QED BY <1>5, <2>2, <2>3
<1> QED BY <1>1, <1>2, <1>3, <1>4, <1>5 DEF Emits

\* A frame of the first stream is what the message goes on with.
LEMMA MirrorsKept ==
  ASSUME NEW s, NEW u, NEW v, NEW f, NEW m \in Models,
         Sound(s), Mirrors(s, u), Written(s, m), u.blocks \in Nat, Emits(u, f, v, m)
  PROVE  LET t == Append(s, f) IN Sound(t) /\ Mirrors(t, v) /\ Written(t, m)
<1> DEFINE n == u.blocks
           t == Append(s, f)
<1>s. s \in Seq(Frames)
  BY DEF Sound
<1>0. t = Append(s, f)
  OBVIOUS
<1> HIDE DEF t
<1>1. /\ s = <<>> <=> u.phase = "new"
      /\ u.phase \in {"between"} \cup Kinds => FramesOf(s, "reason") = {}
      /\ \A i \in Opened(s) : i < n
      /\ OpenBlocks(s) = IF u.phase \in Kinds THEN {n - 1} ELSE {}
      /\ u.phase \in Kinds => IsKind(s, n - 1, u.phase) /\ (u.spoke => HasContent(s, n - 1))
      /\ u.phase = "reason" => s[Len(s)] = Reason("own")
  BY DEF Mirrors
<1>k. /\ Kinds = {"text", "thinking", "tool"}
      /\ "new" \notin Kinds /\ "between" \notin Kinds /\ "reason" \notin Kinds
      /\ "stopped" \notin Kinds
  BY DEF Kinds
<1>2. u.phase \in {"between"} \cup Kinds => Underway(s)
  BY <1>1, <1>k DEF Underway
<1>n. Opened(s) \subseteq Nat /\ OpenBlocks(s) \subseteq Opened(s)
  BY <1>s, FramesFacts
<1>l. t # <<>>
  <2>1. s \in Seq(Frames \cup {f}) /\ f \in Frames \cup {f}
    BY <1>s, SeqOfMore
  <2>2. Append(s, f) # <<>>
    BY <2>1, AppendProperties
  <2> QED BY <1>0, <2>2
<1>3. CASE u.phase = "new" /\ f = Start /\ At(v, "between", n, FALSE)
  <2>1. Longer(<<>>, Start, t)
    <3>1. Start \in Frames /\ <<>> \in Seq(Frames)
      BY MadeFrames
    <3>2. Longer(<<>>, Start, Append(<<>>, Start))
      BY <3>1, AppendIsLonger
    <3> QED BY <1>0, <1>1, <1>3, <3>2
  <2>2. /\ Sound(t) /\ Underway(t)
        /\ Opened(t) = {} /\ OpenBlocks(t) = {} /\ FramesOf(t, "delta") = {}
    BY <2>1, StartFollows
  <2>3. v.phase = "between"
    BY <1>3 DEF At
  <2>4. Mirrors(t, v)
    BY <1>k, <1>l, <2>2, <2>3 DEF Mirrors, Underway
  <2>5. Written(t, m)
    BY <2>2 DEF Written
  <2> QED BY <2>2, <2>4, <2>5 DEF t
<1>4. ASSUME u.phase = "between", NEW k \in Kinds, f = Open(n, k), At(v, k, n + 1, FALSE)
      PROVE  Sound(t) /\ Mirrors(t, v) /\ Written(t, m)
  <2>1. Longer(s, Open(n, k), t)
    <3>1. Open(n, k) \in Frames
      BY MadeFrames
    <3> QED BY <1>s, <1>0, <1>4, <3>1, AppendIsLonger
  <2>2. n \notin Opened(s)
    BY <1>1
  <2>3. /\ Sound(t) /\ Underway(t)
        /\ Opened(t) = Opened(s) \cup {n} /\ OpenBlocks(t) = OpenBlocks(s) \cup {n}
        /\ \A j, l : IsKind(t, j, l) <=> IsKind(s, j, l) \/ (j = n /\ l = k)
        /\ Written(t, m)
    BY <1>2, <1>4, <2>1, <2>2, OpenFollows
  <2>4. v.phase = k /\ v.blocks = n + 1 /\ v.blocks - 1 = n /\ ~v.spoke
    BY <1>4 DEF At
  <2>5. \A i \in Opened(t) : i < v.blocks
    BY <1>1, <1>n, <2>3, <2>4
  <2>6. OpenBlocks(t) = {n} /\ IsKind(t, n, k)
    BY <1>1, <1>4, <1>k, <2>3
  <2>7. k \notin {"new", "reason", "stopped"}
    BY <1>k
  <2>8. Mirrors(t, v)
    BY <1>l, <2>3, <2>4, <2>5, <2>6, <2>7 DEF Mirrors, Underway
  <2> QED BY <2>3, <2>8
<1>5. CASE u.phase = "between" /\ f = Reason("own") /\ At(v, "reason", n, FALSE)
  <2>1. Longer(s, Reason("own"), t)
    <3>1. Reason("own") \in Frames
      BY MadeFrames
    <3> QED BY <1>s, <1>0, <1>5, <3>1, AppendIsLonger
  <2>2. Underway(s) /\ OpenBlocks(s) = {}
    BY <1>1, <1>2, <1>5, <1>k
  <2>3. /\ Sound(t) /\ t[Len(t)] = Reason("own")
        /\ Opened(t) = Opened(s) /\ OpenBlocks(t) = {} /\ Written(t, m)
    BY <2>1, <2>2, ReasonFollows
  <2>4. v.phase = "reason" /\ v.blocks = n
    BY <1>5 DEF At
  <2>5. Mirrors(t, v)
    BY <1>1, <1>k, <1>l, <2>3, <2>4 DEF Mirrors
  <2> QED BY <2>3, <2>5 DEF t
<1>6. ASSUME u.phase \in Kinds, ~u.spoke, At(v, u.phase, n, TRUE),
             NEW w \in {"new", "again"}, f = Delta(n - 1, u.phase, m, w)
      PROVE  Sound(t) /\ Mirrors(t, v) /\ Written(t, m)
  <2>0. n - 1 \in OpenBlocks(s) /\ n - 1 \in Nat /\ IsKind(s, n - 1, u.phase)
    BY <1>1, <1>6, <1>n
  <2>1. Longer(s, Delta(n - 1, u.phase, m, w), t)
    <3>1. Delta(n - 1, u.phase, m, w) \in Frames
      BY <1>6, <2>0, MadeFrames
    <3> QED BY <1>s, <1>0, <1>6, <3>1, AppendIsLonger
  <2>2. /\ Sound(t) /\ Underway(t)
        /\ Opened(t) = Opened(s) /\ OpenBlocks(t) = OpenBlocks(s)
        /\ \A j, l : IsKind(t, j, l) <=> IsKind(s, j, l)
        /\ \A j : HasContent(t, j) <=> HasContent(s, j) \/ j = n - 1
        /\ Written(t, m)
    BY <1>2, <1>6, <2>0, <2>1, DeltaFollows
  <2>3. v.phase = u.phase /\ v.blocks = n /\ v.phase \notin {"new", "reason", "stopped"}
    BY <1>6, <1>k DEF At
  <2>4. Mirrors(t, v)
    BY <1>1, <1>6, <1>l, <2>0, <2>2, <2>3 DEF Mirrors, Underway
  <2> QED BY <2>2, <2>4
<1>7. CASE u.phase \in Kinds /\ u.spoke /\ f = Close(n - 1) /\ At(v, "between", n, FALSE)
  <2>0. n - 1 \in OpenBlocks(s) /\ n - 1 \in Nat /\ HasContent(s, n - 1)
    BY <1>1, <1>7, <1>n
  <2>1. Longer(s, Close(n - 1), t)
    <3>1. Close(n - 1) \in Frames
      BY <2>0, MadeFrames
    <3> QED BY <1>s, <1>0, <1>7, <3>1, AppendIsLonger
  <2>2. /\ Sound(t) /\ Underway(t)
        /\ Opened(t) = Opened(s) /\ OpenBlocks(t) = OpenBlocks(s) \ {n - 1}
        /\ Written(t, m)
    BY <1>2, <1>7, <2>0, <2>1, CloseFollows
  <2>3. v.phase = "between" /\ v.blocks = n /\ OpenBlocks(t) = {}
    BY <1>1, <1>7, <2>2 DEF At
  <2>4. Mirrors(t, v)
    BY <1>1, <1>k, <1>l, <2>2, <2>3 DEF Mirrors, Underway
  <2> QED BY <2>2, <2>4 DEF t
<1>8. CASE u.phase = "reason" /\ f = Stop /\ At(v, "stopped", n, FALSE)
  <2>1. Longer(s, Stop, t)
    <3>1. Stop \in Frames
      BY MadeFrames
    <3> QED BY <1>s, <1>0, <1>8, <3>1, AppendIsLonger
  <2>2. s # <<>> /\ s[Len(s)].type = "reason" /\ OpenBlocks(s) = {}
    BY <1>1, <1>8, <1>k DEF Reason
  <2>3. /\ Sound(t) /\ t[Len(t)] = Stop
        /\ Opened(t) = Opened(s) /\ OpenBlocks(t) = OpenBlocks(s) /\ Written(t, m)
    BY <2>1, <2>2, StopFollows
  <2>4. v.phase = "stopped" /\ v.blocks = n
    BY <1>8 DEF At
  <2>5. Mirrors(t, v)
    BY <1>1, <1>k, <1>l, <2>2, <2>3, <2>4 DEF Mirrors
  <2> QED BY <2>3, <2>5 DEF t
<1> QED BY <1>3, <1>4, <1>5, <1>6, <1>7, <1>8 DEF Emits, t

\* A stream that stopped has written a whole message.
LEMMA StoppedIsWhole ==
  ASSUME NEW s, NEW u, Sound(s), Mirrors(s, u), u.phase = "stopped"
  PROVE  Whole(s)
<1>1. s # <<>> /\ s[Len(s)] = Stop
  BY DEF Mirrors
<1>2. WellFormed(s)
  BY DEF Sound
<1> QED BY <1>1, <1>2 DEF Whole, Last

\* The ending of a message that was continued.
LEMMA FinishFollows ==
  ASSUME NEW s, NEW sp, Sound(s), Underway(s), Knows(sp, s), ~IncompleteToolUse(s)
  PROVE  LET t == s \o FinishFrames(sp) IN Sound(t) /\ Whole(t)
<1> DEFINE d == Decide(sp)
           a == s \o d.out
           c == Closings(d.splicer.open)
           w == IF ~d.splicer.rejected /\ d.splicer.spoke THEN "own" ELSE "cut"
           z == <<Reason(w), Stop>>
           b == a \o c
<1>s. s \in Seq(Frames)
  BY DEF Sound
<1>w. w \in {"own", "cut"}
  OBVIOUS
<1>1. /\ Sound(a) /\ Underway(a) /\ Grows(s, a) /\ d.out \in Seq(Frames)
      /\ Knows(d.splicer, a)
  <2> HIDE DEF d
  <2>1. d = Decide(sp)
    BY DEF d
  <2> QED BY <2>1, DecideKeeps
<1>f. FinishFrames(sp) = (d.out \o c) \o z
  BY DEF FinishFrames
<1> HIDE DEF w
<1>z. z \in Seq(Frames)
  <2>1. Reason(w) \in Frames /\ Stop \in Frames
    BY <1>w, MadeFrames
  <2> QED BY <2>1
<1> HIDE DEF d, a
<1>2. d.splicer.open = OpenBlocks(a)
  BY <1>1 DEF Knows
<1>3. OpenBlocks(a) \in SUBSET OpenBlocks(a) /\ OpenBlocks(a) \in SUBSET Opened(a)
        /\ a \in Seq(Frames)
  <2>1. a \in Seq(Frames)
    BY <1>1 DEF Sound
  <2> QED BY <2>1, FramesFacts
<1>4. ASSUME NEW i \in OpenBlocks(a), IsKind(a, i, "tool") PROVE HasContent(a, i)
  <2>1. i \in OpenBlocks(s) /\ IsKind(s, i, "tool")
    BY <1>1, <1>4 DEF Grows
  <2>2. HasContent(s, i)
    BY <2>1 DEF IncompleteToolUse
  <2> QED BY <1>1, <2>2 DEF Grows
<1>c. c \in Seq(Frames)
  BY <1>2, <1>3, ClosingsFacts
<1>5. Joined(a, Closings(OpenBlocks(a)), b)
  BY <1>2, <1>3, <1>c, ConcatIsJoined
<1>b. b = a \o c
  OBVIOUS
<1> HIDE DEF b
<1>6. Sound(b) /\ Underway(b) /\ OpenBlocks(b) = {}
  <2>1. Sound(b) /\ Underway(b) /\ OpenBlocks(b) = OpenBlocks(a) \ OpenBlocks(a)
    BY <1>1, <1>3, <1>4, <1>5, ClosingsFollow
  <2> QED BY <2>1
<1>7. Sound(b \o z) /\ Whole(b \o z)
  BY <1>w, <1>6, EndingFollows
<1>8. s \o FinishFrames(sp) = b \o z
  <2> DEFINE o == d.out
             p == o \o c
  <2>0. o \in Seq(Frames) /\ a = s \o o /\ FinishFrames(sp) = p \o z
    BY <1>1, <1>f DEF a
  <2> HIDE DEF o, c, z
  <2>1. p \in Seq(Frames)
    BY <1>c, <2>0, ConcatProperties
  <2>2. s \o p = (s \o o) \o c
    BY <1>s, <1>c, <2>0, Associative
  <2> HIDE DEF p
  <2>3. s \o (p \o z) = (s \o p) \o z
    BY <1>s, <1>z, <2>1, Associative
  <2> QED BY <1>b, <2>0, <2>2, <2>3
<1> QED BY <1>7, <1>8

\* And of one that is cut short.
LEMMA TruncationFollows ==
  ASSUME NEW s, Sound(s), s # <<>>, Closable(s)
  PROVE  LET t == s \o TruncationFrames(s)
         IN Sound(t) /\ Whole(t) /\ Reason("own") \notin Range(t)
<1> DEFINE c == Closings(OpenBlocks(s))
           z == <<Reason("cut"), Stop>>
           b == s \o c
<1>s. s \in Seq(Frames)
  BY DEF Sound
<1>1. Underway(s) /\ \A i \in OpenBlocks(s) : IsKind(s, i, "tool") => HasContent(s, i)
  BY DEF Closable, Underway, IncompleteToolUse
<1>2. OpenBlocks(s) \in SUBSET OpenBlocks(s) /\ OpenBlocks(s) \in SUBSET Opened(s)
  BY <1>s, FramesFacts
<1>c. c \in Seq(Frames)
  BY <1>s, <1>2, ClosingsFacts
<1>3. Joined(s, Closings(OpenBlocks(s)), b)
  BY <1>s, <1>c, ConcatIsJoined
<1>f. TruncationFrames(s) = c \o z
  BY DEF TruncationFrames
<1>b. b = s \o c
  OBVIOUS
<1> HIDE DEF b
<1>4. Sound(b) /\ Underway(b) /\ OpenBlocks(b) = {}
  <2>1. Sound(b) /\ Underway(b) /\ OpenBlocks(b) = OpenBlocks(s) \ OpenBlocks(s)
    BY <1>1, <1>2, <1>3, ClosingsFollow
  <2> QED BY <2>1
<1>5. Sound(b \o z) /\ Whole(b \o z) /\ Reason("own") \notin Range(b \o z)
  BY <1>4, EndingFollows
<1>6. s \o TruncationFrames(s) = b \o z
  <2>1. z \in Seq(Frames)
    <3>1. Reason("cut") \in Frames /\ Stop \in Frames
      BY MadeFrames
    <3> QED BY <3>1
  <2> HIDE DEF c, z
  <2>2. s \o (c \o z) = (s \o c) \o z
    BY <1>s, <1>c, <2>1, ConcatAssociative
  <2> QED BY <1>b, <1>f, <2>2
<1> QED BY <1>5, <1>6

-----------------------------------------------------------------------------
(* Every step keeps the message. *)

\* An attempt begins before the client knows of anything.
LEMMA AttemptBegins ==
  ASSUME Message, shown = <<>>, ~Continuing, pc' = "read", upstream' = Fresh, held' = <<>>,
         UNCHANGED <<surface, splicer, shown>>
  PROVE  Message'
<1>1. /\ Sound(<<>>) /\ Opened(<<>>) = {} /\ OpenBlocks(<<>>) = {}
      /\ \A m : Written(<<>>, m)
  BY NothingIsSound
<1>2. Fresh.phase = "new" /\ "new" \notin Kinds
  BY DEF Fresh, Kinds
<1>3. Mirrors(<<>>, Fresh)
  BY <1>1, <1>2 DEF Mirrors
<1>4. Draft' = <<>> /\ ~Continuing' /\ shown' = <<>>
  BY DEF Draft, Continuing
<1> QED BY <1>1, <1>3, <1>4 DEF Message, Unsaid, Before

\* The request goes on, or ends, before the client knows of anything.
LEMMA NothingIsSaid ==
  ASSUME Message, shown = <<>>, ~Continuing,
         pc' \in {"unread", "retry", "route", "probe", "fall", "again", "ladder", "raised"},
         UNCHANGED <<surface, splicer, shown, held>>
  PROVE  Message'
<1>1. \A m : Written(<<>>, m)
  BY NothingIsSound
<1>2. ~Continuing' /\ shown' = <<>>
  BY DEF Continuing
<1> QED BY <1>1, <1>2 DEF Message, Unsaid, Before

\* The plan sends nothing;
LEMMA PlanKeepsMessage ==
  ASSUME Message, Plan PROVE Message'
<1>1. /\ pc = "new" /\ pc' \in {"prepare", "raised"}
      /\ UNCHANGED <<surface, upstream, held, splicer, shown>>
  BY DEF Plan, Raise, attemptVars
<1>2. shown' = <<>> /\ ~Continuing' /\ upstream' = Fresh /\ held' = <<>>
  BY <1>1 DEF Message, Unsaid, Before, Continuing
<1> QED BY <1>1, <1>2 DEF Message, Unsaid, Before

\* nor does a preflight, whatever it says;
LEMMA PreflightKeepsMessage ==
  ASSUME Message, Preflight PROVE Message'
<1>1. /\ pc = "prepare" /\ pc' \in {"made", "raised"}
      /\ UNCHANGED <<surface, upstream, held, splicer, shown>>
  BY DEF Preflight, Raise
<1>2. shown' = <<>> /\ ~Continuing' /\ upstream' = Fresh /\ held' = <<>>
  BY <1>1 DEF Message, Unsaid, Before, Continuing
<1>3. \A m : Written(<<>>, m)
  BY NothingIsSound
<1> QED BY <1>1, <1>2, <1>3 DEF Message, Unsaid, Before

\* nor the first pull on the stream of the model.
LEMMA FirstPullKeepsMessage ==
  ASSUME Message, FirstPull PROVE Message'
<1>1. /\ pc = "made" /\ pc' = "read"
      /\ UNCHANGED <<surface, upstream, held, splicer, shown>>
  BY DEF FirstPull, attemptVars
<1>2. shown = <<>> /\ ~Continuing /\ upstream' = Fresh /\ held' = <<>>
  BY <1>1 DEF Message, Unsaid
<1> QED BY <1>1, <1>2, AttemptBegins

\* A stream nobody read sent nothing.
LEMMA NeverPulledKeepsMessage ==
  ASSUME Message, NeverPulled PROVE Message'
<1>1. pc = "made" /\ pc' = "unread" /\ UNCHANGED <<surface, held, splicer, shown>>
  BY DEF NeverPulled, attemptVars
<1>2. shown = <<>> /\ ~Continuing
  BY <1>1 DEF Message, Unsaid
<1> QED BY <1>1, <1>2, NothingIsSaid

\* A stream that ended has left no tool block without its arguments.
LEMMA StreamEndsKeepsMessage ==
  ASSUME Inductive, Message, StreamEnds PROVE Message'
<1>1. /\ pc = "read" /\ upstream.phase = "stopped" /\ pc' = "closing"
      /\ UNCHANGED <<surface, order, position, held, splicer, shown>>
  BY DEF StreamEnds
<1>2. Model' = Model /\ Draft' = Draft /\ Continuing' = Continuing
  BY <1>1 DEF Model, Draft, Continuing
<1>3. ASSUME Continuing PROVE Spliced /\ ~IncompleteToolUse(shown)
  <2>1. Spliced /\ Follows(splicer, shown, upstream) /\ Sound(shown)
    BY <1>1, <1>3 DEF Message
  <2>2. \A i \in Nat : ~Hollow(shown, i)
    BY <1>1, <2>1 DEF Follows
  <2>3. OpenBlocks(shown) \subseteq Nat
    <3>1. shown \in Seq(Frames)
      BY <2>1 DEF Sound
    <3> QED BY <3>1, FramesFacts
  <2>4. ~IncompleteToolUse(shown)
    BY <2>2, <2>3 DEF IncompleteToolUse, Hollow
  <2> QED BY <2>1, <2>4
<1>4. ASSUME ~Continuing PROVE Whole(Draft) /\ Written(Draft, Model)
  <2>1. Mirrors(Draft, upstream) /\ Written(Draft, Model) /\ Sound(Draft)
    BY <1>1, <1>4 DEF Message, Draft
  <2> QED BY <1>1, <2>1, StoppedIsWhole
<1>5. Spliced' = Spliced /\ IncompleteToolUse(shown)' = IncompleteToolUse(shown)
  BY <1>1 DEF Spliced
<1> QED BY <1>1, <1>2, <1>3, <1>4, <1>5 DEF Message, Unsaid, Before

\* A failure leaves the message where it was, to be gone on with or cut.
LEMMA StreamFailsKeepsMessage ==
  ASSUME Message, NEW f \in Faults, StreamFails(f) PROVE Message'
<1>1. /\ pc = "read" /\ pc' = "closing" /\ held' = <<>>
      /\ UNCHANGED <<surface, order, position, splicer, shown>>
  BY DEF StreamFails
<1>2. fault' # "none"
  BY DEF StreamFails, Faults
<1>3. Model' = Model /\ Continuing' = Continuing
  BY <1>1 DEF Model, Continuing
<1>4. Sound(<<>>)
  BY NothingIsSound
<1> QED BY <1>1, <1>2, <1>3, <1>4 DEF Message, Unsaid, Before

\* What one model wrote is sent, or the message that was continued gets its ending.
LEMMA FinishKeepsMessage ==
  ASSUME Message, Finish PROVE Message'
<1>1. /\ pc = "closing" /\ fault = "none"
      /\ pc' = (IF Continuing \/ held # <<>> THEN "finishing" ELSE "finished")
      /\ shown' = shown \o (IF Continuing THEN FinishFrames(splicer) ELSE held)
      /\ UNCHANGED <<surface, order, position, held, splicer>>
  BY DEF Finish, attemptVars
<1>2. Model' = Model /\ Continuing' = Continuing
  BY <1>1 DEF Model, Continuing
<1>3. CASE Continuing
  <2>1. Spliced /\ ~IncompleteToolUse(shown) /\ Sound(shown) /\ ~surface.buffered /\ held = <<>>
    BY <1>1, <1>3 DEF Message
  <2>2. Sound(shown') /\ Whole(shown')
    BY <1>1, <1>3, <2>1, FinishFollows DEF Spliced
  <2>3. shown' # <<>>
    BY <2>2 DEF Whole
  <2>4. pc' = "finishing"
    BY <1>1, <1>3
  <2>5. Sound(held)
    BY DEF Message
  <2> QED BY <1>1, <1>2, <1>3, <2>1, <2>2, <2>3, <2>4, <2>5 DEF Message, Unsaid, Before
<1>4. CASE ~Continuing
  <2>1. Whole(Draft) /\ Written(Draft, Model) /\ Sound(shown) /\ Sound(held)
    BY <1>1, <1>4 DEF Message
  <2>2. shown \in Seq(Frames) /\ held \in Seq(Frames)
    BY <2>1 DEF Sound
  <2>3. shown' = Draft
    <3>1. CASE surface.buffered
      <4>1. shown = <<>> /\ Draft = held
        BY <1>1, <3>1 DEF Message, Draft
      <4> QED BY <1>1, <1>4, <2>2, <4>1, ConcatEmptySeq
    <3>2. CASE ~surface.buffered
      <4>1. held = <<>> /\ Draft = shown
        BY <3>2 DEF Message, Draft
      <4> QED BY <1>1, <1>4, <2>2, <4>1, ConcatEmptySeq
    <3> QED BY <3>1, <3>2
  <2>4. pc' \in {"finishing", "finished"} /\ (surface.buffered => pc' = "finishing")
    <3>1. surface.buffered => held # <<>>
      BY <2>1 DEF Draft, Whole
    <3> QED BY <1>1, <3>1
  <2>5. Sound(shown') /\ Whole(shown') /\ Written(shown', Model)
    BY <2>1, <2>3 DEF Draft
  <2>6. ~surface.buffered => held = <<>>
    BY DEF Message
  <2> QED BY <1>1, <1>2, <1>4, <2>1, <2>4, <2>5, <2>6 DEF Message, Unsaid, Before
<1> QED BY <1>3, <1>4

\* The end of a whole message was sent with it;
LEMMA FinishSentKeepsMessage ==
  ASSUME Message, FinishSent PROVE Message'
<1>1. /\ pc \in {"finishing", "finished"} /\ pc' = "done"
      /\ UNCHANGED <<surface, order, position, held, splicer, shown>>
  BY DEF FinishSent, attemptVars
<1>2. Model' = Model /\ Continuing' = Continuing
  BY <1>1 DEF Model, Continuing
<1> QED BY <1>1, <1>2 DEF Message, Unsaid, Before

\* so was the end of one that was cut.
LEMMA CutSentKeepsMessage ==
  ASSUME Message, CutSent PROVE Message'
<1>1. /\ pc = "cutting" /\ pc' = "truncated"
      /\ UNCHANGED <<surface, order, position, held, splicer, shown>>
  BY DEF CutSent, attemptVars
<1>2. Model' = Model /\ Continuing' = Continuing
  BY <1>1 DEF Model, Continuing
<1> QED BY <1>1, <1>2 DEF Message, Unsaid, Before

\* The next model reads on where the message was left.
LEMMA SeamSentKeepsMessage ==
  ASSUME Message, SeamSent PROVE Message'
<1>1. /\ pc \in {"seam", "resume"} /\ pc' = "read" /\ upstream' = Fresh /\ held' = <<>>
      /\ UNCHANGED <<surface, splicer, shown>>
  BY DEF SeamSent, Resume, Begin
<1>2. Continuing' = Continuing /\ Spliced' = Spliced
  BY <1>1 DEF Continuing, Spliced
<1>3. Continuing /\ Spliced /\ Follows(splicer, shown, Fresh) /\ ~surface.buffered
  BY <1>1 DEF Message
<1>4. Sound(<<>>)
  BY NothingIsSound
<1> QED BY <1>1, <1>2, <1>3, <1>4 DEF Message, Unsaid, Before

\* A client that leaves changes nothing of what it was sent.
LEMMA ClientLeavesKeepsMessage ==
  ASSUME Message, ClientLeaves PROVE Message'
<1>1. /\ pc \in {"read", "closing", "probe", "seam", "cutting", "finishing"} /\ pc' = "left"
      /\ held' = <<>> /\ splicer' = NoSplicer
      /\ UNCHANGED <<surface, order, position, shown>>
  BY DEF ClientLeaves
<1>2. Model' = Model /\ ~Continuing'
  BY <1>1 DEF Model, Continuing
<1>3. Sound(<<>>)
  BY NothingIsSound
<1> QED BY <1>1, <1>2, <1>3 DEF Message, Unsaid, Before

\* A chunk goes where the client reads it, or is rewritten for the message.
LEMMA ChunkKeepsMessage ==
  ASSUME Inductive, Message, Chunk PROVE Message'
<1>0. TypeOK /\ OnRoute
  BY DEF Inductive
<1>1. PICK e \in Emissions :
        /\ upstream' = e.upstream
        /\ \/ surface.buffered
              /\ held' = Append(held, e.frame) /\ UNCHANGED <<shown, splicer>>
           \/ ~surface.buffered /\ ~Continuing
              /\ shown' = Append(shown, e.frame) /\ UNCHANGED <<held, splicer>>
           \/ ~surface.buffered /\ Continuing
              /\ \E r \in Rewrites(splicer, e.frame) :
                   splicer' = r.splicer /\ shown' = shown \o r.out
              /\ UNCHANGED held
  BY DEF Chunk
<1>2. pc = "read" /\ pc' = "read" /\ UNCHANGED <<surface, order, position>>
  BY DEF Chunk
<1>3. Model \in Models /\ Model' = Model /\ upstream.blocks \in Nat
  <2>1. pc \notin Before \cup {"raised"}
    BY <1>2 DEF Before
  <2>2. Model \in Models
    BY <1>0, <2>1, ModelFacts
  <2>3. upstream.blocks \in 0..MaxBlocks
    BY <1>0 DEF TypeOK
  <2> QED BY <1>2, <2>2, <2>3 DEF Model
<1>4. Emits(upstream, e.frame, e.upstream, Model)
  BY <1>0, EmissionsEmit
<1>5. /\ Sound(shown) /\ Sound(held)
      /\ ~Continuing => Mirrors(Draft, upstream) /\ Written(Draft, Model)
      /\ Continuing => ~surface.buffered /\ Spliced /\ Follows(splicer, shown, upstream)
      /\ surface.buffered => shown = <<>> /\ Written(shown, Model)
      /\ ~surface.buffered => held = <<>>
  BY <1>2 DEF Message, Before
<1>6. CASE surface.buffered /\ held' = Append(held, e.frame) /\ UNCHANGED <<shown, splicer>>
  <2>1. Draft = held /\ ~Continuing /\ ~Continuing' /\ Draft' = held'
    BY <1>2, <1>5, <1>6 DEF Draft, Continuing
  <2>2. Sound(held') /\ Mirrors(held', upstream') /\ Written(held', Model)
    <3>1. Mirrors(held, upstream) /\ Written(held, Model)
      BY <1>5, <2>1
    <3>2. LET t == Append(held, e.frame)
          IN Sound(t) /\ Mirrors(t, e.upstream) /\ Written(t, Model)
      BY <1>3, <1>4, <1>5, <3>1, MirrorsKept
    <3> QED BY <1>1, <1>6, <3>2
  <2> QED BY <1>2, <1>3, <1>5, <1>6, <2>1, <2>2 DEF Message, Unsaid, Before
<1>7. CASE /\ ~surface.buffered /\ ~Continuing
           /\ shown' = Append(shown, e.frame) /\ UNCHANGED <<held, splicer>>
  <2>1. Draft = shown /\ ~Continuing' /\ Draft' = shown'
    BY <1>2, <1>7 DEF Draft, Continuing
  <2>2. Sound(shown') /\ Mirrors(shown', upstream') /\ Written(shown', Model)
    <3>1. Mirrors(shown, upstream) /\ Written(shown, Model)
      BY <1>5, <1>7, <2>1
    <3>2. LET t == Append(shown, e.frame)
          IN Sound(t) /\ Mirrors(t, e.upstream) /\ Written(t, Model)
      BY <1>3, <1>4, <1>5, <3>1, MirrorsKept
    <3> QED BY <1>1, <1>7, <3>2
  <2> QED BY <1>2, <1>3, <1>5, <1>7, <2>1, <2>2 DEF Message, Unsaid, Before
<1>8. CASE /\ ~surface.buffered /\ Continuing /\ held' = held
           /\ \E r \in Rewrites(splicer, e.frame) :
                splicer' = r.splicer /\ shown' = shown \o r.out
  <2>1. PICK r \in Rewrites(splicer, e.frame) : splicer' = r.splicer /\ shown' = shown \o r.out
    BY <1>8
  <2>2. /\ Underway(shown) /\ FramesOf(shown, "delta") # {} /\ Knows(splicer, shown)
        /\ Follows(splicer, shown, upstream)
    BY <1>5, <1>8 DEF Spliced
  <2>3. Carries(shown, r, e.upstream)
    BY <1>3, <1>4, <1>5, <2>2, RewriteCarries
  <2>4. /\ Sound(shown') /\ Underway(shown') /\ FramesOf(shown', "delta") # {}
        /\ Knows(splicer', shown') /\ Follows(splicer', shown', upstream')
    BY <1>1, <2>1, <2>2, <2>3 DEF Carries
  <2>5. Continuing' /\ shown' # <<>> /\ Spliced'
    <3>1. splicer' \in Splicers
      BY <2>4 DEF Knows
    <3>2. splicer' # NoSplicer
      BY <3>1, SplicerFacts
    <3> QED BY <2>4, <3>2 DEF Continuing, Spliced, Underway
  <2> QED BY <1>2, <1>5, <1>8, <2>4, <2>5 DEF Message, Unsaid, Before
<1> QED BY <1>1, <1>6, <1>7, <1>8

\* The message is closed for the next model, or it is cut short.
LEMMA CommittedFailureKeepsMessage ==
  ASSUME Message, CommittedFailure PROVE Message'
<1>1. /\ pc = "closing" /\ fault # "none" /\ ~surface.buffered /\ shown # <<>>
      /\ UNCHANGED <<surface, order, position, upstream, held>>
  BY DEF CommittedFailure, Committed, attemptVars
<1>2. Sound(shown) /\ Sound(held) /\ held = <<>>
  BY <1>1 DEF Message
<1>3. PICK book \in IF Resumable THEN Prepared(Candidates(position + 1)) ELSE {NoWalk} :
        IF book.at # 0
        THEN /\ pc' \in {"resume", "seam"} /\ shown' = shown \o CloseFrames(shown)
             /\ splicer' = NewSplicer(shown)
        ELSE CutShort(book) /\ splicer' = splicer
  BY DEF CommittedFailure
<1>4. CASE book.at # 0
  <2>1. /\ pc' \in {"resume", "seam"} /\ shown' = shown \o CloseFrames(shown)
        /\ splicer' = NewSplicer(shown)
    BY <1>3, <1>4
  <2>2. Closable(shown) /\ HasText(shown)
    <3>1. NoWalk.at = 0
      BY DEF NoWalk
    <3>2. Resumable
      BY <1>3, <1>4, <3>1
    <3> QED BY <3>2 DEF Resumable
  <2>3. /\ Sound(shown') /\ Underway(shown') /\ FramesOf(shown', "delta") # {}
        /\ Knows(splicer', shown') /\ Follows(splicer', shown', Fresh)
    BY <1>2, <2>1, <2>2, SeamFollows
  <2>4. Continuing' /\ shown' # <<>> /\ Spliced'
    <3>1. splicer' \in Splicers
      BY <2>3 DEF Knows
    <3>2. splicer' # NoSplicer
      BY <3>1, SplicerFacts
    <3> QED BY <2>3, <3>2 DEF Continuing, Spliced, Underway
  <2> QED BY <1>1, <1>2, <2>1, <2>3, <2>4 DEF Message, Unsaid, Before
<1>5. CASE book.at = 0
  <2>1. /\ splicer' = splicer
        /\ \/ Closable(shown) /\ pc' = "cutting" /\ shown' = shown \o TruncationFrames(shown)
           \/ pc' = "raised" /\ shown' = shown
    BY <1>3, <1>5 DEF CutShort, Raise
  <2>2. Continuing' = Continuing
    BY <2>1 DEF Continuing
  <2>3. CASE Closable(shown) /\ pc' = "cutting" /\ shown' = shown \o TruncationFrames(shown)
    <3>1. Sound(shown') /\ Whole(shown') /\ Reason("own") \notin Range(shown')
      BY <1>1, <1>2, <2>3, TruncationFollows
    <3>2. shown' # <<>>
      BY <3>1 DEF Whole
    <3> QED BY <1>1, <1>2, <2>2, <2>3, <3>1, <3>2 DEF Message, Unsaid, Before
  <2>4. CASE pc' = "raised" /\ shown' = shown
    BY <1>1, <1>2, <2>2, <2>4 DEF Message, Unsaid, Before
  <2> QED BY <2>1, <2>3, <2>4
<1> QED BY <1>4, <1>5

\* A failure before the commit leaves no frame behind.
LEMMA UncommittedFailureKeepsMessage ==
  ASSUME Message, UncommittedFailure PROVE Message'
<1>1. /\ pc = "closing" /\ ~Committed /\ pc' \in {"raised", "retry", "route"}
      /\ UNCHANGED <<surface, held, splicer, shown>>
  BY DEF UncommittedFailure, Raise, attemptVars
<1>2. shown = <<>> /\ ~Continuing
  BY <1>1 DEF Message, Committed
<1> QED BY <1>1, <1>2, NothingIsSaid

\* A probe sends nothing.
LEMMA ProbeKeepsMessage ==
  ASSUME Message, Probe \/ ProbeAnswered PROVE Message'
<1>1. /\ pc \in {"route", "probe"} /\ pc' \in {"probe", "again", "fall"}
      /\ UNCHANGED <<surface, held, splicer, shown>>
  BY DEF Probe, ProbeAnswered, attemptVars
<1>2. shown = <<>> /\ ~Continuing
  BY <1>1 DEF Message, Unsaid
<1> QED BY <1>1, <1>2, NothingIsSaid

\* A walk for a client that knows of nothing.
LEMMA WalkKeepsMessage ==
  ASSUME Message, RetryPrimary \/ PreferSibling \/ Fallback \/ Ladder PROVE Message'
<1>1. pc \in {"retry", "route", "fall", "again", "ladder"}
  BY DEF RetryPrimary, PreferSibling, Fallback, Ladder
<1>2. shown = <<>> /\ ~Continuing
  BY <1>1 DEF Message, Unsaid
<1>3. /\ UNCHANGED <<surface, splicer, shown>>
      /\ \/ pc' = "read" /\ upstream' = Fresh /\ held' = <<>>
         \/ pc' \in {"route", "ladder", "raised"} /\ held' = held
  <2>1. CASE RetryPrimary
    BY <2>1 DEF RetryPrimary, Walk, Begin, GoTo, attemptVars
  <2>2. CASE PreferSibling
    BY <2>2 DEF PreferSibling, Walk, Begin, Exhausted, GoTo, Raise, attemptVars
  <2>3. CASE Fallback
    BY <2>3 DEF Fallback, Walk, Begin, Exhausted, GoTo, Raise, attemptVars
  <2>4. CASE Ladder
    BY <2>4 DEF Ladder, Walk, Begin, Raise, attemptVars
  <2> QED BY <2>1, <2>2, <2>3, <2>4
<1> QED BY <1>2, <1>3, AttemptBegins, NothingIsSaid

\* At first there is no message;
LEMMA MessageAtFirst == Init => Message
<1> SUFFICES ASSUME Init PROVE Message
  OBVIOUS
<1>1. Sound(<<>>) /\ \A m : Written(<<>>, m)
  BY NothingIsSound
<1>2. pc = "new" /\ shown = <<>> /\ held = <<>> /\ ~Continuing /\ upstream = Fresh
  BY DEF Init, Continuing
<1> QED BY <1>1, <1>2 DEF Message, Before

\* a step that changes nothing of the request changes nothing of it;
LEMMA MessageStutters == Message /\ UNCHANGED vars => Message'
<1> SUFFICES ASSUME Message, UNCHANGED vars PROVE Message'
  OBVIOUS
<1>1. UNCHANGED <<surface, order, pc, position, upstream, fault, splicer, held, shown>>
  BY DEF vars, attemptVars
<1>2. Continuing' = Continuing /\ Draft' = Draft /\ Model' = Model /\ Spliced' = Spliced
  BY <1>1 DEF Continuing, Draft, Model, Spliced
<1> QED BY <1>1, <1>2 DEF Message

\* and every step keeps it sound.
LEMMA EveryStepKeepsMessage == Inductive /\ Message /\ [Next]_vars => Message'
<1> SUFFICES ASSUME Inductive, Message, [Next]_vars PROVE Message'
  OBVIOUS
<1>1. CASE Attempt
  BY <1>1, ChunkKeepsMessage, StreamEndsKeepsMessage, StreamFailsKeepsMessage
     DEF Attempt, DeadlineReached, Faults
<1>2. CASE Decision
  BY <1>2, PlanKeepsMessage, PreflightKeepsMessage, CommittedFailureKeepsMessage,
     FinishKeepsMessage, UncommittedFailureKeepsMessage, ProbeKeepsMessage, WalkKeepsMessage
     DEF Decision
<1>3. CASE Pulled
  BY <1>3, FirstPullKeepsMessage, NeverPulledKeepsMessage, SeamSentKeepsMessage,
     CutSentKeepsMessage, FinishSentKeepsMessage, ClientLeavesKeepsMessage DEF Pulled
<1>4. CASE \E f \in Faults : StreamFails(f)
  BY <1>4, StreamFailsKeepsMessage
<1>5. CASE Ended \/ UNCHANGED vars
  BY <1>5, MessageStutters DEF Ended
<1> QED BY <1>1, <1>2, <1>3, <1>4, <1>5 DEF Next

\* The message, the stream under way and what the splicer knows of both belong together,
\* for a route of any length and streams of any number of blocks.
THEOREM MessageCorrect == Spec => []Message
<1> QED BY InductiveCorrect, MessageAtFirst, EveryStepKeepsMessage, PTL DEF Spec

\* Whatever fails and whoever takes over, the client reads one message: well formed
\* across every seam, whole when the request ends normally, without another model's
\* thinking or a tool call that lacks its arguments, and one model's own answer if
\* the client does not stream (ContinuationSplicer in core/anthropic/streaming/splice.py
\* and _truncate_after_commit in application/execution.py).
THEOREM OneMessageCorrect == Spec => []OneMessage
<1>1. Message => OneMessage
  <2> SUFFICES ASSUME Message PROVE OneMessage
    OBVIOUS
  <2>1. shown \in Seq(Frames) /\ WellFormed(shown) /\ ToolsAreWhole(shown) /\ FirstOneThinks(shown)
    BY DEF Message, Sound
  <2>2. pc \in {"done", "truncated"} => Whole(shown)
    BY DEF Message
  <2>3. pc = "truncated" => Reason("own") \notin Range(shown)
    BY DEF Message
  <2>4. ASSUME NEW n \in FramesOf(shown, "delta"), shown[n].kind = "thinking"
        PROVE  shown[n].by = shown[Min(FramesOf(shown, "delta"))].by
    <3> DEFINE D == FramesOf(shown, "delta")
    <3>1. D \in SUBSET Nat /\ D # {}
      BY <2>1, <2>4, FramesFacts
    <3>2. \E k \in D : \A i \in D : k <= i
      <4> HIDE DEF D
      <4> QED BY <3>1, NatMinimum
    <3>3. Min(D) \in D /\ \A i \in D : Min(D) <= i
      <4> HIDE DEF D
      <4> QED BY <3>2 DEF Min
    <3> QED BY <2>1, <2>4, <3>3 DEF FirstOneThinks
  <2>5. ASSUME surface.buffered
        PROVE  Writers \subseteq IF pc \in {"finishing", "done", "left"} THEN {Model} ELSE {}
    <3>1. CASE pc \in {"finishing", "done", "left"}
      <4>1. Written(shown, Model)
        BY <2>5, <3>1 DEF Message, Before
      <4> QED BY <3>1, <4>1 DEF Written, Writers
    <3>2. CASE pc \notin {"finishing", "done", "left"}
      <4>1. shown = <<>>
        BY <2>5, <3>2 DEF Message
      <4>2. FramesOf(shown, "delta") = {}
        BY <4>1, NothingIsSound
      <4> QED BY <3>2, <4>2 DEF Writers
    <3> QED BY <3>1, <3>2
  <2> QED BY <2>1, <2>2, <2>3, <2>4, <2>5 DEF OneMessage, ToolsAreWhole
<1> QED BY <1>1, MessageCorrect, PTL

=============================================================================
