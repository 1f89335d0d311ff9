------------------------ MODULE MessageTrees_proofs ------------------------
(***************************************************************************)
(* Proofs about the conversation trees: no work is stranded, turns follow  *)
(* each other, a stop and a clear are boundaries, the index and the        *)
(* session store hold exactly the trees, and the file of the store what    *)
(* it last wrote, for any finite set of prompts and any number of commands *)
(* and restarts.                                                           *)
(*                                                                         *)
(* The heart of it is that the reply subtree of a message is closed and    *)
(* stays within its tree (RepliesFacts), so a reply /clear leaves a graph. *)
(***************************************************************************)
EXTENDS MessageTrees, NaturalsInduction, WellFoundedInduction, SequenceTheorems,
        FiniteSetTheorems, TLAPS

\* The element a is somewhere before b in s.
Before(s, a, b) == \E i, j \in 1..Len(s) : i < j /\ s[i] = a /\ s[j] = b

\* A received turn is in no tree yet.
Waits == \A n \in Prompts : turn[n] = "waiting" => state[n] = "absent"

\* The nodes of a published tree hang together: its root has no parent, the
\* parent reference of every other node resolves, a runnable one has its status.
Graph ==
  /\ \A n \in Prompts : Live(n) => root[n] \in Published
  /\ \A r \in Published : Live(r) /\ root[r] = r
  /\ \A n \in Prompts : Live(n) /\ n = root[n] => parent[n] = NoRef
  /\ \A n \in Prompts : Live(n) /\ n # root[n] => InGraph(root[n], parent[n])
  /\ \A n \in Prompts : Unfinished(n) => status[n]

\* Following parents ends at a root, also through nodes that were removed.
Rooted ==
  /\ \A n \in Prompts : state[n] = "absent" => root[n] = NoPrompt
  /\ \A n \in Prompts : root[n] # NoPrompt => root[root[n]] # NoPrompt
  /\ \A n \in Prompts : root[n] # NoPrompt /\ parent[n] # NoRef =>
       root[parent[n][1]] # NoPrompt
  /\ \A S \in SUBSET Prompts :
       S # {} /\ (\A n \in S : root[n] \notin {NoPrompt, n}) =>
         \E n \in S : parent[n][1] \notin S

\* What the claims, the tasks and the queues of the trees know of each other.
Queued == \A r \in Published :
  IsInjective(queue[r]) /\ ToSet(queue[r]) = {n \in Nodes(r) : state[n] = "pending"}
Claimed ==
  /\ \A r \in Published : queue[r] # <<>> => active[r] # NoPrompt
  /\ \A r \in Published : active[r] # NoPrompt => task[active[r]] # "none"
  /\ \A r \in Prompts : r \notin Published => active[r] = NoPrompt
  /\ \A r \in Prompts : state[r] = "absent" => queue[r] = <<>>
  /\ \A r \in Prompts : active[r] # NoPrompt =>
       root[active[r]] = r /\ state[active[r]] \notin {"pending", "absent"}
Running ==
  /\ \A n \in Prompts : task[n] # "none" => root[n] # NoPrompt
  /\ \A n \in Prompts : task[n] # "none" /\ root[n] \in Published => active[root[n]] = n
  /\ \A n \in Prompts : state[n] = "in_progress" => active[root[n]] = n
  /\ \A n \in Prompts : cancelled[n] => task[n] # "none" /\ ~Unfinished(n)

\* A queued reply waits behind the prompt it replies to, a running one has seen it end.
QueuedInOrder == \A r \in Published : \A n \in ToSet(queue[r]) :
  parent[n] # NoRef /\ state[parent[n][1]] = "pending" =>
    Before(queue[r], parent[n][1], n)
ParentsFirst == \A n \in Prompts :
  task[n] # "none" /\ Live(n) /\ parent[n] # NoRef => state[parent[n][1]] # "pending"

Boundary == CommandBoundary /\ stopGen <= commands /\ clearGen <= commands

\* A snapshot of r that says no more than the tree in memory.
Consistent(r, snap) ==
  /\ DOMAIN snap = Nodes(r)
  /\ \A n \in DOMAIN snap :
       /\ snap[n].state = "completed" => state[n] = "completed"
       /\ snap[n].session => session[n]
\* A snapshot of r, perhaps an old one, that can be restored.
Kept(r, snap) ==
  /\ IsSnapshot(snap)
  /\ \A n \in DOMAIN snap : root[n] = r /\ snap[n].parent = parent[n]
  /\ Restorable(r, snap)

\* The command that holds the state lock works on published trees.
Operation ==
  /\ op = [kind |-> op.kind, phase |-> op.phase, trees |-> op.trees,
           snaps |-> op.snaps, drop |-> op.drop]
  /\ op.phase = "idle" => op = Idle
  /\ op.phase # "idle" => op.trees \subseteq Published /\ op.drop \cap Published = {}
  /\ op.phase = "sessions" => op.kind = "stopAll" /\ op.trees = {} /\ op.drop = {}
\* What is stored of a tree the command does not rewrite, and what it will write.
Undisturbed(r) == op.phase = "idle" \/ r \notin op.trees \cup op.drop
Stored ==
  /\ \A r \in Prompts : store[r] # NoTree => Kept(r, store[r])
  /\ \A r \in Prompts : Undisturbed(r) =>
       \/ r \in Published /\ Consistent(r, store[r])
       \/ (r \notin Published \/ raised["clear"]) /\ store[r] = NoTree
  /\ op.phase = "save" =>
       /\ DOMAIN op.snaps = op.trees
       /\ \A r \in op.trees : Kept(r, op.snaps[r]) /\ Consistent(r, op.snaps[r])

\* The index by the nodes alone.
Indexed == \A ref \in Refs : index[ref] =
  IF Live(ref[1]) /\ (ref[2] = "prompt" \/ status[ref[1]]) THEN root[ref[1]] ELSE NoPrompt

Work == Queued /\ Claimed /\ Running
Order == QueuedInOrder /\ ParentsFirst

\* The trees, the commands and the conversation in memory.
Core ==
  /\ TypeOK /\ Waits /\ Graph /\ Rooted /\ Work /\ Order
  /\ Boundary /\ Operation /\ Stored /\ Indexed

\* Every message of the tree came after the last /clear of the chat.
Fresh(snap) == \A n \in DOMAIN snap : admitted[n][2] = clearGen
\* What the file holds: trees that were in memory once, of no cleared chat.
Filed ==
  /\ \A r \in Prompts : file[r] # NoTree => Kept(r, file[r])
  /\ op.kind = "clearChat" => op.trees = {} /\ op.drop = Prompts
  /\ op.kind # "clearChat" /\ ~raised["clear"] =>
       /\ \A r \in Prompts : Fresh(store[r])
       /\ ~raised["write"] => \A r \in Prompts : Fresh(file[r])

Inductive == Core /\ Filed

-----------------------------------------------------------------------------
(***************************************************************************)
(* Sequences.                                                              *)
(***************************************************************************)
LEMMA NatByInduction ==
  ASSUME NEW T, 0 \in T, \A n \in Nat : n \in T => n + 1 \in T
  PROVE  \A n \in Nat : n \in T
<1> DEFINE bad == Nat \ T
           R == OpToRel(<, Nat)
<1> SUFFICES ASSUME bad # {} PROVE FALSE
  OBVIOUS
<1>1. PICK k \in bad : \A i \in bad : <<i, k>> \notin R
  BY NatLessThanWellFounded, WFMin
<1>2. \A i \in bad : i < k => <<i, k>> \in R
  BY <1>1 DEF OpToRel
<1> HIDE DEF R
<1>3. k # 0 /\ k - 1 \in Nat /\ (k - 1) + 1 = k /\ k - 1 < k
  BY <1>1
<1>4. k - 1 \in T
  BY <1>1, <1>2, <1>3
<1> QED BY <1>1, <1>3, <1>4

LEMMA InSequence ==
  ASSUME NEW S, NEW s \in Seq(S), NEW x
  PROVE  x \in ToSet(s) <=> \E j \in 1..Len(s) : s[j] = x
<1>1. DOMAIN s = 1..Len(s)
  OBVIOUS
<1> QED BY <1>1 DEF ToSet

\* The prefixes of Without are the values of a function that is defined by recursion.
Filtered(s, gone) == CHOOSE g : g = [i \in 0..Len(s) |-> IF i = 0 THEN <<>>
  ELSE IF s[i] \in gone THEN g[i - 1] ELSE Append(g[i - 1], s[i])]

LEMMA WithoutFiltered ==
  ASSUME NEW s, NEW gone PROVE Without(s, gone) = Filtered(s, gone)[Len(s)]
BY DEF Without, Filtered

LEMMA FilteredExist ==
  ASSUME NEW s \in Seq(Prompts), NEW gone
  PROVE  Filtered(s, gone) = [i \in 0..Len(s) |-> IF i = 0 THEN <<>>
           ELSE IF s[i] \in gone THEN Filtered(s, gone)[i - 1]
           ELSE Append(Filtered(s, gone)[i - 1], s[i])]
<1> DEFINE Value(g, i) == IF i = 0 THEN <<>>
             ELSE IF s[i] \in gone THEN g[i - 1] ELSE Append(g[i - 1], s[i])
           Is(g, n) == g = [i \in 0..n |-> Value(g, i)]
           T == {n \in Nat : \E g : Is(g, n)}
<1>1. 0 \in T
  <2> DEFINE g == [i \in 0..0 |-> <<>>]
  <2>1. Is(g, 0)
    OBVIOUS
  <2> HIDE DEF g, Is
  <2> QED BY <2>1
<1>2. ASSUME NEW n \in Nat, n \in T PROVE n + 1 \in T
  <2>1. PICK g : Is(g, n)
    BY <1>2
  <2> DEFINE h == [i \in 0..(n + 1) |-> IF i = n + 1 THEN Value(g, n + 1) ELSE g[i]]
  <2>2. ASSUME NEW i \in 0..(n + 1) PROVE h[i] = Value(h, i)
    <3>1. CASE i = 0
      BY <2>1, <3>1
    <3>2. CASE i # 0
      <4>1. i - 1 \in 0..n /\ i - 1 # n + 1 /\ i - 1 \in 0..(n + 1)
        BY <3>2
      <4>2. h[i - 1] = g[i - 1]
        BY <4>1
      <4>3. h[i] = Value(g, i)
        <5>1. CASE i = n + 1
          BY <5>1
        <5>2. CASE i # n + 1
          <6>1. i \in 0..n /\ h[i] = g[i]
            BY <5>2
          <6>2. \A j \in 0..n : g[j] = Value(g, j)
            BY <2>1
          <6> QED BY <6>1, <6>2
        <5> QED BY <5>1, <5>2
      <4> QED BY <3>2, <4>2, <4>3
    <3> QED BY <3>1, <3>2
  <2>3. Is(h, n + 1)
    BY <2>2
  <2> HIDE DEF h, Is
  <2> QED BY <2>3
<1> HIDE DEF T
<1>3. Len(s) \in T
  BY <1>1, <1>2, NatByInduction
<1>4. \E g : Is(g, Len(s))
  BY <1>3 DEF T
<1> QED BY <1>4 DEF Filtered

\* Without keeps the other elements, each once, and their order.
LEMMA WithoutFacts ==
  ASSUME NEW s \in Seq(Prompts), NEW gone
  PROVE  /\ Without(s, gone) \in Seq(Prompts)
         /\ ToSet(Without(s, gone)) = ToSet(s) \ gone
         /\ IsInjective(s) => IsInjective(Without(s, gone))
         /\ \A a, b : a \notin gone /\ b \notin gone /\ Before(s, a, b) =>
              Before(Without(s, gone), a, b)
<1> DEFINE g == Filtered(s, gone)
           In(t, x) == \E j \in 1..Len(t) : t[j] = x
           First(i, x) == x \notin gone /\ \E j \in 1..i : s[j] = x
           Once(t) == \A i, j \in 1..Len(t) : t[i] = t[j] => i = j
           Upto(n, a, b) == \E i, j \in 1..n : i < j /\ s[i] = a /\ s[j] = b
           Good(i) == /\ g[i] \in Seq(Prompts)
                      /\ \A x : In(g[i], x) <=> First(i, x)
                      /\ Once(s) => Once(g[i])
                      /\ \A a, b : a \notin gone /\ b \notin gone /\ Upto(i, a, b) =>
                           Before(g[i], a, b)
           T == {i \in Nat : i <= Len(s) => Good(i)}
<1>1. 0 \in T
  <2>1. g[0] = <<>>
    BY FilteredExist
  <2> HIDE DEF g
  <2>2. Good(0)
    BY <2>1
  <2> HIDE DEF Good
  <2> QED BY <2>2
<1>2. ASSUME NEW n \in Nat, n \in T PROVE n + 1 \in T
  <2> SUFFICES ASSUME n + 1 <= Len(s) PROVE Good(n + 1)
    <3> HIDE DEF Good
    <3> QED OBVIOUS
  <2>1. n + 1 \in 1..Len(s) /\ n + 1 \in 0..Len(s) /\ (n + 1) - 1 = n /\ n + 1 # 0
    OBVIOUS
  <2>2. Good(n)
    <3>1. n <= Len(s)
      OBVIOUS
    <3> HIDE DEF Good
    <3> QED BY <1>2, <3>1
  <2>3. g[n + 1] = IF s[n + 1] \in gone THEN g[n] ELSE Append(g[n], s[n + 1])
    <3>1. g = [i \in 0..Len(s) |-> IF i = 0 THEN <<>>
                ELSE IF s[i] \in gone THEN g[i - 1] ELSE Append(g[i - 1], s[i])]
      BY FilteredExist
    <3> HIDE DEF g
    <3> QED BY <2>1, <3>1
  <2> HIDE DEF g
  <2>4. CASE s[n + 1] \notin gone
    <3> DEFINE u == g[n]
               x == s[n + 1]
               t == Append(u, x)
    <3>1. g[n + 1] = t /\ u \in Seq(Prompts) /\ x \in Prompts
      BY <2>1, <2>2, <2>3, <2>4
    <3>2. /\ t \in Seq(Prompts) /\ Len(t) = Len(u) + 1 /\ t[Len(u) + 1] = x
          /\ \A j \in 1..Len(u) : t[j] = u[j]
      BY <3>1
    <3>3. Len(u) \in Nat
      BY <3>1
    <3>4. \A y : In(u, y) <=> First(n, y)
      BY <2>2
    <3>5. \A a, b : a \notin gone /\ b \notin gone /\ Upto(n, a, b) => Before(u, a, b)
      BY <2>2
    <3>6. Once(s) => Once(u)
      BY <2>2
    <3>7. x \notin gone
      BY <2>4
    <3>8. x = s[n + 1]
      OBVIOUS
    <3> HIDE DEF u, t, x
    <3>9. ASSUME NEW y PROVE In(t, y) <=> First(n + 1, y)
      <4>1. In(t, y) <=> In(u, y) \/ x = y
        BY <3>2, <3>3
      <4>2. First(n + 1, y) <=> First(n, y) \/ x = y
        BY <3>7, <3>8
      <4> QED BY <3>4, <4>1, <4>2
    <3>10. ASSUME Once(s) PROVE Once(t)
      <4>1. ASSUME NEW j \in 1..Len(u) PROVE u[j] # x
        <5>1. First(n, u[j])
          BY <3>4
        <5>2. PICK m \in 1..n : s[m] = u[j]
          BY <5>1
        <5>3. m # n + 1 /\ m \in 1..Len(s)
          BY <2>1
        <5> QED BY <2>1, <5>2, <5>3, <3>8, <3>10
      <4>2. ASSUME NEW i \in 1..Len(t), NEW j \in 1..Len(t), t[i] = t[j] PROVE i = j
        BY <3>2, <3>3, <3>6, <3>10, <4>1, <4>2
      <4> QED BY <4>2
    <3>11. ASSUME NEW a, NEW b, a \notin gone, b \notin gone, Upto(n + 1, a, b)
           PROVE  Before(t, a, b)
      <4>1. PICK i, j \in 1..(n + 1) : i < j /\ s[i] = a /\ s[j] = b
        BY <3>11
      <4>2. CASE j = n + 1
        <5>1. i \in 1..n
          BY <4>1, <4>2
        <5>2. In(u, a)
          BY <3>4, <3>11, <4>1, <5>1
        <5>3. PICK k \in 1..Len(u) : u[k] = a
          BY <5>2
        <5>4. k \in 1..Len(t) /\ Len(u) + 1 \in 1..Len(t) /\ k < Len(u) + 1
          BY <3>2, <3>3
        <5> QED BY <3>2, <3>8, <4>1, <4>2, <5>3, <5>4 DEF Before
      <4>3. CASE j # n + 1
        <5>1. i \in 1..n /\ j \in 1..n
          BY <4>1, <4>3
        <5>2. Before(u, a, b)
          BY <3>5, <3>11, <4>1, <5>1
        <5>3. PICK k, m \in 1..Len(u) : k < m /\ u[k] = a /\ u[m] = b
          BY <5>2 DEF Before
        <5>4. k \in 1..Len(t) /\ m \in 1..Len(t)
          BY <3>2, <3>3
        <5> QED BY <3>2, <5>3, <5>4 DEF Before
      <4> QED BY <4>2, <4>3
    <3> HIDE DEF In, First, Once, Upto
    <3> QED BY <3>1, <3>2, <3>9, <3>10, <3>11
  <2>5. CASE s[n + 1] \in gone
    <3>1. g[n + 1] = g[n]
      BY <2>3, <2>5
    <3>2. \A x : First(n + 1, x) <=> First(n, x)
      BY <2>5
    <3>3. ASSUME NEW a, NEW b, a \notin gone, b \notin gone, Upto(n + 1, a, b)
          PROVE  Upto(n, a, b)
      <4>1. PICK i, j \in 1..(n + 1) : i < j /\ s[i] = a /\ s[j] = b
        BY <3>3
      <4>2. j # n + 1
        BY <2>5, <3>3, <4>1
      <4>3. i \in 1..n /\ j \in 1..n
        BY <4>1, <4>2
      <4> QED BY <4>1, <4>3
    <3> HIDE DEF In, First, Once, Upto
    <3> QED BY <2>2, <3>1, <3>2, <3>3
  <2> QED BY <2>4, <2>5
<1>3. Len(s) \in T
  <2> HIDE DEF T
  <2> QED BY <1>1, <1>2, NatByInduction
<1>4. Good(Len(s))
  BY <1>3
<1> DEFINE w == Without(s, gone)
<1>5. w = g[Len(s)]
  BY WithoutFiltered
<1> HIDE DEF g, w
<1>6. w \in Seq(Prompts) /\ \A x : In(w, x) <=> First(Len(s), x)
  BY <1>4, <1>5
<1>7. ASSUME NEW x PROVE x \in ToSet(w) <=> x \in ToSet(s) \ gone
  <2>1. x \in ToSet(w) <=> In(w, x)
    BY <1>6, InSequence
  <2>2. x \in ToSet(s) <=> \E j \in 1..Len(s) : s[j] = x
    BY InSequence
  <2> QED BY <1>6, <2>1, <2>2
<1>8. IsInjective(s) => IsInjective(w)
  <2>1. DOMAIN s = 1..Len(s) /\ DOMAIN w = 1..Len(w)
    BY <1>6
  <2>2. Once(s) => Once(w)
    BY <1>4, <1>5
  <2> QED BY <2>1, <2>2 DEF IsInjective
<1>9. \A a, b : a \notin gone /\ b \notin gone /\ Before(s, a, b) => Before(w, a, b)
  <2>1. \A a, b : a \notin gone /\ b \notin gone /\ Upto(Len(s), a, b) => Before(w, a, b)
    <3> HIDE DEF In, First, Once, Upto
    <3> QED BY <1>4, <1>5
  <2>2. \A a, b : Before(s, a, b) <=> Upto(Len(s), a, b)
    BY DEF Before
  <2> HIDE DEF In, First, Once, Upto, Good
  <2> QED BY <2>1, <2>2
<1>10. ToSet(w) = ToSet(s) \ gone
  BY <1>7
<1> QED BY <1>6, <1>8, <1>9, <1>10 DEF w

\* Appending keeps the order, and the new element comes last.
LEMMA AppendFacts ==
  ASSUME NEW s \in Seq(Prompts), NEW n \in Prompts
  PROVE  /\ Append(s, n) \in Seq(Prompts)
         /\ ToSet(Append(s, n)) = ToSet(s) \cup {n}
         /\ IsInjective(s) /\ n \notin ToSet(s) => IsInjective(Append(s, n))
         /\ \A a, b : Before(s, a, b) => Before(Append(s, n), a, b)
         /\ \A a \in ToSet(s) : Before(Append(s, n), a, n)
<1> DEFINE t == Append(s, n)
<1>1. /\ t \in Seq(Prompts) /\ Len(t) = Len(s) + 1 /\ t[Len(s) + 1] = n
      /\ \A j \in 1..Len(s) : t[j] = s[j]
  OBVIOUS
<1>2. Len(s) \in Nat /\ DOMAIN s = 1..Len(s)
  OBVIOUS
<1> HIDE DEF t
<1>3. DOMAIN t = 1..Len(t)
  BY <1>1
<1>4. ASSUME NEW x PROVE x \in ToSet(t) <=> x \in ToSet(s) \cup {n}
  BY <1>1, <1>2, <1>3 DEF ToSet
<1>5. ASSUME IsInjective(s), n \notin ToSet(s) PROVE IsInjective(t)
  <2>1. \A j \in 1..Len(s) : s[j] # n
    BY <1>2, <1>5 DEF ToSet
  <2>2. ASSUME NEW i \in 1..Len(t), NEW j \in 1..Len(t), t[i] = t[j] PROVE i = j
    BY <1>1, <1>2, <1>5, <2>1, <2>2 DEF IsInjective
  <2> QED BY <1>3, <2>2 DEF IsInjective
<1>6. ASSUME NEW a, NEW b, Before(s, a, b) PROVE Before(t, a, b)
  <2>1. PICK k, m \in 1..Len(s) : k < m /\ s[k] = a /\ s[m] = b
    BY <1>6 DEF Before
  <2>2. k \in 1..Len(t) /\ m \in 1..Len(t)
    BY <1>1, <1>2
  <2> QED BY <1>1, <2>1, <2>2 DEF Before
<1>7. ASSUME NEW a \in ToSet(s) PROVE Before(t, a, n)
  <2>1. PICK k \in 1..Len(s) : s[k] = a
    BY InSequence
  <2>2. k \in 1..Len(t) /\ Len(s) + 1 \in 1..Len(t) /\ k < Len(s) + 1
    BY <1>1, <1>2
  <2> QED BY <1>1, <2>1, <2>2 DEF Before
<1>8. ToSet(t) = ToSet(s) \cup {n}
  BY <1>4
<1> QED BY <1>1, <1>5, <1>6, <1>7, <1>8 DEF t

\* Serving the head keeps the order of the others, and nothing is before it.
LEMMA TailFacts ==
  ASSUME NEW s \in Seq(Prompts), s # <<>>, IsInjective(s)
  PROVE  /\ s[1] \in Prompts /\ s[1] \in ToSet(s) /\ Head(s) = s[1]
         /\ SubSeq(s, 2, Len(s)) \in Seq(Prompts)
         /\ ToSet(SubSeq(s, 2, Len(s))) = ToSet(s) \ {s[1]}
         /\ IsInjective(SubSeq(s, 2, Len(s)))
         /\ \A a, b : a # s[1] /\ Before(s, a, b) => Before(SubSeq(s, 2, Len(s)), a, b)
         /\ \A a : ~Before(s, a, s[1])
<1> DEFINE t == SubSeq(s, 2, Len(s))
<1>1. Len(s) \in Nat /\ Len(s) # 0 /\ DOMAIN s = 1..Len(s)
  OBVIOUS
<1>2. \A i, j \in 1..Len(s) : s[i] = s[j] => i = j
  BY <1>1 DEF IsInjective
<1>3. /\ t \in Seq(Prompts) /\ Len(t) = Len(s) - 1
      /\ \A j \in 1..(Len(s) - 1) : t[j] = s[j + 1]
  <2>1. t = Tail(s)
    BY <1>1
  <2> QED BY <1>1, <2>1
<1> HIDE DEF t
<1>4. DOMAIN t = 1..Len(t)
  BY <1>3
<1>5. 1 \in 1..Len(s) /\ s[1] \in Prompts /\ s[1] \in ToSet(s) /\ Head(s) = s[1]
  BY <1>1 DEF ToSet
<1>6. ASSUME NEW x PROVE x \in ToSet(t) <=> x \in ToSet(s) \ {s[1]}
  <2>1. ASSUME x \in ToSet(t) PROVE x \in ToSet(s) \ {s[1]}
    <3>1. PICK j \in 1..Len(t) : t[j] = x
      BY <1>4, <2>1 DEF ToSet
    <3>2. j + 1 \in 1..Len(s) /\ j + 1 # 1 /\ s[j + 1] = x
      BY <1>1, <1>3, <3>1
    <3> QED BY <1>1, <1>2, <1>5, <3>2 DEF ToSet
  <2>2. ASSUME x \in ToSet(s), x # s[1] PROVE x \in ToSet(t)
    <3>1. PICK j \in 1..Len(s) : s[j] = x
      BY <1>1, <2>2 DEF ToSet
    <3>2. j - 1 \in 1..(Len(s) - 1) /\ (j - 1) + 1 = j
      BY <1>1, <2>2, <3>1
    <3> QED BY <1>3, <1>4, <3>1, <3>2 DEF ToSet
  <2> QED BY <2>1, <2>2
<1>7. IsInjective(t)
  <2>1. ASSUME NEW i \in 1..Len(t), NEW j \in 1..Len(t), t[i] = t[j] PROVE i = j
    <3>1. i + 1 \in 1..Len(s) /\ j + 1 \in 1..Len(s) /\ s[i + 1] = s[j + 1]
      BY <1>1, <1>3, <2>1
    <3>2. i + 1 = j + 1
      BY <1>2, <3>1
    <3> QED BY <3>2
  <2> QED BY <1>4, <2>1 DEF IsInjective
<1>8. ASSUME NEW a, NEW b, a # s[1], Before(s, a, b) PROVE Before(t, a, b)
  <2>1. PICK k, m \in 1..Len(s) : k < m /\ s[k] = a /\ s[m] = b
    BY <1>8 DEF Before
  <2>2. k - 1 \in 1..Len(t) /\ m - 1 \in 1..Len(t) /\ k - 1 < m - 1
        /\ (k - 1) + 1 = k /\ (m - 1) + 1 = m
    BY <1>1, <1>3, <1>8, <2>1
  <2>3. t[k - 1] = a /\ t[m - 1] = b
    BY <1>3, <2>1, <2>2
  <2> QED BY <2>2, <2>3 DEF Before
<1>9. ASSUME NEW a, Before(s, a, s[1]) PROVE FALSE
  <2>1. PICK k, m \in 1..Len(s) : k < m /\ s[k] = a /\ s[m] = s[1]
    BY <1>9 DEF Before
  <2>2. m = 1
    BY <1>2, <1>5, <2>1
  <2> QED BY <2>1, <2>2
<1>10. ToSet(t) = ToSet(s) \ {s[1]}
  BY <1>6
<1> QED BY <1>3, <1>5, <1>7, <1>8, <1>9, <1>10 DEF t

LEMMA EmptyFacts ==
  <<>> \in Seq(Prompts) /\ ToSet(<<>>) = {} /\ IsInjective(<<>>)
BY DEF ToSet, IsInjective

LEMMA EmptyQueue ==
  ASSUME NEW s \in Seq(Prompts) PROVE s = <<>> <=> ToSet(s) = {}
<1>1. Len(s) \in Nat /\ DOMAIN s = 1..Len(s)
  OBVIOUS
<1>2. s # <<>> => 1 \in 1..Len(s) /\ s[1] \in ToSet(s)
  BY <1>1 DEF ToSet
<1> QED BY <1>2, EmptyFacts

-----------------------------------------------------------------------------
(***************************************************************************)
(* References and the graph of a tree.                                     *)
(***************************************************************************)
LEMMA RefFacts ==
  /\ \A n \in Prompts : <<n, "prompt">> \in Refs /\ <<n, "status">> \in Refs /\ n # NoPrompt
  /\ \A ref \in Refs : /\ ref[1] \in Prompts /\ ref # NoRef
                       /\ ref = <<ref[1], "prompt">> \/ ref = <<ref[1], "status">>
                       /\ ref[2] = "prompt" \/ ref[2] = "status"
  /\ NoRef[1] = NoPrompt /\ NoRef \notin Refs /\ NoPrompt \notin Prompts
BY NoPromptAssumption DEF Refs, NoRef

LEMMA NodeTypes ==
  ASSUME TypeOK, NEW n \in Prompts
  PROVE  /\ root[n] \in Prompts \cup {NoPrompt} /\ parent[n] \in Refs \cup {NoRef}
         /\ status[n] \in BOOLEAN /\ session[n] \in BOOLEAN
         /\ active[n] \in Prompts \cup {NoPrompt} /\ queue[n] \in Seq(Prompts)
         /\ state[n] \in {"absent", "pending", "in_progress", "completed", "error", "removed"}
BY DEF TypeOK

LEMMA RootsArePrompts ==
  ASSUME TypeOK PROVE trees \in Seq(Prompts) /\ Published \subseteq Prompts
<1>1. trees \in Seq(Prompts)
  BY DEF TypeOK
<1> QED BY <1>1, InSequence DEF Published

LEMMA LiveNodes ==
  ASSUME NEW n \in Prompts, NEW r PROVE n \in Nodes(r) <=> root[n] = r /\ Live(n)
BY DEF Nodes

\* The parent of a live node is a live node of its tree.
LEMMA ParentFacts ==
  ASSUME TypeOK, Graph, NEW n \in Prompts, Live(n), parent[n] # NoRef
  PROVE  /\ parent[n] \in Refs /\ parent[n][1] \in Prompts /\ n # root[n]
         /\ Live(parent[n][1]) /\ root[parent[n][1]] = root[n]
         /\ parent[n][2] = "status" => status[parent[n][1]]
<1>1. parent[n] \in Refs
  BY NodeTypes
<1>2. n # root[n]
  BY DEF Graph
<1>3. InGraph(root[n], parent[n])
  BY <1>2 DEF Graph
<1> QED BY <1>1, <1>2, <1>3, RefFacts DEF InGraph, Nodes

\* A live reply is in the tree of its parent.
LEMMA SameTree ==
  ASSUME TypeOK, Graph, NEW n \in Prompts, NEW r, Live(n), parent[n][1] \in Nodes(r)
  PROVE  root[n] = r
<1>1. parent[n] # NoRef
  BY RefFacts DEF Nodes
<1> QED BY <1>1, ParentFacts DEF Nodes

LEMMA DescendantsStay ==
  ASSUME TypeOK, Graph, NEW n \in Prompts, Live(n)
  PROVE  \A m \in Descendants(n) : m \in Prompts /\ m # n /\ Live(m) /\ root[m] = root[n]
<1> SUFFICES ASSUME NEW m \in Descendants(n)
             PROVE  m \in Prompts /\ m # n /\ Live(m) /\ root[m] = root[n]
  OBVIOUS
<1> DEFINE S == Nodes(root[n])
<1>1. m \in Prompts /\ m # n
  BY DEF Descendants
<1>2. S \in SUBSET Prompts /\ n \in S
  BY DEF Nodes
<1>3. \A k \in Prompts : Live(k) /\ parent[k][1] \in S => k \in S
  BY SameTree DEF Nodes
<1>4. m \in S
  <2> HIDE DEF S
  <2> QED BY <1>2, <1>3 DEF Descendants
<1> QED BY <1>1, <1>4 DEF Nodes

LEMMA ResolvesFacts ==
  ASSUME TypeOK, Graph, NEW ref \in Refs, Resolves(ref)
  PROVE  /\ ref[1] \in Prompts /\ Live(ref[1]) /\ root[ref[1]] = index[ref]
         /\ index[ref] \in Published /\ index[ref] \in Prompts
         /\ ref[2] = "prompt" \/ status[ref[1]]
<1>1. InGraph(index[ref], ref)
  BY DEF Resolves
<1>2. ref[1] \in Prompts /\ Live(ref[1]) /\ root[ref[1]] = index[ref]
      /\ (ref[2] = "prompt" \/ status[ref[1]])
  BY <1>1 DEF InGraph, Nodes
<1>3. index[ref] \in Published
  BY <1>2 DEF Graph
<1> QED BY <1>2, <1>3, RootsArePrompts

\* What the references of S must hold to be closed under following replies.
Closed(S) == \A n \in Prompts : Live(n) =>
  /\ <<n, "prompt">> \in S /\ status[n] => <<n, "status">> \in S
  /\ parent[n] \in S => <<n, "prompt">> \in S

LEMMA RepliesClosure ==
  ASSUME NEW ref, NEW other
  PROVE  other \in Replies(ref) <=>
           other \in Refs /\ \A S \in SUBSET Refs : ref \in S /\ Closed(S) => other \in S
BY DEF Replies, Closed

\* The reply subtree of a message is closed, stays within its tree, holds a
\* status message without its prompt only if it began there, and is the whole
\* tree if it holds the root.
LEMMA RepliesFacts ==
  ASSUME TypeOK, Graph, Rooted, NEW ref \in Refs, Live(ref[1])
  PROVE  /\ ref \in Replies(ref) /\ Closed(Replies(ref))
         /\ \A other \in Replies(ref) : other \in Refs /\ other[1] \in Nodes(root[ref[1]])
         /\ \A n \in Prompts :
              <<n, "status">> \in Replies(ref) /\ <<n, "prompt">> \notin Replies(ref)
                => ref = <<n, "status">>
         /\ <<root[ref[1]], "prompt">> \in Replies(ref) =>
              \A n \in Nodes(root[ref[1]]) : <<n, "prompt">> \in Replies(ref)
<1> DEFINE R == Replies(ref)
           r == root[ref[1]]
<1>1. ref \in R
  BY RepliesClosure
<1>2. Closed(R)
  <2> SUFFICES ASSUME NEW n \in Prompts, Live(n)
               PROVE  /\ <<n, "prompt">> \in R /\ status[n] => <<n, "status">> \in R
                      /\ parent[n] \in R => <<n, "prompt">> \in R
    BY DEF Closed
  <2>1. ASSUME <<n, "prompt">> \in R, status[n] PROVE <<n, "status">> \in R
    <3>1. ASSUME NEW S \in SUBSET Refs, ref \in S, Closed(S) PROVE <<n, "status">> \in S
      <4>1. <<n, "prompt">> \in S
        BY <2>1, <3>1, RepliesClosure
      <4> QED BY <2>1, <3>1, <4>1 DEF Closed
    <3>2. <<n, "status">> \in Refs
      BY RefFacts
    <3> QED BY <3>1, <3>2, RepliesClosure
  <2>2. ASSUME parent[n] \in R PROVE <<n, "prompt">> \in R
    <3>1. ASSUME NEW S \in SUBSET Refs, ref \in S, Closed(S) PROVE <<n, "prompt">> \in S
      <4>1. parent[n] \in S
        BY <2>2, <3>1, RepliesClosure
      <4> QED BY <3>1, <4>1 DEF Closed
    <3>2. <<n, "prompt">> \in Refs
      BY RefFacts
    <3> QED BY <3>1, <3>2, RepliesClosure
  <2> HIDE DEF R
  <2> QED BY <2>1, <2>2
<1>3. ASSUME NEW other \in R PROVE other \in Refs /\ other[1] \in Nodes(r)
  <2> DEFINE S == {o \in Refs : o[1] \in Nodes(r)}
  <2>1. S \in SUBSET Refs /\ ref \in S
    BY RefFacts DEF Nodes
  <2>2. ASSUME NEW n \in Prompts, Live(n)
        PROVE  /\ <<n, "prompt">> \in S /\ status[n] => <<n, "status">> \in S
               /\ parent[n] \in S => <<n, "prompt">> \in S
    <3>1. <<n, "prompt">> \in S \/ <<n, "status">> \in S <=> n \in Nodes(r)
      BY RefFacts
    <3>2. <<n, "prompt">> \in S => <<n, "status">> \in S
      BY RefFacts
    <3>3. parent[n] \in S => n \in Nodes(r)
      BY <2>2, SameTree DEF Nodes
    <3>4. n \in Nodes(r) => <<n, "prompt">> \in S
      BY RefFacts
    <3> HIDE DEF S
    <3> QED BY <3>2, <3>3, <3>4
  <2>3. Closed(S)
    <3> HIDE DEF S
    <3> QED BY <2>2 DEF Closed
  <2>4. other \in S
    <3> HIDE DEF S
    <3> QED BY <2>1, <2>3, RepliesClosure
  <2> QED BY <2>4
<1>4. ASSUME NEW n \in Prompts, <<n, "status">> \in R, <<n, "prompt">> \notin R,
             ref # <<n, "status">>
      PROVE  FALSE
  <2> DEFINE S == R \ {<<n, "status">>}
  <2>1. S \in SUBSET Refs /\ ref \in S
    BY <1>1, <1>3, <1>4
  <2>2. \A k \in Prompts : <<k, "prompt">> # <<n, "status">>
    OBVIOUS
  <2>3. \A k \in Prompts : <<k, "status">> = <<n, "status">> => k = n
    OBVIOUS
  <2> HIDE DEF R
  <2>4. Closed(S)
    BY <1>2, <1>4, <2>2, <2>3 DEF Closed
  <2>5. <<n, "status">> \in S
    <3> HIDE DEF S
    <3> QED BY <1>4, <2>1, <2>4, RepliesClosure DEF R
  <2> QED BY <2>5
<1>5. ASSUME <<r, "prompt">> \in R, NEW m \in Nodes(r), <<m, "prompt">> \notin R PROVE FALSE
  <2> DEFINE B == {n \in Nodes(r) : <<n, "prompt">> \notin R}
  <2>1. r \in Published /\ r \in Prompts
    <3>1. ref[1] \in Prompts /\ Published \subseteq Prompts
      BY RefFacts, RootsArePrompts
    <3> QED BY <3>1 DEF Graph
  <2>2. B \in SUBSET Prompts /\ B # {}
    BY <1>5 DEF Nodes
  <2>3. \A n \in B : root[n] \notin {NoPrompt, n}
    BY <1>5, <2>1, RefFacts DEF Nodes
  <2>4. PICK n \in B : parent[n][1] \notin B
    <3> HIDE DEF B, R, r
    <3> QED BY <2>2, <2>3 DEF Rooted
  <2>5. n \in Prompts /\ Live(n) /\ root[n] = r /\ <<n, "prompt">> \notin R
    BY DEF Nodes
  <2>6. InGraph(r, parent[n])
    <3>1. n # root[n]
      BY <2>3, <2>5
    <3> QED BY <2>5, <3>1 DEF Graph
  <2>7. parent[n] \in Refs
    <3>1. parent[n][1] \in Prompts
      BY <2>6 DEF InGraph, Nodes
    <3> QED BY <2>5, <3>1, NodeTypes, RefFacts
  <2> DEFINE p == parent[n][1]
  <2>8. p \in Nodes(r) /\ p \in Prompts /\ Live(p)
    BY <2>6 DEF InGraph, Nodes
  <2>9. <<p, "prompt">> \in R
    BY <2>4, <2>8
  <2>10. parent[n] = <<p, "prompt">> \/ (parent[n] = <<p, "status">> /\ status[p])
    BY <2>6, <2>7, RefFacts DEF InGraph
  <2> HIDE DEF R
  <2>11. parent[n] \in R
    BY <1>2, <2>8, <2>9, <2>10 DEF Closed
  <2>12. <<n, "prompt">> \in R
    BY <1>2, <2>5, <2>11 DEF Closed
  <2> QED BY <2>5, <2>12
<1> HIDE DEF R
<1>6. /\ ref \in R /\ Closed(R)
      /\ \A other \in R : other \in Refs /\ other[1] \in Nodes(r)
      /\ \A n \in Prompts : <<n, "status">> \in R /\ <<n, "prompt">> \notin R
           => ref = <<n, "status">>
      /\ <<r, "prompt">> \in R => \A n \in Nodes(r) : <<n, "prompt">> \in R
  BY <1>1, <1>2, <1>3, <1>4, <1>5
<1> QED BY <1>6 DEF R

LEMMA IndexByNodes ==
  ASSUME TypeOK, Graph PROVE IndexExact <=> Indexed
<1>1. ASSUME NEW ref \in Refs
      PROVE  (\E r \in Published : InGraph(r, ref))
               <=> Live(ref[1]) /\ (ref[2] = "prompt" \/ status[ref[1]])
  <2>1. ref[1] \in Prompts
    BY RefFacts
  <2>2. Live(ref[1]) => root[ref[1]] \in Published /\ ref[1] \in Nodes(root[ref[1]])
    BY <2>1 DEF Graph, Nodes
  <2> QED BY <2>1, <2>2 DEF InGraph, Nodes
<1> QED BY <1>1 DEF IndexExact, Indexed

-----------------------------------------------------------------------------
(***************************************************************************)
(* Steps that leave the graph as it is.                                    *)
(***************************************************************************)
SameShape ==
  /\ UNCHANGED <<root, parent, status, trees, index>>
  /\ \A n \in Prompts : Live(n)' <=> Live(n)
  /\ \A n \in Prompts : state'[n] = "absent" <=> state[n] = "absent"
  /\ \A n \in Prompts : Unfinished(n)' => Unfinished(n)

LEMMA SameShapeKeeps ==
  ASSUME Graph, Rooted, Indexed, SameShape, TypeOK
  PROVE  Graph' /\ Rooted' /\ Indexed' /\ (Waits /\ turn' = turn => Waits')
         /\ Published' = Published /\ \A r : Nodes(r)' = Nodes(r)
<1>1. Published' = Published
  BY DEF SameShape, Published
<1>2. ASSUME NEW r PROVE Nodes(r)' = Nodes(r)
  BY DEF SameShape, Nodes
<1>3. Published \subseteq Prompts
  BY RootsArePrompts
<1>4. Graph'
  <2>1. \A r, ref : InGraph(r, ref)' <=> InGraph(r, ref)
    BY <1>2 DEF InGraph, SameShape
  <2> QED BY <1>1, <1>3, <2>1 DEF Graph, SameShape
<1>5. Rooted'
  BY DEF Rooted, SameShape
<1>6. Indexed'
  BY RefFacts DEF Indexed, SameShape
<1>7. Waits /\ turn' = turn => Waits'
  BY DEF Waits, SameShape
<1> QED BY <1>1, <1>2, <1>4, <1>5, <1>6, <1>7

-----------------------------------------------------------------------------
(***************************************************************************)
(* Steps that take work away: nodes end, leave their queue or their tree,  *)
(* and nothing is added or claimed.                                        *)
(***************************************************************************)
Retires ==
  /\ UNCHANGED <<root, parent>>
  /\ Published' \subseteq Published
  /\ \A r \in Prompts : active'[r] = IF r \in Published' THEN active[r] ELSE NoPrompt
  /\ \A n \in Prompts :
       /\ task'[n] = "none" <=> task[n] = "none"
       /\ Live(n)' => Live(n)
       /\ state'[n] = "absent" <=> state[n] = "absent"
       /\ state[n] = "absent" => queue'[n] = <<>>
       /\ state'[n] = "pending" => state[n] = "pending"
       /\ state'[n] = "in_progress" => state[n] = "in_progress" /\ root[n] \in Published'
       /\ cancelled'[n] => task[n] # "none" /\ ~Unfinished(n)'
  /\ \A r \in Published' :
       /\ IsInjective(queue'[r])
       /\ ToSet(queue'[r]) = {n \in ToSet(queue[r]) : state'[n] = "pending"}
       /\ \A a, b \in ToSet(queue'[r]) : Before(queue[r], a, b) => Before(queue'[r], a, b)

LEMMA RetiresKeeps ==
  ASSUME TypeOK, TypeOK', Work, Order, Retires
  PROVE  Work' /\ Order'
<1> USE DEF Retires
<1>1. Published \subseteq Prompts /\ Published' \subseteq Published
  BY RootsArePrompts
<1>2. Queued'
  <2> SUFFICES ASSUME NEW r \in Published'
               PROVE  /\ IsInjective(queue'[r])
                      /\ ToSet(queue'[r]) = {n \in Nodes(r)' : state'[n] = "pending"}
    BY DEF Queued
  <2>1. r \in Published
    BY <1>1
  <2>2. ToSet(queue[r]) = {n \in Nodes(r) : state[n] = "pending"}
    BY <2>1 DEF Queued, Work
  <2>3. \A n \in Prompts : state'[n] = "pending" => (n \in Nodes(r)' <=> n \in Nodes(r))
    BY DEF Nodes, Live
  <2>4. \A n \in Nodes(r)' : n \in Prompts
    BY DEF Nodes
  <2>5. \A n \in Nodes(r) : n \in Prompts
    BY DEF Nodes
  <2>6. ASSUME NEW n
        PROVE  n \in ToSet(queue'[r]) <=> n \in Nodes(r)' /\ state'[n] = "pending"
    <3>1. n \in ToSet(queue'[r]) <=> n \in ToSet(queue[r]) /\ state'[n] = "pending"
      OBVIOUS
    <3>2. n \in ToSet(queue[r]) <=> n \in Nodes(r) /\ state[n] = "pending"
      BY <2>2
    <3> QED BY <2>3, <2>4, <2>5, <3>1, <3>2
  <2>7. ToSet(queue'[r]) = {n \in Nodes(r)' : state'[n] = "pending"}
    BY <2>6
  <2> QED BY <2>7
<1>3. Claimed'
  <2>1. \A r \in Published' : queue'[r] # <<>> => active'[r] # NoPrompt
    <3> SUFFICES ASSUME NEW r \in Published', queue'[r] # <<>> PROVE active'[r] # NoPrompt
      OBVIOUS
    <3>1. queue'[r] \in Seq(Prompts) /\ queue[r] \in Seq(Prompts) /\ r \in Prompts
      BY <1>1 DEF TypeOK
    <3>2. ToSet(queue'[r]) # {}
      BY <3>1, EmptyQueue
    <3>3. ToSet(queue[r]) # {}
      BY <3>2
    <3>4. queue[r] # <<>>
      BY <3>3, EmptyFacts
    <3> QED BY <1>1, <3>1, <3>4 DEF Claimed, Work
  <2>2. \A r \in Published' : active'[r] # NoPrompt => task'[active'[r]] # "none"
    <3> SUFFICES ASSUME NEW r \in Published', active'[r] # NoPrompt
                 PROVE  task'[active'[r]] # "none"
      OBVIOUS
    <3>1. r \in Prompts /\ active'[r] = active[r] /\ active[r] \in Prompts
      BY <1>1 DEF TypeOK
    <3> QED BY <1>1, <3>1 DEF Claimed, Work
  <2>3. \A r \in Prompts : r \notin Published' => active'[r] = NoPrompt
    OBVIOUS
  <2>4. \A r \in Prompts : state'[r] = "absent" => queue'[r] = <<>>
    OBVIOUS
  <2>5. \A r \in Prompts : active'[r] # NoPrompt =>
          root'[active'[r]] = r /\ state'[active'[r]] \notin {"pending", "absent"}
    <3> SUFFICES ASSUME NEW r \in Prompts, active'[r] # NoPrompt
                 PROVE  root'[active'[r]] = r /\ state'[active'[r]] \notin {"pending", "absent"}
      OBVIOUS
    <3>1. active'[r] = active[r] /\ active[r] \in Prompts
      BY NodeTypes
    <3>2. root[active[r]] = r /\ state[active[r]] \notin {"pending", "absent"}
      BY <3>1, RefFacts DEF Claimed, Work
    <3> QED BY <3>1, <3>2
  <2> QED BY <2>1, <2>2, <2>3, <2>4, <2>5 DEF Claimed
<1>4. Running'
  <2>1. \A n \in Prompts : task'[n] # "none" => root'[n] # NoPrompt
    BY DEF Running, Work
  <2>2. ASSUME NEW n \in Prompts, task'[n] # "none", root'[n] \in Published'
        PROVE  active'[root'[n]] = n
    <3>1. root[n] \in Published /\ root[n] \in Prompts /\ root'[n] = root[n]
      BY <1>1, <2>2
    <3> QED BY <2>2, <3>1 DEF Running, Work
  <2>3. ASSUME NEW n \in Prompts, state'[n] = "in_progress" PROVE active'[root'[n]] = n
    <3>1. root[n] \in Published' /\ root[n] \in Prompts /\ root'[n] = root[n]
      BY <1>1, <2>3
    <3> QED BY <2>3, <3>1 DEF Running, Work
  <2> QED BY <2>1, <2>2, <2>3 DEF Running
<1>5. QueuedInOrder'
  <2> SUFFICES ASSUME NEW r \in Published', NEW n \in ToSet(queue'[r]), parent'[n] # NoRef,
                      state'[parent'[n][1]] = "pending"
               PROVE  Before(queue'[r], parent'[n][1], n)
    BY DEF QueuedInOrder
  <2> DEFINE p == parent[n][1]
  <2>1. r \in Published /\ r \in Prompts /\ queue[r] \in Seq(Prompts) /\ queue'[r] \in Seq(Prompts)
    BY <1>1 DEF TypeOK
  <2>2. n \in ToSet(queue[r])
    OBVIOUS
  <2>3. n \in Prompts
    BY <2>1, <2>2, InSequence
  <2>4. parent[n] # NoRef /\ parent'[n] = parent[n] /\ p \in Prompts
    BY <2>3, NodeTypes, RefFacts
  <2>5. state[p] = "pending"
    BY <2>4
  <2>6. Before(queue[r], p, n)
    BY <2>1, <2>2, <2>4, <2>5 DEF QueuedInOrder, Order
  <2>7. p \in ToSet(queue[r])
    <3>1. \E j \in 1..Len(queue[r]) : queue[r][j] = p
      BY <2>6 DEF Before
    <3> QED BY <2>1, <3>1, InSequence
  <2>8. p \in ToSet(queue'[r])
    BY <2>4, <2>7
  <2> HIDE DEF p
  <2>9. Before(queue'[r], p, n)
    BY <2>6, <2>8
  <2> QED BY <2>4, <2>9 DEF p
<1>6. ParentsFirst'
  <2> SUFFICES ASSUME NEW n \in Prompts, task'[n] # "none", Live(n)', parent'[n] # NoRef,
                      state'[parent'[n][1]] = "pending"
               PROVE  FALSE
    BY DEF ParentsFirst
  <2>1. task[n] # "none" /\ Live(n) /\ parent'[n] = parent[n] /\ parent[n] # NoRef
    OBVIOUS
  <2>2. parent[n][1] \in Prompts
    BY <2>1, NodeTypes, RefFacts
  <2> QED BY <2>1, <2>2 DEF ParentsFirst, Order
<1> QED BY <1>2, <1>3, <1>4, <1>5, <1>6 DEF Work, Order

\* Nodes of one tree end and leave its queue.
LEMMA OneQueue ==
  ASSUME TypeOK, Graph, Work, NEW r \in Published, NEW gone,
         UNCHANGED <<root, parent, trees, active, task>>,
         queue' = [queue EXCEPT ![r] = Without(@, gone)],
         \A n \in Prompts :
           /\ Live(n)' <=> Live(n)
           /\ state'[n] = "absent" <=> state[n] = "absent"
           /\ state'[n] = "pending" <=> state[n] = "pending" /\ (n \notin gone \/ root[n] # r)
           /\ state'[n] = "in_progress" => state[n] = "in_progress"
           /\ cancelled'[n] => task[n] # "none" /\ ~Unfinished(n)'
  PROVE  Retires
<1>1. Published' = Published /\ Published \subseteq Prompts /\ r \in Prompts
  BY RootsArePrompts DEF Published
<1>2. \A q \in Prompts : active'[q] = IF q \in Published' THEN active[q] ELSE NoPrompt
  BY <1>1 DEF Claimed, Work
<1>3. \A q \in Prompts : queue'[q] = IF q = r THEN Without(queue[q], gone) ELSE queue[q]
  BY <1>1 DEF TypeOK
<1>4. ASSUME NEW n \in Prompts, state[n] = "absent" PROVE queue'[n] = <<>>
  <2>1. n # r
    BY <1>4 DEF Graph, Live
  <2> QED BY <1>3, <1>4, <2>1 DEF Claimed, Work
<1>5. ASSUME NEW n \in Prompts, state'[n] = "in_progress" PROVE root[n] \in Published'
  BY <1>1, <1>5 DEF Graph, Live
<1>6. ASSUME NEW q \in Published'
      PROVE  /\ IsInjective(queue'[q])
             /\ ToSet(queue'[q]) = {n \in ToSet(queue[q]) : state'[n] = "pending"}
             /\ \A a, b \in ToSet(queue'[q]) : Before(queue[q], a, b) => Before(queue'[q], a, b)
  <2>1. q \in Published /\ q \in Prompts /\ queue[q] \in Seq(Prompts) /\ IsInjective(queue[q])
    BY <1>1 DEF TypeOK, Work, Queued
  <2>2. \A n \in ToSet(queue[q]) : n \in Prompts /\ root[n] = q /\ state[n] = "pending"
    BY <2>1 DEF Queued, Work, Nodes
  <2>3. CASE q = r
    <3>1. queue'[q] = Without(queue[q], gone)
      BY <1>3, <2>1, <2>3
    <3>2. ToSet(queue'[q]) = ToSet(queue[q]) \ gone
      BY <2>1, <3>1, WithoutFacts
    <3>3. \A n \in ToSet(queue[q]) : state'[n] = "pending" <=> n \notin gone
      BY <2>2, <2>3
    <3>4. ToSet(queue'[q]) = {n \in ToSet(queue[q]) : state'[n] = "pending"}
      BY <3>2, <3>3
    <3>5. IsInjective(queue'[q])
      BY <2>1, <3>1, WithoutFacts
    <3>6. \A a, b : a \notin gone /\ b \notin gone /\ Before(queue[q], a, b) =>
            Before(queue'[q], a, b)
      BY <2>1, <3>1, WithoutFacts
    <3> QED BY <3>2, <3>4, <3>5, <3>6
  <2>4. CASE q # r
    <3>1. queue'[q] = queue[q]
      BY <1>3, <2>1, <2>4
    <3>2. \A n \in ToSet(queue[q]) : state'[n] = "pending"
      BY <2>2, <2>4
    <3>3. ToSet(queue'[q]) = {n \in ToSet(queue[q]) : state'[n] = "pending"}
      BY <3>1, <3>2
    <3> QED BY <2>1, <3>1, <3>3
  <2> QED BY <2>3, <2>4
<1> QED BY <1>1, <1>2, <1>4, <1>5, <1>6 DEF Retires

\* Nothing ends and no queue changes.
LEMMA SameQueues ==
  ASSUME TypeOK, Graph, Work, UNCHANGED <<root, parent, trees, queue, active>>,
         \A n \in Prompts :
           /\ task'[n] = "none" <=> task[n] = "none"
           /\ Live(n)' <=> Live(n)
           /\ state'[n] = "absent" <=> state[n] = "absent"
           /\ state'[n] = "pending" <=> state[n] = "pending"
           /\ state'[n] = "in_progress" => state[n] = "in_progress"
           /\ cancelled'[n] => task[n] # "none" /\ ~Unfinished(n)'
  PROVE  Retires
<1>1. Published' = Published /\ Published \subseteq Prompts
  BY RootsArePrompts DEF Published
<1>2. \A q \in Prompts : active'[q] = IF q \in Published' THEN active[q] ELSE NoPrompt
  BY <1>1 DEF Claimed, Work
<1>3. \A n \in Prompts : state[n] = "absent" => queue'[n] = <<>>
  BY DEF Claimed, Work
<1>4. \A n \in Prompts : state'[n] = "in_progress" => root[n] \in Published'
  BY <1>1 DEF Graph, Live
<1>5. ASSUME NEW q \in Published'
      PROVE  /\ IsInjective(queue'[q])
             /\ ToSet(queue'[q]) = {n \in ToSet(queue[q]) : state'[n] = "pending"}
             /\ \A a, b \in ToSet(queue'[q]) : Before(queue[q], a, b) => Before(queue'[q], a, b)
  <2>1. IsInjective(queue[q]) /\ \A n \in ToSet(queue[q]) : n \in Prompts /\ state[n] = "pending"
    BY <1>1 DEF Queued, Work, Nodes
  <2>2. \A n \in ToSet(queue[q]) : state'[n] = "pending"
    BY <2>1
  <2>3. ToSet(queue'[q]) = {n \in ToSet(queue[q]) : state'[n] = "pending"}
    BY <2>2
  <2> QED BY <2>1, <2>3
<1> QED BY <1>1, <1>2, <1>3, <1>4, <1>5 DEF Retires

-----------------------------------------------------------------------------
(***************************************************************************)
(* Snapshots.                                                              *)
(***************************************************************************)
NodesTyped ==
  /\ state \in [Prompts ->
       {"absent", "pending", "in_progress", "completed", "error", "removed"}]
  /\ parent \in [Prompts -> Refs \cup {NoRef}]
  /\ status \in [Prompts -> BOOLEAN]
  /\ session \in [Prompts -> BOOLEAN]

LEMMA SnapshotTyped == NodesTyped => \A r : IsSnapshot(Snapshot(r))
<1> SUFFICES ASSUME NodesTyped, NEW r PROVE IsSnapshot(Snapshot(r))
  OBVIOUS
<1>1. DOMAIN Snapshot(r) = Nodes(r) /\ Nodes(r) \subseteq Prompts
  BY DEF Snapshot, Nodes
<1>2. ASSUME NEW n \in Nodes(r) PROVE Snapshot(r)[n] \in NodeSnapshots
  <2>1. n \in Prompts /\ state[n] \in {"pending", "in_progress", "completed", "error"}
    BY DEF Nodes, Live, NodesTyped
  <2>2. parent[n] \in Refs \cup {NoRef} /\ status[n] \in BOOLEAN /\ session[n] \in BOOLEAN
    BY <2>1 DEF NodesTyped
  <2>3. Snapshot(r)[n] = [state |-> state[n], parent |-> parent[n], status |-> status[n],
                          session |-> session[n]]
    BY DEF Snapshot
  <2> QED BY <2>1, <2>2, <2>3 DEF NodeSnapshots
<1>3. Snapshot(r) = [n \in DOMAIN Snapshot(r) |-> Snapshot(r)[n]]
  BY DEF Snapshot
<1> DEFINE s == Snapshot(r)
<1> HIDE DEF s
<1>4. s \in [DOMAIN s -> NodeSnapshots]
  BY <1>1, <1>2, <1>3 DEF s
<1> QED BY <1>1, <1>4 DEF IsSnapshot, s

LEMMA SnapshotTypedNext == NodesTyped' => (\A r : IsSnapshot(Snapshot(r)))'
BY SnapshotTyped, PTL

LEMMA TypesOfNodes == TypeOK => NodesTyped
BY DEF TypeOK, NodesTyped

\* The snapshot of a published tree is a snapshot that can be kept.
LEMMA SnapshotKept == TypeOK /\ Graph =>
  \A r \in Published : Kept(r, Snapshot(r)) /\ Consistent(r, Snapshot(r))
<1> SUFFICES ASSUME TypeOK, Graph, NEW r \in Published
             PROVE  Kept(r, Snapshot(r)) /\ Consistent(r, Snapshot(r))
  OBVIOUS
<1> DEFINE s == Snapshot(r)
<1>1. DOMAIN s = Nodes(r) /\ IsSnapshot(s)
  BY SnapshotTyped, TypesOfNodes DEF Snapshot
<1>2. \A n \in Nodes(r) : /\ s[n].state = state[n] /\ s[n].parent = parent[n]
                          /\ s[n].status = status[n] /\ s[n].session = session[n]
  BY DEF Snapshot
<1> HIDE DEF s
<1>3. r \in Prompts /\ r \in Nodes(r) /\ parent[r] = NoRef
  BY RootsArePrompts DEF Graph, Nodes
<1>4. \A n \in Nodes(r) : root[n] = r /\ n \in Prompts
  BY DEF Nodes
<1>5. ASSUME NEW n \in DOMAIN s, n # r
      PROVE  /\ s[n].parent[1] \in DOMAIN s
             /\ s[n].parent[2] = "status" => s[s[n].parent[1]].status
  <2>1. n \in Nodes(r) /\ n \in Prompts /\ Live(n) /\ root[n] = r
    BY <1>1 DEF Nodes
  <2>2. InGraph(r, parent[n])
    BY <1>5, <2>1 DEF Graph
  <2>3. parent[n][1] \in Nodes(r) /\ (parent[n][2] = "prompt" \/ status[parent[n][1]])
    BY <2>2 DEF InGraph
  <2> QED BY <1>1, <1>2, <2>1, <2>3
<1>6. \A n \in DOMAIN s : s[n].state \in {"pending", "in_progress"} => s[n].status
  BY <1>1, <1>2, <1>4 DEF Graph, Unfinished
<1>7. Restorable(r, s)
  BY <1>1, <1>2, <1>3, <1>5, <1>6 DEF Restorable
<1>8. Kept(r, s)
  BY <1>1, <1>2, <1>4, <1>7 DEF Kept
<1>9. Consistent(r, s)
  BY <1>1, <1>2 DEF Consistent
<1> QED BY <1>8, <1>9 DEF s

LEMMA SnapshotKeptNext == TypeOK' /\ Graph' =>
  (\A r \in Published : Kept(r, Snapshot(r)) /\ Consistent(r, Snapshot(r)))'
BY SnapshotKept, PTL

-----------------------------------------------------------------------------
(***************************************************************************)
(* Types.                                                                  *)
(***************************************************************************)
LEMMA InitTyped == Init => TypeOK
<1> SUFFICES ASSUME Init PROVE TypeOK
  OBVIOUS
<1> USE DEF Init
<1>1. 0 \in 0..MaxCommands /\ <<0, 0>> \in (0..MaxCommands) \X (0..MaxCommands)
  BY BoundsAssumption
<1>2. trees \in Seq(Prompts) /\ IsInjective(trees)
  BY EmptyFacts
<1>3. \A r \in Prompts : IsSnapshot(store[r]) /\ IsSnapshot(file[r])
  BY DEF NoTree, IsSnapshot
<1>4. op = [kind |-> "none", phase |-> "idle", trees |-> {}, snaps |-> NoTree, drop |-> {}]
  BY DEF Idle
<1>5. queue \in [Prompts -> Seq(Prompts)]
  BY EmptyFacts
<1> QED BY <1>1, <1>2, <1>3, <1>4, <1>5 DEF TypeOK

LEMMA SavedTyped ==
  ASSUME TypeOK, NodesTyped', NEW r, SaveTree(r)
  PROVE  \A q \in Prompts : IsSnapshot(store'[q]) /\ IsSnapshot(file'[q])
<1>1. ASSUME NEW q \in Prompts PROVE IsSnapshot(store'[q]) /\ IsSnapshot(file'[q])
  <2>1. file' = file /\ store'[q] = IF q = r THEN Snapshot(r)' ELSE store[q]
    BY DEF SaveTree
  <2>2. IsSnapshot(Snapshot(r))'
    BY SnapshotTypedNext
  <2> QED BY <2>1, <2>2 DEF TypeOK
<1> QED BY <1>1

LEMMA TurnTyped ==
  ASSUME TypeOK, Indexed, Graph, NEW n \in Prompts,
         (\E ref \in Refs \cup {NoRef} : Ingress(n, ref)) \/ Reject(n)
  PROVE  TypeOK'
<1>2. ASSUME NEW ref \in Refs \cup {NoRef}, Ingress(n, ref) PROVE TypeOK'
  <2>1. turn' \in [Prompts -> {"none", "waiting"}]
    BY <1>2 DEF Ingress, TypeOK
  <2>2. token' \in [Prompts -> (0..MaxCommands) \X (0..MaxCommands)]
    BY <1>2 DEF Ingress, TypeOK, CurrentToken
  <2>3. replyTo' \in [Prompts -> Refs \cup {NoRef}]
    BY <1>2 DEF Ingress, TypeOK
  <2> QED BY <1>2, <2>1, <2>2, <2>3
       DEF TypeOK, Ingress, generationVars, graphVars, treeVars, taskVars, opVars
<1>3. ASSUME Reject(n) PROVE TypeOK'
  <2>1. turn' \in [Prompts -> {"none", "waiting"}]
    BY <1>3 DEF Reject, EndTurn, TypeOK
  <2>2. token' \in [Prompts -> (0..MaxCommands) \X (0..MaxCommands)]
    BY <1>3, BoundsAssumption DEF Reject, EndTurn, TypeOK
  <2>3. replyTo' \in [Prompts -> Refs \cup {NoRef}]
    BY <1>3 DEF Reject, EndTurn, TypeOK
  <2> QED BY <1>3, <2>1, <2>2, <2>3
       DEF TypeOK, Reject, generationVars, graphVars, treeVars, taskVars, opVars
<1> QED BY <1>2, <1>3

\* The tree a waiting turn is admitted to: its own, or the one of the message it replies to.
Home(n) == IF replyTo[n] = NoRef THEN n ELSE index[replyTo[n]]

LEMMA AdmitTyped ==
  ASSUME TypeOK, Graph, Waits, NEW n \in Prompts, Admit(n) PROVE TypeOK'
<1> DEFINE r == Home(n)
<1>1. /\ AdmitCurrent(n) /\ root' = [root EXCEPT ![n] = r]
      /\ parent' = [parent EXCEPT ![n] = replyTo[n]]
      /\ status' = [status EXCEPT ![n] = TRUE]
      /\ admitted' = [admitted EXCEPT ![n] = token[n]]
      /\ Register(n, r) /\ EnqueueOrClaim(n, r)
      /\ UNCHANGED <<generationVars, session, cancelled, opVars>>
      /\ SaveTree(r)
  BY DEF Admit, Home
<1>2. r \in Prompts
  <2>1. CASE replyTo[n] = NoRef
    BY <2>1 DEF Home
  <2>2. CASE replyTo[n] # NoRef
    <3>1. replyTo[n] \in Refs /\ Resolves(replyTo[n])
      BY <1>1, <2>2 DEF AdmitCurrent, ParentRemoved, TypeOK
    <3> QED BY <2>2, <3>1, ResolvesFacts DEF Home
  <2> QED BY <2>1, <2>2
<1> HIDE DEF r
<1>3. /\ turn' \in [Prompts -> {"none", "waiting"}]
      /\ token' \in [Prompts -> (0..MaxCommands) \X (0..MaxCommands)]
      /\ replyTo' \in [Prompts -> Refs \cup {NoRef}]
  <2>1. <<0, 0>> \in (0..MaxCommands) \X (0..MaxCommands)
    BY BoundsAssumption
  <2> QED BY <1>1, <2>1 DEF AdmitCurrent, EndTurn, TypeOK
<1>4. /\ root' \in [Prompts -> Prompts \cup {NoPrompt}]
      /\ parent' \in [Prompts -> Refs \cup {NoRef}]
      /\ status' \in [Prompts -> BOOLEAN]
      /\ session' \in [Prompts -> BOOLEAN]
      /\ admitted' \in [Prompts -> (0..MaxCommands) \X (0..MaxCommands)]
  <2>1. replyTo[n] \in Refs \cup {NoRef} /\ token[n] \in (0..MaxCommands) \X (0..MaxCommands)
    BY DEF TypeOK
  <2> QED BY <1>1, <1>2, <2>1 DEF TypeOK
<1>5. /\ state' \in [Prompts ->
           {"absent", "pending", "in_progress", "completed", "error", "removed"}]
      /\ active' \in [Prompts -> Prompts \cup {NoPrompt}]
      /\ task' \in [Prompts -> {"none", "created", "running"}]
      /\ queue' \in [Prompts -> Seq(Prompts)]
  <2>1. CASE active[r] = NoPrompt
    <3>1. /\ state' = [state EXCEPT ![n] = "in_progress"] /\ active' = [active EXCEPT ![r] = n]
          /\ task' = [task EXCEPT ![n] = "created"] /\ UNCHANGED queue
      BY <1>1, <2>1 DEF EnqueueOrClaim
    <3> QED BY <1>2, <3>1 DEF TypeOK
  <2>2. CASE active[r] # NoPrompt
    <3>1. queue' = [queue EXCEPT ![r] = Append(@, n)]
          /\ state' = [state EXCEPT ![n] = "pending"] /\ UNCHANGED <<active, task>>
      BY <1>1, <2>2 DEF EnqueueOrClaim
    <3>2. queue' \in [Prompts -> Seq(Prompts)]
      <4>1. Append(queue[r], n) \in Seq(Prompts)
        BY <1>2 DEF TypeOK
      <4> QED BY <3>1, <4>1 DEF TypeOK
    <3> QED BY <3>1, <3>2 DEF TypeOK
  <2> QED BY <2>1, <2>2
<1>6. index' \in [Refs -> Prompts \cup {NoPrompt}]
  BY <1>1, <1>2 DEF Register, TypeOK
<1>7. trees' \in Seq(Prompts) /\ IsInjective(trees')
  <2>1. trees \in Seq(Prompts) /\ IsInjective(trees)
    BY DEF TypeOK
  <2>2. n \notin ToSet(trees)
    BY <1>1 DEF Graph, Waits, AdmitCurrent, EndTurn, Live, Published
  <2> QED BY <1>1, <2>1, <2>2, AppendFacts DEF Register
<1>8. \A q \in Prompts : IsSnapshot(store'[q]) /\ IsSnapshot(file'[q])
  BY <1>1, <1>4, <1>5, SavedTyped DEF NodesTyped
<1>9. UNCHANGED <<stopGen, clearGen, cancelled, op, raised, commands>>
  BY <1>1 DEF generationVars, opVars
<1> QED BY <1>3, <1>4, <1>5, <1>6, <1>7, <1>8, <1>9 DEF TypeOK

LEMMA RunnerTyped ==
  ASSUME TypeOK, Graph, NEW n \in Prompts,
         \/ StartRunner(n) \/ RecordSession(n) \/ CompleteClaim(n)
         \/ \E propagate \in BOOLEAN : FailClaim(n, propagate)
  PROVE  TypeOK'
<1>1. ASSUME StartRunner(n) PROVE TypeOK'
  BY <1>1 DEF StartRunner, TypeOK, turnVars, generationVars, graphVars, treeVars, opVars
<1>2. ASSUME RecordSession(n) PROVE TypeOK'
  <2>1. NodesTyped'
    BY <1>2 DEF RecordSession, NodesTyped, TypeOK
  <2>2. \A q \in Prompts : IsSnapshot(store'[q]) /\ IsSnapshot(file'[q])
    BY <1>2, <2>1, SavedTyped DEF RecordSession
  <2> QED BY <1>2, <2>1, <2>2
       DEF RecordSession, TypeOK, NodesTyped, turnVars, generationVars, treeVars, taskVars, opVars
<1>3. ASSUME CompleteClaim(n) PROVE TypeOK'
  <2>1. NodesTyped'
    BY <1>3 DEF CompleteClaim, NodesTyped, TypeOK
  <2>2. \A q \in Prompts : IsSnapshot(store'[q]) /\ IsSnapshot(file'[q])
    BY <1>3, <2>1, SavedTyped DEF CompleteClaim
  <2> QED BY <1>3, <2>1, <2>2
       DEF CompleteClaim, TypeOK, NodesTyped, turnVars, generationVars, treeVars, taskVars, opVars
<1>4. ASSUME NEW propagate \in BOOLEAN, FailClaim(n, propagate) PROVE TypeOK'
  <2>1. PICK affected :
          /\ state' = [m \in Prompts |-> IF m \in affected THEN "error" ELSE state[m]]
          /\ queue' = [queue EXCEPT ![root[n]] = Without(@, affected)]
    <3> DEFINE children == IF propagate
                           THEN {m \in Descendants(n) : state[m] = "pending"} ELSE {}
               failed == IF state[n] = "completed" THEN {} ELSE {n} \cup children
    <3>1. /\ state' = [m \in Prompts |-> IF m \in failed THEN "error" ELSE state[m]]
          /\ queue' = [queue EXCEPT ![root[n]] = Without(@, failed)]
      BY <1>4 DEF FailClaim
    <3> HIDE DEF failed
    <3> QED BY <3>1
  <2>2. NodesTyped'
    BY <1>4, <2>1 DEF FailClaim, NodesTyped, TypeOK
  <2>3. \A q \in Prompts : IsSnapshot(store'[q]) /\ IsSnapshot(file'[q])
    BY <1>4, <2>2, SavedTyped DEF FailClaim
  <2>4. queue' \in [Prompts -> Seq(Prompts)]
    BY <2>1, WithoutFacts DEF TypeOK
  <2> QED BY <1>4, <2>2, <2>3, <2>4
       DEF FailClaim, TypeOK, NodesTyped, turnVars, generationVars, taskVars, opVars
<1> QED BY <1>1, <1>2, <1>3, <1>4

\* A command is counted.
LEMMA CommandTyped ==
  ASSUME TypeOK, Command PROVE commands' \in 0..MaxCommands
BY BoundsAssumption DEF TypeOK, Command

LEMMA BegunTyped ==
  ASSUME NEW kind \in {"stopReply", "stopAll", "clearReply", "clearChat"},
         NEW rs \in SUBSET Prompts, NEW drop \in SUBSET Prompts, Begin(kind, rs, drop)
  PROVE  /\ op'.phase \in {"idle", "drain", "save", "sessions"}
         /\ op'.kind \in {"none", "stopReply", "stopAll", "clearReply", "clearChat"}
         /\ op'.trees \subseteq Prompts /\ op'.drop \subseteq Prompts
BY DEF Begin

LEMMA ReachedFacts ==
  ASSUME TypeOK PROVE Reached \subseteq Published /\ Reached \subseteq Prompts
<1>1. trees \in Seq(Prompts) /\ Published \subseteq Prompts
  BY RootsArePrompts
<1>2. Reached \subseteq Published
  BY <1>1 DEF Reached, Published, ToSet
<1> QED BY <1>1, <1>2

LEMMA StopReplyTyped ==
  ASSUME TypeOK, Graph, NEW ref \in Refs, StopReply(ref) PROVE TypeOK'
<1> DEFINE n == ref[1]
<1>1. n \in Prompts /\ root[n] \in Prompts
  BY ResolvesFacts DEF StopReply
<1>2. /\ cancelled' = [cancelled EXCEPT ![n] = @ \/ active[root[n]] = n]
      /\ state' = IF Unfinished(n) THEN [state EXCEPT ![n] = "error"] ELSE state
      /\ queue' = [queue EXCEPT ![root[n]] = Without(@, {n})]
      /\ Begin("stopReply", {root[n]}, {})
      /\ UNCHANGED <<turnVars, generationVars, root, parent, status, session, admitted,
                     trees, index, active, task, store, file, raised>>
  BY DEF StopReply, CancelNode
<1> HIDE DEF n
<1>3. /\ op'.phase \in {"idle", "drain", "save", "sessions"}
      /\ op'.kind \in {"none", "stopReply", "stopAll", "clearReply", "clearChat"}
      /\ op'.trees \subseteq Prompts /\ op'.drop \subseteq Prompts
  BY <1>1, <1>2, BegunTyped
<1>4. commands' \in 0..MaxCommands
  BY CommandTyped DEF StopReply
<1>5. queue' \in [Prompts -> Seq(Prompts)]
  BY <1>1, <1>2, WithoutFacts DEF TypeOK
<1>6. cancelled' \in [Prompts -> BOOLEAN]
  <2>1. (cancelled[n] \/ active[root[n]] = n) \in BOOLEAN
    OBVIOUS
  <2> QED BY <1>2, <2>1 DEF TypeOK
<1>7. state' \in [Prompts ->
        {"absent", "pending", "in_progress", "completed", "error", "removed"}]
  BY <1>2 DEF TypeOK
<1> QED BY <1>2, <1>3, <1>4, <1>5, <1>6, <1>7 DEF TypeOK, turnVars, generationVars

LEMMA StopAllTyped ==
  ASSUME TypeOK, Boundary, StopAll PROVE TypeOK'
<1>1. commands' \in 0..MaxCommands
  BY CommandTyped DEF StopAll
<1>2. stopGen' \in 0..MaxCommands
  BY BoundsAssumption DEF StopAll, Command, Boundary, TypeOK
<1>3. /\ op'.phase \in {"idle", "drain", "save", "sessions"}
      /\ op'.kind \in {"none", "stopReply", "stopAll", "clearReply", "clearChat"}
      /\ op'.trees \subseteq Prompts /\ op'.drop \subseteq Prompts
  <2>1. CASE AllReached
    BY <2>1, BegunTyped, RootsArePrompts DEF StopAll
  <2>2. CASE ~AllReached
    BY <2>2 DEF StopAll, TypeOK
  <2> QED BY <2>1, <2>2
<1>4. state' \in [Prompts ->
        {"absent", "pending", "in_progress", "completed", "error", "removed"}]
  BY DEF StopAll, CancelAll, TypeOK
<1>5. cancelled' \in [Prompts -> BOOLEAN]
  <2>1. \A n \in Prompts : (cancelled[n] \/ \E r \in Reached : active[r] = n) \in BOOLEAN
    OBVIOUS
  <2>2. cancelled' = [n \in Prompts |-> cancelled[n] \/ \E r \in Reached : active[r] = n]
    BY DEF StopAll, CancelAll
  <2> QED BY <2>1, <2>2
<1>6. queue' \in [Prompts -> Seq(Prompts)]
  BY EmptyFacts DEF StopAll, DrainQueues, TypeOK
<1>7. raised' \in [{"stop", "clear", "write"} -> BOOLEAN]
  <2>1. (~AllReached) \in BOOLEAN
    OBVIOUS
  <2> QED BY <2>1 DEF StopAll, TypeOK
<1> QED BY <1>1, <1>2, <1>3, <1>4, <1>5, <1>6, <1>7 DEF StopAll, TypeOK, turnVars

\* The write of a cleared chat reaches the file or is recorded as raised.
LEMMA WriteThroughFacts ==
  ASSUME NEW outcome \in [{"stop", "clear", "write"} -> BOOLEAN], WriteThrough(outcome)
  PROVE  /\ raised' \in [{"stop", "clear", "write"} -> BOOLEAN]
         /\ raised'["stop"] = outcome["stop"] /\ raised'["clear"] = outcome["clear"]
         /\ file' = file \/ file' = store'
         /\ file' = store' \/ raised'["write"]
<1>1. PICK failed \in BOOLEAN :
        /\ raised' = [outcome EXCEPT !["write"] = failed]
        /\ IF failed THEN file' = file ELSE file' = store'
  BY DEF WriteThrough
<1> QED BY <1>1

\* How the outcome of a /clear of the chat is recorded, and what it writes.
LEMMA ClearChatOutcome ==
  ASSUME TypeOK, ClearChat
  PROVE  /\ raised' \in [{"stop", "clear", "write"} -> BOOLEAN]
         /\ raised'["stop"] = raised["stop"] /\ (raised'["clear"] <=> ~AllReached)
         /\ file' = file \/ file' = store'
         /\ AllReached => file' = file /\ store' = store
<1>1. CASE AllReached
  <2>1. raised' = [raised EXCEPT !["clear"] = FALSE] /\ UNCHANGED <<store, file>>
    BY <1>1 DEF ClearChat
  <2> QED BY <1>1, <2>1 DEF TypeOK
<1>2. CASE ~AllReached
  <2>1. PICK outcome : outcome = [raised EXCEPT !["clear"] = TRUE] /\ WriteThrough(outcome)
    BY <1>2 DEF ClearChat
  <2>2. /\ outcome \in [{"stop", "clear", "write"} -> BOOLEAN]
        /\ outcome["stop"] = raised["stop"] /\ outcome["clear"]
    BY <2>1 DEF TypeOK
  <2> QED BY <1>2, <2>1, <2>2, WriteThroughFacts
<1> QED BY <1>1, <1>2

LEMMA ClearChatTyped ==
  ASSUME TypeOK, Boundary, ClearChat PROVE TypeOK'
<1>1. commands' \in 0..MaxCommands
  BY CommandTyped DEF ClearChat
<1>2. clearGen' \in 0..MaxCommands
  BY BoundsAssumption DEF ClearChat, Command, Boundary, TypeOK
<1>3. /\ op'.phase \in {"idle", "drain", "save", "sessions"}
      /\ op'.kind \in {"none", "stopReply", "stopAll", "clearReply", "clearChat"}
      /\ op'.trees \subseteq Prompts /\ op'.drop \subseteq Prompts
  <2>1. CASE AllReached
    BY <2>1, BegunTyped DEF ClearChat
  <2>2. CASE ~AllReached
    BY <2>2 DEF ClearChat, TypeOK
  <2> QED BY <2>1, <2>2
<1>4. state' \in [Prompts ->
        {"absent", "pending", "in_progress", "completed", "error", "removed"}]
  BY DEF ClearChat, TypeOK
<1>5. cancelled' \in [Prompts -> BOOLEAN]
  <2>1. \A n \in Prompts : (cancelled[n] \/ \E r \in Reached : active[r] = n) \in BOOLEAN
    OBVIOUS
  <2>2. cancelled' = [n \in Prompts |-> cancelled[n] \/ \E r \in Reached : active[r] = n]
    BY DEF ClearChat
  <2> QED BY <2>1, <2>2
<1>6. queue' \in [Prompts -> Seq(Prompts)]
  BY EmptyFacts DEF ClearChat, DrainQueues, TypeOK
<1>7. raised' \in [{"stop", "clear", "write"} -> BOOLEAN]
  BY ClearChatOutcome
<1>8. /\ trees' \in Seq(Prompts) /\ IsInjective(trees')
      /\ active' \in [Prompts -> Prompts \cup {NoPrompt}]
  <2>1. trees \in Seq(Prompts) /\ IsInjective(trees)
    BY DEF TypeOK
  <2> QED BY <2>1, WithoutFacts DEF ClearChat, Unpublish, TypeOK
<1>9. index' \in [Refs -> Prompts \cup {NoPrompt}]
  BY DEF ClearChat, TypeOK
<1>10. \A r \in Prompts : IsSnapshot(store'[r]) /\ IsSnapshot(file'[r])
  <2>1. IsSnapshot(NoTree)
    BY DEF NoTree, IsSnapshot
  <2>2. \A r \in Prompts : IsSnapshot(store'[r])
    BY <2>1 DEF ClearChat, TypeOK
  <2>3. file' = file \/ file' = store'
    BY ClearChatOutcome
  <2> QED BY <2>2, <2>3 DEF TypeOK
<1> QED BY <1>1, <1>2, <1>3, <1>4, <1>5, <1>6, <1>7, <1>8, <1>9, <1>10
     DEF ClearChat, TypeOK, turnVars

LEMMA ClearReplyTyped ==
  ASSUME TypeOK, Graph, NEW ref \in Refs, ClearReply(ref) PROVE TypeOK'
<1> DEFINE r == index[ref]
           refs == Replies(ref)
           gone == {n \in Nodes(r) : <<n, "prompt">> \in refs}
           affected == gone \cup {ref[1]}
<1>1. /\ Command /\ Resolves(ref)
      /\ state' = [n \in Prompts |-> IF n \in gone THEN "removed"
                                    ELSE IF n = ref[1] THEN "error" ELSE state[n]]
      /\ cancelled' = [n \in Prompts |-> cancelled[n] \/ (n \in affected /\ active[r] = n)]
      /\ queue' = [queue EXCEPT ![r] = Without(@, affected)]
      /\ status' = [n \in Prompts |-> status[n] /\ n \notin affected]
      /\ session' = [n \in Prompts |-> session[n] /\ n \notin affected]
      /\ Unpublish({r} \cap gone)
      /\ index' = [other \in Refs |->
           IF other \in refs \/ (r \in gone /\ index[other] = r) THEN NoPrompt ELSE index[other]]
      /\ Begin("clearReply", {r} \ gone, {r} \cap gone)
      /\ UNCHANGED <<turnVars, generationVars, root, parent, admitted, task, store, file, raised>>
  BY DEF ClearReply
<1>2. r \in Prompts
  BY <1>1, ResolvesFacts
<1> HIDE DEF r, refs, gone, affected
<1>3. commands' \in 0..MaxCommands
  BY <1>1, CommandTyped
<1>4. /\ op'.phase \in {"idle", "drain", "save", "sessions"}
      /\ op'.kind \in {"none", "stopReply", "stopAll", "clearReply", "clearChat"}
      /\ op'.trees \subseteq Prompts /\ op'.drop \subseteq Prompts
  BY <1>1, <1>2, BegunTyped
<1>5. state' \in [Prompts ->
        {"absent", "pending", "in_progress", "completed", "error", "removed"}]
  BY <1>1 DEF TypeOK
<1>6. cancelled' \in [Prompts -> BOOLEAN]
  <2>1. \A n \in Prompts : (cancelled[n] \/ (n \in affected /\ active[r] = n)) \in BOOLEAN
    OBVIOUS
  <2> QED BY <1>1, <2>1
<1>7. status' \in [Prompts -> BOOLEAN] /\ session' \in [Prompts -> BOOLEAN]
  <2>1. \A n \in Prompts : /\ (status[n] /\ n \notin affected) \in BOOLEAN
                           /\ (session[n] /\ n \notin affected) \in BOOLEAN
    OBVIOUS
  <2> QED BY <1>1, <2>1
<1>8. queue' \in [Prompts -> Seq(Prompts)]
  BY <1>1, <1>2, WithoutFacts DEF TypeOK
<1>9. /\ trees' \in Seq(Prompts) /\ IsInjective(trees')
      /\ active' \in [Prompts -> Prompts \cup {NoPrompt}]
  <2>1. trees \in Seq(Prompts) /\ IsInjective(trees)
    BY DEF TypeOK
  <2> QED BY <1>1, <2>1, WithoutFacts DEF Unpublish, TypeOK
<1>10. index' \in [Refs -> Prompts \cup {NoPrompt}]
  BY <1>1 DEF TypeOK
<1> QED BY <1>1, <1>3, <1>4, <1>5, <1>6, <1>7, <1>8, <1>9, <1>10
     DEF TypeOK, turnVars, generationVars

LEMMA ClearReplyRaisesTyped ==
  ASSUME TypeOK, Graph, NEW ref \in Refs, NEW reached \in SUBSET Prompts,
         ClearReplyRaises(ref, reached)
  PROVE  TypeOK'
<1>1. index[ref] \in Prompts
  BY ResolvesFacts DEF ClearReplyRaises
<1>2. commands' \in 0..MaxCommands
  BY CommandTyped DEF ClearReplyRaises
<1>3. queue' \in [Prompts -> Seq(Prompts)]
  BY <1>1, WithoutFacts DEF ClearReplyRaises, TypeOK
<1>4. state' \in [Prompts ->
        {"absent", "pending", "in_progress", "completed", "error", "removed"}]
  BY DEF ClearReplyRaises, TypeOK
<1> QED BY <1>2, <1>3, <1>4
     DEF ClearReplyRaises, TypeOK, turnVars, generationVars, taskVars

\* After its save a global stop holds the lock and no tree, any other command is over.
LEMMA OpSavedFacts ==
  OpSaved \in {Idle, [kind |-> "stopAll", phase |-> "sessions", trees |-> {},
                      snaps |-> NoTree, drop |-> {}]}
BY DEF OpSaved, Idle

LEMMA SnapshotsTyped ==
  ASSUME TypeOK, Operation, Stored, TakeSnapshots \/ SaveSnapshots PROVE TypeOK'
<1>1. ASSUME TakeSnapshots PROVE TypeOK'
  <2>1. /\ op'.phase = "save" /\ op'.kind = op.kind
        /\ op'.trees = op.trees /\ op'.drop = op.drop
    BY <1>1 DEF TakeSnapshots, Operation
  <2> QED BY <1>1, <2>1
       DEF TakeSnapshots, TypeOK, turnVars, generationVars, graphVars, treeVars, taskVars
<1>2. ASSUME SaveSnapshots PROVE TypeOK'
  <2>1. /\ op'.phase \in {"idle", "sessions"} /\ op'.kind \in {"none", "stopAll"}
        /\ op'.trees = {} /\ op'.drop = {}
    BY <1>2, OpSavedFacts DEF SaveSnapshots, Idle
  <2>2. ASSUME NEW r \in Prompts PROVE IsSnapshot(store'[r])
    <3>1. r \in DOMAIN op.snaps => IsSnapshot(op.snaps[r])
      BY <1>2 DEF SaveSnapshots, Stored, Kept
    <3>2. IsSnapshot(NoTree) /\ IsSnapshot(store[r])
      BY DEF NoTree, IsSnapshot, TypeOK
    <3> QED BY <1>2, <3>1, <3>2 DEF SaveSnapshots, SavedStore
  <2>3. file' = file \/ file' = store'
    BY <1>2, WriteThroughFacts DEF SaveSnapshots, TypeOK
  <2>4. \A r \in Prompts : IsSnapshot(store'[r]) /\ IsSnapshot(file'[r])
    BY <2>2, <2>3 DEF TypeOK
  <2>5. raised' \in [{"stop", "clear", "write"} -> BOOLEAN]
    BY <1>2, WriteThroughFacts DEF SaveSnapshots, TypeOK
  <2> QED BY <1>2, <2>1, <2>4, <2>5
       DEF SaveSnapshots, TypeOK, turnVars, generationVars, graphVars, treeVars, taskVars
<1> QED BY <1>1, <1>2

-----------------------------------------------------------------------------
(***************************************************************************)
(* The boundary and the session store over steps that leave the graph as   *)
(* it is.                                                                  *)
(***************************************************************************)
LEMMA BoundaryKept ==
  ASSUME TypeOK, Boundary, UNCHANGED <<stopGen, clearGen, admitted>>,
         raised'["stop"] = raised["stop"], raised'["clear"] = raised["clear"],
         commands' = commands \/ commands' = commands + 1,
         \A n \in Prompts : (Unfinished(n)' => Unfinished(n)) /\ (Live(n)' => Live(n))
  PROVE  Boundary'
<1>1. CommandBoundary'
  BY DEF Boundary, CommandBoundary
<1>2. stopGen' <= commands' /\ clearGen' <= commands'
  <2>1. stopGen \in Int /\ clearGen \in Int /\ commands \in Int
    BY BoundsAssumption DEF TypeOK
  <2> QED BY <2>1 DEF Boundary
<1> QED BY <1>1, <1>2 DEF Boundary

\* No turn loses its outcome or its session.
Progress == \A n \in Prompts :
  /\ state[n] = "completed" => state'[n] = "completed"
  /\ session[n] => session'[n]

LEMMA SnapshotKeptAfter ==
  ASSUME TypeOK, Graph, NEW snap, NEW r \in Prompts, IsSnapshot(snap), SameShape, Progress
  PROVE  /\ (\A n \in DOMAIN snap : root[n] = r /\ snap[n].parent = parent[n]) =>
              \A n \in DOMAIN snap : root'[n] = r /\ snap[n].parent = parent'[n]
         /\ Consistent(r, snap) =>
              /\ DOMAIN snap = Nodes(r)'
              /\ \A n \in DOMAIN snap :
                   /\ snap[n].state = "completed" => state'[n] = "completed"
                   /\ snap[n].session => session'[n]
<1>1. DOMAIN snap \subseteq Prompts
  BY DEF IsSnapshot
<1>2. Nodes(r)' = Nodes(r)
  BY DEF SameShape, Nodes
<1>3. Consistent(r, snap) =>
        \A n \in DOMAIN snap : /\ snap[n].state = "completed" => state'[n] = "completed"
                               /\ snap[n].session => session'[n]
  BY <1>1 DEF Consistent, Progress
<1> QED BY <1>1, <1>2, <1>3 DEF SameShape, Consistent

LEMMA StoredKept ==
  ASSUME TypeOK, Graph, Stored, TypeOK', Graph', SameShape, Progress,
         raised'["clear"] = raised["clear"],
         store' = store \/ \E r \in Published : SaveTree(r),
         \A r \in Prompts : Undisturbed(r)' => Undisturbed(r),
         op'.phase = "save" => op.phase = "save" /\ op'.trees = op.trees /\ op'.snaps = op.snaps
  PROVE  Stored'
<1>1. Published' = Published /\ Published \subseteq Prompts
  BY RootsArePrompts DEF SameShape, Published
<1>2. ASSUME NEW r \in Prompts
      PROVE  store'[r] = store[r] \/ (r \in Published' /\ store'[r] = Snapshot(r)')
  BY <1>1 DEF SaveTree
<1>3. \A r \in Published' : Kept(r, Snapshot(r))' /\ Consistent(r, Snapshot(r))'
  BY SnapshotKeptNext
<1>4. ASSUME NEW r \in Prompts, store'[r] = Snapshot(r)', r \in Published'
      PROVE  Kept(r, store[r])' /\ Consistent(r, store[r])'
  BY <1>3, <1>4 DEF Kept, Consistent, Restorable, IsSnapshot
<1>5. ASSUME NEW r \in Prompts, store'[r] = store[r], store[r] # NoTree PROVE Kept(r, store[r])'
  <2>1. Kept(r, store[r]) /\ IsSnapshot(store[r])
    BY <1>5 DEF Stored, Kept
  <2> DEFINE s == store[r]
  <2>2. store'[r] = s
    BY <1>5
  <2>3. IsSnapshot(s) /\ Restorable(r, s)
    BY <2>1 DEF Kept
  <2>4. \A n \in DOMAIN s : root[n] = r /\ s[n].parent = parent[n]
    BY <2>1 DEF Kept
  <2> HIDE DEF s
  <2>5. \A n \in DOMAIN s : root'[n] = r /\ s[n].parent = parent'[n]
    BY <2>3, <2>4, SnapshotKeptAfter
  <2> QED BY <2>2, <2>3, <2>5 DEF Kept, Restorable, IsSnapshot
<1>6. ASSUME NEW r \in Prompts, store'[r] = store[r], Consistent(r, store[r])
      PROVE  Consistent(r, store[r])'
  <2>1. IsSnapshot(store[r])
    BY DEF TypeOK
  <2> QED BY <1>6, <2>1, SnapshotKeptAfter DEF Consistent
<1>7. ASSUME NEW r \in Prompts, store'[r] # NoTree PROVE Kept(r, store[r])'
  BY <1>2, <1>4, <1>5, <1>7
<1>8. ASSUME NEW r \in Prompts, Undisturbed(r)'
      PROVE  \/ r \in Published' /\ Consistent(r, store[r])'
             \/ (r \notin Published' \/ raised'["clear"]) /\ store'[r] = NoTree
  <2>1. CASE store'[r] = store[r]
    <3>1. \/ r \in Published /\ Consistent(r, store[r])
          \/ (r \notin Published \/ raised["clear"]) /\ store[r] = NoTree
      BY <1>8 DEF Stored
    <3> QED BY <1>1, <1>6, <2>1, <3>1
  <2>2. CASE store'[r] # store[r]
    BY <1>2, <1>4, <2>2
  <2> QED BY <2>1, <2>2
<1>9. ASSUME op'.phase = "save"
      PROVE  /\ DOMAIN op'.snaps = op'.trees
             /\ \A r \in op'.trees : Kept(r, op.snaps[r])' /\ Consistent(r, op.snaps[r])'
  <2>1. op.phase = "save" /\ op'.trees = op.trees /\ op'.snaps = op.snaps
    BY <1>9
  <2>2. DOMAIN op.snaps = op.trees /\ op.trees \subseteq Prompts
    BY <2>1 DEF Stored, TypeOK
  <2>3. ASSUME NEW r \in op.trees
        PROVE  Kept(r, op.snaps[r])' /\ Consistent(r, op.snaps[r])'
    <3>1. Kept(r, op.snaps[r]) /\ Consistent(r, op.snaps[r]) /\ r \in Prompts
      BY <2>1, <2>2 DEF Stored
    <3> DEFINE s == op.snaps[r]
    <3>2. op'.snaps[r] = s
      BY <2>1
    <3>3. IsSnapshot(s) /\ Restorable(r, s)
      BY <3>1 DEF Kept
    <3>4. (\A n \in DOMAIN s : root[n] = r /\ s[n].parent = parent[n]) /\ Consistent(r, s)
      BY <3>1 DEF Kept
    <3> HIDE DEF s
    <3>5. /\ \A n \in DOMAIN s : root'[n] = r /\ s[n].parent = parent'[n]
          /\ DOMAIN s = Nodes(r)'
          /\ \A n \in DOMAIN s : /\ s[n].state = "completed" => state'[n] = "completed"
                                 /\ s[n].session => session'[n]
      BY <3>1, <3>3, <3>4, SnapshotKeptAfter
    <3> QED BY <3>2, <3>3, <3>5 DEF Kept, Consistent, Restorable, IsSnapshot
  <2> QED BY <2>1, <2>2, <2>3
<1> QED BY <1>7, <1>8, <1>9 DEF Stored

-----------------------------------------------------------------------------
(***************************************************************************)
(* The steps that leave the graph as it is, one by one.                    *)
(***************************************************************************)
LEMMA QuietKeeps ==
  ASSUME Core, TypeOK', Waits', SameShape, Retires, Progress, Boundary', Operation',
         raised'["clear"] = raised["clear"],
         store' = store \/ \E r \in Published : SaveTree(r),
         \A r \in Prompts : Undisturbed(r)' => Undisturbed(r),
         op'.phase = "save" => op.phase = "save" /\ op'.trees = op.trees /\ op'.snaps = op.snaps
  PROVE  Core'
<1> USE DEF Core
<1>1. Graph' /\ Rooted' /\ Indexed'
  BY SameShapeKeeps
<1>2. Work' /\ Order'
  BY RetiresKeeps
<1>3. Stored'
  BY <1>1, StoredKept
<1> QED BY <1>1, <1>2, <1>3

LEMMA SameOperation ==
  ASSUME Operation, UNCHANGED op, Published' = Published PROVE Operation'
<1>1. op' = [kind |-> op.kind, phase |-> op.phase, trees |-> op.trees,
             snaps |-> op.snaps, drop |-> op.drop]
  BY DEF Operation
<1> QED BY <1>1 DEF Operation, Idle, NoTree

LEMMA TurnKeeps ==
  ASSUME Core, NEW n \in Prompts,
         (\E ref \in Refs \cup {NoRef} : Ingress(n, ref)) \/ Reject(n)
  PROVE  Core'
<1> USE DEF Core
<1>1. UNCHANGED <<generationVars, graphVars, treeVars, taskVars, store, file, opVars>>
  BY DEF Ingress, Reject
<1>2. UNCHANGED <<stopGen, clearGen, root, state, parent, status, session, admitted, trees,
                  index, queue, active, cancelled, task, store, file, op, raised, commands>>
  BY <1>1 DEF generationVars, graphVars, treeVars, taskVars, opVars
<1>3. TypeOK'
  BY TurnTyped
<1>4. Waits'
  <2>1. \A m \in Prompts : m # n => turn'[m] = turn[m]
    BY DEF Ingress, Reject, EndTurn, TypeOK
  <2>2. turn'[n] = "waiting" => state[n] = "absent"
    BY DEF Ingress, Reject, EndTurn, TypeOK
  <2> QED BY <1>2, <2>1, <2>2 DEF Waits
<1>5. SameShape /\ Progress /\ Published' = Published
  BY <1>2 DEF SameShape, Live, Unfinished, Progress, Published
<1>6. Retires
  <2>1. \A m \in Prompts : cancelled'[m] => task[m] # "none" /\ ~Unfinished(m)'
    BY <1>2 DEF Work, Running, Unfinished
  <2> QED BY <1>2, <2>1, SameQueues DEF Live
<1>7. Boundary' /\ Operation'
  BY <1>2, <1>5, BoundaryKept, SameOperation DEF Live, Unfinished
<1> QED BY <1>2, <1>3, <1>4, <1>5, <1>6, <1>7, QuietKeeps DEF Undisturbed

LEMMA StartRunnerKeeps ==
  ASSUME Core, NEW n \in Prompts, StartRunner(n) PROVE Core'
<1> USE DEF Core
<1>1. UNCHANGED <<turn, stopGen, clearGen, root, state, parent, status, session, admitted, trees,
                  index, queue, active, cancelled, store, file, op, raised, commands>>
  BY DEF StartRunner, turnVars, generationVars, graphVars, treeVars, opVars
<1>2. TypeOK'
  BY RunnerTyped
<1>3. SameShape /\ Progress /\ Published' = Published /\ Waits'
  BY <1>1 DEF SameShape, Live, Unfinished, Progress, Published, Waits
<1>4. Retires
  <2>1. \A m \in Prompts : cancelled'[m] => task[m] # "none" /\ ~Unfinished(m)'
    BY <1>1 DEF Work, Running, Unfinished
  <2>2. \A m \in Prompts : task'[m] = "none" <=> task[m] = "none"
    BY DEF StartRunner, TypeOK
  <2> QED BY <1>1, <2>1, <2>2, SameQueues DEF Live
<1>5. Boundary' /\ Operation'
  BY <1>1, <1>3, BoundaryKept, SameOperation DEF Live, Unfinished
<1> QED BY <1>1, <1>2, <1>3, <1>4, <1>5, QuietKeeps DEF Undisturbed

LEMMA RecordSessionKeeps ==
  ASSUME Core, NEW n \in Prompts, RecordSession(n) PROVE Core'
<1> USE DEF Core
<1>1. UNCHANGED <<turn, stopGen, clearGen, root, state, parent, status, admitted, trees,
                  index, queue, active, cancelled, task, op, raised, commands>>
  BY DEF RecordSession, turnVars, generationVars, treeVars, taskVars, opVars
<1>2. TypeOK'
  BY RunnerTyped
<1>3. SameShape /\ Published' = Published /\ Waits'
  BY <1>1 DEF SameShape, Live, Unfinished, Published, Waits
<1>4. Progress
  BY <1>1 DEF RecordSession, Progress, TypeOK
<1>5. Retires
  <2>1. \A m \in Prompts : cancelled'[m] => task[m] # "none" /\ ~Unfinished(m)'
    BY <1>1 DEF Work, Running, Unfinished
  <2> QED BY <1>1, <2>1, SameQueues DEF Live
<1>6. Boundary' /\ Operation'
  BY <1>1, <1>3, BoundaryKept, SameOperation DEF Live, Unfinished
<1>7. root[n] \in Published /\ SaveTree(root[n])
  BY DEF RecordSession, Accepts, Graph
<1> QED BY <1>1, <1>2, <1>3, <1>4, <1>5, <1>6, <1>7, QuietKeeps DEF Undisturbed

LEMMA CompleteClaimKeeps ==
  ASSUME Core, NEW n \in Prompts, CompleteClaim(n) PROVE Core'
<1> USE DEF Core
<1>1. UNCHANGED <<turn, stopGen, clearGen, root, parent, status, session, admitted, trees,
                  index, queue, active, cancelled, task, op, raised, commands>>
  BY DEF CompleteClaim, turnVars, generationVars, treeVars, taskVars, opVars
<1>2. TypeOK'
  BY RunnerTyped
<1>3. /\ state'[n] = "completed" /\ state[n] \in {"in_progress", "error"}
      /\ \A m \in Prompts : m # n => state'[m] = state[m]
  BY DEF CompleteClaim, TypeOK
<1>4. /\ \A m \in Prompts : Live(m)' <=> Live(m)
      /\ \A m \in Prompts : state'[m] = "absent" <=> state[m] = "absent"
      /\ \A m \in Prompts : state'[m] = "pending" <=> state[m] = "pending"
      /\ \A m \in Prompts : state'[m] = "in_progress" => state[m] = "in_progress"
      /\ \A m \in Prompts : Unfinished(m)' => Unfinished(m)
  BY <1>3 DEF Live, Unfinished
<1>5. SameShape /\ Progress /\ Published' = Published /\ Waits'
  BY <1>1, <1>3, <1>4 DEF SameShape, Progress, Published, Waits
<1>6. Retires
  <2>1. \A m \in Prompts : cancelled'[m] => task[m] # "none" /\ ~Unfinished(m)'
    BY <1>1, <1>4 DEF Work, Running
  <2> QED BY <1>1, <1>4, <2>1, SameQueues
<1>7. Boundary' /\ Operation'
  BY <1>1, <1>4, <1>5, BoundaryKept, SameOperation
<1>8. root[n] \in Published /\ SaveTree(root[n])
  BY DEF CompleteClaim, Accepts, Graph
<1> QED BY <1>1, <1>2, <1>5, <1>6, <1>7, <1>8, QuietKeeps DEF Undisturbed

\* Nodes that end in error.
LEMMA Ended ==
  ASSUME TypeOK, NEW F, \A m \in Prompts : state'[m] = IF m \in F THEN "error" ELSE state[m],
         \A m \in Prompts : m \in F => Live(m)
  PROVE  \A m \in Prompts :
           /\ Live(m)' <=> Live(m)
           /\ state'[m] = "absent" <=> state[m] = "absent"
           /\ state'[m] = "pending" <=> state[m] = "pending" /\ m \notin F
           /\ state'[m] = "in_progress" => state[m] = "in_progress" /\ m \notin F
           /\ Unfinished(m)' <=> Unfinished(m) /\ m \notin F
BY DEF Live, Unfinished

LEMMA FailClaimKeeps ==
  ASSUME Core, NEW n \in Prompts, NEW propagate \in BOOLEAN, FailClaim(n, propagate)
  PROVE  Core'
<1> USE DEF Core
<1>1. UNCHANGED <<turn, stopGen, clearGen, root, parent, status, session, admitted, trees,
                  index, active, cancelled, task, op, raised, commands>>
  BY DEF FailClaim, turnVars, generationVars, taskVars, opVars
<1>2. TypeOK'
  BY RunnerTyped
<1> DEFINE children == IF propagate THEN {m \in Descendants(n) : state[m] = "pending"} ELSE {}
           affected == IF state[n] = "completed" THEN {} ELSE {n} \cup children
<1>3. /\ Accepts(n) /\ SaveTree(root[n])
      /\ state' = [m \in Prompts |-> IF m \in affected THEN "error" ELSE state[m]]
      /\ queue' = [queue EXCEPT ![root[n]] = Without(@, affected)]
  BY DEF FailClaim
<1>4. ASSUME NEW m \in affected
      PROVE  m \in Prompts /\ Live(m) /\ root[m] = root[n] /\ state[m] # "completed"
  <2>1. CASE m = n
    BY <1>3, <1>4, <2>1 DEF Accepts
  <2>2. CASE m # n
    <3>1. m \in Descendants(n) /\ state[m] = "pending"
      BY <1>4, <2>2
    <3>2. Live(n)
      BY <1>3 DEF Accepts
    <3> QED BY <3>1, <3>2, DescendantsStay
  <2> QED BY <2>1, <2>2
<1> HIDE DEF affected, children
<1>5. root[n] \in Published
  BY <1>3 DEF Accepts, Graph
<1>6. \A m \in Prompts :
           /\ Live(m)' <=> Live(m)
           /\ state'[m] = "absent" <=> state[m] = "absent"
           /\ state'[m] = "pending" <=> state[m] = "pending" /\ m \notin affected
           /\ state'[m] = "in_progress" => state[m] = "in_progress" /\ m \notin affected
           /\ Unfinished(m)' <=> Unfinished(m) /\ m \notin affected
  BY <1>3, <1>4, Ended
<1>7. SameShape /\ Published' = Published /\ Waits'
  BY <1>1, <1>6 DEF SameShape, Published, Waits
<1>8. Progress
  BY <1>1, <1>3, <1>4 DEF Progress
<1>9. Retires
  <2>1. \A m \in Prompts : cancelled'[m] => task[m] # "none" /\ ~Unfinished(m)'
    BY <1>1, <1>6 DEF Work, Running
  <2>2. \A m \in Prompts : state'[m] = "pending" <=>
          state[m] = "pending" /\ (m \notin affected \/ root[m] # root[n])
    BY <1>4, <1>6
  <2> QED BY <1>1, <1>3, <1>5, <1>6, <2>1, <2>2, OneQueue
<1>10. Boundary' /\ Operation'
  BY <1>1, <1>6, <1>7, BoundaryKept, SameOperation
<1> QED BY <1>1, <1>2, <1>3, <1>5, <1>7, <1>8, <1>9, <1>10, QuietKeeps DEF Undisturbed

LEMMA StopReplyKeeps ==
  ASSUME Core, NEW ref \in Refs, StopReply(ref) PROVE Core'
<1> USE DEF Core
<1> DEFINE n == ref[1]
           F == {m \in {n} : Unfinished(m)}
<1>1. TypeOK'
  BY StopReplyTyped
<1>2. n \in Prompts /\ Live(n) /\ root[n] \in Published /\ root[n] \in Prompts
  BY ResolvesFacts DEF StopReply
<1>3. /\ op.phase = "idle" /\ commands' = commands + 1
      /\ cancelled' = [cancelled EXCEPT ![n] = @ \/ active[root[n]] = n]
      /\ state' = IF Unfinished(n) THEN [state EXCEPT ![n] = "error"] ELSE state
      /\ queue' = [queue EXCEPT ![root[n]] = Without(@, {n})]
      /\ Begin("stopReply", {root[n]}, {})
      /\ UNCHANGED <<turnVars, generationVars, root, parent, status, session, admitted,
                     trees, index, active, task, store, file, raised>>
  BY DEF StopReply, CancelNode, Command
<1>4. UNCHANGED <<turn, stopGen, clearGen, root, parent, status, session, admitted,
                  trees, index, active, task, store, file, raised>>
  BY <1>3 DEF turnVars, generationVars
<1> HIDE DEF n
<1>5. \A m \in Prompts : state'[m] = IF m \in F THEN "error" ELSE state[m]
  BY <1>3 DEF TypeOK
<1>6. \A m \in Prompts :
           /\ Live(m)' <=> Live(m)
           /\ state'[m] = "absent" <=> state[m] = "absent"
           /\ state'[m] = "pending" <=> state[m] = "pending" /\ m \notin F
           /\ state'[m] = "in_progress" => state[m] = "in_progress" /\ m \notin F
           /\ Unfinished(m)' <=> Unfinished(m) /\ m \notin F
  <2>1. \A m \in Prompts : m \in F => Live(m)
    BY <1>2
  <2> HIDE DEF F
  <2> QED BY <1>5, <2>1, Ended
<1>7. SameShape /\ Published' = Published /\ Waits'
  BY <1>4, <1>6 DEF SameShape, Published, Waits
<1>8. Progress
  <2>1. \A m \in F : state[m] # "completed"
    BY DEF Unfinished
  <2> HIDE DEF F
  <2> QED BY <1>4, <1>5, <2>1 DEF Progress
<1>9. Retires
  <2>1. ASSUME NEW m \in Prompts, cancelled'[m] PROVE task[m] # "none" /\ ~Unfinished(m)'
    <3>1. CASE cancelled[m]
      BY <1>6, <3>1 DEF Work, Running
    <3>2. CASE ~cancelled[m]
      <4>1. m = n /\ active[root[n]] = n
        BY <1>2, <1>3, <2>1, <3>2 DEF TypeOK
      <4>2. task[n] # "none"
        BY <1>2, <4>1, RefFacts DEF Work, Claimed
      <4> QED BY <1>6, <4>1, <4>2
    <3> QED BY <3>1, <3>2
  <2>2. \A m \in Prompts : state'[m] = "pending" <=>
          state[m] = "pending" /\ (m \notin {n} \/ root[m] # root[n])
    BY <1>6 DEF Unfinished
  <2>3. \A m \in Prompts : state'[m] = "in_progress" => state[m] = "in_progress"
    BY <1>6
  <2>4. \A m \in Prompts : (Live(m)' <=> Live(m)) /\ (state'[m] = "absent" <=> state[m] = "absent")
    BY <1>6
  <2> DEFINE gone == {n}
  <2>5. queue' = [queue EXCEPT ![root[n]] = Without(@, gone)]
    BY <1>3
  <2>8. UNCHANGED <<root, parent, trees, active, task>>
    BY <1>4
  <2>6. \A m \in Prompts : state'[m] = "pending" <=>
          state[m] = "pending" /\ (m \notin gone \/ root[m] # root[n])
    BY <2>2
  <2> HIDE DEF F, gone
  <2>7. \A m \in Prompts :
           /\ Live(m)' <=> Live(m)
           /\ state'[m] = "absent" <=> state[m] = "absent"
           /\ state'[m] = "pending" <=> state[m] = "pending" /\ (m \notin gone \/ root[m] # root[n])
           /\ state'[m] = "in_progress" => state[m] = "in_progress"
           /\ cancelled'[m] => task[m] # "none" /\ ~Unfinished(m)'
    BY <2>1, <2>3, <2>4, <2>6
  <2>9. PICK r \in Published : r = root[n]
    BY <1>2
  <2>10. queue' = [queue EXCEPT ![r] = Without(@, gone)]
    BY <2>5, <2>9
  <2>11. \A m \in Prompts :
            /\ Live(m)' <=> Live(m)
            /\ state'[m] = "absent" <=> state[m] = "absent"
            /\ state'[m] = "pending" <=> state[m] = "pending" /\ (m \notin gone \/ root[m] # r)
            /\ state'[m] = "in_progress" => state[m] = "in_progress"
            /\ cancelled'[m] => task[m] # "none" /\ ~Unfinished(m)'
    BY <2>7, <2>9
  <2> HIDE DEF n
  <2> QED BY <2>8, <2>10, <2>11, OneQueue
<1>10. Boundary'
  BY <1>3, <1>4, <1>6, BoundaryKept
<1>11. Operation' /\ \A r \in Prompts : Undisturbed(r)' => Undisturbed(r)
  BY <1>2, <1>3, <1>7 DEF Operation, Begin, Undisturbed
<1>12. op'.phase # "save"
  BY <1>3 DEF Begin
<1> QED BY <1>1, <1>4, <1>7, <1>8, <1>9, <1>10, <1>11, <1>12, QuietKeeps

LEMMA StopAllKeeps ==
  ASSUME Core, StopAll PROVE Core'
<1> USE DEF Core
<1> DEFINE F == {m \in Prompts : Unfinished(m) /\ root[m] \in Reached}
<1>1. TypeOK'
  BY StopAllTyped
<1>2. /\ op.phase = "idle" /\ commands' = commands + 1 /\ stopGen' = stopGen + 1
      /\ \A m \in Prompts : state'[m] = IF m \in F THEN "error" ELSE state[m]
      /\ \A m \in Prompts : cancelled'[m] <=> cancelled[m] \/ \E r \in Reached : active[r] = m
      /\ \A r \in Prompts : queue'[r] = IF r \in Reached THEN <<>> ELSE queue[r]
      /\ IF AllReached THEN Begin("stopAll", Published, {}) ELSE UNCHANGED op
      /\ raised' = [raised EXCEPT !["stop"] = ~AllReached]
  BY DEF StopAll, CancelAll, Command, DrainQueues
<1>3. UNCHANGED <<turn, clearGen, root, parent, status, session, admitted,
                  trees, index, active, task, store, file>>
  BY DEF StopAll, turnVars
<1>4. Reached \subseteq Published /\ Published \subseteq Prompts
  BY ReachedFacts, RootsArePrompts
<1>5. \A m \in F : Unfinished(m) /\ root[m] \in Reached
  OBVIOUS
<1>6. \A m \in Prompts : m \in F <=> Unfinished(m) /\ root[m] \in Reached
  OBVIOUS
<1> HIDE DEF F
<1>7. \A m \in Prompts :
           /\ Live(m)' <=> Live(m)
           /\ state'[m] = "absent" <=> state[m] = "absent"
           /\ state'[m] = "pending" <=> state[m] = "pending" /\ m \notin F
           /\ state'[m] = "in_progress" => state[m] = "in_progress" /\ m \notin F
           /\ Unfinished(m)' <=> Unfinished(m) /\ m \notin F
  <2>1. \A m \in Prompts : m \in F => Live(m)
    BY <1>5 DEF Live, Unfinished
  <2> QED BY <1>2, <2>1, Ended
<1>8. SameShape /\ Published' = Published /\ Waits'
  BY <1>3, <1>7 DEF SameShape, Published, Waits
<1>9. Progress
  <2>1. \A m \in F : state[m] # "completed"
    BY <1>5 DEF Unfinished
  <2> QED BY <1>2, <1>3, <2>1 DEF Progress
<1>10. Retires
  <2>1. ASSUME NEW m \in Prompts, cancelled'[m] PROVE task[m] # "none" /\ ~Unfinished(m)'
    <3>1. CASE cancelled[m]
      BY <1>7, <3>1 DEF Work, Running
    <3>2. CASE ~cancelled[m]
      <4>1. PICK r \in Reached : active[r] = m
        BY <1>2, <2>1, <3>2
      <4>2. r \in Published /\ r \in Prompts /\ active[r] # NoPrompt
        BY <1>4, <4>1, RefFacts
      <4>3. task[m] # "none" /\ root[m] = r
        BY <4>1, <4>2 DEF Work, Claimed
      <4> QED BY <1>6, <1>7, <4>1, <4>3
    <3> QED BY <3>1, <3>2
  <2>2. \A r \in Prompts : active'[r] = IF r \in Published' THEN active[r] ELSE NoPrompt
    BY <1>3, <1>8 DEF Work, Claimed
  <2>3. \A m \in Prompts : state[m] = "absent" => queue'[m] = <<>>
    BY <1>2 DEF Work, Claimed
  <2>4. \A m \in Prompts : state'[m] = "in_progress" => root[m] \in Published'
    BY <1>7, <1>8 DEF Graph, Live
  <2>5. ASSUME NEW q \in Published'
        PROVE  /\ IsInjective(queue'[q])
               /\ ToSet(queue'[q]) = {m \in ToSet(queue[q]) : state'[m] = "pending"}
               /\ \A a, b \in ToSet(queue'[q]) : Before(queue[q], a, b) => Before(queue'[q], a, b)
    <3>1. q \in Published /\ q \in Prompts /\ IsInjective(queue[q])
      BY <1>4, <1>8 DEF Work, Queued
    <3>2. \A m \in ToSet(queue[q]) : m \in Prompts /\ root[m] = q /\ state[m] = "pending"
      BY <3>1 DEF Queued, Work, Nodes
    <3>3. \A m \in ToSet(queue[q]) : state'[m] = "pending" <=> q \notin Reached
      BY <1>6, <1>7, <3>2 DEF Unfinished
    <3>4. CASE q \in Reached
      <4>1. queue'[q] = <<>>
        BY <1>2, <3>1, <3>4
      <4>2. {m \in ToSet(queue[q]) : state'[m] = "pending"} = {}
        BY <3>3, <3>4
      <4> QED BY <4>1, <4>2, EmptyFacts
    <3>5. CASE q \notin Reached
      <4>1. queue'[q] = queue[q]
        BY <1>2, <3>1, <3>5
      <4>2. ToSet(queue'[q]) = {m \in ToSet(queue[q]) : state'[m] = "pending"}
        BY <3>3, <3>5, <4>1
      <4> QED BY <3>1, <4>1, <4>2
    <3> QED BY <3>4, <3>5
  <2> QED BY <1>3, <1>7, <1>8, <2>1, <2>2, <2>3, <2>4, <2>5 DEF Retires
<1>11. Boundary'
  <2>1. stopGen' <= commands' /\ clearGen' <= commands'
    <3>1. stopGen \in Int /\ clearGen \in Int /\ commands \in Int
      BY BoundsAssumption DEF TypeOK
    <3> QED BY <1>2, <1>3, <3>1 DEF Boundary
  <2>2. raised'["clear"] = raised["clear"] /\ raised'["stop"] = ~AllReached
    BY <1>2 DEF TypeOK
  <2>3. ASSUME NEW m \in Prompts, Unfinished(m)' PROVE raised'["stop"]
    <3>1. Unfinished(m) /\ root[m] \notin Reached
      BY <1>6, <1>7, <2>3
    <3>2. root[m] \in Published
      BY <3>1 DEF Graph, Live, Unfinished
    <3> QED BY <2>2, <3>1, <3>2 DEF AllReached
  <2>4. CommandBoundary'
    BY <1>3, <1>7, <2>2, <2>3 DEF Boundary, CommandBoundary
  <2> QED BY <2>1, <2>4 DEF Boundary
<1>12. Operation' /\ (\A r \in Prompts : Undisturbed(r)' => Undisturbed(r)) /\ op'.phase # "save"
  <2>1. CASE AllReached
    BY <1>2, <1>8, <2>1 DEF Operation, Begin, Undisturbed
  <2>2. CASE ~AllReached
    BY <1>2, <1>8, <2>2, SameOperation DEF Undisturbed
  <2> QED BY <2>1, <2>2
<1>13. raised'["clear"] = raised["clear"]
  BY <1>2 DEF TypeOK
<1> QED BY <1>1, <1>3, <1>8, <1>9, <1>10, <1>11, <1>12, <1>13, QuietKeeps

LEMMA ClearReplyRaisesKeeps ==
  ASSUME Core, NEW ref \in Refs, NEW reached \in SUBSET Prompts,
         ClearReplyRaises(ref, reached)
  PROVE  Core'
<1> USE DEF Core
<1> DEFINE r == index[ref]
           F == {m \in reached : Unfinished(m)}
<1>1. TypeOK'
  BY ClearReplyRaisesTyped
<1>2. /\ commands' = commands + 1 /\ Resolves(ref)
      /\ reached \subseteq {n \in Nodes(r) : <<n, "prompt">> \in Replies(ref)} \cup {ref[1]}
      /\ state' = [n \in Prompts |-> IF n \in reached /\ Unfinished(n) THEN "error" ELSE state[n]]
      /\ queue' = [queue EXCEPT ![r] = Without(@, reached)]
  BY DEF ClearReplyRaises, Command
<1>3. UNCHANGED <<turn, stopGen, clearGen, root, parent, status, session, admitted,
                  trees, index, active, cancelled, task, store, file, op, raised>>
  BY DEF ClearReplyRaises, turnVars, generationVars, taskVars
<1>4. r \in Published /\ \A m \in reached : m \in Prompts /\ Live(m) /\ root[m] = r
  BY <1>2, ResolvesFacts DEF Nodes
<1>5. \A m \in Prompts : state'[m] = IF m \in F THEN "error" ELSE state[m]
  BY <1>2
<1>6. \A m \in Prompts : m \in F <=> m \in reached /\ Unfinished(m)
  OBVIOUS
<1> HIDE DEF F, r
<1>7. \A m \in Prompts :
           /\ Live(m)' <=> Live(m)
           /\ state'[m] = "absent" <=> state[m] = "absent"
           /\ state'[m] = "pending" <=> state[m] = "pending" /\ m \notin F
           /\ state'[m] = "in_progress" => state[m] = "in_progress" /\ m \notin F
           /\ Unfinished(m)' <=> Unfinished(m) /\ m \notin F
  BY <1>4, <1>5, <1>6, Ended
<1>8. SameShape /\ Published' = Published /\ Waits'
  BY <1>3, <1>7 DEF SameShape, Published, Waits
<1>9. Progress
  <2>1. \A m \in Prompts : m \in F => state[m] # "completed"
    BY <1>6 DEF Unfinished
  <2> QED BY <1>3, <1>5, <2>1 DEF Progress
<1>10. Retires
  <2>1. \A m \in Prompts : cancelled'[m] => task[m] # "none" /\ ~Unfinished(m)'
    BY <1>3, <1>7 DEF Work, Running
  <2>2. \A m \in Prompts : state'[m] = "pending" <=>
          state[m] = "pending" /\ (m \notin reached \/ root[m] # r)
    BY <1>4, <1>6, <1>7 DEF Unfinished
  <2>3. \A m \in Prompts :
           /\ Live(m)' <=> Live(m)
           /\ state'[m] = "absent" <=> state[m] = "absent"
           /\ state'[m] = "pending" <=> state[m] = "pending" /\ (m \notin reached \/ root[m] # r)
           /\ state'[m] = "in_progress" => state[m] = "in_progress"
           /\ cancelled'[m] => task[m] # "none" /\ ~Unfinished(m)'
    BY <1>7, <2>1, <2>2
  <2> QED BY <1>2, <1>3, <1>4, <2>3, OneQueue
<1>11. Boundary' /\ Operation'
  BY <1>2, <1>3, <1>7, <1>8, BoundaryKept, SameOperation
<1> QED BY <1>1, <1>3, <1>8, <1>9, <1>10, <1>11, QuietKeeps DEF Undisturbed

\* Steps of the command that holds the lock: only the store and the operation change.
LEMMA LockedKeeps ==
  ASSUME Core, TypeOK',
         UNCHANGED <<turnVars, generationVars, graphVars, treeVars, taskVars, commands>>,
         raised'["stop"] = raised["stop"], raised'["clear"] = raised["clear"],
         Operation', Stored'
  PROVE  Core'
<1> USE DEF Core
<1>1. UNCHANGED <<turn, stopGen, clearGen, root, state, parent, status, session, admitted, trees,
                  index, queue, active, cancelled, task, commands>>
  BY DEF turnVars, generationVars, graphVars, treeVars, taskVars
<1>2. SameShape /\ Waits' /\ Published' = Published
  BY <1>1 DEF SameShape, Live, Unfinished, Published, Waits
<1>3. Graph' /\ Rooted' /\ Indexed'
  BY <1>2, SameShapeKeeps
<1>4. Retires
  <2>1. \A m \in Prompts : cancelled'[m] => task[m] # "none" /\ ~Unfinished(m)'
    BY <1>1 DEF Work, Running, Unfinished
  <2> QED BY <1>1, <2>1, SameQueues DEF Live
<1>5. Work' /\ Order'
  BY <1>4, RetiresKeeps
<1>6. Boundary'
  BY <1>1, BoundaryKept DEF Live, Unfinished
<1> QED BY <1>2, <1>3, <1>5, <1>6

\* The store stays as it is while no tree and no node changes.
LEMMA StoredStays ==
  ASSUME Core, TypeOK', UNCHANGED <<graphVars, treeVars, store>>,
         raised'["clear"] = raised["clear"],
         \A r \in Prompts : Undisturbed(r)' => Undisturbed(r),
         op'.phase = "save" => op.phase = "save" /\ op'.trees = op.trees /\ op'.snaps = op.snaps
  PROVE  Stored'
<1> USE DEF Core
<1>1. UNCHANGED <<root, state, parent, status, session, admitted, trees, index, store>>
  BY DEF graphVars, treeVars
<1>2. SameShape /\ Progress
  BY <1>1 DEF SameShape, Progress, Live, Unfinished, Published
<1>3. Graph'
  BY <1>2, SameShapeKeeps
<1> QED BY <1>1, <1>2, <1>3, StoredKept

LEMMA TakeSnapshotsKeeps ==
  ASSUME Core, TakeSnapshots PROVE Core'
<1> USE DEF Core
<1>1. TypeOK'
  BY SnapshotsTyped
<1>2. UNCHANGED <<turnVars, generationVars, graphVars, treeVars, taskVars, raised, commands,
                  store, file>>
  BY DEF TakeSnapshots
<1>3. UNCHANGED <<root, state, parent, status, session, trees, store, file, raised>>
  BY <1>2 DEF graphVars, treeVars
<1>4. op.phase = "drain" /\ op.trees \subseteq Published /\ op.drop \cap Published = {}
  BY DEF TakeSnapshots, Operation
<1>5. op' = [kind |-> op.kind, phase |-> "save", trees |-> op.trees,
             snaps |-> [r \in op.trees |-> Snapshot(r)], drop |-> op.drop]
  <2>1. op.trees \cap Published = op.trees
    BY <1>4
  <2> QED BY <2>1 DEF TakeSnapshots, Operation
<1>6. Published' = Published /\ \A r : Nodes(r)' = Nodes(r)
  BY <1>3 DEF Published, Nodes, Live
<1>7. Operation'
  BY <1>4, <1>5, <1>6 DEF Operation
<1>8. \A r \in op.trees : Kept(r, Snapshot(r)) /\ Consistent(r, Snapshot(r))
  BY <1>4, SnapshotKept
<1>9. ASSUME NEW r \in op'.trees PROVE Kept(r, op.snaps[r])' /\ Consistent(r, op.snaps[r])'
  <2> DEFINE s == Snapshot(r)
  <2>1. op'.snaps[r] = s /\ r \in op.trees
    BY <1>5, <1>9
  <2>2. Kept(r, s) /\ Consistent(r, s)
    BY <1>8, <2>1
  <2> HIDE DEF s
  <2> QED BY <1>3, <1>6, <2>1, <2>2 DEF Kept, Consistent, Restorable, IsSnapshot
<1>10. ASSUME NEW r \in Prompts, store[r] # NoTree PROVE Kept(r, store[r])'
  <2>1. Kept(r, store[r])
    BY <1>10 DEF Stored
  <2> DEFINE s == store[r]
  <2>2. store'[r] = s
    BY <1>3
  <2>3. Kept(r, s)
    BY <2>1
  <2> HIDE DEF s
  <2> QED BY <1>3, <2>2, <2>3 DEF Kept, Restorable, IsSnapshot
<1>11. ASSUME NEW r \in Prompts, Undisturbed(r)'
       PROVE  \/ r \in Published' /\ Consistent(r, store[r])'
              \/ (r \notin Published' \/ raised'["clear"]) /\ store'[r] = NoTree
  <2>1. Undisturbed(r)
    BY <1>5, <1>11 DEF Undisturbed
  <2>2. \/ r \in Published /\ Consistent(r, store[r])
        \/ (r \notin Published \/ raised["clear"]) /\ store[r] = NoTree
    BY <2>1 DEF Stored
  <2> DEFINE s == store[r]
  <2>3. store'[r] = s
    BY <1>3
  <2>4. \/ r \in Published /\ Consistent(r, s)
        \/ (r \notin Published \/ raised["clear"]) /\ s = NoTree
    BY <2>2
  <2> HIDE DEF s
  <2> QED BY <1>3, <1>6, <2>3, <2>4 DEF Consistent
<1>12. Stored'
  <2>1. DOMAIN op'.snaps = op'.trees
    BY <1>5
  <2>2. \A r \in Prompts : store'[r] # NoTree => Kept(r, store[r])'
    BY <1>3, <1>10
  <2> QED BY <1>9, <1>11, <2>1, <2>2 DEF Stored
<1> QED BY <1>1, <1>2, <1>7, <1>12, LockedKeeps

LEMMA SaveSnapshotsKeeps ==
  ASSUME Core, SaveSnapshots PROVE Core'
<1> USE DEF Core
<1>1. TypeOK'
  BY SnapshotsTyped
<1>2. /\ UNCHANGED <<turnVars, generationVars, graphVars, treeVars, taskVars, commands>>
      /\ raised'["stop"] = raised["stop"] /\ raised'["clear"] = raised["clear"]
  BY WriteThroughFacts DEF SaveSnapshots, TypeOK
<1>3. /\ UNCHANGED <<root, state, parent, status, session, trees>>
      /\ raised'["clear"] = raised["clear"]
  BY <1>2 DEF graphVars, treeVars
<1>4. op.phase = "save" /\ op.trees \subseteq Published /\ op.drop \cap Published = {}
  BY DEF SaveSnapshots, Operation
<1>5. Published' = Published /\ \A r : Nodes(r)' = Nodes(r)
  BY <1>3 DEF Published, Nodes, Live
<1>6. Operation' /\ op'.phase # "save"
  BY OpSavedFacts DEF SaveSnapshots, Operation, Idle, NoTree
<1>7. DOMAIN op.snaps = op.trees
      /\ \A r \in op.trees : Kept(r, op.snaps[r]) /\ Consistent(r, op.snaps[r])
  BY <1>4 DEF Stored
<1>8. \A r \in Prompts : store'[r] = IF r \in op.trees THEN op.snaps[r]
                                     ELSE IF r \in op.drop THEN NoTree ELSE store[r]
  BY <1>7 DEF SaveSnapshots, SavedStore
<1>9. ASSUME NEW r \in Prompts
      PROVE  /\ store'[r] # NoTree => Kept(r, store'[r])
             /\ \/ r \in Published /\ Consistent(r, store'[r])
                \/ (r \notin Published \/ raised["clear"]) /\ store'[r] = NoTree
  <2>1. CASE r \in op.trees
    <3>1. store'[r] = op.snaps[r]
      BY <1>8, <2>1
    <3>2. Kept(r, op.snaps[r]) /\ Consistent(r, op.snaps[r]) /\ r \in Published
      BY <1>4, <1>7, <2>1
    <3> QED BY <3>1, <3>2
  <2>2. CASE r \notin op.trees /\ r \in op.drop
    <3>1. store'[r] = NoTree /\ r \notin Published
      BY <1>4, <1>8, <2>2
    <3> QED BY <3>1
  <2>3. CASE r \notin op.trees /\ r \notin op.drop
    <3>1. store'[r] = store[r] /\ Undisturbed(r)
      BY <1>8, <2>3 DEF Undisturbed
    <3>2. /\ store[r] # NoTree => Kept(r, store[r])
          /\ \/ r \in Published /\ Consistent(r, store[r])
             \/ (r \notin Published \/ raised["clear"]) /\ store[r] = NoTree
      BY <3>1 DEF Stored
    <3> QED BY <3>1, <3>2
  <2> QED BY <2>1, <2>2, <2>3
<1>10. ASSUME NEW r \in Prompts
       PROVE  /\ store'[r] # NoTree => Kept(r, store[r])'
              /\ \/ r \in Published' /\ Consistent(r, store[r])'
                 \/ (r \notin Published' \/ raised'["clear"]) /\ store'[r] = NoTree
  <2> DEFINE s == store'[r]
  <2>1. /\ s # NoTree => Kept(r, s)
        /\ \/ r \in Published /\ Consistent(r, s)
           \/ (r \notin Published \/ raised["clear"]) /\ s = NoTree
    BY <1>9
  <2>2. store'[r] = s
    OBVIOUS
  <2> HIDE DEF s
  <2>3. s # NoTree => Kept(r, store[r])'
    BY <1>3, <2>1, <2>2 DEF Kept, Restorable, IsSnapshot
  <2>4. Consistent(r, s) => Consistent(r, store[r])'
    BY <1>3, <1>5, <2>2 DEF Consistent
  <2> QED BY <1>3, <1>5, <2>1, <2>2, <2>3, <2>4
<1>11. Stored'
  BY <1>6, <1>10 DEF Stored
<1> QED BY <1>1, <1>2, <1>6, <1>11, LockedKeeps

\* The lock is given up, or the store reaches its file: the trees stay as they are.
LEMMA StopSessionsKeeps ==
  ASSUME Core, StopSessions PROVE Core'
<1> USE DEF Core
<1>1. TypeOK'
  BY DEF StopSessions, Idle, TypeOK, turnVars, generationVars, graphVars, treeVars, taskVars
<1>2. /\ UNCHANGED <<turnVars, generationVars, graphVars, treeVars, taskVars, commands>>
      /\ UNCHANGED <<store, raised>> /\ op.phase = "sessions" /\ op' = Idle
  BY DEF StopSessions
<1>3. Operation'
  BY <1>2 DEF Operation, Idle, NoTree
<1>4. \A r \in Prompts : Undisturbed(r)
  BY <1>2 DEF Operation, Undisturbed
<1>5. Stored'
  BY <1>1, <1>2, <1>4, StoredStays DEF Idle
<1> QED BY <1>1, <1>2, <1>3, <1>5, LockedKeeps

LEMMA WriteFileKeeps ==
  ASSUME Core, WriteFile PROVE Core'
<1> USE DEF Core
<1>1. /\ UNCHANGED <<turnVars, generationVars, graphVars, treeVars, taskVars, commands>>
      /\ UNCHANGED <<store, op>> /\ file' = store
      /\ raised' = [raised EXCEPT !["write"] = FALSE]
  BY DEF WriteFile
<1>2. TypeOK'
  BY <1>1 DEF TypeOK, turnVars, generationVars, graphVars, treeVars, taskVars
<1>3. raised'["stop"] = raised["stop"] /\ raised'["clear"] = raised["clear"]
  BY <1>1 DEF TypeOK
<1>4. Operation'
  BY <1>1, SameOperation DEF treeVars, Published
<1>5. \A r \in Prompts : Undisturbed(r)' => Undisturbed(r)
  BY <1>1 DEF Undisturbed
<1>6. Stored'
  BY <1>1, <1>2, <1>3, <1>5, StoredStays
<1> QED BY <1>1, <1>2, <1>3, <1>4, <1>6, LockedKeeps

-----------------------------------------------------------------------------
(***************************************************************************)
(* The end of a claim.                                                     *)
(***************************************************************************)

\* Everything in a queue is pending, so the next claim is its head.
LEMMA NextClaimFacts ==
  ASSUME TypeOK, Work, NEW r \in Published
  PROVE  /\ queue[r] \in Seq(Prompts) /\ IsInjective(queue[r])
         /\ \A m : m \in ToSet(queue[r]) <=>
              m \in Prompts /\ root[m] = r /\ state[m] = "pending"
         /\ queue[r] = <<>> => NextClaim(r) = {}
         /\ queue[r] # <<>> => NextClaim(r) = {1} /\ queue[r][1] \in ToSet(queue[r])
<1>1. r \in Prompts /\ queue[r] \in Seq(Prompts) /\ IsInjective(queue[r])
  BY RootsArePrompts DEF TypeOK, Work, Queued
<1>2. \A m : m \in ToSet(queue[r]) <=> m \in Prompts /\ root[m] = r /\ state[m] = "pending"
  BY DEF Work, Queued, Nodes, Live
<1>3. DOMAIN queue[r] = 1..Len(queue[r]) /\ Len(queue[r]) \in Nat
  BY <1>1
<1>4. \A i \in 1..Len(queue[r]) : state[queue[r][i]] = "pending"
  BY <1>1, <1>2, InSequence
<1>5. queue[r] = <<>> => NextClaim(r) = {}
  BY <1>3 DEF NextClaim
<1>6. ASSUME queue[r] # <<>> PROVE NextClaim(r) = {1} /\ queue[r][1] \in ToSet(queue[r])
  <2>1. 1 \in 1..Len(queue[r])
    BY <1>1, <1>3, <1>6
  <2>2. ASSUME NEW i \in 1..Len(queue[r]) PROVE i \in NextClaim(r) <=> i = 1
    <3>1. i # 1 => 1 \in 1..(i - 1)
      BY <1>3
    <3>2. i = 1 => 1..(i - 1) = {}
      OBVIOUS
    <3> QED BY <1>3, <1>4, <2>1, <3>1, <3>2 DEF NextClaim
  <2>3. \A i \in NextClaim(r) : i \in 1..Len(queue[r])
    BY <1>3 DEF NextClaim
  <2>4. NextClaim(r) = {1}
    BY <2>1, <2>2, <2>3
  <2> QED BY <1>1, <2>1, <2>4, InSequence
<1> QED BY <1>1, <1>2, <1>5, <1>6

\* The node that is claimed when r is released.
Successor(r) == queue[r][1]
Served(n) == {r \in Releases(n) : queue[r] # <<>>}

LEMMA FinishFacts ==
  ASSUME TypeOK, Graph, Work, NEW n \in Prompts, FinishClaim(n)
  PROVE  /\ task[n] # "none" /\ ~Unfinished(n)
         /\ \A r \in Prompts : active'[r] =
              IF r \notin Releases(n) THEN active[r]
              ELSE IF queue[r] = <<>> THEN NoPrompt ELSE Successor(r)
         /\ \A r \in Prompts : queue'[r] =
              IF r \notin Served(n) THEN queue[r] ELSE SubSeq(queue[r], 2, Len(queue[r]))
         /\ \E claimed :
              /\ \A m : m \in claimed <=> \E r \in Served(n) : m = Successor(r)
              /\ state' = [m \in Prompts |-> IF m \in claimed THEN "in_progress" ELSE state[m]]
              /\ task' = [m \in Prompts |->
                   IF m = n THEN "none" ELSE IF m \in claimed THEN "created" ELSE task[m]]
         /\ cancelled' = [cancelled EXCEPT ![n] = FALSE]
<1> DEFINE rs == Releases(n)
           next(r) == {queue[r][i] : i \in NextClaim(r)}
           claimed == UNION {next(r) : r \in rs}
<1>1. /\ RunnerOver(n)
      /\ active' = [r \in Prompts |->
          IF r \notin rs THEN active[r]
          ELSE IF next(r) = {} THEN NoPrompt ELSE CHOOSE m \in next(r) : TRUE]
      /\ queue' = [r \in Prompts |->
          IF r \notin rs THEN queue[r]
          ELSE IF next(r) = {} THEN <<>>
          ELSE SubSeq(queue[r], (CHOOSE i \in NextClaim(r) : TRUE) + 1, Len(queue[r]))]
      /\ state' = [m \in Prompts |-> IF m \in claimed THEN "in_progress" ELSE state[m]]
      /\ task' = [m \in Prompts |->
          IF m = n THEN "none" ELSE IF m \in claimed THEN "created" ELSE task[m]]
      /\ cancelled' = [cancelled EXCEPT ![n] = FALSE]
  BY DEF FinishClaim
<1>2. \A r \in rs : r \in Published /\ r \in Prompts
  BY RootsArePrompts DEF Releases
<1>3. ASSUME NEW r \in rs, queue[r] = <<>> PROVE next(r) = {}
  BY <1>2, <1>3, NextClaimFacts
<1>4. ASSUME NEW r \in rs, queue[r] # <<>>
      PROVE  next(r) = {Successor(r)} /\ (CHOOSE i \in NextClaim(r) : TRUE) + 1 = 2
  <2>1. NextClaim(r) = {1}
    BY <1>2, <1>4, NextClaimFacts
  <2>2. (CHOOSE i \in {1} : TRUE) = 1
    OBVIOUS
  <2> QED BY <2>1, <2>2 DEF Successor
<1>5. task[n] # "none" /\ ~Unfinished(n)
  BY <1>1 DEF RunnerOver, Work, Running
<1>6. \A m : m \in claimed <=> \E r \in Served(n) : m = Successor(r)
  <2>1. \A r \in Served(n) : r \in rs /\ next(r) = {Successor(r)}
    BY <1>4 DEF Served
  <2>2. \A r \in rs : next(r) = {} \/ r \in Served(n)
    BY <1>3 DEF Served
  <2> HIDE DEF next
  <2> QED BY <2>1, <2>2
<1> HIDE DEF next, claimed
<1>7. ASSUME NEW r \in Prompts
      PROVE  active'[r] = IF r \notin Releases(n) THEN active[r]
                          ELSE IF queue[r] = <<>> THEN NoPrompt ELSE Successor(r)
  <2>1. CASE r \notin rs
    BY <1>1, <2>1
  <2>2. CASE r \in rs /\ queue[r] = <<>>
    BY <1>1, <1>3, <2>2
  <2>3. CASE r \in rs /\ queue[r] # <<>>
    <3>1. next(r) = {Successor(r)}
      BY <1>4, <2>3
    <3>2. (CHOOSE m \in {Successor(r)} : TRUE) = Successor(r)
      OBVIOUS
    <3>3. active'[r] = CHOOSE m \in next(r) : TRUE
      BY <1>1, <2>3, <3>1
    <3> QED BY <2>3, <3>1, <3>2, <3>3
  <2> QED BY <2>1, <2>2, <2>3
<1>8. ASSUME NEW r \in Prompts
      PROVE  queue'[r] = IF r \notin Served(n) THEN queue[r]
                         ELSE SubSeq(queue[r], 2, Len(queue[r]))
  <2>1. CASE r \notin rs
    BY <1>1, <2>1 DEF Served
  <2>2. CASE r \in rs /\ queue[r] = <<>>
    BY <1>1, <1>3, <2>2 DEF Served
  <2>3. CASE r \in rs /\ queue[r] # <<>>
    <3>1. next(r) # {} /\ (CHOOSE i \in NextClaim(r) : TRUE) + 1 = 2
      BY <1>4, <2>3
    <3>2. queue'[r] = SubSeq(queue[r], (CHOOSE i \in NextClaim(r) : TRUE) + 1, Len(queue[r]))
      BY <1>1, <2>3, <3>1
    <3> QED BY <2>3, <3>1, <3>2 DEF Served
  <2> QED BY <2>1, <2>2, <2>3
<1> QED BY <1>1, <1>5, <1>6, <1>7, <1>8

\* A claim ends: it is released, and the head of the queue of its tree is claimed.
LEMMA FinishClaimKeeps ==
  ASSUME Core, NEW n \in Prompts, FinishClaim(n) PROVE Core'
<1> USE DEF Core
<1>1. UNCHANGED <<turn, token, replyTo, stopGen, clearGen, root, parent, status, session,
                  admitted, trees, index, store, file, op, raised, commands>>
  BY DEF FinishClaim, turnVars, generationVars, opVars
<1>2. task[n] # "none" /\ ~Unfinished(n)
  BY FinishFacts
<1>3. \A r \in Prompts : active'[r] =
        IF r \notin Releases(n) THEN active[r]
        ELSE IF queue[r] = <<>> THEN NoPrompt ELSE Successor(r)
  BY FinishFacts
<1>4. \A r \in Prompts : queue'[r] =
        IF r \notin Served(n) THEN queue[r] ELSE SubSeq(queue[r], 2, Len(queue[r]))
  BY FinishFacts
<1>5. PICK claimed :
        /\ \A m : m \in claimed <=> \E r \in Served(n) : m = Successor(r)
        /\ state' = [m \in Prompts |-> IF m \in claimed THEN "in_progress" ELSE state[m]]
        /\ task' = [m \in Prompts |->
             IF m = n THEN "none" ELSE IF m \in claimed THEN "created" ELSE task[m]]
  BY FinishFacts
<1>6. \A m \in Prompts : cancelled'[m] = IF m = n THEN FALSE ELSE cancelled[m]
  <2>1. cancelled' = [cancelled EXCEPT ![n] = FALSE]
    BY FinishFacts
  <2> QED BY <2>1 DEF TypeOK
<1>7. Published \subseteq Prompts /\ Published' = Published
  BY <1>1, RootsArePrompts DEF Published
<1>8. \A r \in Releases(n) : r \in Published /\ r \in Prompts /\ active[r] = n /\ root[n] = r
  BY <1>7, RefFacts DEF Releases, Work, Claimed
<1>9. \A r \in Prompts : r \in Published /\ active[r] = n => r \in Releases(n)
  BY DEF Releases
<1>10. \A r \in Served(n) : r \in Releases(n) /\ queue[r] # <<>>
  BY DEF Served
<1>11. ASSUME NEW r \in Served(n)
       PROVE  /\ Successor(r) \in Prompts /\ root[Successor(r)] = r
              /\ state[Successor(r)] = "pending" /\ Successor(r) \in claimed
              /\ Successor(r) # n
  <2>1. r \in Published /\ queue[r] # <<>>
    BY <1>8, <1>10
  <2>2. Successor(r) \in Prompts /\ root[Successor(r)] = r /\ state[Successor(r)] = "pending"
    BY <2>1, NextClaimFacts DEF Successor
  <2> QED BY <1>2, <1>5, <2>2 DEF Unfinished
<1>12. ASSUME NEW m \in claimed
       PROVE  /\ m \in Prompts /\ state[m] = "pending" /\ m # n
              /\ root[m] \in Served(n) /\ m = Successor(root[m])
  BY <1>5, <1>11
<1>13. \A m \in Prompts :
         /\ state'[m] = IF m \in claimed THEN "in_progress" ELSE state[m]
         /\ Live(m)' <=> Live(m)
         /\ state'[m] = "absent" <=> state[m] = "absent"
         /\ state'[m] = "pending" <=> state[m] = "pending" /\ m \notin claimed
         /\ Unfinished(m)' <=> Unfinished(m)
  BY <1>5, <1>12 DEF Live, Unfinished
<1>14. \A m \in Prompts : task'[m] =
         IF m = n THEN "none" ELSE IF m \in claimed THEN "created" ELSE task[m]
  BY <1>5
<1>15. \A r \in Prompts : Nodes(r)' = Nodes(r)
  BY <1>1, <1>13 DEF Nodes
<1>16. TypeOK'
  <2>1. state' \in [Prompts ->
          {"absent", "pending", "in_progress", "completed", "error", "removed"}]
    BY <1>5 DEF TypeOK
  <2>2. task' \in [Prompts -> {"none", "created", "running"}]
    BY <1>5 DEF TypeOK
  <2>3. cancelled' \in [Prompts -> BOOLEAN]
    <3>1. cancelled' = [cancelled EXCEPT ![n] = FALSE]
      BY FinishFacts
    <3> QED BY <3>1 DEF TypeOK
  <2>4. active' \in [Prompts -> Prompts \cup {NoPrompt}]
    <3>1. \A r \in Prompts : active'[r] \in Prompts \cup {NoPrompt}
      BY <1>3, <1>8, <1>11, NodeTypes DEF Served
    <3>2. active' = [r \in Prompts |-> active'[r]]
      BY DEF FinishClaim
    <3> QED BY <3>1, <3>2
  <2>5. queue' \in [Prompts -> Seq(Prompts)]
    <3>1. ASSUME NEW r \in Prompts PROVE queue'[r] \in Seq(Prompts)
      <4>1. queue[r] \in Seq(Prompts)
        BY NodeTypes
      <4>2. r \in Served(n) => SubSeq(queue[r], 2, Len(queue[r])) \in Seq(Prompts)
        BY <1>8, <1>10, NextClaimFacts, TailFacts
      <4> QED BY <1>4, <4>1, <4>2
    <3>2. queue' = [r \in Prompts |-> queue'[r]]
      BY DEF FinishClaim
    <3> QED BY <3>1, <3>2
  <2> QED BY <1>1, <2>1, <2>2, <2>3, <2>4, <2>5 DEF TypeOK
<1>17. SameShape /\ Waits'
  BY <1>1, <1>13 DEF SameShape, Waits
<1>18. Graph' /\ Rooted' /\ Indexed'
  BY <1>17, SameShapeKeeps
<1>19. ASSUME NEW r \in Served(n)
       PROVE  /\ IsInjective(queue'[r]) /\ ToSet(queue'[r]) = ToSet(queue[r]) \ {Successor(r)}
              /\ \A a, b : a # Successor(r) /\ Before(queue[r], a, b) => Before(queue'[r], a, b)
              /\ \A a : ~Before(queue[r], a, Successor(r))
  <2>1. r \in Published /\ r \in Prompts /\ queue[r] # <<>>
    BY <1>8, <1>10
  <2>2. queue[r] \in Seq(Prompts) /\ IsInjective(queue[r])
    BY <2>1, NextClaimFacts
  <2>3. queue'[r] = SubSeq(queue[r], 2, Len(queue[r]))
    BY <1>4, <2>1
  <2> DEFINE s == queue[r]
             t == queue'[r]
  <2>4. s \in Seq(Prompts) /\ IsInjective(s) /\ s # <<>> /\ s[1] = Successor(r)
        /\ t = SubSeq(s, 2, Len(s))
    BY <2>1, <2>2, <2>3 DEF Successor
  <2> HIDE DEF s, t
  <2>5. /\ IsInjective(t) /\ ToSet(t) = ToSet(s) \ {s[1]}
        /\ \A a, b : a # s[1] /\ Before(s, a, b) => Before(t, a, b)
        /\ \A a : ~Before(s, a, s[1])
    BY <2>4, TailFacts
  <2>6. /\ IsInjective(t) /\ ToSet(t) = ToSet(s) \ {Successor(r)}
        /\ \A a, b : a # Successor(r) /\ Before(s, a, b) => Before(t, a, b)
        /\ \A a : ~Before(s, a, Successor(r))
    BY <2>4, <2>5
  <2> QED BY <2>6 DEF s, t
<1>20. Queued'
  <2> SUFFICES ASSUME NEW r \in Published
               PROVE  IsInjective(queue'[r])
                      /\ ToSet(queue'[r]) = {m \in Nodes(r) : state'[m] = "pending"}
    BY <1>7, <1>15 DEF Queued
  <2>1. r \in Prompts /\ IsInjective(queue[r])
        /\ ToSet(queue[r]) = {m \in Nodes(r) : state[m] = "pending"}
    BY <1>7 DEF Work, Queued
  <2>2. \A m \in Nodes(r) : m \in Prompts /\ root[m] = r
    BY DEF Nodes
  <2>3. CASE r \in Served(n)
    <3>1. \A m \in Nodes(r) : m \in claimed <=> m = Successor(r)
      BY <1>11, <1>12, <2>2, <2>3
    <3>2. ToSet(queue'[r]) = {m \in Nodes(r) : state'[m] = "pending"}
      BY <1>13, <1>19, <2>1, <2>2, <2>3, <3>1
    <3> QED BY <1>19, <2>3, <3>2
  <2>4. CASE r \notin Served(n)
    <3>1. \A m \in Nodes(r) : m \notin claimed
      BY <1>12, <2>2, <2>4
    <3>2. queue'[r] = queue[r]
      BY <1>4, <2>1, <2>4
    <3>3. ToSet(queue'[r]) = {m \in Nodes(r) : state'[m] = "pending"}
      BY <1>13, <2>1, <2>2, <3>1, <3>2
    <3> QED BY <2>1, <3>2, <3>3
  <2> QED BY <2>3, <2>4
<1>21. Claimed'
  <2>1. ASSUME NEW r \in Published, queue'[r] # <<>> PROVE active'[r] # NoPrompt
    <3>1. r \in Prompts
      BY <1>7
    <3>2. CASE r \in Releases(n)
      <4>1. queue[r] # <<>>
        BY <1>4, <2>1, <3>1 DEF Served
      <4>2. active'[r] = Successor(r) /\ r \in Served(n)
        BY <1>3, <3>1, <3>2, <4>1 DEF Served
      <4> QED BY <1>11, <4>2, RefFacts
    <3>3. CASE r \notin Releases(n)
      <4>1. queue[r] # <<>> /\ active'[r] = active[r]
        BY <1>3, <1>4, <1>10, <2>1, <3>1, <3>3
      <4> QED BY <4>1 DEF Work, Claimed
    <3> QED BY <3>2, <3>3
  <2>2. ASSUME NEW r \in Published, active'[r] # NoPrompt PROVE task'[active'[r]] # "none"
    <3>1. r \in Prompts
      BY <1>7
    <3>2. CASE r \in Releases(n)
      <4>1. active'[r] = Successor(r) /\ r \in Served(n)
        BY <1>3, <2>2, <3>1, <3>2 DEF Served
      <4> QED BY <1>11, <1>14, <4>1
    <3>3. CASE r \notin Releases(n)
      <4>1. active'[r] = active[r] /\ active[r] \in Prompts /\ active[r] # n
        BY <1>3, <1>9, <2>2, <3>1, <3>3, NodeTypes
      <4>2. task[active[r]] # "none"
        BY <4>1, <2>2 DEF Work, Claimed
      <4> QED BY <1>14, <4>1, <4>2
    <3> QED BY <3>2, <3>3
  <2>3. \A r \in Prompts : r \notin Published => active'[r] = NoPrompt
    BY <1>3, <1>8 DEF Work, Claimed
  <2>4. ASSUME NEW r \in Prompts, state'[r] = "absent" PROVE queue'[r] = <<>>
    <3>1. queue[r] = <<>>
      BY <1>13, <2>4 DEF Work, Claimed
    <3> QED BY <1>4, <1>10, <3>1
  <2>5. ASSUME NEW r \in Prompts, active'[r] # NoPrompt
        PROVE  root[active'[r]] = r /\ state'[active'[r]] \notin {"pending", "absent"}
    <3>1. CASE r \in Releases(n)
      <4>1. active'[r] = Successor(r) /\ r \in Served(n)
        BY <1>3, <2>5, <3>1 DEF Served
      <4> QED BY <1>11, <1>13, <4>1
    <3>2. CASE r \notin Releases(n)
      <4>1. active'[r] = active[r] /\ active[r] \in Prompts
        BY <1>3, <2>5, <3>2, NodeTypes
      <4>2. root[active[r]] = r /\ state[active[r]] \notin {"pending", "absent"}
        BY <2>5, <4>1 DEF Work, Claimed
      <4> QED BY <1>13, <4>1, <4>2
    <3> QED BY <3>1, <3>2
  <2> QED BY <1>1, <1>7, <2>1, <2>2, <2>3, <2>4, <2>5 DEF Claimed
<1>22. Running'
  <2>1. ASSUME NEW m \in Prompts, task'[m] # "none" PROVE root[m] # NoPrompt
    <3>1. CASE m \in claimed
      BY <1>8, <1>10, <1>12, <3>1, RefFacts
    <3>2. CASE m \notin claimed
      BY <1>14, <2>1, <3>2 DEF Work, Running
    <3> QED BY <3>1, <3>2
  <2>2. ASSUME NEW m \in Prompts, task'[m] # "none", root[m] \in Published
        PROVE  active'[root[m]] = m
    <3>1. root[m] \in Prompts
      BY <1>7, <2>2
    <3>2. CASE m \in claimed
      BY <1>3, <1>10, <1>12, <3>1, <3>2
    <3>3. CASE m \notin claimed
      <4>1. m # n /\ task[m] # "none"
        BY <1>14, <2>2, <3>3
      <4>2. active[root[m]] = m
        BY <2>2, <4>1 DEF Work, Running
      <4> QED BY <1>3, <1>8, <3>1, <4>1, <4>2
    <3> QED BY <3>2, <3>3
  <2>3. ASSUME NEW m \in Prompts, state'[m] = "in_progress" PROVE active'[root[m]] = m
    <3>1. root[m] \in Published /\ root[m] \in Prompts
      BY <1>7, <1>13, <2>3 DEF Graph, Live
    <3>2. CASE m \in claimed
      BY <1>3, <1>10, <1>12, <3>1, <3>2
    <3>3. CASE m \notin claimed
      <4>1. m # n /\ state[m] = "in_progress"
        BY <1>2, <1>13, <2>3, <3>3 DEF Unfinished
      <4>2. active[root[m]] = m
        BY <4>1 DEF Work, Running
      <4> QED BY <1>3, <1>8, <3>1, <4>1, <4>2
    <3> QED BY <3>2, <3>3
  <2>4. ASSUME NEW m \in Prompts, cancelled'[m] PROVE task'[m] # "none" /\ ~Unfinished(m)'
    <3>1. m # n /\ cancelled[m]
      BY <1>6, <2>4
    <3>2. task[m] # "none" /\ ~Unfinished(m)
      BY <3>1 DEF Work, Running
    <3> QED BY <1>13, <1>14, <3>1, <3>2
  <2> QED BY <1>1, <1>7, <2>1, <2>2, <2>3, <2>4 DEF Running
<1>23. QueuedInOrder'
  <2> SUFFICES ASSUME NEW r \in Published, NEW m \in ToSet(queue'[r]), parent[m] # NoRef,
                      state'[parent[m][1]] = "pending"
               PROVE  Before(queue'[r], parent[m][1], m)
    BY <1>1, <1>7 DEF QueuedInOrder
  <2> DEFINE p == parent[m][1]
  <2>1. r \in Prompts
    BY <1>7
  <2>2. m \in ToSet(queue[r])
    BY <1>4, <1>19, <2>1
  <2>3. m \in Prompts
    BY <2>2, NextClaimFacts
  <2>4. p \in Prompts
    BY <2>3, NodeTypes, RefFacts
  <2>5. state[p] = "pending" /\ p \notin claimed
    BY <1>13, <2>4
  <2>6. Before(queue[r], p, m)
    BY <2>2, <2>5 DEF Order, QueuedInOrder
  <2> HIDE DEF p
  <2>7. CASE r \in Served(n)
    <3>1. p # Successor(r)
      BY <1>11, <2>5, <2>7
    <3> QED BY <1>19, <2>6, <2>7, <3>1 DEF p
  <2>8. CASE r \notin Served(n)
    BY <1>4, <2>1, <2>6, <2>8 DEF p
  <2> QED BY <2>7, <2>8
<1>24. ParentsFirst'
  <2> SUFFICES ASSUME NEW m \in Prompts, task'[m] # "none", Live(m)', parent[m] # NoRef,
                      state'[parent[m][1]] = "pending"
               PROVE  FALSE
    BY <1>1 DEF ParentsFirst
  <2>1. parent[m][1] \in Prompts
    BY NodeTypes, RefFacts
  <2>2. state[parent[m][1]] = "pending"
    BY <1>13, <2>1
  <2>3. CASE m \in claimed
    <3>1. root[m] \in Served(n) /\ m = Successor(root[m]) /\ root[m] \in Published
      BY <1>8, <1>10, <1>12, <2>3
    <3>2. m \in ToSet(queue[root[m]])
      BY <1>12, <2>3, <3>1, NextClaimFacts
    <3>3. Before(queue[root[m]], parent[m][1], m)
      BY <2>2, <3>1, <3>2 DEF Order, QueuedInOrder
    <3> QED BY <1>19, <3>1, <3>3
  <2>4. CASE m \notin claimed
    <3>1. task[m] # "none" /\ Live(m)
      BY <1>13, <1>14, <2>4
    <3> QED BY <2>2, <3>1 DEF Order, ParentsFirst
  <2> QED BY <2>3, <2>4
<1>25. Progress
  BY <1>1, <1>12, <1>13 DEF Progress
<1>26. Boundary' /\ Operation'
  BY <1>1, <1>7, <1>13, BoundaryKept, SameOperation
<1>27. Stored'
  BY <1>1, <1>16, <1>17, <1>18, <1>25, StoredKept DEF Undisturbed
<1> QED BY <1>16, <1>17, <1>18, <1>20, <1>21, <1>22, <1>23, <1>24, <1>26, <1>27
        DEF Work, Order

-----------------------------------------------------------------------------
(***************************************************************************)
(* Admission.                                                              *)
(***************************************************************************)
LEMMA AdmitFacts ==
  ASSUME Core, NEW n \in Prompts, Admit(n)
  PROVE  LET r == Home(n)
         IN /\ state[n] = "absent" /\ root[n] = NoPrompt /\ n \notin Published
            /\ task[n] = "none" /\ ~cancelled[n] /\ op.phase = "idle"
            /\ token[n] = CurrentToken /\ turn'[n] = "none"
            /\ \A m \in Prompts : m # n => turn'[m] = turn[m]
            /\ \/ r = n /\ replyTo[n] = NoRef
               \/ /\ replyTo[n] \in Refs /\ r \in Published /\ r # n
                  /\ replyTo[n][1] \in Prompts /\ Live(replyTo[n][1])
                  /\ root[replyTo[n][1]] = r /\ replyTo[n][1] # n
                  /\ replyTo[n][2] = "prompt" \/ status[replyTo[n][1]]
            /\ r \in Prompts /\ Published' = Published \cup {r}
            /\ \A m \in Prompts :
                 /\ root'[m] = IF m = n THEN r ELSE root[m]
                 /\ parent'[m] = IF m = n THEN replyTo[n] ELSE parent[m]
                 /\ status'[m] = IF m = n THEN TRUE ELSE status[m]
                 /\ admitted'[m] = IF m = n THEN token[n] ELSE admitted[m]
            /\ \A ref \in Refs : index'[ref] = IF ref[1] = n THEN r ELSE index[ref]
            /\ EnqueueOrClaim(n, r) /\ SaveTree(r)
            /\ UNCHANGED <<stopGen, clearGen, session, cancelled, op, raised, commands>>
<1> USE DEF Core
<1> DEFINE r == Home(n)
<1>1. /\ AdmitCurrent(n) /\ root' = [root EXCEPT ![n] = r]
      /\ parent' = [parent EXCEPT ![n] = replyTo[n]]
      /\ status' = [status EXCEPT ![n] = TRUE]
      /\ admitted' = [admitted EXCEPT ![n] = token[n]]
      /\ Register(n, r) /\ EnqueueOrClaim(n, r)
      /\ UNCHANGED <<generationVars, session, cancelled, opVars>>
      /\ SaveTree(r)
  BY DEF Admit, Home
<1>2. op.phase = "idle" /\ turn[n] = "waiting" /\ turn' = [turn EXCEPT ![n] = "none"]
      /\ token[n] = CurrentToken
  BY <1>1 DEF AdmitCurrent, EndTurn, Stale
<1>3. state[n] = "absent"
  BY <1>2 DEF Waits
<1>4. root[n] = NoPrompt
  BY <1>3 DEF Rooted
<1>5. n \notin Published
  BY <1>3 DEF Graph, Live
<1>6. task[n] = "none" /\ ~cancelled[n]
  BY <1>4 DEF Work, Running
<1>7. \/ r = n /\ replyTo[n] = NoRef
      \/ /\ replyTo[n] \in Refs /\ r \in Published /\ r # n
         /\ replyTo[n][1] \in Prompts /\ Live(replyTo[n][1])
         /\ root[replyTo[n][1]] = r /\ replyTo[n][1] # n
         /\ replyTo[n][2] = "prompt" \/ status[replyTo[n][1]]
  <2>1. CASE replyTo[n] = NoRef
    BY <2>1 DEF Home
  <2>2. CASE replyTo[n] # NoRef
    <3>1. replyTo[n] \in Refs /\ Resolves(replyTo[n]) /\ r = index[replyTo[n]]
      BY <1>1, <2>2 DEF AdmitCurrent, ParentRemoved, TypeOK, Home
    <3>2. replyTo[n][1] # n
      BY <1>3, <3>1, ResolvesFacts DEF Live
    <3> HIDE DEF r
    <3> QED BY <1>5, <3>1, <3>2, ResolvesFacts
  <2> QED BY <2>1, <2>2
<1> HIDE DEF r
<1>8. r \in Prompts
  BY <1>7, RootsArePrompts
<1>9. Published' = Published \cup {r}
  <2>1. trees \in Seq(Prompts)
    BY RootsArePrompts
  <2>2. CASE r = n
    BY <1>1, <2>1, <2>2, AppendFacts DEF Register, Published
  <2>3. CASE r # n
    BY <1>1, <1>7, <2>3 DEF Register, Published
  <2> QED BY <2>2, <2>3
<1>10. \A m \in Prompts :
         /\ root'[m] = IF m = n THEN r ELSE root[m]
         /\ parent'[m] = IF m = n THEN replyTo[n] ELSE parent[m]
         /\ status'[m] = IF m = n THEN TRUE ELSE status[m]
         /\ admitted'[m] = IF m = n THEN token[n] ELSE admitted[m]
  BY <1>1 DEF TypeOK
<1>11. \A ref \in Refs : index'[ref] = IF ref[1] = n THEN r ELSE index[ref]
  BY <1>1 DEF Register
<1>12. turn'[n] = "none" /\ \A m \in Prompts : m # n => turn'[m] = turn[m]
  BY <1>2 DEF TypeOK
<1>13. UNCHANGED <<stopGen, clearGen, session, cancelled, op, raised, commands>>
  BY <1>1 DEF generationVars, opVars
<1> QED BY <1>1, <1>2, <1>3, <1>4, <1>5, <1>6, <1>7, <1>8, <1>9, <1>10, <1>11, <1>12, <1>13
        DEF r

\* Admitted at once, or behind the active claim of a tree that is published.
LEMMA AdmitClaims ==
  ASSUME Core, NEW n \in Prompts, Admit(n)
  PROVE  LET r == Home(n)
         IN /\ \A m \in Prompts : m # n => state'[m] = state[m]
            /\ \/ /\ active[r] = NoPrompt /\ queue[r] = <<>>
                  /\ state'[n] = "in_progress" /\ queue' = queue
                  /\ \A q \in Prompts : active'[q] = IF q = r THEN n ELSE active[q]
                  /\ \A m \in Prompts : task'[m] = IF m = n THEN "created" ELSE task[m]
                  /\ \A m \in Prompts : root[m] = r => task[m] = "none"
                  /\ \A m \in Prompts : root[m] = r => state[m] # "pending"
               \/ /\ active[r] # NoPrompt /\ r \in Published /\ state'[n] = "pending"
                  /\ \A q \in Prompts : queue'[q] = IF q = r THEN Append(queue[q], n) ELSE queue[q]
                  /\ UNCHANGED <<active, task>>
<1> USE DEF Core
<1> DEFINE r == Home(n)
<1>1. /\ state[n] = "absent" /\ root[n] = NoPrompt /\ n \notin Published /\ r \in Prompts
      /\ (r = n \/ (r \in Published /\ r # n)) /\ EnqueueOrClaim(n, r)
  BY AdmitFacts
<1> HIDE DEF r
<1>2. CASE active[r] = NoPrompt
  <2>1. /\ state' = [state EXCEPT ![n] = "in_progress"]
        /\ active' = [active EXCEPT ![r] = n]
        /\ task' = [task EXCEPT ![n] = "created"]
        /\ queue' = queue
    BY <1>1, <1>2 DEF EnqueueOrClaim
  <2>2. queue[r] = <<>>
    BY <1>1, <1>2 DEF Work, Claimed
  <2>3. ASSUME NEW m \in Prompts, root[m] = r PROVE task[m] = "none" /\ state[m] # "pending"
    <3>1. CASE r = n
      <4>1. root[root[m]] # NoPrompt
        BY <1>1, <2>3, <3>1, RefFacts DEF Rooted
      <4> QED BY <1>1, <2>3, <3>1, <4>1
    <3>2. CASE r \in Published
      <4>1. task[m] = "none"
        BY <1>2, <2>3, <3>2, RefFacts DEF Work, Running
      <4>2. m \notin ToSet(queue[r])
        BY <2>2, EmptyFacts
      <4>3. state[m] # "pending"
        BY <2>3, <3>2, <4>2, NextClaimFacts
      <4> QED BY <4>1, <4>3
    <3> QED BY <1>1, <3>1, <3>2
  <2>4. /\ \A m \in Prompts : m # n => state'[m] = state[m]
        /\ state'[n] = "in_progress"
        /\ \A q \in Prompts : active'[q] = IF q = r THEN n ELSE active[q]
        /\ \A m \in Prompts : task'[m] = IF m = n THEN "created" ELSE task[m]
    BY <1>1, <2>1 DEF TypeOK
  <2> QED BY <1>2, <2>1, <2>2, <2>3, <2>4 DEF r
<1>3. CASE active[r] # NoPrompt
  <2>1. /\ state' = [state EXCEPT ![n] = "pending"]
        /\ queue' = [queue EXCEPT ![r] = Append(@, n)]
        /\ UNCHANGED <<active, task>>
    BY <1>1, <1>3 DEF EnqueueOrClaim
  <2>2. r \in Published
    BY <1>1, <1>3 DEF Work, Claimed
  <2>3. /\ \A m \in Prompts : m # n => state'[m] = state[m]
        /\ state'[n] = "pending"
        /\ \A q \in Prompts : queue'[q] = IF q = r THEN Append(queue[q], n) ELSE queue[q]
    BY <1>1, <2>1 DEF TypeOK
  <2> QED BY <1>3, <2>1, <2>2, <2>3 DEF r
<1> QED BY <1>2, <1>3

LEMMA AdmitKeeps ==
  ASSUME Core, NEW n \in Prompts, Admit(n) PROVE Core'
<1> USE DEF Core
<1>0. PICK r, old : r = Home(n) /\ old = replyTo[n]
  OBVIOUS
<1>1. /\ state[n] = "absent" /\ root[n] = NoPrompt /\ n \notin Published
      /\ task[n] = "none" /\ ~cancelled[n] /\ op.phase = "idle"
      /\ token[n] = CurrentToken /\ turn'[n] = "none"
      /\ \A m \in Prompts : m # n => turn'[m] = turn[m]
  BY <1>0, AdmitFacts
<1>2. \/ r = n /\ old = NoRef
      \/ /\ old \in Refs /\ r \in Published /\ r # n
         /\ old[1] \in Prompts /\ Live(old[1]) /\ root[old[1]] = r /\ old[1] # n
         /\ old[2] = "prompt" \/ status[old[1]]
  BY <1>0, AdmitFacts
<1>3. r \in Prompts /\ Published' = Published \cup {r}
  BY <1>0, AdmitFacts
<1>4. \A m \in Prompts :
        /\ root'[m] = IF m = n THEN r ELSE root[m]
        /\ parent'[m] = IF m = n THEN old ELSE parent[m]
        /\ status'[m] = IF m = n THEN TRUE ELSE status[m]
        /\ admitted'[m] = IF m = n THEN token[n] ELSE admitted[m]
  <2>1. \A m \in Prompts :
          /\ root'[m] = IF m = n THEN Home(n) ELSE root[m]
          /\ parent'[m] = IF m = n THEN replyTo[n] ELSE parent[m]
          /\ status'[m] = IF m = n THEN TRUE ELSE status[m]
          /\ admitted'[m] = IF m = n THEN token[n] ELSE admitted[m]
    BY AdmitFacts
  <2> QED BY <1>0, <2>1
<1>5. \A ref \in Refs : index'[ref] = IF ref[1] = n THEN r ELSE index[ref]
  <2>1. \A ref \in Refs : index'[ref] = IF ref[1] = n THEN Home(n) ELSE index[ref]
    BY AdmitFacts
  <2> QED BY <1>0, <2>1
<1>6. \A q \in Prompts : store'[q] = IF q = r THEN Snapshot(q)' ELSE store[q]
  <2>1. SaveTree(Home(n))
    BY AdmitFacts
  <2> QED BY <1>0, <2>1 DEF SaveTree
<1>7. UNCHANGED <<stopGen, clearGen, session, cancelled, op, raised, commands>>
  BY <1>0, AdmitFacts
<1>8. \A m \in Prompts : m # n => state'[m] = state[m]
  BY <1>0, AdmitClaims
<1> DEFINE AtOnce ==
             /\ active[r] = NoPrompt /\ queue[r] = <<>>
             /\ state'[n] = "in_progress" /\ queue' = queue
             /\ \A q \in Prompts : active'[q] = IF q = r THEN n ELSE active[q]
             /\ \A m \in Prompts : task'[m] = IF m = n THEN "created" ELSE task[m]
             /\ \A m \in Prompts : root[m] = r => task[m] = "none"
             /\ \A m \in Prompts : root[m] = r => state[m] # "pending"
           Behind ==
             /\ active[r] # NoPrompt /\ r \in Published /\ state'[n] = "pending"
             /\ \A q \in Prompts : queue'[q] = IF q = r THEN Append(queue[q], n) ELSE queue[q]
             /\ UNCHANGED <<active, task>>
<1>9. AtOnce \/ Behind
  BY <1>0, AdmitClaims
<1>10. /\ Live(n)' /\ ~Live(n) /\ state'[n] # "absent" /\ Unfinished(n)'
       /\ \A m \in Prompts : m # n => (Live(m)' <=> Live(m)) /\ (Unfinished(m)' <=> Unfinished(m))
  BY <1>1, <1>8, <1>9 DEF Live, Unfinished
<1>11. Published \subseteq Prompts /\ \A m \in Published : m # n
  BY <1>1, RootsArePrompts
\* What was rooted before does not know the new node.
<1>12. \A m \in Prompts : root[m] # NoPrompt =>
         m # n /\ root[m] # n /\ parent[m][1] # n /\ root'[m] = root[m] /\ parent'[m] = parent[m]
  <2> SUFFICES ASSUME NEW m \in Prompts, root[m] # NoPrompt
               PROVE  m # n /\ root[m] # n /\ parent[m][1] # n
    BY <1>4
  <2>1. m # n /\ root[m] # n
    BY <1>1 DEF Rooted
  <2>2. parent[m] # NoRef => root[parent[m][1]] # NoPrompt
    BY DEF Rooted
  <2>3. parent[m] = NoRef => parent[m][1] # n
    BY RefFacts
  <2> QED BY <1>1, <2>1, <2>2, <2>3
<1>13. \A m \in Prompts : Live(m) => root[m] # NoPrompt
  BY <1>11, RefFacts DEF Graph
<1>14. \A m \in Prompts : task[m] # "none" => root[m] # NoPrompt
  BY DEF Work, Running
<1>15. TypeOK'
  BY AdmitTyped
<1>16. Waits'
  BY <1>1, <1>8 DEF Waits
<1>17. Graph'
  <2>1. \A m \in Prompts : Live(m)' => root'[m] \in Published'
    BY <1>3, <1>4, <1>10 DEF Graph
  <2>2. \A q \in Published' : Live(q)' /\ root'[q] = q
    <3>1. ASSUME NEW q \in Published PROVE Live(q)' /\ root'[q] = q
      BY <1>4, <1>10, <1>11 DEF Graph
    <3>2. r = n => Live(r)' /\ root'[r] = r
      BY <1>3, <1>4, <1>10
    <3> QED BY <1>2, <1>3, <3>1, <3>2
  <2>3. ASSUME NEW m \in Prompts, Live(m)', m = root'[m] PROVE parent'[m] = NoRef
    <3>1. CASE m = n
      BY <1>2, <1>4, <2>3, <3>1
    <3>2. CASE m # n
      BY <1>4, <1>10, <2>3, <3>2 DEF Graph
    <3> QED BY <3>1, <3>2
  <2>4. ASSUME NEW m \in Prompts, Live(m)', m # root'[m]
        PROVE  InGraph(root[m], parent[m])'
    <3>1. CASE m = n
      <4>1. root'[m] = r /\ parent'[m] = old /\ old[1] \in Prompts /\ Live(old[1]) /\ old[1] # n
            /\ root[old[1]] = r /\ (old[2] = "prompt" \/ status[old[1]])
        BY <1>2, <1>4, <2>4, <3>1
      <4>2. Live(old[1])' /\ root'[old[1]] = r /\ (old[2] = "prompt" \/ status'[old[1]])
        BY <1>4, <1>10, <4>1
      <4> QED BY <4>1, <4>2 DEF InGraph, Nodes
    <3>2. CASE m # n
      <4>1. Live(m) /\ root'[m] = root[m] /\ parent'[m] = parent[m] /\ m # root[m]
        BY <1>4, <1>10, <2>4, <3>2
      <4>2. InGraph(root[m], parent[m])
        BY <4>1 DEF Graph
      <4>0. PICK p : p = parent[m][1]
        OBVIOUS
      <4>3. p \in Prompts /\ Live(p) /\ root[p] = root[m] /\ (parent[m][2] = "prompt" \/ status[p])
        BY <4>0, <4>2 DEF InGraph, Nodes
      <4>4. p # n
        BY <1>10, <4>3
      <4>5. Live(p)' /\ root'[p] = root[m] /\ (parent[m][2] = "prompt" \/ status'[p])
        BY <1>4, <1>10, <4>3, <4>4
      <4> QED BY <4>0, <4>1, <4>3, <4>5 DEF InGraph, Nodes
    <3> QED BY <3>1, <3>2
  <2>5. \A m \in Prompts : Unfinished(m)' => status'[m]
    BY <1>4, <1>10 DEF Graph
  <2> QED BY <2>1, <2>2, <2>3, <2>4, <2>5 DEF Graph
<1>18. Rooted'
  <2>1. \A m \in Prompts : state'[m] = "absent" => root'[m] = NoPrompt
    BY <1>4, <1>8, <1>10 DEF Rooted
  <2>2. ASSUME NEW m \in Prompts, root'[m] # NoPrompt PROVE root'[root'[m]] # NoPrompt
    <3>1. CASE m = n
      <4>1. root'[m] = r
        BY <1>4, <3>1
      <4>2. r = n \/ root[r] = r
        BY <1>2 DEF Graph
      <4> QED BY <1>3, <1>4, <4>1, <4>2, RefFacts
    <3>2. CASE m # n
      <4>1. root'[m] = root[m] /\ root[m] \in Prompts /\ root[root[m]] # NoPrompt
        BY <1>4, <2>2, <3>2, NodeTypes DEF Rooted
      <4>2. PICK q \in Prompts : q = root[m]
        BY <4>1
      <4>3. root'[q] = r \/ root'[q] = root[q]
        BY <1>4
      <4>4. r # NoPrompt
        BY <1>3, RefFacts
      <4> QED BY <4>1, <4>2, <4>3, <4>4
    <3> QED BY <3>1, <3>2
  <2>3. ASSUME NEW m \in Prompts, root'[m] # NoPrompt, parent'[m] # NoRef
        PROVE  root'[parent'[m][1]] # NoPrompt
    <3>1. CASE m = n
      <4>1. parent'[m] = old /\ old[1] \in Prompts /\ root[old[1]] = r /\ old[1] # n
        BY <1>2, <1>4, <2>3, <3>1
      <4>2. root'[old[1]] = r
        BY <1>4, <4>1
      <4> QED BY <1>3, <4>1, <4>2, RefFacts
    <3>2. CASE m # n
      <4>1. root[m] # NoPrompt /\ parent[m] # NoRef /\ parent'[m] = parent[m]
        BY <1>4, <2>3, <3>2
      <4>2. parent[m][1] \in Prompts /\ root[parent[m][1]] # NoPrompt
        BY <4>1, NodeTypes, RefFacts DEF Rooted
      <4>3. PICK p \in Prompts : p = parent[m][1]
        BY <4>2
      <4>4. root'[p] # NoPrompt
        BY <1>3, <1>4, <4>2, <4>3, RefFacts
      <4> QED BY <4>1, <4>3, <4>4
    <3> QED BY <3>1, <3>2
  <2>4. ASSUME NEW S \in SUBSET Prompts, S # {}, \A m \in S : root'[m] \notin {NoPrompt, m}
        PROVE  \E m \in S : parent'[m][1] \notin S
    <3> DEFINE T == S \ {n}
    <3>1. CASE T = {}
      <4>1. S = {n}
        BY <2>4, <3>1
      <4>2. parent'[n] = old /\ r # n
        BY <1>4, <2>4, <4>1
      <4> QED BY <1>2, <4>1, <4>2
    <3>2. CASE T # {}
      <4>1. \A m \in T : root[m] \notin {NoPrompt, m}
        BY <1>4, <2>4
      <4>2. T \in SUBSET Prompts
        OBVIOUS
      <4> HIDE DEF T
      <4>3. PICK m \in T : parent[m][1] \notin T
        BY <3>2, <4>1, <4>2 DEF Rooted
      <4>4. m \in S /\ m \in Prompts /\ m # n
        BY <4>3 DEF T
      <4>5. parent[m][1] # n /\ parent'[m] = parent[m]
        BY <1>12, <4>1, <4>3, <4>4
      <4> QED BY <4>3, <4>4, <4>5 DEF T
    <3> QED BY <3>1, <3>2
  <2> QED BY <2>1, <2>2, <2>3, <2>4 DEF Rooted
<1>19. Indexed'
  <2> SUFFICES ASSUME NEW ref \in Refs
               PROVE  index'[ref] = IF Live(ref[1])' /\ (ref[2] = "prompt" \/ status'[ref[1]])
                                    THEN root'[ref[1]] ELSE NoPrompt
    BY DEF Indexed
  <2>1. ref[1] \in Prompts
    BY RefFacts
  <2>2. CASE ref[1] = n
    BY <1>4, <1>5, <1>10, <2>1, <2>2
  <2>3. CASE ref[1] # n
    <3>1. index'[ref] = index[ref]
      BY <1>5, <2>3
    <3>2. PICK m \in Prompts : m = ref[1] /\ m # n
      BY <2>1, <2>3
    <3>3. index[ref] = IF Live(m) /\ (ref[2] = "prompt" \/ status[m]) THEN root[m] ELSE NoPrompt
      BY <3>2 DEF Indexed
    <3>4. root'[m] = root[m] /\ status'[m] = status[m]
      BY <1>4, <3>2
    <3>5. Live(m)' <=> Live(m)
      BY <1>10, <3>2
    <3> QED BY <3>1, <3>2, <3>3, <3>4, <3>5
  <2> QED BY <2>2, <2>3
<1>20. Boundary'
  <2>1. stopGen' <= commands' /\ clearGen' <= commands'
    BY <1>7 DEF Boundary
  <2>2. admitted'[n] = <<stopGen, clearGen>>
    BY <1>1, <1>4 DEF CurrentToken
  <2>3. \A m \in Prompts : m # n => admitted'[m] = admitted[m]
    BY <1>4
  <2>4. CommandBoundary'
    BY <1>7, <1>10, <2>2, <2>3 DEF Boundary, CommandBoundary
  <2> QED BY <2>1, <2>4 DEF Boundary
<1>21. Operation'
  BY <1>1, <1>7 DEF Operation, Idle, NoTree
<1>22. \A q \in Prompts : q # r => Nodes(q)' = Nodes(q)
  <2> SUFFICES ASSUME NEW q \in Prompts, q # r, NEW m \in Prompts
               PROVE  root'[m] = q /\ Live(m)' <=> root[m] = q /\ Live(m)
    BY DEF Nodes
  <2> QED BY <1>4, <1>10
<1>23. Stored'
  <2>1. \A q \in Prompts : store'[q] = IF q = r THEN Snapshot(q)' ELSE store[q]
    BY <1>6
  <2>2. r \in Published'
    BY <1>3
  <2>3. \A q \in Published' : Kept(q, Snapshot(q))' /\ Consistent(q, Snapshot(q))'
    BY <1>15, <1>17, SnapshotKeptNext
  <2>4. Kept(r, store[r])' /\ Consistent(r, store[r])'
    <3>1. store'[r] = Snapshot(r)'
      BY <1>3, <2>1
    <3>2. Kept(r, Snapshot(r))' /\ Consistent(r, Snapshot(r))'
      BY <2>2, <2>3
    <3> QED BY <3>1, <3>2 DEF Kept, Consistent, Restorable, IsSnapshot
  <2>5. ASSUME NEW q \in Prompts, q # r, store'[q] # NoTree PROVE Kept(q, store[q])'
    <3> DEFINE s == store[q]
    <3>1. store'[q] = s
      BY <2>1, <2>5
    <3>2. Kept(q, s)
      BY <2>5, <3>1 DEF Stored
    <3> HIDE DEF s
    <3>3. \A m \in DOMAIN s : m \in Prompts /\ root[m] = q /\ s[m].parent = parent[m]
      BY <3>2 DEF Kept, IsSnapshot
    <3>4. \A m \in DOMAIN s : root'[m] = q /\ s[m].parent = parent'[m]
      BY <1>12, <3>3, RefFacts
    <3> QED BY <3>1, <3>2, <3>4 DEF Kept, Restorable, IsSnapshot
  <2>6. ASSUME NEW q \in Prompts, q # r
        PROVE  \/ q \in Published' /\ Consistent(q, store[q])'
               \/ (q \notin Published' \/ raised'["clear"]) /\ store'[q] = NoTree
    <3> DEFINE s == store[q]
    <3>1. store'[q] = s
      BY <2>1, <2>6
    <3>2. \/ q \in Published /\ Consistent(q, s)
          \/ (q \notin Published \/ raised["clear"]) /\ s = NoTree
      BY <1>1 DEF Stored, Undisturbed
    <3>3. IsSnapshot(s)
      BY DEF TypeOK
    <3> HIDE DEF s
    <3>4. ASSUME Consistent(q, s) PROVE Consistent(q, store[q])'
      <4>1. DOMAIN s = Nodes(q) /\ Nodes(q)' = Nodes(q)
        BY <1>22, <2>6, <3>4 DEF Consistent
      <4>2. \A m \in DOMAIN s : m \in Prompts /\ state'[m] = state[m] /\ session'[m] = session[m]
        BY <1>7, <1>8, <1>10, <4>1 DEF Nodes
      <4> QED BY <3>1, <3>4, <4>1, <4>2 DEF Consistent
    <3> QED BY <1>3, <1>7, <2>6, <3>1, <3>2, <3>4
  <2>7. op'.phase # "save"
    BY <1>1, <1>7
  <2> QED BY <2>2, <2>4, <2>5, <2>6, <2>7 DEF Stored
<1>24. Queued'
  <2> SUFFICES ASSUME NEW q \in Published'
               PROVE  /\ IsInjective(queue'[q])
                      /\ ToSet(queue'[q]) = {m \in Nodes(q)' : state'[m] = "pending"}
    BY DEF Queued
  <2>1. q \in Prompts
    BY <1>3, <1>11
  <2>2. ASSUME q # r PROVE /\ IsInjective(queue'[q])
                           /\ ToSet(queue'[q]) = {m \in Nodes(q)' : state'[m] = "pending"}
    <3>1. q \in Published /\ queue'[q] = queue[q] /\ Nodes(q)' = Nodes(q)
      BY <1>3, <1>9, <1>22, <2>1, <2>2
    <3>2. \A m \in Nodes(q) : state'[m] = state[m]
      BY <1>8, <1>10 DEF Nodes
    <3> QED BY <3>1, <3>2 DEF Work, Queued
  <2>3. ASSUME q = r, AtOnce PROVE /\ IsInjective(queue'[q])
                           /\ ToSet(queue'[q]) = {m \in Nodes(q)' : state'[m] = "pending"}
    <3>1. queue'[q] = <<>>
      BY <2>3
    <3>2. \A m \in Nodes(q)' : state'[m] # "pending"
      BY <1>4, <1>8, <2>3 DEF Nodes
    <3> QED BY <3>1, <3>2, EmptyFacts
  <2>4. ASSUME q = r, Behind PROVE /\ IsInjective(queue'[q])
                           /\ ToSet(queue'[q]) = {m \in Nodes(q)' : state'[m] = "pending"}
    <3>1. q \in Published /\ queue'[q] = Append(queue[q], n) /\ state'[n] = "pending"
      BY <2>1, <2>4
    <3>2. /\ queue[q] \in Seq(Prompts) /\ IsInjective(queue[q])
          /\ \A m : m \in ToSet(queue[q]) <=> m \in Prompts /\ root[m] = q /\ state[m] = "pending"
      BY <3>1, NextClaimFacts
    <3>3. n \notin ToSet(queue[q])
      BY <1>1, <3>2
    <3>4. IsInjective(queue'[q]) /\ ToSet(queue'[q]) = ToSet(queue[q]) \cup {n}
      BY <3>1, <3>2, <3>3, AppendFacts
    <3>5. ASSUME NEW m
          PROVE  m \in ToSet(queue'[q]) <=> m \in Nodes(q)' /\ state'[m] = "pending"
      <4>1. CASE m = n
        BY <1>4, <1>10, <2>4, <3>1, <3>4, <4>1 DEF Nodes
      <4>2. CASE m # n
        <5>1. m \in Nodes(q)' /\ state'[m] = "pending" <=>
                m \in Prompts /\ root[m] = q /\ state[m] = "pending"
          BY <1>4, <1>8, <1>10, <4>2 DEF Nodes, Live
        <5> QED BY <3>2, <3>4, <4>2, <5>1
      <4> QED BY <4>1, <4>2
    <3>6. ToSet(queue'[q]) = {m \in Nodes(q)' : state'[m] = "pending"}
      BY <3>5
    <3> QED BY <3>4, <3>6
  <2> HIDE DEF AtOnce, Behind
  <2> QED BY <1>9, <2>2, <2>3, <2>4
<1>25. Claimed'
  <2>1. ASSUME AtOnce PROVE Claimed'
    <3>1. \A q \in Published' : queue'[q] # <<>> => active'[q] # NoPrompt
      BY <1>3, <1>11, <2>1, RefFacts DEF Work, Claimed
    <3>2. ASSUME NEW q \in Published', active'[q] # NoPrompt PROVE task'[active'[q]] # "none"
      <4>1. CASE q = r
        BY <1>3, <2>1, <4>1
      <4>2. CASE q # r
        <5>1. q \in Published /\ q \in Prompts /\ active'[q] = active[q]
          BY <1>3, <1>11, <2>1, <4>2
        <5>2. active[q] \in Prompts /\ task[active[q]] # "none"
          BY <3>2, <5>1, NodeTypes DEF Work, Claimed
        <5> QED BY <2>1, <5>1, <5>2
      <4> QED BY <4>1, <4>2
    <3>3. \A q \in Prompts : q \notin Published' => active'[q] = NoPrompt
      BY <1>3, <2>1 DEF Work, Claimed
    <3>4. \A q \in Prompts : state'[q] = "absent" => queue'[q] = <<>>
      BY <1>8, <1>10, <2>1 DEF Work, Claimed
    <3>5. ASSUME NEW q \in Prompts, active'[q] # NoPrompt
          PROVE  root'[active'[q]] = q /\ state'[active'[q]] \notin {"pending", "absent"}
      <4>1. CASE q = r
        BY <1>4, <2>1, <4>1
      <4>2. CASE q # r
        <5>1. active'[q] = active[q] /\ active[q] \in Prompts
          BY <2>1, <3>5, <4>2, NodeTypes
        <5>2. root[active[q]] = q /\ state[active[q]] \notin {"pending", "absent"}
          BY <3>5, <5>1 DEF Work, Claimed
        <5> QED BY <1>1, <1>4, <1>8, <5>1, <5>2
      <4> QED BY <4>1, <4>2
    <3> QED BY <3>1, <3>2, <3>3, <3>4, <3>5 DEF Claimed
  <2>2. ASSUME Behind PROVE Claimed'
    <3>1. Published' = Published
      BY <1>3, <2>2
    <3>2. \A q \in Published : queue'[q] # <<>> => active'[q] # NoPrompt
      BY <1>11, <2>2 DEF Work, Claimed
    <3>3. \A q \in Prompts : state'[q] = "absent" => queue'[q] = <<>>
      BY <1>1, <1>8, <1>10, <2>2 DEF Work, Claimed, Graph, Live
    <3>4. ASSUME NEW q \in Prompts, active'[q] # NoPrompt
          PROVE  root'[active'[q]] = q /\ state'[active'[q]] \notin {"pending", "absent"}
      <4>1. active'[q] = active[q] /\ active[q] \in Prompts
        BY <2>2, <3>4, NodeTypes
      <4>2. root[active[q]] = q /\ state[active[q]] \notin {"pending", "absent"}
        BY <3>4, <4>1 DEF Work, Claimed
      <4> QED BY <1>1, <1>4, <1>8, <4>1, <4>2
    <3>5. \A q \in Published : active'[q] # NoPrompt => task'[active'[q]] # "none"
      BY <2>2 DEF Work, Claimed
    <3>6. \A q \in Prompts : q \notin Published => active'[q] = NoPrompt
      BY <2>2 DEF Work, Claimed
    <3> QED BY <3>1, <3>2, <3>3, <3>4, <3>5, <3>6 DEF Claimed
  <2> HIDE DEF AtOnce, Behind
  <2> QED BY <1>9, <2>1, <2>2
<1>26. Running'
  <2>1. \A m \in Prompts : task'[m] # "none" => root'[m] # NoPrompt
    <3>1. \A m \in Prompts : m # n => task'[m] = task[m]
      BY <1>9
    <3> QED BY <1>3, <1>4, <1>14, <3>1, RefFacts
  <2>2. ASSUME NEW m \in Prompts, task'[m] # "none", root'[m] \in Published'
        PROVE  active'[root'[m]] = m
    <3>1. root'[m] \in Prompts
      BY <1>3, <1>11, <2>2
    <3>2. ASSUME AtOnce PROVE active'[root'[m]] = m
      <4>1. CASE m = n
        BY <1>3, <1>4, <3>2, <4>1
      <4>2. CASE m # n
        <5>1. task[m] # "none" /\ root'[m] = root[m] /\ root[m] # r
          BY <1>4, <2>2, <3>2, <4>2
        <5>2. root[m] \in Published
          BY <1>3, <2>2, <5>1
        <5> QED BY <3>1, <3>2, <5>1, <5>2 DEF Work, Running
      <4> QED BY <4>1, <4>2
    <3>3. ASSUME Behind PROVE active'[root'[m]] = m
      <4>1. m # n /\ task[m] # "none" /\ root'[m] = root[m] /\ root[m] \in Published
        BY <1>1, <1>3, <1>4, <2>2, <3>3
      <4> QED BY <3>3, <4>1 DEF Work, Running
    <3> HIDE DEF AtOnce, Behind
    <3> QED BY <1>9, <3>2, <3>3
  <2>3. ASSUME NEW m \in Prompts, state'[m] = "in_progress" PROVE active'[root'[m]] = m
    <3>1. CASE m = n
      BY <1>3, <1>4, <1>9, <2>3, <3>1
    <3>2. CASE m # n
      <4>1. state[m] = "in_progress" /\ root'[m] = root[m]
        BY <1>4, <1>8, <2>3, <3>2
      <4>2. active[root[m]] = m /\ root[m] \in Published /\ root[m] \in Prompts
        BY <1>11, <4>1 DEF Work, Running, Graph, Live
      <4>3. AtOnce => root[m] # r
        BY <4>2, RefFacts
      <4> QED BY <1>9, <4>1, <4>2, <4>3
    <3> QED BY <3>1, <3>2
  <2>4. ASSUME NEW m \in Prompts, cancelled'[m] PROVE task'[m] # "none" /\ ~Unfinished(m)'
    <3>1. m # n /\ cancelled[m]
      BY <1>1, <1>7, <2>4
    <3>2. task'[m] = task[m]
      BY <1>9, <3>1
    <3> QED BY <1>10, <3>1, <3>2 DEF Work, Running
  <2> QED BY <2>1, <2>2, <2>3, <2>4 DEF Running
<1>27. QueuedInOrder'
  <2> SUFFICES ASSUME NEW q \in Published', NEW m \in ToSet(queue'[q]), parent'[m] # NoRef,
                      state'[parent'[m][1]] = "pending"
               PROVE  Before(queue'[q], parent'[m][1], m)
    BY DEF QueuedInOrder
  <2>1. q \in Prompts
    BY <1>3, <1>11
  <2>2. ASSUME q \in Published, m \in ToSet(queue[q]) PROVE Before(queue[q], parent'[m][1], m)
    <3>1. m \in Prompts /\ root[m] = q
      BY <2>2, NextClaimFacts
    <3>2. parent'[m] = parent[m] /\ parent[m][1] # n
      BY <1>12, <2>1, <3>1, RefFacts
    <3>3. parent[m][1] \in Prompts
      BY <3>1, <3>2, NodeTypes, RefFacts
    <3>4. state[parent[m][1]] = "pending"
      BY <1>8, <3>2, <3>3
    <3> QED BY <2>2, <3>2, <3>4 DEF Order, QueuedInOrder
  <2>3. ASSUME AtOnce PROVE Before(queue'[q], parent'[m][1], m)
    <3>1. queue' = queue
      BY <2>3
    <3>2. q # r
      BY <2>3, EmptyFacts
    <3> QED BY <1>3, <2>2, <3>1, <3>2
  <2>4. ASSUME Behind PROVE Before(queue'[q], parent'[m][1], m)
    <3>1. q \in Published
      BY <1>3, <2>4
    <3>2. CASE q # r
      BY <2>1, <2>2, <2>4, <3>1, <3>2
    <3>3. CASE q = r
      <4>1. queue'[q] = Append(queue[q], n) /\ queue[q] \in Seq(Prompts)
        BY <2>1, <2>4, <3>3, NodeTypes
      <4>2. CASE m \in ToSet(queue[q])
        BY <2>2, <3>1, <4>1, <4>2, AppendFacts
      <4>3. CASE m \notin ToSet(queue[q])
        <5>1. m = n
          BY <4>1, <4>3, AppendFacts
        <5>2. parent'[m] = old /\ old[1] \in Prompts /\ root[old[1]] = q /\ old[1] # n
          BY <1>2, <1>4, <3>3, <5>1
        <5>3. state[old[1]] = "pending"
          BY <1>8, <5>2
        <5>4. old[1] \in ToSet(queue[q])
          BY <3>1, <5>2, <5>3, NextClaimFacts
        <5> QED BY <4>1, <5>1, <5>2, <5>4, AppendFacts
      <4> QED BY <4>2, <4>3
    <3> QED BY <3>2, <3>3
  <2> HIDE DEF AtOnce, Behind
  <2> QED BY <1>9, <2>3, <2>4
<1>28. ParentsFirst'
  <2> SUFFICES ASSUME NEW m \in Prompts, task'[m] # "none", Live(m)', parent'[m] # NoRef,
                      state'[parent'[m][1]] = "pending"
               PROVE  FALSE
    BY DEF ParentsFirst
  <2>1. CASE m = n
    <3>1. AtOnce
      BY <1>1, <1>9, <2>1
    <3>2. parent'[m] = old /\ old[1] \in Prompts /\ root[old[1]] = r /\ old[1] # n
      BY <1>2, <1>4, <2>1
    <3> QED BY <1>8, <3>1, <3>2
  <2>2. CASE m # n
    <3>1. task[m] # "none" /\ Live(m) /\ parent'[m] = parent[m]
      BY <1>4, <1>9, <1>10, <2>2
    <3>2. parent[m][1] # n /\ parent[m][1] \in Prompts
      BY <1>12, <1>14, <3>1, NodeTypes, RefFacts
    <3>3. state[parent[m][1]] = "pending"
      BY <1>8, <3>1, <3>2
    <3> QED BY <3>1, <3>3 DEF Order, ParentsFirst
  <2> QED BY <2>1, <2>2
<1> QED BY <1>15, <1>16, <1>17, <1>18, <1>19, <1>20, <1>21, <1>23, <1>24, <1>25, <1>26,
           <1>27, <1>28 DEF Work, Order

-----------------------------------------------------------------------------
(***************************************************************************)
(* The clears.                                                             *)
(***************************************************************************)
LEMMA RootedKept ==
  ASSUME TypeOK, Rooted, UNCHANGED <<root, parent>>,
         \A n \in Prompts : state'[n] = "absent" => state[n] = "absent"
  PROVE  Rooted'
BY DEF Rooted

LEMMA ClearChatKeeps ==
  ASSUME Core, ClearChat PROVE Core'
<1> USE DEF Core
<1>0. PICK gone : gone = UNION {Nodes(r) : r \in Reached}
  OBVIOUS
<1>1. /\ op.phase = "idle" /\ commands' = commands + 1 /\ clearGen' = clearGen + 1
      /\ state' = [n \in Prompts |-> IF n \in gone THEN "removed" ELSE state[n]]
      /\ \A n \in Prompts : cancelled'[n] <=> cancelled[n] \/ \E r \in Reached : active[r] = n
      /\ \A r \in Prompts : queue'[r] = IF r \in Reached THEN <<>> ELSE queue[r]
      /\ trees' = Without(trees, Reached)
      /\ \A r \in Prompts : active'[r] = IF r \in Reached THEN NoPrompt ELSE active[r]
      /\ \A ref \in Refs : index'[ref] = IF index[ref] \in Reached THEN NoPrompt ELSE index[ref]
      /\ IF AllReached
          THEN Begin("clearChat", {}, Prompts) /\ UNCHANGED store
          ELSE store' = [r \in Prompts |-> NoTree] /\ UNCHANGED op
  BY <1>0 DEF ClearChat, Command, DrainQueues, Unpublish
<1>2. UNCHANGED <<turn, stopGen, root, parent, status, session, admitted, task>>
  BY DEF ClearChat, turnVars
<1>3. TypeOK'
  BY ClearChatTyped
<1>4. Reached \subseteq Published /\ Published \subseteq Prompts
  BY ReachedFacts, RootsArePrompts
<1>5. \A m \in Prompts : m \in gone <=> Live(m) /\ root[m] \in Reached
  BY <1>0 DEF Nodes
<1>6. \A m \in Prompts :
        /\ state'[m] = IF m \in gone THEN "removed" ELSE state[m]
        /\ Live(m)' <=> Live(m) /\ root[m] \notin Reached
        /\ state'[m] = "absent" <=> state[m] = "absent"
        /\ Unfinished(m)' <=> Unfinished(m) /\ root[m] \notin Reached
  BY <1>1, <1>5 DEF Live, Unfinished
<1>7. Published' = Published \ Reached
  BY <1>1, RootsArePrompts, WithoutFacts DEF Published
<1>8. Waits'
  BY <1>2, <1>6 DEF Waits
<1>9. Graph'
  <2>1. \A m \in Prompts : Live(m)' => root'[m] \in Published'
    BY <1>2, <1>6, <1>7 DEF Graph
  <2>2. \A q \in Published' : Live(q)' /\ root'[q] = q
    BY <1>2, <1>4, <1>6, <1>7 DEF Graph
  <2>3. \A m \in Prompts : Live(m)' /\ m = root'[m] => parent'[m] = NoRef
    BY <1>2, <1>6 DEF Graph
  <2>4. ASSUME NEW m \in Prompts, Live(m)', m # root'[m]
        PROVE  InGraph(root[m], parent[m])'
    <3>1. InGraph(root[m], parent[m]) /\ root[m] \notin Reached
      BY <1>2, <1>6, <2>4 DEF Graph
    <3>2. PICK p : p = parent[m][1]
      OBVIOUS
    <3>3. p \in Prompts /\ Live(p) /\ root[p] = root[m] /\ (parent[m][2] = "prompt" \/ status[p])
      BY <3>1, <3>2 DEF InGraph, Nodes
    <3>4. Live(p)'
      BY <1>6, <3>1, <3>3
    <3> QED BY <1>2, <3>2, <3>3, <3>4 DEF InGraph, Nodes
  <2>5. \A m \in Prompts : Unfinished(m)' => status'[m]
    BY <1>2, <1>6 DEF Graph
  <2> QED BY <2>1, <2>2, <2>3, <2>4, <2>5 DEF Graph
<1>10. Rooted'
  BY <1>2, <1>6, RootedKept
<1>11. Indexed'
  <2> SUFFICES ASSUME NEW ref \in Refs
               PROVE  index'[ref] = IF Live(ref[1])' /\ (ref[2] = "prompt" \/ status'[ref[1]])
                                    THEN root'[ref[1]] ELSE NoPrompt
    BY DEF Indexed
  <2>1. ref[1] \in Prompts
    BY RefFacts
  <2>2. NoPrompt \notin Reached
    BY <1>4, RefFacts
  <2> QED BY <1>1, <1>2, <1>6, <2>1, <2>2 DEF Indexed
<1>12. Retires
  <2>1. ASSUME NEW m \in Prompts, cancelled'[m] PROVE task[m] # "none" /\ ~Unfinished(m)'
    <3>1. CASE cancelled[m]
      BY <1>6, <3>1 DEF Work, Running
    <3>2. CASE ~cancelled[m]
      <4>1. PICK r \in Reached : active[r] = m
        BY <1>1, <2>1, <3>2
      <4>2. r \in Published /\ r \in Prompts /\ active[r] # NoPrompt
        BY <1>4, <4>1, RefFacts
      <4>3. task[m] # "none" /\ root[m] = r
        BY <4>1, <4>2 DEF Work, Claimed
      <4> QED BY <1>6, <4>1, <4>3
    <3> QED BY <3>1, <3>2
  <2>2. \A r \in Prompts : active'[r] = IF r \in Published' THEN active[r] ELSE NoPrompt
    BY <1>1, <1>7 DEF Work, Claimed
  <2>3. \A m \in Prompts : state[m] = "absent" => queue'[m] = <<>>
    BY <1>1 DEF Work, Claimed
  <2>4. \A m \in Prompts :
          /\ state'[m] = "in_progress" => state[m] = "in_progress" /\ root[m] \in Published'
          /\ state'[m] = "pending" => state[m] = "pending"
    BY <1>5, <1>6, <1>7 DEF Graph, Live
  <2>5. ASSUME NEW q \in Published'
        PROVE  /\ IsInjective(queue'[q])
               /\ ToSet(queue'[q]) = {m \in ToSet(queue[q]) : state'[m] = "pending"}
               /\ \A a, b \in ToSet(queue'[q]) : Before(queue[q], a, b) => Before(queue'[q], a, b)
    <3>1. q \in Published /\ q \in Prompts /\ IsInjective(queue[q]) /\ q \notin Reached
      BY <1>4, <1>7 DEF Work, Queued
    <3>2. \A m \in ToSet(queue[q]) : m \in Prompts /\ root[m] = q /\ state[m] = "pending"
      BY <3>1 DEF Queued, Work, Nodes
    <3>3. \A m \in ToSet(queue[q]) : state'[m] = "pending"
      BY <1>5, <1>6, <3>1, <3>2
    <3>4. queue'[q] = queue[q]
      BY <1>1, <3>1
    <3>5. ToSet(queue'[q]) = {m \in ToSet(queue[q]) : state'[m] = "pending"}
      BY <3>3, <3>4
    <3> QED BY <3>1, <3>4, <3>5
  <2> QED BY <1>2, <1>6, <1>7, <2>1, <2>2, <2>3, <2>4, <2>5 DEF Retires
<1>13. Work' /\ Order'
  BY <1>3, <1>12, RetiresKeeps
<1>14. raised'["stop"] = raised["stop"] /\ raised'["clear"] = ~AllReached
  BY <1>3, ClearChatOutcome DEF TypeOK
<1>15. Boundary'
  <2>1. stopGen' <= commands' /\ clearGen' <= commands'
    <3>1. stopGen \in Int /\ clearGen \in Int /\ commands \in Int
      BY BoundsAssumption DEF TypeOK
    <3> QED BY <1>1, <1>2, <3>1 DEF Boundary
  <2>2. ASSUME NEW m \in Prompts, Live(m)' PROVE raised'["clear"]
    <3>1. Live(m) /\ root[m] \notin Reached /\ root[m] \in Published
      BY <1>6, <2>2 DEF Graph
    <3> QED BY <1>14, <3>1 DEF AllReached
  <2>3. CommandBoundary'
    BY <1>2, <1>6, <1>14, <2>2 DEF Boundary, CommandBoundary
  <2> QED BY <2>1, <2>3 DEF Boundary
<1>16. Operation'
  <2>1. CASE AllReached
    <3>1. Published' = {}
      BY <1>7, <2>1 DEF AllReached
    <3> QED BY <1>1, <2>1, <3>1 DEF Operation, Begin
  <2>2. CASE ~AllReached
    BY <1>1, <2>2 DEF Operation, Idle, NoTree
  <2> QED BY <2>1, <2>2
<1>17. Stored'
  <2>1. CASE AllReached
    <3>1. op'.phase = "drain" /\ op'.drop = Prompts /\ store' = store
      BY <1>1, <2>1 DEF Begin
    <3>2. ASSUME NEW r \in Prompts, store'[r] # NoTree PROVE Kept(r, store[r])'
      <4>1. PICK s : s = store[r]
        OBVIOUS
      <4>2. Kept(r, s) /\ store'[r] = s
        BY <3>1, <3>2, <4>1 DEF Stored
      <4> QED BY <1>2, <4>2 DEF Kept, Restorable, IsSnapshot
    <3> QED BY <3>1, <3>2 DEF Stored, Undisturbed
  <2>2. CASE ~AllReached
    <3>1. op' = op /\ store' = [r \in Prompts |-> NoTree]
      BY <1>1, <2>2
    <3>2. \A r \in Prompts : store'[r] = NoTree
      BY <3>1
    <3>3. raised'["clear"]
      BY <1>14, <2>2
    <3> QED BY <1>1, <3>1, <3>2, <3>3 DEF Stored
  <2> QED BY <2>1, <2>2
<1> QED BY <1>3, <1>8, <1>9, <1>10, <1>11, <1>13, <1>15, <1>16, <1>17

LEMMA ClearReplyKeeps ==
  ASSUME Core, NEW ref \in Refs, ClearReply(ref) PROVE Core'
<1> USE DEF Core
<1>0. PICK r, refs, gone, x : /\ r = index[ref] /\ refs = Replies(ref) /\ x = ref[1]
                           /\ gone = {n \in Nodes(r) : <<n, "prompt">> \in refs}
  OBVIOUS
<1>1. /\ op.phase = "idle" /\ commands' = commands + 1 /\ Resolves(ref)
      /\ state' = [n \in Prompts |-> IF n \in gone THEN "removed"
                                    ELSE IF n = x THEN "error" ELSE state[n]]
      /\ \A n \in Prompts :
           cancelled'[n] <=> cancelled[n] \/ (n \in gone \cup {x} /\ active[r] = n)
      /\ queue' = [queue EXCEPT ![r] = Without(@, gone \cup {x})]
      /\ \A n \in Prompts : status'[n] <=> status[n] /\ n \notin gone \cup {x}
      /\ \A n \in Prompts : session'[n] <=> session[n] /\ n \notin gone \cup {x}
      /\ trees' = Without(trees, {r} \cap gone)
      /\ \A q \in Prompts : active'[q] = IF q \in {r} \cap gone THEN NoPrompt ELSE active[q]
      /\ \A other \in Refs : index'[other] =
           IF other \in refs \/ (r \in gone /\ index[other] = r) THEN NoPrompt ELSE index[other]
      /\ op' = [kind |-> "clearReply", phase |-> "drain", trees |-> {r} \ gone,
                snaps |-> NoTree, drop |-> {r} \cap gone]
      /\ UNCHANGED <<turnVars, generationVars, root, parent, admitted, task, store, file, raised>>
  BY <1>0 DEF ClearReply, Command, Unpublish, Begin
<1>2. UNCHANGED <<turn, stopGen, clearGen, root, parent, admitted, task, store, file, raised>>
  BY <1>1 DEF turnVars, generationVars
<1>3. TypeOK'
  BY ClearReplyTyped
<1>4. /\ x \in Prompts /\ Live(x) /\ root[x] = r /\ r \in Published /\ r \in Prompts
      /\ ref = <<x, "prompt">> \/ ref = <<x, "status">>
  BY <1>0, <1>1, ResolvesFacts, RefFacts
<1>5. /\ ref \in refs /\ Closed(refs)
      /\ \A other \in refs : other \in Refs /\ other[1] \in Nodes(r)
      /\ \A n \in Prompts : <<n, "status">> \in refs /\ <<n, "prompt">> \notin refs
           => ref = <<n, "status">>
      /\ <<r, "prompt">> \in refs => \A n \in Nodes(r) : <<n, "prompt">> \in refs
  <2>1. Live(ref[1]) /\ root[ref[1]] = r
    BY <1>0, <1>4
  <2> QED BY <1>0, <2>1, RepliesFacts
<1>6. \A m \in Prompts : m \in gone <=> Live(m) /\ root[m] = r /\ <<m, "prompt">> \in refs
  BY <1>0 DEF Nodes
\* Without its root nothing of the tree is left.
<1>7. r \in gone => \A m \in Prompts : Live(m) /\ root[m] = r => m \in gone
  BY <1>4, <1>5, <1>6 DEF Nodes
<1>8. \A m \in Prompts :
        /\ state'[m] = IF m \in gone THEN "removed" ELSE IF m = x THEN "error" ELSE state[m]
        /\ Live(m)' <=> Live(m) /\ m \notin gone
        /\ state'[m] = "absent" <=> state[m] = "absent"
        /\ Unfinished(m)' <=> Unfinished(m) /\ m \notin gone \cup {x}
  BY <1>1, <1>4, <1>6 DEF Live, Unfinished
<1>9. Published \subseteq Prompts /\ Published' = Published \ ({r} \cap gone)
  BY <1>1, RootsArePrompts, WithoutFacts DEF Published
<1>10. Waits'
  BY <1>2, <1>8 DEF Waits
<1>11. Graph'
  <2>1. \A m \in Prompts : Live(m)' => root'[m] \in Published'
    BY <1>2, <1>7, <1>8, <1>9 DEF Graph
  <2>2. \A q \in Published' : Live(q)' /\ root'[q] = q
    BY <1>2, <1>6, <1>8, <1>9 DEF Graph
  <2>3. \A m \in Prompts : Live(m)' /\ m = root'[m] => parent'[m] = NoRef
    BY <1>2, <1>8 DEF Graph
  <2>4. ASSUME NEW m \in Prompts, Live(m)', m # root'[m]
        PROVE  InGraph(root[m], parent[m])'
    <3>1. InGraph(root[m], parent[m]) /\ Live(m) /\ m \notin gone
      BY <1>2, <1>8, <2>4 DEF Graph
    <3>2. PICK p : p = parent[m][1]
      OBVIOUS
    <3>3. p \in Prompts /\ Live(p) /\ root[p] = root[m] /\ (parent[m][2] = "prompt" \/ status[p])
      BY <3>1, <3>2 DEF InGraph, Nodes
    <3>4. parent[m] = <<p, "prompt">> \/ (parent[m] = <<p, "status">> /\ status[p])
      <4>1. parent[m] \in Refs
        BY <3>2, <3>3, NodeTypes, RefFacts
      <4> QED BY <3>2, <3>3, <4>1, RefFacts
    <3>5. root[m] = r => parent[m] \notin refs
      BY <1>5, <1>6, <3>1 DEF Closed
    <3>6. p \notin gone
      BY <1>5, <1>6, <3>3, <3>4, <3>5 DEF Closed
    <3>7. p = x => parent[m][2] = "prompt"
      <4>1. SUFFICES ASSUME p = x, parent[m] = <<p, "status">> PROVE FALSE
        BY <3>4
      <4>2. ref # <<x, "status">>
        BY <1>4, <1>5, <3>3, <3>5, <4>1
      <4>3. <<p, "prompt">> \in refs
        BY <1>4, <1>5, <4>1, <4>2
      <4> QED BY <1>4, <1>6, <3>6, <4>1, <4>3
    <3>8. Live(p)' /\ (parent[m][2] = "prompt" \/ status'[p])
      BY <1>1, <1>8, <3>3, <3>6, <3>7
    <3> QED BY <1>2, <3>2, <3>3, <3>8 DEF InGraph, Nodes
  <2>5. \A m \in Prompts : Unfinished(m)' => status'[m]
    BY <1>1, <1>8 DEF Graph
  <2> QED BY <2>1, <2>2, <2>3, <2>4, <2>5 DEF Graph
<1>12. Rooted'
  BY <1>2, <1>8, RootedKept
<1>13. Indexed'
  <2> SUFFICES ASSUME NEW other \in Refs
               PROVE  index'[other] =
                        IF Live(other[1])' /\ (other[2] = "prompt" \/ status'[other[1]])
                        THEN root'[other[1]] ELSE NoPrompt
    BY DEF Indexed
  <2>1. PICK m \in Prompts : m = other[1]
    BY RefFacts
  <2>2. other = <<m, "prompt">> \/ other = <<m, "status">>
    BY <2>1, RefFacts
  <2>3. index[other] = IF Live(m) /\ (other[2] = "prompt" \/ status[m]) THEN root[m] ELSE NoPrompt
    BY <2>1 DEF Indexed
  <2>4. index'[other] = IF other \in refs \/ (r \in gone /\ index[other] = r)
                        THEN NoPrompt ELSE index[other]
    BY <1>1
  <2>5. CASE ~Live(m)
    BY <1>8, <2>1, <2>3, <2>4, <2>5
  <2>6. CASE Live(m) /\ root[m] # r
    <3>1. other \notin refs
      BY <1>5, <2>1, <2>6 DEF Nodes
    <3>2. m \notin gone /\ m # x
      BY <1>4, <1>6, <2>6
    <3>3. Live(m)' /\ (status'[m] <=> status[m]) /\ index[other] # r
      BY <1>1, <1>4, <1>8, <2>3, <2>6, <3>2, RefFacts
    <3>4. index'[other] = index[other] /\ root'[m] = root[m]
      BY <1>2, <2>4, <3>1, <3>3
    <3>5. (Live(m)' /\ (other[2] = "prompt" \/ status'[m]))
            <=> (Live(m) /\ (other[2] = "prompt" \/ status[m]))
      BY <2>6, <3>3
    <3> QED BY <2>1, <2>3, <3>4, <3>5
  <2>7. CASE Live(m) /\ root[m] = r /\ m \in gone
    <3>1. ~Live(m)'
      BY <1>8, <2>7
    <3>2. <<m, "prompt">> \in refs /\ (status[m] => <<m, "status">> \in refs)
      BY <1>5, <1>6, <2>7 DEF Closed
    <3>3. other \in refs \/ index[other] = NoPrompt
      BY <2>2, <2>3, <3>2
    <3> QED BY <2>1, <2>4, <3>1, <3>3
  <2>8. CASE Live(m) /\ root[m] = r /\ m \notin gone
    <3>1. Live(m)' /\ r \notin gone /\ <<m, "prompt">> \notin refs
      BY <1>6, <1>7, <1>8, <2>8
    <3>2. CASE other = <<m, "prompt">>
      BY <1>2, <2>1, <2>3, <2>4, <2>8, <3>1, <3>2
    <3>3. CASE other = <<m, "status">> /\ m = x
      <4>1. ref = other
        BY <1>4, <1>5, <3>1, <3>3
      <4>2. ~status'[m]
        BY <1>1, <3>3
      <4>3. other \in refs
        BY <1>5, <4>1
      <4>4. index'[other] = NoPrompt
        BY <2>4, <4>3
      <4>5. other[2] # "prompt"
        BY <3>3
      <4> QED BY <2>1, <4>2, <4>4, <4>5
    <3>4. CASE other = <<m, "status">> /\ m # x
      <4>1. other \notin refs
        BY <1>4, <1>5, <3>1, <3>4
      <4>2. status'[m] <=> status[m]
        BY <1>1, <2>8, <3>4
      <4> QED BY <1>2, <2>1, <2>3, <2>4, <2>8, <3>1, <3>4, <4>1, <4>2
    <3> QED BY <2>2, <3>2, <3>3, <3>4
  <2> QED BY <2>5, <2>6, <2>7, <2>8
<1>14. Retires
  <2>1. ASSUME NEW m \in Prompts, cancelled'[m] PROVE task[m] # "none" /\ ~Unfinished(m)'
    <3>1. CASE cancelled[m]
      BY <1>8, <3>1 DEF Work, Running
    <3>2. CASE ~cancelled[m]
      <4>1. m \in gone \cup {x} /\ active[r] = m
        BY <1>1, <2>1, <3>2
      <4>2. task[m] # "none"
        BY <1>4, <4>1, RefFacts DEF Work, Claimed
      <4> QED BY <1>8, <4>1, <4>2
    <3> QED BY <3>1, <3>2
  <2>2. \A q \in Prompts : active'[q] = IF q \in Published' THEN active[q] ELSE NoPrompt
    BY <1>1, <1>9 DEF Work, Claimed
  <2>3. \A q \in Prompts : queue'[q] = IF q = r THEN Without(queue[q], gone \cup {x}) ELSE queue[q]
    BY <1>1 DEF TypeOK
  <2>4. \A m \in Prompts : state[m] = "absent" => queue'[m] = <<>>
    <3>1. state[r] # "absent"
      BY <1>4 DEF Graph, Live
    <3> QED BY <2>3, <3>1 DEF Work, Claimed
  <2>5. \A m \in Prompts :
          /\ state'[m] = "in_progress" => state[m] = "in_progress" /\ root[m] \in Published'
          /\ state'[m] = "pending" <=> state[m] = "pending" /\ m \notin gone \cup {x}
    <3>1. \A m \in Prompts : Live(m)' => root[m] \in Published'
      BY <1>2, <1>11 DEF Graph
    <3> QED BY <1>8, <3>1 DEF Live
  <2>6. ASSUME NEW q \in Published'
        PROVE  /\ IsInjective(queue'[q])
               /\ ToSet(queue'[q]) = {m \in ToSet(queue[q]) : state'[m] = "pending"}
               /\ \A a, b \in ToSet(queue'[q]) : Before(queue[q], a, b) => Before(queue'[q], a, b)
    <3>1. q \in Published /\ q \in Prompts
      BY <1>9
    <3>2. /\ queue[q] \in Seq(Prompts) /\ IsInjective(queue[q])
          /\ \A m \in ToSet(queue[q]) : m \in Prompts /\ root[m] = q /\ state[m] = "pending"
      BY <3>1, NextClaimFacts
    <3>3. CASE q = r
      <4>1. queue'[q] = Without(queue[q], gone \cup {x})
        BY <2>3, <3>1, <3>3
      <4>2. /\ IsInjective(queue'[q]) /\ ToSet(queue'[q]) = ToSet(queue[q]) \ (gone \cup {x})
            /\ \A a, b : a \notin gone \cup {x} /\ b \notin gone \cup {x}
                           /\ Before(queue[q], a, b) => Before(queue'[q], a, b)
        BY <3>2, <4>1, WithoutFacts
      <4>3. ToSet(queue'[q]) = {m \in ToSet(queue[q]) : state'[m] = "pending"}
        BY <2>5, <3>2, <4>2
      <4> QED BY <4>2, <4>3
    <3>4. CASE q # r
      <4>1. queue'[q] = queue[q]
        BY <2>3, <3>1, <3>4
      <4>2. \A m \in ToSet(queue[q]) : state'[m] = "pending"
        BY <1>4, <1>6, <2>5, <3>2, <3>4
      <4>3. ToSet(queue'[q]) = {m \in ToSet(queue[q]) : state'[m] = "pending"}
        BY <4>1, <4>2
      <4> QED BY <3>2, <4>1, <4>3
    <3> QED BY <3>3, <3>4
  <2> QED BY <1>2, <1>8, <1>9, <2>1, <2>2, <2>4, <2>5, <2>6 DEF Retires
<1>15. Work' /\ Order'
  BY <1>3, <1>14, RetiresKeeps
<1>16. Boundary'
  BY <1>1, <1>2, <1>8, BoundaryKept
<1>17. Operation'
  BY <1>1, <1>4, <1>9 DEF Operation
<1>18. Stored'
  <2>1. op'.phase = "drain" /\ op'.trees \cup op'.drop = {r}
    BY <1>1
  <2>2. ASSUME NEW q \in Prompts, store'[q] # NoTree PROVE Kept(q, store[q])'
    <3>1. PICK s : s = store[q]
      OBVIOUS
    <3>2. Kept(q, s) /\ store'[q] = s
      BY <1>2, <2>2, <3>1 DEF Stored
    <3> QED BY <1>2, <3>2 DEF Kept, Restorable, IsSnapshot
  <2>3. ASSUME NEW q \in Prompts, Undisturbed(q)'
        PROVE  \/ q \in Published' /\ Consistent(q, store[q])'
               \/ (q \notin Published' \/ raised'["clear"]) /\ store'[q] = NoTree
    <3>1. q # r
      BY <2>1, <2>3 DEF Undisturbed
    <3>2. PICK s : s = store[q]
      OBVIOUS
    <3>3. \/ q \in Published /\ Consistent(q, s)
          \/ (q \notin Published \/ raised["clear"]) /\ s = NoTree
      BY <1>1, <3>2 DEF Stored, Undisturbed
    <3>4. store'[q] = s /\ (q \in Published' <=> q \in Published) /\ raised' = raised
      BY <1>2, <1>9, <3>1, <3>2
    <3>5. \A m \in Nodes(q) : /\ m \in Prompts /\ root[m] = q /\ m \notin gone /\ m # x
      BY <1>4, <1>6, <3>1 DEF Nodes
    <3>6. ASSUME Consistent(q, s) PROVE Consistent(q, store[q])'
      <4>1. \A m \in Nodes(q) : state'[m] = state[m] /\ (session'[m] <=> session[m])
        BY <1>1, <1>8, <3>5
      <4>2. Nodes(q)' = Nodes(q)
        <5>1. \A m \in Prompts : root'[m] = q /\ Live(m)' <=> root[m] = q /\ Live(m)
          <6> SUFFICES ASSUME NEW m \in Prompts
                       PROVE  root'[m] = q /\ Live(m)' <=> root[m] = q /\ Live(m)
            OBVIOUS
          <6>1. root'[m] = root[m]
            BY <1>2
          <6>2. root[m] = q => m \notin gone
            BY <1>6, <3>1
          <6>3. Live(m)' <=> Live(m) /\ m \notin gone
            BY <1>8
          <6> QED BY <6>1, <6>2, <6>3
        <5> QED BY <5>1 DEF Nodes
      <4> QED BY <3>4, <3>6, <4>1, <4>2 DEF Consistent
    <3> QED BY <3>3, <3>4, <3>6
  <2> QED BY <2>1, <2>2, <2>3 DEF Stored
<1> QED BY <1>3, <1>10, <1>11, <1>12, <1>13, <1>15, <1>16, <1>17, <1>18

-----------------------------------------------------------------------------
(***************************************************************************)
(* The restart.                                                            *)
(***************************************************************************)
\* The trees that a restart finds, and their nodes.
Found == {r \in Prompts : file[r] # NoTree /\ Restorable(r, file[r])}
FoundNodes == UNION {DOMAIN file[r] : r \in Found}
FoundIn(n) == CHOOSE r \in Found : n \in DOMAIN file[r]

LEMMA RestartAssigns ==
  ASSUME Restart
  PROVE  /\ commands < MaxCommands /\ commands' = commands + 1
         /\ \E order \in [1..Cardinality(Found) -> Found] :
              IsInjective(order) /\ ToSet(order) = Found /\ trees' = order
         /\ root' = [n \in Prompts |-> IF n \in FoundNodes THEN FoundIn(n) ELSE NoPrompt]
         /\ state' = [n \in Prompts |->
              IF n \in FoundNodes THEN RestoredState(file[FoundIn(n)][n].state)
              ELSE IF state[n] = "removed" THEN "removed" ELSE "absent"]
         /\ parent' = [n \in Prompts |->
              IF n \in FoundNodes THEN file[FoundIn(n)][n].parent ELSE NoRef]
         /\ status' = [n \in Prompts |-> n \in FoundNodes /\ file[FoundIn(n)][n].status]
         /\ session' = [n \in Prompts |-> n \in FoundNodes /\ file[FoundIn(n)][n].session]
         /\ index' = [ref \in Refs |->
              IF ref[1] \in FoundNodes
                   /\ (ref[2] = "prompt" \/ file[FoundIn(ref[1])][ref[1]].status)
              THEN FoundIn(ref[1]) ELSE NoPrompt]
         /\ store' = [r \in Prompts |-> IF r \in Found THEN Normalized(file[r]) ELSE NoTree]
         /\ file' = file
BY DEF Restart, Found, FoundNodes, FoundIn

LEMMA RestartResets ==
  ASSUME Restart
  PROVE  /\ turn' = [n \in Prompts |-> "none"]
         /\ token' = [n \in Prompts |-> <<0, 0>>]
         /\ replyTo' = [n \in Prompts |-> NoRef]
         /\ stopGen' = 0 /\ clearGen' = 0
         /\ queue' = [r \in Prompts |-> <<>>]
         /\ active' = [r \in Prompts |-> NoPrompt]
         /\ cancelled' = [n \in Prompts |-> FALSE]
         /\ task' = [n \in Prompts |-> "none"]
         /\ op' = Idle
         /\ raised' = [k \in {"stop", "clear", "write"} |-> FALSE]
         /\ admitted' = [n \in Prompts |-> <<0, 0>>]
BY DEF Restart

\* Every tree in the file is found, and each of its nodes comes back where it was.
LEMMA FoundFacts ==
  ASSUME TypeOK, Filed
  PROVE  /\ \A r \in Prompts : r \in Found <=> file[r] # NoTree
         /\ Found \subseteq Prompts /\ FoundNodes \subseteq Prompts
         /\ \A r \in Found : Kept(r, file[r])
         /\ \A r \in Found : \A n \in DOMAIN file[r] :
              n \in FoundNodes /\ FoundIn(n) = r /\ file[r][n] \in NodeSnapshots
         /\ \A n \in FoundNodes : FoundIn(n) \in Found /\ n \in DOMAIN file[FoundIn(n)]
<1>1. \A r \in Prompts : r \in Found <=> file[r] # NoTree
  BY DEF Filed, Kept, Found
<1>2. Found \subseteq Prompts
  BY DEF Found
<1>3. \A r \in Found : Kept(r, file[r])
  BY <1>1, <1>2 DEF Filed
<1>4. \A r \in Found : \A n \in DOMAIN file[r] :
        root[n] = r /\ n \in Prompts /\ file[r][n] \in NodeSnapshots
  BY <1>3 DEF Kept, IsSnapshot
<1>5. \A n \in FoundNodes : \E r \in Found : n \in DOMAIN file[r]
  BY DEF FoundNodes
<1>6. \A n \in FoundNodes : FoundIn(n) \in Found /\ n \in DOMAIN file[FoundIn(n)]
  BY <1>5 DEF FoundIn
<1>7. FoundNodes \subseteq Prompts
  BY <1>4, <1>5
<1>8. ASSUME NEW r \in Found, NEW n \in DOMAIN file[r]
      PROVE  n \in FoundNodes /\ FoundIn(n) = r
  <2>1. n \in FoundNodes
    BY DEF FoundNodes
  <2>2. root[n] = FoundIn(n)
    BY <1>4, <1>6, <2>1
  <2> QED BY <1>4, <2>1, <2>2
<1> QED BY <1>1, <1>2, <1>3, <1>4, <1>6, <1>7, <1>8

\* What the nodes of the new process are.
LEMMA RestartFacts ==
  ASSUME TypeOK, Filed, Restart
  PROVE  /\ Published' = Found
         /\ \A r \in Found : \A n \in DOMAIN file[r] :
              /\ root'[n] = r /\ root'[n] = root[n]
              /\ parent'[n] = file[r][n].parent /\ parent'[n] = parent[n]
              /\ status'[n] = file[r][n].status
              /\ session'[n] = file[r][n].session
              /\ state'[n] = RestoredState(file[r][n].state)
              /\ state'[n] \in {"completed", "error"}
         /\ \A n \in Prompts : n \notin FoundNodes =>
              /\ root'[n] = NoPrompt /\ parent'[n] = NoRef
              /\ state'[n] = IF state[n] = "removed" THEN "removed" ELSE "absent"
<1>1. Published' = Found
  BY RestartAssigns DEF Published
<1>2. ASSUME NEW r \in Found, NEW n \in DOMAIN file[r]
      PROVE  /\ root'[n] = r /\ root'[n] = root[n]
             /\ parent'[n] = file[r][n].parent /\ parent'[n] = parent[n]
             /\ status'[n] = file[r][n].status
             /\ session'[n] = file[r][n].session
             /\ state'[n] = RestoredState(file[r][n].state)
             /\ state'[n] \in {"completed", "error"}
  <2>1. /\ n \in Prompts /\ n \in FoundNodes /\ FoundIn(n) = r
        /\ file[r][n] \in NodeSnapshots /\ Kept(r, file[r])
    BY FoundFacts
  <2>2. root[n] = r /\ file[r][n].parent = parent[n]
    BY <2>1 DEF Kept
  <2>3. root'[n] = r /\ parent'[n] = file[r][n].parent
    BY <2>1, RestartAssigns
  <2>4. status'[n] = file[r][n].status
    <3>1. status'[n] = (n \in FoundNodes /\ file[FoundIn(n)][n].status)
      BY <2>1, RestartAssigns
    <3>2. file[r][n].status \in BOOLEAN
      BY <2>1 DEF NodeSnapshots
    <3> QED BY <2>1, <3>1, <3>2
  <2>5. session'[n] = file[r][n].session
    <3>1. session'[n] = (n \in FoundNodes /\ file[FoundIn(n)][n].session)
      BY <2>1, RestartAssigns
    <3>2. file[r][n].session \in BOOLEAN
      BY <2>1 DEF NodeSnapshots
    <3> QED BY <2>1, <3>1, <3>2
  <2>6. state'[n] = RestoredState(file[r][n].state)
    BY <2>1, RestartAssigns
  <2>7. state'[n] \in {"completed", "error"}
    BY <2>1, <2>6 DEF RestoredState, NodeSnapshots
  <2> QED BY <2>2, <2>3, <2>4, <2>5, <2>6, <2>7
<1>3. ASSUME NEW n \in Prompts, n \notin FoundNodes
      PROVE  /\ root'[n] = NoPrompt /\ parent'[n] = NoRef
             /\ state'[n] = IF state[n] = "removed" THEN "removed" ELSE "absent"
  BY <1>3, RestartAssigns
<1> QED BY <1>1, <1>2, <1>3

LEMMA NormalizedFacts ==
  ASSUME NEW s, IsSnapshot(s)
  PROVE  /\ IsSnapshot(Normalized(s)) /\ DOMAIN Normalized(s) = DOMAIN s
         /\ \A n \in DOMAIN s :
              /\ Normalized(s)[n].state = RestoredState(s[n].state)
              /\ Normalized(s)[n].parent = s[n].parent
              /\ Normalized(s)[n].status = s[n].status
              /\ Normalized(s)[n].session = s[n].session
         /\ \A r : Restorable(r, s) => Restorable(r, Normalized(s))
<1>1. DOMAIN Normalized(s) = DOMAIN s
  BY DEF Normalized
<1>2. ASSUME NEW n \in DOMAIN s
      PROVE  /\ Normalized(s)[n].state = RestoredState(s[n].state)
             /\ Normalized(s)[n].parent = s[n].parent
             /\ Normalized(s)[n].status = s[n].status
             /\ Normalized(s)[n].session = s[n].session
             /\ Normalized(s)[n] \in NodeSnapshots
             /\ Normalized(s)[n].state \notin {"pending", "in_progress"}
  <2>1. s[n] \in NodeSnapshots
    BY DEF IsSnapshot
  <2>2. Normalized(s)[n] = [s[n] EXCEPT !.state = RestoredState(@)]
    BY DEF Normalized
  <2>3. RestoredState(s[n].state) \in {"completed", "error"}
    BY <2>1 DEF NodeSnapshots, RestoredState
  <2> QED BY <2>1, <2>2, <2>3 DEF NodeSnapshots
<1>3. IsSnapshot(Normalized(s))
  BY <1>1, <1>2 DEF IsSnapshot, Normalized
<1>4. ASSUME NEW r, Restorable(r, s) PROVE Restorable(r, Normalized(s))
  <2>1. r \in DOMAIN Normalized(s) /\ Normalized(s)[r].parent = NoRef
    BY <1>1, <1>2, <1>4 DEF Restorable
  <2>2. ASSUME NEW n \in DOMAIN Normalized(s), n # r
        PROVE  /\ Normalized(s)[n].parent[1] \in DOMAIN Normalized(s)
               /\ Normalized(s)[n].parent[2] = "status" =>
                    Normalized(s)[Normalized(s)[n].parent[1]].status
    <3>1. n \in DOMAIN s /\ Normalized(s)[n].parent = s[n].parent
      BY <1>1, <1>2
    <3>2. /\ s[n].parent[1] \in DOMAIN s
          /\ s[n].parent[2] = "status" => s[s[n].parent[1]].status
      BY <1>4, <2>2, <3>1 DEF Restorable
    <3>3. Normalized(s)[s[n].parent[1]].status = s[s[n].parent[1]].status
      BY <1>2, <3>2
    <3> QED BY <1>1, <3>1, <3>2, <3>3
  <2>3. \A n \in DOMAIN Normalized(s) :
          Normalized(s)[n].state \in {"pending", "in_progress"} => Normalized(s)[n].status
    BY <1>1, <1>2
  <2> QED BY <2>1, <2>2, <2>3 DEF Restorable
<1> QED BY <1>1, <1>2, <1>3, <1>4

LEMMA RestartTyped ==
  ASSUME TypeOK, Filed, Restart PROVE TypeOK'
<1>1. /\ turn' \in [Prompts -> {"none", "waiting"}]
      /\ token' \in [Prompts -> (0..MaxCommands) \X (0..MaxCommands)]
      /\ replyTo' \in [Prompts -> Refs \cup {NoRef}]
      /\ stopGen' \in 0..MaxCommands /\ clearGen' \in 0..MaxCommands
      /\ active' \in [Prompts -> Prompts \cup {NoPrompt}]
      /\ cancelled' \in [Prompts -> BOOLEAN]
      /\ task' \in [Prompts -> {"none", "created", "running"}]
      /\ admitted' \in [Prompts -> (0..MaxCommands) \X (0..MaxCommands)]
  <2>1. 0 \in 0..MaxCommands /\ <<0, 0>> \in (0..MaxCommands) \X (0..MaxCommands)
    BY BoundsAssumption
  <2> QED BY <2>1, RestartResets
<1>2. commands' \in 0..MaxCommands
  BY RestartAssigns, BoundsAssumption DEF TypeOK
<1>3. trees' \in Seq(Prompts) /\ IsInjective(trees')
  <2>1. PICK order \in [1..Cardinality(Found) -> Found] : IsInjective(order) /\ trees' = order
    BY RestartAssigns
  <2>2. Cardinality(Found) \in Nat
    BY FoundFacts, BoundsAssumption, FS_Subset, FS_CardinalityType
  <2>3. order \in Seq(Found)
    BY <2>2, SeqDef
  <2>4. order \in Seq(Prompts)
    BY <2>3, FoundFacts
  <2> QED BY <2>1, <2>4
<1>4. root' \in [Prompts -> Prompts \cup {NoPrompt}]
  BY FoundFacts, RestartAssigns
<1>5. index' \in [Refs -> Prompts \cup {NoPrompt}]
  BY FoundFacts, RestartAssigns
<1>6. \A n \in FoundNodes : file[FoundIn(n)][n] \in NodeSnapshots
  BY FoundFacts
<1>7. state' \in [Prompts ->
        {"absent", "pending", "in_progress", "completed", "error", "removed"}]
  <2>1. \A n \in FoundNodes : RestoredState(file[FoundIn(n)][n].state) \in {"completed", "error"}
    BY <1>6 DEF NodeSnapshots, RestoredState
  <2> QED BY <2>1, RestartAssigns
<1>8. parent' \in [Prompts -> Refs \cup {NoRef}]
  <2>1. \A n \in FoundNodes : file[FoundIn(n)][n].parent \in Refs \cup {NoRef}
    BY <1>6 DEF NodeSnapshots
  <2> QED BY <2>1, RestartAssigns
<1>9. status' \in [Prompts -> BOOLEAN]
  BY RestartAssigns
<1>10. session' \in [Prompts -> BOOLEAN]
  BY RestartAssigns
<1>11. queue' \in [Prompts -> Seq(Prompts)]
  BY RestartResets, EmptyFacts
<1>12. \A r \in Prompts : IsSnapshot(store'[r]) /\ IsSnapshot(file'[r])
  <2>1. IsSnapshot(NoTree)
    BY DEF IsSnapshot, NoTree
  <2>2. \A r \in Prompts : store'[r] = IF r \in Found THEN Normalized(file[r]) ELSE NoTree
    BY RestartAssigns
  <2>3. \A r \in Prompts : IsSnapshot(Normalized(file[r]))
    BY NormalizedFacts DEF TypeOK
  <2>4. \A r \in Prompts : IsSnapshot(file'[r])
    BY RestartAssigns DEF TypeOK
  <2> QED BY <2>1, <2>2, <2>3, <2>4
<1>13. /\ op'.phase = "idle" /\ op'.kind = "none" /\ op'.trees = {} /\ op'.drop = {}
  BY RestartResets DEF Idle
<1>14. raised' \in [{"stop", "clear", "write"} -> BOOLEAN]
  BY RestartResets
<1> QED BY <1>1, <1>2, <1>3, <1>4, <1>5, <1>7, <1>8, <1>9, <1>10, <1>11, <1>12, <1>13, <1>14
        DEF TypeOK

LEMMA RestartKeeps ==
  ASSUME Inductive, Restart PROVE Core'
<1> USE DEF Inductive, Core
<1>1. TypeOK'
  BY RestartTyped
<1>2. PICK old, found, nodes : old = file /\ found = Found /\ nodes = FoundNodes
  OBVIOUS
<1>3. /\ found \subseteq Prompts /\ nodes \subseteq Prompts
      /\ \A r \in found : /\ old[r] # NoTree /\ IsSnapshot(old[r]) /\ Restorable(r, old[r])
                          /\ \A n \in DOMAIN old[r] : n \in nodes
      /\ \A n \in nodes : \E r \in found : n \in DOMAIN old[r]
  <2>1. \A n \in FoundNodes : FoundIn(n) \in Found /\ n \in DOMAIN file[FoundIn(n)]
    BY FoundFacts
  <2>2. \A r \in Found : IsSnapshot(file[r]) /\ Restorable(r, file[r]) /\ file[r] # NoTree
    BY FoundFacts DEF Kept
  <2> QED BY <1>2, <2>1, <2>2, FoundFacts
<1>4. /\ Published' = found
      /\ \A r \in found : \A n \in DOMAIN old[r] :
              /\ root'[n] = r /\ root'[n] = root[n]
              /\ parent'[n] = old[r][n].parent /\ parent'[n] = parent[n]
              /\ status'[n] = old[r][n].status
              /\ session'[n] = old[r][n].session
              /\ state'[n] = RestoredState(old[r][n].state)
              /\ state'[n] \in {"completed", "error"}
      /\ \A n \in Prompts : n \notin nodes =>
              /\ root'[n] = NoPrompt /\ parent'[n] = NoRef
              /\ state'[n] = IF state[n] = "removed" THEN "removed" ELSE "absent"
  BY <1>2, RestartFacts
<1>5. /\ turn' = [n \in Prompts |-> "none"] /\ queue' = [r \in Prompts |-> <<>>]
      /\ active' = [r \in Prompts |-> NoPrompt] /\ cancelled' = [n \in Prompts |-> FALSE]
      /\ task' = [n \in Prompts |-> "none"] /\ op' = Idle
      /\ raised' = [k \in {"stop", "clear", "write"} |-> FALSE]
      /\ stopGen' = 0 /\ clearGen' = 0 /\ admitted' = [n \in Prompts |-> <<0, 0>>]
  BY RestartResets
<1>6. \A n \in Prompts : (Live(n)' <=> n \in nodes) /\ ~Unfinished(n)'
  <2>1. ASSUME NEW n \in nodes PROVE state'[n] \in {"completed", "error"}
    BY <1>3, <1>4
  <2>2. \A n \in Prompts : n \notin nodes => state'[n] \in {"absent", "removed"}
    BY <1>4
  <2> QED BY <2>1, <2>2 DEF Live, Unfinished
<1>7. Waits'
  BY <1>5 DEF Waits
<1>8. \A r \in found : Nodes(r)' = DOMAIN old[r]
  <2>1. ASSUME NEW r \in found, NEW n \in Prompts
        PROVE  root'[n] = r /\ Live(n)' <=> n \in DOMAIN old[r]
    <3>1. n \in DOMAIN old[r] => root'[n] = r /\ n \in nodes
      BY <1>3, <1>4
    <3>2. n \in nodes /\ root'[n] = r => n \in DOMAIN old[r]
      BY <1>3, <1>4
    <3> QED BY <1>6, <3>1, <3>2
  <2>2. \A r \in found : DOMAIN old[r] \subseteq Prompts
    BY <1>3 DEF IsSnapshot
  <2> QED BY <2>1, <2>2 DEF Nodes
<1>9. Graph'
  <2>1. \A n \in Prompts : Live(n)' => root'[n] \in Published'
    BY <1>3, <1>4, <1>6
  <2>2. \A r \in Published' : Live(r)' /\ root'[r] = r
    <3>1. ASSUME NEW r \in found PROVE r \in DOMAIN old[r] /\ r \in Prompts
      BY <1>3 DEF Restorable
    <3> QED BY <1>3, <1>4, <1>6, <3>1
  <2>3. ASSUME NEW n \in Prompts, Live(n)'
        PROVE  /\ n = root'[n] => parent'[n] = NoRef
               /\ n # root'[n] => InGraph(root[n], parent[n])'
    <3>1. PICK r \in found : n \in DOMAIN old[r]
      BY <1>3, <1>6, <2>3
    <3>2. Restorable(r, old[r]) /\ root'[n] = r /\ parent'[n] = old[r][n].parent
      BY <1>3, <1>4, <3>1
    <3>3. n = r => parent'[n] = NoRef
      BY <3>2 DEF Restorable
    <3>4. ASSUME n # r PROVE InGraph(root[n], parent[n])'
      <4>1. PICK p, kind : p = old[r][n].parent[1] /\ kind = old[r][n].parent[2]
        OBVIOUS
      <4>2. p \in DOMAIN old[r] /\ (kind = "status" => old[r][p].status)
        BY <3>1, <3>2, <3>4, <4>1 DEF Restorable
      <4>3. old[r][n].parent \in Refs \cup {NoRef} /\ p \in Prompts
        BY <1>3, <3>1, <4>2 DEF IsSnapshot, NodeSnapshots
      <4>4. old[r][n].parent # NoRef
        BY <4>1, <4>3, RefFacts DEF NoRef
      <4>5. kind = "prompt" \/ kind = "status"
        BY <4>1, <4>3, <4>4, RefFacts
      <4>6. status'[p] = old[r][p].status
        BY <1>4, <4>2
      <4>7. p \in Nodes(r)'
        BY <1>8, <4>2
      <4>8. parent'[n][1] = p /\ parent'[n][2] = kind
        BY <3>2, <4>1
      <4>9. root'[n] = r
        BY <3>2
      <4> QED BY <4>2, <4>5, <4>6, <4>7, <4>8, <4>9 DEF InGraph, Nodes
    <3> QED BY <3>2, <3>3, <3>4
  <2> QED BY <1>6, <2>1, <2>2, <2>3 DEF Graph
<1>10. Rooted'
  <2>1. \A n \in Prompts : state'[n] = "absent" => root'[n] = NoPrompt
    BY <1>4, <1>6 DEF Live
  <2>2. \A r \in found : root'[r] # NoPrompt
    <3>1. ASSUME NEW r \in found PROVE r \in DOMAIN old[r] /\ r \in Prompts
      BY <1>3 DEF Restorable
    <3> QED BY <1>4, <3>1, RefFacts
  <2>3. \A n \in Prompts : root'[n] # NoPrompt => n \in nodes /\ root'[n] \in found
    BY <1>3, <1>4
  <2>4. ASSUME NEW n \in Prompts, root'[n] # NoPrompt, parent'[n] # NoRef
        PROVE  root'[parent'[n][1]] # NoPrompt
    <3>1. PICK r \in found : n \in DOMAIN old[r]
      BY <1>3, <2>3, <2>4
    <3>2. Restorable(r, old[r]) /\ parent'[n] = old[r][n].parent
      BY <1>3, <1>4, <3>1
    <3>3. parent'[n][1] \in DOMAIN old[r]
      BY <2>4, <3>1, <3>2 DEF Restorable
    <3>4. root'[parent'[n][1]] = r /\ r \in Prompts
      BY <1>3, <1>4, <3>3
    <3> QED BY <3>4, RefFacts
  <2>5. ASSUME NEW S \in SUBSET Prompts, S # {}, \A n \in S : root'[n] \notin {NoPrompt, n}
        PROVE  \E n \in S : parent'[n][1] \notin S
    <3>1. \A n \in S : root[n] = root'[n] /\ parent[n] = parent'[n]
      BY <1>3, <1>4, <2>3, <2>5
    <3>2. \E n \in S : parent[n][1] \notin S
      BY <2>5, <3>1 DEF Rooted
    <3> QED BY <3>1, <3>2
  <2> QED BY <2>1, <2>2, <2>3, <2>4, <2>5 DEF Rooted
<1>11. Work'
  <2>1. ASSUME NEW r \in Published'
        PROVE  queue'[r] = <<>> /\ active'[r] = NoPrompt
               /\ {n \in Nodes(r)' : state'[n] = "pending"} = {}
    BY <1>3, <1>4, <1>5, <1>6 DEF Nodes, Unfinished
  <2>2. Queued'
    BY <2>1, EmptyFacts DEF Queued
  <2>3. Claimed'
    BY <1>5, <2>1 DEF Claimed
  <2>4. Running'
    BY <1>5, <1>6 DEF Running, Unfinished
  <2> QED BY <2>2, <2>3, <2>4 DEF Work
<1>12. Order'
  <2>1. \A r \in Published' : ToSet(queue'[r]) = {}
    BY <1>3, <1>4, <1>5, EmptyFacts
  <2>2. QueuedInOrder' /\ ParentsFirst'
    BY <1>5, <2>1 DEF QueuedInOrder, ParentsFirst
  <2> QED BY <2>2 DEF Order
<1>13. Boundary'
  <2>1. commands' \in Nat
    BY <1>1, BoundsAssumption DEF TypeOK
  <2> QED BY <1>5, <1>6, <2>1 DEF Boundary, CommandBoundary
<1>14. Operation'
  BY <1>5 DEF Operation, Idle
<1>15. Indexed'
  <2> SUFFICES ASSUME NEW ref \in Refs
               PROVE  index'[ref] = IF Live(ref[1])' /\ (ref[2] = "prompt" \/ status'[ref[1]])
                                    THEN root'[ref[1]] ELSE NoPrompt
    BY DEF Indexed
  <2>1. PICK n \in Prompts : n = ref[1]
    BY RefFacts
  <2>2. CASE n \in nodes
    <3>1. PICK r \in found : n \in DOMAIN old[r]
      BY <1>3, <2>2
    <3>2. FoundIn(n) = r /\ n \in FoundNodes
      BY <1>2, <3>1, FoundFacts
    <3>3. index'[ref] = IF ref[2] = "prompt" \/ old[r][n].status THEN r ELSE NoPrompt
      BY <1>2, <2>1, <3>2, RestartAssigns
    <3>4. root'[n] = r /\ status'[n] = old[r][n].status
      BY <1>4, <3>1
    <3> QED BY <1>6, <2>1, <2>2, <3>3, <3>4
  <2>3. CASE n \notin nodes
    <3>1. index'[ref] = NoPrompt
      BY <1>2, <2>1, <2>3, RestartAssigns
    <3> QED BY <1>6, <2>1, <2>3, <3>1
  <2> QED BY <2>2, <2>3
<1>16. Stored'
  <2>1. \A r \in Prompts : store'[r] = IF r \in found THEN Normalized(old[r]) ELSE NoTree
    BY <1>2, RestartAssigns
  <2>2. ASSUME NEW r \in found PROVE Kept(r, store[r])' /\ Consistent(r, store[r])'
    <3>1. PICK s : s = Normalized(old[r])
      OBVIOUS
    <3>2. /\ IsSnapshot(s) /\ DOMAIN s = DOMAIN old[r] /\ Restorable(r, s)
          /\ \A n \in DOMAIN s :
               /\ s[n].state = RestoredState(old[r][n].state)
               /\ s[n].parent = old[r][n].parent /\ s[n].session = old[r][n].session
      BY <1>3, <3>1, NormalizedFacts
    <3>3. store'[r] = s
      BY <1>3, <2>1, <3>1
    <3>4. \A n \in DOMAIN s : /\ root'[n] = r /\ s[n].parent = parent'[n]
                              /\ s[n].state = state'[n] /\ s[n].session = session'[n]
      BY <1>4, <3>2
    <3>5. DOMAIN s = Nodes(r)'
      BY <1>8, <3>2
    <3>6. Kept(r, store[r])'
      BY <3>2, <3>3, <3>4 DEF Kept, Restorable, IsSnapshot
    <3>7. Consistent(r, store[r])'
      BY <3>3, <3>4, <3>5 DEF Consistent
    <3> QED BY <3>6, <3>7
  <2>3. op'.phase = "idle"
    BY <1>5 DEF Idle
  <2>4. \A r \in Prompts : store'[r] # NoTree => Kept(r, store[r])'
    BY <2>1, <2>2
  <2>5. \A r \in Prompts : \/ r \in Published' /\ Consistent(r, store[r])'
                           \/ r \notin Published' /\ store'[r] = NoTree
    BY <1>4, <2>1, <2>2
  <2> QED BY <2>3, <2>4, <2>5 DEF Stored
<1> QED BY <1>1, <1>7, <1>9, <1>10, <1>11, <1>12, <1>13, <1>14, <1>15, <1>16

-----------------------------------------------------------------------------
(***************************************************************************)
(* The inductive invariant.                                                *)
(***************************************************************************)
LEMMA InitKeeps == Init => Core
<1> SUFFICES ASSUME Init PROVE Core
  OBVIOUS
<1> USE DEF Init
<1>1. TypeOK
  BY InitTyped
<1>2. \A n \in Prompts : ~Live(n) /\ ~Unfinished(n) /\ root[n] = NoPrompt /\ state[n] = "absent"
  BY DEF Live, Unfinished
<1>3. Published = {}
  BY EmptyFacts DEF Published
<1>4. Waits /\ Graph
  BY <1>2, <1>3 DEF Waits, Graph
<1>5. Rooted
  BY <1>2 DEF Rooted
<1>6. Work
  BY <1>2, <1>3 DEF Work, Queued, Claimed, Running
<1>7. Order
  BY <1>3 DEF Order, QueuedInOrder, ParentsFirst
<1>8. Boundary
  BY <1>2, BoundsAssumption DEF Boundary, CommandBoundary
<1>9. Operation
  BY DEF Operation, Idle
<1>10. Stored
  BY <1>3 DEF Stored, Idle, NoTree
<1>11. Indexed
  BY <1>2, RefFacts DEF Indexed
<1> QED BY <1>1, <1>4, <1>5, <1>6, <1>7, <1>8, <1>9, <1>10, <1>11 DEF Core

LEMMA StutterKeeps ==
  ASSUME Core, UNCHANGED vars PROVE Core'
<1>1. /\ UNCHANGED <<turnVars, generationVars, graphVars, treeVars, taskVars, raised, commands>>
      /\ UNCHANGED <<store, file, op>>
  BY DEF vars, opVars
<1>2. UNCHANGED <<turn, token, replyTo, stopGen, clearGen, root, state, parent, status, session,
                  admitted, trees, index, queue, active, cancelled, task, raised, commands>>
  BY <1>1 DEF turnVars, generationVars, graphVars, treeVars, taskVars
<1>3. TypeOK'
  BY <1>1, <1>2 DEF Core, TypeOK
<1>4. Operation'
  BY <1>1, <1>2 DEF Core, Operation, Published, Idle, NoTree
<1>5. SameShape /\ Progress
  BY <1>2 DEF SameShape, Progress, Live, Unfinished
<1>6. Graph'
  BY <1>5, SameShapeKeeps DEF Core
<1>7. Stored'
  BY <1>1, <1>2, <1>3, <1>5, <1>6, StoredKept DEF Core, Undisturbed
<1> QED BY <1>1, <1>3, <1>4, <1>7, LockedKeeps

LEMMA StepKeeps == Inductive /\ [Next]_vars => Core'
<1> SUFFICES ASSUME Inductive, [Next]_vars PROVE Core'
  OBVIOUS
<1> USE DEF Inductive
<1>1. CASE TurnStep
  BY <1>1, TurnKeeps, AdmitKeeps DEF TurnStep
<1>2. CASE RunnerStep
  BY <1>2, StartRunnerKeeps, RecordSessionKeeps, CompleteClaimKeeps, FinishClaimKeeps,
     FailClaimKeeps DEF RunnerStep
<1>3. CASE CommandStep
  BY <1>3, StopAllKeeps, ClearChatKeeps, TakeSnapshotsKeeps, SaveSnapshotsKeeps,
     StopSessionsKeeps, StopReplyKeeps, ClearReplyKeeps, ClearReplyRaisesKeeps DEF CommandStep
<1>4. CASE Restart
  BY <1>4, RestartKeeps
<1>5. CASE UNCHANGED vars
  BY <1>5, StutterKeeps
<1>6. CASE WriteFile
  BY <1>6, WriteFileKeeps
<1> QED BY <1>1, <1>2, <1>3, <1>4, <1>5, <1>6 DEF Next

-----------------------------------------------------------------------------
(***************************************************************************)
(* The file.                                                               *)
(***************************************************************************)
\* The nodes a step leaves where they are: all that were admitted before it.
Stay == \A n \in Prompts : root[n] # NoPrompt =>
  root'[n] = root[n] /\ parent'[n] = parent[n] /\ admitted'[n] = admitted[n]

LEMMA KeptStays ==
  ASSUME Stay, NEW r \in Prompts, NEW snap, Kept(r, snap)
  PROVE  /\ IsSnapshot(snap) /\ Restorable(r, snap)
         /\ \A n \in DOMAIN snap : /\ root'[n] = r /\ snap[n].parent = parent'[n]
                                   /\ admitted'[n] = admitted[n]
<1>1. \A n \in DOMAIN snap : n \in Prompts /\ root[n] = r /\ snap[n].parent = parent[n]
  BY DEF Kept, IsSnapshot
<1>2. r # NoPrompt
  BY RefFacts
<1> QED BY <1>1, <1>2 DEF Kept, Stay

\* A tree that is stored stays fresh while the chat is not cleared.
LEMMA FreshStays ==
  ASSUME Stay, NEW r \in Prompts, NEW snap, snap # NoTree => Kept(r, snap),
         \A n \in DOMAIN snap : admitted[n][2] = clearGen, clearGen' = clearGen
  PROVE  \A n \in DOMAIN snap : admitted'[n][2] = clearGen'
<1>1. CASE snap = NoTree
  BY <1>1 DEF NoTree
<1>2. CASE snap # NoTree
  BY <1>2, KeptStays
<1> QED BY <1>1, <1>2

\* The trees in the file stay while it is not written.
LEMMA FileKept ==
  ASSUME Filed, Stay, file' = file
  PROVE  (\A r \in Prompts : file[r] # NoTree => Kept(r, file[r]))'
<1> SUFFICES ASSUME NEW r \in Prompts, file'[r] # NoTree PROVE Kept(r, file[r])'
  OBVIOUS
<1>1. PICK s : s = file[r]
  OBVIOUS
<1>2. file'[r] = s /\ Kept(r, s)
  BY <1>1 DEF Filed
<1> QED BY <1>2, KeptStays DEF Kept, Restorable, IsSnapshot

\* Where the file is not written, it is enough that the store takes live nodes.
LEMMA FileStays ==
  ASSUME Inductive, Core', Stay, UNCHANGED <<file, clearGen>>,
         raised'["clear"] = raised["clear"], raised'["write"] = raised["write"],
         \A r \in Prompts : \/ store'[r] = store[r]
                           \/ \A n \in DOMAIN store'[r] : n \in Prompts /\ Live(n)',
         \/ UNCHANGED op
         \/ op.kind # "clearChat" /\ op'.kind # "clearChat"
         \/ op'.kind = op.kind /\ op'.trees = op.trees /\ op'.drop = op.drop
  PROVE  Filed'
<1>1. (\A r \in Prompts : file[r] # NoTree => Kept(r, file[r]))'
  BY FileKept DEF Inductive
<1>2. op'.kind = "clearChat" => op.kind = "clearChat" /\ op'.trees = {} /\ op'.drop = Prompts
  BY DEF Inductive, Filed
<1>3. ASSUME op'.kind # "clearChat", ~raised'["clear"]
      PROVE  /\ \A r \in Prompts : Fresh(store[r])'
             /\ ~raised'["write"] => \A r \in Prompts : Fresh(file[r])'
  <2>1. /\ \A r \in Prompts : Fresh(store[r])
        /\ ~raised["write"] => \A r \in Prompts : Fresh(file[r])
    BY <1>3 DEF Inductive, Filed
  <2>2. ASSUME NEW r \in Prompts PROVE Fresh(store[r])'
    <3>1. CASE store'[r] = store[r]
      <4>1. PICK s : s = store[r]
        OBVIOUS
      <4>2. /\ store'[r] = s /\ (s # NoTree => Kept(r, s))
            /\ \A n \in DOMAIN s : admitted[n][2] = clearGen
        BY <2>1, <3>1, <4>1 DEF Inductive, Core, Stored, Fresh
      <4> QED BY <4>2, FreshStays DEF Fresh
    <3>2. CASE \A n \in DOMAIN store'[r] : n \in Prompts /\ Live(n)'
      <4>1. \A n \in Prompts : Live(n)' => admitted'[n][2] = clearGen'
        BY <1>3 DEF Core, Boundary, CommandBoundary
      <4> QED BY <3>2, <4>1 DEF Fresh
    <3> QED BY <3>1, <3>2
  <2>3. ASSUME ~raised'["write"], NEW r \in Prompts PROVE Fresh(file[r])'
    <3>1. PICK s : s = file[r]
      OBVIOUS
    <3>2. /\ file'[r] = s /\ (s # NoTree => Kept(r, s))
          /\ \A n \in DOMAIN s : admitted[n][2] = clearGen
      BY <2>1, <2>3, <3>1 DEF Inductive, Filed, Fresh
    <3> QED BY <3>2, FreshStays DEF Fresh
  <2> QED BY <2>2, <2>3
<1> QED BY <1>1, <1>2, <1>3 DEF Filed

\* Steps that leave the graph as it is: what they save is live.
LEMMA SavedLive ==
  ASSUME NEW q, SaveTree(q)
  PROVE  /\ file' = file
         /\ \A r \in Prompts : \/ store'[r] = store[r]
                               \/ \A n \in DOMAIN store'[r] : n \in Prompts /\ Live(n)'
<1>1. file' = file /\ \A r \in Prompts : store'[r] = IF r = q THEN Snapshot(r)' ELSE store[r]
  BY DEF SaveTree
<1>2. \A r : DOMAIN Snapshot(r)' = Nodes(r)'
  BY DEF Snapshot
<1> QED BY <1>1, <1>2 DEF Nodes

LEMMA TurnFiled == ASSUME Inductive, Core', TurnStep PROVE Filed'
<1> USE DEF Inductive, Core
<1>1. PICK n \in Prompts : (\E ref \in Refs \cup {NoRef} : Ingress(n, ref)) \/ Reject(n) \/ Admit(n)
  BY DEF TurnStep
<1>2. CASE (\E ref \in Refs \cup {NoRef} : Ingress(n, ref)) \/ Reject(n)
  <2>1. UNCHANGED <<generationVars, graphVars, treeVars, taskVars, store, file, opVars>>
    BY <1>2 DEF Ingress, Reject
  <2>2. UNCHANGED <<clearGen, root, parent, admitted, store, file, op, raised>>
    BY <2>1 DEF generationVars, graphVars, opVars
  <2> QED BY <2>2, FileStays DEF Stay
<1>3. CASE Admit(n)
  <2>1. PICK r : r = Home(n)
    OBVIOUS
  <2>2. /\ root' = [root EXCEPT ![n] = r] /\ parent' = [parent EXCEPT ![n] = replyTo[n]]
        /\ admitted' = [admitted EXCEPT ![n] = token[n]]
        /\ UNCHANGED <<generationVars, opVars>> /\ SaveTree(r)
    BY <1>3, <2>1 DEF Admit, Home
  <2>3. UNCHANGED <<clearGen, op, raised>>
    BY <2>2 DEF generationVars, opVars
  <2>4. root[n] = NoPrompt
    BY <1>3, AdmitFacts DEF Rooted
  <2>5. Stay
    BY <2>2, <2>4 DEF Stay
  <2> QED BY <2>2, <2>3, <2>5, SavedLive, FileStays
<1> QED BY <1>1, <1>2, <1>3

LEMMA RunnerFiled == ASSUME Inductive, Core', RunnerStep PROVE Filed'
<1>1. PICK n \in Prompts :
        \/ StartRunner(n) \/ RecordSession(n) \/ CompleteClaim(n) \/ FinishClaim(n)
        \/ \E propagate \in BOOLEAN : FailClaim(n, propagate)
  BY DEF RunnerStep
<1>2. CASE StartRunner(n) \/ FinishClaim(n)
  <2>1. UNCHANGED <<generationVars, root, parent, admitted, store, file, opVars>>
    BY <1>2 DEF StartRunner, FinishClaim, graphVars
  <2>2. UNCHANGED <<clearGen, op, raised>>
    BY <2>1 DEF generationVars, opVars
  <2> QED BY <2>1, <2>2, FileStays DEF Stay
<1>3. CASE \/ RecordSession(n) \/ CompleteClaim(n)
           \/ \E propagate \in BOOLEAN : FailClaim(n, propagate)
  <2>1. UNCHANGED <<generationVars, root, parent, admitted, opVars>> /\ SaveTree(root[n])
    BY <1>3 DEF RecordSession, CompleteClaim, FailClaim
  <2>2. UNCHANGED <<clearGen, op, raised>>
    BY <2>1 DEF generationVars, opVars
  <2> QED BY <2>1, <2>2, SavedLive, FileStays DEF Stay
<1> QED BY <1>1, <1>2, <1>3

\* The commands that write no file themselves.
LEMMA CommandFiled ==
  ASSUME Inductive, Core',
         \/ StopAll \/ TakeSnapshots \/ StopSessions
         \/ \E ref \in Refs : StopReply(ref) \/ ClearReply(ref)
         \/ \E ref \in Refs, reached \in SUBSET Prompts : ClearReplyRaises(ref, reached)
  PROVE  Filed'
<1> USE DEF Inductive, Core
<1> DEFINE Same == /\ UNCHANGED <<clearGen, root, parent, admitted, store, file>>
                   /\ raised'["clear"] = raised["clear"] /\ raised'["write"] = raised["write"]
<1>1. StopAll => Same
  BY DEF StopAll, TypeOK
<1>2. TakeSnapshots \/ StopSessions => Same
  BY DEF TakeSnapshots, StopSessions, generationVars, graphVars
<1>3. \A ref \in Refs : StopReply(ref) \/ ClearReply(ref) => Same
  BY DEF StopReply, ClearReply, generationVars
<1>4. \A ref \in Refs, reached \in SUBSET Prompts : ClearReplyRaises(ref, reached) => Same
  BY DEF ClearReplyRaises, generationVars
<1>5. Same
  BY <1>1, <1>2, <1>3, <1>4
<1>6. \/ UNCHANGED op
      \/ op.kind # "clearChat" /\ op'.kind # "clearChat"
      \/ op'.kind = op.kind /\ op'.trees = op.trees /\ op'.drop = op.drop
  <2>1. CASE TakeSnapshots
    BY <2>1 DEF TakeSnapshots, Operation
  <2>2. CASE StopSessions
    BY <2>2 DEF StopSessions, Operation, Idle
  <2>3. op.phase = "idle" => op.kind = "none"
    BY DEF Operation, Idle
  <2>4. CASE StopAll
    BY <2>3, <2>4 DEF StopAll, Command, Begin
  <2>5. CASE \E ref \in Refs : StopReply(ref) \/ ClearReply(ref)
    BY <2>3, <2>5 DEF StopReply, ClearReply, Command, Begin
  <2>6. CASE \E ref \in Refs, reached \in SUBSET Prompts : ClearReplyRaises(ref, reached)
    BY <2>6 DEF ClearReplyRaises
  <2> QED BY <2>1, <2>2, <2>4, <2>5, <2>6
<1> QED BY <1>6, <1>5, FileStays DEF Stay

\* A /clear of the chat writes an empty conversation, or is not over, or raised.
LEMMA ClearChatFiled == ASSUME Inductive, Core', ClearChat PROVE Filed'
<1> USE DEF Inductive, Core
<1>1. UNCHANGED <<root, parent, admitted>>
  BY DEF ClearChat
<1>2. CASE AllReached
  <2>1. file' = file /\ op'.kind = "clearChat" /\ op'.trees = {} /\ op'.drop = Prompts
    BY <1>2 DEF ClearChat, Begin
  <2>2. (\A r \in Prompts : file[r] # NoTree => Kept(r, file[r]))'
    BY <1>1, <2>1, FileKept DEF Stay
  <2> QED BY <2>1, <2>2 DEF Filed
<1>3. CASE ~AllReached
  <2>1. raised'["clear"] /\ (file' = file \/ file' = store')
    BY <1>3, ClearChatOutcome
  <2>2. op' = op /\ op.kind = "none" /\ \A r \in Prompts : store'[r] = NoTree
    BY <1>3 DEF ClearChat, Command, Operation, Idle
  <2>3. (\A r \in Prompts : file[r] # NoTree => Kept(r, file[r]))'
    <3>1. CASE file' = file
      BY <1>1, <3>1, FileKept DEF Stay
    <3>2. CASE file' = store'
      BY <2>2, <3>2
    <3> QED BY <2>1, <3>1, <3>2
  <2> QED BY <2>1, <2>2, <2>3 DEF Filed
<1> QED BY <1>2, <1>3

LEMMA SaveSnapshotsFiled == ASSUME Inductive, Core', SaveSnapshots PROVE Filed'
<1> USE DEF Inductive, Core
<1>1. /\ UNCHANGED <<clearGen, root, state, parent, admitted>>
      /\ store' = SavedStore /\ op.phase = "save"
  BY DEF SaveSnapshots, generationVars, graphVars
<1>2. DOMAIN op.snaps = op.trees /\ \A r \in op.trees : Consistent(r, op.snaps[r])
  BY <1>1 DEF Stored
<1>3. op'.kind # "clearChat"
  BY OpSavedFacts DEF SaveSnapshots, Idle
<1>4. CASE op.kind # "clearChat"
  <2>1. UNCHANGED <<file, raised>>
    BY <1>4 DEF SaveSnapshots
  <2>2. ASSUME NEW r \in Prompts
        PROVE  \/ store'[r] = store[r]
               \/ \A n \in DOMAIN store'[r] : n \in Prompts /\ Live(n)'
    <3>1. CASE r \in op.trees
      BY <1>1, <1>2, <3>1 DEF SavedStore, Consistent, Nodes, Live
    <3>2. CASE r \notin op.trees
      BY <1>1, <1>2, <3>2 DEF SavedStore, NoTree
    <3> QED BY <3>1, <3>2
  <2> QED BY <1>1, <1>3, <1>4, <2>1, <2>2, FileStays DEF Stay
<1>5. CASE op.kind = "clearChat"
  <2>1. \A r \in Prompts : store'[r] = NoTree
    BY <1>1, <1>2, <1>5 DEF SavedStore, Filed
  <2>2. file' = file \/ file' = store'
    BY <1>5, WriteThroughFacts DEF SaveSnapshots, TypeOK
  <2>3. file' = store' \/ raised'["write"]
    BY <1>5, WriteThroughFacts DEF SaveSnapshots, TypeOK
  <2>4. (\A r \in Prompts : file[r] # NoTree => Kept(r, file[r]))'
    <3>1. CASE file' = file
      BY <1>1, <3>1, FileKept DEF Stay
    <3>2. CASE file' = store'
      BY <2>1, <3>2
    <3> QED BY <2>2, <3>1, <3>2
  <2>5. \A r \in Prompts : Fresh(store[r])'
    BY <2>1 DEF Fresh, NoTree
  <2>6. ~raised'["write"] => \A r \in Prompts : Fresh(file[r])'
    BY <2>3, <2>5 DEF Fresh
  <2> QED BY <1>3, <2>4, <2>5, <2>6 DEF Filed
<1> QED BY <1>4, <1>5

LEMMA WriteFileFiled == ASSUME Inductive, WriteFile PROVE Filed'
<1> USE DEF Inductive, Core
<1>1. /\ UNCHANGED <<clearGen, root, parent, admitted, store, op>> /\ file' = store
      /\ raised'["clear"] = raised["clear"]
  BY DEF WriteFile, TypeOK, generationVars, graphVars
<1>2. ASSUME NEW r \in Prompts, file'[r] # NoTree PROVE Kept(r, file[r])'
  <2>1. PICK s : s = store[r]
    OBVIOUS
  <2>2. file'[r] = s /\ Kept(r, s)
    BY <1>1, <1>2, <2>1 DEF Stored
  <2> QED BY <1>1, <2>2 DEF Kept, Restorable, IsSnapshot
<1>3. (\A r \in Prompts : Fresh(store[r])) => \A r \in Prompts : Fresh(store[r])' /\ Fresh(file[r])'
  BY <1>1 DEF Fresh
<1> QED BY <1>1, <1>2, <1>3 DEF Filed

\* A restart puts every node of the file back where it was.
LEMMA RestartFiled == ASSUME Inductive, Core', Restart PROVE Filed'
<1> USE DEF Inductive, Core
<1>1. /\ file' = file /\ op'.kind = "none" /\ clearGen' = 0
      /\ \A n \in Prompts : admitted'[n][2] = 0
  BY RestartAssigns, RestartResets DEF Idle
<1>2. ASSUME NEW r \in Prompts, file'[r] # NoTree PROVE Kept(r, file[r])'
  <2>1. PICK s : s = file[r]
    OBVIOUS
  <2>2. r \in Found /\ file'[r] = s /\ Kept(r, s)
    BY <1>1, <1>2, <2>1, FoundFacts
  <2>3. \A n \in DOMAIN s : root'[n] = r /\ s[n].parent = parent'[n]
    BY <2>1, <2>2, RestartFacts
  <2> QED BY <2>2, <2>3 DEF Kept, Restorable, IsSnapshot
<1>3. \A r \in Prompts : DOMAIN store'[r] \subseteq Prompts /\ DOMAIN file'[r] \subseteq Prompts
  BY DEF TypeOK, IsSnapshot
<1>4. \A r \in Prompts : Fresh(store[r])' /\ Fresh(file[r])'
  BY <1>1, <1>3 DEF Fresh
<1> QED BY <1>1, <1>2, <1>4 DEF Filed

LEMMA InitFiled == Init => Filed
BY DEF Init, Filed, Idle, NoTree, Fresh

LEMMA StepFiled == Inductive /\ [Next]_vars => Filed'
<1> SUFFICES ASSUME Inductive, [Next]_vars PROVE Filed'
  OBVIOUS
<1>1. Core'
  BY StepKeeps
<1>2. CASE TurnStep
  BY <1>1, <1>2, TurnFiled
<1>3. CASE RunnerStep
  BY <1>1, <1>3, RunnerFiled
<1>4. CASE CommandStep
  BY <1>1, <1>4, CommandFiled, ClearChatFiled, SaveSnapshotsFiled DEF CommandStep
<1>5. CASE WriteFile
  BY <1>5, WriteFileFiled
<1>6. CASE Restart
  BY <1>1, <1>6, RestartFiled
<1>7. CASE UNCHANGED vars
  <2>1. UNCHANGED <<generationVars, graphVars, store, file, opVars>>
    BY <1>7 DEF vars
  <2>2. UNCHANGED <<clearGen, root, parent, admitted, store, file, op, raised>>
    BY <2>1 DEF generationVars, graphVars, opVars
  <2> QED BY <1>1, <2>2, FileStays DEF Stay
<1> QED BY <1>2, <1>3, <1>4, <1>5, <1>6, <1>7 DEF Next

-----------------------------------------------------------------------------
(***************************************************************************)
(* What holds in every state.                                              *)
(***************************************************************************)
\* The trees, the claims, the tasks, the index, the generations, the store and the
\* file of the chat agree in every state that messaging/trees and the workflow reach.
THEOREM InductiveCorrect == Spec => []Inductive
<1>1. Init => Inductive
  BY InitKeeps, InitFiled DEF Inductive
<1>2. Inductive /\ [Next]_vars => Inductive'
  BY StepKeeps, StepFiled DEF Inductive
<1> QED BY <1>1, <1>2, PTL DEF Spec

LEMMA CoreHolds == Spec => []Core
<1>1. Inductive => Core
  BY DEF Inductive
<1> QED BY InductiveCorrect, <1>1, PTL

\* Every variable keeps the shape of what the code stores in it.
THEOREM TypeCorrect == Spec => []TypeOK
<1>1. Core => TypeOK
  BY DEF Core
<1> QED BY CoreHolds, <1>1, PTL

-----------------------------------------------------------------------------
(***************************************************************************)
(* Safety.                                                                 *)
(***************************************************************************)
\* A prompt that waits is in the queue of its tree, behind a claim whose task
\* will end (_finish_claim, cancel_node, fail_claim).
THEOREM NoStrandedWorkCorrect == Spec => []NoStrandedWork
<1>1. Core => NoStrandedWork
  BY DEF Core, Work, Queued, Claimed, NoStrandedWork
<1> QED BY CoreHolds, <1>1, PTL

\* One claim of a tree runs at a time, and a reply only once the turn it replies
\* to is over (enqueue_or_claim, the tasks of the processor).
THEOREM TurnsFollowEachOtherCorrect == Spec => []TurnsFollowEachOther
<1>1. ASSUME Core PROVE TurnsFollowEachOther
  <2> USE <1>1 DEF Core
  <2> SUFFICES ASSUME NEW n \in Prompts, task[n] # "none"
               PROVE  /\ root[n] \in Published =>
                           \A m \in Prompts : task[m] # "none" /\ root[m] = root[n] => m = n
                      /\ Live(n) /\ parent[n] # NoRef =>
                           ~Unfinished(parent[n][1]) /\ task[parent[n][1]] = "none"
    BY DEF TurnsFollowEachOther
  <2>1. root[n] \in Published =>
          \A m \in Prompts : task[m] # "none" /\ root[m] = root[n] => m = n
    BY DEF Work, Running
  <2>2. ASSUME Live(n), parent[n] # NoRef
        PROVE  ~Unfinished(parent[n][1]) /\ task[parent[n][1]] = "none"
    <3>1. PICK p : p = parent[n][1]
      OBVIOUS
    <3>2. p \in Prompts /\ n # root[n] /\ Live(p) /\ root[p] = root[n]
      BY <2>2, <3>1, ParentFacts
    <3>3. root[n] \in Published /\ root[n] # NoPrompt
      BY <2>2, RootsArePrompts, RefFacts DEF Graph
    <3>4. p # n
      <4>1. {n} \in SUBSET Prompts /\ {n} # {} /\ \A m \in {n} : root[m] \notin {NoPrompt, m}
        BY <3>2, <3>3
      <4>2. \E m \in {n} : parent[m][1] \notin {n}
        BY <4>1 DEF Rooted
      <4> QED BY <3>1, <4>2
    <3>5. active[root[n]] = n
      BY <3>3 DEF Work, Running
    <3>6. task[p] = "none"
      BY <3>2, <3>3, <3>4, <3>5 DEF Work, Running
    <3>7. state[p] # "in_progress"
      BY <3>2, <3>4, <3>5 DEF Work, Running
    <3>8. state[p] # "pending"
      BY <2>2, <3>1 DEF Order, ParentsFirst
    <3> QED BY <3>1, <3>6, <3>7, <3>8 DEF Unfinished
  <2> QED BY <2>1, <2>2
<1>2. Core => TurnsFollowEachOther
  BY <1>1
<1> QED BY CoreHolds, <1>2, PTL

\* The index of the tree manager finds exactly the messages of published trees.
THEOREM IndexExactCorrect == Spec => []IndexExact
<1>1. Core => IndexExact
  BY IndexByNodes DEF Core
<1> QED BY CoreHolds, <1>1, PTL

\* What is left to run after a global /stop, and what is in the trees after a
\* /clear, was admitted with a token of later generations.
THEOREM CommandBoundaryCorrect == Spec => []CommandBoundary
<1>1. Core => CommandBoundary
  BY DEF Core, Boundary
<1> QED BY CoreHolds, <1>1, PTL

\* Between commands the session store holds exactly the published trees with
\* exactly their nodes (save_tree_snapshot, remove_tree_snapshot, clear).
THEOREM StoreHasTheTreesCorrect == Spec => []StoreHasTheTrees
<1>1. ASSUME Core, op.phase = "idle", ~raised["clear"], NEW r \in Prompts
      PROVE  DOMAIN store[r] = IF r \in Published THEN Nodes(r) ELSE {}
  <2>1. \/ r \in Published /\ Consistent(r, store[r])
        \/ r \notin Published /\ store[r] = NoTree
    BY <1>1 DEF Core, Stored, Undisturbed
  <2> QED BY <2>1 DEF Consistent, NoTree
<1>2. Core => StoreHasTheTrees
  BY <1>1 DEF StoreHasTheTrees
<1> QED BY CoreHolds, <1>2, PTL

\* from_snapshot accepts every tree in the store and in the file, and the store
\* promises no more than the tree in memory.
THEOREM StoreRestorableCorrect == Spec => []StoreRestorable
<1>1. ASSUME Inductive, NEW r \in Prompts
      PROVE  /\ store[r] # NoTree => Restorable(r, store[r])
             /\ file[r] # NoTree => Restorable(r, file[r])
             /\ op.phase = "idle" => \A n \in DOMAIN store[r] :
                  /\ store[r][n].state = "completed" => state[n] = "completed"
                  /\ store[r][n].session => session[n]
  <2> USE <1>1 DEF Inductive, Core
  <2>1. store[r] # NoTree => Restorable(r, store[r])
    BY DEF Stored, Kept
  <2>2. file[r] # NoTree => Restorable(r, file[r])
    BY DEF Filed, Kept
  <2>3. op.phase = "idle" => Consistent(r, store[r]) \/ store[r] = NoTree
    BY DEF Stored, Undisturbed
  <2> QED BY <2>1, <2>2, <2>3 DEF Consistent, NoTree
<1>2. Inductive => StoreRestorable
  BY <1>1 DEF StoreRestorable
<1> QED BY InductiveCorrect, <1>2, PTL

\* A restart after a /clear of the chat that returned finds nothing from before it
\* (clear_scope writes the file under the lock, later saves store new messages only).
THEOREM ClearIsDurableCorrect == Spec => []ClearIsDurable
<1>1. Inductive => ClearIsDurable
  BY DEF Inductive, Filed, Fresh, ClearIsDurable
<1> QED BY InductiveCorrect, <1>1, PTL

-----------------------------------------------------------------------------
(***************************************************************************)
(* What a step may never do.                                               *)
(***************************************************************************)
\* A cancelled turn reports no success, and a cleared node stays cleared.
Final ==
  /\ \A n \in Prompts : cancelled[n] /\ state'[n] = "completed" => state[n] = "completed"
  /\ \A n \in Prompts : state[n] = "removed" => state'[n] = "removed"

LEMMA TurnIsFinal == ASSUME Core, TurnStep PROVE Final
<1>1. PICK n \in Prompts : (\E ref \in Refs \cup {NoRef} : Ingress(n, ref)) \/ Reject(n) \/ Admit(n)
  BY DEF TurnStep
<1>2. CASE (\E ref \in Refs \cup {NoRef} : Ingress(n, ref)) \/ Reject(n)
  <2>1. state' = state
    BY <1>2 DEF Ingress, Reject, graphVars
  <2> QED BY <2>1 DEF Final
<1>3. CASE Admit(n)
  <2>1. state[n] = "absent"
    BY <1>3, AdmitFacts
  <2>2. \A m \in Prompts : m # n => state'[m] = state[m]
    BY <1>3, AdmitClaims
  <2>3. state'[n] = "in_progress" \/ state'[n] = "pending"
    BY <1>3, AdmitClaims
  <2> QED BY <2>1, <2>2, <2>3 DEF Final
<1> QED BY <1>1, <1>2, <1>3

LEMMA RunnerIsFinal == ASSUME Core, RunnerStep PROVE Final
<1> USE DEF Core
<1>1. PICK n \in Prompts :
        \/ StartRunner(n) \/ RecordSession(n) \/ CompleteClaim(n) \/ FinishClaim(n)
        \/ \E propagate \in BOOLEAN : FailClaim(n, propagate)
  BY DEF RunnerStep
<1>2. CASE StartRunner(n) \/ RecordSession(n)
  <2>1. state' = state
    BY <1>2 DEF StartRunner, RecordSession, graphVars
  <2> QED BY <2>1 DEF Final
<1>3. CASE CompleteClaim(n)
  <2>1. ~cancelled[n] /\ Live(n) /\ state' = [state EXCEPT ![n] = "completed"]
    BY <1>3 DEF CompleteClaim, Accepts
  <2> QED BY <2>1 DEF Final, Live, TypeOK
<1>4. CASE FinishClaim(n)
  <2>1. PICK claimed :
          /\ \A m : m \in claimed <=> \E r \in Served(n) : m = Successor(r)
          /\ state' = [m \in Prompts |-> IF m \in claimed THEN "in_progress" ELSE state[m]]
    BY <1>4, FinishFacts
  <2>2. ASSUME NEW m \in claimed PROVE state[m] = "pending"
    <3>1. PICK r \in Served(n) : m = Successor(r)
      BY <2>1
    <3>2. r \in Published /\ queue[r] # <<>>
      BY DEF Served, Releases
    <3> QED BY <3>1, <3>2, NextClaimFacts DEF Successor
  <2> QED BY <2>1, <2>2 DEF Final
<1>5. CASE \E propagate \in BOOLEAN : FailClaim(n, propagate)
  <2>1. PICK propagate \in BOOLEAN : FailClaim(n, propagate)
    BY <1>5
  <2>2. PICK affected :
          /\ state' = [m \in Prompts |-> IF m \in affected THEN "error" ELSE state[m]]
          /\ \A m \in affected : m = n \/ state[m] = "pending"
    BY <2>1 DEF FailClaim
  <2>3. Live(n)
    BY <2>1 DEF FailClaim, Accepts
  <2> QED BY <2>2, <2>3 DEF Final, Live
<1> QED BY <1>1, <1>2, <1>3, <1>4, <1>5

LEMMA CommandIsFinal == ASSUME Core, CommandStep PROVE Final
<1> USE DEF Core
<1>1. ASSUME StopAll PROVE Final
  BY <1>1 DEF StopAll, CancelAll, Unfinished, Final
<1>2. ASSUME ClearChat PROVE Final
  BY <1>2 DEF ClearChat, Final
<1>3. ASSUME TakeSnapshots \/ SaveSnapshots \/ StopSessions PROVE Final
  <2>1. state' = state
    BY <1>3 DEF TakeSnapshots, SaveSnapshots, StopSessions, graphVars
  <2> QED BY <2>1 DEF Final
<1>4. ASSUME NEW ref \in Refs, StopReply(ref) PROVE Final
  <2>1. state' = IF Unfinished(ref[1]) THEN [state EXCEPT ![ref[1]] = "error"] ELSE state
    BY <1>4 DEF StopReply, CancelNode
  <2> QED BY <2>1 DEF Unfinished, Final, TypeOK
<1>5. ASSUME NEW ref \in Refs, ClearReply(ref) PROVE Final
  <2>1. Live(ref[1])
    BY <1>5, ResolvesFacts DEF ClearReply
  <2>2. PICK gone : state' = [n \in Prompts |-> IF n \in gone THEN "removed"
                                               ELSE IF n = ref[1] THEN "error" ELSE state[n]]
    BY <1>5 DEF ClearReply
  <2> QED BY <2>1, <2>2 DEF Live, Final
<1>6. ASSUME NEW ref \in Refs, NEW reached \in SUBSET Prompts, ClearReplyRaises(ref, reached)
      PROVE  Final
  <2>1. state' = [n \in Prompts |-> IF n \in reached /\ Unfinished(n) THEN "error" ELSE state[n]]
    BY <1>6 DEF ClearReplyRaises
  <2> QED BY <2>1 DEF Unfinished, Final
<1> QED BY <1>1, <1>2, <1>3, <1>4, <1>5, <1>6 DEF CommandStep

\* A removed node that a restart brings back is in the file it restores.
LEMMA RestartBringsBack ==
  ASSUME Inductive, Restart, NEW n \in Prompts, state[n] = "removed", state'[n] # "removed"
  PROVE  \E r \in Prompts : n \in DOMAIN file[r]
<1> USE DEF Inductive, Core
<1>1. n \in FoundNodes
  BY RestartFacts
<1> QED BY <1>1, FoundFacts

\* The claim writes look at cancellation_requested, and what a clear removed is
\* neither claimed nor cancelled again: only a restart from a file that still has
\* it, written before the clear, brings it back.
THEOREM CancelIsFinalCorrect == Spec => CancelIsFinal
<1>1. ASSUME Inductive, [Next]_vars, NEW n \in Prompts
      PROVE  /\ cancelled[n] /\ cancelled'[n] /\ state'[n] = "completed" => state[n] = "completed"
             /\ state[n] = "removed" /\ state'[n] # "removed" =>
                  Restart /\ \E r \in Prompts : n \in DOMAIN file[r]
  <2> USE <1>1 DEF Inductive
  <2>1. CASE TurnStep \/ RunnerStep \/ CommandStep
    BY <2>1, TurnIsFinal, RunnerIsFinal, CommandIsFinal DEF Final
  <2>2. CASE Restart
    <3>1. ~cancelled'[n]
      BY <2>2, RestartResets
    <3> QED BY <2>2, <3>1, RestartBringsBack
  <2>3. CASE WriteFile
    BY <2>3 DEF WriteFile, graphVars
  <2>4. CASE UNCHANGED vars
    BY <2>4 DEF vars, graphVars
  <2> QED BY <1>1, <2>1, <2>2, <2>3, <2>4 DEF Next
<1>2. Inductive /\ [Next]_vars =>
        [\A n \in Prompts :
           /\ cancelled[n] /\ cancelled'[n] /\ state'[n] = "completed" => state[n] = "completed"
           /\ state[n] = "removed" /\ state'[n] # "removed" =>
                Restart /\ \E r \in Prompts : n \in DOMAIN file[r]]_vars
  BY <1>1
<1> QED BY InductiveCorrect, <1>2, PTL DEF Spec, CancelIsFinal

\* Only an admission to an idle tree and the end of a claim make a node the
\* active one, and the latter takes the head of the queue.
FirstServed == \A r \in Published : \A n \in Prompts :
  active'[r] = n /\ active[r] # n /\ n # NoPrompt => queue[r] = <<>> \/ n = Head(queue[r])

LEMMA OthersClaimNothing ==
  ASSUME TypeOK,
         \/ UNCHANGED active
         \/ \E rs : Unpublish(rs)
         \/ Restart
  PROVE  FirstServed
<1>1. Published \subseteq Prompts
  BY RootsArePrompts
<1>2. \A r \in Prompts : active'[r] = active[r] \/ active'[r] = NoPrompt
  BY DEF Unpublish, Restart
<1> QED BY <1>1, <1>2 DEF FirstServed

LEMMA AdmitIsFair == ASSUME Core, NEW n \in Prompts, Admit(n) PROVE FirstServed
<1>1. Published \subseteq Prompts
  BY RootsArePrompts DEF Core
<1>2. PICK r : r = Home(n)
  OBVIOUS
<1>3. \/ queue[r] = <<>> /\ \A q \in Prompts : active'[q] = IF q = r THEN n ELSE active[q]
      \/ active' = active
  BY <1>2, AdmitClaims
<1> QED BY <1>1, <1>3 DEF FirstServed

LEMMA FinishIsFair == ASSUME Core, NEW n \in Prompts, FinishClaim(n) PROVE FirstServed
<1> USE DEF Core
<1>1. Published \subseteq Prompts
  BY RootsArePrompts
<1>2. \A r \in Prompts : active'[r] =
        IF r \notin Releases(n) THEN active[r]
        ELSE IF queue[r] = <<>> THEN NoPrompt ELSE Successor(r)
  BY FinishFacts
<1>3. \A r \in Published : queue[r] # <<>> => Head(queue[r]) = Successor(r)
  BY NextClaimFacts, TailFacts DEF Successor
<1> QED BY <1>1, <1>2, <1>3 DEF FirstServed

\* _finish_claim serves the queue in the order of the admissions.
THEOREM FirstComeFirstServedCorrect == Spec => FirstComeFirstServed
<1>1. ASSUME Core, [Next]_vars PROVE FirstServed
  <2> USE <1>1 DEF Core
  <2>1. CASE TurnStep
    <3>1. PICK n \in Prompts :
            (\E ref \in Refs \cup {NoRef} : Ingress(n, ref)) \/ Reject(n) \/ Admit(n)
      BY <2>1 DEF TurnStep
    <3>2. CASE (\E ref \in Refs \cup {NoRef} : Ingress(n, ref)) \/ Reject(n)
      BY <3>2, OthersClaimNothing DEF Ingress, Reject, treeVars
    <3> QED BY <3>1, <3>2, AdmitIsFair
  <2>2. CASE RunnerStep
    <3>1. PICK n \in Prompts :
            \/ StartRunner(n) \/ RecordSession(n) \/ CompleteClaim(n) \/ FinishClaim(n)
            \/ \E propagate \in BOOLEAN : FailClaim(n, propagate)
      BY <2>2 DEF RunnerStep
    <3>2. ASSUME \/ StartRunner(n) \/ RecordSession(n) \/ CompleteClaim(n)
                 \/ \E propagate \in BOOLEAN : FailClaim(n, propagate)
          PROVE  UNCHANGED active
      BY <3>2 DEF StartRunner, RecordSession, CompleteClaim, FailClaim, treeVars
    <3> QED BY <3>1, <3>2, OthersClaimNothing, FinishIsFair
  <2>3. CASE CommandStep
    <3>1. UNCHANGED active \/ \E rs : Unpublish(rs)
      BY <2>3 DEF CommandStep, StopAll, ClearChat, TakeSnapshots, SaveSnapshots, StopReply,
                  StopSessions, ClearReply, ClearReplyRaises, treeVars
    <3> QED BY <3>1, OthersClaimNothing
  <2>4. CASE Restart
    BY <2>4, OthersClaimNothing
  <2>5. CASE UNCHANGED vars
    BY <2>5, OthersClaimNothing DEF vars, treeVars
  <2>6. CASE WriteFile
    BY <2>6, OthersClaimNothing DEF WriteFile, treeVars
  <2> QED BY <1>1, <2>1, <2>2, <2>3, <2>4, <2>5, <2>6 DEF Next
<1>2. Core /\ [Next]_vars =>
        [\A r \in Published : \A n \in Prompts :
           active'[r] = n /\ active[r] # n /\ n # NoPrompt =>
             queue[r] = <<>> \/ n = Head(queue[r])]_vars
  BY <1>1 DEF FirstServed
<1> QED BY CoreHolds, <1>2, PTL DEF Spec, FirstComeFirstServed
=============================================================================
