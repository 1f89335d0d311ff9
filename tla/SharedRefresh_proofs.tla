------------------------ MODULE SharedRefresh_proofs ------------------------
(***************************************************************************)
(* Proofs about SharedRefresh, for any number of requests, tokens and      *)
(* faults.                                                                 *)
(***************************************************************************)
EXTENDS SharedRefresh, SequenceTheorems, FiniteSetTheorems, WellFoundedInduction, TLAPS

(***************************************************************************)
(* The inductive invariant.                                                *)
(***************************************************************************)

\* A request in line for the refresh, and one that retries a pending write: in
\* _try_mkdir they differ by the token that is replaced.
InLine(r) ==
  \/ pc[r] \in {"waiting", "locking"} \cup Locked
  \/ pc[r] \in {"stale", "removed"} /\ got[r] = NoToken
Retrying(r) ==
  \/ pc[r] = "pending"
  \/ pc[r] \in {"stale", "removed"} /\ got[r] # NoToken
Renewed(r) == pc[r] = "answered" /\ got[r] \in Tokens

\* The line holds whoever is in it once, and only its head gets past the wait.
\* No two requests are in _try_mkdir.
LineExact ==
  /\ ToSet(line) = {r \in Requests : InLine(r)}
  /\ \A i, j \in 1..Len(line) : line[i] = line[j] => i = j
  /\ \A r \in Requests : InLine(r) /\ pc[r] # "waiting" => line[1] = r
  /\ \A q, r \in Requests : pc[q] \in {"stale", "removed"} /\ pc[r] \in {"stale", "removed"} => q = r

\* No token is known before it was issued, and the clock of a request is right.
Issued ==
  /\ file <= live /\ record.token <= live
  /\ \A r \in Requests : pc[r] # "idle" =>
       token[r] \in Tokens /\ token[r] <= live /\ since[r] <= live /\ expired <= since[r]

\* A renewed token is the successor of the one that was posted, wherever the two
\* are kept.
Successors ==
  /\ Pending(record) => record.token = record.posted + 1
  /\ claude.got # NoToken => claude.got = claude.reads + 1 /\ claude.got <= live
  /\ \A r \in Requests :
       /\ Retrying(r) => got[r] \in Tokens /\ token[r] = got[r] + 1
       /\ Renewed(r) => got[r] = token[r] + 1 /\ since[r] < got[r] /\ got[r] <= live
       /\ pc[r] \in {"waiting", "locking", "locked", "posting"} => got[r] = NoToken
       /\ pc[r] = "answered" => got[r] # NoToken

\* Only expired tokens are refreshed.
OldOnes ==
  /\ record.posted <= expired
  /\ \A r \in Requests :
       /\ InLine(r) => token[r] <= expired
       /\ Retrying(r) => got[r] <= expired
       /\ Retrying(r) /\ pc[r] # "pending" => record = [token |-> token[r], posted |-> got[r]]

\* As long as none of them expires, a token that is pending or being written is
\* the newest but for what is in the file, and the line is ordered by age: nobody
\* in it holds a token older than the one that was posted last.
NewestIsKept == ~lapsed =>
  /\ Pending(record) => record.token > expired
  /\ record.token <= file \/ (Pending(record) /\ record.posted <= file)
  /\ \A r \in Requests :
       /\ Retrying(r) => token[r] > expired
       /\ InLine(r) => token[r] <= record.token /\ token[r] <= file
       /\ InLine(r) /\ Pending(record) /\ file = record.posted => record.posted <= token[r]
  /\ \A i, j \in 1..Len(line) : i < j => token[line[i]] <= token[line[j]]

\* As long as nothing goes wrong, the lock excludes, and the file is behind the
\* authority only while its holder has the newest token in hand.
Undisturbed == faults = 0 =>
  /\ ~Pending(record) /\ lock # Dead /\ compromised = {}
  /\ \A r \in Requests :
       pc[r] \notin {"pending", "stale", "removed"} /\ (pc[r] \in Locked => lock = r)
  /\ claude.reads # NoToken => lock = Claude
  /\ claude.got # NoToken => claude.reads # NoToken
  /\ \/ file = live
     \/ \E r \in Requests : Renewed(r) /\ got[r] = live /\ file = token[r]
     \/ claude.got = live /\ file = claude.reads

Inductive ==
  /\ TypeOK /\ LineExact /\ Issued /\ Successors /\ OldOnes
  /\ NewestIsKept /\ Undisturbed

-----------------------------------------------------------------------------
\* Nobody is two of the owners.
LEMMA Owners ==
  /\ Claude # Dead /\ Claude # None /\ Dead # None
  /\ {Claude, Dead, None} \cap Requests = {}
  /\ Claude \notin Requests /\ Dead \notin Requests /\ None \notin Requests
<1>1. \A x, y : Cardinality({x, y}) # 3
  <2> TAKE x, y
  <2>1. Cardinality({x}) = 1 /\ IsFiniteSet({x})
    BY FS_Singleton
  <2>2. {x, y} = {x} \cup {y}
    OBVIOUS
  <2>3. Cardinality({x} \cup {y}) = IF y \in {x} THEN 1 ELSE 1 + 1
    BY <2>1, FS_AddElement
  <2> QED BY <2>2, <2>3
<1>2. ASSUME Claude = Dead \/ Claude = None \/ Dead = None PROVE FALSE
  <2>1. \/ {Claude, Dead, None} = {Claude, Dead}
        \/ {Claude, Dead, None} = {Claude, None}
    BY <1>2
  <2> QED BY <1>1, <2>1, TokensAssumption
<1> QED BY <1>2, TokensAssumption

\* A set of numbers has a least one.
LEMMA NatMinimum ==
  ASSUME NEW T \in SUBSET Nat, T # {}
  PROVE  \E k \in T : \A i \in T : k <= i
<1> DEFINE R == OpToRel(<, Nat)
<1>1. PICK k \in T : \A i \in T : <<i, k>> \notin R
  BY NatLessThanWellFounded, WFMin
<1>2. \A i \in T : i < k => <<i, k>> \in R
  BY <1>1 DEF OpToRel
<1> HIDE DEF R
<1>3. ASSUME NEW i \in T PROVE k <= i
  <2>1. ~(i < k)
    BY <1>1, <1>2
  <2>2. i \in Nat /\ k \in Nat
    OBVIOUS
  <2> QED BY <2>1, <2>2
<1> QED BY <1>3

\* RemoveFirst takes one occurrence out and keeps the order of the others.
LEMMA RemoveFirstFacts ==
  ASSUME NEW S, NEW s \in Seq(S), NEW e
  PROVE  /\ e \notin ToSet(s) => RemoveFirst(s, e) = s
         /\ e \in ToSet(s) => \E k \in 1..Len(s) :
              /\ s[k] = e
              /\ RemoveFirst(s, e) \in Seq(S)
              /\ Len(RemoveFirst(s, e)) = Len(s) - 1
              /\ \A j \in 1..(Len(s) - 1) :
                   RemoveFirst(s, e)[j] = IF j < k THEN s[j] ELSE s[j + 1]
<1> DEFINE I == {i \in 1..Len(s) : s[i] = e}
<1>1. CASE e \notin ToSet(s)
  <2>1. ~ \E i \in 1..Len(s) : s[i] = e
    BY <1>1 DEF ToSet
  <2> QED BY <1>1, <2>1 DEF RemoveFirst
<1>2. CASE e \in ToSet(s)
  <2>1. I # {} /\ I \subseteq Nat
    BY <1>2 DEF ToSet
  <2>2. PICK k \in I : \A i \in I : k <= i
    BY <2>1, NatMinimum
  <2>3. Min(I) = k
    BY <2>2 DEF Min
  <2>4. RemoveFirst(s, e) = RemoveAt(s, k)
    BY <2>1, <2>3 DEF RemoveFirst, SelectInSeq
  <2> DEFINE before == SubSeq(s, 1, k - 1)
             after == SubSeq(s, k + 1, Len(s))
             t == RemoveFirst(s, e)
  <2>5. /\ before \in Seq(S) /\ Len(before) = k - 1
        /\ \A j \in 1..(k - 1) : before[j] = s[j]
    OBVIOUS
  <2>6. /\ after \in Seq(S) /\ Len(after) = Len(s) - k
        /\ \A j \in 1..(Len(s) - k) : after[j] = s[j + k]
    OBVIOUS
  <2>7. t = before \o after
    BY <2>4 DEF RemoveAt
  <2> HIDE DEF t, before, after
  <2>8. /\ t \in Seq(S) /\ Len(t) = Len(before) + Len(after)
        /\ \A j \in 1..(Len(before) + Len(after)) :
             t[j] = IF j <= Len(before) THEN before[j] ELSE after[j - Len(before)]
    BY <2>5, <2>6, <2>7, ConcatProperties
  <2>9. ASSUME NEW j \in 1..(Len(s) - 1)
        PROVE  t[j] = IF j < k THEN s[j] ELSE s[j + 1]
    <3>0. Len(before) = k - 1 /\ j \in 1..(Len(before) + Len(after)) /\ k \in Nat
      BY <2>2, <2>5, <2>6
    <3>1. CASE j < k
      <4>1. j <= k - 1 /\ j \in 1..(k - 1)
        BY <3>1, <3>0
      <4>2. t[j] = before[j]
        BY <3>0, <4>1, <2>8
      <4> QED BY <3>1, <4>1, <4>2, <2>5
    <3>2. CASE ~(j < k)
      <4>1. j - (k - 1) \in 1..(Len(s) - k) /\ (j - (k - 1)) + k = j + 1
        BY <3>2, <2>2
      <4>2. t[j] = after[j - (k - 1)]
        BY <3>0, <3>2, <2>8
      <4> QED BY <3>2, <4>1, <4>2, <2>6
    <3> QED BY <3>1, <3>2
  <2>10. Len(t) = Len(s) - 1
    BY <2>2, <2>5, <2>6, <2>8
  <2> QED BY <1>2, <2>2, <2>8, <2>9, <2>10 DEF t
<1> QED BY <1>1, <1>2

-----------------------------------------------------------------------------
(***************************************************************************)
(* How a request leaves, and how it gets in line.                          *)
(***************************************************************************)

\* What a step of request r must do to the disk, the clock and Claude Code for the
\* invariant to survive its leaving or getting in line.
DiskKept(r) ==
  /\ UNCHANGED <<authorityVars, claude>>
  /\ file' \in Tokens /\ file' <= live
  /\ record' \in [token : Tokens, posted : Tokens \cup {NoToken}]
  /\ record'.token <= live /\ record'.posted <= expired
  /\ Pending(record') => record'.token = record'.posted + 1
  /\ knownDead' \subseteq Tokens
  /\ faults' \in 0..MaxFaults /\ faults <= faults'
  /\ record' = record \/ \A q \in Requests \ {r} : pc[q] \notin {"stale", "removed"}
  /\ ~lapsed =>
       /\ Pending(record') => record'.token > expired
       /\ record'.token <= file' \/ (Pending(record') /\ record'.posted <= file')
       /\ \A q \in Requests \ {r} : InLine(q) =>
            /\ token[q] <= record'.token /\ token[q] <= file'
            /\ Pending(record') /\ file' = record'.posted => record'.posted <= token[q]
  /\ faults' = 0 =>
       /\ ~Pending(record')
       /\ \/ file' = live
          \/ \E q \in Requests \ {r} : Renewed(q) /\ got[q] = live /\ file' = token[q]
          \/ claude.got = live /\ file' = claude.reads

\* Leaving takes the request out of the line and keeps the order of the others.
LEMMA LeaveLine ==
  ASSUME TypeOK, LineExact, NEW r \in Requests, Leave(r)
  PROVE  /\ line' \in Seq(Requests)
         /\ ToSet(line') = ToSet(line) \ {r}
         /\ \A q \in Requests : q # r /\ line # <<>> /\ line[1] = q => line'[1] = q
         /\ \A i, j \in 1..Len(line') : line'[i] = line'[j] => i = j
         /\ \A i, j \in 1..Len(line') : i < j => \E m, n \in 1..Len(line) :
              m < n /\ line[m] = line'[i] /\ line[n] = line'[j]
<1> DEFINE s == line'
<1>0. line \in Seq(Requests) /\ s = RemoveFirst(line, r)
  BY DEF TypeOK, Leave
<1>1. CASE r \notin ToSet(line)
  <2>1. s = line
    BY <1>0, <1>1, RemoveFirstFacts
  <2> QED BY <1>0, <1>1, <2>1 DEF LineExact
<1>2. CASE r \in ToSet(line)
  <2>1. PICK k \in 1..Len(line) :
          /\ line[k] = r /\ s \in Seq(Requests) /\ Len(s) = Len(line) - 1
          /\ \A j \in 1..(Len(line) - 1) : s[j] = IF j < k THEN line[j] ELSE line[j + 1]
    BY <1>0, <1>2, RemoveFirstFacts
  <2> HIDE DEF s
  <2> DEFINE from(j) == IF j < k THEN j ELSE j + 1
  <2>2. \A i, j \in 1..Len(line) : line[i] = line[j] => i = j
    BY DEF LineExact
  <2>3. \A j \in 1..Len(s) : from(j) \in 1..Len(line) /\ from(j) # k /\ s[j] = line[from(j)]
    BY <1>0, <2>1
  <2>4. \A i, j \in 1..Len(s) : (i < j => from(i) < from(j)) /\ (from(i) = from(j) => i = j)
    BY <2>1
  <2>5. \A m \in 1..Len(line) : m # k => \E j \in 1..Len(s) : from(j) = m
    <3> SUFFICES ASSUME NEW m \in 1..Len(line), m # k
                 PROVE  \E j \in 1..Len(s) : from(j) = m
      OBVIOUS
    <3>1. CASE m < k
      BY <3>1, <2>1, <1>0
    <3>2. CASE m > k
      <4>1. m - 1 \in 1..Len(s) /\ ~(m - 1 < k) /\ (m - 1) + 1 = m
        BY <3>2, <2>1, <1>0
      <4>2. from(m - 1) = m
        BY <4>1
      <4> QED BY <4>1, <4>2
    <3> QED BY <3>1, <3>2, <2>1, <1>0
  <2> HIDE DEF from
  <2>6. ToSet(s) = ToSet(line) \ {r}
    <3>1. ASSUME NEW x \in ToSet(s) PROVE x \in ToSet(line) /\ x # r
      <4>1. PICK j \in 1..Len(s) : x = s[j]
        BY <3>1 DEF ToSet
      <4>2. x = line[from(j)] /\ from(j) \in 1..Len(line) /\ from(j) # k
        BY <4>1, <2>3
      <4> QED BY <4>2, <2>1, <2>2 DEF ToSet
    <3>2. ASSUME NEW x \in ToSet(line), x # r PROVE x \in ToSet(s)
      <4>1. PICK m \in 1..Len(line) : x = line[m] /\ m # k
        BY <3>2, <2>1 DEF ToSet
      <4>2. PICK j \in 1..Len(s) : from(j) = m
        BY <4>1, <2>5
      <4> QED BY <4>1, <4>2, <2>3 DEF ToSet
    <3> QED BY <3>1, <3>2
  <2>7. \A i, j \in 1..Len(s) : s[i] = s[j] => i = j
    BY <2>2, <2>3, <2>4
  <2>8. \A i, j \in 1..Len(s) : i < j => \E m, n \in 1..Len(line) :
          m < n /\ line[m] = s[i] /\ line[n] = s[j]
    BY <2>3, <2>4
  <2>9. ASSUME NEW q \in Requests, q # r, line[1] = q PROVE s[1] = q
    <3>1. 1 < k /\ 1 \in 1..(Len(line) - 1)
      BY <2>9, <2>1, <1>0
    <3> QED BY <3>1, <2>1, <2>9
  <2> QED BY <2>1, <2>6, <2>7, <2>8, <2>9 DEF s
<1> QED BY <1>1, <1>2

\* A request that leaves is idle, and the others stay what they are.
LEMMA LeaveOthers ==
  ASSUME TypeOK, NEW r \in Requests, Leave(r)
  PROVE  /\ pc' \in [Requests -> Phases] /\ pc'[r] = "idle"
         /\ token' \in [Requests -> Tokens \cup {NoToken}]
         /\ got' \in [Requests -> Tokens \cup {NoToken, Refused}]
         /\ since' \in [Requests -> Tokens \cup {NoToken}]
         /\ lock' \in Requests \cup {Claude, Dead, None}
         /\ compromised' = compromised \ {r}
         /\ ~InLine(r)' /\ ~Retrying(r)' /\ ~Renewed(r)'
         /\ \A q \in Requests \ {r} :
              /\ pc'[q] = pc[q] /\ token'[q] = token[q] /\ got'[q] = got[q] /\ since'[q] = since[q]
              /\ (InLine(q)' <=> InLine(q)) /\ (Retrying(q)' <=> Retrying(q)) /\ (Renewed(q)' <=> Renewed(q))
BY DEF TypeOK, Leave, Phases, Locked, InLine, Retrying, Renewed

\* A step that keeps the disk and ends a request keeps the invariant.
LEMMA LeaveKeeps ==
  ASSUME Inductive, NEW r \in Requests, Leave(r), DiskKept(r)
  PROVE  Inductive'
<1>0. TypeOK /\ LineExact /\ Issued /\ Successors /\ OldOnes /\ NewestIsKept /\ Undisturbed
  BY DEF Inductive
<1>1. /\ line' \in Seq(Requests)
      /\ ToSet(line') = ToSet(line) \ {r}
      /\ \A q \in Requests : q # r /\ line # <<>> /\ line[1] = q => line'[1] = q
      /\ \A i, j \in 1..Len(line') : line'[i] = line'[j] => i = j
      /\ \A i, j \in 1..Len(line') : i < j => \E m, n \in 1..Len(line) :
           m < n /\ line[m] = line'[i] /\ line[n] = line'[j]
  BY <1>0, LeaveLine
<1>2. /\ pc' \in [Requests -> Phases] /\ pc'[r] = "idle"
      /\ token' \in [Requests -> Tokens \cup {NoToken}]
      /\ got' \in [Requests -> Tokens \cup {NoToken, Refused}]
      /\ since' \in [Requests -> Tokens \cup {NoToken}]
      /\ lock' \in Requests \cup {Claude, Dead, None}
      /\ compromised' = compromised \ {r}
      /\ ~InLine(r)' /\ ~Retrying(r)' /\ ~Renewed(r)'
  BY <1>0, LeaveOthers
<1>3. \A q \in Requests \ {r} :
        /\ pc'[q] = pc[q] /\ token'[q] = token[q] /\ got'[q] = got[q] /\ since'[q] = since[q]
        /\ (InLine(q)' <=> InLine(q)) /\ (Retrying(q)' <=> Retrying(q)) /\ (Renewed(q)' <=> Renewed(q))
  BY <1>0, LeaveOthers
<1>4. UNCHANGED <<live, expired, lapsed, claude>>
  BY DEF DiskKept, authorityVars
<1>5. TypeOK'
  BY <1>0, <1>1, <1>2, <1>4 DEF TypeOK, DiskKept
<1>6. LineExact'
  <2>1. ToSet(line') = {q \in Requests : InLine(q)'}
    BY <1>0, <1>1, <1>2, <1>3 DEF LineExact
  <2>2. ASSUME NEW q \in Requests, InLine(q)', pc'[q] # "waiting" PROVE line'[1] = q
    <3>1. q # r /\ InLine(q) /\ pc[q] # "waiting"
      BY <2>2, <1>2, <1>3
    <3>2. line[1] = q /\ line # <<>>
      BY <3>1, <1>0 DEF LineExact, ToSet
    <3> QED BY <3>1, <3>2, <1>1
  <2>3. \A p, q \in Requests :
          pc'[p] \in {"stale", "removed"} /\ pc'[q] \in {"stale", "removed"} => p = q
    BY <1>0, <1>2, <1>3 DEF LineExact
  <2> QED BY <1>1, <2>1, <2>2, <2>3 DEF LineExact
<1>7. Issued'
  BY <1>0, <1>2, <1>3, <1>4 DEF Issued, DiskKept
<1>8. Successors'
  BY <1>0, <1>2, <1>3, <1>4 DEF Successors, DiskKept
<1>9. OldOnes'
  BY <1>0, <1>2, <1>3, <1>4 DEF OldOnes, DiskKept, Retrying
<1>10. NewestIsKept'
  <2> SUFFICES ASSUME ~lapsed PROVE NewestIsKept'
    BY <1>4 DEF NewestIsKept
  <2>1. \A q \in Requests : Retrying(q)' => token'[q] > expired
    BY <1>0, <1>2, <1>3 DEF NewestIsKept
  <2>2. \A q \in Requests : InLine(q)' =>
          /\ token'[q] <= record'.token /\ token'[q] <= file'
          /\ Pending(record') /\ file' = record'.posted => record'.posted <= token'[q]
    BY <1>2, <1>3 DEF DiskKept
  <2>3. ASSUME NEW i \in 1..Len(line'), NEW j \in 1..Len(line'), i < j
        PROVE  token'[line'[i]] <= token'[line'[j]]
    <3>1. PICK m \in 1..Len(line), n \in 1..Len(line) :
            m < n /\ line[m] = line'[i] /\ line[n] = line'[j]
      BY <1>1, <2>3
    <3>2. line'[i] \in ToSet(line') /\ line'[j] \in ToSet(line')
      BY DEF ToSet
    <3>3. line[m] \in Requests \ {r} /\ line[n] \in Requests \ {r}
      BY <3>1, <3>2, <1>0, <1>1 DEF TypeOK
    <3>4. token[line[m]] <= token[line[n]]
      BY <3>1, <1>0 DEF NewestIsKept
    <3> QED BY <3>1, <3>3, <3>4, <1>3
  <2> QED BY <1>4, <2>1, <2>2, <2>3 DEF NewestIsKept, DiskKept
<1>11. Undisturbed'
  <2> SUFFICES ASSUME faults' = 0 PROVE Undisturbed'
    BY DEF Undisturbed
  <2>1. faults = 0
    BY <1>0 DEF DiskKept, TypeOK
  <2>2. pc[r] \in Locked => lock = r
    BY <1>0, <2>1 DEF Undisturbed
  <2>3. lock' = IF pc[r] \in Locked THEN None ELSE lock
    BY <1>0, <2>1 DEF Undisturbed, Leave
  <2>4. Claude \notin Requests /\ None # Dead
    BY Owners
  <2>5. compromised' = {} /\ lock' # Dead
    BY <1>0, <1>2, <2>1, <2>3, <2>4 DEF Undisturbed
  <2>6. \A q \in Requests :
          pc'[q] \notin {"pending", "stale", "removed"} /\ (pc'[q] \in Locked => lock' = q)
    BY <1>0, <1>2, <1>3, <2>1, <2>2, <2>3 DEF Undisturbed, Locked
  <2>7. /\ claude'.reads # NoToken => lock' = Claude
        /\ claude'.got # NoToken => claude'.reads # NoToken
    BY <1>0, <1>4, <2>1, <2>2, <2>3, <2>4 DEF Undisturbed
  <2>8. \/ file' = live'
        \/ \E q \in Requests : Renewed(q)' /\ got'[q] = live' /\ file' = token'[q]
        \/ claude'.got = live' /\ file' = claude'.reads
    BY <1>3, <1>4 DEF DiskKept
  <2> QED BY <2>5, <2>6, <2>7, <2>8 DEF Undisturbed, DiskKept
<1> QED BY <1>5, <1>6, <1>7, <1>8, <1>9, <1>10, <1>11 DEF Inductive

\* use() with token t keeps the invariant, if t is the newest token of the line
\* and nothing is pending.
LEMMA UsesKeeps ==
  ASSUME Inductive, NEW r \in Requests, ~InLine(r), NEW t \in Tokens, t <= live,
         NEW dead, Uses(r, t, dead), DiskKept(r),
         ~lapsed /\ t <= expired =>
           /\ t <= record'.token /\ t <= file' /\ ~Pending(record')
           /\ \A q \in Requests : InLine(q) => token[q] <= t
  PROVE  Inductive'
<1>0. TypeOK /\ LineExact /\ Issued /\ Successors /\ OldOnes /\ NewestIsKept /\ Undisturbed
  BY DEF Inductive
<1>1. CASE Leave(r)
  BY <1>1, LeaveKeeps
<1>2. CASE ~Leave(r)
  <2>1. /\ t <= expired
        /\ pc' = [pc EXCEPT ![r] = "waiting"]
        /\ token' = [token EXCEPT ![r] = t]
        /\ line' = Append(line, r)
        /\ got' = [got EXCEPT ![r] = NoToken]
        /\ since' = [since EXCEPT ![r] = IF pc[r] = "idle" THEN live ELSE @]
        /\ lock' = IF pc[r] = "pending" THEN None ELSE lock
        /\ UNCHANGED compromised
    BY <1>0, <1>2 DEF Uses, TypeOK, Tokens
  <2>2. UNCHANGED <<live, expired, lapsed, claude>>
    BY DEF DiskKept, authorityVars
  <2>3. \A q \in Requests \ {r} :
          /\ pc'[q] = pc[q] /\ token'[q] = token[q] /\ got'[q] = got[q] /\ since'[q] = since[q]
          /\ (InLine(q)' <=> InLine(q)) /\ (Retrying(q)' <=> Retrying(q)) /\ (Renewed(q)' <=> Renewed(q))
    BY <1>0, <2>1 DEF TypeOK, InLine, Retrying, Renewed
  <2>4. /\ pc'[r] = "waiting" /\ token'[r] = t /\ got'[r] = NoToken
        /\ since'[r] = (IF pc[r] = "idle" THEN live ELSE since[r])
        /\ InLine(r)' /\ ~Retrying(r)' /\ ~Renewed(r)'
    BY <1>0, <2>1 DEF TypeOK, InLine, Retrying, Renewed
  <2>5. /\ line \in Seq(Requests) /\ line' \in Seq(Requests) /\ Len(line') = Len(line) + 1
        /\ line'[Len(line')] = r
        /\ \A i \in 1..Len(line) : line'[i] = line[i]
    BY <1>0, <2>1 DEF TypeOK
  <2>6. r \notin ToSet(line)
    BY <1>0 DEF LineExact
  <2>7. ToSet(line') = ToSet(line) \cup {r}
    BY <2>5 DEF ToSet
  <2>8. TypeOK'
    <3>1. lock' \in Requests \cup {Claude, Dead, None} /\ compromised' \subseteq Requests
      BY <1>0, <2>1 DEF TypeOK
    <3>2. pc' \in [Requests -> Phases] /\ token' \in [Requests -> Tokens \cup {NoToken}]
      BY <1>0, <2>1 DEF TypeOK, Phases
    <3>3. since' \in [Requests -> Tokens \cup {NoToken}]
      BY <1>0, <2>1 DEF TypeOK
    <3>4. got' \in [Requests -> Tokens \cup {NoToken, Refused}]
      BY <1>0, <2>1 DEF TypeOK
    <3> QED BY <1>0, <2>2, <2>5, <3>1, <3>2, <3>3, <3>4 DEF TypeOK, DiskKept
  <2>9. LineExact'
    <3>1. ToSet(line') = {q \in Requests : InLine(q)'}
      BY <1>0, <2>3, <2>4, <2>7 DEF LineExact
    <3>2. ASSUME NEW i \in 1..Len(line'), NEW j \in 1..Len(line'), line'[i] = line'[j]
          PROVE  i = j
      <4>1. \A m \in 1..Len(line) : line[m] # r
        BY <2>6 DEF ToSet
      <4>2. \A m, n \in 1..Len(line) : line[m] = line[n] => m = n
        BY <1>0 DEF LineExact
      <4> QED BY <2>5, <3>2, <4>1, <4>2
    <3>3. ASSUME NEW q \in Requests, InLine(q)', pc'[q] # "waiting" PROVE line'[1] = q
      <4>1. q # r /\ InLine(q) /\ pc[q] # "waiting"
        BY <3>3, <2>3, <2>4
      <4>2. line[1] = q /\ 1 \in 1..Len(line)
        BY <4>1, <1>0 DEF LineExact, ToSet
      <4> QED BY <4>2, <2>5
    <3>4. \A p, q \in Requests :
            pc'[p] \in {"stale", "removed"} /\ pc'[q] \in {"stale", "removed"} => p = q
      BY <1>0, <2>3, <2>4 DEF LineExact
    <3> QED BY <3>1, <3>2, <3>3, <3>4 DEF LineExact
  <2>10. Issued'
    BY <1>0, <2>2, <2>3, <2>4, TokensAssumption DEF Issued, DiskKept, TypeOK, Tokens
  <2>11. Successors'
    BY <1>0, <2>2, <2>3, <2>4 DEF Successors, DiskKept
  <2>12. OldOnes'
    BY <1>0, <2>1, <2>2, <2>3, <2>4 DEF OldOnes, DiskKept, Retrying
  <2>13. NewestIsKept'
    <3> SUFFICES ASSUME ~lapsed PROVE NewestIsKept'
      BY <2>2 DEF NewestIsKept
    <3>1. \A q \in Requests : Retrying(q)' => token'[q] > expired
      BY <1>0, <2>3, <2>4 DEF NewestIsKept
    <3>2. \A q \in Requests : InLine(q)' =>
            /\ token'[q] <= record'.token /\ token'[q] <= file'
            /\ Pending(record') /\ file' = record'.posted => record'.posted <= token'[q]
      BY <2>1, <2>3, <2>4 DEF DiskKept
    <3>3. ASSUME NEW i \in 1..Len(line'), NEW j \in 1..Len(line'), i < j
          PROVE  token'[line'[i]] <= token'[line'[j]]
      <4>1. i \in 1..Len(line) /\ line'[i] = line[i]
        BY <2>5, <3>3
      <4>2. line[i] \in ToSet(line) /\ line[i] \in Requests
        BY <4>1, <2>5 DEF ToSet
      <4>3. InLine(line[i]) /\ line[i] # r
        BY <4>2, <2>6, <1>0 DEF LineExact
      <4>4. CASE j \in 1..Len(line)
        <5>1. line'[j] = line[j] /\ line[j] \in ToSet(line) /\ line[j] \in Requests \ {r}
          BY <4>4, <2>5, <2>6 DEF ToSet
        <5>2. token[line[i]] <= token[line[j]]
          BY <4>1, <4>4, <3>3, <1>0 DEF NewestIsKept
        <5> QED BY <4>1, <4>2, <4>3, <5>1, <5>2, <2>3
      <4>5. CASE j = Len(line')
        BY <4>1, <4>2, <4>3, <4>5, <2>1, <2>3, <2>4, <2>5
      <4> QED BY <4>4, <4>5, <2>5
    <3> QED BY <2>2, <3>1, <3>2, <3>3 DEF NewestIsKept, DiskKept
  <2>14. Undisturbed'
    <3> SUFFICES ASSUME faults' = 0 PROVE Undisturbed'
      BY DEF Undisturbed
    <3>1. faults = 0
      BY <1>0 DEF DiskKept, TypeOK
    <3>2. lock' = lock /\ compromised' = {} /\ lock' # Dead
      BY <1>0, <2>1, <3>1 DEF Undisturbed
    <3>3. \A q \in Requests :
            pc'[q] \notin {"pending", "stale", "removed"} /\ (pc'[q] \in Locked => lock' = q)
      BY <1>0, <2>3, <2>4, <3>1, <3>2 DEF Undisturbed, Locked
    <3>4. /\ claude'.reads # NoToken => lock' = Claude
          /\ claude'.got # NoToken => claude'.reads # NoToken
      BY <1>0, <2>2, <3>1, <3>2 DEF Undisturbed
    <3>5. \/ file' = live'
          \/ \E q \in Requests : Renewed(q)' /\ got'[q] = live' /\ file' = token'[q]
          \/ claude'.got = live' /\ file' = claude'.reads
      BY <2>2, <2>3 DEF DiskKept
    <3> QED BY <3>2, <3>3, <3>4, <3>5 DEF Undisturbed, DiskKept
  <2> QED BY <2>8, <2>9, <2>10, <2>11, <2>12, <2>13, <2>14 DEF Inductive
<1> QED BY <1>1, <1>2

\* A step that leaves the file and the record alone keeps the disk.
LEMMA SameDisk ==
  ASSUME Inductive, NEW r \in Requests,
         UNCHANGED <<file, record, authorityVars, claude>>, knownDead' \subseteq Tokens,
         Fault \/ (UNCHANGED faults /\ ~Renewed(r))
  PROVE  DiskKept(r)
<1>1. faults' \in 0..MaxFaults /\ faults <= faults' /\ (faults' = 0 => faults = 0 /\ ~Renewed(r))
  BY TokensAssumption DEF Inductive, TypeOK, Fault
<1>2. UNCHANGED <<live, expired, lapsed, claude, file, record>>
  BY DEF authorityVars
<1>3. faults' = 0 =>
        /\ ~Pending(record')
        /\ \/ file' = live
           \/ \E q \in Requests \ {r} : Renewed(q) /\ got[q] = live /\ file' = token[q]
           \/ claude.got = live /\ file' = claude.reads
  BY <1>1, <1>2 DEF Inductive, Undisturbed
<1> QED BY <1>1, <1>2, <1>3
         DEF DiskKept, Inductive, TypeOK, Issued, Successors, OldOnes, NewestIsKept, Undisturbed, authorityVars

\* Adopting the token in the file keeps the disk, unless a renewed one replaces it.
LEMMA AdoptedDisk ==
  ASSUME Inductive, NEW r \in Requests, Runs(r),
         record' = Copy(file), knownDead' \subseteq Tokens,
         UNCHANGED <<file, authorityVars, claude, faults>>,
         Renewed(r) => file # token[r]
  PROVE  DiskKept(r)
<1>1. UNCHANGED <<live, expired, lapsed, claude, file, faults>>
  BY DEF authorityVars
<1>2. record' = [token |-> file, posted |-> NoToken] /\ ~Pending(record')
  BY DEF Copy, Pending
<1>3. faults' = 0 =>
        /\ ~Pending(record')
        /\ \/ file' = live
           \/ \E q \in Requests \ {r} : Renewed(q) /\ got[q] = live /\ file' = token[q]
           \/ claude.got = live /\ file' = claude.reads
  BY <1>1, <1>2 DEF Inductive, Undisturbed
<1>4. file \in Tokens /\ file \in Nat /\ 0 <= expired /\ 0 <= faults /\ faults \in 0..MaxFaults /\ expired \in Nat
  BY TokensAssumption DEF Inductive, TypeOK, Tokens
<1>5. ~lapsed => \A q \in Requests : InLine(q) => token[q] <= file
  BY DEF Inductive, NewestIsKept
<1> QED BY <1>1, <1>2, <1>3, <1>4, <1>5
         DEF DiskKept, Inductive, Issued, Runs, NoToken, authorityVars

-----------------------------------------------------------------------------
(***************************************************************************)
(* The steps of a request.                                                 *)
(***************************************************************************)

\* The token of a pending write is newer than the line, and it has not expired.
LEMMA RetryKeeps ==
  ASSUME Inductive, NEW r \in Requests, Retrying(r), Uses(r, token[r], knownDead),
         UNCHANGED <<file, record, knownDead, authorityVars, claude>>,
         Fault \/ UNCHANGED faults
  PROVE  Inductive'
<1>1. ~InLine(r) /\ ~Renewed(r)
  BY DEF Retrying, InLine, Renewed, Locked
<1>2. token[r] \in Tokens /\ token[r] <= live
  BY DEF Inductive, Issued, Retrying
<1>3. ~lapsed => token[r] > expired
  BY DEF Inductive, NewestIsKept
<1>4. knownDead' \subseteq Tokens
  BY DEF Inductive, TypeOK
<1>5. DiskKept(r)
  BY <1>1, <1>4, SameDisk
<1>6. ~(~lapsed /\ token[r] <= expired)
  BY <1>2, <1>3 DEF Inductive, TypeOK, Tokens
<1> QED BY <1>1, <1>2, <1>5, <1>6, UsesKeeps

LEMMA StartKeeps ==
  ASSUME Inductive, NEW r \in Requests, Start(r)
  PROVE  Inductive'
<1>0. TypeOK /\ LineExact /\ Issued /\ Successors /\ OldOnes /\ NewestIsKept /\ Undisturbed
  BY DEF Inductive
<1> DEFINE rec == Resolved(record)
           dead == IF rec = record THEN knownDead ELSE knownDead \ {record.token}
<1>1. /\ pc[r] = "idle" /\ Runs(r) /\ UNCHANGED <<file, authorityVars, claude>>
      /\ ~InLine(r) /\ ~Retrying(r) /\ ~Renewed(r)
  BY DEF Start, InLine, Retrying, Renewed, Locked
<1>2. rec = record \/ rec = Copy(file)
  BY DEF Resolved
<1>3. dead \subseteq Tokens
  BY <1>0 DEF TypeOK
<1>4. /\ file \in Tokens /\ file \in Nat /\ expired \in Nat /\ live \in Nat /\ file <= live
      /\ record.token \in Tokens /\ record.token \in Nat /\ record.posted \in Nat /\ record.token <= live
      /\ record.posted = NoToken <=> ~Pending(record)
  BY <1>0, TokensAssumption DEF TypeOK, Tokens, NoToken, Issued, Pending
<1>5. ~lapsed /\ record.token <= expired =>
        /\ record.token <= file /\ ~Pending(record)
        /\ \A q \in Requests : InLine(q) => token[q] <= record.token
  BY <1>0, <1>4 DEF NewestIsKept
<1>6. ~lapsed => \A q \in Requests : InLine(q) => token[q] <= file
  BY <1>0 DEF NewestIsKept
<1>7. CASE record' = rec /\ knownDead' = dead /\ Uses(r, rec.token, dead) /\ UNCHANGED faults
  <2>1. CASE rec = record
    <3>1. DiskKept(r)
      BY <1>1, <1>3, <1>7, <2>1, SameDisk
    <3>2. Uses(r, record.token, dead) /\ record' = record /\ file' = file
      BY <1>1, <1>7, <2>1
    <3> HIDE DEF rec, dead
    <3> QED BY <1>1, <1>4, <1>5, <3>1, <3>2, UsesKeeps
  <2>2. CASE rec = Copy(file)
    <3>1. DiskKept(r)
      BY <1>1, <1>3, <1>7, <2>2, AdoptedDisk
    <3>2. Uses(r, file, dead) /\ record' = Copy(file) /\ file' = file
      BY <1>1, <1>7, <2>2 DEF Copy
    <3>3. record'.token = file /\ ~Pending(record')
      BY <3>2 DEF Copy, Pending
    <3> HIDE DEF rec, dead
    <3> QED BY <1>1, <1>4, <1>6, <3>1, <3>2, <3>3, UsesKeeps
  <2> QED BY <1>2, <2>1, <2>2
<1>8. CASE /\ Pending(rec)
           /\ IF lock = None THEN UNCHANGED faults ELSE Abandoned
           /\ pc' = [pc EXCEPT ![r] = IF lock = None THEN "pending" ELSE "stale"]
           /\ token' = [token EXCEPT ![r] = rec.token]
           /\ got' = [got EXCEPT ![r] = rec.posted]
           /\ since' = [since EXCEPT ![r] = live]
           /\ lock' = IF lock = None THEN r ELSE lock
           /\ UNCHANGED <<record, knownDead, line, compromised>>
  <2>1. rec = record /\ Pending(record)
    BY <1>2, <1>8 DEF Pending, Copy
  <2>2. UNCHANGED <<live, expired, lapsed, file, claude, record, knownDead, line, compromised>>
    BY <1>1, <1>8 DEF authorityVars
  <2>3. faults' \in 0..MaxFaults /\ faults <= faults' /\ faults # 0
    BY <1>0, <1>8, <2>1, TokensAssumption DEF Abandoned, Fault, TypeOK, Undisturbed
  <2>4. /\ pc'[r] \in {"pending", "stale"} /\ token'[r] = record.token
        /\ got'[r] = record.posted /\ since'[r] = live
        /\ ~InLine(r)' /\ Retrying(r)' /\ ~Renewed(r)'
    BY <1>0, <1>8, <2>1 DEF TypeOK, InLine, Retrying, Renewed, Locked, Pending
  <2>5. \A q \in Requests \ {r} :
          /\ pc'[q] = pc[q] /\ token'[q] = token[q] /\ got'[q] = got[q] /\ since'[q] = since[q]
          /\ (InLine(q)' <=> InLine(q)) /\ (Retrying(q)' <=> Retrying(q)) /\ (Renewed(q)' <=> Renewed(q))
    BY <1>0, <1>8 DEF TypeOK, InLine, Retrying, Renewed
  <2>6. TypeOK'
    BY <1>0, <1>8, <2>1, <2>2, <2>3 DEF TypeOK, Phases
  <2>7. LineExact'
    <3>1. \A p, q \in Requests :
            pc'[p] \in {"stale", "removed"} /\ pc'[q] \in {"stale", "removed"} => p = q
      BY <1>1, <2>5 DEF Runs
    <3> QED BY <1>0, <1>1, <2>2, <2>4, <2>5, <3>1 DEF LineExact
  <2>8. Issued'
    BY <1>0, <1>4, <2>2, <2>4, <2>5 DEF Issued, TypeOK
  <2>9. Successors'
    BY <1>0, <1>4, <2>1, <2>2, <2>4, <2>5 DEF Successors, Retrying, TypeOK, Pending
  <2>10. OldOnes'
    <3>1. pc'[r] # "pending" => record' = [token |-> token'[r], posted |-> got'[r]]
      BY <1>0, <2>2, <2>4 DEF TypeOK
    <3> QED BY <1>0, <1>1, <2>2, <2>4, <2>5, <3>1 DEF OldOnes, Runs
  <2>11. NewestIsKept'
    <3> SUFFICES ASSUME ~lapsed PROVE NewestIsKept'
      BY <2>2 DEF NewestIsKept
    <3>1. \A q \in Requests :
            /\ Retrying(q)' => token'[q] > expired
            /\ InLine(q)' => token'[q] <= record.token /\ token'[q] <= file
            /\ InLine(q)' /\ Pending(record) /\ file = record.posted => record.posted <= token'[q]
      BY <1>0, <2>1, <2>4, <2>5 DEF NewestIsKept
    <3>2. ASSUME NEW i \in 1..Len(line), NEW j \in 1..Len(line), i < j
          PROVE  token'[line[i]] <= token'[line[j]]
      <4>1. line[i] \in ToSet(line) /\ line[j] \in ToSet(line)
        BY DEF ToSet
      <4>2. line[i] \in Requests \ {r} /\ line[j] \in Requests \ {r}
        BY <4>1, <1>0, <1>1 DEF LineExact
      <4>3. token[line[i]] <= token[line[j]]
        BY <3>2, <1>0 DEF NewestIsKept
      <4> QED BY <4>2, <4>3, <2>5
    <3> QED BY <1>0, <2>2, <3>1, <3>2 DEF NewestIsKept
  <2>12. Undisturbed'
    BY <1>0, <2>3 DEF Undisturbed, TypeOK
  <2> QED BY <2>6, <2>7, <2>8, <2>9, <2>10, <2>11, <2>12 DEF Inductive
<1>9. CASE Fault /\ Uses(r, record.token, knownDead) /\ UNCHANGED <<record, knownDead>>
  <2>1. DiskKept(r)
    BY <1>0, <1>1, <1>9, SameDisk DEF TypeOK
  <2> QED BY <1>1, <1>4, <1>5, <1>9, <2>1, UsesKeeps
<1> QED BY <1>7, <1>8, <1>9 DEF Start

LEMMA PendingWrittenKeeps ==
  ASSUME Inductive, NEW r \in Requests, PendingWritten(r)
  PROVE  Inductive'
<1>0. TypeOK /\ LineExact /\ Issued /\ Successors /\ OldOnes /\ NewestIsKept /\ Undisturbed
  BY DEF Inductive
<1>1. /\ pc[r] = "pending" /\ Retrying(r) /\ ~InLine(r) /\ Runs(r)
      /\ file = got[r] /\ file' = token[r] /\ record' = [token |-> token[r], posted |-> NoToken]
      /\ Uses(r, token[r], knownDead)
      /\ UNCHANGED <<knownDead, authorityVars, claude, faults>>
  BY DEF PendingWritten, Retrying, InLine, Locked, Copy
<1>2. UNCHANGED <<live, expired, lapsed, claude, knownDead, faults>>
  BY <1>1 DEF authorityVars
<1>3. /\ token[r] \in Tokens /\ token[r] \in Nat /\ token[r] <= live /\ expired \in Nat
      /\ got[r] \in Tokens /\ got[r] \in Nat /\ token[r] = got[r] + 1 /\ 0 <= expired
  BY <1>0, <1>1, TokensAssumption DEF Issued, Successors, Tokens, TypeOK
<1>4. faults # 0
  BY <1>0, <1>1 DEF Undisturbed
<1>5. ~lapsed => /\ token[r] > expired
                 /\ \A q \in Requests : InLine(q) => token[q] \in Nat /\ token[q] <= file
  BY <1>0, <1>1 DEF NewestIsKept, Issued, InLine, Tokens, Locked
<1>6. ~Pending(record')
  BY <1>1 DEF Pending
<1>7. DiskKept(r)
  BY <1>0, <1>1, <1>2, <1>3, <1>4, <1>5, <1>6 DEF DiskKept, TypeOK, Runs, NoToken, authorityVars
<1>8. ~(~lapsed /\ token[r] <= expired)
  BY <1>3, <1>5
<1> QED BY <1>1, <1>3, <1>7, <1>8, UsesKeeps

LEMMA PendingSupersededKeeps ==
  ASSUME Inductive, NEW r \in Requests, PendingSuperseded(r)
  PROVE  Inductive'
<1>0. TypeOK /\ Issued /\ NewestIsKept
  BY DEF Inductive
<1>1. /\ ~InLine(r) /\ ~Renewed(r) /\ Runs(r) /\ record' = Copy(file)
      /\ knownDead' = knownDead \ {token[r]}
      /\ Uses(r, file, knownDead \ {token[r]})
      /\ UNCHANGED <<file, authorityVars, claude, faults>>
  BY DEF PendingSuperseded, InLine, Renewed, Locked, Adopts
<1>2. knownDead' \subseteq Tokens
  BY <1>0, <1>1 DEF TypeOK
<1>3. DiskKept(r)
  BY <1>1, <1>2, AdoptedDisk
<1>4. record'.token = file /\ ~Pending(record')
  BY <1>1 DEF Copy, Pending
<1>5. file \in Tokens /\ file \in Nat /\ file <= live
  BY <1>0, TokensAssumption DEF TypeOK, Issued, Tokens
<1>6. ~lapsed => \A q \in Requests : InLine(q) => token[q] <= file
  BY <1>0 DEF NewestIsKept
<1> QED BY <1>1, <1>3, <1>4, <1>5, <1>6, UsesKeeps

LEMMA PendingFailsKeeps ==
  ASSUME Inductive, NEW r \in Requests, PendingFails(r)
  PROVE  Inductive'
<1>1. Retrying(r) /\ Uses(r, token[r], knownDead) /\ Fault
      /\ UNCHANGED <<file, record, knownDead, authorityVars, claude>>
  BY DEF PendingFails, Retrying, diskVars
<1> QED BY <1>1, RetryKeeps

\* A request adopts the file's token and ends.
LEMMA AdoptsFileKeeps ==
  ASSUME Inductive, NEW r \in Requests, Runs(r), AdoptsFile(r)
  PROVE  Inductive'
<1>1. /\ Leave(r) /\ record' = Copy(file) /\ file # token[r]
      /\ UNCHANGED <<file, authorityVars, claude, faults>>
      /\ knownDead' \subseteq Tokens
  BY DEF AdoptsFile, Adopts, Inductive, TypeOK
<1> QED BY <1>1, AdoptedDisk, LeaveKeeps

\* A request ends without a change of the file and the record.
LEMMA EndKeeps ==
  ASSUME Inductive, NEW r \in Requests,
         GiveUp(r) \/ PostFails(r) \/ Rejected(r) \/ Cancel(r)
  PROVE  Inductive'
<1>0. Inductive /\ TypeOK /\ Issued
  BY DEF Inductive
<1>1. /\ Leave(r) /\ UNCHANGED <<file, record, authorityVars, claude>>
      /\ Fault \/ (UNCHANGED faults /\ ~Renewed(r))
  BY TokensAssumption DEF GiveUp, PostFails, Rejected, Cancel, diskVars, Renewed, Refused,
      Tokens
<1>2. knownDead' \subseteq Tokens
  BY <1>0 DEF GiveUp, PostFails, Rejected, Cancel, diskVars, TypeOK, Issued
<1> QED BY <1>0, <1>1, <1>2, SameDisk, LeaveKeeps

LEMMA SupersededKeeps ==
  ASSUME Inductive, NEW r \in Requests, Superseded(r)
  PROVE  Inductive'
<1>1. /\ Leave(r) /\ record' = Copy(file) /\ file # token[r] /\ Runs(r)
      /\ UNCHANGED <<file, authorityVars, claude, faults>>
      /\ knownDead' \subseteq Tokens
  BY DEF Superseded, Swaps, Adopts, Inductive, TypeOK
<1> QED BY <1>1, AdoptedDisk, LeaveKeeps

\* The holder of the line's head, with its answer: nobody behind it has an older
\* token, and the new token is newer than them all.
LEMMA Answered ==
  ASSUME Inductive, NEW r \in Requests, HasNew(r)
  PROVE  /\ InLine(r) /\ Renewed(r)
         /\ got[r] \in Tokens /\ got[r] \in Nat /\ got[r] = token[r] + 1 /\ got[r] <= live
         /\ token[r] \in Tokens /\ token[r] \in Nat /\ token[r] <= expired /\ expired < got[r]
         /\ expired \in Nat
         /\ ~lapsed => token[r] <= file
         /\ \A q \in Requests \ {r} : InLine(q) =>
              /\ token[q] \in Nat /\ token[q] <= expired /\ pc[q] \notin Locked
              /\ ~lapsed => token[r] <= token[q]
<1>0. TypeOK /\ LineExact /\ Issued /\ Successors /\ OldOnes /\ NewestIsKept /\ Undisturbed
  BY DEF Inductive
<1>1. InLine(r) /\ Renewed(r) /\ pc[r] = "answered"
  BY DEF HasNew, InLine, Renewed, Locked
<1>2. /\ got[r] \in Tokens /\ got[r] \in Nat /\ got[r] = token[r] + 1 /\ got[r] <= live
      /\ token[r] \in Tokens /\ token[r] \in Nat /\ token[r] <= expired /\ expired \in Nat
      /\ since[r] < got[r] /\ expired <= since[r] /\ since[r] \in Nat
  BY <1>0, <1>1, TokensAssumption DEF HasNew, Successors, Issued, OldOnes, TypeOK, Tokens,
      NoToken
<1>3. ~lapsed => token[r] <= file
  BY <1>0, <1>1 DEF NewestIsKept
<1>4. line[1] = r /\ line \in Seq(Requests)
  BY <1>0, <1>1 DEF LineExact, TypeOK
<1>5. ASSUME NEW q \in Requests \ {r}, InLine(q)
      PROVE  /\ token[q] \in Nat /\ token[q] <= expired /\ pc[q] \notin Locked
             /\ ~lapsed => token[r] <= token[q]
  <2>1. q \in ToSet(line)
    BY <1>0, <1>5 DEF LineExact
  <2>2. PICK j \in 1..Len(line) : line[j] = q
    BY <2>1 DEF ToSet
  <2>3. 1 \in 1..Len(line) /\ 1 < j
    BY <1>4, <2>2
  <2>4. ~lapsed => token[line[1]] <= token[line[j]]
    BY <1>0, <2>3 DEF NewestIsKept
  <2>5. token[q] \in Nat /\ token[q] <= expired
    BY <1>0, <1>5, TokensAssumption DEF OldOnes, TypeOK, Tokens, NoToken
  <2>6. pc[q] \notin Locked
    BY <1>0, <1>4, <1>5 DEF LineExact, Locked
  <2> QED BY <1>4, <2>2, <2>4, <2>5, <2>6
<1> QED BY <1>1, <1>2, <1>3, <1>5

LEMMA WrittenKeeps ==
  ASSUME Inductive, NEW r \in Requests, Written(r)
  PROVE  Inductive'
<1>0. TypeOK /\ LineExact /\ Issued /\ Successors /\ OldOnes /\ NewestIsKept /\ Undisturbed
  BY DEF Inductive
<1>1. /\ HasNew(r) /\ Runs(r) /\ file = token[r] /\ file' = got[r] /\ Leave(r)
      /\ record' = [token |-> got[r], posted |-> NoToken]
      /\ UNCHANGED <<live, expired, lapsed, claude, knownDead, faults>>
  BY DEF Written, Swaps, Copy, authorityVars
<1>2. /\ InLine(r) /\ Renewed(r)
      /\ got[r] \in Tokens /\ got[r] \in Nat /\ got[r] = token[r] + 1 /\ got[r] <= live
      /\ token[r] \in Nat /\ expired < got[r] /\ expired \in Nat
      /\ \A q \in Requests \ {r} : InLine(q) => token[q] \in Nat /\ token[q] <= expired /\ pc[q] \notin Locked
  BY <1>1, Answered
<1>3. ~Pending(record')
  BY <1>1 DEF Pending
<1>4. faults' = 0 => file' = live
  <2> SUFFICES ASSUME faults = 0 PROVE got[r] = live
    BY <1>1
  <2>1. lock = r /\ pc[r] = "answered"
    BY <1>0, <1>1 DEF Undisturbed, HasNew, Locked
  <2>2. claude.got = NoToken
    BY <1>0, <2>1, Owners DEF Undisturbed
  <2>3. \A q \in Requests : Renewed(q) => q = r
    BY <1>0, <2>1 DEF Undisturbed, Renewed, Locked
  <2>4. file # live /\ live # NoToken
    BY <1>0, <1>1, <1>2 DEF TypeOK, Tokens, NoToken
  <2> QED BY <1>0, <2>2, <2>3, <2>4 DEF Undisturbed
<1>5. faults' \in 0..MaxFaults /\ faults <= faults' /\ knownDead' \subseteq Tokens
  BY <1>0, <1>1 DEF TypeOK
<1>6. DiskKept(r)
  BY <1>1, <1>2, <1>3, <1>4, <1>5 DEF DiskKept, Runs, authorityVars, NoToken
<1> QED BY <1>1, <1>6, LeaveKeeps

LEMMA KeepPendingKeeps ==
  ASSUME Inductive, NEW r \in Requests, KeepPending(r)
  PROVE  Inductive'
<1>0. TypeOK /\ LineExact /\ Issued /\ Successors /\ OldOnes /\ NewestIsKept /\ Undisturbed
  BY DEF Inductive
<1>1. /\ HasNew(r) /\ Runs(r) /\ Leave(r)
      /\ IF r \in compromised THEN UNCHANGED faults ELSE Fault
      /\ record' = [token |-> got[r], posted |-> token[r]]
      /\ UNCHANGED <<live, expired, lapsed, claude, file, knownDead>>
  BY DEF KeepPending, authorityVars
<1>2. /\ InLine(r) /\ Renewed(r)
      /\ got[r] \in Tokens /\ got[r] \in Nat /\ got[r] = token[r] + 1 /\ got[r] <= live
      /\ token[r] \in Tokens /\ token[r] \in Nat /\ token[r] <= expired /\ expired < got[r]
      /\ expired \in Nat
      /\ ~lapsed => token[r] <= file
      /\ \A q \in Requests \ {r} : InLine(q) =>
           /\ token[q] \in Nat /\ token[q] <= expired
           /\ ~lapsed => token[r] <= token[q]
  BY <1>1, Answered
<1>3. faults' \in 0..MaxFaults /\ faults <= faults' /\ faults' # 0
  BY <1>0, <1>1, TokensAssumption DEF TypeOK, Fault, Undisturbed
<1>4. Pending(record') /\ file \in Tokens /\ file <= live /\ knownDead' \subseteq Tokens
  BY <1>0, <1>1, <1>2 DEF Pending, TypeOK, Issued, Tokens, NoToken
<1>5. ~lapsed => \A q \in Requests : InLine(q) => token[q] <= file
  BY <1>0 DEF NewestIsKept
<1>6. DiskKept(r)
  BY <1>1, <1>2, <1>3, <1>4, <1>5 DEF DiskKept, Runs, authorityVars
<1> QED BY <1>1, <1>6, LeaveKeeps

-----------------------------------------------------------------------------
(***************************************************************************)
(* Steps that move a request on, and leave the tokens alone.               *)
(***************************************************************************)

\* A step of request r that keeps its token, its place in line and the disk.
Moves(r, phase) ==
  /\ pc' = [pc EXCEPT ![r] = phase]
  /\ UNCHANGED <<diskVars, authorityVars, token, got, since, line, compromised, claude>>
  /\ Fault \/ UNCHANGED faults

LEMMA MovesKeep ==
  ASSUME Inductive, NEW r \in Requests, NEW phase \in Phases \ {"idle"}, Moves(r, phase),
         pc[r] \notin {"idle", "posting", "answered"}, phase # "answered",
         InLine(r)' <=> InLine(r), Retrying(r)' <=> Retrying(r),
         phase = "waiting" => pc[r] = "waiting",
         InLine(r) => line[1] = r,
         phase \in {"stale", "removed"} =>
           /\ \A q \in Requests \ {r} : pc[q] \notin {"stale", "removed"}
           /\ Retrying(r) => pc[r] # "pending",
         lock' \in Requests \cup {Claude, Dead, None},
         faults' = 0 =>
           /\ phase \notin {"pending", "stale", "removed"} /\ (phase \in Locked => lock' = r)
           /\ lock' = lock \/ lock = None
           /\ lock' # Dead
  PROVE  Inductive'
<1>0. TypeOK /\ LineExact /\ Issued /\ Successors /\ OldOnes /\ NewestIsKept /\ Undisturbed
  BY DEF Inductive
<1>1. UNCHANGED <<file, record, knownDead, live, expired, lapsed, token, got, since, line, compromised, claude>>
  BY DEF Moves, diskVars, authorityVars
<1>2. faults' \in 0..MaxFaults /\ (faults' = 0 => faults = 0)
  BY <1>0, TokensAssumption DEF Moves, Fault, TypeOK
<1>3. /\ pc' \in [Requests -> Phases] /\ pc'[r] = phase
      /\ \A q \in Requests \ {r} : pc'[q] = pc[q]
  BY <1>0 DEF Moves, TypeOK
<1>4. ~Renewed(r)' /\ ~Renewed(r)
  BY <1>3 DEF Renewed
<1>5. \A q \in Requests :
        (InLine(q)' <=> InLine(q)) /\ (Retrying(q)' <=> Retrying(q)) /\ (Renewed(q)' <=> Renewed(q))
  BY <1>1, <1>3, <1>4 DEF InLine, Retrying, Renewed
<1>6. TypeOK'
  BY <1>0, <1>1, <1>2, <1>3 DEF TypeOK
<1>7. LineExact'
  <2>1. \A q \in Requests : InLine(q)' /\ pc'[q] # "waiting" => line'[1] = q
    BY <1>0, <1>1, <1>3, <1>5 DEF LineExact
  <2>2. \A p, q \in Requests :
          pc'[p] \in {"stale", "removed"} /\ pc'[q] \in {"stale", "removed"} => p = q
    BY <1>0, <1>3 DEF LineExact
  <2> QED BY <1>0, <1>1, <1>5, <2>1, <2>2 DEF LineExact
<1>8. Issued'
  BY <1>0, <1>1, <1>3 DEF Issued
<1>9. Successors'
  <2>1. pc'[r] \in {"waiting", "locking", "locked", "posting"} => got[r] = NoToken
    BY <1>0, <1>1, <1>3, <1>5 DEF Successors, InLine, Locked, Retrying
  <2> QED BY <1>0, <1>1, <1>3, <1>5, <2>1 DEF Successors
<1>10. OldOnes'
  BY <1>0, <1>1, <1>3, <1>5 DEF OldOnes, Retrying
<1>11. NewestIsKept'
  BY <1>0, <1>1, <1>5 DEF NewestIsKept
<1>12. Undisturbed'
  <2> SUFFICES ASSUME faults' = 0 PROVE Undisturbed'
    BY DEF Undisturbed
  <2>1. faults = 0
    BY <1>2
  <2>2. claude'.reads # NoToken => lock' = Claude
    BY <1>0, <1>1, <2>1, Owners DEF Undisturbed
  <2>3. \A q \in Requests :
          pc'[q] \notin {"pending", "stale", "removed"} /\ (pc'[q] \in Locked => lock' = q)
    BY <1>0, <1>3, <2>1, Owners DEF Undisturbed
  <2>4. /\ ~Pending(record') /\ lock' # Dead /\ compromised' = {}
        /\ claude'.got # NoToken => claude'.reads # NoToken
    BY <1>0, <1>1, <2>1 DEF Undisturbed
  <2>5. \/ file' = live'
        \/ \E q \in Requests : Renewed(q)' /\ got'[q] = live' /\ file' = token'[q]
        \/ claude'.got = live' /\ file' = claude'.reads
    BY <1>0, <1>1, <1>5, <2>1 DEF Undisturbed
  <2> QED BY <2>2, <2>3, <2>4, <2>5 DEF Undisturbed
<1> QED BY <1>6, <1>7, <1>8, <1>9, <1>10, <1>11, <1>12 DEF Inductive

LEMMA EnterKeeps ==
  ASSUME Inductive, NEW r \in Requests, Enter(r) \/ Post(r)
  PROVE  Inductive'
<1>0. TypeOK /\ LineExact /\ Issued /\ Undisturbed
  BY DEF Inductive
<1>1. /\ pc[r] \in {"waiting", "locked"} /\ Runs(r) /\ KeepsToken(r) /\ UNCHANGED lock
      /\ pc' = [pc EXCEPT ![r] = IF pc[r] = "waiting" THEN "locking" ELSE "posting"]
      /\ pc[r] = "waiting" => Head(line) = r
  BY DEF Enter, Post
<1> DEFINE phase == IF pc[r] = "waiting" THEN "locking" ELSE "posting"
<1>2. Moves(r, phase)
  BY <1>1 DEF Moves, KeepsToken
<1>3. InLine(r) /\ ~Retrying(r) /\ InLine(r)' /\ ~Retrying(r)'
  BY <1>0, <1>1 DEF InLine, Retrying, Locked, TypeOK
<1>4. line[1] = r
  <2>1. CASE pc[r] = "waiting"
    <3>1. line \in Seq(Requests) /\ line # <<>>
      BY <1>0, <1>3 DEF TypeOK, LineExact, ToSet
    <3> QED BY <1>1, <2>1, <3>1
  <2>2. CASE pc[r] # "waiting"
    BY <1>0, <1>3, <2>2 DEF LineExact
  <2> QED BY <2>1, <2>2
<1>5. phase \in Phases \ {"idle"} /\ phase \notin {"waiting", "pending", "stale", "removed", "answered"}
  BY DEF Phases, Locked
<1>6. lock' \in Requests \cup {Claude, Dead, None}
  BY <1>0, <1>1 DEF TypeOK
<1>7. faults' = 0 => faults = 0
  BY <1>0, <1>1 DEF KeepsToken, Fault, TypeOK
<1>8. faults' = 0 => (phase \in Locked => lock' = r) /\ lock' = lock /\ lock' # Dead
  BY <1>0, <1>1, <1>7 DEF Undisturbed, Locked
<1>9. pc[r] \notin {"idle", "posting", "answered"}
  BY <1>1
<1> HIDE DEF phase
<1> QED BY <1>2, <1>3, <1>4, <1>5, <1>6, <1>8, <1>9, MovesKeep

LEMMA TryLockKeeps ==
  ASSUME Inductive, NEW r \in Requests, TryLock(r)
  PROVE  Inductive'
<1>0. TypeOK /\ LineExact /\ Successors /\ Undisturbed
  BY DEF Inductive
<1>1. /\ pc[r] = "locking" /\ Runs(r) /\ got[r] = NoToken /\ got' = got
      /\ InLine(r) /\ ~Retrying(r) /\ line[1] = r
  BY <1>0 DEF TryLock, Successors, InLine, Retrying, LineExact
<1>2. CASE lock = None /\ lock' = r /\ pc' = [pc EXCEPT ![r] = "locked"] /\ UNCHANGED faults
  <2>1. Moves(r, "locked")
    BY <1>2 DEF TryLock, Moves
  <2>2. InLine(r)' /\ ~Retrying(r)'
    BY <1>0, <1>2 DEF InLine, Retrying, Locked, TypeOK
  <2>3. "locked" \in Phases
    BY DEF Phases, Locked
  <2> QED BY <1>1, <1>2, <2>1, <2>2, <2>3, Owners, MovesKeep
<1>3. CASE Abandoned /\ pc' = [pc EXCEPT ![r] = "stale"] /\ UNCHANGED lock
  <2>1. Moves(r, "stale")
    BY <1>3 DEF TryLock, Moves, Abandoned
  <2>2. InLine(r)' /\ ~Retrying(r)'
    BY <1>0, <1>1, <1>3 DEF InLine, Retrying, TypeOK
  <2>3. "stale" \in Phases /\ lock' \in Requests \cup {Claude, Dead, None}
    BY <1>0, <1>3 DEF Phases, TypeOK
  <2>4. faults' # 0
    BY <1>0, <1>3 DEF Abandoned, Fault, Undisturbed, TypeOK
  <2>5. \A q \in Requests \ {r} : pc[q] \notin {"stale", "removed"}
    BY <1>1 DEF Runs
  <2> QED BY <1>1, <2>1, <2>2, <2>3, <2>4, <2>5, MovesKeep
<1> QED BY <1>2, <1>3 DEF TryLock

\* An attempt that failed: the request keeps its place, or a retry is over.
LEMMA BusyKeeps ==
  ASSUME Inductive, NEW r \in Requests, pc[r] \in {"stale", "removed"}, Busy(r), UNCHANGED lock,
         UNCHANGED <<diskVars, authorityVars, claude, faults>>
  PROVE  Inductive'
<1>0. TypeOK /\ LineExact /\ Successors /\ Undisturbed
  BY DEF Inductive
<1>1. r \in ToSet(line) <=> InLine(r)
  BY <1>0 DEF LineExact
<1>2. faults' # 0
  BY <1>0 DEF Undisturbed
<1>3. CASE InLine(r)
  <2>1. Moves(r, "locking") /\ got' = got
    BY <1>1, <1>3 DEF Busy, Moves
  <2>2. got[r] = NoToken /\ ~Retrying(r) /\ line[1] = r
    BY <1>0, <1>3 DEF InLine, Retrying, Locked, LineExact
  <2>3. InLine(r)' /\ ~Retrying(r)' /\ "locking" \in Phases
    BY <1>0, <2>1 DEF InLine, Retrying, Moves, TypeOK, Phases
  <2>4. lock' \in Requests \cup {Claude, Dead, None}
    BY <1>0 DEF TypeOK
  <2> QED BY <1>2, <1>3, <2>1, <2>2, <2>3, <2>4, MovesKeep
<1>4. CASE ~InLine(r)
  <2>1. Uses(r, token[r], knownDead) /\ Retrying(r)
    BY <1>1, <1>4 DEF Busy, InLine, Retrying
  <2> QED BY <2>1, RetryKeeps DEF diskVars
<1> QED BY <1>3, <1>4

LEMMA RemoveStaleKeeps ==
  ASSUME Inductive, NEW r \in Requests, RemoveStale(r)
  PROVE  Inductive'
<1>0. TypeOK /\ LineExact /\ Undisturbed
  BY DEF Inductive
<1>1. pc[r] = "stale" /\ UNCHANGED <<diskVars, authorityVars, claude, faults>> /\ faults' # 0
  BY <1>0 DEF RemoveStale, Undisturbed
<1>2. CASE /\ lock # None /\ lock' = None
           /\ pc' = [pc EXCEPT ![r] = "removed"]
           /\ UNCHANGED <<token, got, since, line, compromised>>
  <2>1. Moves(r, "removed")
    BY <1>1, <1>2 DEF Moves
  <2>2. (InLine(r)' <=> InLine(r)) /\ (Retrying(r)' <=> Retrying(r)) /\ "removed" \in Phases
    BY <1>0, <1>1, <1>2 DEF InLine, Retrying, Locked, TypeOK, Phases
  <2>3. /\ InLine(r) => line[1] = r
        /\ \A q \in Requests \ {r} : pc[q] \notin {"stale", "removed"}
    BY <1>0, <1>1 DEF LineExact
  <2> QED BY <1>1, <1>2, <2>1, <2>2, <2>3, MovesKeep
<1>3. CASE lock = None /\ lock' = None /\ Busy(r)
  BY <1>1, <1>3, BusyKeeps
<1> QED BY <1>2, <1>3 DEF RemoveStale

LEMMA ReplaceKeeps ==
  ASSUME Inductive, NEW r \in Requests, Replace(r)
  PROVE  Inductive'
<1>0. TypeOK /\ LineExact /\ Undisturbed
  BY DEF Inductive
<1>1. pc[r] = "removed" /\ UNCHANGED <<diskVars, authorityVars, claude, faults>> /\ faults' # 0
  BY <1>0 DEF Replace, Undisturbed
<1>2. CASE /\ lock = None /\ lock' = r
           /\ pc' = [pc EXCEPT ![r] = IF r \in ToSet(line) THEN "locked" ELSE "pending"]
           /\ UNCHANGED <<token, got, since, line, compromised>>
  <2> DEFINE phase == IF r \in ToSet(line) THEN "locked" ELSE "pending"
  <2>1. Moves(r, phase)
    BY <1>1, <1>2 DEF Moves
  <2>2. r \in ToSet(line) <=> InLine(r)
    BY <1>0 DEF LineExact
  <2>3. (InLine(r)' <=> InLine(r)) /\ (Retrying(r)' <=> Retrying(r))
    BY <1>0, <1>1, <1>2, <2>2 DEF InLine, Retrying, Locked, TypeOK
  <2>4. InLine(r) => line[1] = r
    BY <1>0, <1>1 DEF LineExact
  <2>5. phase \in Phases \ {"idle"} /\ phase \in {"locked", "pending"}
    BY DEF Phases, Locked
  <2> HIDE DEF phase
  <2> QED BY <1>1, <1>2, <2>1, <2>3, <2>4, <2>5, MovesKeep
<1>3. CASE lock # None /\ lock' = lock /\ Busy(r)
  BY <1>1, <1>3, BusyKeeps
<1> QED BY <1>2, <1>3 DEF Replace

LEMMA AnswerKeeps ==
  ASSUME Inductive, NEW r \in Requests, Answer(r)
  PROVE  Inductive'
<1>0. TypeOK /\ LineExact /\ Issued /\ Successors /\ OldOnes /\ NewestIsKept /\ Undisturbed
  BY DEF Inductive
<1>1. /\ UNCHANGED <<file, record, knownDead, expired, lapsed, token, since, line, lock, compromised, claude, faults>>
      /\ pc[r] = "posting" /\ pc' = [pc EXCEPT ![r] = "answered"]
      /\ \/ /\ token[r] = live /\ live < MaxTokens
            /\ live' = live + 1
            /\ got' = [got EXCEPT ![r] = live + 1]
         \/ /\ token[r] # live
            /\ got' = [got EXCEPT ![r] = Refused]
            /\ live' = live
  BY DEF Answer, diskVars, lockVars
<1>2. live \in Nat /\ live' \in Tokens /\ live' \in Nat /\ live <= live' /\ expired \in Nat /\ 0 < live
  BY <1>0, <1>1, TokensAssumption DEF TypeOK, Tokens
<1>3. /\ pc'[r] = "answered" /\ pc' \in [Requests -> Phases]
      /\ got' \in [Requests -> Tokens \cup {NoToken, Refused}]
      /\ \/ token[r] = live /\ live' = live + 1 /\ got'[r] = live + 1 /\ got'[r] \in Tokens
         \/ token[r] # live /\ live' = live /\ got'[r] = Refused /\ got'[r] \notin Tokens
      /\ got'[r] # NoToken
      /\ \A q \in Requests \ {r} : pc'[q] = pc[q] /\ got'[q] = got[q]
  BY <1>0, <1>1, <1>2, TokensAssumption DEF TypeOK, Phases, Locked, Tokens, Refused, NoToken
<1>4. /\ InLine(r) /\ InLine(r)' /\ ~Retrying(r) /\ ~Retrying(r)' /\ ~Renewed(r)
      /\ Renewed(r)' <=> token[r] = live
      /\ \A q \in Requests \ {r} :
           (InLine(q)' <=> InLine(q)) /\ (Retrying(q)' <=> Retrying(q)) /\ (Renewed(q)' <=> Renewed(q))
  BY <1>1, <1>3 DEF InLine, Retrying, Renewed, Locked
<1>5. TypeOK'
  BY <1>0, <1>1, <1>2, <1>3 DEF TypeOK
<1>6. LineExact'
  BY <1>0, <1>1, <1>3, <1>4 DEF LineExact
<1>7. Issued'
  <2>1. \A q \in Requests : pc[q] # "idle" =>
          token[q] \in Nat /\ since[q] \in Nat
    BY <1>0, TokensAssumption DEF TypeOK, Tokens, NoToken
  <2>2. file \in Nat /\ record.token \in Nat
    BY <1>0, TokensAssumption DEF TypeOK, Tokens
  <2> QED BY <1>0, <1>1, <1>2, <1>3, <2>1, <2>2 DEF Issued
<1>8. Successors'
  <2>1. Renewed(r)' => got'[r] = token'[r] + 1 /\ since'[r] < got'[r] /\ got'[r] <= live'
    BY <1>0, <1>1, <1>2, <1>3, <1>4, TokensAssumption DEF Issued, TypeOK, Tokens, NoToken
  <2>2. \A q \in Requests \ {r} : got[q] \in Nat
    BY <1>0, TokensAssumption DEF TypeOK, Tokens, NoToken, Refused
  <2>3. claude.got \in Nat
    BY <1>0, TokensAssumption DEF TypeOK, Tokens, NoToken
  <2> QED BY <1>0, <1>1, <1>2, <1>3, <1>4, <2>1, <2>2, <2>3 DEF Successors
<1>9. OldOnes'
  BY <1>0, <1>1, <1>3, <1>4 DEF OldOnes
<1>10. NewestIsKept'
  BY <1>0, <1>1, <1>4 DEF NewestIsKept
<1>11. Undisturbed'
  <2> SUFFICES ASSUME faults = 0 PROVE Undisturbed'
    BY <1>1 DEF Undisturbed
  <2>1. lock = r /\ claude.got = NoToken /\ \A q \in Requests : ~Renewed(q)
    BY <1>0, <1>1, <1>4, Owners DEF Undisturbed, Renewed, Locked
  <2>2. file = live
    BY <1>0, <1>2, <2>1 DEF Undisturbed, NoToken
  <2>3. file' = live' \/ (Renewed(r)' /\ got'[r] = live' /\ file' = token'[r])
    <3>1. CASE token[r] = live
      <4>1. live' = live + 1 /\ got'[r] = live + 1 /\ token'[r] = live
        BY <1>1, <1>3, <3>1
      <4> QED BY <1>1, <1>4, <2>2, <3>1, <4>1
    <3>2. CASE token[r] # live
      <4>1. live' = live
        BY <1>3, <3>2
      <4>2. file' = file
        BY <1>1
      <4> QED BY <2>2, <4>1, <4>2
    <3> QED BY <3>1, <3>2
  <2>4. \A q \in Requests :
          pc'[q] \notin {"pending", "stale", "removed"} /\ (pc'[q] \in Locked => lock' = q)
    BY <1>0, <1>1, <1>3, <2>1 DEF Undisturbed
  <2> QED BY <1>0, <1>1, <2>3, <2>4 DEF Undisturbed
<1> QED BY <1>5, <1>6, <1>7, <1>8, <1>9, <1>10, <1>11 DEF Inductive

LEMMA BeatKeeps ==
  ASSUME Inductive, NEW r \in Requests, Beat(r)
  PROVE  Inductive'
<1>0. TypeOK /\ LineExact /\ Issued /\ Successors /\ OldOnes /\ NewestIsKept /\ Undisturbed
  BY DEF Inductive
<1>1. /\ UNCHANGED <<file, record, knownDead, live, expired, lapsed, pc, token, got, since, line, lock, claude, faults>>
      /\ compromised' = compromised \cup {r} /\ pc[r] \in Locked /\ lock # r
  BY DEF Beat, diskVars, authorityVars, requestVars
<1>2. faults # 0
  BY <1>0, <1>1 DEF Undisturbed
<1>3. TypeOK' /\ Undisturbed'
  BY <1>0, <1>1, <1>2 DEF TypeOK, Undisturbed
<1>4. \A q \in Requests :
        (InLine(q)' <=> InLine(q)) /\ (Retrying(q)' <=> Retrying(q)) /\ (Renewed(q)' <=> Renewed(q))
  BY <1>1 DEF InLine, Retrying, Renewed
<1>5. LineExact' /\ Issued' /\ Successors' /\ OldOnes'
  BY <1>0, <1>1, <1>4 DEF LineExact, Issued, Successors, OldOnes
<1>6. NewestIsKept'
  BY <1>0, <1>1, <1>4 DEF NewestIsKept
<1> QED BY <1>3, <1>5, <1>6 DEF Inductive

-----------------------------------------------------------------------------
(***************************************************************************)
(* The server dies, Claude Code, time.                                     *)
(***************************************************************************)
LEMMA CrashKeeps ==
  ASSUME Inductive, Crash
  PROVE  Inductive'
<1>0. TypeOK /\ LineExact /\ Issued /\ Successors /\ OldOnes /\ NewestIsKept /\ Undisturbed
  BY DEF Inductive
<1>1. /\ UNCHANGED <<file, record, knownDead, live, expired, lapsed, claude>>
      /\ pc' = [r \in Requests |-> "idle"] /\ token' = [r \in Requests |-> NoToken]
      /\ got' = [r \in Requests |-> NoToken] /\ since' = [r \in Requests |-> NoToken]
      /\ line' = <<>> /\ compromised' = {} /\ lock' = IF lock \in Requests THEN Dead ELSE lock
  BY DEF Crash, diskVars, authorityVars
<1>2. faults' \in 0..MaxFaults /\ faults' # 0
  BY <1>0, TokensAssumption DEF Crash, Fault, TypeOK
<1>3. \A q \in Requests : pc'[q] = "idle" /\ ~InLine(q)' /\ ~Retrying(q)' /\ ~Renewed(q)'
  BY <1>1 DEF InLine, Retrying, Renewed, Locked
<1>4. TypeOK'
  BY <1>0, <1>1, <1>2 DEF TypeOK, Phases
<1>5. LineExact'
  <2>1. ToSet(<<>>) = {} /\ Len(<<>>) = 0
    BY DEF ToSet
  <2> QED BY <1>1, <1>3, <2>1 DEF LineExact
<1>6. Issued' /\ OldOnes'
  BY <1>0, <1>1, <1>3 DEF Issued, OldOnes
<1>7. Successors'
  BY <1>0, <1>1, <1>3 DEF Successors
<1>8. NewestIsKept' /\ Undisturbed'
  BY <1>0, <1>1, <1>2, <1>3 DEF NewestIsKept, Undisturbed
<1> QED BY <1>4, <1>5, <1>6, <1>7, <1>8 DEF Inductive

\* A step of Claude Code: the requests and the record stay as they are.
LEMMA ClaudeKeeps ==
  ASSUME Inductive, ClaudeLocks \/ ClaudePosts \/ ClaudeEnds \/ ClaudeDies \/ ClaudeSignsIn
  PROVE  Inductive'
<1>0. TypeOK /\ LineExact /\ Issued /\ Successors /\ OldOnes /\ NewestIsKept /\ Undisturbed
  BY DEF Inductive
<1>1. UNCHANGED <<record, knownDead, expired, lapsed, pc, token, got, since, line, compromised>>
  BY DEF ClaudeLocks, ClaudePosts, ClaudeEnds, ClaudeDies, ClaudeSignsIn,
         diskVars, authorityVars, requestVars, lockVars
<1>2. /\ faults' \in 0..MaxFaults /\ faults <= faults' /\ (faults' = 0 => faults = 0)
      /\ ClaudeDies => faults' # 0
  BY <1>0, TokensAssumption
     DEF ClaudeLocks, ClaudePosts, ClaudeEnds, ClaudeDies, ClaudeSignsIn, Abandoned, Fault, TypeOK
<1>3. /\ file \in Nat /\ live \in Nat /\ expired \in Nat /\ 0 < live
      /\ claude.reads \in Nat /\ claude.got \in Nat /\ claude \in [reads : Tokens \cup {NoToken}, got : Tokens \cup {NoToken}]
  BY <1>0, TokensAssumption DEF TypeOK, Tokens, NoToken
\* The file moves forward, to a token that Claude Code was issued.
<1>4. /\ file' \in Tokens /\ file' \in Nat /\ file <= file' /\ file' <= live'
      /\ file' # file => (ClaudeEnds /\ file = claude.reads /\ file' = claude.got) \/ file' = live'
      /\ live' \in Tokens /\ live' \in Nat /\ live <= live'
  <2> DEFINE P ==
        /\ file' \in Tokens /\ file' \in Nat /\ file <= file' /\ file' <= live'
        /\ file' # file => (ClaudeEnds /\ file = claude.reads /\ file' = claude.got) \/ file' = live'
        /\ live' \in Tokens /\ live' \in Nat /\ live <= live'
  <2>0. /\ file \in 1..MaxTokens /\ live \in 1..MaxTokens /\ MaxTokens \in Nat
        /\ claude.got # NoToken => claude.got = claude.reads + 1 /\ claude.got <= live
        /\ claude.reads \in Nat /\ claude.got \in Nat /\ file <= live
    BY <1>0, <1>3, TokensAssumption DEF TypeOK, Tokens, Issued, Successors
  <2>1. ASSUME ClaudeLocks \/ ClaudePosts \/ ClaudeDies PROVE P
    BY <2>0, <2>1 DEF ClaudeLocks, ClaudePosts, ClaudeDies, diskVars, authorityVars, Tokens
  <2>2. ASSUME ClaudeEnds PROVE P
    BY <2>0, <2>2 DEF ClaudeEnds, authorityVars, Tokens, NoToken
  <2>3. ASSUME ClaudeSignsIn PROVE P
    BY <2>0, <2>3 DEF ClaudeSignsIn, Tokens
  <2> HIDE DEF P
  <2>4. P
    BY <2>1, <2>2, <2>3
  <2> QED BY <2>4 DEF P
<1>5. /\ claude' \in [reads : Tokens \cup {NoToken}, got : Tokens \cup {NoToken}]
      /\ claude'.got # NoToken => claude'.got = claude'.reads + 1 /\ claude'.got <= live'
  <2>1. CASE ClaudeLocks \/ ClaudeEnds \/ ClaudeDies
    <3>1. claude' = [reads |-> NoToken, got |-> NoToken]
            \/ claude' = [reads |-> file, got |-> NoToken]
      BY <2>1 DEF ClaudeLocks, ClaudeEnds, ClaudeDies
    <3>2. file \in Tokens
      BY <1>0 DEF TypeOK
    <3> QED BY <3>1, <3>2
  <2>2. CASE ClaudePosts
    <3>1. /\ claude' = [claude EXCEPT !.got = live + 1] /\ claude.reads = live
          /\ live' = live + 1
      BY <2>2 DEF ClaudePosts
    <3>2. claude'.reads = live /\ claude'.got = live + 1
          /\ claude' = [reads |-> claude'.reads, got |-> claude'.got]
      BY <1>3, <3>1
    <3>3. live \in Tokens /\ live + 1 \in Tokens
      BY <1>0, <1>4, <3>1 DEF TypeOK
    <3> QED BY <1>3, <3>1, <3>2, <3>3
  <2>3. CASE ClaudeSignsIn
    <3>1. claude' = claude /\ live <= live'
      BY <1>4, <2>3 DEF ClaudeSignsIn
    <3>2. claude.got # NoToken => claude.got = claude.reads + 1 /\ claude.got <= live
      BY <1>0 DEF Successors
    <3> QED BY <1>3, <1>4, <3>1, <3>2
  <2> QED BY <2>1, <2>2, <2>3
<1>6. \A q \in Requests :
        (InLine(q)' <=> InLine(q)) /\ (Retrying(q)' <=> Retrying(q)) /\ (Renewed(q)' <=> Renewed(q))
  BY <1>1 DEF InLine, Retrying, Renewed
<1>7. \A q \in Requests : token[q] \in Nat /\ since[q] \in Nat /\ got[q] \in Nat
  BY <1>0, TokensAssumption DEF TypeOK, Tokens, NoToken, Refused
<1>8. record.token \in Nat /\ record.posted \in Nat
  BY <1>0, TokensAssumption DEF TypeOK, Tokens, NoToken
<1>9. TypeOK'
  <2>1. lock' \in Requests \cup {Claude, Dead, None}
    BY <1>0 DEF TypeOK, ClaudeLocks, ClaudePosts, ClaudeEnds, ClaudeDies, ClaudeSignsIn,
        lockVars
  <2> QED BY <1>0, <1>1, <1>2, <1>3, <1>4, <1>5, <2>1 DEF TypeOK
<1>10. LineExact' /\ OldOnes'
  BY <1>0, <1>1, <1>6 DEF LineExact, OldOnes
<1>11. Issued'
  BY <1>0, <1>1, <1>3, <1>4, <1>7, <1>8 DEF Issued
<1>12. Successors'
  BY <1>0, <1>1, <1>3, <1>4, <1>5, <1>6, <1>7 DEF Successors
<1>13. NewestIsKept'
  <2> SUFFICES ASSUME ~lapsed PROVE NewestIsKept'
    BY <1>1 DEF NewestIsKept
  <2>1. record.token <= file' \/ (Pending(record) /\ record.posted <= file')
    BY <1>0, <1>3, <1>4, <1>8 DEF NewestIsKept
  <2>2. Pending(record) /\ file' = record.posted => file = record.posted \/ file < record.posted
    BY <1>3, <1>4, <1>8
  <2>3. file < record.posted => ~Pending(record)
    BY <1>0, <1>3, <1>8 DEF NewestIsKept, Successors
  <2>4. \A q \in Requests : InLine(q) =>
          /\ token[q] <= record.token /\ token[q] <= file'
          /\ Pending(record) /\ file' = record.posted => record.posted <= token[q]
    BY <1>0, <1>3, <1>4, <1>7, <2>2, <2>3 DEF NewestIsKept
  <2> QED BY <1>0, <1>1, <1>6, <2>1, <2>4 DEF NewestIsKept
<1>14. Undisturbed'
  <2> SUFFICES ASSUME faults' = 0, faults = 0 PROVE Undisturbed'
    BY <1>2 DEF Undisturbed
  <2> USE Owners
  <2>1. /\ lock' # Dead
        /\ claude'.reads # NoToken => lock' = Claude
        /\ claude'.got # NoToken => claude'.reads # NoToken
    BY <1>0, <1>2 DEF Undisturbed, ClaudeLocks, ClaudePosts, ClaudeEnds, ClaudeDies,
        ClaudeSignsIn,
                    Abandoned, lockVars, NoToken, Fault, TypeOK, Tokens
  <2>2. \A q \in Requests :
          pc[q] \notin {"pending", "stale", "removed"} /\ (pc[q] \in Locked => lock' = q)
    BY <1>0, <1>2 DEF Undisturbed, ClaudeLocks, ClaudePosts, ClaudeEnds, ClaudeDies,
        ClaudeSignsIn,
                    Abandoned, lockVars, Fault, TypeOK
  <2>3. \A q \in Requests : Renewed(q) => pc[q] \in Locked
    BY DEF Renewed, Locked
  <2>4. \/ file' = live'
        \/ \E q \in Requests : Renewed(q) /\ got[q] = live' /\ file' = token[q]
        \/ claude'.got = live' /\ file' = claude'.reads
    <3>1. CASE ClaudeLocks
      <4>1. file' = file /\ live' = live /\ lock = None
        BY <3>1, <1>0, <1>2 DEF ClaudeLocks, diskVars, authorityVars, Abandoned, Fault,
            TypeOK, Undisturbed
      <4>2. claude.reads = NoToken /\ claude.got # live
        BY <3>1, <1>0, <1>3 DEF ClaudeLocks, Undisturbed, NoToken
      <4> QED BY <4>1, <4>2, <1>0 DEF Undisturbed
    <3>2. CASE ClaudePosts
      <4>1. /\ file' = file /\ live' = live + 1 /\ claude'.got = live + 1 /\ claude'.reads = claude.reads
            /\ claude.reads = live /\ claude.got = NoToken
        BY <3>2, <1>3 DEF ClaudePosts, diskVars
      <4>2. lock = Claude
        BY <4>1, <1>0, <1>3 DEF Undisturbed, NoToken
      <4>3. \A q \in Requests : ~Renewed(q)
        BY <4>2, <2>3, <1>0 DEF Undisturbed
      <4>4. file = live
        BY <4>1, <4>3, <1>0, <1>3 DEF Undisturbed, NoToken
      <4> QED BY <4>1, <4>4
    <3>3. CASE ClaudeEnds
      <4>1. /\ live' = live
            /\ file' = IF claude.got # NoToken /\ file = claude.reads THEN claude.got ELSE file
            /\ claude.reads # NoToken
        BY <3>3 DEF ClaudeEnds, authorityVars
      <4>2. \A q \in Requests : ~Renewed(q)
        BY <4>1, <2>3, <1>0 DEF Undisturbed
      <4>3. file = live \/ (claude.got = live /\ file = claude.reads)
        BY <4>2, <1>0 DEF Undisturbed
      <4>4. claude.got # NoToken => claude.got = claude.reads + 1 /\ claude.got <= live
        BY <1>0 DEF Successors
      <4> QED BY <4>1, <4>3, <4>4, <1>3 DEF NoToken
    <3>4. CASE ClaudeDies
      BY <3>4, <1>2
    <3>5. CASE ClaudeSignsIn
      BY <3>5 DEF ClaudeSignsIn
    <3> QED BY <3>1, <3>2, <3>3, <3>4, <3>5
  <2> QED BY <1>0, <1>1, <1>6, <2>1, <2>2, <2>4 DEF Undisturbed
<1> QED BY <1>9, <1>10, <1>11, <1>12, <1>13, <1>14 DEF Inductive

LEMMA ExpireKeeps ==
  ASSUME Inductive, Expire
  PROVE  Inductive'
<1>0. TypeOK /\ LineExact /\ Issued /\ Successors /\ OldOnes /\ NewestIsKept /\ Undisturbed
  BY DEF Inductive
<1>1. /\ UNCHANGED <<file, record, knownDead, live, pc, token, got, since, line, lock, compromised, claude, faults>>
      /\ expired < live /\ expired' = expired + 1
      /\ \A r \in Requests : pc[r] # "idle" => expired < since[r]
      /\ lapsed' = \/ lapsed
                   \/ Pending(record) /\ record.token = expired'
                   \/ \E r \in Requests : pc[r] = "pending" /\ token[r] = expired'
  BY DEF Expire, diskVars, requestVars, lockVars
<1>2. expired \in Nat /\ live \in Nat /\ expired' \in Nat /\ expired <= expired' /\ expired' <= live
  BY <1>0, <1>1, TokensAssumption DEF TypeOK, Tokens
<1>3. \A q \in Requests :
        (InLine(q)' <=> InLine(q)) /\ (Retrying(q)' <=> Retrying(q)) /\ (Renewed(q)' <=> Renewed(q))
  BY <1>1 DEF InLine, Retrying, Renewed
<1>4. /\ \A q \in Requests : token[q] \in Nat /\ since[q] \in Nat /\ got[q] \in Nat
      /\ record.token \in Nat /\ record.posted \in Nat
  <2>1. Tokens \subseteq Nat /\ NoToken \in Nat /\ Refused \in Nat
    BY TokensAssumption DEF Tokens, NoToken, Refused
  <2>2. \A q \in Requests : token[q] \in Nat /\ since[q] \in Nat
    BY <1>0, <2>1 DEF TypeOK
  <2>3. \A q \in Requests : got[q] \in Nat
    BY <1>0, <2>1 DEF TypeOK
  <2>4. record.token \in Nat /\ record.posted \in Nat
    BY <1>0, <2>1 DEF TypeOK
  <2> QED BY <2>2, <2>3, <2>4
<1>5. TypeOK'
  BY <1>0, <1>1, <1>2 DEF TypeOK
<1>6. LineExact' /\ Successors' /\ Undisturbed'
  BY <1>0, <1>1, <1>3 DEF LineExact, Successors, Undisturbed
<1>7. Issued'
  BY <1>0, <1>1, <1>2, <1>4 DEF Issued
<1>8. OldOnes'
  BY <1>0, <1>1, <1>2, <1>3, <1>4 DEF OldOnes
<1>9. NewestIsKept'
  <2> SUFFICES ASSUME ~lapsed' PROVE NewestIsKept'
    BY DEF NewestIsKept
  <2>1. ~lapsed /\ (Pending(record) => record.token # expired')
    BY <1>0, <1>1 DEF TypeOK
  <2>2. Pending(record) => record.token > expired'
    BY <1>0, <1>1, <1>2, <1>4, <2>1 DEF NewestIsKept
  <2>3. ASSUME NEW q \in Requests, Retrying(q) PROVE token[q] > expired'
    <3>1. token[q] > expired
      BY <1>0, <2>1, <2>3 DEF NewestIsKept
    <3>2. CASE pc[q] = "pending"
      BY <1>1, <1>2, <1>4, <3>1, <3>2, <2>1, <2>3
    <3>3. CASE pc[q] # "pending"
      <4>1. record = [token |-> token[q], posted |-> got[q]] /\ got[q] # NoToken
        BY <1>0, <2>3, <3>3 DEF OldOnes, Retrying
      <4>2. Pending(record) /\ record.token = token[q]
        BY <4>1 DEF Pending
      <4> QED BY <2>2, <4>2
    <3> QED BY <3>2, <3>3
  <2> QED BY <1>0, <1>1, <1>3, <2>1, <2>2, <2>3 DEF NewestIsKept
<1> QED BY <1>5, <1>6, <1>7, <1>8, <1>9 DEF Inductive

-----------------------------------------------------------------------------
LEMMA InitInductive == Init => Inductive
<1> SUFFICES ASSUME Init PROVE Inductive
  OBVIOUS
<1>1. 1 \in Tokens /\ 0 \in 0..MaxFaults
  BY TokensAssumption DEF Tokens
<1>2. \A r \in Requests : pc[r] = "idle" /\ ~InLine(r) /\ ~Retrying(r) /\ ~Renewed(r)
  BY DEF Init, InLine, Retrying, Renewed, Locked
<1>3. TypeOK
  <2>1. /\ pc \in [Requests -> Phases] /\ token \in [Requests -> Tokens \cup {NoToken}]
        /\ got \in [Requests -> Tokens \cup {NoToken, Refused}]
        /\ since \in [Requests -> Tokens \cup {NoToken}]
    BY DEF Init, Phases
  <2>2. /\ record \in [token : Tokens, posted : Tokens \cup {NoToken}]
        /\ claude \in [reads : Tokens \cup {NoToken}, got : Tokens \cup {NoToken}]
    BY <1>1 DEF Init
  <2>3. /\ line \in Seq(Requests) /\ expired \in Nat /\ expired <= live
        /\ file \in Tokens /\ live \in Tokens /\ knownDead \subseteq Tokens
    BY <1>1 DEF Init
  <2>4. /\ lock \in Requests \cup {Claude, Dead, None} /\ compromised \subseteq Requests
        /\ faults \in 0..MaxFaults /\ lapsed \in BOOLEAN
    BY <1>1 DEF Init
  <2> QED BY <2>1, <2>2, <2>3, <2>4 DEF TypeOK
<1>4. LineExact
  <2>1. ToSet(<<>>) = {} /\ Len(<<>>) = 0
    BY DEF ToSet
  <2> QED BY <1>2, <2>1 DEF Init, LineExact
<1>5. Issued /\ OldOnes /\ Successors
  BY <1>2 DEF Init, Issued, OldOnes, Successors, Pending, NoToken
<1>6. NewestIsKept
  <2>1. Len(line) = 0 /\ ~Pending(record) /\ record.token <= file
    BY DEF Init, Pending
  <2> QED BY <1>2, <2>1 DEF NewestIsKept
<1>7. Undisturbed
  BY <1>2, Owners DEF Init, Undisturbed, Pending, Locked
<1> QED BY <1>3, <1>4, <1>5, <1>6, <1>7 DEF Inductive

LEMMA StutterKeeps ==
  ASSUME Inductive, UNCHANGED vars
  PROVE  Inductive'
<1>1. UNCHANGED <<file, record, knownDead, live, expired, lapsed, pc, token, got, since,
                  line, lock, compromised, claude, faults>>
  BY DEF vars, diskVars, authorityVars, requestVars, lockVars
<1>2. \A q \in Requests :
        (InLine(q)' <=> InLine(q)) /\ (Retrying(q)' <=> Retrying(q)) /\ (Renewed(q)' <=> Renewed(q))
  BY <1>1 DEF InLine, Retrying, Renewed
<1> QED BY <1>1, <1>2 DEF Inductive, TypeOK, LineExact, Issued, Successors, OldOnes,
    NewestIsKept, Undisturbed

LEMMA NextKeeps ==
  ASSUME Inductive, [Next]_vars
  PROVE  Inductive'
<1>1. ASSUME NEW r \in Requests, Start(r) \/ RequestStep(r) \/ Answer(r) \/ Beat(r) \/ Cancel(r)
      PROVE  Inductive'
  <2>1. CASE RequestStep(r)
    <3>1. CASE PendingWritten(r) \/ PendingSuperseded(r) \/ PendingFails(r)
      BY <3>1, PendingWrittenKeeps, PendingSupersededKeeps, PendingFailsKeeps
    <3>2. CASE EnterAdopts(r) \/ CheckAdopts(r)
      BY <3>2, AdoptsFileKeeps DEF EnterAdopts, CheckAdopts
    <3>3. CASE Enter(r) \/ Post(r) \/ TryLock(r) \/ RemoveStale(r) \/ Replace(r)
      BY <3>3, EnterKeeps, TryLockKeeps, RemoveStaleKeeps, ReplaceKeeps
    <3>4. CASE GiveUp(r) \/ PostFails(r) \/ Rejected(r)
      BY <3>4, EndKeeps
    <3>5. CASE Written(r) \/ Superseded(r) \/ KeepPending(r)
      BY <3>5, WrittenKeeps, SupersededKeeps, KeepPendingKeeps
    <3> QED BY <2>1, <3>1, <3>2, <3>3, <3>4, <3>5 DEF RequestStep
  <2> QED BY <1>1, <2>1, StartKeeps, AnswerKeeps, BeatKeeps, EndKeeps
<1> QED BY <1>1, CrashKeeps, ClaudeKeeps, ExpireKeeps, StutterKeeps DEF Next

\* Every reachable state satisfies the inductive invariant.
THEOREM InductiveCorrect == Spec => []Inductive
<1>1. Inductive /\ [Next]_vars => Inductive'
  BY NextKeeps
<1> QED BY InitInductive, <1>1, PTL DEF Spec

-----------------------------------------------------------------------------
(***************************************************************************)
(* What the invariant gives.                                               *)
(***************************************************************************)

\* A write-back never replaces a token it did not post: the three writers of the
\* file write the successor of what it holds, or a token issued later.
THEOREM FileOnlyAdvancesCorrect == Spec => FileOnlyAdvances
<1>1. ASSUME Inductive, [Next]_vars
      PROVE  [file' >= file]_vars
  <2>0. file \in Nat /\ file' \in Nat
    <3>1. Inductive'
      BY <1>1, NextKeeps
    <3> QED BY <1>1, <3>1, TokensAssumption DEF Inductive, TypeOK, Tokens
  <2>1. ASSUME NEW r \in Requests, PendingWritten(r) PROVE file' >= file
    <3>1. Retrying(r) /\ file = got[r] /\ file' = token[r]
      BY <2>1 DEF PendingWritten, Retrying
    <3> QED BY <1>1, <2>0, <3>1 DEF Inductive, Successors
  <2>2. ASSUME NEW r \in Requests, Written(r) PROVE file' >= file
    <3>1. file = token[r] /\ file' = got[r] /\ HasNew(r)
      BY <2>2 DEF Written, Swaps
    <3>2. got[r] = token[r] + 1
      BY <1>1, <3>1, Answered
    <3> QED BY <2>0, <3>1, <3>2
  <2>3. ASSUME ClaudeEnds PROVE file' >= file
    BY <1>1, <2>0, <2>3 DEF ClaudeEnds, Inductive, Successors
  <2>4. ASSUME ClaudeSignsIn PROVE file' >= file
    <3>1. file <= live /\ live \in Nat /\ file' = live + 1
      BY <1>1, <2>4, TokensAssumption DEF ClaudeSignsIn, Inductive, Issued, TypeOK, Tokens
    <3> QED BY <2>0, <3>1
  <2>5. CASE file' = file
    BY <2>0, <2>5
  <2>6. ASSUME NEW r \in Requests, Start(r) \/ RequestStep(r) \/ Answer(r) \/ Beat(r) \/ Cancel(r)
        PROVE  PendingWritten(r) \/ Written(r) \/ file' = file
    BY <2>6 DEF Start, RequestStep, Answer, Beat, Cancel, PendingSuperseded, PendingFails,
                EnterAdopts, Enter, TryLock, RemoveStale, Replace, GiveUp, CheckAdopts, Post,
                PostFails, Rejected, Superseded, KeepPending, AdoptsFile, KeepsToken, diskVars
  <2>7. ASSUME Crash \/ ClaudeLocks \/ ClaudePosts \/ ClaudeDies \/ Expire PROVE file' = file
    BY <2>7 DEF Crash, ClaudeLocks, ClaudePosts, ClaudeDies, Expire, diskVars
  <2>8. UNCHANGED vars => file' = file
    BY DEF vars, diskVars
  <2> QED BY <1>1, <2>1, <2>2, <2>3, <2>4, <2>5, <2>6, <2>7, <2>8 DEF Next
<1>2. Inductive /\ [Next]_vars => [file' >= file]_vars
  BY <1>1
<1> QED BY InductiveCorrect, <1>2, PTL DEF Spec, FileOnlyAdvances

\* Single flight: only Post moves a request from the locks to the POST, and in an
\* undisturbed state its token is the file's and the file's is the newest.
THEOREM OnePostPerTokenCorrect == Spec => OnePostPerToken
<1> DEFINE Single == \A r \in Requests :
             faults' = 0 /\ pc[r] = "locked" /\ pc'[r] = "posting" => token[r] = live
<1>1. ASSUME Inductive, [Next]_vars
      PROVE  Single
  <2> SUFFICES ASSUME NEW r \in Requests, faults' = 0, pc[r] = "locked", pc'[r] = "posting"
               PROVE  token[r] = live
    OBVIOUS
  <2>1. pc \in [Requests -> Phases] /\ faults \in 0..MaxFaults /\ live \in Nat /\ 0 < live
    BY <1>1, TokensAssumption DEF Inductive, TypeOK, Tokens
  <2>2. ASSUME NEW q \in Requests, Start(q) \/ RequestStep(q) \/ Answer(q) \/ Beat(q) \/ Cancel(q)
        PROVE  Post(r)
    <3>1. CASE q # r
      <4>1. pc'[r] = pc[r]
        BY <2>1, <2>2, <3>1
           DEF Start, RequestStep, Answer, Beat, Cancel, PendingWritten, PendingSuperseded, PendingFails,
               EnterAdopts, Enter, TryLock, RemoveStale, Replace, GiveUp, CheckAdopts, Post,
               PostFails, Rejected, Written, Superseded, KeepPending, AdoptsFile, KeepsToken,
               Uses, Leave, Busy, requestVars
      <4> QED BY <4>1
    <3>2. CASE q = r
      BY <2>1, <2>2, <3>2
         DEF Start, RequestStep, Answer, Beat, Cancel, PendingWritten, PendingSuperseded, PendingFails,
             EnterAdopts, Enter, TryLock, RemoveStale, Replace, GiveUp, CheckAdopts,
             PostFails, Rejected, Written, Superseded, KeepPending, AdoptsFile, HasNew,
             Leave, requestVars
    <3> QED BY <3>1, <3>2
  <2>3. ASSUME Crash \/ ClaudeLocks \/ ClaudePosts \/ ClaudeEnds \/ ClaudeDies \/ ClaudeSignsIn
               \/ Expire \/ UNCHANGED vars
        PROVE  FALSE
    BY <2>3, <2>1 DEF Crash, ClaudeLocks, ClaudePosts, ClaudeEnds, ClaudeDies, ClaudeSignsIn,
        Expire,
                      vars, requestVars
  <2>4. Post(r)
    BY <1>1, <2>2, <2>3 DEF Next
  <2>5. faults = 0 /\ file = token[r]
    BY <2>1, <2>4 DEF Post, KeepsToken, Fault
  <2>6. Undisturbed /\ lock = r /\ ~Renewed(r)
    BY <1>1, <2>5 DEF Inductive, Undisturbed, Locked, Renewed
  <2>7. claude.got = NoToken /\ \A q \in Requests : ~Renewed(q)
    BY <2>5, <2>6, Owners DEF Undisturbed, Renewed, Locked
  <2> QED BY <2>1, <2>5, <2>6, <2>7 DEF Undisturbed, NoToken
<1>2. Inductive /\ [Next]_vars => [Single]_vars
  BY <1>1
<1> QED BY InductiveCorrect, <1>2, PTL DEF Spec, OnePostPerToken

\* A token that could not be written back stays in the record: whoever replaces it
\* holds the token that was posted, or one that is not older.
THEOREM PendingIsKeptCorrect == Spec => PendingIsKept
<1> DEFINE Kept == Pending(record) /\ file = record.posted /\ ~lapsed =>
                     record'.token = record.token
<1>1. ASSUME Inductive, [Next]_vars
      PROVE  Kept
  <2> SUFFICES ASSUME Pending(record), file = record.posted, ~lapsed
               PROVE  record'.token = record.token
    OBVIOUS
  <2>0. TypeOK /\ LineExact /\ Issued /\ Successors /\ OldOnes /\ NewestIsKept
    BY <1>1 DEF Inductive
  <2>1. /\ record.token = file + 1 /\ record.token > expired /\ file <= expired
        /\ file \in Nat /\ expired \in Nat /\ record.token \in Nat
    BY <2>0, TokensAssumption DEF Successors, NewestIsKept, OldOnes, TypeOK, Tokens
  \* A request in line holds the posted token.
  <2>2. ASSUME NEW r \in Requests, InLine(r) PROVE token[r] = file
    BY <2>0, <2>1, <2>2, TokensAssumption DEF NewestIsKept, TypeOK, Tokens, NoToken
  \* A retry is about to write the pending token.
  <2>3. ASSUME NEW r \in Requests, Retrying(r) PROVE got[r] = file /\ token[r] = file + 1
    <3>1. /\ got[r] \in Nat /\ token[r] = got[r] + 1 /\ token[r] > expired /\ got[r] <= expired
      BY <2>0, <2>3, TokensAssumption DEF Successors, NewestIsKept, OldOnes, Tokens
    <3> QED BY <2>1, <3>1
  <2>4. ASSUME NEW r \in Requests, AdoptsFile(r), InLine(r) PROVE FALSE
    BY <2>2, <2>4 DEF AdoptsFile
  <2>5. ASSUME NEW r \in Requests, Start(r) PROVE record' = record
    BY <2>5 DEF Start, Resolved
  <2>6. ASSUME NEW r \in Requests, PendingWritten(r) PROVE record'.token = file + 1
    BY <2>3, <2>6 DEF PendingWritten, Retrying, Copy
  <2>7. ASSUME NEW r \in Requests, PendingSuperseded(r) PROVE FALSE
    BY <2>3, <2>7 DEF PendingSuperseded, Retrying
  <2>8. ASSUME NEW r \in Requests, EnterAdopts(r) \/ CheckAdopts(r) PROVE FALSE
    BY <2>4, <2>8 DEF EnterAdopts, CheckAdopts, InLine, Locked
  <2>9. ASSUME NEW r \in Requests, HasNew(r)
        PROVE  got[r] = file + 1 /\ token[r] = file
    BY <1>1, <2>2, <2>9, Answered
  <2>10. ASSUME NEW r \in Requests, Written(r) \/ KeepPending(r) PROVE record'.token = file + 1
    BY <2>9, <2>10 DEF Written, KeepPending, Copy
  <2>11. ASSUME NEW r \in Requests, Superseded(r) PROVE FALSE
    BY <2>9, <2>11 DEF Superseded, Swaps
  <2>12. ASSUME NEW r \in Requests,
                \/ PendingFails(r) \/ Enter(r) \/ TryLock(r) \/ RemoveStale(r) \/ Replace(r)
                \/ GiveUp(r) \/ Post(r) \/ PostFails(r) \/ Rejected(r)
                \/ Answer(r) \/ Beat(r) \/ Cancel(r)
         PROVE  record' = record
    BY <2>12 DEF PendingFails, Enter, TryLock, RemoveStale, Replace, GiveUp, Post, PostFails,
                 Rejected, Answer, Beat, Cancel, KeepsToken, diskVars
  <2>13. ASSUME Crash \/ ClaudeLocks \/ ClaudePosts \/ ClaudeEnds \/ ClaudeDies \/ ClaudeSignsIn
                \/ Expire \/ UNCHANGED vars
         PROVE  record' = record
    BY <2>13 DEF Crash, ClaudeLocks, ClaudePosts, ClaudeEnds, ClaudeDies, ClaudeSignsIn, Expire,
                 vars, diskVars
  <2> QED BY <1>1, <2>1, <2>5, <2>6, <2>7, <2>8, <2>10, <2>11, <2>12, <2>13 DEF Next,
      RequestStep
<1>2. Inductive /\ [Next]_vars => [Kept]_vars
  BY <1>1
<1> QED BY InductiveCorrect, <1>2, PTL DEF Spec, PendingIsKept
=============================================================================
