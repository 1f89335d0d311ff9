--------------------- MODULE ProviderGenerations_proofs ---------------------
(***************************************************************************)
(* Proofs about ProviderGenerations: the three layers of the inductive     *)
(* invariant, each with one step per action, and what follows from them.   *)
(***************************************************************************)
EXTENDS ProviderGenerations, FiniteSetTheorems, TLAPS

\* There are finitely many lease holders.
LEMMA FiniteHolders == IsFiniteSet(Holders)
<1>1. IsFiniteSet(Gen)
  BY FS_Interval, MaxGenAssumption DEF Gen
<1>2. IsFiniteSet(Requests \cup {Sweep})
  BY FS_AddElement, HoldersAssumption
<1>. QED BY <1>1, <1>2, FS_Union DEF Holders

\* Lessees of a generation are finitely many.
LEMMA FiniteLessees == ASSUME NEW g PROVE IsFiniteSet(Lessees(g))
  BY FiniteHolders, FS_Subset DEF Lessees

\* Taking a lease keeps the count exact.
LEMMA TakeCounts ==
  ASSUME TypeOK, LeaseAccounting, NEW h \in Holders, NEW g \in Gen,
         lease[h] = NoGen, Take(h, g)
  PROVE  /\ LeaseAccounting'
         /\ lease' \in [Holders -> Gen \cup {NoGen}]
         /\ leases' \in [Gen -> Nat]
<1>0. NoGen \notin Gen BY MaxGenAssumption DEF NoGen, Gen
<1>1. ASSUME NEW k \in Gen PROVE leases'[k] = Cardinality(Lessees(k)')
  <2>1. CASE k = g
    <3>1. Lessees(k)' = Lessees(k) \cup {h} BY <2>1 DEF Lessees, Take, TypeOK
    <3>2. h \notin Lessees(k) BY <1>0 DEF Lessees
    <3>3. Cardinality(Lessees(k) \cup {h}) = Cardinality(Lessees(k)) + 1
      BY <3>2, FiniteLessees, FS_AddElement
    <3>. QED BY <2>1, <3>1, <3>3 DEF Take, TypeOK, LeaseAccounting
  <2>2. CASE k # g
    <3>1. Lessees(k)' = Lessees(k) BY <2>2, <1>0 DEF Lessees, Take, TypeOK
    <3>. QED BY <2>2, <3>1 DEF Take, TypeOK, LeaseAccounting
  <2>. QED BY <2>1, <2>2
<1>2. lease' \in [Holders -> Gen \cup {NoGen}] BY DEF Take, TypeOK
<1>3. leases' \in [Gen -> Nat] BY DEF Take, TypeOK
<1>. QED BY <1>1, <1>2, <1>3 DEF LeaseAccounting

\* Dropping a lease keeps the count exact; there was one to drop.
LEMMA DropCounts ==
  ASSUME TypeOK, LeaseAccounting, NEW h \in Holders, NEW d \in Gen, lease[h] = d, Drop(h)
  PROVE  /\ LeaseAccounting'
         /\ lease' \in [Holders -> Gen \cup {NoGen}]
         /\ leases' \in [Gen -> Nat]
         /\ leases[d] > 0
<1>0. NoGen \notin Gen BY MaxGenAssumption DEF NoGen, Gen
<1>1. Lessees(d)' = Lessees(d) \ {h} BY <1>0 DEF Lessees, Drop, TypeOK
<1>2. h \in Lessees(d) BY DEF Lessees
<1>3. /\ Cardinality(Lessees(d) \ {h}) = Cardinality(Lessees(d)) - 1
      /\ Cardinality(Lessees(d)) \in Nat
      /\ Cardinality(Lessees(d) \ {h}) \in Nat
  BY <1>2, FiniteLessees, FS_RemoveElement, FS_CardinalityType, FS_Subset, <1>1
<1>4. leases[d] = Cardinality(Lessees(d)) BY DEF LeaseAccounting
<1>5. leases[d] > 0 /\ leases[d] - 1 \in Nat BY <1>3, <1>4
<1>6. ASSUME NEW k \in Gen PROVE leases'[k] = Cardinality(Lessees(k)')
  <2>1. CASE k = d BY <2>1, <1>1, <1>3, <1>4 DEF Drop, TypeOK
  <2>2. CASE k # d
    <3>1. Lessees(k)' = Lessees(k) BY <2>2, <1>0 DEF Lessees, Drop, TypeOK
    <3>. QED BY <2>2, <3>1 DEF Drop, TypeOK, LeaseAccounting
  <2>. QED BY <2>1, <2>2
<1>7. lease' \in [Holders -> Gen \cup {NoGen}] BY DEF Drop, TypeOK
<1>8. leases' \in [Gen -> Nat] BY <1>5 DEF Drop, TypeOK
<1>. QED BY <1>5, <1>6, <1>7, <1>8 DEF LeaseAccounting

\* An action that moves no lease keeps every count.
LEMMA SameCounts ==
  ASSUME LeaseAccounting, UNCHANGED leaseVars
  PROVE  LeaseAccounting'
  BY DEF LeaseAccounting, Lessees, leaseVars

(***************************************************************************)
(* Layer 1: leases.                                                        *)
(***************************************************************************)

\* _cancel_refresh starts and ends no sweep by itself.
LEMMA CancelTypes ==
  ASSUME TypeOK, CancelRefresh
  PROVE  /\ refreshTask' = NoGen
         /\ awaited' \in Gen \cup {NoGen}
         /\ task' \in [Gen -> {"none", "created", "running", "cancelling"}]
         /\ \A g \in Gen : /\ task'[g] \in {"running", "cancelling"}
                              <=> task[g] \in {"running", "cancelling"}
                           /\ task[g] = "none" => task'[g] = "none"
                           /\ task'[g] = "created" => g # refreshTask /\ task[g] = "created"
<1>1. refreshTask' = NoGen /\ awaited' \in Gen \cup {NoGen}
  BY DEF CancelRefresh, TypeOK
<1>2. ASSUME NEW g \in Gen
      PROVE  /\ task'[g] \in {"none", "created", "running", "cancelling"}
             /\ task'[g] \in {"running", "cancelling"} <=> task[g] \in {"running", "cancelling"}
             /\ task[g] = "none" => task'[g] = "none"
             /\ task'[g] = "created" => g # refreshTask /\ task[g] = "created"
  <2>1. task[g] \in {"none", "created", "running", "cancelling"} BY DEF TypeOK
  <2>2. task'[g] = IF g # refreshTask \/ task[g] = "none" THEN task[g]
                   ELSE IF task[g] = "created" THEN "none" ELSE "cancelling"
    BY DEF CancelRefresh
  <2>. QED BY <2>1, <2>2
<1>3. task' \in [Gen -> {"none", "created", "running", "cancelling"}]
  BY <1>2 DEF CancelRefresh
<1>. QED BY <1>1, <1>2, <1>3

LEMMA LeaseInit == Init => LeaseInv
<1> SUFFICES ASSUME Init PROVE LeaseInv OBVIOUS
<1>0. NoGen \notin Gen /\ 1 \in Gen BY MaxGenAssumption DEF NoGen, Gen
<1>1. TypeOK BY <1>0 DEF Init, TypeOK
<1>2. LeaseAccounting
  <2>1. ASSUME NEW g \in Gen PROVE Lessees(g) = {}
    BY <1>0 DEF Lessees, Init
  <2>. QED BY <2>1, FS_EmptySet DEF LeaseAccounting, Init
<1>3. \A g \in Gen : lease[g] = NoGen /\ task[g] \notin {"running", "cancelling"}
  BY DEF Init, Holders
<1>4. lease[Sweep] = NoGen BY DEF Init, Holders
<1>. QED BY <1>1, <1>2, <1>3, <1>4 DEF Init, LeaseInv

LEMMA LeaseNext == LeaseInv /\ [Next]_vars => LeaseInv'
<1> SUFFICES ASSUME LeaseInv, [Next]_vars PROVE LeaseInv' OBVIOUS
<1> USE DEF LeaseInv
<1>0. /\ NoGen \notin Gen /\ 1 \in Gen
      /\ Gen \subseteq Holders /\ Requests \subseteq Holders /\ Sweep \in Holders
      /\ \A r \in Requests : r \notin Gen /\ r # Sweep
      /\ Sweep \notin Gen
  BY MaxGenAssumption, HoldersAssumption DEF NoGen, Gen, Holders
<1>1. ASSUME NEW r \in Requests, Acquire(r) PROVE LeaseInv'
  <2>1. lease[r] = NoGen /\ Take(r, current) /\ current \in Gen BY <1>1 DEF Acquire, TypeOK
  <2>2. /\ LeaseAccounting' /\ lease' \in [Holders -> Gen \cup {NoGen}]
        /\ leases' \in [Gen -> Nat]
    BY <2>1, <1>0, TakeCounts
  <2>3. TypeOK'
    BY <2>2, <1>1 DEF Acquire, TypeOK, generationVars, clientVars, taskVars, closeVars
  <2>. QED BY <2>2, <2>3, <1>1, <1>0 DEF Acquire, Take, generationVars, taskVars, TypeOK, closeVars
<1>2. ASSUME NEW r \in Requests, Release(r) PROVE LeaseInv'
  <2>1. lease[r] \in Gen /\ Drop(r) BY <1>2, <1>0 DEF Release, TypeOK
  <2>2. /\ LeaseAccounting' /\ lease' \in [Holders -> Gen \cup {NoGen}]
        /\ leases' \in [Gen -> Nat]
    BY <2>1, <1>0, DropCounts
  <2>3. TypeOK'
    BY <2>2, <1>2 DEF Release, Drop, CloseGenerations, Closable, TypeOK, clientVars, taskVars, closeVars
  <2>. QED BY <2>2, <2>3, <1>2, <1>0 DEF Release, Drop, taskVars, TypeOK, closeVars
<1>3. ASSUME NEW g \in Gen, RefreshStart(g) PROVE LeaseInv'
  <2>1. CASE Closed(g)
    <3>1. UNCHANGED leaseVars /\ task' = [task EXCEPT ![g] = "none"] BY <2>1, <1>3 DEF RefreshStart
    <3>2. LeaseAccounting' BY <3>1, SameCounts
    <3>3. TypeOK'
      BY <3>1, <1>3 DEF RefreshStart, TypeOK, generationVars, leaseVars, clientVars, closeVars
    <3>. QED BY <3>1, <3>2, <3>3, <1>3 DEF RefreshStart, TypeOK, generationVars, leaseVars, closeVars
  <2>2. CASE ~Closed(g)
    <3>1. Take(g, g) /\ task' = [task EXCEPT ![g] = "running"] BY <2>2, <1>3 DEF RefreshStart
    <3>2. lease[g] = NoGen BY <1>3 DEF RefreshStart
    <3>3. /\ LeaseAccounting' /\ lease' \in [Holders -> Gen \cup {NoGen}]
          /\ leases' \in [Gen -> Nat]
      BY <3>1, <3>2, <1>0, TakeCounts
    <3>4. TypeOK'
      <4>1. task' \in [Gen -> {"none", "created", "running", "cancelling"}]
        BY <3>1, <1>0 DEF TypeOK
      <4>2. UNCHANGED <<generationVars, clientVars, refreshTask, awaited, lock, closeVars>>
        BY <1>3 DEF RefreshStart
      <4>. QED BY <3>3, <4>1, <4>2, <1>0 DEF TypeOK, generationVars, clientVars, closeVars
    <3>. QED BY <3>1, <3>3, <3>4, <1>3, <1>0 DEF RefreshStart, Take, TypeOK, generationVars, closeVars
  <2>. QED BY <2>1, <2>2
<1>4. ASSUME NEW g \in Gen, RefreshEnd(g) PROVE LeaseInv'
  <2>1. lease[g] = g /\ Drop(g) /\ task' = [task EXCEPT ![g] = "none"] BY <1>4 DEF RefreshEnd
  <2>2. /\ LeaseAccounting' /\ lease' \in [Holders -> Gen \cup {NoGen}]
        /\ leases' \in [Gen -> Nat]
    BY <2>1, <1>0, DropCounts
  <2>3. TypeOK'
    BY <2>1, <2>2, <1>4 DEF RefreshEnd, Drop, CloseGenerations, Closable, TypeOK, clientVars, closeVars
  <2>. QED BY <2>1, <2>2, <2>3, <1>4, <1>0 DEF RefreshEnd, Drop, TypeOK, closeVars
<1>5. ASSUME SweepStart PROVE LeaseInv'
  <2>1. lease[Sweep] = NoGen /\ Take(Sweep, current) /\ current \in Gen /\ lock' = "sweep"
    BY <1>5 DEF SweepStart, TypeOK
  <2>2. /\ LeaseAccounting' /\ lease' \in [Holders -> Gen \cup {NoGen}]
        /\ leases' \in [Gen -> Nat]
    BY <2>1, <1>0, TakeCounts
  <2>3. TypeOK'
    BY <2>1, <2>2, <1>5 DEF SweepStart, TypeOK, generationVars, clientVars, taskVars, closeVars
  <2>. QED BY <2>1, <2>2, <2>3, <1>5, <1>0 DEF SweepStart, Take, generationVars, taskVars, TypeOK, closeVars
<1>6. ASSUME SweepEnd PROVE LeaseInv'
  <2>1. lease[Sweep] = current /\ Drop(Sweep) /\ current \in Gen /\ lock' = "free"
    BY <1>6 DEF SweepEnd, TypeOK
  <2>2. /\ LeaseAccounting' /\ lease' \in [Holders -> Gen \cup {NoGen}]
        /\ leases' \in [Gen -> Nat]
    BY <2>1, <1>0, DropCounts
  <2>3. TypeOK'
    BY <2>1, <2>2, <1>6 DEF SweepEnd, Drop, CloseGenerations, Closable, TypeOK, clientVars, taskVars, closeVars
  <2>. QED BY <2>1, <2>2, <2>3, <1>6, <1>0 DEF SweepEnd, Drop, taskVars, TypeOK, closeVars
<1>8. CASE SweepBegin \/ ReplaceBegin \/ CloseBegin
  <2>1. UNCHANGED leaseVars /\ CancelRefresh BY <1>8 DEF SweepBegin, ReplaceBegin, CloseBegin
  <2>2. LeaseAccounting' BY <2>1, SameCounts
  <2>3. /\ refreshTask' = NoGen /\ awaited' \in Gen \cup {NoGen}
        /\ task' \in [Gen -> {"none", "created", "running", "cancelling"}]
        /\ \A g \in Gen : /\ task'[g] \in {"running", "cancelling"} <=> task[g] \in {"running", "cancelling"}
                          /\ task[g] = "none" => task'[g] = "none"
    BY <2>1, CancelTypes
  <2>4. /\ UNCHANGED <<generationVars, clientVars, draining, bounded, managerClosed, stopRequested>>
        /\ lock = "free" /\ lock' \in {"sweepCancel", "replace", "close"}
        /\ closer' \in {closer, "cancelRefresh"} /\ closing' \in {closing, TRUE}
        /\ closer' = "cancelRefresh" <=> lock' = "close"
        /\ lock' = "replace" => current < MaxGen
    BY <1>8 DEF SweepBegin, ReplaceBegin, CloseBegin, closeVars
  <2>5. TypeOK'
    BY <2>1, <2>3, <2>4 DEF TypeOK, generationVars, leaseVars, clientVars
  <2>. QED BY <2>1, <2>2, <2>3, <2>4, <2>5 DEF generationVars, leaseVars
<1>9. ASSUME NEW g \in Gen, NEW p \in Providers, Resolve(g, p)
      PROVE /\ held' \in [Gen -> [Providers -> Gen \cup {NoGen}]]
            /\ shared' \in [Gen -> SUBSET Providers]
            /\ holders' \in [Clients -> Nat]
            /\ client' \in [Clients -> {"unbuilt", "open", "torn", "closed"}]
  BY <1>9 DEF Resolve, TypeOK
<1>10. ASSUME NEW p \in Providers,
              \/ \E r \in Requests : RequestResolve(r, p)
              \/ \E g \in Gen : RefreshResolve(g, p)
              \/ SweepResolve(p) \/ ProbeResolve(p)
       PROVE LeaseInv'
  <2>1. /\ UNCHANGED <<generationVars, leaseVars, taskVars, lock, closeVars>>
        /\ \E g \in Gen : Resolve(g, p)
    BY <1>10, <1>0 DEF RequestResolve, RefreshResolve, SweepResolve, ProbeResolve, TypeOK
  <2>2. LeaseAccounting' BY <2>1, SameCounts
  <2>3. TypeOK'
    BY <2>1, <1>9 DEF TypeOK, generationVars, leaseVars, taskVars, closeVars
  <2>. QED BY <2>1, <2>2, <2>3 DEF generationVars, leaseVars, taskVars, closeVars
<1>11. CASE ProbeBegin \/ ProbeEnd \/ ReplaceFail \/ ReplaceEnd \/ LockOwnerCancelled
  <2>1. /\ UNCHANGED <<generationVars, clientVars, leaseVars, taskVars, closeVars>>
        /\ lock \notin {"sweep", "close"} /\ lock' \in {"free", "probe"}
    BY <1>11 DEF ProbeBegin, ProbeEnd, ReplaceFail, ReplaceEnd, LockOwnerCancelled
  <2>2. LeaseAccounting' BY <2>1, SameCounts
  <2>. QED BY <2>1, <2>2 DEF TypeOK, generationVars, clientVars, leaseVars, taskVars, closeVars
<1>12. ASSUME NEW rebuilt \in SUBSET Providers, NEW bg \in BOOLEAN, ReplacePublish(rebuilt, bg)
       PROVE LeaseInv'
  <2>1. /\ lock = "replace" /\ UNCHANGED leaseVars /\ current' = current + 1
        /\ CarryProviders(current, current + 1, rebuilt)
    BY <1>12 DEF ReplacePublish
  <2>2. current \in Gen /\ current + 1 \in Gen /\ current' \in Gen
    BY <2>1, MaxGenAssumption DEF TypeOK, Gen
  <2>3. LeaseAccounting' BY <2>1, SameCounts
  <2>4. /\ held' \in [Gen -> [Providers -> Gen \cup {NoGen}]]
        /\ shared' \in [Gen -> SUBSET Providers]
        /\ holders' \in [Clients -> Nat]
        /\ client' \in [Clients -> {"unbuilt", "open", "torn", "closed"}]
    BY <2>1, <2>2 DEF CarryProviders, Cached, TypeOK
  <2>5. /\ task' \in [Gen -> {"none", "created", "running", "cancelling"}]
        /\ \A g \in Gen : task'[g] = task[g] \/ (g = current + 1 /\ task'[g] = "created")
        /\ refreshTask' \in Gen \cup {NoGen}
    BY <1>12, <2>2 DEF ReplacePublish, TypeOK
  <2>6. /\ cleanup' \in [Gen -> {"none", "created", "running", "closed"}]
        /\ retired' \in [Gen -> BOOLEAN]
    BY <1>12, <2>2 DEF ReplacePublish, CloseGenerations, Closable, TypeOK
  <2>7. TypeOK'
    BY <1>12, <2>2, <2>4, <2>5, <2>6 DEF ReplacePublish, TypeOK, leaseVars, closeVars
  <2>8. /\ lock' \notin {"replace", "sweep", "close"} /\ lock # "sweep" /\ UNCHANGED closer
    BY <1>12 DEF ReplacePublish, closeVars
  <2>9. \A g \in Gen : g > current' => g > current /\ g # current + 1 BY <2>1, <2>2 DEF Gen
  <2>10. task[current + 1] = "none" BY <2>2 DEF Gen
  <2>. QED BY <2>9, <2>10, <2>1, <2>3, <2>5, <2>7, <2>8 DEF leaseVars, closeVars
<1>13. ASSUME NEW g \in Gen, CleanupStart(g) PROVE LeaseInv'
  <2>1. UNCHANGED <<current, leaseVars, taskVars, lock>> /\ ReleaseShared(g)
    BY <1>13 DEF CleanupStart
  <2>2. LeaseAccounting' BY <2>1, SameCounts
  <2>3. /\ held' \in [Gen -> [Providers -> Gen \cup {NoGen}]]
        /\ shared' \in [Gen -> SUBSET Providers]
        /\ client' \in [Clients -> {"unbuilt", "open", "torn", "closed"}]
    BY <2>1 DEF ReleaseShared, TypeOK
  <2>5. ASSUME NEW o \in Clients PROVE holders'[o] \in Nat
    <3>1. CASE o[2] \in shared[g] /\ o[1] = held[g][o[2]]
      <4>1. o = <<held[g][o[2]], o[2]>> /\ holders[o] \in Nat BY <3>1 DEF Clients, TypeOK
      <4>2. holders'[o] = IF holders[o] > 1 THEN holders[o] - 1 ELSE 0
        BY <2>1, <3>1, <4>1 DEF ReleaseShared
      <4>. QED BY <4>1, <4>2
    <3>2. CASE ~(o[2] \in shared[g] /\ o[1] = held[g][o[2]])
      BY <2>1, <3>2 DEF ReleaseShared, TypeOK
    <3>. QED BY <3>1, <3>2
  <2>6. holders' \in [Clients -> Nat] BY <2>1, <2>5 DEF ReleaseShared
  <2>4. TypeOK'
    BY <2>1, <2>3, <2>6, <1>13 DEF CleanupStart, TypeOK, leaseVars, taskVars, closeVars
  <2>. QED BY <2>1, <2>2, <2>4, <1>13 DEF CleanupStart, leaseVars, taskVars, closeVars
<1>14. ASSUME NEW g \in Gen, NEW p \in Providers, NEW ok \in BOOLEAN, CleanupProvider(g, p, ok)
       PROVE LeaseInv'
  <2>1. UNCHANGED <<current, leaseVars, taskVars, lock>> BY <1>14 DEF CleanupProvider
  <2>2. LeaseAccounting' BY <2>1, SameCounts
  <2>3. /\ held' \in [Gen -> [Providers -> Gen \cup {NoGen}]]
        /\ failed' \in [Gen -> BOOLEAN]
    <3>1. CASE ok
      <4>1. held' = [held EXCEPT ![g][p] = NoGen] /\ failed' = failed
        BY <3>1, <1>14 DEF CleanupProvider
      <4>. QED BY <4>1 DEF TypeOK
    <3>2. CASE ~ok
      <4>1. failed' = [failed EXCEPT ![g] = TRUE] /\ held' = held
        BY <3>2, <1>14 DEF CleanupProvider
      <4>. QED BY <4>1 DEF TypeOK
    <3>. QED BY <3>1, <3>2
  <2>4. /\ client' \in [Clients -> {"unbuilt", "open", "torn", "closed"}]
        /\ todo' \in [Gen -> SUBSET Providers]
    <3>1. (IF ok THEN "closed" ELSE "torn") \in {"unbuilt", "open", "torn", "closed"} OBVIOUS
    <3>2. todo' \in [Gen -> SUBSET Providers]
      <4>1. todo' = [todo EXCEPT ![g] = @ \ {p}] BY <1>14 DEF CleanupProvider
      <4>2. todo \in [Gen -> SUBSET Providers] BY DEF TypeOK
      <4>. QED BY <4>1, <4>2
    <3>3. client' = [client EXCEPT ![<<held[g][p], p>>] = IF ok THEN "closed" ELSE "torn"]
      BY <1>14 DEF CleanupProvider
    <3>4. client \in [Clients -> {"unbuilt", "open", "torn", "closed"}] BY DEF TypeOK
    <3>. QED BY <3>1, <3>2, <3>3, <3>4
  <2>5. TypeOK'
    BY <2>1, <2>3, <2>4, <1>14 DEF CleanupProvider, TypeOK, leaseVars, taskVars, closeVars
  <2>. QED BY <2>1, <2>2, <2>5, <1>14 DEF CleanupProvider, leaseVars, taskVars, closeVars
<1>15. ASSUME NEW g \in Gen, CleanupEnd(g) PROVE LeaseInv'
  <2>1. UNCHANGED <<current, leaseVars, taskVars, lock>> BY <1>15 DEF CleanupEnd
  <2>2. LeaseAccounting' BY <2>1, SameCounts
  <2>3. TypeOK'
    BY <2>1, <1>15 DEF CleanupEnd, TypeOK, clientVars, leaseVars, taskVars, closeVars
  <2>. QED BY <2>1, <2>2, <2>3, <1>15 DEF CleanupEnd, leaseVars, taskVars, closeVars
<1>16. CASE RequestStop \/ CloseRetire \/ CloseDrained \/ CloseEnd
  <2>1. UNCHANGED <<current, leaseVars, taskVars>>
    BY <1>16 DEF RequestStop, CloseRetire, CloseDrained, CloseEnd, generationVars
  <2>2. LeaseAccounting' BY <2>1, SameCounts
  <2>3. CASE RequestStop
    BY <2>1, <2>2, <2>3 DEF RequestStop, TypeOK, generationVars, clientVars, leaseVars, taskVars
  <2>4. CASE CloseRetire
    BY <2>1, <2>2, <2>4 DEF CloseRetire, TypeOK, clientVars, leaseVars, taskVars
  <2>5. CASE CloseDrained
    BY <2>1, <2>2, <2>5 DEF CloseDrained, CloseGenerations, Closable, TypeOK, clientVars, leaseVars, taskVars
  <2>6. CASE CloseEnd
    BY <2>1, <2>2, <2>6 DEF CloseEnd, TypeOK, generationVars, clientVars, leaseVars, taskVars
  <2>. QED BY <1>16, <2>3, <2>4, <2>5, <2>6
<1>17. CASE UNCHANGED vars
  <2>1. UNCHANGED leaseVars BY <1>17 DEF vars
  <2>2. LeaseAccounting' BY <2>1, SameCounts
  <2>. QED BY <1>17, <2>2 DEF vars, generationVars, clientVars, leaseVars, taskVars, closeVars, TypeOK
<1>. QED
  BY <1>1, <1>2, <1>3, <1>4, <1>5, <1>6, <1>8, <1>10, <1>11, <1>12, <1>13, <1>14, <1>15, <1>16, <1>17
  DEF Next, RequestStep, RefreshStep, SweepStep, ProbeStep, ReplaceStep, CleanupStep, CloseStep, Terminated
\* The types are kept, and every count of leases is exact: leases are never
\* lost, shared or dropped twice.
THEOREM LeasesCorrect == Spec => []LeaseInv
<1>. QED BY LeaseInit, LeaseNext, PTL DEF Spec

(***************************************************************************)
(* Layer 2: control.                                                       *)
(***************************************************************************)

\* What a lease says of its generation: it is published and counted.
LEMMA LeaseCounted ==
  ASSUME LeaseInv, NEW h \in Holders, NEW g \in Gen, lease[h] = g
  PROVE  leases[g] > 0
<1>1. h \in Lessees(g) BY DEF Lessees
<1>2. Cardinality(Lessees(g)) # 0 /\ Cardinality(Lessees(g)) \in Nat
  BY <1>1, FiniteLessees, FS_EmptySet, FS_CardinalityType
<1>. QED BY <1>2 DEF LeaseInv, LeaseAccounting

\* _close_generation touches idle generations without a cleanup only.
LEMMA CloseTouches ==
  ASSUME TypeOK, NEW gs, CloseGenerations(gs), NEW g \in Gen
  PROVE  \/ cleanup'[g] = cleanup[g]
         \/ g \in gs /\ leases'[g] = 0 /\ cleanup[g] = "none" /\ cleanup'[g] = "created"
  BY DEF CloseGenerations, Closable

LEMMA ControlInit == Init => ControlInv
<1> SUFFICES ASSUME Init PROVE ControlInv OBVIOUS
<1>1. 1 \in Gen /\ \A g \in Gen : ~(g < 1) BY MaxGenAssumption DEF Gen
<1>. QED BY <1>1 DEF Init, ControlInv, NoGen

LEMMA ControlNext == LeaseInv /\ ControlInv /\ [Next]_vars => ControlInv'
<1> SUFFICES ASSUME LeaseInv, ControlInv, [Next]_vars PROVE ControlInv' OBVIOUS
<1>0. /\ TypeOK /\ TypeOK' /\ LeaseInv' /\ NoGen \notin Gen
      /\ Gen \subseteq Nat /\ MaxGen \in Nat
      /\ Gen \subseteq Holders /\ Requests \subseteq Holders /\ Sweep \in Holders
  BY LeaseNext, MaxGenAssumption DEF LeaseInv, NoGen, Gen, Holders
<1>1. ASSUME NEW h \in Holders, Take(h, current), ~retired[current],
             UNCHANGED <<generationVars, refreshTask, closeVars>>,
             \A g \in Gen : task'[g] = "created" => task[g] = "created",
             lock' = lock \/ (lock' = "sweep" /\ lock = "sweepCancel")
      PROVE  ControlInv'
  <2>1. \A g \in Gen : leases'[g] # leases[g] => g = current
    BY <1>0, <1>1 DEF Take, TypeOK
  <2>. QED BY <1>0, <1>1, <2>1 DEF ControlInv, TypeOK, generationVars, closeVars, Closed
<1>2. ASSUME NEW h \in Holders, NEW d \in Gen, lease[h] = d, Drop(h),
             UNCHANGED <<refreshTask, closeVars>>,
             \A g \in Gen : task'[g] = "created" => task[g] = "created",
             lock' = lock \/ lock' = "free"
      PROVE  ControlInv'
  <2>1. leases[d] > 0 BY <1>0, <1>2, LeaseCounted
  <2>2. /\ \A g \in Gen : leases'[g] = IF g = d THEN leases[g] - 1 ELSE leases[g]
        /\ UNCHANGED <<current, retired, todo, failed>>
    BY <1>0, <1>2 DEF Drop, TypeOK
  <2>3. \A g \in Gen : cleanup'[g] # cleanup[g] =>
          g = d /\ retired[g] /\ leases'[g] = 0 /\ cleanup[g] = "none" /\ cleanup'[g] = "created"
    BY <1>0, <1>2, CloseTouches DEF Drop
  <2>4. d <= current BY <2>1, <1>0 DEF ControlInv, TypeOK
  <2>. QED BY <1>0, <1>2, <2>1, <2>2, <2>3, <2>4 DEF ControlInv, TypeOK, closeVars, Closed
<1>3. ASSUME NEW r \in Requests, Acquire(r) PROVE ControlInv'
  BY <1>0, <1>1, <1>3 DEF Acquire, taskVars, ControlInv
<1>4. ASSUME NEW r \in Requests, Release(r) PROVE ControlInv'
  <2>1. lease[r] \in Gen BY <1>0, <1>4 DEF Release, TypeOK
  <2>. QED BY <1>0, <1>2, <1>4, <2>1 DEF Release, taskVars
<1>5. ASSUME NEW g \in Gen, RefreshStart(g) PROVE ControlInv'
  <2>1. g = current /\ ~closing /\ ~retired[current] /\ ~Closed(g)
    BY <1>0, <1>5 DEF RefreshStart, ControlInv, Closed
  <2>2. \A k \in Gen : task'[k] = "created" => task[k] = "created"
    BY <1>0, <1>5, <2>1 DEF RefreshStart, TypeOK
  <2>. QED BY <1>0, <1>1, <1>5, <2>1, <2>2 DEF RefreshStart
<1>6. ASSUME NEW g \in Gen, RefreshEnd(g) PROVE ControlInv'
  <2>1. lease[g] = g BY <1>6 DEF RefreshEnd, LeaseInv
  <2>2. \A k \in Gen : task'[k] = "created" => task[k] = "created"
    BY <1>0, <1>6 DEF RefreshEnd, TypeOK
  <2>. QED BY <1>0, <1>2, <1>6, <2>1, <2>2 DEF RefreshEnd
<1>7. CASE SweepStart
  BY <1>0, <1>1, <1>7 DEF SweepStart, taskVars, ControlInv
<1>8. CASE SweepEnd
  <2>1. lease[Sweep] = current /\ current \in Gen BY <1>0, <1>8 DEF SweepEnd, LeaseInv, TypeOK
  <2>. QED BY <1>0, <1>2, <1>8, <2>1 DEF SweepEnd, taskVars
<1>9. CASE SweepBegin \/ ReplaceBegin \/ CloseBegin
  <2>1. /\ CancelRefresh /\ UNCHANGED <<generationVars, leaseVars, draining, managerClosed>>
        /\ \/ ~closing /\ UNCHANGED <<closing, closer>> /\ lock' \in {"sweepCancel", "replace"}
           \/ closing' /\ closer' = "cancelRefresh" /\ lock' = "close"
    BY <1>9 DEF SweepBegin, ReplaceBegin, CloseBegin, closeVars
  <2>2. /\ refreshTask' = NoGen
        /\ \A g \in Gen : task'[g] = "created" => g # refreshTask /\ task[g] = "created"
    BY <1>0, <2>1, CancelTypes
  <2>. QED BY <1>0, <2>1, <2>2 DEF ControlInv, TypeOK, generationVars, leaseVars, Closed
<1>10. ASSUME UNCHANGED <<generationVars, leaseVars, taskVars, closeVars>>,
              lock' = lock \/ lock' = "free" \/ (lock' = "probe" /\ ~closing)
       PROVE  ControlInv'
  BY <1>0, <1>10 DEF ControlInv, TypeOK, generationVars, leaseVars, taskVars, closeVars, Closed
<1>11. CASE ProbeBegin \/ ProbeEnd \/ ReplaceFail \/ ReplaceEnd \/ LockOwnerCancelled
  BY <1>10, <1>11 DEF ProbeBegin, ProbeEnd, ReplaceFail, ReplaceEnd, LockOwnerCancelled
<1>12. ASSUME NEW p \in Providers,
              \/ \E r \in Requests : RequestResolve(r, p)
              \/ \E g \in Gen : RefreshResolve(g, p)
              \/ SweepResolve(p) \/ ProbeResolve(p)
       PROVE ControlInv'
  BY <1>10, <1>12 DEF RequestResolve, RefreshResolve, SweepResolve, ProbeResolve
<1>13. ASSUME NEW rebuilt \in SUBSET Providers, NEW bg \in BOOLEAN, ReplacePublish(rebuilt, bg)
       PROVE ControlInv'
  <2>1. /\ lock = "replace" /\ ~closing /\ refreshTask = NoGen /\ ~retired[current]
        /\ UNCHANGED <<todo, failed, leaseVars, closeVars>>
        /\ current' = current + 1 /\ CloseGenerations({current})
        /\ retired' = [retired EXCEPT ![current] = TRUE]
        /\ task' = [task EXCEPT ![current + 1] = IF bg THEN "created" ELSE @]
        /\ refreshTask' = IF bg THEN current + 1 ELSE refreshTask
        /\ lock' \in {"retiring", "free"}
    BY <1>0, <1>13 DEF ReplacePublish, ControlInv
  <2>2. current \in Gen /\ current + 1 \in Gen BY <1>0, <2>1 DEF TypeOK, LeaseInv, Gen
  <2>3. \A g \in Gen : cleanup'[g] # cleanup[g] =>
          g = current /\ leases'[g] = 0 /\ cleanup[g] = "none" /\ cleanup'[g] = "created"
    BY <1>0, <2>1, CloseTouches
  <2>4. \A g \in Gen : task'[g] = "created" => g = current + 1 /\ bg
    BY <1>0, <2>1, <2>2 DEF TypeOK, ControlInv, LeaseInv
  <2>5. \A g \in Gen : retired'[g] <=> g <= current
    BY <1>0, <2>1, <2>2 DEF TypeOK, ControlInv
  <2>6. closer = "idle" /\ ~managerClosed BY <2>1 DEF ControlInv
  <2>. QED BY <1>0, <2>1, <2>2, <2>3, <2>4, <2>5, <2>6 DEF ControlInv, TypeOK, leaseVars, closeVars, Closed
<1>14. ASSUME NEW g \in Gen, cleanup[g] # "none",
              UNCHANGED <<current, retired, leaseVars, taskVars, lock, closeVars>>,
              \A k \in Gen \ {g} : cleanup'[k] = cleanup[k] /\ failed'[k] = failed[k],
              Closed(g) => Closed(g)'
       PROVE  ControlInv'
  <2>1. retired[g] /\ leases[g] = 0 BY <1>14 DEF ControlInv
  <2>. QED BY <1>0, <1>14, <2>1 DEF ControlInv, TypeOK, leaseVars, taskVars, closeVars, Closed
<1>15. ASSUME NEW g \in Gen, CleanupStart(g) PROVE ControlInv'
  BY <1>0, <1>14, <1>15 DEF CleanupStart, TypeOK, Closed
<1>16. ASSUME NEW g \in Gen, NEW p \in Providers, NEW ok \in BOOLEAN, CleanupProvider(g, p, ok)
       PROVE ControlInv'
  <2>1. \A k \in Gen \ {g} : cleanup'[k] = cleanup[k] /\ failed'[k] = failed[k]
    <3>1. CASE ok BY <3>1, <1>16 DEF CleanupProvider
    <3>2. CASE ~ok BY <3>2, <1>0, <1>16 DEF CleanupProvider, TypeOK
    <3>. QED BY <3>1, <3>2
  <2>2. /\ cleanup[g] = "running"
        /\ UNCHANGED <<current, retired, cleanup, leaseVars, taskVars, lock, closeVars>>
    BY <1>16 DEF CleanupProvider
  <2>. QED BY <1>14, <2>1, <2>2 DEF Closed
<1>17. ASSUME NEW g \in Gen, CleanupEnd(g) PROVE ControlInv'
  BY <1>0, <1>14, <1>17 DEF CleanupEnd, TypeOK, Closed
<1>18. CASE RequestStop
  BY <1>0, <1>18 DEF RequestStop, ControlInv, TypeOK, generationVars, leaseVars, taskVars, Closed
<1>19. CASE CloseRetire
  <2>1. /\ closer = "cancelRefresh" /\ closing /\ lock' = "free" /\ closer' = "drain"
        /\ retired' = [retired EXCEPT ![current] = TRUE]
        /\ draining' = {g \in Gen : retired'[g] /\ ~Closed(g)}
        /\ UNCHANGED <<current, cleanup, failed, leaseVars, taskVars, closing, managerClosed>>
    BY <1>19 DEF CloseRetire, ControlInv
  <2>2. \A g \in Gen : g <= current => retired'[g]
    BY <1>0, <2>1 DEF ControlInv, TypeOK
  <2>3. \A g \in Gen : g # current => retired'[g] = retired[g]
    BY <1>0, <2>1 DEF TypeOK
  <2>. QED BY <1>0, <2>1, <2>2, <2>3 DEF ControlInv, TypeOK, leaseVars, taskVars, Closed
<1>20. CASE CloseDrained
  <2>1. /\ closer = "drain" /\ closer' = "closing" /\ closing /\ CloseGenerations(draining)
        /\ UNCHANGED <<current, retired, failed, leaseVars, taskVars, lock, draining, closing, managerClosed>>
    BY <1>20 DEF CloseDrained, ControlInv
  <2>2. \A g \in Gen : cleanup'[g] # cleanup[g] =>
          g \in draining /\ leases'[g] = 0 /\ cleanup[g] = "none" /\ cleanup'[g] = "created"
    BY <1>0, <2>1, CloseTouches
  <2>3. \A g \in Gen : g \in draining => retired[g] BY <2>1 DEF ControlInv
  <2>. QED BY <1>0, <2>1, <2>2, <2>3 DEF ControlInv, TypeOK, leaseVars, taskVars, Closed
<1>21. CASE CloseEnd
  BY <1>0, <1>21 DEF CloseEnd, ControlInv, TypeOK, generationVars, leaseVars, taskVars, Closed
<1>22. CASE UNCHANGED vars
  BY <1>10, <1>22 DEF vars, generationVars, clientVars, leaseVars, taskVars, closeVars
<1>. QED
  BY <1>3, <1>4, <1>5, <1>6, <1>7, <1>8, <1>9, <1>11, <1>12, <1>13, <1>15, <1>16, <1>17, <1>18, <1>19, <1>20, <1>21, <1>22
  DEF Next, RequestStep, RefreshStep, SweepStep, ProbeStep, ReplaceStep, CleanupStep, CloseStep, Terminated
\* Generations are retired in order, and cleaned up only once nobody can
\* lease them again.
THEOREM ControlCorrect == Spec => []ControlInv
<1>. QED BY LeasesCorrect, ControlInit, ControlNext, PTL DEF Spec

(***************************************************************************)
(* Layer 3: ownership.                                                     *)
(***************************************************************************)

\* Holding a client, said of its builder and its provider.
LEMMA HeldPair ==
  ASSUME NEW g, NEW f \in Gen, NEW p \in Providers
  PROVE  <<f, p>> \in Held(g) <=> held[g][p] = f
<1>1. NoGen \notin Gen BY MaxGenAssumption DEF NoGen, Gen
<1>. QED BY <1>1 DEF Held, Cached

LEMMA FiniteSharers == ASSUME NEW o PROVE IsFiniteSet(Sharers(o))
<1>1. IsFiniteSet(Gen) BY FS_Interval, MaxGenAssumption DEF Gen
<1>. QED BY <1>1, FS_Subset DEF Sharers

LEMMA OwnershipInit == Init => OwnershipInv
<1> SUFFICES ASSUME Init PROVE OwnershipInv OBVIOUS
<1>1. ASSUME NEW o \in Clients PROVE Sharers(o) = {} BY DEF Init, Sharers, Clients
<1>2. HoldersExact BY <1>1, FS_EmptySet DEF Init, HoldersExact
<1>3. NoLeak BY DEF Init, NoLeak
<1>4. \A g \in Gen, p \in Providers : held[g][p] = NoGen /\ client[<<g, p>>] = "unbuilt"
  BY DEF Init, Clients
<1>. QED BY <1>2, <1>3, <1>4 DEF Init, OwnershipInv

\* A step that hands no client over and at most schedules cleanups.
LEMMA OwnershipKept ==
  ASSUME TypeOK, TypeOK', OwnershipInv, UNCHANGED <<clientVars, todo, failed>>,
         current' >= current,
         \A g \in Gen : cleanup'[g] = cleanup[g] \/ (cleanup[g] = "none" /\ cleanup'[g] = "created")
  PROVE  OwnershipInv'
<1>1. HoldersExact' BY DEF OwnershipInv, HoldersExact, Sharers, clientVars
<1>2. NoLeak' BY DEF OwnershipInv, NoLeak, Held, Cached, Closed, clientVars
<1>3. \A g \in Gen : Untouched(g)' <=> Untouched(g) BY DEF Untouched
<1>4. \A g \in Gen : Closed(g)' <=> Closed(g) BY DEF Closed
<1>5. \A g \in Gen : g <= current => g <= current' BY MaxGenAssumption DEF TypeOK, Gen
<1>. QED BY <1>1, <1>2, <1>3, <1>4, <1>5 DEF OwnershipInv, clientVars

\* The clients of a generation somebody may use are untouched by any cleanup.
LEMMA UsedIsUntouched ==
  ASSUME LeaseInv, ControlInv, NEW g \in Gen,
         leases[g] > 0 \/ (g = current /\ ~closing)
  PROVE  Untouched(g) /\ cleanup[g] = "none" /\ g <= current
  BY MaxGenAssumption DEF LeaseInv, TypeOK, ControlInv, Untouched, Gen

\* Building a client that was never built.
LEMMA OwnershipResolve ==
  ASSUME TypeOK, TypeOK', OwnershipInv, NEW g \in Gen, NEW p \in Providers, Resolve(g, p),
         Untouched(g), cleanup[g] = "none", g <= current,
         UNCHANGED <<current, cleanup, todo, failed>>
  PROVE  OwnershipInv' /\ client[<<g, p>>] = "unbuilt"
<1>0. NoGen \notin Gen BY MaxGenAssumption DEF NoGen, Gen
<1>1. /\ held[g][p] = NoGen /\ <<g, p>> \in Clients
      /\ \A k \in Gen, q \in Providers :
           held'[k][q] = IF k = g /\ q = p THEN g ELSE held[k][q]
      /\ \A o \in Clients : client'[o] = IF o = <<g, p>> THEN "open" ELSE client[o]
      /\ UNCHANGED <<shared, holders>>
  BY DEF Resolve, TypeOK, Clients
<1>2. p \notin shared[g] /\ client[<<g, p>>] = "unbuilt" BY <1>1 DEF OwnershipInv
<1>3. ASSUME NEW k \in Gen PROVE held[k][p] # g
  BY <1>0, <1>2 DEF OwnershipInv
<1>4. ASSUME NEW o \in Clients PROVE Sharers(o)' = Sharers(o)
  BY <1>1, <1>2 DEF Sharers, Clients
<1>5. HoldersExact' BY <1>1, <1>4 DEF OwnershipInv, HoldersExact
<1>6. NoLeak'
  <2> SUFFICES ASSUME NEW f \in Gen, NEW q \in Providers, client'[<<f, q>>] \in {"open", "torn"}
               PROVE  \E k \in Gen : ~Closed(k)' /\ <<f, q>> \in Held(k)'
    BY DEF NoLeak, Clients
  <2>1. CASE <<f, q>> = <<g, p>>
    BY <2>1, <1>0, <1>1 DEF Held, Cached, Closed
  <2>2. CASE <<f, q>> # <<g, p>>
    <3>1. PICK k \in Gen : ~Closed(k) /\ <<f, q>> \in Held(k)
      BY <2>2, <1>1 DEF OwnershipInv, NoLeak, Clients
    <3>2. held[k][q] = f /\ held'[k][q] = f BY <3>1, <1>1, <1>0, HeldPair
    <3>. QED BY <3>1, <3>2, <1>0 DEF Held, Cached, Closed
  <2>. QED BY <2>1, <2>2
<1>7. \A k \in Gen : (Untouched(k)' <=> Untouched(k)) /\ (Closed(k)' <=> Closed(k))
  BY DEF Untouched, Closed
<1>8. ASSUME NEW k \in Gen, NEW q \in Providers, held[k][q] # NoGen
      PROVE  client'[<<held[k][q], q>>] = client[<<held[k][q], q>>]
  <2>1. <<held[k][q], q>> \in Clients BY <1>8 DEF TypeOK, Clients
  <2>2. <<held[k][q], q>> # <<g, p>> BY <1>3
  <2>. QED BY <1>1, <2>1, <2>2
<1>9. \A k \in Gen, q \in Providers :
        <<k, q>> # <<g, p>> => client'[<<k, q>>] = client[<<k, q>>]
  BY <1>1 DEF Clients
<1>10. \A g1, g2 \in Gen : \A q \in Providers :
         g1 # g2 /\ held'[g1][q] # NoGen /\ held'[g1][q] = held'[g2][q] => q \in shared'[g1]
  BY <1>0, <1>1, <1>3 DEF OwnershipInv
<1>11. ASSUME NEW k \in Gen, NEW q \in Providers
       PROVE  /\ held'[k][q] # NoGen =>
                   /\ k <= current' /\ ~Closed(k)'
                   /\ client'[<<held'[k][q], q>>] \in {"open", "torn"}
                   /\ Untouched(k)' => client'[<<held'[k][q], q>>] = "open"
                   /\ cleanup'[k] = "running" => q \in todo'[k] \/ failed'[k]
              /\ q \in shared'[k] => held'[k][q] # NoGen /\ Untouched(k)'
              /\ Untouched(k)' /\ held'[k][q] = NoGen => client'[<<k, q>>] = "unbuilt"
              /\ cleanup'[k] = "running" /\ q \in todo'[k] => held'[k][q] # NoGen
  <2>1. CASE k = g /\ q = p
    BY <2>1, <1>0, <1>1, <1>2 DEF Closed
  <2>2. CASE ~(k = g /\ q = p)
    BY <2>2, <1>1, <1>7, <1>8, <1>9 DEF OwnershipInv
  <2>. QED BY <2>1, <2>2
<1>. QED BY <1>2, <1>5, <1>6, <1>10, <1>11 DEF OwnershipInv
\* Carrying clients over: both holders are marked and counted.
LEMMA OwnershipPublish ==
  ASSUME LeaseInv, LeaseInv', ControlInv, OwnershipInv,
         NEW rebuilt \in SUBSET Providers, NEW bg \in BOOLEAN, ReplacePublish(rebuilt, bg),
         NEW prev, NEW cand, NEW carried,
         prev = current, cand = current + 1, carried = Cached(prev) \ rebuilt
  PROVE  OwnershipInv'
<1>0. /\ NoGen \notin Gen /\ prev \in Gen /\ cand \in Gen /\ current' = cand /\ prev # cand
      /\ TypeOK /\ Gen \subseteq Nat /\ carried \subseteq Providers
      /\ cand > prev /\ ~(cand <= current)
  <2>1. NoGen \notin Gen /\ Gen \subseteq Nat
    BY MaxGenAssumption DEF Gen, NoGen
  <2>2. TypeOK /\ TypeOK' /\ current' = cand
    BY DEF ReplacePublish, LeaseInv
  <2>3. prev \in Gen /\ cand \in Gen
    BY <2>2 DEF TypeOK
  <2>4. carried \subseteq Providers
    BY DEF Cached
  <2>. QED BY <2>1, <2>2, <2>3, <2>4
<1>1. /\ CarryProviders(prev, cand, rebuilt) /\ CloseGenerations({prev})
      /\ UNCHANGED <<todo, failed>>
  BY DEF ReplacePublish
<1>2. Untouched(prev) /\ cleanup[prev] = "none"
  <2>1. ~closing BY DEF ReplacePublish, ControlInv
  <2>. QED BY <1>0, <2>1, UsedIsUntouched
<1>3. Untouched(cand) /\ cleanup[cand] = "none"
  BY <1>0 DEF ControlInv, Untouched, TypeOK
<1>4. \A q \in Providers : held[cand][q] = NoGen /\ q \notin shared[cand] /\ client[<<cand, q>>] = "unbuilt"
  BY <1>0, <1>3 DEF OwnershipInv
<1>5. /\ \A q \in Providers : held'[cand][q] = IF q \in carried THEN held[prev][q] ELSE NoGen
      /\ \A k \in Gen \ {cand} : held'[k] = held[k]
      /\ shared'[cand] = carried /\ shared'[prev] = shared[prev] \cup carried
      /\ \A k \in Gen \ {cand, prev} : shared'[k] = shared[k]
      /\ UNCHANGED client
  <2>1. held' = [held EXCEPT ![cand] =
                  [q \in Providers |-> IF q \in carried THEN held[prev][q] ELSE @[q]]]
    BY <1>1 DEF CarryProviders
  <2>2. shared' = [shared EXCEPT ![prev] = @ \cup carried, ![cand] = carried]
    BY <1>1 DEF CarryProviders
  <2>3. UNCHANGED client BY <1>1 DEF CarryProviders
  <2>. QED BY <1>0, <1>4, <2>1, <2>2, <2>3 DEF TypeOK
<1>6. \A k \in Gen : /\ Untouched(k)' <=> Untouched(k)
                     /\ Closed(k)' <=> Closed(k)
                     /\ cleanup'[k] = "running" => cleanup[k] = "running"
  <2>1. \A k \in Gen : cleanup'[k] = cleanup[k] \/ (cleanup[k] = "none" /\ cleanup'[k] = "created")
    BY <1>0, <1>1, CloseTouches
  <2>. QED BY <2>1, <1>1 DEF Untouched, Closed
<1>7. ASSUME NEW q \in Providers PROVE q \in carried => held[prev][q] # NoGen
  BY DEF Cached
<1>8. ASSUME NEW f \in Gen, NEW q \in Providers
      PROVE  holders'[<<f, q>>] = Cardinality(Sharers(<<f, q>>)')
  <2> DEFINE o == <<f, q>>
  <2>0. o \in Clients /\ holders[o] = Cardinality(Sharers(o)) /\ holders[o] \in Nat
    BY <1>0 DEF Clients, OwnershipInv, HoldersExact, TypeOK
  <2>1. CASE q \in carried /\ held[prev][q] = f
    <3>1. holders'[o] = holders[o] + (IF q \in shared[prev] THEN 1 ELSE 2)
      BY <2>0, <2>1, <1>1 DEF CarryProviders
    <3>9. \A k \in Gen : (q \in shared'[k] /\ held'[k][q] = f)
                          <=> (q \in shared[k] /\ held[k][q] = f) \/ k = prev \/ k = cand
      <4> SUFFICES ASSUME NEW k \in Gen
                   PROVE (q \in shared'[k] /\ held'[k][q] = f)
                          <=> (q \in shared[k] /\ held[k][q] = f) \/ k = prev \/ k = cand
        OBVIOUS
      <4>1. CASE k = cand BY <4>1, <2>1, <1>5
      <4>2. CASE k = prev BY <4>2, <2>1, <1>0, <1>5
      <4>3. CASE k \notin {cand, prev} BY <4>3, <1>5
      <4>. QED BY <4>1, <4>2, <4>3
    <3>2. Sharers(o)' = (Sharers(o) \cup {prev}) \cup {cand} BY <3>9, <1>0 DEF Sharers
    <3>3. cand \notin Sharers(o) \cup {prev} BY <1>0, <1>4 DEF Sharers
    <3>4. prev \in Sharers(o) <=> q \in shared[prev] BY <2>1, <1>0 DEF Sharers
    <3>5. IsFiniteSet(Sharers(o) \cup {prev})
          /\ Cardinality(Sharers(o) \cup {prev}) =
               IF prev \in Sharers(o) THEN Cardinality(Sharers(o)) ELSE Cardinality(Sharers(o)) + 1
      BY FiniteSharers, FS_AddElement
    <3>6. Cardinality((Sharers(o) \cup {prev}) \cup {cand}) = Cardinality(Sharers(o) \cup {prev}) + 1
      BY <3>3, <3>5, FS_AddElement
    <3>7. CASE q \in shared[prev] BY <3>7, <2>0, <3>1, <3>2, <3>4, <3>5, <3>6
    <3>8. CASE q \notin shared[prev] BY <3>8, <2>0, <3>1, <3>2, <3>4, <3>5, <3>6
    <3>. QED BY <3>7, <3>8
  <2>2. CASE ~(q \in carried /\ held[prev][q] = f)
    <3>1. holders'[o] = holders[o] BY <2>0, <2>2, <1>1 DEF CarryProviders
    <3>2. \A k \in Gen : (q \in shared'[k] /\ held'[k][q] = f) <=> (q \in shared[k] /\ held[k][q] = f)
      <4> SUFFICES ASSUME NEW k \in Gen
                   PROVE (q \in shared'[k] /\ held'[k][q] = f) <=> (q \in shared[k] /\ held[k][q] = f)
        OBVIOUS
      <4>1. CASE k = cand BY <4>1, <2>2, <1>0, <1>4, <1>5
      <4>2. CASE k = prev BY <4>2, <2>2, <1>0, <1>5
      <4>3. CASE k \notin {cand, prev} BY <4>3, <1>5
      <4>. QED BY <4>1, <4>2, <4>3
    <3>4. Sharers(o)' = Sharers(o) BY <3>2 DEF Sharers
    <3>. QED BY <2>0, <3>1, <3>4
  <2>. QED BY <2>1, <2>2
<1>9. HoldersExact' BY <1>8 DEF HoldersExact, Clients
<1>10. NoLeak'
  <2> SUFFICES ASSUME NEW f \in Gen, NEW q \in Providers, client'[<<f, q>>] \in {"open", "torn"}
               PROVE  \E k \in Gen : ~Closed(k)' /\ <<f, q>> \in Held(k)'
    BY DEF NoLeak, Clients
  <2>1. PICK k \in Gen : ~Closed(k) /\ <<f, q>> \in Held(k)
    BY <1>5 DEF OwnershipInv, NoLeak, Clients
  <2>4. held[k][q] = f BY <2>1, HeldPair
  <2>2. held[k][q] = f /\ k # cand
    <3>1. held[cand][q] # f BY <1>0, <1>4
    <3>. QED BY <2>4, <3>1
  <2>3. held'[k][q] = f BY <2>2, <1>5
  <2>. QED BY <2>1, <2>3, <1>0, <1>6 DEF Held, Cached
<1>11. \A g1, g2 \in Gen : \A q \in Providers :
         g1 # g2 /\ held'[g1][q] # NoGen /\ held'[g1][q] = held'[g2][q] => q \in shared'[g1]
  <2> SUFFICES ASSUME NEW g1 \in Gen, NEW g2 \in Gen, NEW q \in Providers,
                      g1 # g2, held'[g1][q] # NoGen, held'[g1][q] = held'[g2][q]
               PROVE  q \in shared'[g1]
    OBVIOUS
  <2>1. CASE g1 = cand BY <2>1, <1>4, <1>5
  <2>2. CASE g1 # cand /\ g2 # cand
    <3>1. held[g1][q] # NoGen /\ held[g1][q] = held[g2][q] BY <2>2, <1>5
    <3>2. q \in shared[g1] BY <3>1 DEF OwnershipInv
    <3>. QED BY <2>2, <3>2, <1>5
  <2>3. CASE g1 # cand /\ g2 = cand
    <3>1. q \in carried /\ held[g1][q] = held[prev][q] /\ held[g1][q] # NoGen
      BY <2>3, <1>4, <1>5
    <3>2. CASE g1 = prev BY <3>1, <3>2, <1>5
    <3>3. CASE g1 # prev BY <3>1, <3>3, <2>3, <1>0, <1>5 DEF OwnershipInv
    <3>. QED BY <3>2, <3>3
  <2>. QED BY <2>1, <2>2, <2>3
<1>12. ASSUME NEW k \in Gen, NEW q \in Providers
       PROVE  /\ held'[k][q] # NoGen =>
                   /\ k <= current' /\ ~Closed(k)'
                   /\ client'[<<held'[k][q], q>>] \in {"open", "torn"}
                   /\ Untouched(k)' => client'[<<held'[k][q], q>>] = "open"
                   /\ cleanup'[k] = "running" => q \in todo'[k] \/ failed'[k]
              /\ q \in shared'[k] => held'[k][q] # NoGen /\ Untouched(k)'
              /\ Untouched(k)' /\ held'[k][q] = NoGen => client'[<<k, q>>] = "unbuilt"
              /\ cleanup'[k] = "running" /\ q \in todo'[k] => held'[k][q] # NoGen
  <2>0. k \in Nat /\ current \in Nat BY <1>0
  <2>1. CASE k = cand
    <3>1. q \in carried =>
            /\ held'[cand][q] = held[prev][q] /\ held[prev][q] # NoGen
            /\ client[<<held[prev][q], q>>] = "open"
      BY <1>0, <1>2, <1>5, <1>7 DEF OwnershipInv
    <3>2. q \notin carried => held'[cand][q] = NoGen BY <1>5
    <3>3. Untouched(cand)' /\ ~Closed(cand)' /\ cleanup'[cand] # "running" /\ cand <= current'
      BY <1>0, <1>3, <1>6 DEF Closed
    <3>. QED BY <2>1, <3>1, <3>2, <3>3, <1>4, <1>5
  <2>2. CASE k # cand
    <3>1. held'[k][q] = held[k][q] /\ client' = client BY <2>2, <1>5
    <3>2. q \in shared'[k] => q \in shared[k] \/ (k = prev /\ q \in carried) BY <2>2, <1>5
    <3>3. q \in shared'[k] => held[k][q] # NoGen /\ Untouched(k)
      BY <3>2, <1>2, <1>7 DEF OwnershipInv
    <3>. QED BY <3>1, <3>3, <2>0, <1>0, <1>1, <1>6 DEF OwnershipInv
  <2>. QED BY <2>1, <2>2
<1>. QED BY <1>9, <1>10, <1>11, <1>12 DEF OwnershipInv
\* Releasing the shared clients: the generation detaches from those another
\* one still holds, and is left alone with the rest.
LEMMA OwnershipCleanupStart ==
  ASSUME LeaseInv, LeaseInv', ControlInv, OwnershipInv, NEW g \in Gen, CleanupStart(g)
  PROVE  OwnershipInv'
<1>0. NoGen \notin Gen /\ TypeOK /\ current' = current
  BY MaxGenAssumption DEF LeaseInv, Gen, NoGen, CleanupStart
<1> DEFINE key(q) == <<held[g][q], q>>
           remaining(q) == IF holders[key(q)] > 1 THEN holders[key(q)] - 1 ELSE 0
           detached == {q \in shared[g] : remaining(q) > 0}
<1>1. /\ cleanup[g] = "created" /\ ReleaseShared(g) /\ UNCHANGED client
      /\ cleanup' = [cleanup EXCEPT ![g] = "running"]
      /\ failed' = [failed EXCEPT ![g] = FALSE]
      /\ todo' = [todo EXCEPT ![g] = {q \in Providers : held'[g][q] # NoGen}]
  BY DEF CleanupStart, ReleaseShared
<1>2. /\ \A q \in Providers : held'[g][q] = IF q \in detached THEN NoGen ELSE held[g][q]
      /\ \A k \in Gen \ {g} : held'[k] = held[k] /\ shared'[k] = shared[k]
      /\ shared'[g] = {}
  BY <1>0, <1>1 DEF ReleaseShared, TypeOK
<1>3. shared[g] \subseteq Providers /\ shared \in [Gen -> SUBSET Providers] BY <1>0 DEF TypeOK
<1>4. \A q \in shared[g] : held[g][q] \in Gen /\ key(q) \in Clients
  <2> SUFFICES ASSUME NEW q \in shared[g] PROVE held[g][q] \in Gen /\ key(q) \in Clients
    OBVIOUS
  <2>1. q \in Providers /\ held[g][q] # NoGen BY <1>3 DEF OwnershipInv
  <2>2. held[g][q] \in Gen BY <2>1, <1>0 DEF TypeOK
  <2>. QED BY <2>1, <2>2 DEF Clients
<1>5. ASSUME NEW q \in shared[g]
      PROVE  /\ g \in Sharers(key(q))
             /\ holders[key(q)] = Cardinality(Sharers(key(q)))
             /\ Cardinality(Sharers(key(q)) \ {g}) = remaining(q)
             /\ remaining(q) \in Nat
  <2>1. g \in Sharers(key(q)) BY <1>3 DEF Sharers
  <2>2. holders[key(q)] = Cardinality(Sharers(key(q))) BY <1>4 DEF OwnershipInv, HoldersExact
  <2>3. /\ Cardinality(Sharers(key(q)) \ {g}) = Cardinality(Sharers(key(q))) - 1
        /\ IsFiniteSet(Sharers(key(q)) \ {g})
    BY <2>1, FiniteSharers, FS_RemoveElement
  <2>4. Cardinality(Sharers(key(q))) \in Nat /\ Cardinality(Sharers(key(q)) \ {g}) \in Nat
    BY <2>3, FiniteSharers, FS_CardinalityType
  <2>. QED BY <2>1, <2>2, <2>3, <2>4
<1>6. ASSUME NEW q \in shared[g], q \notin detached, NEW k \in Gen \ {g}
      PROVE  held[k][q] # held[g][q]
  <2>1. Cardinality(Sharers(key(q)) \ {g}) = 0 BY <1>5, <1>6
  <2>2. Sharers(key(q)) \ {g} = {} BY <2>1, FiniteSharers, FS_RemoveElement, FS_EmptySet
  <2>3. ~(q \in shared[k] /\ held[k][q] = held[g][q]) BY <2>2 DEF Sharers
  <2>4. held[k][q] = held[g][q] => q \in shared[k]
    BY <1>0, <1>3, <1>4 DEF OwnershipInv
  <2>. QED BY <2>3, <2>4
<1>7. ASSUME NEW q \in detached
      PROVE  \E k \in Gen \ {g} : held[k][q] = held[g][q] /\ Untouched(k)
  <2>1. Sharers(key(q)) \ {g} # {} BY <1>5, FS_EmptySet
  <2>2. PICK k \in Gen \ {g} : q \in shared[k] /\ held[k][q] = held[g][q] BY <2>1 DEF Sharers
  <2>. QED BY <2>2, <1>3 DEF OwnershipInv
<1>8. \A k \in Gen \ {g} : /\ Untouched(k)' <=> Untouched(k)
                           /\ Closed(k)' <=> Closed(k)
                           /\ cleanup'[k] = cleanup[k] /\ failed'[k] = failed[k] /\ todo'[k] = todo[k]
  BY <1>0, <1>1 DEF Untouched, Closed, TypeOK
<1>9. /\ ~Untouched(g)' /\ ~Closed(g)' /\ ~Closed(g) /\ cleanup'[g] = "running"
      /\ todo'[g] = {q \in Providers : held'[g][q] # NoGen}
  BY <1>0, <1>1 DEF Untouched, Closed, TypeOK
<1>10. ASSUME NEW f \in Gen, NEW q \in Providers
       PROVE  holders'[<<f, q>>] = Cardinality(Sharers(<<f, q>>)')
  <2>0. <<f, q>> \in Clients /\ holders[<<f, q>>] = Cardinality(Sharers(<<f, q>>))
    BY DEF Clients, OwnershipInv, HoldersExact
  <2>1. CASE q \in shared[g] /\ held[g][q] = f
    <3>1. holders'[<<f, q>>] = remaining(q) BY <2>0, <2>1, <1>1 DEF ReleaseShared
    <3>2. Sharers(<<f, q>>)' = Sharers(key(q)) \ {g} BY <2>1, <1>2 DEF Sharers
    <3>. QED BY <2>1, <3>1, <3>2, <1>5
  <2>2. CASE ~(q \in shared[g] /\ held[g][q] = f)
    <3>1. holders'[<<f, q>>] = holders[<<f, q>>] BY <2>0, <2>2, <1>1 DEF ReleaseShared
    <3>2. Sharers(<<f, q>>)' = Sharers(<<f, q>>) BY <2>2, <1>2 DEF Sharers
    <3>. QED BY <2>0, <3>1, <3>2
  <2>. QED BY <2>1, <2>2
<1>11. HoldersExact' BY <1>10 DEF HoldersExact, Clients
<1>12. NoLeak'
  <2> SUFFICES ASSUME NEW f \in Gen, NEW q \in Providers, client'[<<f, q>>] \in {"open", "torn"}
               PROVE  \E k \in Gen : ~Closed(k)' /\ <<f, q>> \in Held(k)'
    BY DEF NoLeak, Clients
  <2>1. PICK k \in Gen : ~Closed(k) /\ <<f, q>> \in Held(k)
    BY <1>1 DEF OwnershipInv, NoLeak, Clients
  <2>2. held[k][q] = f BY <2>1, HeldPair
  <2>3. \E j \in Gen : held'[j][q] = f /\ ~Closed(j)'
    <3>1. CASE k # g BY <3>1, <2>1, <2>2, <1>2, <1>8
    <3>2. CASE k = g /\ q \notin detached BY <3>2, <2>2, <1>2, <1>9
    <3>3. CASE k = g /\ q \in detached
      <4>1. PICK j \in Gen \ {g} : held[j][q] = held[g][q] /\ Untouched(j) BY <3>3, <1>7
      <4>2. held'[j][q] = f BY <4>1, <3>3, <2>2, <1>2
      <4>3. ~Closed(j)' BY <4>1, <1>8 DEF Untouched, Closed
      <4>. QED BY <4>2, <4>3
    <3>. QED BY <3>1, <3>2, <3>3
  <2>. QED BY <2>3, <1>0 DEF Held, Cached
<1>13. \A g1, g2 \in Gen : \A q \in Providers :
         g1 # g2 /\ held'[g1][q] # NoGen /\ held'[g1][q] = held'[g2][q] => q \in shared'[g1]
  <2> SUFFICES ASSUME NEW g1 \in Gen, NEW g2 \in Gen, NEW q \in Providers,
                      g1 # g2, held'[g1][q] # NoGen, held'[g1][q] = held'[g2][q]
               PROVE  q \in shared'[g1]
    OBVIOUS
  <2>1. held[g1][q] # NoGen /\ held[g1][q] = held[g2][q]
    <3>1. \A k \in Gen : held'[k][q] = held[k][q] \/ held'[k][q] = NoGen BY <1>2
    <3>. QED BY <3>1
  <2>2. q \in shared[g1] /\ q \in shared[g2] BY <2>1 DEF OwnershipInv
  <2>3. g1 # g
    <3> SUFFICES ASSUME g1 = g PROVE FALSE OBVIOUS
    <3>1. q \notin detached BY <1>2
    <3>. QED BY <3>1, <2>1, <2>2, <1>6
  <2>. QED BY <2>2, <2>3, <1>2
<1>14. ASSUME NEW k \in Gen, NEW q \in Providers
       PROVE  /\ held'[k][q] # NoGen =>
                   /\ k <= current' /\ ~Closed(k)'
                   /\ client'[<<held'[k][q], q>>] \in {"open", "torn"}
                   /\ Untouched(k)' => client'[<<held'[k][q], q>>] = "open"
                   /\ cleanup'[k] = "running" => q \in todo'[k] \/ failed'[k]
              /\ q \in shared'[k] => held'[k][q] # NoGen /\ Untouched(k)'
              /\ Untouched(k)' /\ held'[k][q] = NoGen => client'[<<k, q>>] = "unbuilt"
              /\ cleanup'[k] = "running" /\ q \in todo'[k] => held'[k][q] # NoGen
  <2>1. CASE k = g
    <3>1. held'[g][q] # NoGen => held'[g][q] = held[g][q] BY <1>2
    <3>2. held[g][q] # NoGen => g <= current /\ client[<<held[g][q], q>>] \in {"open", "torn"}
      BY DEF OwnershipInv
    <3>. QED BY <2>1, <3>1, <3>2, <1>0, <1>1, <1>2, <1>9
  <2>2. CASE k # g
    <3>1. held'[k] = held[k] /\ shared'[k] = shared[k] BY <2>2, <1>2
    <3>. QED BY <3>1, <2>2, <1>0, <1>1, <1>8 DEF OwnershipInv
  <2>. QED BY <2>1, <2>2
<1>. QED BY <1>11, <1>12, <1>13, <1>14 DEF OwnershipInv

\* A client is closed by a generation that holds it alone.
LEMMA OwnershipCleanupProvider ==
  ASSUME LeaseInv, LeaseInv', ControlInv, OwnershipInv,
         NEW g \in Gen, NEW p \in Providers, NEW ok \in BOOLEAN, CleanupProvider(g, p, ok),
         NEW f, f = held[g][p]
  PROVE  /\ OwnershipInv'
         /\ <<f, p>> \in Clients
         /\ client[<<f, p>>] \in {"open", "torn"}
         /\ \A k \in Gen \ {g} : held[k][p] # f
<1>0. NoGen \notin Gen /\ TypeOK BY MaxGenAssumption DEF LeaseInv, Gen, NoGen
<1>1. /\ cleanup[g] = "running" /\ p \in todo[g]
      /\ UNCHANGED <<current, cleanup, shared, holders>>
      /\ todo' = [todo EXCEPT ![g] = @ \ {p}]
      /\ client' = [client EXCEPT ![<<held[g][p], p>>] = IF ok THEN "closed" ELSE "torn"]
  BY DEF CleanupProvider
<1>2. /\ ok => held' = [held EXCEPT ![g][p] = NoGen] /\ failed' = failed
      /\ ~ok => failed' = [failed EXCEPT ![g] = TRUE] /\ held' = held
  BY DEF CleanupProvider
<1>3. ~Untouched(g) /\ shared[g] = {} /\ f # NoGen /\ f \in Gen
  <2>1. ~Untouched(g) BY <1>1 DEF Untouched
  <2>2. shared[g] = {} BY <2>1, <1>0 DEF OwnershipInv, TypeOK
  <2>3. f # NoGen BY <1>1 DEF OwnershipInv
  <2>. QED BY <2>1, <2>2, <2>3, <1>0 DEF TypeOK
<1>4. \A k \in Gen \ {g} : held[k][p] # f
  BY <1>3 DEF OwnershipInv
<1>5. <<f, p>> \in Clients /\ client[<<f, p>>] \in {"open", "torn"}
  BY <1>3 DEF OwnershipInv, Clients
<1>6. /\ \A o \in Clients : o # <<f, p>> => client'[o] = client[o]
      /\ client'[<<f, p>>] = IF ok THEN "closed" ELSE "torn"
  BY <1>0, <1>1, <1>5 DEF TypeOK
<1>7. /\ \A k \in Gen \ {g} : held'[k] = held[k] /\ failed'[k] = failed[k] /\ todo'[k] = todo[k]
      /\ \A q \in Providers \ {p} : held'[g][q] = held[g][q] /\ (q \in todo'[g] <=> q \in todo[g])
      /\ p \notin todo'[g]
      /\ held'[g][p] = IF ok THEN NoGen ELSE f
      /\ failed'[g] = (failed[g] \/ ~ok)
  <2>1. \A k \in Gen \ {g} : todo'[k] = todo[k] BY <1>0, <1>1 DEF TypeOK
  <2>2. todo'[g] = todo[g] \ {p} BY <1>0, <1>1 DEF TypeOK
  <2>3. CASE ok BY <2>1, <2>2, <2>3, <1>0, <1>2 DEF TypeOK
  <2>4. CASE ~ok BY <2>1, <2>2, <2>4, <1>0, <1>2 DEF TypeOK
  <2>. QED BY <2>3, <2>4
<1>8. /\ \A k \in Gen \ {g} : Untouched(k)' <=> Untouched(k)
      /\ \A k \in Gen : Closed(k)' <=> Closed(k)
      /\ ~Untouched(g)' /\ ~Closed(g)
  BY <1>1, <1>7 DEF Untouched, Closed
<1>9. ASSUME NEW o \in Clients PROVE Sharers(o)' = Sharers(o)
  <2>1. \A k \in Gen : (o[2] \in shared'[k] /\ held'[k][o[2]] = o[1])
                        <=> (o[2] \in shared[k] /\ held[k][o[2]] = o[1])
    BY <1>1, <1>3, <1>7
  <2>. QED BY <2>1 DEF Sharers
<1>10. HoldersExact' BY <1>1, <1>9 DEF OwnershipInv, HoldersExact
<1>11. NoLeak'
  <2> SUFFICES ASSUME NEW e \in Gen, NEW q \in Providers, client'[<<e, q>>] \in {"open", "torn"}
               PROVE  \E k \in Gen : ~Closed(k)' /\ <<e, q>> \in Held(k)'
    BY DEF NoLeak, Clients
  <2>0. <<e, q>> \in Clients BY DEF Clients
  <2>1. CASE e = f /\ q = p
    <3>1. ~ok BY <2>1, <1>6
    <3>2. held'[g][p] = f BY <3>1, <1>7
    <3>. QED BY <2>1, <3>2, <1>3, <1>8 DEF Held, Cached
  <2>2. CASE ~(e = f /\ q = p)
    <3>1. PICK k \in Gen : ~Closed(k) /\ <<e, q>> \in Held(k)
      BY <2>0, <2>2, <1>6 DEF OwnershipInv, NoLeak
    <3>2. held[k][q] = e BY <3>1, HeldPair
    <3>3. held'[k][q] = e
      <4>1. CASE k = g /\ q = p BY <4>1, <2>2, <3>2
      <4>2. CASE ~(k = g /\ q = p) BY <4>2, <3>2, <1>7
      <4>. QED BY <4>1, <4>2
    <3>. QED BY <3>1, <3>3, <1>0, <1>8 DEF Held, Cached
  <2>. QED BY <2>1, <2>2
<1>12. \A g1, g2 \in Gen : \A q \in Providers :
         g1 # g2 /\ held'[g1][q] # NoGen /\ held'[g1][q] = held'[g2][q] => q \in shared'[g1]
  <2>1. \A k \in Gen, q \in Providers : held'[k][q] = held[k][q] \/ held'[k][q] = NoGen
    <3> SUFFICES ASSUME NEW k \in Gen, NEW q \in Providers
                 PROVE  held'[k][q] = held[k][q] \/ held'[k][q] = NoGen
      OBVIOUS
    <3>1. CASE k = g /\ q = p BY <3>1, <1>7
    <3>2. CASE ~(k = g /\ q = p) BY <3>2, <1>7
    <3>. QED BY <3>1, <3>2
  <2>. QED BY <2>1, <1>1 DEF OwnershipInv
<1>13. ASSUME NEW k \in Gen, NEW q \in Providers
       PROVE  /\ held'[k][q] # NoGen =>
                   /\ k <= current' /\ ~Closed(k)'
                   /\ client'[<<held'[k][q], q>>] \in {"open", "torn"}
                   /\ Untouched(k)' => client'[<<held'[k][q], q>>] = "open"
                   /\ cleanup'[k] = "running" => q \in todo'[k] \/ failed'[k]
              /\ q \in shared'[k] => held'[k][q] # NoGen /\ Untouched(k)'
              /\ Untouched(k)' /\ held'[k][q] = NoGen => client'[<<k, q>>] = "unbuilt"
              /\ cleanup'[k] = "running" /\ q \in todo'[k] => held'[k][q] # NoGen
  <2>1. CASE k = g /\ q = p
    <3>1. g <= current BY <1>3 DEF OwnershipInv
    <3>2. held'[g][p] # NoGen => client'[<<held'[g][p], p>>] = "torn" /\ failed'[g]
      BY <1>6, <1>7
    <3>. QED BY <2>1, <3>1, <3>2, <1>1, <1>3, <1>7, <1>8
  <2>2. CASE ~(k = g /\ q = p)
    <3>1. held'[k][q] = held[k][q] /\ (q \in todo'[k] <=> q \in todo[k]) BY <2>2, <1>7
    <3>2. failed[k] => failed'[k] BY <1>7
    <3>3. held[k][q] # NoGen => client'[<<held[k][q], q>>] = client[<<held[k][q], q>>]
      <4> SUFFICES ASSUME held[k][q] # NoGen
                   PROVE client'[<<held[k][q], q>>] = client[<<held[k][q], q>>]
        OBVIOUS
      <4>1. <<held[k][q], q>> \in Clients BY <1>0 DEF TypeOK, Clients
      <4>2. <<held[k][q], q>> # <<f, p>> BY <2>2, <1>4
      <4>. QED BY <4>1, <4>2, <1>6
    <3>4. Untouched(k)' => Untouched(k) /\ k # g BY <1>8
    <3>5. Untouched(k) /\ held[k][q] = NoGen => client'[<<k, q>>] = client[<<k, q>>]
      <4> SUFFICES ASSUME Untouched(k), held[k][q] = NoGen
                   PROVE client'[<<k, q>>] = client[<<k, q>>]
        OBVIOUS
      <4>1. client[<<k, q>>] = "unbuilt" /\ <<k, q>> \in Clients BY DEF OwnershipInv, Clients
      <4>2. <<k, q>> # <<f, p>> BY <4>1, <1>5
      <4>. QED BY <4>1, <4>2, <1>6
    <3>6. Untouched(k) /\ k # g => Untouched(k)' BY <1>8
    <3>7. q \in shared'[k] => k # g /\ q \in shared[k] BY <1>1, <1>3
    <3>. QED BY <3>1, <3>2, <3>3, <3>4, <3>5, <3>6, <3>7, <1>1, <1>8 DEF OwnershipInv
  <2>. QED BY <2>1, <2>2
<1>. QED BY <1>4, <1>5, <1>10, <1>11, <1>12, <1>13 DEF OwnershipInv

\* A cleanup that closed everything leaves nothing cached.
LEMMA OwnershipCleanupEnd ==
  ASSUME LeaseInv, LeaseInv', ControlInv, OwnershipInv, NEW g \in Gen, CleanupEnd(g)
  PROVE  OwnershipInv'
<1>0. NoGen \notin Gen /\ TypeOK BY MaxGenAssumption DEF LeaseInv, Gen, NoGen
<1>1. /\ cleanup[g] = "running" /\ todo[g] = {} /\ UNCHANGED <<current, todo, failed, clientVars>>
      /\ cleanup' = [cleanup EXCEPT ![g] = IF failed[g] THEN "none" ELSE "closed"]
  BY DEF CleanupEnd
<1>2. /\ \A k \in Gen \ {g} : cleanup'[k] = cleanup[k]
      /\ cleanup'[g] = IF failed[g] THEN "none" ELSE "closed"
  BY <1>0, <1>1 DEF TypeOK
<1>3. \A q \in Providers : held[g][q] # NoGen => failed[g] BY <1>1 DEF OwnershipInv
<1>4. HoldersExact' BY <1>1 DEF OwnershipInv, HoldersExact, Sharers, clientVars
<1>5. \A k \in Gen : /\ Untouched(k)' <=> Untouched(k)
                     /\ Closed(k)' => Closed(k) \/ (k = g /\ ~failed[g])
  BY <1>1, <1>2 DEF Untouched, Closed
<1>6. NoLeak'
  <2> SUFFICES ASSUME NEW f \in Gen, NEW q \in Providers, client'[<<f, q>>] \in {"open", "torn"}
               PROVE  \E k \in Gen : ~Closed(k)' /\ <<f, q>> \in Held(k)'
    BY DEF NoLeak, Clients
  <2>1. PICK k \in Gen : ~Closed(k) /\ <<f, q>> \in Held(k)
    BY <1>1 DEF OwnershipInv, NoLeak, Clients, clientVars
  <2>2. held[k][q] = f BY <2>1, HeldPair
  <2>3. ~Closed(k)' BY <2>1, <2>2, <1>0, <1>3, <1>5
  <2>. QED BY <2>2, <2>3, <1>0, <1>1 DEF Held, Cached, clientVars
<1>7. \A k \in Gen : cleanup'[k] = "running" => cleanup[k] = "running" BY <1>2
<1>. QED BY <1>1, <1>3, <1>4, <1>5, <1>6, <1>7 DEF OwnershipInv, clientVars
\* What a step that builds a client builds it for.
LEMMA ResolveUsed ==
  ASSUME LeaseInv, ControlInv, NEW p \in Providers,
         \/ \E r \in Requests : RequestResolve(r, p)
         \/ \E k \in Gen : RefreshResolve(k, p)
         \/ SweepResolve(p) \/ ProbeResolve(p)
  PROVE  /\ UNCHANGED <<generationVars, leaseVars, taskVars, lock, closeVars>>
         /\ \E g \in Gen : /\ Resolve(g, p)
                           /\ leases[g] > 0 \/ (g = current /\ ~closing)
<1>0. /\ NoGen \notin Gen /\ TypeOK /\ Gen \subseteq Holders /\ Requests \subseteq Holders /\ Sweep \in Holders
  BY MaxGenAssumption DEF LeaseInv, Gen, NoGen, Holders
<1>1. ASSUME NEW r \in Requests, RequestResolve(r, p)
      PROVE \E g \in Gen : Resolve(g, p) /\ leases[g] > 0
  <2>1. lease[r] \in Gen /\ Resolve(lease[r], p) BY <1>0, <1>1 DEF RequestResolve, TypeOK
  <2>2. leases[lease[r]] > 0 BY <1>0, <2>1, LeaseCounted
  <2>. QED BY <2>1, <2>2
<1>2. ASSUME NEW k \in Gen, RefreshResolve(k, p)
      PROVE \E g \in Gen : Resolve(g, p) /\ leases[g] > 0
  <2>1. lease[k] = k /\ Resolve(k, p) BY <1>2 DEF RefreshResolve, LeaseInv
  <2>. QED BY <1>0, <2>1, LeaseCounted
<1>3. ASSUME SweepResolve(p) PROVE \E g \in Gen : Resolve(g, p) /\ leases[g] > 0
  <2>1. lease[Sweep] = current /\ current \in Gen /\ Resolve(current, p)
    BY <1>0, <1>3 DEF SweepResolve, LeaseInv, TypeOK
  <2>. QED BY <1>0, <2>1, LeaseCounted
<1>4. ASSUME ProbeResolve(p) PROVE \E g \in Gen : Resolve(g, p) /\ g = current /\ ~closing
  BY <1>0, <1>4 DEF ProbeResolve, ControlInv, TypeOK
<1>5. UNCHANGED <<generationVars, leaseVars, taskVars, lock, closeVars>>
  BY DEF RequestResolve, RefreshResolve, SweepResolve, ProbeResolve
<1>. QED BY <1>1, <1>2, <1>3, <1>4, <1>5

LEMMA OwnershipNext ==
  LeaseInv /\ ControlInv /\ OwnershipInv /\ [Next]_vars => OwnershipInv'
<1> SUFFICES ASSUME LeaseInv, ControlInv, OwnershipInv, [Next]_vars PROVE OwnershipInv' OBVIOUS
<1>0. LeaseInv' /\ TypeOK /\ TypeOK' /\ current \in Nat
  <2>1. LeaseInv' BY LeaseNext
  <2>2. Gen \subseteq Nat BY MaxGenAssumption DEF Gen
  <2>. QED BY <2>1, <2>2 DEF LeaseInv, TypeOK
<1>1. ASSUME UNCHANGED <<clientVars, current, todo, failed>>,
             cleanup' = cleanup \/ \E gs : CloseGenerations(gs)
      PROVE  OwnershipInv'
  <2>1. \A g \in Gen : cleanup'[g] = cleanup[g] \/ (cleanup[g] = "none" /\ cleanup'[g] = "created")
    BY <1>0, <1>1, CloseTouches
  <2>. QED BY <1>0, <1>1, <2>1, OwnershipKept
<1>2. CASE RequestStop \/ CloseBegin \/ CloseRetire \/ CloseDrained \/ CloseEnd
  BY <1>1, <1>2 DEF RequestStop, CloseBegin, CloseRetire, CloseDrained, CloseEnd, generationVars
<1>3. CASE SweepBegin \/ SweepStart \/ SweepEnd \/ ProbeBegin \/ ProbeEnd
           \/ ReplaceBegin \/ ReplaceFail \/ ReplaceEnd \/ LockOwnerCancelled
  BY <1>1, <1>3 DEF SweepBegin, SweepStart, SweepEnd, ProbeBegin, ProbeEnd, ReplaceBegin,
       ReplaceFail, ReplaceEnd, LockOwnerCancelled, Drop, generationVars
<1>4. ASSUME NEW r \in Requests, Acquire(r) \/ Release(r) PROVE OwnershipInv'
  BY <1>1, <1>4 DEF Acquire, Release, Drop, generationVars
<1>5. ASSUME NEW g \in Gen, RefreshStart(g) \/ RefreshEnd(g) PROVE OwnershipInv'
  BY <1>1, <1>5 DEF RefreshStart, RefreshEnd, Drop, generationVars
<1>6. ASSUME NEW p \in Providers,
             \/ \E r \in Requests : RequestResolve(r, p)
             \/ \E g \in Gen : RefreshResolve(g, p)
             \/ SweepResolve(p) \/ ProbeResolve(p)
      PROVE OwnershipInv'
  <2>1. PICK g \in Gen : /\ Resolve(g, p) /\ UNCHANGED generationVars
                         /\ leases[g] > 0 \/ (g = current /\ ~closing)
    BY <1>6, ResolveUsed
  <2>2. Untouched(g) /\ cleanup[g] = "none" /\ g <= current BY <2>1, UsedIsUntouched
  <2>. QED BY <1>0, <2>1, <2>2, OwnershipResolve DEF generationVars
<1>7. ASSUME NEW rebuilt \in SUBSET Providers, NEW bg \in BOOLEAN, ReplacePublish(rebuilt, bg)
      PROVE OwnershipInv'
  BY <1>0, <1>7, OwnershipPublish
<1>8. ASSUME NEW g \in Gen, CleanupStart(g) \/ CleanupEnd(g) PROVE OwnershipInv'
  BY <1>0, <1>8, OwnershipCleanupStart, OwnershipCleanupEnd
<1>9. ASSUME NEW g \in Gen, NEW p \in Providers, NEW ok \in BOOLEAN, CleanupProvider(g, p, ok)
      PROVE OwnershipInv'
  BY <1>0, <1>9, OwnershipCleanupProvider
<1>10. CASE UNCHANGED vars
  BY <1>1, <1>10 DEF vars, generationVars
<1>. QED
  BY <1>2, <1>3, <1>4, <1>5, <1>6, <1>7, <1>8, <1>9, <1>10
  DEF Next, RequestStep, RefreshStep, SweepStep, ProbeStep, ReplaceStep, CleanupStep, CloseStep, Terminated

(***************************************************************************)
(* The theorems.                                                           *)
(***************************************************************************)

\* The three layers hold of every reachable state, for any number of
\* requests, providers and generations.
THEOREM InductiveCorrect == Spec => []Inductive
<1>1. Init => Inductive BY LeaseInit, ControlInit, OwnershipInit DEF Inductive
<1>2. Inductive /\ [Next]_vars => Inductive'
  BY LeaseNext, ControlNext, OwnershipNext DEF Inductive
<1>. QED BY <1>1, <1>2, PTL DEF Spec

\* A client that a lease or a probe can hand out is open.
LEMMA UsedClientsOpen == Inductive => NoUseAfterClose
<1> SUFFICES ASSUME Inductive, NEW g \in Gen, InUse(g), NEW o \in Held(g)
             PROVE  client[o] = "open"
  BY DEF NoUseAfterClose
<1>1. leases[g] > 0 \/ (g = current /\ ~closing) BY DEF InUse, Inductive, ControlInv
<1>2. Untouched(g) BY <1>1, UsedIsUntouched DEF Inductive
<1>3. PICK p \in Providers : held[g][p] # NoGen /\ o = <<held[g][p], p>>
  BY DEF Held, Cached
<1>. QED BY <1>2, <1>3 DEF Inductive, OwnershipInv

\* No client is closed while a leased generation can hand it out.
THEOREM ClientsInUseAreOpen == Spec => []NoUseAfterClose
<1>. QED BY InductiveCorrect, UsedClientsOpen, PTL

\* A close() that returned left no client, no lease and no task behind.
LEMMA ClosedIsComplete == Inductive => ShutdownComplete
<1> SUFFICES ASSUME Inductive, managerClosed
             PROVE /\ \A o \in Clients : client[o] \in {"unbuilt", "closed"}
                   /\ \A g \in Gen : leases[g] = 0 /\ task[g] = "none"
                   /\ \A g \in 1..current : Closed(g)
  BY DEF ShutdownComplete
<1>0. /\ TypeOK /\ Gen \subseteq Nat /\ NoGen \notin Gen /\ Gen \subseteq Holders
      /\ 1..current \subseteq Gen
  BY MaxGenAssumption DEF Inductive, LeaseInv, TypeOK, Gen, NoGen, Holders
<1>1. \A g \in Gen : g <= current => Closed(g) BY DEF Inductive, ControlInv
<1>2. ASSUME NEW g \in Gen PROVE leases[g] = 0 /\ task[g] = "none"
  <2>1. leases[g] = 0 BY <1>0, <1>1 DEF Inductive, ControlInv, Closed, TypeOK
  <2>2. lease[g] # g BY <2>1, <1>0, LeaseCounted DEF Inductive
  <2>3. task[g] # "created" BY <1>0 DEF Inductive, ControlInv
  <2>. QED BY <2>1, <2>2, <2>3, <1>0 DEF Inductive, LeaseInv, TypeOK
<1>3. ASSUME NEW o \in Clients PROVE client[o] \in {"unbuilt", "closed"}
  <2>1. ASSUME NEW g \in Gen, o \in Held(g) PROVE ~Closed(g) /\ g <= current
    BY <2>1 DEF Inductive, OwnershipInv, Held, Cached
  <2>2. client[o] \notin {"open", "torn"}
    BY <1>1, <2>1 DEF Inductive, OwnershipInv, NoLeak
  <2>. QED BY <2>2, <1>0 DEF TypeOK
<1>. QED BY <1>0, <1>1, <1>2, <1>3

THEOREM ShutdownLeavesNothing == Spec => []ShutdownComplete
<1>. QED BY InductiveCorrect, ClosedIsComplete, PTL
\* Only the request and sweep that hold a lease drop it, and none is taken on
\* a retired generation: a drain gets shorter with every step.
LEMMA LeasesOnlyDropWhenRetired ==
  ASSUME Inductive, [Next]_vars, NEW g \in Gen, retired[g]
  PROVE  retired'[g] /\ leases'[g] <= leases[g]
<1>0. /\ TypeOK /\ ControlInv /\ LeaseInv /\ NoGen \notin Gen /\ leases[g] \in Nat
      /\ Gen \subseteq Holders /\ Requests \subseteq Holders /\ Sweep \in Holders
  <2>1. NoGen \notin Gen BY MaxGenAssumption DEF Gen, NoGen
  <2>2. Gen \subseteq Holders /\ Requests \subseteq Holders /\ Sweep \in Holders BY DEF Holders
  <2>. QED BY <2>1, <2>2 DEF Inductive, LeaseInv, TypeOK
<1>1. ASSUME UNCHANGED <<retired, leases>> PROVE retired'[g] /\ leases'[g] <= leases[g]
  BY <1>0, <1>1
<1>2. ASSUME NEW h \in Holders, NEW k \in Gen, ~retired[k], Take(h, k), UNCHANGED retired
      PROVE  retired'[g] /\ leases'[g] <= leases[g]
  BY <1>0, <1>2 DEF Take, TypeOK
<1>3. ASSUME NEW h \in Holders, NEW d \in Gen, lease[h] = d, Drop(h)
      PROVE  retired'[g] /\ leases'[g] <= leases[g]
  BY <1>0, <1>3 DEF Drop, TypeOK
<1>4. ASSUME NEW r \in Requests, Acquire(r) PROVE retired'[g] /\ leases'[g] <= leases[g]
  BY <1>0, <1>2, <1>4 DEF Acquire, ControlInv, TypeOK, generationVars
<1>5. ASSUME NEW r \in Requests, Release(r) PROVE retired'[g] /\ leases'[g] <= leases[g]
  <2>1. lease[r] \in Gen BY <1>0, <1>5 DEF Release, TypeOK
  <2>. QED BY <1>0, <1>3, <1>5, <2>1 DEF Release
<1>6. ASSUME NEW k \in Gen, RefreshStart(k) PROVE retired'[g] /\ leases'[g] <= leases[g]
  <2>1. ~retired[k] /\ ~Closed(k)
    BY <1>0, <1>6 DEF RefreshStart, ControlInv, Closed
  <2>. QED BY <1>0, <1>2, <1>6, <2>1 DEF RefreshStart, generationVars
<1>7. ASSUME NEW k \in Gen, RefreshEnd(k) PROVE retired'[g] /\ leases'[g] <= leases[g]
  <2>1. lease[k] = k BY <1>0, <1>7 DEF RefreshEnd, LeaseInv
  <2>. QED BY <1>0, <1>3, <1>7, <2>1 DEF RefreshEnd
<1>8. CASE SweepStart
  BY <1>0, <1>2, <1>8 DEF SweepStart, ControlInv, TypeOK, generationVars
<1>9. CASE SweepEnd
  <2>1. lease[Sweep] \in Gen BY <1>0, <1>9 DEF SweepEnd, LeaseInv, TypeOK
  <2>. QED BY <1>0, <1>3, <1>9, <2>1 DEF SweepEnd
<1>10. CASE CloseRetire
  BY <1>0, <1>10 DEF CloseRetire, TypeOK, leaseVars
<1>11. ASSUME NEW rebuilt \in SUBSET Providers, NEW bg \in BOOLEAN, ReplacePublish(rebuilt, bg)
       PROVE  retired'[g] /\ leases'[g] <= leases[g]
  BY <1>0, <1>11 DEF ReplacePublish, TypeOK, leaseVars
<1>12. ASSUME NEW p \in Providers,
              \/ \E r \in Requests : RequestResolve(r, p)
              \/ \E k \in Gen : RefreshResolve(k, p)
              \/ SweepResolve(p) \/ ProbeResolve(p)
       PROVE  retired'[g] /\ leases'[g] <= leases[g]
  BY <1>1, <1>12 DEF RequestResolve, RefreshResolve, SweepResolve, ProbeResolve, generationVars, leaseVars
<1>13. CASE SweepBegin \/ ProbeBegin \/ ProbeEnd \/ ReplaceBegin \/ ReplaceFail \/ ReplaceEnd
            \/ LockOwnerCancelled \/ RequestStop \/ CloseBegin \/ CloseDrained \/ CloseEnd
  BY <1>1, <1>13 DEF SweepBegin, ProbeBegin, ProbeEnd, ReplaceBegin, ReplaceFail, ReplaceEnd,
       LockOwnerCancelled, RequestStop, CloseBegin, CloseDrained, CloseEnd, generationVars, leaseVars
<1>14. ASSUME NEW k \in Gen, CleanupStart(k) \/ CleanupEnd(k)
       PROVE  retired'[g] /\ leases'[g] <= leases[g]
  BY <1>1, <1>14 DEF CleanupStart, CleanupEnd, leaseVars
<1>15. ASSUME NEW k \in Gen, NEW p \in Providers, NEW ok \in BOOLEAN, CleanupProvider(k, p, ok)
       PROVE  retired'[g] /\ leases'[g] <= leases[g]
  BY <1>1, <1>15 DEF CleanupProvider, leaseVars
<1>16. CASE UNCHANGED vars
  BY <1>1, <1>16 DEF vars, generationVars, leaseVars
<1>. QED
  BY <1>4, <1>5, <1>6, <1>7, <1>8, <1>9, <1>10, <1>11, <1>12, <1>13, <1>14, <1>15, <1>16
  DEF Next, RequestStep, RefreshStep, SweepStep, ProbeStep, ReplaceStep, CleanupStep, CloseStep, Terminated

THEOREM DrainsOnlyShorten == Spec => RetiredOnlyDrains
<1>1. Inductive /\ [Next]_vars =>
        [\A g \in Gen : retired[g] => retired'[g] /\ leases'[g] <= leases[g]]_vars
  BY LeasesOnlyDropWhenRetired
<1>. QED BY <1>1, InductiveCorrect, PTL DEF Spec, RetiredOnlyDrains
(***************************************************************************)
(* The other invariants are conjuncts of the inductive one.                *)
(***************************************************************************)

\* active_leases of every generation is the number of its lease holders.
THEOREM LeasesAreCounted == Spec => []LeaseAccounting
<1>1. Inductive => LeaseAccounting BY DEF Inductive, LeaseInv
<1>. QED BY <1>1, InductiveCorrect, PTL

\* _holders counts exactly the generations that share a client, and a client
\* that was built stays reachable by a cleanup until it is closed.
THEOREM ClientsAreOwned == Spec => [](HoldersExact /\ NoLeak)
<1>1. Inductive => HoldersExact /\ NoLeak BY DEF Inductive, OwnershipInv
<1>. QED BY <1>1, InductiveCorrect, PTL

\* Nothing is cleaned up while it is leased, current or probed.
THEOREM CleanupsAreIdle == Spec => []CleanupOnlyWhenIdle
<1>1. ASSUME Inductive PROVE CleanupOnlyWhenIdle
  <2> SUFFICES ASSUME NEW g \in Gen, cleanup[g] # "none"
               PROVE  /\ leases[g] = 0 /\ retired[g] /\ task[g] = "none"
                      /\ (lock = "probe" => g # current)
    BY DEF CleanupOnlyWhenIdle
  <2>1. leases[g] = 0 /\ retired[g] BY <1>1 DEF Inductive, ControlInv
  <2>2. lock = "probe" => g # current BY <1>1, <2>1 DEF Inductive, ControlInv
  <2>3. task[g] \notin {"running", "cancelling"}
    <3>1. ASSUME task[g] \in {"running", "cancelling"} PROVE FALSE
      <4>1. g \in Holders /\ lease[g] = g
        BY <1>1, <3>1 DEF Inductive, LeaseInv, Holders
      <4>. QED BY <1>1, <2>1, <4>1, LeaseCounted DEF Inductive, LeaseInv
    <3>. QED BY <3>1
  <2>4. task[g] # "created"
    <3>1. NoGen \notin Gen BY MaxGenAssumption DEF Gen, NoGen
    <3>. QED BY <1>1, <2>1, <3>1 DEF Inductive, ControlInv
  <2>. QED BY <1>1, <2>1, <2>2, <2>3, <2>4 DEF Inductive, LeaseInv, TypeOK
<1>. QED BY <1>1, InductiveCorrect, PTL

(***************************************************************************)
(* The manager implements ClientLifetimes.                                 *)
(***************************************************************************)

LEMMA LifetimesInit == Init => Lifetimes!AInit
<1> SUFFICES ASSUME Init PROVE Lifetimes!AInit OBVIOUS
<1>1. Pinned = [g \in Gen |-> {}] BY DEF Init, Pinned
<1>. QED BY <1>1 DEF Init, Lifetimes!AInit

LEMMA HeldClients == ASSUME TypeOK, NEW g \in Gen PROVE Held(g) \in SUBSET Clients
  BY DEF TypeOK, Held, Cached, Clients

LEMMA LifetimesStep ==
  ASSUME Inductive, Inductive', [Next]_vars
  PROVE  [Lifetimes!ANext]_<<client, Pinned>>
<1>0. /\ TypeOK /\ TypeOK' /\ LeaseInv /\ LeaseInv' /\ ControlInv /\ OwnershipInv /\ NoGen \notin Gen
      /\ Gen \subseteq Nat /\ Gen \subseteq Holders /\ Requests \subseteq Holders /\ Sweep \in Holders
  <2>1. NoGen \notin Gen /\ Gen \subseteq Nat BY MaxGenAssumption DEF Gen, NoGen
  <2>2. Gen \subseteq Holders /\ Requests \subseteq Holders /\ Sweep \in Holders BY DEF Holders
  <2>. QED BY <2>1, <2>2 DEF Inductive, LeaseInv
<1>1. ASSUME UNCHANGED <<client, leases>>,
             \A g \in Gen : leases[g] > 0 => held'[g] = held[g]
      PROVE  UNCHANGED <<client, Pinned>>
  <2>1. \A g \in Gen : (IF leases'[g] > 0 THEN Held(g)' ELSE {}) = (IF leases[g] > 0 THEN Held(g) ELSE {})
    BY <1>1 DEF Held, Cached
  <2>. QED BY <1>1, <2>1 DEF Pinned
<1>2. ASSUME UNCHANGED clientVars, NEW h \in Holders, NEW k \in Gen, Take(h, k),
             k = current, ~retired[k]
      PROVE  Lifetimes!ANext
  <2>1. Untouched(k) BY <1>0, <1>2 DEF ControlInv, Untouched, TypeOK
  <2>2. ASSUME NEW o \in Held(k) PROVE client[o] = "open"
    <3>1. PICK p \in Providers : held[k][p] # NoGen /\ o = <<held[k][p], p>>
      BY DEF Held, Cached
    <3>. QED BY <3>1, <2>1, <1>0 DEF OwnershipInv
  <2>3. \A g \in Gen : Held(g)' = Held(g) BY <1>2 DEF Held, Cached, clientVars
  <2>4. \A g \in Gen : leases'[g] = IF g = k THEN leases[g] + 1 ELSE leases[g]
    BY <1>0, <1>2 DEF Take, TypeOK
  <2>5. leases[k] + 1 > 0 BY <1>0 DEF TypeOK
  <2>6. Pinned' = [Pinned EXCEPT ![k] = Held(k)] BY <2>3, <2>4, <2>5 DEF Pinned
  <2>7. Lifetimes!Pin(k, Held(k)) BY <2>2, <2>6, <1>2 DEF Lifetimes!Pin, clientVars
  <2>. QED BY <2>7, <1>0, HeldClients DEF Lifetimes!ANext
<1>3. ASSUME UNCHANGED clientVars, NEW h \in Holders, NEW d \in Gen, lease[h] = d, Drop(h)
      PROVE  [Lifetimes!ANext]_<<client, Pinned>>
  <2>1. leases[d] > 0 BY <1>0, <1>3, LeaseCounted
  <2>2. \A g \in Gen : leases'[g] = IF g = d THEN leases[g] - 1 ELSE leases[g]
    BY <1>0, <1>3 DEF Drop, TypeOK
  <2>3. \A g \in Gen : Held(g)' = Held(g) BY <1>3 DEF Held, Cached, clientVars
  <2>4. CASE leases[d] - 1 > 0
    <3>1. Pinned' = Pinned BY <2>1, <2>2, <2>3, <2>4 DEF Pinned
    <3>. QED BY <3>1, <1>3 DEF clientVars
  <2>5. CASE ~(leases[d] - 1 > 0)
    <3>1. Pinned' = [Pinned EXCEPT ![d] = {}] BY <2>2, <2>3, <2>5 DEF Pinned
    <3>2. Lifetimes!Pin(d, {}) BY <3>1, <1>3 DEF Lifetimes!Pin, clientVars
    <3>. QED BY <3>2 DEF Lifetimes!ANext
  <2>. QED BY <2>4, <2>5
<1>4. ASSUME NEW r \in Requests, Acquire(r) PROVE Lifetimes!ANext
  BY <1>0, <1>2, <1>4 DEF Acquire, ControlInv, TypeOK
<1>5. ASSUME NEW r \in Requests, Release(r) PROVE [Lifetimes!ANext]_<<client, Pinned>>
  <2>1. lease[r] \in Gen BY <1>0, <1>5 DEF Release, TypeOK
  <2>. QED BY <1>0, <1>3, <1>5, <2>1 DEF Release
<1>6. ASSUME NEW k \in Gen, RefreshStart(k) PROVE Lifetimes!ANext
  <2>1. k = current /\ ~retired[k] /\ ~Closed(k)
    BY <1>0, <1>6 DEF RefreshStart, ControlInv, Closed
  <2>. QED BY <1>0, <1>2, <1>6, <2>1 DEF RefreshStart
<1>7. ASSUME NEW k \in Gen, RefreshEnd(k) PROVE [Lifetimes!ANext]_<<client, Pinned>>
  <2>1. lease[k] = k BY <1>0, <1>7 DEF RefreshEnd, LeaseInv
  <2>. QED BY <1>0, <1>3, <1>7, <2>1 DEF RefreshEnd
<1>8. CASE SweepStart
  BY <1>0, <1>2, <1>8 DEF SweepStart, ControlInv, TypeOK
<1>9. CASE SweepEnd
  <2>1. lease[Sweep] \in Gen BY <1>0, <1>9 DEF SweepEnd, LeaseInv, TypeOK
  <2>. QED BY <1>0, <1>3, <1>9, <2>1 DEF SweepEnd
<1>10. ASSUME NEW p \in Providers,
              \/ \E r \in Requests : RequestResolve(r, p)
              \/ \E k \in Gen : RefreshResolve(k, p)
              \/ SweepResolve(p) \/ ProbeResolve(p)
       PROVE  Lifetimes!ANext
  <2>1. PICK g \in Gen : /\ Resolve(g, p) /\ UNCHANGED <<generationVars, leaseVars>>
                         /\ leases[g] > 0 \/ (g = current /\ ~closing)
    BY <1>0, <1>10, ResolveUsed
  <2>2. Untouched(g) /\ cleanup[g] = "none" /\ g <= current BY <1>0, <2>1, UsedIsUntouched
  <2>3. client[<<g, p>>] = "unbuilt" /\ <<g, p>> \in Clients
    BY <1>0, <2>1, <2>2, OwnershipResolve DEF generationVars, Clients
  <2>4. client' = [client EXCEPT ![<<g, p>>] = "open"] BY <2>1 DEF Resolve
  <2>5. \A k \in Gen : Held(k)' = IF k = g THEN Held(k) \cup {<<g, p>>} ELSE Held(k)
    <3>1. held[g][p] = NoGen /\ \A k \in Gen, q \in Providers :
            held'[k][q] = IF k = g /\ q = p THEN g ELSE held[k][q]
      BY <1>0, <2>1 DEF Resolve, TypeOK
    <3>2. \A k \in Gen : k # g => Held(k)' = Held(k) BY <3>1 DEF Held, Cached
    <3>3. Held(g)' = Held(g) \cup {<<g, p>>} BY <3>1, <1>0 DEF Held, Cached
    <3>. QED BY <3>2, <3>3
  <2>6. UNCHANGED leases BY <2>1 DEF leaseVars
  <2>7. Pinned' = Pinned \/ Pinned' = [Pinned EXCEPT ![g] = @ \cup {<<g, p>>}]
    <3>1. CASE leases[g] > 0
      <4>1. Pinned' = [Pinned EXCEPT ![g] = @ \cup {<<g, p>>}] BY <3>1, <2>5, <2>6 DEF Pinned
      <4>. QED BY <4>1
    <3>2. CASE ~(leases[g] > 0)
      <4>1. Pinned' = Pinned BY <3>2, <2>5, <2>6 DEF Pinned
      <4>. QED BY <4>1
    <3>. QED BY <3>1, <3>2
  <2>8. Lifetimes!Build(<<g, p>>) BY <2>3, <2>4, <2>7 DEF Lifetimes!Build
  <2>. QED BY <2>3, <2>8 DEF Lifetimes!ANext
<1>11. ASSUME NEW rebuilt \in SUBSET Providers, NEW bg \in BOOLEAN, ReplacePublish(rebuilt, bg)
       PROVE  UNCHANGED <<client, Pinned>>
  <2>1. /\ UNCHANGED <<client, leases>> /\ current \in Gen /\ current + 1 > current
        /\ lock = "replace" /\ CarryProviders(current, current + 1, rebuilt)
    BY <1>0, <1>11 DEF ReplacePublish, CarryProviders, TypeOK, leaseVars
  <2>2. current + 1 \in Gen BY <1>0, <2>1, MaxGenAssumption DEF LeaseInv, Gen
  <2>3. leases[current + 1] = 0 BY <2>1, <2>2, <1>0 DEF ControlInv
  <2>4. \A g \in Gen : g # current + 1 => held'[g] = held[g]
    BY <2>1, <1>0 DEF CarryProviders, TypeOK
  <2>. QED BY <1>1, <2>1, <2>3, <2>4
<1>12. ASSUME NEW g \in Gen, CleanupStart(g) PROVE UNCHANGED <<client, Pinned>>
  <2>1. leases[g] = 0 BY <1>0, <1>12 DEF CleanupStart, ControlInv
  <2>2. \A k \in Gen \ {g} : held'[k] = held[k]
    BY <1>0, <1>12 DEF CleanupStart, ReleaseShared, TypeOK
  <2>3. UNCHANGED <<client, leases>> BY <1>12 DEF CleanupStart, ReleaseShared, leaseVars
  <2>. QED BY <1>1, <2>1, <2>2, <2>3
<1>13. ASSUME NEW g \in Gen, NEW p \in Providers, NEW ok \in BOOLEAN, CleanupProvider(g, p, ok)
       PROVE  Lifetimes!ANext
  <2>1. leases[g] = 0 /\ UNCHANGED leases BY <1>0, <1>13 DEF CleanupProvider, ControlInv, leaseVars
  <2>2. \A k \in Gen \ {g} : held'[k] = held[k]
    <3>1. CASE ok BY <3>1, <1>0, <1>13 DEF CleanupProvider, TypeOK
    <3>2. CASE ~ok BY <3>2, <1>0, <1>13 DEF CleanupProvider, TypeOK
    <3>. QED BY <3>1, <3>2
  <2>3. \E f : f = held[g][p] OBVIOUS
  <2>4. PICK f : f = held[g][p] BY <2>3
  <2>5. /\ <<f, p>> \in Clients /\ client[<<f, p>>] \in {"open", "torn"}
        /\ \A k \in Gen \ {g} : held[k][p] # f
    BY <1>0, <1>13, <2>4, OwnershipCleanupProvider
  <2>6. f \in Gen BY <2>5 DEF Clients
  <2>7. \A k \in Gen : <<f, p>> \notin Pinned[k]
    <3>1. \A k \in Gen : k # g => <<f, p>> \notin Held(k) BY <2>5, <2>6, HeldPair
    <3>. QED BY <3>1, <2>1 DEF Pinned
  <2>8. Pinned' = Pinned
    <3>1. \A k \in Gen : (IF leases'[k] > 0 THEN Held(k)' ELSE {}) = (IF leases[k] > 0 THEN Held(k) ELSE {})
      BY <2>1, <2>2 DEF Held, Cached
    <3>. QED BY <3>1 DEF Pinned
  <2>9. client' = [client EXCEPT ![<<f, p>>] = IF ok THEN "closed" ELSE "torn"]
    BY <1>13, <2>4 DEF CleanupProvider
  <2>10. Lifetimes!Close(<<f, p>>, ok) BY <2>5, <2>7, <2>8, <2>9 DEF Lifetimes!Close
  <2>. QED BY <2>5, <2>10 DEF Lifetimes!ANext
<1>14. CASE UNCHANGED clientVars /\ UNCHANGED leaseVars
  BY <1>1, <1>14 DEF clientVars, leaseVars
<1>15. CASE SweepBegin \/ ProbeBegin \/ ProbeEnd \/ ReplaceBegin \/ ReplaceFail \/ ReplaceEnd
            \/ LockOwnerCancelled \/ RequestStop \/ CloseBegin \/ CloseRetire \/ CloseDrained \/ CloseEnd
  BY <1>14, <1>15 DEF SweepBegin, ProbeBegin, ProbeEnd, ReplaceBegin, ReplaceFail, ReplaceEnd,
       LockOwnerCancelled, RequestStop, CloseBegin, CloseRetire, CloseDrained, CloseEnd
<1>16. ASSUME NEW g \in Gen, CleanupEnd(g) PROVE UNCHANGED <<client, Pinned>>
  BY <1>1, <1>16 DEF CleanupEnd, clientVars, leaseVars
<1>17. CASE UNCHANGED vars
  BY <1>14, <1>17 DEF vars
<1>. QED
  BY <1>4, <1>5, <1>6, <1>7, <1>8, <1>9, <1>10, <1>11, <1>12, <1>13, <1>15, <1>16, <1>17
  DEF Next, RequestStep, RefreshStep, SweepStep, ProbeStep, ReplaceStep, CleanupStep, CloseStep, Terminated

\* The manager implements ClientLifetimes: it builds each client once, never
\* closes one a lease can hand out, and closes none twice.
THEOREM LifetimesImplemented == Spec => ImplementsLifetimes
<1>1. Inductive /\ Inductive' /\ [Next]_vars => [Lifetimes!ANext]_<<client, Pinned>>
  BY LifetimesStep
<1>2. <<client, Pinned>> = Lifetimes!avars BY DEF Lifetimes!avars
<1>. QED BY <1>1, <1>2, LifetimesInit, InductiveCorrect, PTL DEF Spec, ImplementsLifetimes, Lifetimes!ASpec, Lifetimes!avars
=============================================================================
