---------------------- MODULE SessionPersistence_proofs ----------------------
(***************************************************************************)
(* Proofs about SessionPersistence, for every bound: the inductive         *)
(* invariant, and what it gives about the file.                            *)
(***************************************************************************)
EXTENDS SessionPersistence, TLAPS

LEMMA WorkerFacts ==
  /\ Main \in Workers /\ Timers \subseteq Workers /\ Main \notin Timers
  /\ Nobody \notin Workers /\ Workers \subseteq Int
BY BoundsAssumption DEF Main, Timers, Workers, Nobody

LEMMA InitInductive == Init => Inductive
<1> SUFFICES ASSUME Init PROVE Inductive
  OBVIOUS
<1> USE BoundsAssumption, WorkerFacts DEF Init
<1>1. TypeOK
  <2>1. pc \in [Workers -> Steps] /\ claimed \in [Workers -> 0..MaxGeneration]
    BY DEF Steps
  <2>2. snap \in [Workers -> 0..MaxVersion]
    OBVIOUS
  <2>3. memory \in 0..MaxVersion /\ disk \in 0..MaxVersion
    OBVIOUS
  <2>4. /\ generation \in 0..MaxGeneration /\ timer \in {0, generation}
        /\ wanted \in 0..MaxVersion /\ durable \in 0..MaxVersion
        /\ failures \in 0..MaxFailures /\ crashes \in 0..MaxCrashes
    OBVIOUS
  <2>5. writer \in Workers \cup {Nobody}
    OBVIOUS
  <2>6. dirty \in BOOLEAN /\ clearing \in BOOLEAN
    OBVIOUS
  <2> QED BY <2>1, <2>2, <2>3, <2>4, <2>5, <2>6 DEF TypeOK
<1>2. WritesOrdered
  BY DEF WritesOrdered
<1>3. CallIsAlone /\ TimerIsAlive
  BY DEF CallIsAlone, TimerIsAlive
<1>4. disk <= memory /\ ReturnedIsDurable /\ ChangeIsPending
  BY DEF ReturnedIsDurable, ChangeIsPending
<1> QED BY <1>1, <1>2, <1>3, <1>4 DEF Inductive

LEMMA ScheduleSaveKeeps == Inductive /\ ScheduleSave => Inductive'
<1> SUFFICES ASSUME Inductive, ScheduleSave PROVE Inductive'
  OBVIOUS
<1> USE BoundsAssumption, WorkerFacts
        DEF Inductive, ScheduleSave, callVars, boundVars, workVars
<1>1. generation' \in Timers /\ generation' # 0 /\ timer' = generation'
  BY DEF TypeOK, Timers
<1>2. /\ pc' \in [Workers -> Steps] /\ pc'[generation'] = "armed" /\ pc'[Main] = "idle"
      /\ \A w \in Workers : pc'[w] \in {pc[w], "idle", "armed"}
  BY <1>1 DEF TypeOK, Cancelled, Steps
<1>3. TypeOK'
  BY <1>1, <1>2 DEF TypeOK
<1>4. WritesOrdered'
  BY <1>2 DEF WritesOrdered, TypeOK
<1>5. CallIsAlone' /\ TimerIsAlive' /\ ChangeIsPending'
  BY <1>1, <1>2 DEF CallIsAlone, TimerIsAlive, ChangeIsPending, Pending
<1>6. disk' <= memory' /\ ReturnedIsDurable'
  BY DEF TypeOK, ReturnedIsDurable
<1> QED BY <1>3, <1>4, <1>5, <1>6

LEMMA FlushKeeps == Inductive /\ Flush => Inductive'
<1> SUFFICES ASSUME Inductive, Flush PROVE Inductive'
  OBVIOUS
<1> USE BoundsAssumption, WorkerFacts
        DEF Inductive, Flush, timerVars, workVars, boundVars
<1>1. /\ pc' \in [Workers -> Steps] /\ pc'[Main] = "claim"
      /\ \A w \in Workers \ {Main} : pc'[w] = pc[w]
  BY DEF TypeOK, Steps
<1>2. TypeOK'
  BY <1>1 DEF TypeOK
<1>3. WritesOrdered'
  BY <1>1 DEF WritesOrdered, TypeOK
<1>4. CallIsAlone'
  BY <1>1 DEF CallIsAlone
<1>5. TimerIsAlive'
  BY <1>1 DEF TimerIsAlive, TypeOK, Timers, Main, Workers
<1>6. ChangeIsPending'
  <2> SUFFICES ASSUME failures = 0, memory # disk PROVE Pending'
    BY DEF ChangeIsPending
  <2>1. Pending
    BY DEF ChangeIsPending
  <2>2. CASE timer # 0 /\ pc[timer] \in {"armed", "claim"}
    BY <2>2, <1>1 DEF Pending, TypeOK, Timers, Main, Workers
  <2>3. CASE \E w \in Workers :
               claimed[w] = generation /\ pc[w] \in {"snapshot", "check", "write", "fail"}
    <3>1. PICK w \in Workers :
            claimed[w] = generation /\ pc[w] \in {"snapshot", "check", "write", "fail"}
      BY <2>3
    <3>2. w # Main /\ pc'[w] = pc[w]
      BY <3>1, <1>1
    <3> QED BY <3>1, <3>2 DEF Pending
  <2> QED BY <2>1, <2>2, <2>3 DEF Pending
<1>7. disk' <= memory' /\ ReturnedIsDurable'
  BY DEF ReturnedIsDurable
<1> QED BY <1>2, <1>3, <1>4, <1>5, <1>6, <1>7

LEMMA ClearScopeKeeps == Inductive /\ ClearScope => Inductive'
<1> SUFFICES ASSUME Inductive, ClearScope PROVE Inductive'
  OBVIOUS
<1> USE BoundsAssumption, WorkerFacts
        DEF Inductive, ClearScope, Supersede, boundVars
<1>1. /\ pc' \in [Workers -> Steps] /\ pc'[Main] = "check"
      /\ \A w \in Workers \ {Main} : pc'[w] = pc[w] \/ pc'[w] = "idle"
  BY DEF TypeOK, Cancelled, Steps
<1>2. /\ claimed' \in [Workers -> 0..MaxGeneration] /\ claimed'[Main] = generation'
      /\ snap' \in [Workers -> 0..MaxVersion] /\ snap'[Main] = memory'
      /\ \A w \in Workers \ {Main} : claimed'[w] = claimed[w] /\ snap'[w] = snap[w]
  BY DEF TypeOK
<1>3. TypeOK'
  BY <1>1, <1>2 DEF TypeOK
<1>4. WritesOrdered'
  <2> SUFFICES ASSUME NEW w \in Workers
               PROVE  /\ claimed'[w] <= generation' /\ snap'[w] <= memory'
                      /\ pc'[w] \in {"check", "write"} /\ claimed'[w] = generation'
                           => snap'[w] = memory'
                      /\ pc'[w] = "write" => writer' = w /\ disk' <= snap'[w]
                      /\ pc'[w] = "fail" => failures' > 0
    BY DEF WritesOrdered
  <2>1. CASE w = Main
    BY <2>1, <1>1, <1>2 DEF TypeOK
  <2>2. CASE w # Main
    BY <2>2, <1>1, <1>2 DEF TypeOK, WritesOrdered
  <2> QED BY <2>1, <2>2
<1>5. CallIsAlone' /\ TimerIsAlive'
  BY <1>1, <1>2 DEF CallIsAlone, TimerIsAlive
<1>6. ChangeIsPending'
  BY <1>1, <1>2 DEF ChangeIsPending, Pending
<1>7. disk' <= memory' /\ ReturnedIsDurable'
  BY DEF TypeOK, ReturnedIsDurable
<1> QED BY <1>3, <1>4, <1>5, <1>6, <1>7

\* A step of one worker that changes nothing but where it is keeps what is
\* pending, when it does not take a current write off its way.
LEMMA PendingElsewhere ==
  ASSUME TypeOK, NEW w \in Workers, Pending,
         pc' \in [Workers -> Steps],
         \A v \in Workers \ {w} : pc'[v] = pc[v],
         generation' = generation, timer' = timer,
         \A v \in Workers \ {w} : claimed'[v] = claimed[v],
         w = timer /\ timer # 0 => pc[w] \notin {"armed", "claim"} \/ pc'[w] \in {"armed", "claim"},
         claimed[w] = generation /\ pc[w] \in {"snapshot", "check", "write", "fail"} =>
           claimed'[w] = generation /\ pc'[w] \in {"snapshot", "check", "write", "fail"}
  PROVE  Pending'
<1>1. CASE timer # 0 /\ pc[timer] \in {"armed", "claim"}
  <2>1. timer \in Workers
    BY <1>1 DEF TypeOK, Workers, Timers
  <2> QED BY <1>1, <2>1 DEF Pending
<1>2. CASE \E v \in Workers :
             claimed[v] = generation /\ pc[v] \in {"snapshot", "check", "write", "fail"}
  <2>1. PICK v \in Workers :
          claimed[v] = generation /\ pc[v] \in {"snapshot", "check", "write", "fail"}
    BY <1>2
  <2>2. claimed'[v] = generation' /\ pc'[v] \in {"snapshot", "check", "write", "fail"}
    BY <2>1
  <2> QED BY <2>2 DEF Pending
<1> QED BY <1>1, <1>2 DEF Pending

LEMMA TimerFiresKeeps ==
  ASSUME Inductive, NEW g \in Timers, TimerFires(g) PROVE Inductive'
<1> USE BoundsAssumption, WorkerFacts
        DEF Inductive, TimerFires, storeVars, timerVars, workVars, callVars, boundVars
<1>1. /\ pc' \in [Workers -> Steps] /\ pc'[g] = "claim"
      /\ \A w \in Workers \ {g} : pc'[w] = pc[w]
  BY DEF TypeOK, Steps
<1>2. TypeOK'
  BY <1>1 DEF TypeOK
<1>3. WritesOrdered'
  BY <1>1 DEF WritesOrdered
<1>4. CallIsAlone' /\ TimerIsAlive'
  BY <1>1 DEF CallIsAlone, TimerIsAlive, TypeOK, Workers, Timers
<1>5. ChangeIsPending'
  BY <1>1, PendingElsewhere DEF ChangeIsPending
<1>6. disk' <= memory' /\ ReturnedIsDurable'
  BY DEF ReturnedIsDurable
<1> QED BY <1>2, <1>3, <1>4, <1>5, <1>6

LEMMA ClaimTimerKeeps ==
  ASSUME Inductive, NEW w \in Workers, ClaimTimer(w) PROVE Inductive'
<1> USE BoundsAssumption, WorkerFacts
        DEF Inductive, ClaimTimer, storeVars, callVars, boundVars
<1>1. CASE w = Main \/ (w = generation /\ timer # 0)
  <2>1. /\ pc' \in [Workers -> Steps] /\ pc'[w] = "snapshot"
        /\ \A v \in Workers \ {w} : pc'[v] = pc[v] \/ pc'[v] = "idle"
        /\ w # Main => pc'[Main] = pc[Main]
    BY <1>1 DEF TypeOK, Steps, Cancelled
  <2>2. /\ claimed' \in [Workers -> 0..MaxGeneration] /\ claimed'[w] = generation
        /\ \A v \in Workers \ {w} : claimed'[v] = claimed[v]
        /\ timer' = 0
    BY <1>1 DEF TypeOK
  <2>3. TypeOK'
    BY <2>1, <2>2 DEF TypeOK
  <2>4. WritesOrdered'
    BY <2>1, <2>2 DEF WritesOrdered, TypeOK
  <2>5. CallIsAlone' /\ TimerIsAlive'
    BY <2>1, <2>2 DEF CallIsAlone, TimerIsAlive
  <2>6. ChangeIsPending'
    BY <2>1, <2>2 DEF ChangeIsPending, Pending
  <2>7. disk' <= memory' /\ ReturnedIsDurable'
    BY DEF ReturnedIsDurable
  <2> QED BY <2>3, <2>4, <2>5, <2>6, <2>7
<1>2. CASE ~(w = Main \/ (w = generation /\ timer # 0))
  <2>1. /\ pc' \in [Workers -> Steps] /\ pc'[w] = "idle"
        /\ \A v \in Workers \ {w} : pc'[v] = pc[v]
        /\ UNCHANGED <<timer, claimed>>
    BY <1>2 DEF TypeOK, Steps, Ends
  <2>2. w # Main /\ (timer # 0 => timer # w)
    BY <1>2 DEF TypeOK
  <2>3. TypeOK'
    BY <2>1 DEF TypeOK
  <2>4. WritesOrdered'
    BY <2>1 DEF WritesOrdered
  <2>5. CallIsAlone' /\ TimerIsAlive'
    BY <2>1, <2>2 DEF CallIsAlone, TimerIsAlive, TypeOK, Workers, Timers
  <2>6. ChangeIsPending'
    BY <2>1, <2>2, PendingElsewhere DEF ChangeIsPending
  <2>7. disk' <= memory' /\ ReturnedIsDurable'
    BY DEF ReturnedIsDurable
  <2> QED BY <2>3, <2>4, <2>5, <2>6, <2>7
<1> QED BY <1>1, <1>2

LEMMA TakeSnapshotKeeps ==
  ASSUME Inductive, NEW w \in Workers, TakeSnapshot(w) PROVE Inductive'
<1> USE BoundsAssumption, WorkerFacts
        DEF Inductive, TakeSnapshot, storeVars, timerVars, callVars, boundVars
<1>1. /\ pc' \in [Workers -> Steps] /\ pc'[w] = "check"
      /\ \A v \in Workers \ {w} : pc'[v] = pc[v]
      /\ snap' \in [Workers -> 0..MaxVersion] /\ snap'[w] = memory
      /\ \A v \in Workers \ {w} : snap'[v] = snap[v]
  BY DEF TypeOK, Steps
<1>2. TypeOK'
  BY <1>1 DEF TypeOK
<1>3. WritesOrdered'
  BY <1>1 DEF WritesOrdered, TypeOK
<1>4. CallIsAlone'
  BY <1>1 DEF CallIsAlone
<1>5. TimerIsAlive'
  BY <1>1 DEF TimerIsAlive, TypeOK, Workers, Timers
<1>6. ChangeIsPending'
  BY <1>1, PendingElsewhere DEF ChangeIsPending
<1>7. disk' <= memory' /\ ReturnedIsDurable'
  BY DEF ReturnedIsDurable
<1> QED BY <1>2, <1>3, <1>4, <1>5, <1>6, <1>7

\* What a call of the event loop that returns leaves durable.
LEMMA ReturnsDurably ==
  ASSUME TypeOK, ReturnedIsDurable, NEW w \in Workers, Returns(w), disk' = disk,
         w = Main => wanted <= disk
  PROVE  durable' \in 0..MaxVersion /\ clearing' \in BOOLEAN /\ wanted' = wanted /\ disk' >= durable'
<1>1. clearing' \in BOOLEAN /\ wanted' = wanted
  BY DEF Returns, TypeOK
<1>2. durable' \in 0..MaxVersion /\ disk' >= durable'
  BY WorkerFacts DEF Returns, TypeOK, ReturnedIsDurable
<1> QED BY <1>1, <1>2

LEMMA WriteBeginsKeeps ==
  ASSUME Inductive, NEW w \in Workers, WriteBegins(w) PROVE Inductive'
<1> USE BoundsAssumption, WorkerFacts
        DEF Inductive, WriteBegins, storeVars, timerVars, workVars, boundVars
<1>1. CASE Current(w)
  <2>1. /\ pc' \in [Workers -> Steps] /\ pc'[w] = "write"
        /\ \A v \in Workers \ {w} : pc'[v] = pc[v]
        /\ writer' = w /\ UNCHANGED callVars
    BY <1>1 DEF TypeOK, Steps
  <2>2. TypeOK'
    BY <2>1 DEF TypeOK, callVars
  <2>3. WritesOrdered'
    BY <1>1, <2>1 DEF WritesOrdered, Current
  <2>4. CallIsAlone'
    BY <1>1, <2>1 DEF CallIsAlone, callVars
  <2>5. TimerIsAlive'
    BY <2>1 DEF TimerIsAlive, TypeOK, Workers, Timers
  <2>6. ChangeIsPending'
    BY <2>1, PendingElsewhere DEF ChangeIsPending
  <2>7. disk' <= memory' /\ ReturnedIsDurable'
    BY <2>1 DEF ReturnedIsDurable, callVars
  <2> QED BY <2>2, <2>3, <2>4, <2>5, <2>6, <2>7
<1>2. CASE ~Current(w)
  <2>1. /\ pc' \in [Workers -> Steps] /\ pc'[w] = "idle"
        /\ \A v \in Workers \ {w} : pc'[v] = pc[v]
        /\ writer' = writer /\ Returns(w)
    BY <1>2 DEF TypeOK, Steps, Returns, Ends
  <2>2. w # Main
    BY <1>2 DEF CallIsAlone, Current
  <2>3. durable' \in 0..MaxVersion /\ clearing' \in BOOLEAN /\ wanted' = wanted /\ disk' >= durable'
    BY <2>1, <2>2, ReturnsDurably
  <2>4. TypeOK'
    BY <2>1, <2>3 DEF TypeOK
  <2>5. WritesOrdered'
    BY <2>1 DEF WritesOrdered
  <2>6. CallIsAlone'
    BY <2>1, <2>2, <2>3 DEF CallIsAlone
  <2>7. TimerIsAlive'
    BY <2>1 DEF TimerIsAlive, TypeOK, Workers, Timers
  <2>8. ChangeIsPending'
    BY <1>2, <2>1, PendingElsewhere DEF ChangeIsPending, Current
  <2>9. disk' <= memory' /\ ReturnedIsDurable'
    BY <2>3 DEF ReturnedIsDurable
  <2> QED BY <2>4, <2>5, <2>6, <2>7, <2>8, <2>9
<1> QED BY <1>1, <1>2

LEMMA WriteEndsKeeps ==
  ASSUME Inductive, NEW w \in Workers, WriteEnds(w) PROVE Inductive'
<1> USE BoundsAssumption, WorkerFacts
        DEF Inductive, WriteEnds, storeVars, timerVars, workVars, callVars, boundVars
<1>1. /\ pc' \in [Workers -> Steps] /\ pc'[w] = "mark"
      /\ \A v \in Workers \ {w} : pc'[v] = pc[v]
  BY DEF TypeOK, Steps
<1>2. disk' \in 0..MaxVersion /\ disk <= disk' /\ disk' <= memory /\ memory \in Nat
  BY DEF TypeOK, WritesOrdered
<1>3. \A v \in Workers \ {w} : pc[v] # "write"
  BY DEF WritesOrdered
<1>4. TypeOK'
  BY <1>1, <1>2 DEF TypeOK
<1>5. WritesOrdered'
  BY <1>1, <1>2, <1>3 DEF WritesOrdered
<1>6. CallIsAlone'
  BY <1>1, <1>2 DEF CallIsAlone, TypeOK
<1>7. TimerIsAlive'
  BY <1>1 DEF TimerIsAlive, TypeOK, Workers, Timers
<1>8. ChangeIsPending'
  <2> SUFFICES ASSUME failures = 0, memory # disk' PROVE Pending'
    BY DEF ChangeIsPending
  <2>1. memory # disk
    BY <1>2 DEF TypeOK
  <2>2. Pending
    BY <2>1 DEF ChangeIsPending
  <2>3. claimed[w] # generation
    BY DEF WritesOrdered
  <2> QED BY <2>2, <2>3, <1>1, PendingElsewhere
<1>9. disk' <= memory' /\ ReturnedIsDurable'
  BY <1>2 DEF ReturnedIsDurable, TypeOK
<1> QED BY <1>4, <1>5, <1>6, <1>7, <1>8, <1>9

LEMMA WriteFailsKeeps ==
  ASSUME Inductive, NEW w \in Workers, WriteFails(w) PROVE Inductive'
<1> USE BoundsAssumption, WorkerFacts
        DEF Inductive, WriteFails, storeVars, timerVars, workVars, callVars
<1>1. /\ pc' \in [Workers -> Steps] /\ pc'[w] = "fail"
      /\ \A v \in Workers \ {w} : pc'[v] = pc[v]
      /\ failures' \in 0..MaxFailures /\ failures' > 0
  BY DEF TypeOK, Steps
<1>2. \A v \in Workers \ {w} : pc[v] # "write"
  BY DEF WritesOrdered
<1>3. TypeOK'
  BY <1>1 DEF TypeOK
<1>4. WritesOrdered'
  BY <1>1, <1>2 DEF WritesOrdered
<1>5. CallIsAlone'
  BY <1>1 DEF CallIsAlone
<1>6. TimerIsAlive'
  BY <1>1 DEF TimerIsAlive, TypeOK, Workers, Timers
<1>7. ChangeIsPending'
  BY <1>1 DEF ChangeIsPending
<1>8. disk' <= memory' /\ ReturnedIsDurable'
  BY DEF ReturnedIsDurable
<1> QED BY <1>3, <1>4, <1>5, <1>6, <1>7, <1>8

\* A worker that ends without a write keeps the invariant, when what it leaves
\* is not a current write.
LEMMA EndsKeeps ==
  ASSUME Inductive, NEW w \in Workers, Ends(w), pc[w] \in {"fail", "mark", "clean"},
         dirty' \in BOOLEAN,
         UNCHANGED <<memory, disk, timerVars, workVars, writer, boundVars>>,
         durable' \in 0..MaxVersion, clearing' \in BOOLEAN, wanted' = wanted, disk' >= durable'
  PROVE  Inductive'
<1> USE BoundsAssumption, WorkerFacts DEF Inductive, timerVars, workVars, boundVars
<1>1. /\ pc' \in [Workers -> Steps] /\ pc'[w] = "idle"
      /\ \A v \in Workers \ {w} : pc'[v] = pc[v]
  BY DEF TypeOK, Steps, Ends
<1>2. TypeOK'
  BY <1>1 DEF TypeOK
<1>3. WritesOrdered'
  BY <1>1 DEF WritesOrdered
<1>4. CallIsAlone'
  BY <1>1 DEF CallIsAlone
<1>5. TimerIsAlive'
  BY <1>1 DEF TimerIsAlive, TypeOK, Workers, Timers
<1>6. ChangeIsPending'
  <2> SUFFICES ASSUME failures = 0, memory # disk PROVE Pending'
    BY DEF ChangeIsPending
  <2>1. pc[w] # "fail"
    BY DEF WritesOrdered
  <2>2. Pending
    BY DEF ChangeIsPending
  <2> QED BY <2>1, <2>2, <1>1, PendingElsewhere
<1>7. disk' <= memory' /\ ReturnedIsDurable'
  BY DEF ReturnedIsDurable
<1> QED BY <1>2, <1>3, <1>4, <1>5, <1>6, <1>7

LEMMA FailKeeps ==
  ASSUME Inductive, NEW w \in Workers, Fail(w) PROVE Inductive'
<1>1. durable' \in 0..MaxVersion /\ clearing' \in BOOLEAN /\ wanted' = wanted /\ disk' >= durable'
  BY DEF Fail, Raises, Inductive, TypeOK, ReturnedIsDurable
<1>2. Ends(w) /\ dirty' \in BOOLEAN
  BY DEF Fail, Raises
<1> QED BY <1>1, <1>2, EndsKeeps DEF Fail

LEMMA SetCleanKeeps ==
  ASSUME Inductive, NEW w \in Workers, SetClean(w) PROVE Inductive'
<1>1. w = Main => wanted <= disk
  BY WorkerFacts DEF SetClean, Inductive, CallIsAlone, TypeOK
<1>2. durable' \in 0..MaxVersion /\ clearing' \in BOOLEAN /\ wanted' = wanted /\ disk' >= durable'
  BY <1>1, ReturnsDurably DEF SetClean, Inductive
<1>3. Ends(w) /\ dirty' \in BOOLEAN
  BY DEF SetClean, Returns
<1> QED BY <1>2, <1>3, EndsKeeps DEF SetClean

LEMMA MarkCleanKeeps ==
  ASSUME Inductive, NEW w \in Workers, MarkClean(w) PROVE Inductive'
<1>1. CASE timer = 0 /\ claimed[w] = generation
  <2> USE BoundsAssumption, WorkerFacts
          DEF Inductive, MarkClean, storeVars, timerVars, workVars, callVars, boundVars
  <2>1. /\ pc' \in [Workers -> Steps] /\ pc'[w] = "clean"
        /\ \A v \in Workers \ {w} : pc'[v] = pc[v] /\ UNCHANGED callVars
    BY <1>1 DEF TypeOK, Steps
  <2>2. UNCHANGED callVars
    BY <1>1
  <2>3. TypeOK'
    BY <2>1, <2>2 DEF TypeOK
  <2>4. WritesOrdered'
    BY <2>1, <2>2 DEF WritesOrdered
  <2>5. CallIsAlone'
    BY <2>1, <2>2 DEF CallIsAlone
  <2>6. TimerIsAlive'
    BY <2>1 DEF TimerIsAlive, TypeOK, Workers, Timers
  <2>7. ChangeIsPending'
    BY <2>1, <2>2, PendingElsewhere DEF ChangeIsPending
  <2>8. disk' <= memory' /\ ReturnedIsDurable'
    BY <2>2 DEF ReturnedIsDurable
  <2> QED BY <2>3, <2>4, <2>5, <2>6, <2>7, <2>8
<1>2. CASE ~(timer = 0 /\ claimed[w] = generation)
  <2>1. w = Main => wanted <= disk
    BY WorkerFacts DEF MarkClean, Inductive, CallIsAlone, TypeOK
  <2>2. Returns(w)
    BY <1>2 DEF MarkClean
  <2>3. durable' \in 0..MaxVersion /\ clearing' \in BOOLEAN /\ wanted' = wanted /\ disk' >= durable'
    BY <2>1, <2>2, ReturnsDurably DEF MarkClean, Inductive
  <2>4. Ends(w) /\ dirty' \in BOOLEAN /\ UNCHANGED <<memory, disk, timerVars, workVars, writer, boundVars>>
    BY <2>2 DEF Returns, MarkClean, Inductive, TypeOK, storeVars
  <2> QED BY <2>3, <2>4, EndsKeeps DEF MarkClean
<1> QED BY <1>1, <1>2

LEMMA CrashKeeps == Inductive /\ Crash => Inductive'
<1> SUFFICES ASSUME Inductive, Crash PROVE Inductive'
  OBVIOUS
<1> USE BoundsAssumption, WorkerFacts DEF Inductive, Crash
<1>1. TypeOK'
  <2>1. pc' \in [Workers -> Steps] /\ claimed' \in [Workers -> 0..MaxGeneration]
    BY DEF Steps
  <2>2. snap' \in [Workers -> 0..MaxVersion]
    OBVIOUS
  <2>3. memory' \in 0..MaxVersion /\ disk' \in 0..MaxVersion /\ dirty' \in BOOLEAN
    BY DEF TypeOK
  <2>4. /\ generation' \in 0..MaxGeneration /\ timer' \in {0, generation'}
        /\ wanted' \in 0..MaxVersion /\ durable' \in 0..MaxVersion
        /\ failures' \in 0..MaxFailures /\ crashes' \in 0..MaxCrashes
    BY DEF TypeOK
  <2> QED BY <2>1, <2>2, <2>3, <2>4 DEF TypeOK
<1>2. WritesOrdered'
  BY DEF WritesOrdered, TypeOK
<1>3. CallIsAlone' /\ TimerIsAlive'
  BY DEF CallIsAlone, TimerIsAlive
<1>4. disk' <= memory' /\ ReturnedIsDurable' /\ ChangeIsPending'
  BY DEF ReturnedIsDurable, ChangeIsPending, TypeOK
<1> QED BY <1>1, <1>2, <1>3, <1>4

LEMMA StutterKeeps == Inductive /\ UNCHANGED vars => Inductive'
<1> SUFFICES ASSUME Inductive, UNCHANGED vars PROVE Inductive'
  OBVIOUS
<1> USE DEF Inductive, vars, storeVars, timerVars, workVars, callVars, boundVars
<1>1. TypeOK' /\ WritesOrdered'
  BY DEF TypeOK, WritesOrdered
<1>2. CallIsAlone' /\ TimerIsAlive' /\ disk' <= memory' /\ ReturnedIsDurable' /\ ChangeIsPending'
  BY DEF CallIsAlone, TimerIsAlive, ReturnedIsDurable, ChangeIsPending, Pending
<1> QED BY <1>1, <1>2

LEMMA StepKeeps == Inductive /\ [Next]_vars => Inductive'
<1> SUFFICES ASSUME Inductive, [Next]_vars PROVE Inductive'
  OBVIOUS
<1>1. CASE ScheduleSave \/ Flush \/ ClearScope \/ Crash
  BY <1>1, ScheduleSaveKeeps, FlushKeeps, ClearScopeKeeps, CrashKeeps
<1>2. CASE \E g \in Timers : TimerFires(g)
  BY <1>2, TimerFiresKeeps
<1>3. ASSUME NEW w \in Workers, WriteStep(w) \/ WriteFails(w) PROVE Inductive'
  BY <1>3, ClaimTimerKeeps, TakeSnapshotKeeps, WriteBeginsKeeps, WriteEndsKeeps,
     WriteFailsKeeps, FailKeeps, MarkCleanKeeps, SetCleanKeeps DEF WriteStep
<1>4. CASE UNCHANGED vars
  BY <1>4, StutterKeeps
<1> QED BY <1>1, <1>2, <1>3, <1>4 DEF Next

\* The inductive invariant holds in every reachable state, whatever the bounds.
THEOREM InductiveCorrect == Spec => []Inductive
<1>1. Init => Inductive
  BY InitInductive
<1>2. Inductive /\ [Next]_vars => Inductive'
  BY StepKeeps
<1> QED BY <1>1, <1>2, PTL DEF Spec

\* What a flush or a clear returned for is in the file, whatever timer threads,
\* failed writes and crashes follow.
THEOREM DurableCorrect == Spec => []ReturnedIsDurable
<1>1. Inductive => ReturnedIsDurable
  BY DEF Inductive
<1> QED BY <1>1, InductiveCorrect, PTL

\* While no write has failed, a change that is not in the file yet is on its way.
THEOREM PendingCorrect == Spec => []ChangeIsPending
<1>1. Inductive => ChangeIsPending
  BY DEF Inductive
<1> QED BY <1>1, InductiveCorrect, PTL

\* No interleaving of the threads replaces the file by an older snapshot.
THEOREM FileOnlyAdvances == Spec => FileNeverGoesBack
<1>1. Inductive /\ [Next]_vars => [disk' >= disk]_vars
  <2> SUFFICES ASSUME Inductive, Next PROVE disk' >= disk
    OBVIOUS
  <2>1. disk \in Nat
    BY DEF Inductive, TypeOK
  <2>2. CASE ScheduleSave \/ Flush \/ ClearScope \/ Crash
    BY <2>1, <2>2 DEF ScheduleSave, Flush, ClearScope, Crash
  <2>3. CASE \E g \in Timers : TimerFires(g)
    BY <2>1, <2>3 DEF TimerFires
  <2>4. ASSUME NEW w \in Workers, WriteStep(w) \/ WriteFails(w) PROVE disk' >= disk
    <3>1. CASE WriteEnds(w)
      BY <3>1, <2>1 DEF WriteEnds, Inductive, WritesOrdered, TypeOK
    <3>2. CASE WriteFails(w) \/ Fail(w) \/ MarkClean(w) \/ SetClean(w)
      BY <3>2, <2>1 DEF WriteFails, Fail, MarkClean, SetClean
    <3>3. CASE ClaimTimer(w) \/ TakeSnapshot(w) \/ WriteBegins(w)
      BY <3>3, <2>1 DEF ClaimTimer, TakeSnapshot, WriteBegins
    <3> QED BY <2>4, <3>1, <3>2, <3>3 DEF WriteStep
  <2> QED BY <2>2, <2>3, <2>4 DEF Next
<1> QED BY <1>1, InductiveCorrect, PTL DEF Spec, FileNeverGoesBack
=============================================================================
