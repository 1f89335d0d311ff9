------------------------- MODULE SessionPersistence -------------------------
(***************************************************************************)
(* The durable session store: messaging/session/persistence.py under       *)
(* messaging/session/store.py.                                             *)
(*                                                                         *)
(* The event loop changes the store, flushes it and clears a chat; it does *)
(* so synchronously, one operation after the other.  Each change arms a    *)
(* debounce timer, whose thread writes the file on its own: a timer that   *)
(* has fired can no longer be cancelled, so several of these threads may   *)
(* be at work at once.  They share the store lock (snapshots and the dirty *)
(* flag), the timer lock (timer and generation) and the writer lock (the   *)
(* file); a step is what happens under one of these locks.  A clear keeps  *)
(* the store lock until its write is over.                                 *)
(*                                                                         *)
(* The content of the store is its version; the file is replaced           *)
(* atomically and holds a version too.                                     *)
(***************************************************************************)
EXTENDS Integers

CONSTANTS MaxGeneration, \* bound: saves of one process
          MaxVersion,    \* bound: changes
          MaxFailures,   \* bound: writes that raise
          MaxCrashes     \* bound: ends of the process

ASSUME BoundsAssumption ==
  MaxGeneration \in Nat /\ MaxVersion \in Nat /\ MaxFailures \in Nat /\ MaxCrashes \in Nat

\* The event loop, and the thread of the timer of each generation.
Main == 0
Timers == 1..MaxGeneration
Workers == {Main} \cup Timers

VARIABLES
  memory,     \* version of the conversation and of the managed messages
  disk,       \* version in the file
  dirty,      \* _dirty of the store
  generation, \* _save_generation
  timer,      \* _save_timer: generation of the armed timer, 0 for None
  pc,         \* where each worker is
  claimed,    \* generation of its pending write
  snap,       \* snapshot of its pending write
  writer,     \* holder of the writer lock, or Nobody
  clearing,   \* the event loop holds the store lock, in clear_scope
  wanted,     \* version to be durable when the event loop's call returns
  durable,    \* ghost: newest version a flush or clear has returned for
  failures, crashes

storeVars == <<memory, dirty>>
timerVars == <<generation, timer>>
workVars == <<claimed, snap>>
callVars == <<clearing, wanted, durable>>
boundVars == <<failures, crashes>>
vars == <<storeVars, disk, timerVars, pc, workVars, writer, callVars, boundVars>>

Nobody == -1
Steps == {"idle", "armed", "claim", "snapshot", "check", "write", "fail", "mark", "clean"}

TypeOK ==
  /\ memory \in 0..MaxVersion /\ disk \in 0..MaxVersion /\ dirty \in BOOLEAN
  /\ generation \in 0..MaxGeneration /\ timer \in {0, generation}
  /\ pc \in [Workers -> Steps]
  /\ claimed \in [Workers -> 0..MaxGeneration]
  /\ snap \in [Workers -> 0..MaxVersion]
  /\ writer \in Workers \cup {Nobody}
  /\ clearing \in BOOLEAN
  /\ wanted \in 0..MaxVersion /\ durable \in 0..MaxVersion
  /\ failures \in 0..MaxFailures /\ crashes \in 0..MaxCrashes

Init ==
  /\ memory = 0 /\ disk = 0 /\ dirty = FALSE
  /\ generation = 0 /\ timer = 0
  /\ pc = [w \in Workers |-> "idle"]
  /\ claimed = [w \in Workers |-> 0]
  /\ snap = [w \in Workers |-> 0]
  /\ writer = Nobody
  /\ clearing = FALSE
  /\ wanted = 0 /\ durable = 0
  /\ failures = 0 /\ crashes = 0

\* The store lock is an RLock: its holder may take it again.
StoreLockFree(w) == clearing => w = Main

\* timer.cancel(): a timer that has not fired never will.
Cancelled(p) == [w \in Workers |-> IF w \in Timers /\ p[w] = "armed" THEN "idle" ELSE p[w]]

-----------------------------------------------------------------------------
(***************************************************************************)
(* Operations of the event loop.                                           *)
(***************************************************************************)

\* Mutant: the writes under way stay current.
SupersedeNothing == UNCHANGED generation /\ timer' = 0
\* write_data takes over from the pending save, whatever has become of it.
Supersede == generation' = generation + 1 /\ timer' = 0

\* save_tree_snapshot and the other changes: schedule_save under the store lock.
ScheduleSave ==
  /\ pc[Main] = "idle"
  /\ memory < MaxVersion /\ generation < MaxGeneration
  /\ memory' = memory + 1
  /\ dirty' = TRUE
  /\ generation' = generation + 1
  /\ timer' = generation'
  /\ pc' = [Cancelled(pc) EXCEPT ![generation'] = "armed"]
  /\ UNCHANGED <<disk, workVars, writer, callVars, boundVars>>

\* flush(): what is in memory is written before it returns, whether a timer is
\* armed or not.
Flush ==
  /\ pc[Main] = "idle"
  /\ dirty' = TRUE
  /\ wanted' = memory
  /\ pc' = [pc EXCEPT ![Main] = "claim"]
  /\ UNCHANGED <<memory, disk, timerVars, workVars, writer, clearing, durable, boundVars>>

\* clear_scope: the change and write_data of its result under the store lock.
ClearScope ==
  /\ pc[Main] = "idle"
  /\ memory < MaxVersion /\ generation < MaxGeneration
  /\ memory' = memory + 1
  /\ dirty' = TRUE
  /\ Supersede
  /\ clearing' = TRUE
  /\ wanted' = memory'
  /\ claimed' = [claimed EXCEPT ![Main] = generation']
  /\ snap' = [snap EXCEPT ![Main] = memory']
  /\ pc' = [Cancelled(pc) EXCEPT ![Main] = "check"]
  /\ UNCHANGED <<disk, writer, durable, boundVars>>

-----------------------------------------------------------------------------
(***************************************************************************)
(* The write, by the event loop or by the thread of a timer.               *)
(***************************************************************************)

TimerFires(g) ==
  /\ pc[g] = "armed"
  /\ pc' = [pc EXCEPT ![g] = "claim"]
  /\ UNCHANGED <<storeVars, disk, timerVars, workVars, writer, callVars, boundVars>>

\* A call of the event loop that returns, or a timer thread that ends.
Ends(w) == pc' = [pc EXCEPT ![w] = "idle"]
Returns(w) ==
  /\ Ends(w)
  /\ clearing' = (clearing /\ w # Main)
  /\ durable' = IF w = Main /\ wanted > durable THEN wanted ELSE durable
  /\ UNCHANGED wanted
Raises(w) ==
  /\ Ends(w)
  /\ clearing' = (clearing /\ w # Main)
  /\ UNCHANGED <<wanted, durable>>

\* _claim_timer: a timer thread gives up when another save was scheduled or
\* claimed since.
ClaimTimer(w) ==
  /\ pc[w] = "claim"
  /\ IF w = Main \/ (w = generation /\ timer # 0)
       THEN /\ timer' = 0
            /\ claimed' = [claimed EXCEPT ![w] = generation]
            /\ pc' = [Cancelled(pc) EXCEPT ![w] = "snapshot"]
       ELSE Ends(w) /\ UNCHANGED <<timer, claimed>>
  /\ UNCHANGED <<storeVars, disk, generation, snap, writer, callVars, boundVars>>

TakeSnapshot(w) ==
  /\ pc[w] = "snapshot"
  /\ StoreLockFree(w)
  /\ snap' = [snap EXCEPT ![w] = memory]
  /\ pc' = [pc EXCEPT ![w] = "check"]
  /\ UNCHANGED <<storeVars, disk, timerVars, claimed, writer, callVars, boundVars>>

\* Mutant: the generation is not compared under the writer lock.
CurrentAlways(w) == TRUE
Current(w) == claimed[w] = generation

\* _write_if_current takes the writer lock, and writes unless superseded.
WriteBegins(w) ==
  /\ pc[w] = "check"
  /\ writer = Nobody
  /\ IF Current(w)
       THEN /\ writer' = w
            /\ pc' = [pc EXCEPT ![w] = "write"]
            /\ UNCHANGED callVars
       ELSE Returns(w) /\ UNCHANGED writer
  /\ UNCHANGED <<storeVars, disk, timerVars, workVars, boundVars>>

\* Mutant: the writer lock is kept until the dirty flag is set.
WriteEndsHolding(w) ==
  /\ pc[w] = "write"
  /\ StoreLockFree(w)
  /\ disk' = snap[w]
  /\ writer' = Nobody
  /\ pc' = [pc EXCEPT ![w] = "mark"]
  /\ UNCHANGED <<storeVars, timerVars, workVars, callVars, boundVars>>
\* os.replace of the finished temporary file, and release of the writer lock.
WriteEnds(w) ==
  /\ pc[w] = "write"
  /\ disk' = snap[w]
  /\ writer' = Nobody
  /\ pc' = [pc EXCEPT ![w] = "mark"]
  /\ UNCHANGED <<storeVars, timerVars, workVars, callVars, boundVars>>

WriteFails(w) ==
  /\ pc[w] = "write"
  /\ failures < MaxFailures
  /\ failures' = failures + 1
  /\ writer' = Nobody
  /\ pc' = [pc EXCEPT ![w] = "fail"]
  /\ UNCHANGED <<storeVars, disk, timerVars, workVars, callVars, crashes>>

\* Mutant: a failed write leaves the flag alone.
FailCleanly(w) ==
  /\ pc[w] = "fail"
  /\ StoreLockFree(w)
  /\ Raises(w)
  /\ UNCHANGED <<storeVars, disk, timerVars, workVars, writer, boundVars>>
\* A failed write leaves the store dirty; no timer is armed again.
Fail(w) ==
  /\ pc[w] = "fail"
  /\ StoreLockFree(w)
  /\ dirty' = TRUE
  /\ Raises(w)
  /\ UNCHANGED <<memory, disk, timerVars, workVars, writer, boundVars>>

\* _mark_clean_if_current decides under the timer lock, and sets the flag
\* under the store lock, later.
MarkClean(w) ==
  /\ pc[w] = "mark"
  /\ IF timer = 0 /\ claimed[w] = generation
       THEN pc' = [pc EXCEPT ![w] = "clean"] /\ UNCHANGED callVars
       ELSE Returns(w)
  /\ UNCHANGED <<storeVars, disk, timerVars, workVars, writer, boundVars>>
SetClean(w) ==
  /\ pc[w] = "clean"
  /\ StoreLockFree(w)
  /\ dirty' = FALSE
  /\ Returns(w)
  /\ UNCHANGED <<memory, disk, timerVars, workVars, writer, boundVars>>

\* The process ends at any time and its successor loads the file.
Crash ==
  /\ crashes < MaxCrashes
  /\ crashes' = crashes + 1
  /\ memory' = disk /\ dirty' = FALSE
  /\ generation' = 0 /\ timer' = 0
  /\ pc' = [w \in Workers |-> "idle"]
  /\ claimed' = [w \in Workers |-> 0]
  /\ snap' = [w \in Workers |-> 0]
  /\ writer' = Nobody
  /\ clearing' = FALSE
  /\ wanted' = 0
  /\ UNCHANGED <<disk, durable, failures>>

-----------------------------------------------------------------------------
WriteStep(w) ==
  \/ ClaimTimer(w) \/ TakeSnapshot(w) \/ WriteBegins(w) \/ WriteEnds(w)
  \/ Fail(w) \/ MarkClean(w) \/ SetClean(w)

Next ==
  \/ ScheduleSave \/ Flush \/ ClearScope \/ Crash
  \/ \E g \in Timers : TimerFires(g)
  \/ \E w \in Workers : WriteStep(w) \/ WriteFails(w)

Spec == Init /\ [][Next]_vars

\* Timers fire and threads run.
Fairness ==
  /\ \A g \in Timers : WF_vars(TimerFires(g))
  /\ \A w \in Workers : WF_vars(WriteStep(w))
FairSpec == Spec /\ Fairness

-----------------------------------------------------------------------------
\* An older snapshot never lands after a newer flush, clear or timer save.
FileNeverGoesBack == [][disk' >= disk]_vars

\* What a flush or clear returned for survives every later write and crash: a
\* cleared chat stays cleared.
ReturnedIsDurable == disk >= durable

\* While no write has failed, a change that is not in the file has a timer that
\* is still alive, or a write of the current generation under way.
Pending ==
  \/ timer # 0 /\ pc[timer] \in {"armed", "claim"}
  \/ \E w \in Workers :
       claimed[w] = generation /\ pc[w] \in {"snapshot", "check", "write", "fail"}
ChangeIsPending == failures = 0 /\ memory # disk => Pending

\* The inductive invariant.  A write that is still current holds what is in
\* memory, since every change supersedes; the one that holds the writer lock is
\* not older than the file; and nothing changes under a call of the event loop.
WritesOrdered == \A w \in Workers :
  /\ claimed[w] <= generation /\ snap[w] <= memory
  /\ pc[w] \in {"check", "write"} /\ claimed[w] = generation => snap[w] = memory
  /\ pc[w] = "write" => writer = w /\ disk <= snap[w]
  /\ pc[w] = "fail" => failures > 0
CallIsAlone ==
  /\ pc[Main] \notin {"idle", "armed"} => wanted = memory
  /\ pc[Main] \in {"snapshot", "check", "write", "fail", "mark", "clean"} =>
       claimed[Main] = generation
  /\ pc[Main] \in {"check", "write"} => snap[Main] = memory
  /\ pc[Main] \in {"mark", "clean"} => disk = memory
TimerIsAlive == timer # 0 => pc[timer] \in {"armed", "claim"}
Inductive ==
  /\ TypeOK /\ WritesOrdered /\ CallIsAlone /\ TimerIsAlive
  /\ disk <= memory /\ ReturnedIsDurable /\ ChangeIsPending

\* What ARCHITECTURE.md says of a write that failed: the change it did not save
\* stays flagged dirty for a retry, unless one is pending anyhow.
DirtyAfterFailure == memory # disk => dirty \/ Pending

\* Unless a write fails or the process ends, every change reaches the file; and the
\* locks are taken in an order that lets every call of the event loop end.
ChangesLandAndCallsReturn ==
  /\ \A v \in 1..MaxVersion : (memory = v) ~> (disk >= v \/ failures > 0 \/ crashes > 0)
  /\ (pc[Main] # "idle") ~> (pc[Main] = "idle")
=============================================================================
