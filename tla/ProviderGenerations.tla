------------------------ MODULE ProviderGenerations ------------------------
(***************************************************************************)
(* Provider generations: runtime/provider_manager.py with the provider     *)
(* cache of providers/runtime/runtime.py.                                  *)
(*                                                                         *)
(* The manager publishes one generation of provider clients at a time.     *)
(* Requests and discovery sweeps lease the generation they start on; a     *)
(* configuration save replaces the current generation, may carry built     *)
(* clients over to the next one, and retires the previous; a retired       *)
(* generation is closed by whoever lets go of its last lease.  Shutdown    *)
(* refuses new leases, drains and closes every generation.                 *)
(*                                                                         *)
(* The manager runs on one event loop, so an action is the code between    *)
(* two suspension points.  A provider client is named by the generation    *)
(* that built it and its provider id: held[g][p] is the builder of the     *)
(* client generation g caches for p, NoGen when it caches none.            *)
(***************************************************************************)
EXTENDS Integers, FiniteSets

CONSTANTS Providers,  \* provider ids
          Requests,   \* concurrent request handlers, each with one lease
          Sweep,      \* the foreground sweep, as a lease holder
          MaxGen      \* bound: generations ever published

NoGen == 0
Gen == 1..MaxGen

\* The background discovery task of generation g holds its lease under the name g.
Holders == Requests \cup {Sweep} \cup Gen

ASSUME MaxGenAssumption == MaxGen \in Nat \ {0}
ASSUME HoldersAssumption ==
  /\ IsFiniteSet(Requests)
  /\ Requests \cap (Gen \cup {Sweep}) = {}
  /\ Sweep \notin Gen
ASSUME NoLeaseIsNoHolder == NoGen \notin Requests \cup {Sweep}

VARIABLES
  current,        \* _current, by generation id; ids are handed out in order
  leases,         \* active_leases of each generation
  retired,        \* retired flag of each generation
  cleanup,        \* cleanup_task: "none", "created", "running", or "closed" once closed is set
  todo,           \* providers the running cleanup has not reached
  failed,         \* the last cleanup of the generation raised
  held,           \* ProviderRuntime._providers of each generation
  shared,         \* provider ids in the shared map of each generation
  holders,        \* _holders: live generations per carried client
  client,         \* "unbuilt", "open", "torn" (its cleanup raised) or "closed"
  lease,          \* the generation each holder leases
  task,           \* background discovery: "none", "created", "running", "cancelling"
  refreshTask,    \* _refresh_task, by generation
  awaited,        \* the task the owner of _replace_lock is cancelling
  lock,           \* _replace_lock: its owner and how far it got
  closer,         \* close(): where it suspends
  draining,       \* the generations close() works on
  bounded,        \* the drain of close() has a timeout
  closing,        \* _closing
  managerClosed,  \* _closed
  stopRequested   \* stop_deadline().requested

generationVars == <<current, retired, cleanup, todo, failed>>
clientVars == <<held, shared, holders, client>>
leaseVars == <<leases, lease>>
taskVars == <<task, refreshTask, awaited>>
closeVars == <<closer, draining, bounded, closing, managerClosed, stopRequested>>
vars == <<generationVars, clientVars, leaseVars, taskVars, lock, closeVars>>

Clients == Gen \X Providers
Closed(g) == cleanup[g] = "closed"
Cached(g) == {p \in Providers : held[g][p] # NoGen}
Held(g) == {<<held[g][p], p>> : p \in Cached(g)}
Retired == {g \in Gen : retired[g] /\ ~Closed(g)}       \* the _retired dict

TypeOK ==
  /\ current \in Gen
  /\ leases \in [Gen -> Nat]
  /\ retired \in [Gen -> BOOLEAN]
  /\ cleanup \in [Gen -> {"none", "created", "running", "closed"}]
  /\ todo \in [Gen -> SUBSET Providers]
  /\ failed \in [Gen -> BOOLEAN]
  /\ held \in [Gen -> [Providers -> Gen \cup {NoGen}]]
  /\ shared \in [Gen -> SUBSET Providers]
  /\ holders \in [Clients -> Nat]
  /\ client \in [Clients -> {"unbuilt", "open", "torn", "closed"}]
  /\ lease \in [Holders -> Gen \cup {NoGen}]
  /\ task \in [Gen -> {"none", "created", "running", "cancelling"}]
  /\ refreshTask \in Gen \cup {NoGen}
  /\ awaited \in Gen \cup {NoGen}
  /\ lock \in {"free", "replace", "retiring", "sweepCancel", "sweep", "probe", "close"}
  /\ closer \in {"idle", "cancelRefresh", "drain", "closing", "done"}
  /\ draining \in SUBSET Gen
  /\ bounded \in BOOLEAN
  /\ closing \in BOOLEAN
  /\ managerClosed \in BOOLEAN
  /\ stopRequested \in BOOLEAN

(***************************************************************************)
(* Initially generation 1 is published with no client built.  The start    *)
(* sweep is created, or not, before any request or save is admitted.       *)
(***************************************************************************)
Init ==
  /\ current = 1
  /\ leases = [g \in Gen |-> 0]
  /\ retired = [g \in Gen |-> FALSE]
  /\ cleanup = [g \in Gen |-> "none"]
  /\ todo = [g \in Gen |-> {}]
  /\ failed = [g \in Gen |-> FALSE]
  /\ held = [g \in Gen |-> [p \in Providers |-> NoGen]]
  /\ shared = [g \in Gen |-> {}]
  /\ holders = [o \in Clients |-> 0]
  /\ client = [o \in Clients |-> "unbuilt"]
  /\ lease = [h \in Holders |-> NoGen]
  /\ \E started \in BOOLEAN :
       /\ task = [g \in Gen |-> IF started /\ g = 1 THEN "created" ELSE "none"]
       /\ refreshTask = IF started THEN 1 ELSE NoGen
  /\ awaited = NoGen
  /\ lock = "free"
  /\ closer = "idle"
  /\ draining = {}
  /\ bounded = FALSE
  /\ closing = FALSE
  /\ managerClosed = FALSE
  /\ stopRequested = FALSE

-----------------------------------------------------------------------------
(***************************************************************************)
(* Helpers shared by the operations.                                       *)
(***************************************************************************)

Take(h, g) ==
  /\ lease' = [lease EXCEPT ![h] = g]
  /\ leases' = [leases EXCEPT ![g] = @ + 1]

\* _close_generation on each of gs up to its await: create the missing tasks.
Closable(gs) == {g \in gs : leases'[g] = 0 /\ cleanup[g] = "none"}
CloseGenerations(gs) ==
  cleanup' = [g \in Gen |-> IF g \in Closable(gs) THEN "created" ELSE cleanup[g]]

\* Mutant: a retired generation is not closed by its last release.
DropWithoutClose(h) ==
  /\ lease' = [lease EXCEPT ![h] = NoGen]
  /\ leases' = [leases EXCEPT ![lease[h]] = @ - 1]
  /\ UNCHANGED generationVars

\* _release: the last lease of a retired generation closes it, except during shutdown.
Drop(h) ==
  /\ lease' = [lease EXCEPT ![h] = NoGen]
  /\ leases' = [leases EXCEPT ![lease[h]] = @ - 1]
  /\ CloseGenerations({g \in {lease[h]} : retired[g] /\ ~closing})
  /\ UNCHANGED <<current, retired, todo, failed>>

\* resolve_provider building the client that generation g does not cache yet.
Resolve(g, p) ==
  /\ held[g][p] = NoGen
  /\ held' = [held EXCEPT ![g][p] = g]
  /\ client' = [client EXCEPT ![<<g, p>>] = "open"]
  /\ UNCHANGED <<shared, holders>>

\* Mutant: only a task that already runs is cancelled.
CancelRefreshRunning ==
  /\ refreshTask' = NoGen
  /\ awaited' = IF refreshTask \in Gen /\ task[refreshTask] = "running"
                THEN refreshTask ELSE NoGen
  /\ task' = [g \in Gen |->
       IF g = refreshTask /\ task[g] = "running" THEN "cancelling" ELSE task[g]]

\* _cancel_refresh up to its await: a task that never ran is gone at once.
CancelRefresh ==
  /\ refreshTask' = NoGen
  /\ awaited' = IF refreshTask \in Gen /\ task[refreshTask] # "none"
                THEN refreshTask ELSE NoGen
  /\ task' = [g \in Gen |->
       IF g # refreshTask \/ task[g] = "none" THEN task[g]
       ELSE IF task[g] = "created" THEN "none" ELSE "cancelling"]

RefreshCancelled == awaited \in Gen => task[awaited] = "none"

-----------------------------------------------------------------------------
(***************************************************************************)
(* Requests.                                                               *)
(***************************************************************************)

Acquire(r) ==
  /\ ~closing /\ ~managerClosed /\ ~stopRequested
  /\ lease[r] = NoGen
  /\ Take(r, current)
  /\ UNCHANGED <<generationVars, clientVars, taskVars, lock, closeVars>>

RequestResolve(r, p) ==
  /\ lease[r] # NoGen
  /\ Resolve(lease[r], p)
  /\ UNCHANGED <<generationVars, leaseVars, taskVars, lock, closeVars>>

Release(r) ==
  /\ lease[r] # NoGen
  /\ Drop(r)
  /\ UNCHANGED <<clientVars, taskVars, lock, closeVars>>

(***************************************************************************)
(* The background discovery task of generation g.                          *)
(***************************************************************************)

RefreshStart(g) ==
  /\ task[g] = "created"
  /\ IF Closed(g)
     THEN /\ task' = [task EXCEPT ![g] = "none"]
          /\ UNCHANGED leaseVars
     ELSE /\ task' = [task EXCEPT ![g] = "running"]
          /\ Take(g, g)
  /\ UNCHANGED <<generationVars, clientVars, refreshTask, awaited, lock, closeVars>>

RefreshResolve(g, p) ==
  /\ task[g] = "running"
  /\ Resolve(g, p)
  /\ UNCHANGED <<generationVars, leaseVars, taskVars, lock, closeVars>>

\* The sweep completes, raises, or unwinds from its cancellation.
RefreshEnd(g) ==
  /\ task[g] \in {"running", "cancelling"}
  /\ task' = [task EXCEPT ![g] = "none"]
  /\ Drop(g)
  /\ UNCHANGED <<clientVars, refreshTask, awaited, lock, closeVars>>

(***************************************************************************)
(* Foreground discovery, under _replace_lock: a full sweep leases the      *)
(* current generation, a probe of one provider uses it without a lease.    *)
(***************************************************************************)

SweepBegin ==
  /\ lock = "free" /\ ~closing /\ ~managerClosed
  /\ lock' = "sweepCancel"
  /\ CancelRefresh
  /\ UNCHANGED <<generationVars, clientVars, leaseVars, closeVars>>

SweepStart ==
  /\ lock = "sweepCancel" /\ RefreshCancelled
  /\ ~Closed(current)
  /\ lock' = "sweep"
  /\ Take(Sweep, current)
  /\ UNCHANGED <<generationVars, clientVars, taskVars, closeVars>>

SweepResolve(p) ==
  /\ lock = "sweep"
  /\ Resolve(lease[Sweep], p)
  /\ UNCHANGED <<generationVars, leaseVars, taskVars, lock, closeVars>>

SweepEnd ==
  /\ lock = "sweep"
  /\ lock' = "free"
  /\ Drop(Sweep)
  /\ UNCHANGED <<clientVars, taskVars, closeVars>>

ProbeBegin ==
  /\ lock = "free" /\ ~closing /\ ~managerClosed
  /\ lock' = "probe"
  /\ UNCHANGED <<generationVars, clientVars, leaseVars, taskVars, closeVars>>

ProbeResolve(p) ==
  /\ lock = "probe"
  /\ Resolve(current, p)
  /\ UNCHANGED <<generationVars, leaseVars, taskVars, lock, closeVars>>

ProbeEnd ==
  /\ lock = "probe"
  /\ lock' = "free"
  /\ UNCHANGED <<generationVars, clientVars, leaseVars, taskVars, closeVars>>

-----------------------------------------------------------------------------
(***************************************************************************)
(* replace().                                                              *)
(***************************************************************************)

ReplaceBegin ==
  /\ lock = "free" /\ ~closing /\ ~managerClosed
  /\ current < MaxGen
  /\ lock' = "replace"
  /\ CancelRefresh
  /\ UNCHANGED <<generationVars, clientVars, leaseVars, closeVars>>

\* commit() raises: the candidate is dropped with no client built.
ReplaceFail ==
  /\ lock = "replace" /\ RefreshCancelled
  /\ lock' = "free"
  /\ UNCHANGED <<generationVars, clientVars, leaseVars, taskVars, closeVars>>

\* Mutants: the previous generation's hold is not counted; not even recorded.
CarryUncounted(previous, candidate, rebuilt) ==
  LET carried == Cached(previous) \ rebuilt
  IN /\ held' = [held EXCEPT ![candidate] =
                   [p \in Providers |-> IF p \in carried THEN held[previous][p] ELSE @[p]]]
     /\ shared' = [shared EXCEPT ![previous] = @ \cup carried, ![candidate] = carried]
     /\ holders' = [o \in Clients |->
          IF o[2] \in carried /\ o[1] = held[previous][o[2]] THEN holders[o] + 1 ELSE holders[o]]
     /\ UNCHANGED client
CarryUnshared(previous, candidate, rebuilt) ==
  LET carried == Cached(previous) \ rebuilt
  IN /\ held' = [held EXCEPT ![candidate] =
                   [p \in Providers |-> IF p \in carried THEN held[previous][p] ELSE @[p]]]
     /\ UNCHANGED <<shared, holders, client>>

\* _carry_providers: the candidate adopts every cached client not rebuilt.
\* A full rebuild is the case where rebuilt is all of Providers.
CarryProviders(previous, candidate, rebuilt) ==
  LET carried == Cached(previous) \ rebuilt
      gained(p) == IF p \in shared[previous] THEN 1 ELSE 2
  IN /\ held' = [held EXCEPT ![candidate] =
                   [p \in Providers |-> IF p \in carried THEN held[previous][p] ELSE @[p]]]
     /\ shared' = [shared EXCEPT ![previous] = @ \cup carried, ![candidate] = carried]
     /\ holders' = [o \in Clients |->
          IF o[2] \in carried /\ o[1] = held[previous][o[2]]
          THEN holders[o] + gained(o[2]) ELSE holders[o]]
     /\ UNCHANGED client

\* From the commit to the await of the previous generation's close.
ReplacePublish(rebuilt, backgroundRefresh) ==
  /\ lock = "replace" /\ RefreshCancelled
  /\ LET candidate == current + 1 IN
       /\ CarryProviders(current, candidate, rebuilt)
       /\ current' = candidate
       /\ retired' = [retired EXCEPT ![current] = TRUE]
       /\ task' = [task EXCEPT ![candidate] = IF backgroundRefresh THEN "created" ELSE @]
       /\ refreshTask' = IF backgroundRefresh THEN candidate ELSE refreshTask
  /\ UNCHANGED <<todo, failed, leaseVars, awaited, closeVars>>
  /\ CloseGenerations({current})
  /\ lock' = IF leases[current] = 0 THEN "retiring" ELSE "free"

ReplaceEnd ==
  /\ lock = "retiring"
  /\ cleanup[current - 1] \in {"none", "closed"}
  /\ lock' = "free"
  /\ UNCHANGED <<generationVars, clientVars, leaseVars, taskVars, closeVars>>

\* The task running replace() or a sweep is cancelled at one of its awaits.
LockOwnerCancelled ==
  /\ \/ lock \in {"replace", "sweepCancel"} /\ ~RefreshCancelled
     \/ lock = "retiring"
  /\ lock' = "free"
  /\ UNCHANGED <<generationVars, clientVars, leaseVars, taskVars, closeVars>>

-----------------------------------------------------------------------------
(***************************************************************************)
(* The cleanup task of a generation.                                       *)
(***************************************************************************)

\* Mutant: no detach, every holder's cleanup closes the client.
ReleaseSharedKeeping(g) ==
  /\ holders' = [o \in Clients |->
       IF o[2] \in shared[g] /\ o[1] = held[g][o[2]] /\ holders[o] > 0
       THEN holders[o] - 1 ELSE holders[o]]
  /\ shared' = [shared EXCEPT ![g] = {}]
  /\ UNCHANGED <<held, client>>

\* _release_shared: detach the clients another live generation still holds.
ReleaseShared(g) ==
  LET remaining(p) == IF holders[<<held[g][p], p>>] > 1
                      THEN holders[<<held[g][p], p>>] - 1 ELSE 0
      detached == {p \in shared[g] : remaining(p) > 0}
  IN /\ held' = [held EXCEPT ![g] =
                   [p \in Providers |-> IF p \in detached THEN NoGen ELSE @[p]]]
     /\ holders' = [o \in Clients |->
          IF o[2] \in shared[g] /\ o[1] = held[g][o[2]] THEN remaining(o[2]) ELSE holders[o]]
     /\ shared' = [shared EXCEPT ![g] = {}]
     /\ UNCHANGED client

CleanupStart(g) ==
  /\ cleanup[g] = "created"
  /\ ReleaseShared(g)
  /\ cleanup' = [cleanup EXCEPT ![g] = "running"]
  /\ todo' = [todo EXCEPT ![g] = {p \in Providers : held'[g][p] # NoGen}]
  /\ failed' = [failed EXCEPT ![g] = FALSE]
  /\ UNCHANGED <<current, retired, leaseVars, taskVars, lock, closeVars>>

\* One await of ProviderRuntime.cleanup: a client that fails to close stays cached.
CleanupProvider(g, p, ok) ==
  /\ cleanup[g] = "running"
  /\ p \in todo[g]
  /\ todo' = [todo EXCEPT ![g] = @ \ {p}]
  /\ client' = [client EXCEPT ![<<held[g][p], p>>] = IF ok THEN "closed" ELSE "torn"]
  /\ IF ok THEN held' = [held EXCEPT ![g][p] = NoGen] /\ UNCHANGED failed
           ELSE failed' = [failed EXCEPT ![g] = TRUE] /\ UNCHANGED held
  /\ UNCHANGED <<current, retired, cleanup, shared, holders, leaseVars, taskVars, lock, closeVars>>

\* A failed cleanup clears cleanup_task, so that a later close may try again.
CleanupEnd(g) ==
  /\ cleanup[g] = "running"
  /\ todo[g] = {}
  /\ cleanup' = [cleanup EXCEPT ![g] = IF failed[g] THEN "none" ELSE "closed"]
  /\ UNCHANGED <<current, retired, todo, failed, clientVars, leaseVars, taskVars, lock, closeVars>>

-----------------------------------------------------------------------------
(***************************************************************************)
(* close(), retried by its caller when it raises.                          *)
(***************************************************************************)

RequestStop ==
  /\ ~stopRequested
  /\ stopRequested' = TRUE
  /\ UNCHANGED <<generationVars, clientVars, leaseVars, taskVars, lock,
                 closer, draining, bounded, closing, managerClosed>>

CloseBegin ==
  /\ closer = "idle" /\ ~managerClosed
  /\ lock = "free"
  /\ lock' = "close"
  /\ closing' = TRUE
  /\ CancelRefresh
  /\ closer' = "cancelRefresh"
  /\ UNCHANGED <<generationVars, clientVars, leaseVars,
                 draining, bounded, managerClosed, stopRequested>>

\* Retires the current generation and gives up _replace_lock; the drain is
\* bounded only when the stop was requested before it began.
CloseRetire ==
  /\ closer = "cancelRefresh" /\ RefreshCancelled
  /\ retired' = [retired EXCEPT ![current] = TRUE]
  /\ draining' = {g \in Gen : retired'[g] /\ ~Closed(g)}
  /\ bounded' = stopRequested
  /\ lock' = "free"
  /\ closer' = "drain"
  /\ UNCHANGED <<current, cleanup, todo, failed, clientVars, leaseVars, taskVars,
                 closing, managerClosed, stopRequested>>

Drained == \A g \in draining : leases[g] = 0

\* Mutant: the drain without a timeout, as before 6.41.0.
CloseDrainedUnbounded ==
  /\ closer = "drain"
  /\ Drained
  /\ UNCHANGED leaseVars
  /\ CloseGenerations(draining)
  /\ closer' = "closing"
  /\ UNCHANGED <<current, retired, todo, failed, clientVars, taskVars, lock,
                 draining, bounded, closing, managerClosed, stopRequested>>

CloseDrained ==
  /\ closer = "drain"
  /\ Drained \/ bounded
  /\ UNCHANGED leaseVars
  /\ CloseGenerations(draining)
  /\ closer' = "closing"
  /\ UNCHANGED <<current, retired, todo, failed, clientVars, taskVars, lock,
                 draining, bounded, closing, managerClosed, stopRequested>>

\* Mutant: close() does not look at what the cleanups returned.
CloseEndUnchecked ==
  /\ closer = "closing"
  /\ \A g \in draining : cleanup[g] \in {"none", "closed"}
  /\ managerClosed' = TRUE
  /\ closer' = "done"
  /\ UNCHANGED <<generationVars, clientVars, leaseVars, taskVars, lock,
                 draining, bounded, closing, stopRequested>>

\* Every cleanup is done: close() succeeds, or raises and may be called again.
CloseEnd ==
  /\ closer = "closing"
  /\ \A g \in draining : cleanup[g] \in {"none", "closed"}
  /\ managerClosed' = (\A g \in draining : Closed(g))
  /\ closer' = IF managerClosed' THEN "done" ELSE "idle"
  /\ UNCHANGED <<generationVars, clientVars, leaseVars, taskVars, lock,
                 draining, bounded, closing, stopRequested>>

\* The manager is closed and nothing is left to run.
Terminated == managerClosed /\ UNCHANGED vars

-----------------------------------------------------------------------------
RequestStep == \E r \in Requests :
  Acquire(r) \/ Release(r) \/ \E p \in Providers : RequestResolve(r, p)
RefreshStep == \E g \in Gen :
  RefreshStart(g) \/ RefreshEnd(g) \/ \E p \in Providers : RefreshResolve(g, p)
SweepStep == SweepBegin \/ SweepStart \/ SweepEnd \/ \E p \in Providers : SweepResolve(p)
ProbeStep == ProbeBegin \/ ProbeEnd \/ \E p \in Providers : ProbeResolve(p)
ReplaceStep ==
  \/ ReplaceBegin \/ ReplaceFail \/ ReplaceEnd \/ LockOwnerCancelled
  \/ \E rebuilt \in SUBSET Providers, backgroundRefresh \in BOOLEAN :
       ReplacePublish(rebuilt, backgroundRefresh)
CleanupStep == \E g \in Gen :
  \/ CleanupStart(g) \/ CleanupEnd(g)
  \/ \E p \in Providers, ok \in BOOLEAN : CleanupProvider(g, p, ok)
CloseStep == RequestStop \/ CloseBegin \/ CloseRetire \/ CloseDrained \/ CloseEnd

Next ==
  RequestStep \/ RefreshStep \/ SweepStep \/ ProbeStep \/ ReplaceStep
  \/ CleanupStep \/ CloseStep \/ Terminated

Spec == Init /\ [][Next]_vars
-----------------------------------------------------------------------------
(***************************************************************************)
(* Safety.                                                                 *)
(***************************************************************************)

Lessees(g) == {h \in Holders : lease[h] = g}
Sharers(o) == {g \in Gen : o[2] \in shared[g] /\ held[g][o[2]] = o[1]}

\* active_leases of a generation is the number of requests and sweeps that
\* lease it, so the count reaches zero exactly when the last of them is gone.
LeaseAccounting == \A g \in Gen : leases[g] = Cardinality(Lessees(g))

\* Every client a leased generation, or the generation a probe uses under
\* _replace_lock, can hand out is open: neither closed nor half closed,
\* whatever other generation holds it too.
InUse(g) == leases[g] > 0 \/ (lock = "probe" /\ g = current)
NoUseAfterClose == \A g \in Gen : InUse(g) => \A o \in Held(g) : client[o] = "open"

\* _holders counts the unreleased generations that share a carried client.
HoldersExact == \A o \in Clients : holders[o] = Cardinality(Sharers(o))

\* A client that was built and not closed is held by a generation that is not
\* closed yet, so some later cleanup still reaches it.
NoLeak == \A o \in Clients :
  client[o] \in {"open", "torn"} => \E g \in Gen : ~Closed(g) /\ o \in Held(g)

\* Once close() returned, no client is left, and no lease or task that could use one.
ShutdownComplete == managerClosed =>
  /\ \A o \in Clients : client[o] \in {"unbuilt", "closed"}
  /\ \A g \in Gen : leases[g] = 0 /\ task[g] = "none"
  /\ \A g \in 1..current : Closed(g)

\* A generation being cleaned up or closed is leased by nobody and retired.
\* Requests always start on a generation that is neither.
CleanupOnlyWhenIdle == \A g \in Gen :
  cleanup[g] # "none" => /\ leases[g] = 0 /\ retired[g] /\ task[g] = "none"
                         /\ (lock = "probe" => g # current)

\* Leases of a retired generation only go away: neither a request nor a
\* background sweep prolongs the drain, and retirement is never undone.
RetiredOnlyDrains ==
  [][\A g \in Gen : retired[g] => retired'[g] /\ leases'[g] <= leases[g]]_vars

\* A leased generation is a user of the clients it caches.  Through that
\* mapping the manager builds each client once, never closes one in use, and
\* closes none twice.
Pinned == [g \in Gen |-> IF leases[g] > 0 THEN Held(g) ELSE {}]
Lifetimes == INSTANCE ClientLifetimes
  WITH Users <- Gen, Clients <- Clients, client <- client, pinned <- Pinned
ImplementsLifetimes == Lifetimes!ASpec

(***************************************************************************)
(* The inductive invariant, in three layers: each is inductive given the   *)
(* ones before it.                                                         *)
(***************************************************************************)

\* Leases: who holds one, and that each is counted once.
LeaseInv ==
  /\ TypeOK
  /\ LeaseAccounting
  /\ \A g \in Gen : lease[g] = IF task[g] \in {"running", "cancelling"} THEN g ELSE NoGen
  /\ lease[Sweep] = IF lock = "sweep" THEN current ELSE NoGen
  /\ lock = "replace" => current < MaxGen
  /\ closer = "cancelRefresh" <=> lock = "close"
  /\ \A g \in Gen : g > current => task[g] = "none"

\* Control: a generation is retired in order, leased for good while it is
\* current, and cleaned up only afterwards, because no task that could still
\* lease it survives the _cancel_refresh before its retirement.
ControlInv ==
  /\ \A g \in Gen : /\ g < current => retired[g]
                    /\ g > current => ~retired[g] /\ leases[g] = 0
                    /\ task[g] = "created" => refreshTask = g
                    /\ cleanup[g] # "none" \/ failed[g] => retired[g] /\ leases[g] = 0
  /\ ~closing => ~retired[current]
  /\ refreshTask \in {NoGen, current}
  /\ closing \/ lock \in {"replace", "sweepCancel", "sweep"} => refreshTask = NoGen
  /\ lock \in {"replace", "retiring", "sweepCancel", "sweep", "probe"} => ~closing
  /\ closer # "idle" \/ managerClosed => closing
  /\ closer \in {"drain", "closing"} =>
       \A g \in Gen : /\ g <= current => retired[g] /\ (g \in draining \/ Closed(g))
                      /\ g \in draining => retired[g]
  /\ managerClosed => \A g \in Gen : g <= current => Closed(g)

\* Ownership: a generation no cleanup has touched caches open clients only;
\* a client cached twice is marked shared on both sides and counted; a
\* generation under cleanup owns what it still caches alone.
Untouched(g) == cleanup[g] \in {"none", "created"} /\ ~failed[g]
OwnershipInv ==
  /\ HoldersExact
  /\ \A g \in Gen : \A p \in Providers :
       /\ held[g][p] # NoGen =>
            /\ g <= current /\ ~Closed(g)
            /\ client[<<held[g][p], p>>] \in {"open", "torn"}
            /\ Untouched(g) => client[<<held[g][p], p>>] = "open"
            /\ cleanup[g] = "running" => p \in todo[g] \/ failed[g]
       /\ p \in shared[g] => held[g][p] # NoGen /\ Untouched(g)
       /\ Untouched(g) /\ held[g][p] = NoGen => client[<<g, p>>] = "unbuilt"
       /\ cleanup[g] = "running" /\ p \in todo[g] => held[g][p] # NoGen
  /\ \A g1, g2 \in Gen : \A p \in Providers :
       g1 # g2 /\ held[g1][p] # NoGen /\ held[g1][p] = held[g2][p] => p \in shared[g1]
  /\ NoLeak

Inductive == LeaseInv /\ ControlInv /\ OwnershipInv

(***************************************************************************)
(* Liveness.  A task that can run is run, every await of a provider        *)
(* cleanup, discovery or commit returns; a request need not end.           *)
(***************************************************************************)

TaskFairness ==
  /\ \A g \in Gen :
       /\ WF_vars(RefreshStart(g)) /\ WF_vars(RefreshEnd(g))
       /\ WF_vars(CleanupStart(g)) /\ WF_vars(CleanupEnd(g))
       /\ \A p \in Providers : WF_vars(\E ok \in BOOLEAN : CleanupProvider(g, p, ok))
  /\ WF_vars(SweepStart) /\ WF_vars(SweepEnd) /\ WF_vars(ProbeEnd)
  /\ WF_vars(ReplaceFail \/ \E rebuilt \in SUBSET Providers, backgroundRefresh \in BOOLEAN :
                              ReplacePublish(rebuilt, backgroundRefresh))
  /\ WF_vars(ReplaceEnd)
  /\ WF_vars(CloseRetire) /\ WF_vars(CloseDrained) /\ WF_vars(CloseEnd)

FairSpec == Spec /\ TaskFairness

\* A close() whose drain is bounded returns, success or not, although a request
\* never ends; and _replace_lock is always given up, so that a save, a sweep or a
\* shutdown waiting for it goes on.
BoundedCallsReturn ==
  /\ (closer = "drain" /\ bounded) ~> (closer \in {"idle", "done"})
  /\ (lock # "free") ~> (lock = "free")

\* When responses end, so that each request releases its lease, a replaced
\* generation is closed without a shutdown, unless a cleanup of it raised (only
\* close() tries that one again).
RetiredIsClosed ==
  (\A r \in Requests : WF_vars(Release(r))) =>
    \A g \in Gen : retired[g] ~> (Closed(g) \/ failed[g] \/ closing)
=============================================================================
