# Verification of my-claude-code

TLA+ models of the concurrent core of the `my-claude-code` proxy. On the path of
a request: the choice among models and the splicing of their answers, the
streaming of the answer, the limiter of a provider, the lifetime of upstream
clients, and the credential shared with Claude Code. On the path of a chat
message: the conversations of the bots, the pool of Claude Code processes behind
them and the durable store of their state. TLC checks the models on small
instances; TLAPS proves the results listed below for every value of the
constants. Line numbers refer to `src/src/my_claude_code/`.

## 1. The system

The program is one Python process on one asyncio event loop, with a few timer
threads. It serves the Anthropic, OpenAI and Gemini wire formats, forwards each
request to one of many upstream providers, and runs Claude Code on behalf of
Telegram and Discord users.

| Component | State | Operations | Talks to |
|---|---|---|---|
| Provider manager (`runtime/provider_manager.py`) | generations of provider clients, leases, holder counts, refresh task, replace lock | acquire, release, refresh, probe, replace, close | settings saves, request handlers, stop deadline |
| Message trees (`messaging/workflow.py`, `messaging/trees/`) | per conversation: reply graph, queue, active claim, reply index; stop and clear generations | admit, claim, complete, fail, finish, /stop, /clear, restore | platforms, node runner, session store, CLI pool |
| CLI pool (`cli/managed/`) | sessions by temporary and real id, closing set, processes, pids | get or create, register, start, stop, remove, stop all | node runner, operating system |
| Session store (`messaging/session/`) | conversation and managed messages in memory, debounce timer, write generation, file | save, flush, clear, timer write | message trees, disk |
| Application (`runtime/application.py`) | the graph of the above and its shutdown gates | start, restart, close | everything |
| Response streams (`api/response_streams.py`) | body, pump and keepalive clock, lease, one cleanup task | prefetch, send, disconnect, close, stop | provider manager, provider execution |
| Provider execution (`application/execution.py`, `core/anthropic/streaming/`) | route order, attempt, frames shown, ledger | attempt, retry, probe, fall back, continue, cut short | providers, route health, request log |
| Rate limiting (`core/rate_limit.py`, `providers/rate_limit.py`) | sliding window, line of waiters, block, stream slots | reserve, wait, block, retry | providers |
| Rotation (`core/credential_rotation.py`, `core/proxy_rotation.py`) | health of slots, exits | pick, report | providers |
| OAuth accounts (`providers/oauth_file_lock.py`, `*_oauth/`) | account record, tokens on disk, lock directory with heartbeat | follow, refresh, write back, take over | Claude Code, the authority |
| Desktop shell (`desktop-shell/`) | controller of nine states, server process | step | the server over HTTP |
| Surfaces, translation, log, configuration, launchers | mostly functions of their input | | |

How they interact on the two main paths:

* A request leases the current generation, runs attempts on its clients and
  releases the lease when its stream is cleaned up. A settings save replaces the
  generation and hands unchanged clients over to the new one. A stop drains.
* A chat message takes an admission token, posts a status message, enters a
  tree, is claimed, borrows a CLI session, has the session id recorded in the
  tree, and settles; every change is saved. /stop and /clear cancel claims,
  draw a boundary for messages under way, and a global /stop empties the pool.

What is hard here: tasks cancelled at any `await`, more than once; locks held
across awaits; timer threads that cannot be called back; a clear or stop that
overtakes a message; clients shared between generations that close at the same
time; cleanups that raise halfway; a crash between memory and file. The hazards
of the parts modelled so far are listed in `PROJECT.json` under `hazards`, each
at its line, with the property that would catch it, or why none does; the
observations below describe the behaviour no property is stated about.

What makes each part correct:

* generations: no client is closed while somebody can use it, every client is
  closed in the end, exactly once; a bounded stop returns;
* trees: one run per conversation in order of admission, nothing stranded in a
  queue, stop and clear are boundaries, what was cleared stays cleared once the
  file was written;
* pool: every process that runs can be found and stopped, and after a global
  stop none is left and none can start;
* store: the file never goes back, and what a call returned for is in it;
* execution: the client reads one legal message whatever fails, the ledger tells
  what became of each model, the request ends;
* streams: every frame is delivered and the failure reported, the lease outlives
  the body and is given back within the bound of a stop;
* limiter: never more calls than the limit in any window, in order of arrival,
  no quota lost to those who give up, no call under a block;
* shared credential: a single-use token is posted once, a newer token is never
  overwritten, and a renewed one is kept until it is written.

Not yet modelled, with the property to come: the shutdown gates (a failed one
keeps what is behind it usable), the registry of route health (a late outcome
does not eject a recovered route), credential rotation (a benched slot is not
used before its time), the limiter of outgoing messages (no future left
pending), the desktop controller (never two servers).

## 2. Modules

| Module | Models | Checked by | Proofs |
|---|---|---|---|
| `ProviderGenerations` | `runtime/provider_manager.py`, `providers/runtime/runtime.py` | `generations` | `ProviderGenerations_proofs` |
| `ClientLifetimes` | abstract: what the manager promises of a client | property of `generations` | refinement proved |
| `MessageTrees` | `messaging/workflow.py`, `messaging/trees/` | `MCMessageTrees`, 3 runs | `MessageTrees_proofs` |
| `CliSessions` | `cli/managed/`, `messaging/node_runner.py` | `sessions` | `CliSessions_proofs` |
| `SessionPersistence` | `messaging/session/` | 2 runs | `SessionPersistence_proofs` |
| `MessageSplice` | `core/anthropic/streaming/truncation.py`, `splice.py` | through `ProviderExecution` | `ProviderExecution_proofs` |
| `ProviderExecution` | `application/execution.py` | `provider_execution` | `ProviderExecution_proofs` |
| `ResponseStreams` | `api/response_streams.py`, `core/stop_deadline.py` | `response_streams` | `ResponseStreams_proofs` |
| `ProviderPacing` | `core/rate_limit.py`, `providers/rate_limit.py` | `provider_pacing` | `ProviderPacing_proofs` |
| `SharedRefresh` | `providers/anthropic_oauth/shared.py`, `providers/oauth_file_lock.py` | 2 runs | `SharedRefresh_proofs` |

Each module has a type invariant `TypeOK`; it is checked or proved where it is a
part of an inductive invariant, and documents the variables elsewhere.

The modules of the request path meet at their edges. The body that
`ResponseStreams` iterates is the generator of `ProviderExecution`, which hands
out a legal message (`OneMessage`); the lease that it releases is one that
`ProviderGenerations` counts; a provider stream that `ProviderExecution` opens
goes through `ProviderPacing` and fails as a limit or a transient error. The chat
modules overlap in an assume-guarantee way. `MessageTrees` has the
session store and its file as two variables, with a write of the file as one step,
and one task per claim; `SessionPersistence` is the write protocol below it and `CliSessions` is what a claim does while it runs. `CliSessions`
assumes that the turns of one tree follow each other, which is
`TurnsFollowEachOther` of `MessageTrees`.

### ProviderGenerations

A client is named `<<generation that built it, provider>>`. `held[g][p]` is the
client generation `g` caches for `p`; `shared` and `holders` are the marks and
counts of clients that `_carry_providers` handed over. The drained event of a
generation is set exactly while it has no lease, so it is `leases[g] = 0`.

* The manager works under `_replace_lock`; `lock` says for what. Awaits inside
  it are separate steps (`ReplaceBegin`, `ReplacePublish`, `ReplaceEnd`, the
  probe and sweep steps), and `LockOwnerCancelled` cancels its task there.
* A refresh task is created, runs while it leases its generation, and is
  cancelled by `CancelRefresh`; a task cancelled before it ran never leases.
* Cleanup runs outside the lock, one client after another; `CleanupProvider`
  may raise, which leaves the client torn. Only `close()` tries again.
* `close()` retires the current generation, drains, cleans up and raises if
  anything failed; it may be called again. Whether the drain is bounded is
  decided when it starts (`bounded`), as in `_drain`.
* Left out: the openrouter, litellm and market tasks, the model cache, and the
  end of a stop request on reload (`RequestStop` is final here). `_unpublished`
  is always empty of clients, since a candidate builds them on first use.

### MessageTrees

One chat. A prompt is named by its message; its status message is the second
reference to it, and replies may go to either. A claim is named by its prompt.

* Nothing suspends while a manager or tree lock is held, so each transition is
  one action: admission, the start of a runner, recording a session, success,
  failure with its descendants, and `FinishClaim`, which takes the next.
* The steps of a turn between these are apart: `Ingress` takes the token,
  `Admit` uses it later, after the status message was posted.
* A stop or clear keeps the state lock from the cancellation to the save of its
  snapshots, a global stop until the CLI sessions are stopped too (`StopSessions`).
  `TakeSnapshots` may happen with tasks still running, for the wait for them is
  bounded. An exception of `_ui_target`, or of the write of a clear, is `raised`.
* A save changes `store`, the conversation in memory, and schedules a debounced
  write. `WriteFile` is that write, or a flush; one that fails changes nothing. Only
  a /clear of the chat writes the file itself (`WriteThrough`).
* `Restart` comes at any time and restores what `file` holds, pending and running
  work as failed. What was saved and not yet written is lost, a reply /clear
  included: the cleared message is then back.
* A message delivered again while it is in a tree is rejected without a change
  and is left out. Voice notes, rendering and other chats are not modelled.
* Ghosts: `admitted` (the generations at ingress), `commands`, `raised`. Bounds:
  `MaxCommands`, and `LastWrite`, the number of commands and restarts before which
  writes of the file still land.

### CliSessions

A session is named by the runner that had it created, a process by the runner
that launched it; ids are `Temp(r)`, `Real(r)` or the real id of an earlier
turn, under which a session to resume is kept at first. Turns that resume a
session of their conversation follow it; others run side by side.

* Actions are the manager operations under the manager lock (`GetOrCreate`,
  `Register`, `Remove`, `StopAll` and its steps) and the stages of `start_task`
  (`Launch`, `Event`, `ReadEnd`, `StreamEnd`). `Remove` and `StopAll` keep the
  lock while `stop()` waits for the process.
* `Cancel` delivers a cancellation at the await where the runner is. In the
  reader it starts the shielded `stop()`; a second one leaves that stop running
  by itself (`shield`), which is possible only while that stop waits for the
  process or for the lifecycle lock: an asyncio lock that is free is taken
  without suspending; in the runner's own code it leaves the generator
  suspended, and asyncio closes it once the frame is gone (`CloseGenerator`),
  which waits for the end of the error pipe; during `remove_session` it gives the
  locks up with the session still closing.
* Abstractions: `_lifecycle_lock` is derived from who stops the session;
  launching is one step, as asyncio kills a process whose launch is cancelled;
  a process closes its pipes when it exits; CLI ids are unique. The CLI process
  is external (`Exit`).

### SessionPersistence

The content is a version number, the file another. The event loop makes one
call at a time (`Main`), and every armed timer has a thread. A step is what
happens under one of the store, timer and writer locks; where two locks follow
each other and the parts commute they are one step. `ClearScope` keeps the
store lock through its write. Replacing the file is atomic; `Crash` reduces
memory to the file.

### ProviderExecution and MessageSplice

`MessageSplice` is pure: the frames of a message, what the tracker knows of the
frames sent so far, and how each frame of a continuation is rewritten
(`Rewrites`), closed (`CloseFrames`, `FinishFrames`) or cut short
(`TruncationFrames`). `ProviderExecution` is one request; `order` holds the models
worth trying, `position` the attempt, `shown` every frame the client was sent,
`rows` the ledger.

* `Prepared` is one walk of `_prepare_from`, all its outcomes at once: candidates
  that cool down, refuse, end the route or are ready, and a budget found spent.
  Its body has no await, so a walk is one step.
* Steps end where the generator can be cancelled: a read (`Chunk`), the close of
  a stream (`closing`), a probe, and each group of frames it yields itself
  (`seam`, `cutting`, `finishing`). `ClientLeaves` is a cancellation there.
* A client that does not stream gets `held` at the end; for it nothing is
  committed before. The Responses dialect never continues nor cuts short.
* A block has one delta; "again" marks words that start the answer over. The
  provider stream emits a legal message and ends only after its stop frame.
* Which models are paused or benched at the start is arbitrary; the registry of
  route health, the deadlines' sizes, token counts and the credentials that a
  probe benches are left out. Failures: one that ends the route, a limit of the
  model (`ModelRateLimited`), a rate limit, any other. What is charged to the
  health registry is counted by the ghost `owed`; `attempted` holds the models that were
  tried since a walk last met them, so that one tried anew is judged by its last walk.
* The words held back for the verdict on a restart are released whole. The code first
  strips those that repeat the end of the message, and may be left with none;
  `Decide` counts such a continuation as one that said something. No property
  depends on it.

### ResponseStreams

One response, on each surface: prefetched or not, with or without keepalives,
and with the block tracker or without. A chunk is one frame.

* The request task, the pump, the cleanup task and the timers each have their
  actions. The body is external: it may be silent, raise, or hang while it
  unwinds a cancellation or is closed.
* A task may be cancelled at any await, and uvicorn cancels every open response
  once more at the end of its shutdown (`ForceCancel`). Budgets are read when a
  wait starts; the release of a lease is one synchronous decrement. A cleanup
  task runs its first step before a timer can abandon it.
* Left out: `aclose()` by another caller, a stop request withdrawn on reload, the
  gap between the handler's return and the first ASGI call, and the early return
  on `_finished`, which nothing reaches.

### ProviderPacing

An attempt is a request and a number; stamps are ages, timers what is left of
them, and `Tick` is the clock. Waiting, re-stamping a slot when its condition
commits, giving it up on cancellation, and the pump that wakes the line are
separate steps, since each `await` is a boundary. Cancelled futures stay in the
line until the pump meets them. A failed call is a 429, which may install a
block (`throttled`), a 5xx or a transport error. `LoopKeepsUp`, a guard of `Tick`,
says that tasks that are ready run before the clock moves a tick; without it
every limiter that stamps before it calls is late by the delay of its loop.

### SharedRefresh

One server with several requests, and Claude Code beside it, which refreshes and
signs in by its own rules. Tokens are numbers in the order they were issued.

* The two lock directories are one lock; taking it over when stale is a sequence
  of `stat`, `rmdir` and `mkdir`, which blocks the event loop of MCC but not
  Claude Code. The write to Claude Code's store compares and replaces in one step.
* Crashes, stalls, cancellations, lost answers and failed reads or writes share a
  bound. In a stall the heartbeat of a live owner is late, and another process or
  another request takes the lock over; the owner goes on, and finds out at its
  next heartbeat (`Beat`) or not at all.
* An access token is assumed to outlive the requests that were running when it
  was issued. When a token expires while its write-back is pending or under way
  (`lapsed`), nothing is promised of the pending token any more: that is finding
  3, and the same happens when a request that stalled in the retry of a write
  finds a later token pending.
* Left out: a credential without a record, a change of identity, the 401 and
  background paths, read-only stores, an absent file and the migration, and
  several servers that share no lock.

## 3. Runs

Distinct states and times with two workers; every passing run exhausts its
state space.

| Run | Question | Bounds | Size |
|---|---|---|---|
| `generations` | no client closed in use, leaked or stranded; implements `ClientLifetimes`; `close()` is complete and returns; replaced generations get closed | 2 requests, 2 providers, 2 generations | 110,000, 65 s |
| `trees_queue` | order, turns that follow each other, no stranded work, exact index | 3 prompts, 1 command or restart, no debounced write | 303,000, 85 s |
| `trees_boundary` | stop and clear boundaries, crash and restart, a /clear is durable, final cancellation; queued prompts are served | 2 prompts, 2 commands or restarts, writes of the file at any point before the second | 832,000, 200 s |
| `trees_stop_raises` | violation, see findings | 2 prompts, 2 commands | short |
| `sessions` | no process escapes, ids lead to their own session, a global stop leaves no process, cancelled runners and stops end | 2 turns, 3 cancellations, 2 stops (4 together), 1 failure | 875,000, 150 s |
| `store_writes` | the file only advances, returned calls are durable, changes reach the file, calls return | 3 saves, 3 changes, 1 failed write, 1 crash | 214,000, 40 s |
| `store_dirty_lost` | violation, see findings | 3 saves, 1 failed write | short |
| `provider_execution` | one legal message, every attempt accounted for, the request ends | 3 models on 2 providers, 2 blocks a stream, 2 tries | 2,800,000, 160 s |
| `response_streams` | frames and failures delivered, lease outlives the body and is released | 4 frames, 2 keepalives, 2 cancellations | 720,000, 55 s |
| `provider_pacing` | never over the limit, no quota lost, in order, not under a block, requests end | 3 requests, limit 2 in 3 ticks, 2 tries | 400,000, 55 s |
| `shared_refresh` | file only advances, one post per token, pending token kept, requests end | 2 requests, 4 tokens, 3 faults | 281,000, 70 s |
| `shared_refresh_drops` | violation, see findings | 2 requests, 3 tokens, 1 fault | short |

Why the bounds are enough for what they look at. A client carried twice, whose
middle owner closes first, needs three generations: that case is covered by the
proofs, and two generations are enough for one that is carried and closed by
both; the second provider is needed for a cleanup that fails for one of two.
Three prompts give every reply shape that differs for the queue and the index:
chain, siblings, and a status reply; two prompts and two commands or restarts give
every order of two of stop, clear and crash around an admission, with the file in
any state behind the store. The queue, the index and the stop do not depend on the
file, so their runs write it only through a /clear (`LastWrite = 0`). A second cancellation is
what leaves a shielded stop or a closing session behind, a third what abandons
the error pipe; a second turn is what meets the leftovers, or contends for the
manager lock. Three timer threads let an old one, a fired one and a newer write
overlap. Three models let a preferred one overtake another and a message be
continued twice; the second block of a stream is what a seam meets open beside,
or after, its text (a continuation of two blocks follows a first model of one:
`MaxLong`). Four frames open and close a block with a message around it. The
third request of the limiter is the one that waits behind another; a window of
three ticks lets a stamp be neither new nor about to expire. Two requests race
for a token while Claude Code may replace it twice.

`PROJECT.json` names for each property a plausible bug of a modelled
definition (kept in the module as a mutant next to it) under which the property
fails in its run.

Deadlock is checked for `ProviderGenerations`, `CliSessions`, `ProviderPacing`,
`SharedRefresh` and `ProviderExecution`, whose specifications stutter only when
everything is over; `MessageTrees` and `SessionPersistence` stop when their
prompts, commands or saves are used up, and `ResponseStreams` where its body
hangs for ever, which it may.

### Fairness

* asyncio runs every task that is ready, and a thread that may run does:
  weak fairness of the steps of runners, cleanups, refreshes and timers.
* A provider's cleanup, discovery and commit return: they have time limits of
  their own. A request is *not* assumed to end; that is a premise of
  `RetiredIsClosed`.
* A claim is not assumed to end either: that is a premise of `QueuedIsServed`
  (`ClaimsEnd`). Only the tasks of the loop are fair there (`LoopFairness`): commands
  may stay where they are, and no property says that they return, for a global stop
  waits for the CLI pool with the state lock held (`NobodyWaitsForever` of
  `CliSessions` is about that wait).
* A process that was signalled exits (`stop()` kills after 5 seconds). One that
  was not may run for ever.
* `ProviderPacing`: calls and streams of the upstream end (they have time limits),
  timers fire and time passes. `SharedRefresh`: a POST and a wait for a lock have
  time limits; neither Claude Code nor the authority is assumed to do anything.
* `ResponseStreams`: timers and the force-cancel fire and cleanup tasks run. The
  body is not assumed to answer, unwind or close, except as a premise of the
  release without a stop.
* `ProviderExecution`: every wait for a chunk, close or probe has a deadline, and
  a client takes what is sent to it or leaves.
* No fairness of cancellations, failures, saves, stops, crashes or restarts.

## 4. Proofs

`ProviderGenerations_proofs`, for any finite set of requests and providers and
any number of generations:

* `InductiveCorrect`: `Inductive` is an invariant. It has three layers, each
  inductive given those before it. *Leases*: the count of a generation is the
  number of its lessees, and who leases follows from the task and lock state.
  *Control*: generations retire in order, and no task that could still lease
  one survives the cancellation before its retirement; without this, an idle
  retired generation could be leased again while it is closed. *Ownership*: a
  client cached twice is marked on both sides and counted, one under cleanup has
  a single owner. `NoUseAfterClose` alone is not inductive: it needs that a
  cleanup only runs without leases and that it closes only what it owns alone.
* `ClientsInUseAreOpen`, `LeasesAreCounted`, `ClientsAreOwned`,
  `CleanupsAreIdle`, `ShutdownLeavesNothing`: the safety properties, from it.
* `DrainsOnlyShorten`: the action property `RetiredOnlyDrains`.
* `LifetimesImplemented`: every step of the manager is a step of
  `ClientLifetimes` or a stutter, under the mapping `Pinned`.

`MessageTrees_proofs`, for any finite set of prompts and any number of commands
and restarts:

* `InductiveCorrect`. `Graph`: a live node is in a published tree, and its parent
  reference resolves there. `Rooted`: following parents ends at a root, also through
  nodes that were removed. `Indexed`: the index, said by the nodes alone. `Queued`,
  `Claimed`, `Running`: what queues, claims and tasks know of each other.
  `QueuedInOrder` and `ParentsFirst`: a queued reply is behind the prompt it replies
  to, and a running one has seen it leave the queue; without them the two halves of
  `TurnsFollowEachOther` do not follow from one claim per tree. `Stored`: a stored
  tree can be restored and, unless the command that holds the state lock is about to
  rewrite it, has the nodes of the tree in memory and says no more of them. These are
  the `Core`, which needs nothing of the file but that it is restorable; `Filed` adds
  what the file holds: trees that can be restored, of nodes whose generations the
  clears that returned allow.
* The argument that carries it is `RepliesFacts`: the reply subtree of a message is
  closed under replies and stays in its tree, and it contains the root's prompt only
  with the whole tree. So a reply /clear leaves a graph and an exact index behind.
  Steps that only take work away are covered by one lemma, `RetiresKeeps`.
* `NoStrandedWorkCorrect`, `TurnsFollowEachOtherCorrect`, `IndexExactCorrect`,
  `CommandBoundaryCorrect`, `StoreHasTheTreesCorrect`, `StoreRestorableCorrect`,
  `ClearIsDurableCorrect`; and of
  the steps `CancelIsFinalCorrect`, `FirstComeFirstServedCorrect`. With them every
  safety property of the module that holds is proved.

`SessionPersistence_proofs`, for any numbers of generations, changes, failures
and crashes:

* `InductiveCorrect`: a write that is still current holds what is in memory,
  the holder of the writer lock is not older than the file, a live timer is
  behind the timer variable, and nothing changes under a call of the event loop.
  The second part is what makes the file advance: a stale writer is turned
  away under the writer lock, before it replaces the file.
* `DurableCorrect`, `PendingCorrect`, `FileOnlyAdvances`.

`SharedRefresh_proofs`, for any numbers of requests, tokens and faults:

* `InductiveCorrect`. `LineExact`: the line of the in-process lock holds whoever is in
  it once, and only its head gets past the wait. `Issued`, `Successors`, `OldOnes`: no
  token is known before it was issued, a renewed one is the successor of the one that
  was posted, and only expired ones are refreshed. `NewestIsKept`: until a pending
  token expires, it is newer than the file, and the line is ordered by age.
  `Undisturbed` is the single-flight argument: before the first fault the lock
  excludes, and the file is behind the authority only while the holder of the lock
  has the newest token in hand.
* `FileOnlyAdvancesCorrect`, `OnePostPerTokenCorrect`, `PendingIsKeptCorrect`: the
  three action properties of the run. The first needs no mutual exclusion, since
  a write compares and replaces; the second does, and holds up to the first fault.

`ProviderPacing_proofs`, for any number of requests and any limit and window:

* `InductiveCorrect`. `Slots`: the window holds each stamp once and no more than the
  limit, and who was granted a slot still has it. `Stamped`: a call that began less than a
  window ago has a slot stamped when it began; with `Slots` this bounds the calls,
  which no count of the stamps alone does. `QueueExact`: the line holds the requests
  that wait, each once, and futures that were cancelled. `QueueIsArmed`: a line that
  is not empty has a timer.
* `RateBoundCorrect`, `NoQuotaLostCorrect`, `QueueIsArmedCorrect`,
  `NeverWhileBlockedCorrect`, `FirstComeFirstAdmittedCorrect`. What the pump does
  is one lemma, `PumpFacts`: it takes a prefix of the line, gives each of those that
  still wait a slot, keeps every young stamp and the limit, and arms a timer if
  somebody is left.

`ResponseStreams_proofs`, for any number of frames, keepalives and cancellations:

* `InductiveCorrect`. `Phases` and `Iterated`: at most one of the request task and
  the pump iterates the body, and which one follows from where both are. `Lease`:
  when the cleanup is done the body is over, but for the deadline. `Flow`: one frame
  at most is between the body and the client, settled or being sent. `Verdict`: how
  the body went is known before it is told. `Tracked`: what the block tracker believes
  holds for what the client has and is being sent.
* `LeaseOutlivesBodyCorrect`, `ClientSeesTheBodyCorrect`.

`CliSessions_proofs`, for any set of turns and any numbers of cancellations,
stops and failures:

* `InductiveCorrect`. `Turns`: turns of a conversation that resume each other do not
  overlap. `Maps`: a session is known under one id of its own conversation, and the
  id maps are inverse to each other. `Handles`: the id a runner removes its session by
  finds that session while it is known, and a session is forgotten only when it is
  closed. `Holder`, `Locks`: what the holders of the manager lock and of the locks of a
  session have under way. `Processes`: a process that runs is the one of a known
  session, and only a generator or a closed session can have left it.
* `ProcessIsOwnedCorrect`, `AliasesExactCorrect`, `StopAllLeavesNothingCorrect`.
* The attempt to prove the first one failed for the model as it was: with four
  cancellations a shielded stop could be cancelled while it took a lock that was
  free, which asyncio does without suspending. The guard of `Cancel` says so now.

`ProviderExecution_proofs`, for a route of any length, any choice of providers and
every policy of `Surfaces` (a retry of the first model is combined with the defaults of
the rest only):

* `InductiveCorrect`. `OnRoute`: positions are distinct models, the attempt is one of
  them and the one that continues it is behind it. `Accounts`: only the model
  that finished succeeded, and a failed stream is charged, or it is the attempt under
  way that still owes it. `Told`: every model that was tried has its verdict, but for
  the attempt under way and the one that follows it. A walk overwrites the verdicts
  of whatever it meets; what it says of each model that it tries itself is one lemma,
  `WalkTells`.
* `EveryAttemptAccountedCorrect`, `TypeCorrect`. No failure is charged twice, in any
  state. The exceptions are part of the statement: an error passed on to the client
  and a failure that the client leaves behind are not charged; and a model that was
  tried may be reported as skipped if a failure ended the route, if the budget ran
  out ahead of a preferred sibling that had refused, or if the client left first.
* `MessageCorrect`, the inductive invariant of the message, also for streams of any
  number of blocks. `OneMessage` is not inductive: that the next frame fits depends
  on what the splicer and the stream have gone through. The four parts that make it so:
  * `Sound`: what was sent is the beginning of a legal message.
  * `Mirrors`: before a failure, the blocks the client has are those of the stream,
    and the open one is the one the stream is in.
  * `Knows`: the splicer's open blocks are those of the client, its next number is
    above all of them, the text block it goes on with stays open until a block of
    the stream was adopted into it and the verdict on the seam fell, and text held
    back for the verdict is a delta of that block.
  * `Follows`: the block the stream is in is dropped exactly if it is thinking, and
    otherwise has an open block of the client with its kind; a tool block without
    its arguments can only be the one the stream is in, so that a stream that came
    to its end has left none.
* `OneMessageCorrect`. The argument has three layers. `InsideKeeps`: frames that
  open new blocks, or write to or close open ones, leave a sound message sound; from it
  follow `OpenFollows`, `DeltaFollows`, `CloseFollows` and `ClosingsFollow`, and
  with `EndingFollows` what a truncation and a finish send. `RewriteCarries`: for
  every frame a stream can emit (`EmissionsEmit`), what the splicer makes of it
  keeps the message sound and `Knows` and `Follows` true, whatever the verdict
  on the restart of an answer (`DecideKeeps`). Then one lemma per action,
  `...KeepsMessage`.

How the proofs are built. Each has one lemma per action, and every inductive
invariant was checked by TLC on the instance of its run before it was proved.
Recursive functions (`FramesIn`, `Waiting`, `Without`) and least or greatest elements
(`Ascending`, `Max`) are reasoned about through a least counterexample:
`NatMinimum` takes the least element of a set of numbers from the library's
`WFMin`, and `NatByInduction` is induction over a set, which needs no operator
parameter. The definitions that the proofs unfold avoid what the prover cannot
read: `Waiting` and `Without` instead of `SelectSeq`, `FramesIn` and `RemoveFirst` instead of a
fold, `Ascending` instead of a sort; they denote the same. A message that
grows is described by what it adds (`Extends`, `Added`, `Longer`, `Joined`), since the
provers lose their way in nested concatenations.

Assumptions: those named in the modules (`BoundsAssumption` and the like), all
evaluated by TLC. Every invariant and every safety property of an action that a
passing run checks is proved. Only model-checked are the liveness properties
(fairness and ENABLED are beyond the prover), and the properties of the runs that
expect a violation, which are false. No module uses RECURSIVE.

## 5. Findings

1. `trees_stop_raises` (`messaging/trees/runtime.py:247`). A reply `/clear` of
   the status message of a running prompt takes that message away while the
   prompt unwinds as the active claim. A global `/stop` then asks for the
   rendering target of that node, `_ui_target` raises, and the trees after it
   keep running, although `/stop` is documented to reach them all.
2. `store_dirty_lost` (`messaging/session/persistence.py:127`). A timer thread
   decides under the timer lock that the store is clean and says so after
   giving it up. A clear that starts in between and whose write raises is then
   flagged clean although it is not in the file, while `ARCHITECTURE.md` says
   that a failed authoritative write preserves the dirty state for retry.

3. `shared_refresh_drops` (`providers/anthropic_oauth/shared.py:588`). A renewed
   token whose write-back failed is pending while the file holds the spent one it
   replaced. If it expires first, the refresh that follows takes the spent token
   in the file for a newer one, adopts it and drops the only live token, against
   `shared.py:698` ("MCC never drops a token it rotated").

Observed while modelling, and excepted by the properties where they meet it:

* Sessions: one whose removal is cancelled stays closing, so prompts that resume
  it fail until the next global stop (`messaging/node_runner.py:393`).
* Generations: a drain that began without a stop request stays unbounded
  (`runtime/provider_manager.py:1309`).
* Shared credential: `_dead` is looked at only before the in-process lock, so a
  request that already waits there posts a token once more that was just rejected
  (`shared.py:493`). A cancellation between the answer to the POST and the
  write-back drops the renewed token (`shared.py:627`).
* Streams: without keepalives nothing bounds a request whose body hangs while it
  unwinds a cancellation (`api/response_streams.py:915`).
* Chat: a reply /clear is durable only once its debounced write landed; a crash
  before that brings the cleared messages back (`messaging/session/store.py:95`).
* Execution: a walk that starts over at a model already tried may overwrite its
  failure with "request budget spent before this model was tried" or with a
  cooldown, and one that tries preferred siblings first may do so to a sibling of
  its own (`execution.py:2001`); models that a preferred sibling overtook are not
  tried when it fails (`execution.py:1407`); `unreachable_after` overwrites what is
  known of every model behind (`execution.py:769`). A client that leaves at the
  seam leaves the failed model "never reached" and uncharged, and a committed
  failure that ends in an error is not charged (`execution.py:1271`), although
  `_charge_failure` says that each way to fail charges once.
* Continuation: the restart of an answer is only recognised in a block adopted
  into open text. After a model that died between blocks or while thinking, or
  when the continuation begins with a tool, the verdict falls on no words and a
  restart is passed on (`splice.py:330`). A continuation that only calls a tool
  ends as cut short, since `usable` wants text (`splice.py:473`).

## 6. Plan

Done: the modules above. The chat modules and the generations came first, because
a client closed in use fails a request in flight, and a stranded queue or a lost
process is seen by the user and by nobody else; then the path of a request, in the
order of the hazards on it.

Next:

1. `ApplicationShutdown`: ordered, retryable gates over abstract messaging,
   transcriber and provider manager (the latter as `ClientLifetimes` users).
2. `CredentialPool`: benching, escalation, half-open probes; composed with the
   probes of `ProviderExecution`.
3. `RouteHealth`: the windows, ejection and recovery behind `Usable`.
4. `OutboundQueue`: deduplication, flood wait, shutdown.
5. `DesktopController`: the pure step function against an abstract server.

Out of scope: translation between wire formats, admin forms, the request log
(SQLite's transactions), configuration rewriting, launchers and rendering, all
sequential functions better covered by example tests.
