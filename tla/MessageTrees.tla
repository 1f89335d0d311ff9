---------------------------- MODULE MessageTrees ----------------------------
(***************************************************************************)
(* Conversation trees of one chat: messaging/trees with the transactions   *)
(* of messaging/workflow.py and the claim writes of messaging/             *)
(* node_runner.py.                                                         *)
(*                                                                         *)
(* A prompt is received (Ingress), a status message is posted for it, and  *)
(* it is admitted to a tree: at once as the active claim, or queued behind *)
(* it.  A claim runs as a task of the processor; when the task ends it     *)
(* claims the next queued prompt.  /stop and /clear hold the state lock of *)
(* the workflow from their transition to the save of its snapshots (a      *)
(* global stop until the CLI sessions are stopped too), and wait for the   *)
(* tasks they cancelled for a bounded time only.                           *)
(*                                                                         *)
(* A save changes the conversation in memory (store) and schedules its     *)
(* debounced write; only a /clear of the chat writes the file itself.  The *)
(* write protocol is SessionPersistence: here one step takes the           *)
(* conversation to the file, and a restart finds what it last took there.  *)
(*                                                                         *)
(* Nothing suspends while it holds the lock of the manager or of a tree,   *)
(* so each tree transition is one action, and so is a write of a runner    *)
(* with the save of the snapshot it returns.  A claim is named by its      *)
(* prompt: a prompt is claimed at most once per process.                   *)
(***************************************************************************)
EXTENDS Integers, Sequences, FiniteSets, SequencesExt

CONSTANTS Prompts,    \* message ids of prompts; each has one status message
          NoPrompt,
          MaxCommands, \* bound: commands and restarts of a behaviour
          LastWrite    \* bound: debounced writes land before that many of them

ASSUME NoPromptAssumption == NoPrompt \notin Prompts
ASSUME BoundsAssumption == IsFiniteSet(Prompts) /\ MaxCommands \in Nat /\ LastWrite \in Nat

\* What a platform message can be a reply to: a prompt or its status message.
Refs == Prompts \X {"prompt", "status"}
NoRef == <<NoPrompt, "none">>

VARIABLES
  turn,        \* "none" or "waiting": received and not yet admitted
  token,       \* AdmissionToken of the waiting turn
  replyTo,     \* reply target resolved for the waiting turn
  stopGen,     \* _stop_generation
  clearGen,    \* _clear_generations of the chat
  trees,       \* roots of the published trees, in order of publication
  index,       \* _reference_to_tree: the root for each reference
  root,        \* the tree a node was added to
  state,       \* of the node; "absent" before it is added, "removed" after a clear
  parent,      \* parent_reference_id
  status,      \* the node still has its status message
  session,     \* the node has a CLI session to resume
  queue,       \* of each tree
  active,      \* prompt of the active claim of each tree
  cancelled,   \* cancellation_requested of the claim and of its task slot
  task,        \* task slot: "none", "created" or "running" (runner_started)
  store,       \* the conversation of the session store, by root
  file,        \* the conversation as the store last wrote it to its file
  op,          \* the stop or clear that holds the state lock
  raised,      \* the last stop, the last clear, or the write of a clear raised
  admitted,    \* ghost: the token each node was admitted with
  commands     \* ghost: commands and restarts so far

turnVars == <<turn, token, replyTo>>
generationVars == <<stopGen, clearGen>>
graphVars == <<root, state, parent, status, session, admitted>>
treeVars == <<trees, index, queue, active>>
taskVars == <<cancelled, task>>
opVars == <<op, raised, commands>>
vars == <<turnVars, generationVars, graphVars, treeVars, taskVars, store, file, opVars>>

Live(n) == state[n] \notin {"absent", "removed"}
Unfinished(n) == state[n] \in {"pending", "in_progress"}
Nodes(r) == {n \in Prompts : root[n] = r /\ Live(n)}
Published == ToSet(trees)
CurrentToken == <<stopGen, clearGen>>

\* resolve_reference within the graph of one tree.
InGraph(r, ref) == ref[1] \in Nodes(r) /\ (ref[2] = "prompt" \/ status[ref[1]])
Resolves(ref) == ref # NoRef /\ index[ref] # NoPrompt /\ InGraph(index[ref], ref)

\* The sequence s without its elements in gone.
Without(s, gone) ==
  LET kept[i \in 0..Len(s)] ==
        IF i = 0 THEN <<>>
        ELSE IF s[i] \in gone THEN kept[i - 1] ELSE Append(kept[i - 1], s[i])
  IN kept[Len(s)]

\* graph.snapshot()
Snapshot(r) == [n \in Nodes(r) |->
  [state |-> state[n], parent |-> parent[n], status |-> status[n], session |-> session[n]]]
NoTree == <<>>
Idle == [kind |-> "none", phase |-> "idle", trees |-> {}, snaps |-> NoTree, drop |-> {}]
\* save_tree_snapshot: the file follows when the debounced write lands.
SaveTree(saved) ==
  /\ store' = [r \in Prompts |-> IF r = saved THEN Snapshot(r)' ELSE store[r]]
  /\ UNCHANGED file

NodeSnapshots ==
  [state : {"pending", "in_progress", "completed", "error"},
   parent : Refs \cup {NoRef}, status : BOOLEAN, session : BOOLEAN]
IsSnapshot(s) == DOMAIN s \subseteq Prompts /\ s \in [DOMAIN s -> NodeSnapshots]

TypeOK ==
  /\ turn \in [Prompts -> {"none", "waiting"}]
  /\ token \in [Prompts -> (0..MaxCommands) \X (0..MaxCommands)]
  /\ replyTo \in [Prompts -> Refs \cup {NoRef}]
  /\ stopGen \in 0..MaxCommands /\ clearGen \in 0..MaxCommands
  /\ commands \in 0..MaxCommands
  /\ trees \in Seq(Prompts) /\ IsInjective(trees)
  /\ index \in [Refs -> Prompts \cup {NoPrompt}]
  /\ root \in [Prompts -> Prompts \cup {NoPrompt}]
  /\ state \in [Prompts ->
       {"absent", "pending", "in_progress", "completed", "error", "removed"}]
  /\ parent \in [Prompts -> Refs \cup {NoRef}]
  /\ status \in [Prompts -> BOOLEAN]
  /\ session \in [Prompts -> BOOLEAN]
  /\ queue \in [Prompts -> Seq(Prompts)]
  /\ active \in [Prompts -> Prompts \cup {NoPrompt}]
  /\ cancelled \in [Prompts -> BOOLEAN]
  /\ task \in [Prompts -> {"none", "created", "running"}]
  /\ \A r \in Prompts : IsSnapshot(store[r]) /\ IsSnapshot(file[r])
  /\ op.phase \in {"idle", "drain", "save", "sessions"}
  /\ op.kind \in {"none", "stopReply", "stopAll", "clearReply", "clearChat"}
  /\ op.trees \subseteq Prompts /\ op.drop \subseteq Prompts
  /\ raised \in [{"stop", "clear", "write"} -> BOOLEAN]
  /\ admitted \in [Prompts -> (0..MaxCommands) \X (0..MaxCommands)]

Init ==
  /\ turn = [n \in Prompts |-> "none"]
  /\ token = [n \in Prompts |-> <<0, 0>>]
  /\ replyTo = [n \in Prompts |-> NoRef]
  /\ stopGen = 0 /\ clearGen = 0 /\ commands = 0
  /\ trees = <<>>
  /\ index = [ref \in Refs |-> NoPrompt]
  /\ root = [n \in Prompts |-> NoPrompt]
  /\ state = [n \in Prompts |-> "absent"]
  /\ parent = [n \in Prompts |-> NoRef]
  /\ status = [n \in Prompts |-> FALSE]
  /\ session = [n \in Prompts |-> FALSE]
  /\ queue = [r \in Prompts |-> <<>>]
  /\ active = [r \in Prompts |-> NoPrompt]
  /\ cancelled = [n \in Prompts |-> FALSE]
  /\ task = [n \in Prompts |-> "none"]
  /\ store = [r \in Prompts |-> NoTree]
  /\ file = [r \in Prompts |-> NoTree]
  /\ op = Idle
  /\ raised = [k \in {"stop", "clear", "write"} |-> FALSE]
  /\ admitted = [n \in Prompts |-> <<0, 0>>]

-----------------------------------------------------------------------------
(***************************************************************************)
(* Turns.                                                                  *)
(***************************************************************************)

\* handle_message up to the post of the status message: the token is taken and
\* the reply target resolved.  A second delivery of a message that is in a tree
\* is rejected and changes nothing; it is left out.
Ingress(n, ref) ==
  /\ op.phase = "idle"
  /\ turn[n] = "none" /\ state[n] = "absent" /\ ref[1] # n
  /\ turn' = [turn EXCEPT ![n] = "waiting"]
  /\ token' = [token EXCEPT ![n] = CurrentToken]
  /\ replyTo' = [replyTo EXCEPT ![n] = IF Resolves(ref) THEN ref ELSE NoRef]
  /\ UNCHANGED <<generationVars, graphVars, treeVars, taskVars, store, file, opVars>>

\* The turn ends without a node: its token is stale, or the message it replies
\* to was cleared meanwhile.
Stale(n) == token[n] # CurrentToken
ParentRemoved(n) == replyTo[n] # NoRef /\ ~Resolves(replyTo[n])
EndTurn(n) ==
  /\ op.phase = "idle"
  /\ turn[n] = "waiting"
  /\ turn' = [turn EXCEPT ![n] = "none"]
  /\ token' = [token EXCEPT ![n] = <<0, 0>>]
  /\ replyTo' = [replyTo EXCEPT ![n] = NoRef]
Reject(n) ==
  /\ EndTurn(n)
  /\ Stale(n) \/ ParentRemoved(n)
  /\ UNCHANGED <<generationVars, graphVars, treeVars, taskVars, store, file, opVars>>

\* Mutants: the token is not compared again; a reply starts beside the active claim.
AdmitStale(n) == EndTurn(n) /\ ~ParentRemoved(n)
AdmitCurrent(n) == EndTurn(n) /\ ~Stale(n) /\ ~ParentRemoved(n)

ClaimAlways(n, r) ==
  /\ state' = [state EXCEPT ![n] = "in_progress"]
  /\ active' = [active EXCEPT ![r] = n]
  /\ task' = [task EXCEPT ![n] = "created"]
  /\ UNCHANGED queue

\* enqueue_or_claim of a node that is being added, with the launch of its claim.
EnqueueOrClaim(n, r) ==
  \/ /\ active[r] = NoPrompt
     /\ state' = [state EXCEPT ![n] = "in_progress"]
     /\ active' = [active EXCEPT ![r] = n]
     /\ task' = [task EXCEPT ![n] = "created"]
     /\ UNCHANGED queue
  \/ /\ active[r] # NoPrompt
     /\ state' = [state EXCEPT ![n] = "pending"]
     /\ queue' = [queue EXCEPT ![r] = Append(@, n)]
     /\ UNCHANGED <<active, task>>

\* add_tree of a new tree, register_node for a reply.
Register(n, r) ==
  /\ index' = [ref \in Refs |-> IF ref[1] = n THEN r ELSE index[ref]]
  /\ trees' = IF r = n THEN Append(trees, n) ELSE trees

\* admit() and the save of its snapshot, one transaction under the state lock.
Admit(n) ==
  LET r == IF replyTo[n] = NoRef THEN n ELSE index[replyTo[n]]
  IN /\ AdmitCurrent(n)
     /\ root' = [root EXCEPT ![n] = r]
     /\ parent' = [parent EXCEPT ![n] = replyTo[n]]
     /\ status' = [status EXCEPT ![n] = TRUE]
     /\ admitted' = [admitted EXCEPT ![n] = token[n]]
     /\ Register(n, r)
     /\ EnqueueOrClaim(n, r)
     /\ UNCHANGED <<generationVars, session, cancelled, opVars>>
     /\ SaveTree(r)

-----------------------------------------------------------------------------
(***************************************************************************)
(* The runner of a claim.  Its writes reach the tree only while its claim  *)
(* is active and was not cancelled; cancelling the task makes its next     *)
(* step the one that unwinds it.                                           *)
(***************************************************************************)

\* Mutant: the writes do not look at cancellation_requested.
AcceptsCancelled(n) == Live(n) /\ active[root[n]] = n
Accepts(n) == Live(n) /\ active[root[n]] = n /\ ~cancelled[n]

StartRunner(n) ==
  /\ task[n] = "created" /\ ~cancelled[n]
  /\ task' = [task EXCEPT ![n] = "running"]
  /\ UNCHANGED <<turnVars, generationVars, graphVars, treeVars, cancelled, store, file, opVars>>

RecordSession(n) ==
  /\ task[n] = "running" /\ Accepts(n)
  /\ state[n] = "in_progress" /\ ~session[n]
  /\ session' = [session EXCEPT ![n] = TRUE]
  /\ UNCHANGED <<turnVars, generationVars, root, state, parent, status, admitted,
                 treeVars, taskVars, opVars>>
  /\ SaveTree(root[n])

\* A success is authoritative even after an error that was shown before it.
CompleteClaim(n) ==
  /\ task[n] = "running" /\ Accepts(n)
  /\ state[n] \in {"in_progress", "error"}
  /\ state' = [state EXCEPT ![n] = "completed"]
  /\ UNCHANGED <<turnVars, generationVars, root, parent, status, session, admitted,
                 treeVars, taskVars, opVars>>
  /\ SaveTree(root[n])

\* get_descendants: the nodes whose chain of parents leads to n.
Descendants(n) ==
  {m \in Prompts \ {n} : \A S \in SUBSET Prompts :
     n \in S /\ (\A k \in Prompts : Live(k) /\ parent[k][1] \in S => k \in S) => m \in S}

\* fail_claim: a terminal failure also fails the queued replies below the node.
FailClaim(n, propagate) ==
  LET children == IF propagate THEN {m \in Descendants(n) : state[m] = "pending"} ELSE {}
      affected == IF state[n] = "completed" THEN {} ELSE {n} \cup children
  IN /\ task[n] = "running" /\ Accepts(n)
     /\ state' = [m \in Prompts |-> IF m \in affected THEN "error" ELSE state[m]]
     /\ queue' = [queue EXCEPT ![root[n]] = Without(@, affected)]
     /\ UNCHANGED <<turnVars, generationVars, root, parent, status, session, admitted,
                    trees, index, active, taskVars, opVars>>
     /\ SaveTree(root[n])

\* The task is over: the runner wrote an outcome or was cancelled.  A task
\* cancelled before its first step is finished by its recovery task.
RunnerOver(n) ==
  \/ task[n] = "running" /\ (cancelled[n] \/ ~Unfinished(n))
  \/ task[n] = "created" /\ cancelled[n]

Releases(n) == {r \in Published : active[r] = n}

\* Mutant: the queue is served from its end.
NextClaimLast(r) == {i \in DOMAIN queue[r] : i = Len(queue[r])}
\* Position of the first queued node that is still pending, if any.
NextClaim(r) ==
  {i \in DOMAIN queue[r] : /\ state[queue[r][i]] = "pending"
                           /\ \A j \in 1..(i - 1) : state[queue[r][j]] # "pending"}

\* _finish_claim: release the claim, claim and launch its successor.
FinishClaim(n) ==
  LET rs == Releases(n)
      next(r) == {queue[r][i] : i \in NextClaim(r)}
      claimed == UNION {next(r) : r \in rs}
  IN /\ RunnerOver(n)
     /\ active' = [r \in Prompts |->
          IF r \notin rs THEN active[r]
          ELSE IF next(r) = {} THEN NoPrompt ELSE CHOOSE m \in next(r) : TRUE]
     /\ queue' = [r \in Prompts |->
          IF r \notin rs THEN queue[r]
          ELSE IF next(r) = {} THEN <<>>
          ELSE SubSeq(queue[r], (CHOOSE i \in NextClaim(r) : TRUE) + 1, Len(queue[r]))]
     /\ state' = [m \in Prompts |-> IF m \in claimed THEN "in_progress" ELSE state[m]]
     /\ task' = [m \in Prompts |->
          IF m = n THEN "none" ELSE IF m \in claimed THEN "created" ELSE task[m]]
     /\ cancelled' = [cancelled EXCEPT ![n] = FALSE]
     /\ UNCHANGED <<turnVars, generationVars, root, parent, status, session, admitted,
                    trees, index, store, file, opVars>>

-----------------------------------------------------------------------------
(***************************************************************************)
(* /stop and /clear.                                                       *)
(***************************************************************************)

\* _ui_target raises for a node without a status message.  The active claim of
\* r has lost its own to an earlier reply /clear and its task is not over yet.
Untargetable(r) ==
  active[r] # NoPrompt /\ active[r] \in Nodes(r)
  /\ state[active[r]] = "error" /\ ~status[active[r]]

\* A command takes the state lock.
Command ==
  /\ op.phase = "idle"
  /\ commands < MaxCommands
  /\ commands' = commands + 1
Begin(kind, rs, drop) ==
  op' = [kind |-> kind, phase |-> "drain", trees |-> rs, snaps |-> NoTree, drop |-> drop]

\* Mutant: a queued node is left in the queue.
CancelNodeKeepingQueue(n) ==
  /\ cancelled' = [cancelled EXCEPT ![n] = @ \/ active[root[n]] = n]
  /\ state' = IF Unfinished(n) THEN [state EXCEPT ![n] = "error"] ELSE state
  /\ UNCHANGED queue
CancelNode(n) ==
  /\ cancelled' = [cancelled EXCEPT ![n] = @ \/ active[root[n]] = n]
  /\ state' = IF Unfinished(n) THEN [state EXCEPT ![n] = "error"] ELSE state
  /\ queue' = [queue EXCEPT ![root[n]] = Without(@, {n})]

\* A stop of a node that cannot be named in the UI raises and changes nothing.
StopReply(ref) ==
  /\ Command
  /\ Resolves(ref)
  /\ ~(active[root[ref[1]]] = ref[1] /\ Untargetable(root[ref[1]]))
  /\ CancelNode(ref[1])
  /\ Begin("stopReply", {root[ref[1]]}, {})
  /\ UNCHANGED <<turnVars, generationVars, root, parent, status, session, admitted,
                 trees, index, active, task, store, file, raised>>

\* cancel_all on each tree of rs: every runnable node, queued or active.
CancelAll(rs) ==
  /\ state' = [n \in Prompts |-> IF Unfinished(n) /\ root[n] \in rs THEN "error" ELSE state[n]]
  /\ cancelled' = [n \in Prompts |-> cancelled[n] \/ \E r \in rs : active[r] = n]

\* Trees a loop over all of them reaches before it raises.
Reached == {trees[i] : i \in {k \in DOMAIN trees : \A j \in 1..k : ~Untargetable(trees[j])}}
AllReached == Reached = Published

DrainQueues(rs) == queue' = [r \in Prompts |-> IF r \in rs THEN <<>> ELSE queue[r]]

StopAll ==
  /\ Command
  /\ stopGen' = stopGen + 1
  /\ CancelAll(Reached)
  /\ DrainQueues(Reached)
  /\ IF AllReached THEN Begin("stopAll", Published, {}) ELSE UNCHANGED op
  /\ raised' = [raised EXCEPT !["stop"] = ~AllReached]
  /\ UNCHANGED <<turnVars, clearGen, root, parent, status, session, admitted,
                 trees, index, active, task, store, file>>

\* The nodes ns leave the graphs; the trees rs are no longer published.
Unpublish(rs) ==
  /\ trees' = Without(trees, rs)
  /\ active' = [r \in Prompts |-> IF r \in rs THEN NoPrompt ELSE active[r]]

\* Mutant: the write of a cleared conversation is left to the debounce.
WriteLater(outcome) == raised' = outcome /\ UNCHANGED file
\* write_data, the authoritative write of a cleared conversation: it lands before
\* it returns, or raises.
WriteThrough(outcome) ==
  \/ file' = store' /\ raised' = [outcome EXCEPT !["write"] = FALSE]
  \/ UNCHANGED file /\ raised' = [outcome EXCEPT !["write"] = TRUE]

ClearChat ==
  LET gone == UNION {Nodes(r) : r \in Reached}
  IN /\ Command
     /\ clearGen' = clearGen + 1
     /\ state' = [n \in Prompts |-> IF n \in gone THEN "removed" ELSE state[n]]
     /\ cancelled' = [n \in Prompts |-> cancelled[n] \/ \E r \in Reached : active[r] = n]
     /\ DrainQueues(Reached)
     /\ Unpublish(Reached)
     /\ index' = [ref \in Refs |-> IF index[ref] \in Reached THEN NoPrompt ELSE index[ref]]
     /\ IF AllReached
          THEN /\ Begin("clearChat", {}, Prompts)
               /\ raised' = [raised EXCEPT !["clear"] = FALSE]
               /\ UNCHANGED <<store, file>>
          ELSE /\ store' = [r \in Prompts |-> NoTree]
               /\ WriteThrough([raised EXCEPT !["clear"] = TRUE])
               /\ UNCHANGED op
     /\ UNCHANGED <<turnVars, stopGen, root, parent, status, session, admitted, task>>

\* Mutant: the status message of a removed prompt is not followed.
RepliesPromptOnly(ref) ==
  {other \in Refs : \A S \in SUBSET Refs :
     /\ ref \in S
     /\ \A n \in Prompts : Live(n) => (parent[n] \in S => <<n, "prompt">> \in S)
     => other \in S}
\* get_reference_descendants: the literal reply subtree of a message.
Replies(ref) ==
  {other \in Refs : \A S \in SUBSET Refs :
     /\ ref \in S
     /\ \A n \in Prompts : Live(n) =>
          /\ <<n, "prompt">> \in S /\ status[n] => <<n, "status">> \in S
          /\ parent[n] \in S => <<n, "prompt">> \in S
     => other \in S}

\* Reply /clear: cancel, detach and unindex a literal reply subtree.  Of a status
\* message the prompt stays, in error and without a session to resume.
ClearReply(ref) ==
  LET r == index[ref]
      refs == Replies(ref)
      gone == {n \in Nodes(r) : <<n, "prompt">> \in refs}
      affected == gone \cup {ref[1]}
  IN /\ Command
     /\ Resolves(ref)
     /\ ~(active[r] \in affected /\ Untargetable(r))
     /\ state' = [n \in Prompts |-> IF n \in gone THEN "removed"
                                    ELSE IF n = ref[1] THEN "error" ELSE state[n]]
     /\ cancelled' = [n \in Prompts |-> cancelled[n] \/ (n \in affected /\ active[r] = n)]
     /\ queue' = [queue EXCEPT ![r] = Without(@, affected)]
     /\ status' = [n \in Prompts |-> status[n] /\ n \notin affected]
     /\ session' = [n \in Prompts |-> session[n] /\ n \notin affected]
     /\ Unpublish({r} \cap gone)
     /\ index' = [other \in Refs |->
          IF other \in refs \/ (r \in gone /\ index[other] = r) THEN NoPrompt ELSE index[other]]
     /\ Begin("clearReply", {r} \ gone, {r} \cap gone)
     /\ UNCHANGED <<turnVars, generationVars, root, parent, admitted, task, store, file, raised>>

\* The same, when the active claim cannot be named in the UI: it raises after
\* some of the nodes were cancelled, and nothing is detached.
ClearReplyRaises(ref, reached) ==
  LET r == index[ref]
      affected == {n \in Nodes(r) : <<n, "prompt">> \in Replies(ref)} \cup {ref[1]}
  IN /\ Command
     /\ Resolves(ref)
     /\ active[r] \in affected /\ Untargetable(r)
     /\ reached \subseteq affected
     /\ state' = [n \in Prompts |-> IF n \in reached /\ Unfinished(n) THEN "error" ELSE state[n]]
     /\ queue' = [queue EXCEPT ![r] = Without(@, reached)]
     /\ UNCHANGED <<turnVars, generationVars, root, parent, status, session, admitted,
                    trees, index, active, taskVars, store, file, op, raised>>

\* _drain_cancelled_tasks returned, on completion or on its timeout: the
\* snapshots of the trees that are still published are taken.
TakeSnapshots ==
  /\ op.phase = "drain"
  /\ op' = [op EXCEPT !.phase = "save",
                      !.snaps = [r \in op.trees \cap Published |-> Snapshot(r)]]
  /\ UNCHANGED <<turnVars, generationVars, graphVars, treeVars, taskVars, store, file, raised,
                 commands>>

\* A global stop keeps the state lock while the CLI sessions are stopped.
OpSaved ==
  IF op.kind = "stopAll" THEN [Idle EXCEPT !.kind = op.kind, !.phase = "sessions"] ELSE Idle

\* Mutants: the removed tree stays in the session store; a tree that lost messages
\* is not saved.
SavedSnapshotsOnly == [r \in Prompts |-> IF r \in DOMAIN op.snaps THEN op.snaps[r] ELSE store[r]]
SavedDropsOnly == [r \in Prompts |-> IF r \in op.drop THEN NoTree ELSE store[r]]
\* The conversation with the snapshots of the command in and its trees out.
SavedStore == [r \in Prompts |-> IF r \in DOMAIN op.snaps THEN op.snaps[r]
                                 ELSE IF r \in op.drop THEN NoTree ELSE store[r]]

\* The result reached the workflow task, a few steps of the loop later.
SaveSnapshots ==
  /\ op.phase = "save"
  /\ store' = SavedStore
  /\ IF op.kind = "clearChat" THEN WriteThrough(raised) ELSE UNCHANGED <<file, raised>>
  /\ op' = OpSaved
  /\ UNCHANGED <<turnVars, generationVars, graphVars, treeVars, taskVars, commands>>

\* cli_manager.stop_all() returned or raised: the lock is given up.
StopSessions ==
  /\ op.phase = "sessions"
  /\ op' = Idle
  /\ UNCHANGED <<turnVars, generationVars, graphVars, treeVars, taskVars, store, file, raised,
                 commands>>

\* The debounced write of the store, or its flush, landed; one that fails changes
\* nothing.
WriteFile ==
  /\ commands < LastWrite /\ file # store
  /\ file' = store
  /\ raised' = [raised EXCEPT !["write"] = FALSE]
  /\ UNCHANGED <<turnVars, generationVars, graphVars, treeVars, taskVars, store, op, commands>>

-----------------------------------------------------------------------------
(***************************************************************************)
(* Restart: the process ends, at any time, and a new one restores what the *)
(* file of the session store holds.                                        *)
(***************************************************************************)

\* from_snapshot accepts the tree: it holds its root, every other node replies
\* to a message of the tree, and a runnable node has its status message.
Restorable(r, snap) ==
  /\ r \in DOMAIN snap /\ snap[r].parent = NoRef
  /\ \A n \in DOMAIN snap :
       /\ n # r => /\ snap[n].parent[1] \in DOMAIN snap
                   /\ snap[n].parent[2] = "status" => snap[snap[n].parent[1]].status
       /\ snap[n].state \in {"pending", "in_progress"} => snap[n].status

\* Mutant: unfinished nodes come back as they were.
RestoredAsIs(nodeState) == nodeState
\* from_snapshot turns a runnable node into a failed one.
RestoredState(nodeState) ==
  IF nodeState \in {"pending", "in_progress"} THEN "error" ELSE nodeState
Normalized(snap) == [n \in DOMAIN snap |-> [snap[n] EXCEPT !.state = RestoredState(@)]]

Restart ==
  LET rs == {r \in Prompts : file[r] # NoTree /\ Restorable(r, file[r])}
      ns(r) == DOMAIN file[r]
      restored == UNION {ns(r) : r \in rs}
      rootOf(n) == CHOOSE r \in rs : n \in ns(r)
      snapOf(n) == file[rootOf(n)][n]
  IN /\ commands < MaxCommands /\ commands' = commands + 1
     /\ \E order \in [1..Cardinality(rs) -> rs] :
          IsInjective(order) /\ ToSet(order) = rs /\ trees' = order
     /\ root' = [n \in Prompts |-> IF n \in restored THEN rootOf(n) ELSE NoPrompt]
     /\ state' = [n \in Prompts |->
          IF n \in restored THEN RestoredState(snapOf(n).state)
          ELSE IF state[n] = "removed" THEN "removed" ELSE "absent"]
     /\ parent' = [n \in Prompts |-> IF n \in restored THEN snapOf(n).parent ELSE NoRef]
     /\ status' = [n \in Prompts |-> n \in restored /\ snapOf(n).status]
     /\ session' = [n \in Prompts |-> n \in restored /\ snapOf(n).session]
     /\ index' = [ref \in Refs |->
          IF ref[1] \in restored /\ (ref[2] = "prompt" \/ snapOf(ref[1]).status)
          THEN rootOf(ref[1]) ELSE NoPrompt]
     /\ store' = [r \in Prompts |-> IF r \in rs THEN Normalized(file[r]) ELSE NoTree]
     /\ UNCHANGED file
     /\ turn' = [n \in Prompts |-> "none"]
     /\ token' = [n \in Prompts |-> <<0, 0>>]
     /\ replyTo' = [n \in Prompts |-> NoRef]
     /\ stopGen' = 0 /\ clearGen' = 0
     /\ queue' = [r \in Prompts |-> <<>>]
     /\ active' = [r \in Prompts |-> NoPrompt]
     /\ cancelled' = [n \in Prompts |-> FALSE]
     /\ task' = [n \in Prompts |-> "none"]
     /\ op' = Idle
     /\ raised' = [k \in {"stop", "clear", "write"} |-> FALSE]
     /\ admitted' = [n \in Prompts |-> <<0, 0>>]

-----------------------------------------------------------------------------
TurnStep == \E n \in Prompts :
  (\E ref \in Refs \cup {NoRef} : Ingress(n, ref)) \/ Reject(n) \/ Admit(n)
RunnerStep == \E n \in Prompts :
  \/ StartRunner(n) \/ RecordSession(n) \/ CompleteClaim(n) \/ FinishClaim(n)
  \/ \E propagate \in BOOLEAN : FailClaim(n, propagate)
CommandStep ==
  \/ StopAll \/ ClearChat \/ TakeSnapshots \/ SaveSnapshots \/ StopSessions
  \/ \E ref \in Refs :
       \/ StopReply(ref) \/ ClearReply(ref)
       \/ \E reached \in SUBSET Prompts : ClearReplyRaises(ref, reached)

Next == TurnStep \/ RunnerStep \/ CommandStep \/ WriteFile \/ Restart

Spec == Init /\ [][Next]_vars

-----------------------------------------------------------------------------
(***************************************************************************)
(* Safety.                                                                 *)
(***************************************************************************)

\* Work is never stranded: the queue of a tree holds exactly its pending nodes,
\* there is an active claim while it holds any, and an active claim has a task
\* whose end will release it.
NoStrandedWork == \A r \in Published :
  /\ IsInjective(queue[r]) /\ ToSet(queue[r]) = {n \in Nodes(r) : state[n] = "pending"}
  /\ queue[r] # <<>> => active[r] # NoPrompt
  /\ active[r] # NoPrompt => task[active[r]] # "none"

\* One CLI runs per published tree, also while a cancelled one unwinds or the
\* node it ran for was cleared, and a reply runs only after the turn it replies
\* to has ended for good: it resumes a session nobody writes to.
TurnsFollowEachOther == \A n \in Prompts : task[n] # "none" =>
  /\ root[n] \in Published => \A m \in Prompts : task[m] # "none" /\ root[m] = root[n] => m = n
  /\ Live(n) /\ parent[n] # NoRef =>
       ~Unfinished(parent[n][1]) /\ task[parent[n][1]] = "none"

\* After a /stop that did not raise, whatever is still to run was received after
\* it, and after such a /clear whatever is in the trees at all, however late its
\* admission came.
CommandBoundary == \A n \in Prompts :
  /\ Unfinished(n) /\ ~raised["stop"] => admitted[n][1] = stopGen
  /\ Live(n) /\ ~raised["clear"] => admitted[n][2] = clearGen

\* _reference_to_tree finds exactly the messages of the published trees.
IndexExact == \A ref \in Refs : index[ref] =
  IF \E r \in Published : InGraph(r, ref) THEN root[ref[1]] ELSE NoPrompt

\* The session store holds, between commands, the trees and nodes of the chat: a
\* cleared message is in its next write no more.  A /clear that raised leaves trees
\* it did not reach out of the store until they are saved again.
StoreHasTheTrees == op.phase = "idle" /\ ~raised["clear"] =>
  \A r \in Prompts : DOMAIN store[r] = IF r \in Published THEN Nodes(r) ELSE {}

\* Every tree in the store, and in the file that lags it by the debounce, can be
\* restored, and the store promises progress at most as far as memory: no stored
\* node is completed, or resumable, that is not so there.
StoreRestorable == \A r \in Prompts :
  /\ store[r] # NoTree => Restorable(r, store[r])
  /\ file[r] # NoTree => Restorable(r, file[r])
  /\ op.phase = "idle" => \A n \in DOMAIN store[r] :
       /\ store[r][n].state = "completed" => state[n] = "completed"
       /\ store[r][n].session => session[n]

\* A /clear of the chat that returned is durable: whenever the process ends after
\* it, the file holds no message from before it that a restart would bring back.
\* A /clear that raised, in a tree or in its write, promises nothing.
ClearIsDurable == op.kind # "clearChat" /\ ~raised["clear"] /\ ~raised["write"] =>
  \A r \in Prompts : \A n \in DOMAIN file[r] : admitted[n][2] = clearGen

\* A cancelled turn never reports success afterwards, and a cleared message stays
\* away, unless a restart finds it in a file that was last written before the clear.
CancelIsFinal == [][\A n \in Prompts :
  /\ cancelled[n] /\ cancelled'[n] /\ state'[n] = "completed" => state[n] = "completed"
  /\ state[n] = "removed" /\ state'[n] # "removed" =>
       Restart /\ \E r \in Prompts : n \in DOMAIN file[r]]_vars

\* Prompts of one tree start in the order of their admission: a claim is only
\* ever taken by the node that has waited longest.
FirstComeFirstServed == [][\A r \in Published : \A n \in Prompts :
  active'[r] = n /\ active[r] # n /\ n # NoPrompt =>
    queue[r] = <<>> \/ n = Head(queue[r])]_vars

\* What ARCHITECTURE.md says of a global /stop: it reaches every tree.
StopDrainsEveryQueue == [][stopGen' > stopGen => \A n \in Prompts : ~Unfinished(n)']_vars

(***************************************************************************)
(* Liveness.  The loop runs every task that can run.                       *)
(***************************************************************************)

LoopFairness == \A n \in Prompts : WF_vars(StartRunner(n)) /\ WF_vars(FinishClaim(n))
FairSpec == Spec /\ LoopFairness

\* When a turn that runs ends because its CLI exits, an admitted prompt does not wait
\* for ever, whatever is stopped, cleared or restarted.
ClaimsEnd == \A n \in Prompts :
  WF_vars(CompleteClaim(n) \/ \E p \in BOOLEAN : FailClaim(n, p))
QueuedIsServed ==
  ClaimsEnd => \A n \in Prompts : state[n] = "pending" ~> state[n] # "pending"
=============================================================================
