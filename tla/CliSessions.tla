----------------------------- MODULE CliSessions -----------------------------
(***************************************************************************)
(* The pool of Claude Code subprocesses behind the messaging bots:         *)
(* cli/managed/manager.py and cli/managed/session.py, driven by the claim  *)
(* runners of messaging/node_runner.py and by the global stop.             *)
(*                                                                         *)
(* A runner borrows a session from the manager, reads the output of the    *)
(* process it starts there, has the id that the CLI reports registered,    *)
(* and removes the session when it ends.  It runs in an asyncio task that  *)
(* a stop or clear may cancel at every await, more than once.  The manager *)
(* lock is held while a session is stopped, which waits for the process.   *)
(*                                                                         *)
(* A session is named by the runner that had it created, a process by the  *)
(* runner that launched it.  A task of a session is an async generator: it *)
(* holds the session's _cli_lock from launch until it is finished, also    *)
(* when its runner no longer reads it.                                     *)
(***************************************************************************)
EXTENDS Integers, FiniteSets

CONSTANTS Runners,
          Manager,     \* the stop_all call, as a holder of the manager lock
          None,        \* no id, no session, no process, nobody
          MaxCancels,  \* bound: cancellations of runners
          MaxStops,    \* bound: stop_all calls
          MaxFailures, \* bound: session stops that raise
          MaxBoth      \* bound: cancellations and stop_all calls together

ASSUME BoundsAssumption ==
  MaxCancels \in Nat /\ MaxStops \in Nat /\ MaxFailures \in Nat /\ MaxBoth \in Nat

\* Ids: the placeholder made for a runner, the one its CLI reports.
Temp(r) == <<"temp", r>>
Real(r) == <<"real", r>>
Ids == {Temp(r) : r \in Runners} \cup {Real(r) : r \in Runners}

ASSUME NamesAssumption ==
  Manager \notin Runners /\ None \notin Runners \cup Ids \cup {Manager}

VARIABLES
  pc,        \* where each runner is
  parent,    \* parent_session_id of its claim, or None
  tree,      \* its conversation, named by the first runner
  mine,      \* the session it borrowed
  handle,    \* captured_session_id, or temp_session_id
  fresh,     \* temp_session_id is set: the session has no real id yet
  recorded,  \* ids recorded in the trees, for later prompts to resume
  cancels,   \* cancellations delivered
  cancelled, \* ghost: the runners they were delivered to
  pending, sessions,  \* _pending_sessions, _sessions: id to session
  realOf, tempOf,     \* _temp_to_real, _real_to_temp
  closing,   \* _closing_sessions
  lock,      \* holder of the manager lock
  target,    \* session its holder is stopping
  todo,      \* sessions a stop_all has still to stop
  failed,    \* one of its stops failed
  closed,    \* _closed of each session
  process,   \* process of each session, or None
  streaming, \* runners whose generator holds the _cli_lock of its session
  killing,   \* the lock holder waits for the process of target
  shield,    \* the stop() started by a cancelled generator
  alive,     \* external: processes that run
  killed,    \* external: processes that were sent a signal
  pids,      \* _pids of the process registry
  stops, failures

turnVars == <<parent, tree, recorded>>
borrowVars == <<mine, handle, fresh>>
cancelVars == <<cancels, cancelled>>
mapVars == <<pending, sessions, realOf, tempOf>>
lockVars == <<lock, target, todo, failed, killing>>
sessionVars == <<closed, process>>
processVars == <<alive, killed, pids>>
boundVars == <<stops, failures>>
vars == <<pc, turnVars, borrowVars, cancelVars, mapVars, closing, lockVars, sessionVars,
          streaming, shield, processVars, boundVars>>

TurnTypes ==
  /\ pc \in [Runners -> {"idle", "create", "enter", "read", "handle", "register", "ending",
                         "shield", "stderr", "remove", "stopping", "done"}]
  /\ parent \in [Runners -> Ids \cup {None}]
  /\ tree \in [Runners -> Runners \cup {None}]
  /\ mine \in [Runners -> Runners \cup {None}]
  /\ handle \in [Runners -> Ids \cup {None}]
  /\ fresh \subseteq Runners /\ recorded \subseteq Ids
  /\ cancels \in 0..MaxCancels /\ cancelled \subseteq Runners
MapTypes ==
  /\ pending \in [Ids -> Runners \cup {None}] /\ sessions \in [Ids -> Runners \cup {None}]
  /\ realOf \in [Ids -> Ids \cup {None}] /\ tempOf \in [Ids -> Ids \cup {None}]
LockTypes ==
  /\ lock \in Runners \cup {Manager, None}
  /\ target \in Runners \cup {None}
  /\ failed \in BOOLEAN /\ killing \in BOOLEAN
  /\ closing \subseteq Runners /\ todo \subseteq Runners
SessionTypes ==
  /\ closed \subseteq Runners
  /\ process \in [Runners -> Runners \cup {None}]
  /\ streaming \subseteq Runners
  /\ shield \in [Runners -> {"none", "waits", "kills"}]
  /\ alive \subseteq Runners /\ killed \subseteq Runners /\ pids \subseteq Runners
  /\ stops \in 0..MaxStops /\ failures \in 0..MaxFailures
TypeOK == TurnTypes /\ MapTypes /\ LockTypes /\ SessionTypes

Init ==
  /\ pc = [r \in Runners |-> "idle"]
  /\ parent = [r \in Runners |-> None]
  /\ tree = [r \in Runners |-> None]
  /\ mine = [r \in Runners |-> None]
  /\ handle = [r \in Runners |-> None]
  /\ fresh = {} /\ recorded = {}
  /\ cancels = 0 /\ cancelled = {}
  /\ pending = [i \in Ids |-> None] /\ sessions = [i \in Ids |-> None]
  /\ realOf = [i \in Ids |-> None] /\ tempOf = [i \in Ids |-> None]
  /\ closing = {}
  /\ lock = None /\ target = None /\ todo = {} /\ failed = FALSE /\ killing = FALSE
  /\ closed = {}
  /\ process = [s \in Runners |-> None]
  /\ streaming = {}
  /\ shield = [r \in Runners |-> "none"]
  /\ alive = {} /\ killed = {} /\ pids = {}
  /\ stops = 0 /\ failures = 0

\* _session_for_id, and the id it looks up.
LookupId(i) == IF realOf[i] = None THEN i ELSE realOf[i]
SessionForId(i) ==
  LET k == LookupId(i) IN IF sessions[k] # None THEN sessions[k] ELSE pending[k]

\* The sessions the manager knows.
KeysOf(map, s) == {i \in Ids : map[i] = s}
Known == {s \in Runners : KeysOf(pending, s) \cup KeysOf(sessions, s) # {}}

Goto(r, at) == pc' = [pc EXCEPT ![r] = at]

-----------------------------------------------------------------------------
(***************************************************************************)
(* Borrowing a session.                                                    *)
(***************************************************************************)

\* A claim that resumes a session recorded in its tree starts when the claims
\* of that tree before it are over; others run side by side.
Begin(r) ==
  /\ pc[r] = "idle"
  /\ \/ tree' = [tree EXCEPT ![r] = r] /\ UNCHANGED parent
     \/ \E i \in recorded :
          /\ \A q \in Runners : tree[q] = tree[i[2]] => pc[q] = "done"
          /\ parent' = [parent EXCEPT ![r] = i]
          /\ tree' = [tree EXCEPT ![r] = tree[i[2]]]
  /\ Goto(r, "create")
  /\ UNCHANGED <<recorded, borrowVars, cancelVars, mapVars, closing, lockVars, sessionVars,
                 streaming, shield, processVars, boundVars>>

Borrow(r, s, i) ==
  /\ mine' = [mine EXCEPT ![r] = s]
  /\ handle' = [handle EXCEPT ![r] = i]
  /\ Goto(r, "enter")

\* get_or_create_session.  A new session is kept under the id to resume when
\* there is one; a session that is closing makes the turn fail.
GetOrCreate(r) ==
  /\ pc[r] = "create" /\ lock = None
  /\ LET s == IF parent[r] = None THEN None ELSE SessionForId(parent[r])
         temp == IF parent[r] = None THEN Temp(r) ELSE parent[r]
     IN \/ /\ s = None
           /\ pending' = [pending EXCEPT ![temp] = r]
           /\ fresh' = fresh \cup {r}
           /\ Borrow(r, r, temp)
        \/ /\ s # None /\ s \notin closing
           /\ Borrow(r, s, LookupId(parent[r]))
           /\ UNCHANGED <<pending, fresh>>
        \/ /\ s \in closing
           /\ Goto(r, "done")
           /\ UNCHANGED <<pending, borrowVars>>
  /\ UNCHANGED <<turnVars, cancelVars, sessions, realOf, tempOf, closing, lockVars, sessionVars,
                 streaming, shield, processVars, boundVars>>

Accepts(r, real) ==
  /\ pending[handle[r]] # None
  /\ pending[handle[r]] \notin closing
  /\ SessionForId(real) \in {None, pending[handle[r]]}

\* register_real_session_id, called with the generator suspended, and the record
\* of the id in the tree.  The CLI reports an id of its own, or the one resumed.
Register(r) ==
  /\ pc[r] = "register" /\ lock = None
  /\ \E real \in {Real(r), parent[r]} \ {None} :
       IF Accepts(r, real)
         THEN LET temp == handle[r] IN
              /\ pending' = [pending EXCEPT ![temp] = None]
              /\ sessions' = [sessions EXCEPT ![real] = pending[temp]]
              /\ realOf' = [realOf EXCEPT ![temp] = real]
              /\ tempOf' = [tempOf EXCEPT ![real] = temp]
              /\ handle' = [handle EXCEPT ![r] = real]
              /\ fresh' = fresh \ {r}
              /\ recorded' = recorded \cup {real}
              /\ Goto(r, "read")
         ELSE Goto(r, "remove") /\ UNCHANGED <<mapVars, handle, fresh, recorded>>
  /\ UNCHANGED <<parent, tree, mine, cancelVars, closing, lockVars, sessionVars, streaming, shield,
                 processVars, boundVars>>

-----------------------------------------------------------------------------
(***************************************************************************)
(* A task of a session: start_task, and its reader.                        *)
(***************************************************************************)

\* Held locks of a session.
CliLockFree(s) == \A q \in streaming : mine[q] # s
LifecycleFree(s) ==
  /\ ~(killing /\ target = s)
  /\ \A q \in Runners : shield[q] = "kills" => mine[q] # s

\* Mutant: an issued reference launches again.
MayLaunchClosed(s) == TRUE
MayLaunch(s) == s \notin closed

\* start_task takes _cli_lock and launches under _lifecycle_lock.
Launch(r) ==
  /\ pc[r] = "enter"
  /\ CliLockFree(mine[r]) /\ LifecycleFree(mine[r])
  /\ MayLaunch(mine[r])
  /\ process' = [process EXCEPT ![mine[r]] = r]
  /\ alive' = alive \cup {r}
  /\ pids' = pids \cup {r}
  /\ streaming' = streaming \cup {r}
  /\ Goto(r, "read")
  /\ UNCHANGED <<turnVars, borrowVars, cancelVars, mapVars, closing, lockVars, closed, shield,
                 killed, boundVars>>

\* The session is closed, or the executable cannot be run.
LaunchFails(r) ==
  /\ pc[r] = "enter"
  /\ CliLockFree(mine[r]) /\ LifecycleFree(mine[r])
  /\ Goto(r, "remove")
  /\ UNCHANGED <<turnVars, borrowVars, cancelVars, mapVars, closing, lockVars, sessionVars,
                 streaming, shield, processVars, boundVars>>

\* An event of the stream: the id of a new session, or one whose handling
\* awaits edits of the status message and may raise.
Event(r) ==
  /\ \/ pc[r] = "read" /\ r \in fresh /\ Goto(r, "register")
     \/ pc[r] = "read" /\ r \in alive /\ Goto(r, "handle")
     \/ pc[r] = "handle" /\ \E at \in {"read", "remove"} : Goto(r, at)
  /\ UNCHANGED <<turnVars, borrowVars, cancelVars, mapVars, closing, lockVars, sessionVars,
                 streaming, shield, processVars, boundVars>>

\* Both pipes are at their end and the process was waited for.
ReadEnd(r) ==
  /\ pc[r] = "read" /\ r \notin alive
  /\ pids' = pids \ {r}
  /\ Goto(r, "ending")
  /\ UNCHANGED <<turnVars, borrowVars, cancelVars, mapVars, closing, lockVars, sessionVars,
                 streaming, shield, alive, killed, boundVars>>

\* The exit event was handled, and the generator returns.
StreamEnd(r) ==
  /\ pc[r] = "ending"
  /\ streaming' = streaming \ {r}
  /\ Goto(r, "remove")
  /\ UNCHANGED <<turnVars, borrowVars, cancelVars, mapVars, closing, lockVars, sessionVars,
                 shield, processVars, boundVars>>

\* The generator unwinds once the error pipe is at its end.  Whether the process
\* has been reaped by then decides about its pid.
Unwind(r) ==
  /\ streaming' = streaming \ {r}
  /\ \E reaped \in BOOLEAN : pids' = IF reaped /\ r \notin alive THEN pids \ {r} ELSE pids
  /\ UNCHANGED <<turnVars, borrowVars, cancelVars, mapVars, closing, lockVars, sessionVars,
                 shield, alive, killed, boundVars>>
StderrEnd(r) == pc[r] = "stderr" /\ r \notin alive /\ Goto(r, "remove") /\ Unwind(r)

\* Mutant: an abandoned generator gives the lock up at once.
CloseGeneratorEarly(r) ==
  pc[r] = "done" /\ r \in streaming /\ UNCHANGED pc /\ Unwind(r)
\* A generator left at a yield is closed when the frame of its runner is gone; it
\* waits for the end of the error pipe all the same.
CloseGenerator(r) ==
  pc[r] = "done" /\ r \in streaming /\ r \notin alive /\ UNCHANGED pc /\ Unwind(r)

-----------------------------------------------------------------------------
(***************************************************************************)
(* Stopping a session: stop() of cli/managed/session.py, shared by the     *)
(* generator that is cancelled and by the holder of the manager lock.      *)
(***************************************************************************)
Running(s) == process[s] \in alive

\* Mutants: a session without a process is not told apart; the process is waited
\* for without a signal.
StopBeginsUnsignalled(s) ==
  /\ closed' = closed \cup {s}
  /\ UNCHANGED <<process, processVars>>
\* Under _lifecycle_lock: the session is closed, and its process signalled.
StopBegins(s) ==
  /\ closed' = closed \cup {s}
  /\ IF Running(s)
       THEN killed' = killed \cup {process[s]} /\ UNCHANGED pids
       ELSE pids' = pids \ {process[s]} /\ UNCHANGED killed
  /\ UNCHANGED <<process, alive>>

\* The wait for the process ends, by its exit or by an exception.
ExitConfirmed(s) ==
  /\ ~Running(s)
  /\ pids' = pids \ {process[s]}
  /\ UNCHANGED <<alive, killed, failures>>
StopRaises(s) ==
  /\ failures < MaxFailures
  /\ failures' = failures + 1
  /\ killed' = killed \ {process[s]}
  /\ UNCHANGED <<alive, pids>>

\* A cancelled generator awaits its shielded stop(), then the error pipe.
ShieldGoto(r) == IF pc[r] = "shield" THEN Goto(r, "stderr") ELSE UNCHANGED pc
ShieldBegins(r) ==
  /\ shield[r] = "waits" /\ LifecycleFree(mine[r])
  /\ StopBegins(mine[r])
  /\ IF Running(mine[r])
       THEN shield' = [shield EXCEPT ![r] = "kills"] /\ UNCHANGED pc
       ELSE shield' = [shield EXCEPT ![r] = "none"] /\ ShieldGoto(r)
  /\ UNCHANGED <<turnVars, borrowVars, cancelVars, mapVars, closing, lockVars, streaming, boundVars>>
ShieldEnds(r) ==
  /\ shield[r] = "kills"
  /\ ExitConfirmed(mine[r]) \/ StopRaises(mine[r])
  /\ shield' = [shield EXCEPT ![r] = "none"]
  /\ ShieldGoto(r)
  /\ UNCHANGED <<turnVars, borrowVars, cancelVars, mapVars, closing, lockVars, sessionVars,
                 streaming, stops>>

\* Mutant: the alias of a forgotten session stays.
ForgetKeepingAlias(s) ==
  /\ pending' = [i \in Ids |-> IF pending[i] = s THEN None ELSE pending[i]]
  /\ sessions' = [i \in Ids |-> IF sessions[i] = s THEN None ELSE sessions[i]]
  /\ tempOf' = [i \in Ids |-> IF sessions[i] = s THEN None ELSE tempOf[i]]
  /\ closing' = closing \ {s}
  /\ UNCHANGED realOf
\* _forget_session: its ids, the aliases of its real ids, and the closing mark.
Forget(s) ==
  /\ pending' = [i \in Ids |-> IF pending[i] = s THEN None ELSE pending[i]]
  /\ sessions' = [i \in Ids |-> IF sessions[i] = s THEN None ELSE sessions[i]]
  /\ tempOf' = [i \in Ids |-> IF sessions[i] = s THEN None ELSE tempOf[i]]
  /\ realOf' = [i \in Ids |-> IF i \in {tempOf[k] : k \in KeysOf(sessions, s)} THEN None
                               ELSE realOf[i]]
  /\ closing' = closing \ {s}

\* Only a session whose stop is confirmed leaves the maps.
Retain(ok) == IF ok THEN Forget(target) ELSE UNCHANGED <<mapVars, closing>>

\* A stop() by the holder of the manager lock is over: remove_session returns,
\* stop_all goes on with the next session.
StopReturns(ok) ==
  /\ Retain(ok)
  /\ target' = None /\ killing' = FALSE
  /\ \/ lock = Manager /\ failed' = (failed \/ ~ok) /\ UNCHANGED <<lock, todo, pc>>
     \/ lock \in Runners /\ lock' = None /\ Goto(lock, "done") /\ UNCHANGED <<todo, failed>>

StopSession ==
  /\ target # None /\ ~killing
  /\ LifecycleFree(target)
  /\ StopBegins(target)
  /\ IF Running(target)
       THEN /\ killing' = TRUE
            /\ UNCHANGED <<pc, mapVars, closing, lock, target, todo, failed>>
       ELSE StopReturns(TRUE)
  /\ UNCHANGED <<turnVars, borrowVars, cancelVars, streaming, shield, boundVars>>
StopSessionEnds ==
  /\ killing
  /\ \/ ExitConfirmed(target) /\ StopReturns(TRUE)
     \/ StopRaises(target) /\ StopReturns(FALSE)
  /\ UNCHANGED <<turnVars, borrowVars, cancelVars, sessionVars, streaming, shield, stops>>

-----------------------------------------------------------------------------
(***************************************************************************)
(* remove_session and stop_all, under the manager lock.                    *)
(***************************************************************************)

\* The finally clause of a runner; nothing to do when a stop_all came first.
Remove(r) ==
  /\ pc[r] = "remove" /\ lock = None
  /\ LET s == SessionForId(handle[r]) IN
     \/ s = None /\ Goto(r, "done") /\ UNCHANGED <<closing, lock, target>>
     \/ /\ s # None
        /\ closing' = closing \cup {s}
        /\ lock' = r /\ target' = s
        /\ Goto(r, "stopping")
  /\ UNCHANGED <<turnVars, borrowVars, cancelVars, mapVars, todo, failed, killing, sessionVars,
                 streaming, shield, processVars, boundVars>>

\* Mutant: the sessions without a real id are left out.
StopAllScopeRegistered == {s \in Runners : KeysOf(sessions, s) # {}} \cup closing
StopAllScope == Known \cup closing

StopAll ==
  /\ lock = None /\ stops < MaxStops /\ stops + cancels < MaxBoth
  /\ stops' = stops + 1
  /\ lock' = Manager /\ failed' = FALSE
  /\ todo' = StopAllScope
  /\ closing' = closing \cup StopAllScope
  /\ UNCHANGED <<pc, turnVars, borrowVars, cancelVars, mapVars, target, killing, sessionVars,
                 streaming, shield, processVars, failures>>
StopAllNext ==
  /\ lock = Manager /\ target = None
  /\ \E s \in todo : target' = s /\ todo' = todo \ {s}
  /\ UNCHANGED <<pc, turnVars, borrowVars, cancelVars, mapVars, closing, lock, failed, killing,
                 sessionVars, streaming, shield, processVars, boundVars>>
\* stop_all raises when a stop failed, and returns otherwise.
StopAllReturns ==
  /\ lock = Manager /\ target = None /\ todo = {}
  /\ lock' = None
  /\ UNCHANGED <<pc, turnVars, borrowVars, cancelVars, mapVars, closing, target, todo, failed,
                 killing, sessionVars, streaming, shield, processVars, boundVars>>

-----------------------------------------------------------------------------
(***************************************************************************)
(* task.cancel() of the task of a runner, at the await where it is.        *)
(* A lock that is free is taken without an await: a stop(), shielded or    *)
(* not, begins before the next cancellation of its runner is delivered.    *)
(***************************************************************************)
Cancel(r) ==
  /\ cancels < MaxCancels /\ stops + cancels < MaxBoth
  /\ cancels' = cancels + 1
  /\ cancelled' = cancelled \union {r}
  /\ \/ \* Nothing is borrowed, or remove_session waits for the lock.
        pc[r] \in {"create", "remove"} /\ Goto(r, "done")
        /\ UNCHANGED <<lock, target, killing, streaming, shield>>
     \/ \* The runner's own code: the generator stays where it yielded.
        pc[r] \in {"enter", "handle", "register", "ending"} /\ Goto(r, "remove")
        /\ UNCHANGED <<lock, target, killing, streaming, shield>>
     \/ \* The generator reads: it stops the session, shielded.
        pc[r] = "read" /\ Goto(r, "shield")
        /\ shield' = [shield EXCEPT ![r] = "waits"]
        /\ UNCHANGED <<lock, target, killing, streaming>>
     \/ \* The shielded stop goes on by itself: it has begun, or waits for the lock.
        pc[r] = "shield" /\ (shield[r] = "waits" => ~LifecycleFree(mine[r]))
        /\ Goto(r, "stderr")
        /\ UNCHANGED <<lock, target, killing, streaming, shield>>
     \/ pc[r] = "stderr" /\ Goto(r, "remove")
        /\ streaming' = streaming \ {r}
        /\ UNCHANGED <<lock, target, killing, shield>>
     \/ \* remove_session lets go of the locks; its session stays closing.
        pc[r] = "stopping" /\ (killing \/ ~LifecycleFree(target))
        /\ Goto(r, "done") /\ lock' = None /\ target' = None /\ killing' = FALSE
        /\ UNCHANGED <<streaming, shield>>
  /\ UNCHANGED <<turnVars, borrowVars, mapVars, closing, todo, failed, sessionVars,
                 processVars, boundVars>>

\* External: a process ends, signalled or by itself.
Exit(r) ==
  /\ r \in alive
  /\ alive' = alive \ {r}
  /\ UNCHANGED <<pc, turnVars, borrowVars, cancelVars, mapVars, closing, lockVars, sessionVars,
                 streaming, shield, killed, pids, boundVars>>

-----------------------------------------------------------------------------
RunnerStep(r) ==
  \/ GetOrCreate(r) \/ Register(r) \/ Launch(r) \/ LaunchFails(r) \/ ReadEnd(r) \/ StreamEnd(r)
  \/ StderrEnd(r) \/ CloseGenerator(r) \/ Remove(r) \/ ShieldBegins(r) \/ ShieldEnds(r)
ManagerStep == StopSession \/ StopSessionEnds \/ StopAllNext \/ StopAllReturns

\* Nothing more will happen once every prompt was served.
Done == /\ \A r \in Runners : pc[r] = "done" /\ shield[r] = "none"
        /\ alive = {} /\ lock = None
        /\ UNCHANGED vars

Next ==
  \/ \E r \in Runners : Begin(r) \/ RunnerStep(r) \/ Event(r) \/ Cancel(r) \/ Exit(r)
  \/ ManagerStep \/ StopAll \/ Done

Spec == Init /\ [][Next]_vars

\* asyncio runs what is ready, and a process that was killed exits; a process
\* that was not may run for ever.
Fairness == \A r \in Runners :
  /\ WF_vars(RunnerStep(r)) /\ WF_vars(pc[r] = "handle" /\ Event(r))
  /\ WF_vars(r \in killed /\ Exit(r))
FairSpec == Spec /\ Fairness /\ WF_vars(ManagerStep)

-----------------------------------------------------------------------------
\* "Aliases plus PID registration remain owned until exit is confirmed": every
\* process that runs is the one its session would stop, the manager can still
\* find that session, and the process registry has its pid, however often the
\* runner was cancelled and whatever stops failed.  "One lifecycle lock linearizes
\* that terminal transition with subprocess publication": if the session is closed
\* its process was signalled, unless signalling it raised.
ProcessIsOwned == \A p \in alive :
  p \in pids /\ \E s \in Known :
    process[s] = p /\ (s \in closed => p \in killed \/ failures > 0)

\* A session has one id, both aliases exactly while it has a real one, and it is
\* closing only as long as the manager knows it.  The id under which a runner
\* removes its session finds that session until it is forgotten, and never one of
\* another turn.
AliasesExact ==
  /\ \A s \in Runners : Cardinality(KeysOf(pending, s)) + Cardinality(KeysOf(sessions, s)) <= 1
  /\ \A i \in Ids : (sessions[i] # None) <=> (tempOf[i] # None)
  /\ \A i, k \in Ids : realOf[i] = k <=> tempOf[k] = i
  /\ closing \subseteq Known
  /\ \A r \in Runners : pc[r] \notin {"idle", "create", "done"} =>
       SessionForId(handle[r]) = IF mine[r] \in Known THEN mine[r] ELSE None

\* When stop_all returns without raising, no CLI process is left, and none of the
\* sessions issued before can launch one.
StopAllLeavesNothing == [][
  lock = Manager /\ lock' = None /\ ~failed =>
    /\ alive = {}
    /\ \A r \in Runners : mine[r] # None /\ pc[r] # "done" => mine[r] \in closed]_vars

\* A runner that was cancelled ends, whatever it was waiting for, unless a stop
\* raised and left its process alone; and a stop_all gives the lock back.  (Only
\* finitely many cancellations and stops are made, so it is enough that from some
\* time on nobody waits.)
NobodyWaitsForever == <>[](
  /\ \A r \in cancelled : pc[r] = "done" \/ failures > 0
  /\ lock # Manager)
=============================================================================
