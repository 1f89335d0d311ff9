------------------------ MODULE CliSessions_proofs ------------------------
(***************************************************************************)
(* Proofs about CliSessions, for any number of runners, cancellations,     *)
(* global stops and failures: a process never escapes the pool, the ids of *)
(* a session stay exact, and a global stop that returns leaves nothing.    *)
(***************************************************************************)
EXTENDS CliSessions, FiniteSetTheorems, TLAPS

-----------------------------------------------------------------------------
(***************************************************************************)
(* The inductive invariant.                                                *)
(***************************************************************************)
TreeOf(i) == tree[i[2]]

Begun(r) == pc[r] \notin {"idle", "create"}
Active(r) == pc[r] \notin {"idle", "done"}
Working(r) == pc[r] \notin {"idle", "create", "done"}

\* The turns of a conversation are one after the other, and what a runner holds
\* belongs to its own conversation.
Turns ==
  /\ \A r \in Runners : pc[r] = "idle" <=> tree[r] = None
  /\ \A r, q \in Runners : Active(r) /\ Active(q) /\ tree[r] = tree[q] => r = q
  /\ \A r \in Runners : tree[r] # None => tree[tree[r]] = tree[r]
  /\ \A i \in recorded : (\E q \in Runners : i = Real(q)) /\ TreeOf(i) # None
  /\ \A r \in Runners : parent[r] # None => parent[r] \in recorded /\ TreeOf(parent[r]) = tree[r]
  /\ \A r \in Runners : mine[r] # None => Begun(mine[r]) /\ tree[mine[r]] = tree[r]
  /\ \A r \in Runners : handle[r] # None => TreeOf(handle[r]) = tree[r]
  /\ \A r \in Runners : Working(r) => mine[r] # None /\ handle[r] # None
  /\ \A r \in Runners : ~Begun(r) => mine[r] = None /\ handle[r] = None

\* A session is known under one id, of its own conversation, which is pending or has
\* a real session; placeholders become aliases and nothing else.
Maps ==
  /\ \A i \in Ids : pending[i] # None =>
       /\ Begun(pending[i]) /\ tree[pending[i]] = TreeOf(i)
       /\ sessions[i] = None /\ realOf[i] = None
  /\ \A i \in Ids : sessions[i] # None => Begun(sessions[i]) /\ tree[sessions[i]] = TreeOf(i)
  /\ \A i, k \in Ids : pending[i] # None /\ pending[i] = pending[k] => i = k
  /\ \A i, k \in Ids : sessions[i] # None /\ sessions[i] = sessions[k] => i = k
  /\ \A i, k \in Ids : pending[i] # None => pending[i] # sessions[k]
  /\ \A i \in Ids : sessions[i] # None <=> tempOf[i] # None
  /\ \A i, k \in Ids : realOf[i] = k <=> tempOf[k] = i
  /\ \A i \in Ids : realOf[i] \notin {None, i} => sessions[i] = None
  /\ \A i \in Ids : realOf[i] # None => TreeOf(realOf[i]) = TreeOf(i)
  /\ \A q \in Runners : pending[Temp(q)] \in {None, q} /\ sessions[Temp(q)] = None
  /\ \A q \in Runners : realOf[Temp(q)] # None => sessions[realOf[Temp(q)]] = q

\* The id a runner removes its session by finds that session while it is known, and
\* a session is forgotten only when it is closed.
Handles ==
  /\ \A r \in Runners : Working(r) =>
       SessionForId(handle[r]) = IF mine[r] \in Known THEN mine[r] ELSE None
  /\ \A r \in Runners : mine[r] # None => mine[r] \in Known \cup closed

\* The manager lock, and what its holder has under way.
Holder ==
  /\ \A r \in Runners : lock = r <=> pc[r] = "stopping"
  /\ closing \subseteq Known
  /\ target # None => lock # None
  /\ killing => target # None /\ target \in closed
  /\ lock = Manager /\ ~failed => Known \subseteq todo \cup {target}

\* The locks of a session: one generator at a time, and a session whose generator
\* goes away before its process has been closed.
Locks ==
  /\ \A r \in streaming : Begun(r) /\ mine[r] # None
  /\ \A r, q \in streaming : mine[r] = mine[q] => r = q
  /\ \A r \in Runners : pc[r] \in {"read", "handle", "register", "ending", "shield", "stderr"} =>
       r \in streaming
  /\ \A r \in Runners : pc[r] = "stderr" => mine[r] \in closed
  /\ \A r \in Runners : pc[r] = "shield" => shield[r] # "none"
  /\ \A r \in Runners : shield[r] # "none" => mine[r] # None
  /\ \A r \in Runners : shield[r] = "kills" => mine[r] \in closed

\* A process that runs is the one of a known session, where only a generator or a
\* closed session can have left it.
Processes ==
  /\ \A p \in alive : Begun(p) /\ mine[p] \in Known /\ process[mine[p]] = p /\ p \in pids
  /\ \A p \in alive : p \in streaming \/ mine[p] \in closed
  /\ \A p \in alive : mine[p] \in closed => p \in killed \/ failures > 0
  /\ \A r \in Runners : pc[r] = "ending" => r \notin alive

Inductive == TypeOK /\ Turns /\ Maps /\ Handles /\ Holder /\ Locks /\ Processes

-----------------------------------------------------------------------------
(***************************************************************************)
(* Ids.                                                                    *)
(***************************************************************************)
LEMMA IdFacts ==
  /\ \A r \in Runners : Temp(r) \in Ids /\ Temp(r)[2] = r
  /\ \A r \in Runners : Real(r) \in Ids /\ Real(r)[2] = r
  /\ \A r, q \in Runners : Temp(r) # Real(q)
  /\ \A i \in Ids : i[2] \in Runners
  /\ None \notin Ids /\ None \notin Runners /\ Manager \notin Runners /\ None # Manager
<1>1. \A r : Temp(r)[2] = r /\ Real(r)[2] = r
  BY DEF Temp, Real
<1>2. \A r, q : Temp(r) # Real(q)
  BY DEF Temp, Real
<1>3. \A r \in Runners : Temp(r) \in Ids /\ Real(r) \in Ids
  BY DEF Ids
<1>4. \A i \in Ids : \E r \in Runners : i = Temp(r) \/ i = Real(r)
  BY DEF Ids
<1>5. \A i \in Ids : i[2] \in Runners
  BY <1>1, <1>4
<1> QED BY <1>1, <1>2, <1>3, <1>5, NamesAssumption


-----------------------------------------------------------------------------
(***************************************************************************)
(* Types.                                                                  *)
(***************************************************************************)
LEMMA LookupType ==
  ASSUME TypeOK, NEW i \in Ids
  PROVE  LookupId(i) \in Ids /\ SessionForId(i) \in Runners \cup {None}
BY DEF TypeOK, MapTypes, LookupId, SessionForId

LEMMA TypeInit == Init => TypeOK
<1> SUFFICES ASSUME Init PROVE TypeOK
  OBVIOUS
<1> USE IdFacts, BoundsAssumption DEF Init
<1>1. TurnTypes
  BY DEF TurnTypes
<1>2. MapTypes
  BY DEF MapTypes
<1>3. LockTypes
  BY DEF LockTypes
<1>4. SessionTypes
  BY DEF SessionTypes
<1> QED BY <1>1, <1>2, <1>3, <1>4 DEF TypeOK

LEMMA TypeKept ==
  ASSUME TypeOK, Turns, Locks, [Next]_vars
  PROVE  TypeOK'
<1> USE BoundsAssumption
<1>0. TypeOK /\ [Next]_vars
  OBVIOUS
<1>a. \A r \in Runners : Working(r) => handle[r] # None
  BY DEF Turns
<1>b. \A r \in Runners : shield[r] # "none" => mine[r] # None
  BY DEF Locks
<1>1. ASSUME NEW r \in Runners, Begin(r) PROVE TypeOK'
  <2>1. TurnTypes'
    BY <1>0, <1>1, IdFacts DEF TypeOK, TurnTypes, Begin, Goto, borrowVars, cancelVars
  <2>2. MapTypes'
    BY <1>0, <1>1, IdFacts DEF TypeOK, MapTypes, Begin, mapVars
  <2>3. LockTypes'
    BY <1>0, <1>1, IdFacts DEF TypeOK, LockTypes, Begin, lockVars
  <2>4. SessionTypes'
    BY <1>0, <1>1 DEF TypeOK, SessionTypes, Begin, sessionVars, processVars, boundVars
  <2> QED BY <2>1, <2>2, <2>3, <2>4 DEF TypeOK
<1>2. ASSUME NEW r \in Runners, GetOrCreate(r) PROVE TypeOK'
  <2>1. TurnTypes'
    <3>1. parent[r] \in Ids \cup {None} /\ Temp(r) \in Ids
      BY <1>0, IdFacts DEF TypeOK, TurnTypes
    <3>2. parent[r] # None =>
            LookupId(parent[r]) \in Ids /\ SessionForId(parent[r]) \in Runners \cup {None}
      BY <1>0, <3>1, LookupType
    <3>3. mine' \in [Runners -> Runners \cup {None}]
      BY <1>0, <1>2, <3>2, IdFacts DEF TypeOK, TurnTypes, GetOrCreate, Borrow, borrowVars
    <3>4. handle' \in [Runners -> Ids \cup {None}]
      BY <1>0, <1>2, <3>1, <3>2, IdFacts DEF TypeOK, TurnTypes, GetOrCreate, Borrow, borrowVars
    <3>5. fresh' \subseteq Runners /\ UNCHANGED <<turnVars, cancelVars>>
      BY <1>0, <1>2 DEF TypeOK, TurnTypes, GetOrCreate, Borrow, borrowVars
    <3>6. \E at \in {"enter", "done"} : Goto(r, at)
      BY <1>2 DEF GetOrCreate, Borrow
    <3> QED
      BY <1>0, <3>3, <3>4, <3>5, <3>6 DEF TypeOK, TurnTypes, Goto, turnVars, cancelVars
  <2>2. MapTypes'
    BY <1>0, <1>2, IdFacts DEF TypeOK, MapTypes, GetOrCreate, Borrow
  <2>3. LockTypes'
    BY <1>0, <1>2, IdFacts DEF TypeOK, LockTypes, GetOrCreate, Borrow, lockVars
  <2>4. SessionTypes'
    BY <1>0, <1>2 DEF TypeOK, SessionTypes, GetOrCreate, Borrow, sessionVars, processVars,
        boundVars
  <2> QED BY <2>1, <2>2, <2>3, <2>4 DEF TypeOK
<1>3. ASSUME NEW r \in Runners, Register(r) PROVE TypeOK'
  <2>1. TurnTypes'
    BY <1>0, <1>3, IdFacts, <1>a DEF TypeOK, TurnTypes, Register, Accepts, Goto, cancelVars
  <2>2. MapTypes'
    <3>1. PICK real \in {Real(r), parent[r]} \ {None} :
            IF Accepts(r, real)
              THEN /\ pending' = [pending EXCEPT ![handle[r]] = None]
                   /\ sessions' = [sessions EXCEPT ![real] = pending[handle[r]]]
                   /\ realOf' = [realOf EXCEPT ![handle[r]] = real]
                   /\ tempOf' = [tempOf EXCEPT ![real] = handle[r]]
              ELSE UNCHANGED mapVars
      BY <1>3 DEF Register
    <3>2. real \in Ids /\ handle[r] \in Ids
      BY <1>0, <1>a, <1>3, IdFacts DEF TypeOK, TurnTypes, Working, Register
    <3>3. pending[handle[r]] \in Runners \cup {None}
      BY <1>0, <3>2 DEF TypeOK, MapTypes
    <3> QED BY <1>0, <3>1, <3>2, <3>3 DEF TypeOK, MapTypes, mapVars
  <2>3. LockTypes'
    BY <1>0, <1>3, IdFacts DEF TypeOK, LockTypes, Register, Accepts, lockVars
  <2>4. SessionTypes'
    BY <1>0, <1>3 DEF TypeOK, SessionTypes, Register, Accepts, sessionVars, processVars,
        boundVars
  <2> QED BY <2>1, <2>2, <2>3, <2>4 DEF TypeOK
<1>4. ASSUME NEW r \in Runners, Launch(r) PROVE TypeOK'
  <2>1. TurnTypes'
    BY <1>0, <1>4, IdFacts DEF TypeOK, TurnTypes, Launch, Goto, turnVars, borrowVars, cancelVars
  <2>2. MapTypes'
    BY <1>0, <1>4, IdFacts DEF TypeOK, MapTypes, Launch, mapVars
  <2>3. LockTypes'
    BY <1>0, <1>4, IdFacts DEF TypeOK, LockTypes, Launch, lockVars
  <2>4. SessionTypes'
    BY <1>0, <1>4 DEF TypeOK, SessionTypes, TurnTypes, Launch, boundVars
  <2> QED BY <2>1, <2>2, <2>3, <2>4 DEF TypeOK
<1>5. ASSUME NEW r \in Runners, LaunchFails(r) PROVE TypeOK'
  <2>1. TurnTypes'
    BY <1>0, <1>5, IdFacts DEF TypeOK, TurnTypes, LaunchFails, Goto, turnVars, borrowVars,
        cancelVars
  <2>2. MapTypes'
    BY <1>0, <1>5, IdFacts DEF TypeOK, MapTypes, LaunchFails, mapVars
  <2>3. LockTypes'
    BY <1>0, <1>5, IdFacts DEF TypeOK, LockTypes, LaunchFails, lockVars
  <2>4. SessionTypes'
    BY <1>0, <1>5 DEF TypeOK, SessionTypes, LaunchFails, sessionVars, processVars, boundVars
  <2> QED BY <2>1, <2>2, <2>3, <2>4 DEF TypeOK
<1>6. ASSUME NEW r \in Runners, Event(r) PROVE TypeOK'
  <2>1. TurnTypes'
    BY <1>0, <1>6, IdFacts DEF TypeOK, TurnTypes, Event, Goto, turnVars, borrowVars, cancelVars
  <2>2. MapTypes'
    BY <1>0, <1>6, IdFacts DEF TypeOK, MapTypes, Event, mapVars
  <2>3. LockTypes'
    BY <1>0, <1>6, IdFacts DEF TypeOK, LockTypes, Event, lockVars
  <2>4. SessionTypes'
    BY <1>0, <1>6 DEF TypeOK, SessionTypes, Event, sessionVars, processVars, boundVars
  <2> QED BY <2>1, <2>2, <2>3, <2>4 DEF TypeOK
<1>7. ASSUME NEW r \in Runners, ReadEnd(r) PROVE TypeOK'
  <2>1. TurnTypes'
    BY <1>0, <1>7, IdFacts DEF TypeOK, TurnTypes, ReadEnd, Goto, turnVars, borrowVars,
        cancelVars
  <2>2. MapTypes'
    BY <1>0, <1>7, IdFacts DEF TypeOK, MapTypes, ReadEnd, mapVars
  <2>3. LockTypes'
    BY <1>0, <1>7, IdFacts DEF TypeOK, LockTypes, ReadEnd, lockVars
  <2>4. SessionTypes'
    BY <1>0, <1>7 DEF TypeOK, SessionTypes, ReadEnd, sessionVars, boundVars
  <2> QED BY <2>1, <2>2, <2>3, <2>4 DEF TypeOK
<1>8. ASSUME NEW r \in Runners, StreamEnd(r) PROVE TypeOK'
  <2>1. TurnTypes'
    BY <1>0, <1>8, IdFacts DEF TypeOK, TurnTypes, StreamEnd, Goto, turnVars, borrowVars,
        cancelVars
  <2>2. MapTypes'
    BY <1>0, <1>8, IdFacts DEF TypeOK, MapTypes, StreamEnd, mapVars
  <2>3. LockTypes'
    BY <1>0, <1>8, IdFacts DEF TypeOK, LockTypes, StreamEnd, lockVars
  <2>4. SessionTypes'
    BY <1>0, <1>8 DEF TypeOK, SessionTypes, StreamEnd, sessionVars, processVars, boundVars
  <2> QED BY <2>1, <2>2, <2>3, <2>4 DEF TypeOK
<1>9. ASSUME NEW r \in Runners, StderrEnd(r) PROVE TypeOK'
  <2>1. TurnTypes'
    BY <1>0, <1>9, IdFacts DEF TypeOK, TurnTypes, StderrEnd, Unwind, Goto, turnVars,
        borrowVars, cancelVars
  <2>2. MapTypes'
    BY <1>0, <1>9, IdFacts DEF TypeOK, MapTypes, StderrEnd, Unwind, mapVars
  <2>3. LockTypes'
    BY <1>0, <1>9, IdFacts DEF TypeOK, LockTypes, StderrEnd, Unwind, lockVars
  <2>4. SessionTypes'
    BY <1>0, <1>9 DEF TypeOK, SessionTypes, StderrEnd, Unwind, sessionVars, boundVars
  <2> QED BY <2>1, <2>2, <2>3, <2>4 DEF TypeOK
<1>10. ASSUME NEW r \in Runners, CloseGenerator(r) PROVE TypeOK'
  <2>1. TurnTypes'
    BY <1>0, <1>10, IdFacts DEF TypeOK, TurnTypes, CloseGenerator, Unwind, turnVars,
        borrowVars, cancelVars
  <2>2. MapTypes'
    BY <1>0, <1>10, IdFacts DEF TypeOK, MapTypes, CloseGenerator, Unwind, mapVars
  <2>3. LockTypes'
    BY <1>0, <1>10, IdFacts DEF TypeOK, LockTypes, CloseGenerator, Unwind, lockVars
  <2>4. SessionTypes'
    BY <1>0, <1>10 DEF TypeOK, SessionTypes, CloseGenerator, Unwind, sessionVars, boundVars
  <2> QED BY <2>1, <2>2, <2>3, <2>4 DEF TypeOK
<1>11. ASSUME NEW r \in Runners, ShieldBegins(r) PROVE TypeOK'
  <2>1. TurnTypes'
    BY <1>0, <1>11, IdFacts DEF TypeOK, TurnTypes, ShieldBegins, StopBegins, Running,
        ShieldGoto, Goto, turnVars, borrowVars, cancelVars
  <2>2. MapTypes'
    BY <1>0, <1>11, IdFacts DEF TypeOK, MapTypes, ShieldBegins, StopBegins, Running,
        ShieldGoto, mapVars
  <2>3. LockTypes'
    BY <1>0, <1>11, IdFacts DEF TypeOK, LockTypes, ShieldBegins, StopBegins, Running,
        ShieldGoto, lockVars
  <2>4. SessionTypes'
    BY <1>0, <1>11, <1>b DEF TypeOK, SessionTypes, TurnTypes, ShieldBegins, StopBegins,
        Running, ShieldGoto, boundVars
  <2> QED BY <2>1, <2>2, <2>3, <2>4 DEF TypeOK
<1>12. ASSUME NEW r \in Runners, ShieldEnds(r) PROVE TypeOK'
  <2>1. TurnTypes'
    BY <1>0, <1>12, IdFacts DEF TypeOK, TurnTypes, ShieldEnds, ExitConfirmed, StopRaises,
        Running, ShieldGoto, Goto, turnVars, borrowVars, cancelVars
  <2>2. MapTypes'
    BY <1>0, <1>12, IdFacts DEF TypeOK, MapTypes, ShieldEnds, ExitConfirmed, StopRaises,
        Running, ShieldGoto, mapVars
  <2>3. LockTypes'
    BY <1>0, <1>12, IdFacts DEF TypeOK, LockTypes, ShieldEnds, ExitConfirmed, StopRaises,
        Running, ShieldGoto, lockVars
  <2>4. SessionTypes'
    BY <1>0, <1>12 DEF TypeOK, SessionTypes, ShieldEnds, ExitConfirmed, StopRaises, Running,
        ShieldGoto, sessionVars
  <2> QED BY <2>1, <2>2, <2>3, <2>4 DEF TypeOK
<1>13. ASSUME NEW r \in Runners, Remove(r) PROVE TypeOK'
  <2>1. TurnTypes'
    BY <1>0, <1>13, IdFacts DEF TypeOK, TurnTypes, Remove, Goto, turnVars, borrowVars,
        cancelVars
  <2>2. MapTypes'
    BY <1>0, <1>13, IdFacts DEF TypeOK, MapTypes, Remove, mapVars
  <2>3. LockTypes'
    BY <1>0, <1>13, IdFacts, <1>a, LookupType DEF TypeOK, LockTypes, TurnTypes, Working, Remove
  <2>4. SessionTypes'
    BY <1>0, <1>13 DEF TypeOK, SessionTypes, Remove, sessionVars, processVars, boundVars
  <2> QED BY <2>1, <2>2, <2>3, <2>4 DEF TypeOK
<1>14. ASSUME NEW r \in Runners, Cancel(r) PROVE TypeOK'
  <2>1. TurnTypes'
    BY <1>0, <1>14, IdFacts DEF TypeOK, TurnTypes, Cancel, Goto, turnVars, borrowVars
  <2>2. MapTypes'
    BY <1>0, <1>14, IdFacts DEF TypeOK, MapTypes, Cancel, mapVars
  <2>3. LockTypes'
    BY <1>0, <1>14, IdFacts DEF TypeOK, LockTypes, Cancel
  <2>4. SessionTypes'
    BY <1>0, <1>14 DEF TypeOK, SessionTypes, Cancel, sessionVars, processVars, boundVars
  <2> QED BY <2>1, <2>2, <2>3, <2>4 DEF TypeOK
<1>15. ASSUME NEW r \in Runners, Exit(r) PROVE TypeOK'
  <2>1. TurnTypes'
    BY <1>0, <1>15, IdFacts DEF TypeOK, TurnTypes, Exit, turnVars, borrowVars, cancelVars
  <2>2. MapTypes'
    BY <1>0, <1>15, IdFacts DEF TypeOK, MapTypes, Exit, mapVars
  <2>3. LockTypes'
    BY <1>0, <1>15, IdFacts DEF TypeOK, LockTypes, Exit, lockVars
  <2>4. SessionTypes'
    BY <1>0, <1>15 DEF TypeOK, SessionTypes, Exit, sessionVars, boundVars
  <2> QED BY <2>1, <2>2, <2>3, <2>4 DEF TypeOK
<1>16. CASE StopSession
  <2>1. TurnTypes'
    BY <1>0, <1>16, IdFacts DEF TypeOK, TurnTypes, LockTypes, StopSession, StopBegins,
        Running, StopReturns, Retain, Forget, Goto, turnVars, borrowVars, cancelVars
  <2>2. MapTypes'
    BY <1>0, <1>16, IdFacts DEF TypeOK, MapTypes, StopSession, StopBegins, Running,
        StopReturns, Retain, Forget, mapVars
  <2>3. LockTypes'
    BY <1>0, <1>16, IdFacts DEF TypeOK, LockTypes, StopSession, StopBegins, Running,
        StopReturns, Retain, Forget
  <2>4. SessionTypes'
    BY <1>0, <1>16 DEF TypeOK, SessionTypes, LockTypes, StopSession, StopBegins, Running,
        StopReturns, Retain, Forget, boundVars
  <2> QED BY <2>1, <2>2, <2>3, <2>4 DEF TypeOK
<1>17. CASE StopSessionEnds
  <2>1. TurnTypes'
    BY <1>0, <1>17, IdFacts DEF TypeOK, TurnTypes, LockTypes, StopSessionEnds, ExitConfirmed,
        StopRaises, Running, StopReturns, Retain, Forget, Goto, turnVars, borrowVars, cancelVars
  <2>2. MapTypes'
    BY <1>0, <1>17, IdFacts DEF TypeOK, MapTypes, StopSessionEnds, ExitConfirmed, StopRaises,
        Running, StopReturns, Retain, Forget, mapVars
  <2>3. LockTypes'
    BY <1>0, <1>17, IdFacts DEF TypeOK, LockTypes, StopSessionEnds, ExitConfirmed, StopRaises,
        Running, StopReturns, Retain, Forget
  <2>4. SessionTypes'
    BY <1>0, <1>17 DEF TypeOK, SessionTypes, StopSessionEnds, ExitConfirmed, StopRaises,
        Running, StopReturns, Retain, Forget, sessionVars
  <2> QED BY <2>1, <2>2, <2>3, <2>4 DEF TypeOK
<1>18. CASE StopAll
  <2>1. TurnTypes'
    BY <1>0, <1>18, IdFacts DEF TypeOK, TurnTypes, StopAll, StopAllScope, turnVars,
        borrowVars, cancelVars
  <2>2. MapTypes'
    BY <1>0, <1>18, IdFacts DEF TypeOK, MapTypes, StopAll, StopAllScope, mapVars
  <2>3. LockTypes'
    BY <1>0, <1>18, IdFacts DEF TypeOK, LockTypes, Known, StopAll, StopAllScope
  <2>4. SessionTypes'
    BY <1>0, <1>18 DEF TypeOK, SessionTypes, StopAll, StopAllScope, sessionVars, processVars
  <2> QED BY <2>1, <2>2, <2>3, <2>4 DEF TypeOK
<1>19. CASE StopAllNext
  <2>1. TurnTypes'
    BY <1>0, <1>19, IdFacts DEF TypeOK, TurnTypes, StopAllNext, turnVars, borrowVars, cancelVars
  <2>2. MapTypes'
    BY <1>0, <1>19, IdFacts DEF TypeOK, MapTypes, StopAllNext, mapVars
  <2>3. LockTypes'
    BY <1>0, <1>19, IdFacts DEF TypeOK, LockTypes, StopAllNext
  <2>4. SessionTypes'
    BY <1>0, <1>19 DEF TypeOK, SessionTypes, StopAllNext, sessionVars, processVars, boundVars
  <2> QED BY <2>1, <2>2, <2>3, <2>4 DEF TypeOK
<1>20. CASE StopAllReturns
  <2>1. TurnTypes'
    BY <1>0, <1>20, IdFacts DEF TypeOK, TurnTypes, StopAllReturns, turnVars, borrowVars,
        cancelVars
  <2>2. MapTypes'
    BY <1>0, <1>20, IdFacts DEF TypeOK, MapTypes, StopAllReturns, mapVars
  <2>3. LockTypes'
    BY <1>0, <1>20, IdFacts DEF TypeOK, LockTypes, StopAllReturns
  <2>4. SessionTypes'
    BY <1>0, <1>20 DEF TypeOK, SessionTypes, StopAllReturns, sessionVars, processVars, boundVars
  <2> QED BY <2>1, <2>2, <2>3, <2>4 DEF TypeOK
<1>21. CASE UNCHANGED vars
  BY <1>0, <1>21 DEF TypeOK, TurnTypes, MapTypes, LockTypes, SessionTypes, vars, turnVars,
      borrowVars, cancelVars, mapVars, lockVars, sessionVars, processVars, boundVars
<1> QED BY <1>0, <1>1, <1>2, <1>3, <1>4, <1>5, <1>6, <1>7, <1>8, <1>9, <1>10, <1>11, <1>12,
    <1>13, <1>14, <1>15, <1>16, <1>17, <1>18, <1>19, <1>20, <1>21 DEF Next, RunnerStep, ManagerStep, Done

-----------------------------------------------------------------------------
(***************************************************************************)
(* Looking sessions up.                                                    *)
(***************************************************************************)
LEMMA KnownFacts ==
  \A s : s \in Known <=>
    s \in Runners /\ \E i \in Ids : pending[i] = s \/ sessions[i] = s
BY DEF Known, KeysOf

\* An alias leads to the registered session; any other id to the one kept under it.
LEMMA LookupFacts ==
  ASSUME TypeOK, Maps, NEW i \in Ids
  PROVE  /\ realOf[i] # None =>
              SessionForId(i) = sessions[realOf[i]] /\ SessionForId(i) # None
         /\ realOf[i] = None =>
              SessionForId(i) = IF sessions[i] # None THEN sessions[i] ELSE pending[i]
         /\ SessionForId(i) # None =>
              SessionForId(i) \in Known /\ tree[SessionForId(i)] = TreeOf(i)
         /\ LookupId(i) \in Ids /\ TreeOf(LookupId(i)) = TreeOf(i)
         /\ SessionForId(LookupId(i)) = SessionForId(i)
<1> DEFINE k == LookupId(i)
<1>1. k \in Ids /\ SessionForId(i) \in Runners \cup {None} /\ None \notin Ids
  BY LookupType, IdFacts
<1>2. realOf[i] # None => k = realOf[i] /\ tempOf[k] = i /\ sessions[k] # None
  BY <1>1, IdFacts DEF LookupId, Maps
<1>3. realOf[i] = None => k = i
  BY DEF LookupId
<1>4. SessionForId(i) = IF sessions[k] # None THEN sessions[k] ELSE pending[k]
  BY DEF SessionForId
<1>5. TreeOf(k) = TreeOf(i)
  BY <1>1, <1>2, <1>3 DEF Maps
<1>6. SessionForId(i) # None => SessionForId(i) \in Known /\ tree[SessionForId(i)] = TreeOf(i)
  BY <1>1, <1>4, <1>5, KnownFacts DEF Maps
<1>7. realOf[i] # None => realOf[k] \in {None, k}
  BY <1>1, <1>2 DEF Maps
<1>8. LookupId(k) = k
  BY <1>2, <1>3, <1>7 DEF LookupId
<1>9. SessionForId(k) = SessionForId(i)
  BY <1>8, <1>4 DEF SessionForId
<1> QED BY <1>1, <1>2, <1>3, <1>4, <1>5, <1>6, <1>9

\* Forgetting a session touches no other.
LEMMA ForgetFacts ==
  ASSUME TypeOK, Maps, NEW s \in Runners, Forget(s)
  PROVE  /\ Known' = Known \ {s}
         /\ \A i \in Ids : SessionForId(i)' = IF SessionForId(i) = s THEN None ELSE SessionForId(i)
         /\ closing' = closing \ {s}
<1>1. s # None /\ None \notin Ids
  BY IdFacts
<1>2. /\ \A i \in Ids : pending'[i] = IF pending[i] = s THEN None ELSE pending[i]
      /\ \A i \in Ids : sessions'[i] = IF sessions[i] = s THEN None ELSE sessions[i]
      /\ \A i \in Ids : tempOf'[i] = IF sessions[i] = s THEN None ELSE tempOf[i]
      /\ closing' = closing \ {s}
  BY DEF Forget
<1>3. \A i \in Ids : realOf'[i] = IF \E k \in Ids : sessions[k] = s /\ tempOf[k] = i THEN None
                                  ELSE realOf[i]
  BY DEF Forget, KeysOf
<1>4. \A q : q \in Known' <=> q \in Runners /\ \E i \in Ids : pending'[i] = q \/ sessions'[i] = q
  BY DEF Known, KeysOf
<1>5. Known' = Known \ {s}
  <2>1. ASSUME NEW q \in Known' PROVE q \in Known \ {s}
    BY <1>1, <1>2, <1>4, <2>1, KnownFacts, IdFacts
  <2>2. ASSUME NEW q \in Known \ {s} PROVE q \in Known'
    BY <1>2, <1>4, <2>2, KnownFacts
  <2> QED BY <2>1, <2>2
<1>6. ASSUME NEW i \in Ids
      PROVE  SessionForId(i)' = IF SessionForId(i) = s THEN None ELSE SessionForId(i)
  <2>1. CASE realOf[i] # None
    <3> DEFINE k == realOf[i]
    <3>1. k \in Ids /\ tempOf[k] = i /\ sessions[k] # None /\ SessionForId(i) = sessions[k]
      BY <2>1, LookupFacts DEF TypeOK, MapTypes, Maps
    <3>2. pending[i] = None /\ (i # k => sessions[i] = None)
      BY <2>1 DEF Maps
    <3>3. CASE sessions[k] = s
      <4>1. realOf'[i] = None
        BY <1>3, <3>1, <3>3
      <4>2. pending'[i] = None /\ sessions'[i] = None
        BY <1>2, <3>1, <3>2, <3>3
      <4> QED BY <3>1, <3>3, <4>1, <4>2 DEF SessionForId, LookupId
    <3>4. CASE sessions[k] # s
      <4>1. \A j \in Ids : tempOf[j] = i => j = k
        BY <3>1 DEF Maps
      <4>2. realOf'[i] = k /\ sessions'[k] = sessions[k]
        BY <1>2, <1>3, <3>1, <3>4, <4>1
      <4> QED BY <2>1, <3>1, <3>4, <4>2 DEF SessionForId, LookupId
    <3> QED BY <3>3, <3>4
  <2>2. CASE realOf[i] = None
    <3>1. realOf'[i] = None
      BY <1>3, <2>2
    <3>2. sessions[i] = None \/ pending[i] = None
      BY DEF Maps
    <3> QED BY <1>1, <1>2, <2>2, <3>1, <3>2 DEF SessionForId, LookupId
  <2> QED BY <2>1, <2>2
<1> QED BY <1>2, <1>5, <1>6

\* A step that leaves the maps alone leaves what they say.
LEMMA MapsUnchanged ==
  ASSUME UNCHANGED mapVars
  PROVE  Known' = Known /\ \A i : SessionForId(i)' = SessionForId(i) /\ LookupId(i)' = LookupId(i)
BY DEF mapVars, Known, KeysOf, SessionForId, LookupId

-----------------------------------------------------------------------------
(***************************************************************************)
(* Turns.                                                                  *)
(***************************************************************************)

\* How a step moves the runners: one at a time, and never back to the start.
LEMMA Moves ==
  ASSUME Holder, [Next]_vars
  PROVE  \/ \E r \in Runners : Begin(r) \/ GetOrCreate(r) \/ Register(r)
         \/ /\ UNCHANGED <<turnVars, borrowVars>>
            /\ \/ UNCHANGED pc
               \/ \E r \in Runners, at \in {"read", "handle", "register", "ending", "shield",
                                           "stderr", "remove", "stopping", "done"} :
                    (Working(r) \/ (pc[r] # "idle" /\ at = "done")) /\ Goto(r, at)
<1> DEFINE Ats == {"read", "handle", "register", "ending", "shield", "stderr", "remove",
                   "stopping", "done"}
           M == \/ UNCHANGED pc
                \/ \E r \in Runners, at \in Ats :
                     (Working(r) \/ (pc[r] # "idle" /\ at = "done")) /\ Goto(r, at)
           P == \/ \E r \in Runners : Begin(r) \/ GetOrCreate(r) \/ Register(r)
                \/ UNCHANGED <<turnVars, borrowVars>> /\ M
<1>1. ASSUME NEW r \in Runners, Launch(r) \/ LaunchFails(r) \/ Event(r) \/ ReadEnd(r) PROVE P
  BY <1>1 DEF Launch, LaunchFails, Event, ReadEnd, Working
<1>2. ASSUME NEW r \in Runners, StreamEnd(r) \/ StderrEnd(r) \/ CloseGenerator(r) PROVE P
  BY <1>2 DEF StreamEnd, StderrEnd, CloseGenerator, Unwind, Working
<1>3. ASSUME NEW r \in Runners, ShieldBegins(r) \/ ShieldEnds(r) PROVE P
  BY <1>3 DEF ShieldBegins, ShieldEnds, ShieldGoto, Working
<1>4. ASSUME NEW r \in Runners, Remove(r) \/ Exit(r) PROVE P
  BY <1>4 DEF Remove, Exit, Working
<1>5. ASSUME NEW r \in Runners, Cancel(r) PROVE P
  BY <1>5 DEF Cancel, Working
<1>6. ASSUME StopSession \/ StopSessionEnds PROVE P
  <2>1. UNCHANGED pc \/ (lock \in Runners /\ Goto(lock, "done"))
    BY <1>6 DEF StopSession, StopSessionEnds, StopReturns
  <2>2. \A r \in Runners : lock = r => pc[r] # "idle"
    BY DEF Holder
  <2>3. UNCHANGED <<turnVars, borrowVars>>
    BY <1>6 DEF StopSession, StopSessionEnds
  <2> QED BY <2>1, <2>2, <2>3
<1>7. ASSUME StopAll \/ StopAllNext \/ StopAllReturns \/ UNCHANGED vars PROVE P
  BY <1>7 DEF StopAll, StopAllNext, StopAllReturns, vars
<1>8. ASSUME NEW r \in Runners, Begin(r) \/ GetOrCreate(r) \/ Register(r) PROVE P
  BY <1>8
<1> HIDE DEF P
<1>9. P
  BY <1>1, <1>2, <1>3, <1>4, <1>5, <1>6, <1>7, <1>8 DEF Next, RunnerStep, ManagerStep, Done
<1> QED BY <1>9 DEF P

\* Whoever has begun stays so, and keeps its conversation.
LEMMA Onward ==
  ASSUME TypeOK, Turns, Holder, [Next]_vars
  PROVE  /\ \A r \in Runners : Begun(r) => Begun(r)'
         /\ \A r \in Runners : tree[r] # None => tree'[r] = tree[r]
<1>1. CASE \E r \in Runners : Begin(r)
  <2>1. PICK r \in Runners : Begin(r)
    BY <1>1
  <2>2. pc[r] = "idle" /\ Goto(r, "create") /\ tree[r] = None
    BY <2>1 DEF Begin, Turns
  <2>3. \A q \in Runners \ {r} : tree'[q] = tree[q]
    BY <2>1 DEF Begin, TypeOK, TurnTypes
  <2> QED BY <2>2, <2>3 DEF Begun, Goto, TypeOK, TurnTypes
<1>2. CASE \E r \in Runners : GetOrCreate(r) \/ Register(r)
  BY <1>2 DEF GetOrCreate, Register, Borrow, Begun, Goto, TypeOK, TurnTypes, turnVars
<1>3. CASE UNCHANGED <<turnVars, borrowVars>> /\ ~ \E r \in Runners : Begin(r) \/ GetOrCreate(r) \/ Register(r)
  BY <1>3, Moves DEF Begun, Goto, TypeOK, TurnTypes, turnVars
<1> QED BY <1>1, <1>2, <1>3, Moves

\* A claim begins in a conversation in which nobody is active.
LEMMA BeginKeepsTurns ==
  ASSUME TypeOK, Turns, NEW r \in Runners, Begin(r)
  PROVE  Turns'
<1>1. /\ pc[r] = "idle" /\ tree[r] = None /\ tree \in [Runners -> Runners \cup {None}]
      /\ mine[r] = None /\ handle[r] = None
  BY DEF Begin, Turns, TypeOK, TurnTypes, Begun
<1>2. pc' = [pc EXCEPT ![r] = "create"] /\ UNCHANGED <<mine, handle, recorded>>
  BY DEF Begin, Goto, borrowVars
<1>3. PICK t \in Runners : /\ tree' = [tree EXCEPT ![r] = t]
                           /\ \/ t = r /\ UNCHANGED parent
                              \/ /\ tree[t] = t /\ \A q \in Runners : tree[q] = t => pc[q] = "done"
                                 /\ \E i \in recorded : t = TreeOf(i) /\ parent' = [parent EXCEPT ![r] = i]
  <2>1. CASE tree' = [tree EXCEPT ![r] = r] /\ UNCHANGED parent
    BY <2>1
  <2>2. ASSUME NEW i \in recorded,
               \A q \in Runners : tree[q] = tree[i[2]] => pc[q] = "done",
               parent' = [parent EXCEPT ![r] = i], tree' = [tree EXCEPT ![r] = tree[i[2]]]
        PROVE  \E t \in Runners : /\ tree' = [tree EXCEPT ![r] = t]
                                  /\ tree[t] = t /\ \A q \in Runners : tree[q] = t => pc[q] = "done"
                                  /\ t = TreeOf(i) /\ parent' = [parent EXCEPT ![r] = i]
    <3>1. i \in Ids /\ i[2] \in Runners /\ TreeOf(i) # None
      BY IdFacts DEF TypeOK, TurnTypes, Turns
    <3>2. TreeOf(i) \in Runners /\ tree[TreeOf(i)] = TreeOf(i)
      BY <1>1, <3>1 DEF Turns, TreeOf
    <3> QED BY <2>2, <3>2 DEF TreeOf
  <2> QED BY <2>1, <2>2 DEF Begin
<1>4. \A q \in Runners \ {r} : tree'[q] = tree[q] /\ pc'[q] = pc[q]
  BY <1>1, <1>2, <1>3 DEF TypeOK, TurnTypes
<1>5. tree'[r] = t /\ pc'[r] = "create" /\ t # None
  BY <1>1, <1>2, <1>3, IdFacts DEF TypeOK, TurnTypes
<1>6. \A q \in Runners : tree[q] # None => q # r /\ tree'[q] = tree[q]
  BY <1>1, <1>4
<1>7. \A i \in Ids : tree[i[2]] # None => tree'[i[2]] = tree[i[2]]
  BY <1>6, IdFacts
<1>8. recorded \subseteq Ids /\ parent \in [Runners -> Ids \cup {None}]
      /\ handle \in [Runners -> Ids \cup {None}] /\ mine \in [Runners -> Runners \cup {None}]
  BY DEF TypeOK, TurnTypes
<1>10. \A q \in Runners : pc'[q] = "idle" <=> tree'[q] = None
  BY <1>4, <1>5 DEF Turns
<1>11. \A p, q \in Runners : Active(p)' /\ Active(q)' /\ tree'[p] = tree'[q] => p = q
  <2>1. ASSUME NEW q \in Runners \ {r}, Active(q) PROVE tree[q] # t
    BY <1>1, <1>3, <2>1, IdFacts DEF Turns, Active
  <2> QED BY <1>4, <1>5, <2>1 DEF Turns, Active
<1>12. \A q \in Runners : tree'[q] # None => tree'[tree'[q]] = tree'[q]
  <2>1. tree'[t] = t
    BY <1>3, <1>4, <1>5
  <2>2. \A q \in Runners \ {r} : tree[q] # None => tree[q] \in Runners /\ tree[tree[q]] = tree[q]
    BY <1>1 DEF Turns
  <2> QED BY <1>4, <1>5, <1>6, <2>1, <2>2
<1>13. \A i \in recorded' : (\E q \in Runners : i = Real(q)) /\ TreeOf(i)' # None
  BY <1>2, <1>7, <1>8 DEF Turns, TreeOf
<1>14. \A q \in Runners : parent'[q] # None =>
         parent'[q] \in recorded' /\ TreeOf(parent[q])' = tree'[q]
  <2>1. ASSUME NEW q \in Runners, parent[q] # None
        PROVE  q # r /\ parent[q] \in recorded /\ tree'[parent[q][2]] = tree'[q]
    BY <1>1, <1>4, <1>7, <1>8, <2>1, IdFacts DEF Turns, TreeOf
  <2>2. CASE UNCHANGED parent
    BY <1>2, <2>1, <2>2 DEF TreeOf
  <2>3. ASSUME NEW i \in recorded, t = TreeOf(i), parent' = [parent EXCEPT ![r] = i]
        PROVE  \A q \in Runners : parent'[q] # None =>
                 parent'[q] \in recorded' /\ TreeOf(parent[q])' = tree'[q]
    BY <1>2, <1>5, <1>7, <1>8, <2>1, <2>3 DEF TreeOf
  <2> QED BY <1>3, <2>2, <2>3
<1>15. \A q \in Runners : mine'[q] # None => Begun(mine[q])' /\ tree'[mine'[q]] = tree'[q]
  BY <1>1, <1>2, <1>4, <1>8, IdFacts DEF Turns, Begun
<1>16. \A q \in Runners : handle'[q] # None => TreeOf(handle[q])' = tree'[q]
  <2>1. ASSUME NEW q \in Runners, handle[q] # None
        PROVE  q # r /\ handle[q] \in Ids /\ tree[handle[q][2]] = tree[q] /\ tree[q] # None
    BY <1>1, <1>8, <2>1 DEF Turns, TreeOf, Begun
  <2> QED BY <1>2, <1>4, <1>7, <2>1 DEF TreeOf
<1>17. \A q \in Runners : (Working(q)' => mine'[q] # None /\ handle'[q] # None)
                          /\ (~ Begun(q)' => mine'[q] = None /\ handle'[q] = None)
  BY <1>1, <1>2, <1>4, <1>5 DEF Turns, Begun, Working
<1> QED BY <1>10, <1>11, <1>12, <1>13, <1>14, <1>15, <1>16, <1>17 DEF Turns

\* What get_or_create_session does: it makes a session under an id that leads
\* nowhere, or hands out the known session of the id, or fails.
LEMMA BorrowCases ==
  ASSUME TypeOK, Turns, Maps, NEW r \in Runners, GetOrCreate(r)
  PROVE  \/ \E temp \in Ids :
              /\ TreeOf(temp) = tree[r] /\ \A q \in Runners : temp = Temp(q) => q = r
              /\ realOf[temp] = None /\ sessions[temp] = None /\ pending[temp] = None
              /\ pending' = [pending EXCEPT ![temp] = r]
              /\ Borrow(r, r, temp)
         \/ \E s \in Known, k \in Ids :
              /\ TreeOf(k) = tree[r] /\ SessionForId(k) = s /\ tree[s] = tree[r]
              /\ UNCHANGED pending
              /\ Borrow(r, s, k)
         \/ Goto(r, "done") /\ UNCHANGED <<pending, mine, handle>>
<1> DEFINE p == parent[r]
           s == IF p = None THEN None ELSE SessionForId(p)
           temp == IF p = None THEN Temp(r) ELSE p
<1>1. pc[r] = "create" /\ tree[r] # None /\ p \in Ids \cup {None} /\ r # None
  BY IdFacts DEF GetOrCreate, TypeOK, TurnTypes, Turns
<1>2. p # None => TreeOf(p) = tree[r] /\ \E q \in Runners : p = Real(q)
  BY DEF Turns
<1>3. p # None /\ s = None => realOf[p] = None /\ sessions[p] = None /\ pending[p] = None
  BY <1>1, LookupFacts
<1>4. /\ realOf[Temp(r)] = None /\ sessions[Temp(r)] = None /\ pending[Temp(r)] = None
      /\ TreeOf(Temp(r)) = tree[r]
  <2>1. ~ Begun(r)
    BY <1>1 DEF Begun
  <2>2. \A i \in Ids : pending[i] # r /\ sessions[i] # r
    BY <1>1, <2>1 DEF Maps
  <2>3. Temp(r) \in Ids /\ realOf[Temp(r)] \in Ids \cup {None}
    BY IdFacts DEF TypeOK, MapTypes
  <2> QED BY <2>2, <2>3, IdFacts DEF Maps, TreeOf
<1>5. CASE s = None /\ pending' = [pending EXCEPT ![temp] = r] /\ Borrow(r, r, temp)
  <2>1. temp \in Ids /\ TreeOf(temp) = tree[r] /\ \A q \in Runners : temp = Temp(q) => q = r
    BY <1>1, <1>2, <1>4, IdFacts
  <2>2. realOf[temp] = None /\ sessions[temp] = None /\ pending[temp] = None
    BY <1>3, <1>4, <1>5
  <2> QED BY <1>5, <2>1, <2>2
<1>6. CASE s # None /\ Borrow(r, s, LookupId(p)) /\ UNCHANGED pending
  <2>1. p \in Ids
    BY <1>1, <1>6
  <2>2. LookupId(p) \in Ids /\ SessionForId(LookupId(p)) = s /\ s \in Known
        /\ TreeOf(LookupId(p)) = TreeOf(p) /\ tree[s] = TreeOf(p)
    BY <1>6, <2>1, LookupFacts
  <2> QED BY <1>2, <1>6, <2>1, <2>2, IdFacts
<1>7. CASE Goto(r, "done") /\ UNCHANGED <<pending, mine, handle>>
  BY <1>7
<1> QED BY <1>5, <1>6, <1>7 DEF GetOrCreate, borrowVars

LEMMA BorrowKeepsTurns ==
  ASSUME TypeOK, Turns, Maps, NEW r \in Runners, GetOrCreate(r)
  PROVE  Turns'
<1>1. /\ pc[r] = "create" /\ UNCHANGED <<parent, tree, recorded>>
      /\ \A q \in Runners \ {r} : pc'[q] = pc[q] /\ mine'[q] = mine[q] /\ handle'[q] = handle[q]
  BY DEF GetOrCreate, Borrow, Goto, TypeOK, TurnTypes, borrowVars, turnVars
<1>2. \/ /\ pc'[r] = "enter" /\ mine'[r] # None /\ handle'[r] \in Ids
         /\ (mine'[r] = r \/ mine'[r] \in Known)
         /\ tree[mine'[r]] = tree[r] /\ tree[handle'[r][2]] = tree[r]
      \/ pc'[r] = "done" /\ mine'[r] = mine[r] /\ handle'[r] = handle[r]
  BY BorrowCases, KnownFacts, IdFacts DEF Borrow, Goto, TypeOK, TurnTypes, TreeOf
<1>3. \A s \in Known : s \in Runners /\ Begun(s)
  BY KnownFacts, IdFacts DEF Maps
<1>4. mine[r] = None /\ handle[r] = None
  BY <1>1 DEF Turns, Begun
<1>5. \A q \in Runners : mine'[q] # None => Begun(mine[q])' /\ tree'[mine'[q]] = tree'[q]
  <2>1. \A q \in Runners : Begun(q) => Begun(q)'
    BY <1>1, <1>2 DEF Begun
  <2>2. mine'[r] # None => Begun(mine[r])' /\ tree'[mine'[r]] = tree'[r]
    BY <1>1, <1>2, <1>3, <1>4, <2>1 DEF Begun
  <2>3. \A q \in Runners : mine[q] \in Runners \cup {None}
    BY DEF TypeOK, TurnTypes
  <2> QED BY <1>1, <2>1, <2>2, <2>3 DEF Turns, Begun
<1>6. \A q \in Runners : handle'[q] # None => TreeOf(handle[q])' = tree'[q]
  BY <1>1, <1>2, <1>4 DEF Turns, TreeOf
<1>7. \A q \in Runners : (Working(q)' => mine'[q] # None /\ handle'[q] # None)
                         /\ (~ Begun(q)' => mine'[q] = None /\ handle'[q] = None)
  BY <1>1, <1>2, IdFacts DEF Turns, Begun, Working
<1>8. \A q, w \in Runners : Active(q)' /\ Active(w)' /\ tree'[q] = tree'[w] => q = w
  BY <1>1 DEF Turns, Active
<1>9. \A q \in Runners : pc'[q] = "idle" <=> tree'[q] = None
  BY <1>1, <1>2 DEF Turns
<1>10. /\ \A q \in Runners : tree'[q] # None => tree'[tree'[q]] = tree'[q]
       /\ \A i \in recorded' : (\E q \in Runners : i = Real(q)) /\ TreeOf(i)' # None
       /\ \A q \in Runners : parent'[q] # None =>
            parent'[q] \in recorded' /\ TreeOf(parent[q])' = tree'[q]
  BY <1>1 DEF Turns, TreeOf
<1> QED BY <1>5, <1>6, <1>7, <1>8, <1>9, <1>10 DEF Turns

\* What register_real_session_id does: the pending session gets an id that leads
\* nowhere, or is the one it has already.
LEMMA RegisterCases ==
  ASSUME TypeOK, Turns, Maps, NEW r \in Runners, Register(r)
  PROVE  \/ \E real \in Ids :
              LET temp == handle[r] IN
              /\ temp \in Ids /\ pending[temp] \in Runners
              /\ (\E q \in Runners : real = Real(q)) /\ real \in {Real(r), parent[r]}
              /\ TreeOf(real) = tree[r] /\ TreeOf(temp) = tree[r]
              /\ realOf[temp] = None /\ sessions[temp] = None
              /\ tempOf[real] = None /\ sessions[real] = None
              /\ real = temp \/ pending[real] = None
              /\ realOf[real] = None
              /\ pending' = [pending EXCEPT ![temp] = None]
              /\ sessions' = [sessions EXCEPT ![real] = pending[temp]]
              /\ realOf' = [realOf EXCEPT ![temp] = real]
              /\ tempOf' = [tempOf EXCEPT ![real] = temp]
              /\ handle' = [handle EXCEPT ![r] = real]
              /\ recorded' = recorded \cup {real}
              /\ Goto(r, "read")
         \/ Goto(r, "remove") /\ UNCHANGED <<mapVars, handle, recorded>>
<1> DEFINE temp == handle[r]
<1>1. pc[r] = "register" /\ Working(r) /\ tree[r] # None
  BY DEF Register, Working, Turns
<1>2. temp \in Ids /\ TreeOf(temp) = tree[r]
  BY <1>1 DEF Turns, TypeOK, TurnTypes
<1>3. PICK real \in {Real(r), parent[r]} \ {None} :
        IF Accepts(r, real)
          THEN /\ pending' = [pending EXCEPT ![temp] = None]
               /\ sessions' = [sessions EXCEPT ![real] = pending[temp]]
               /\ realOf' = [realOf EXCEPT ![temp] = real]
               /\ tempOf' = [tempOf EXCEPT ![real] = temp]
               /\ handle' = [handle EXCEPT ![r] = real]
               /\ recorded' = recorded \cup {real}
               /\ Goto(r, "read")
          ELSE Goto(r, "remove") /\ UNCHANGED <<mapVars, handle, recorded>>
  BY DEF Register
<1>4. real \in Ids /\ TreeOf(real) = tree[r] /\ \E q \in Runners : real = Real(q)
  BY IdFacts DEF Turns, TreeOf, TypeOK, TurnTypes
<1>5. ASSUME Accepts(r, real)
      PROVE  /\ pending[temp] \in Runners /\ realOf[temp] = None /\ sessions[temp] = None
             /\ tempOf[real] = None /\ sessions[real] = None
             /\ real = temp \/ pending[real] = None
             /\ realOf[real] = None
  <2> DEFINE s == pending[temp]
  <2>1. s \in Runners /\ s # None /\ SessionForId(real) \in {None, s}
    BY <1>2, <1>5, IdFacts DEF Accepts, TypeOK, MapTypes
  <2>2. realOf[temp] = None /\ sessions[temp] = None /\ \A k \in Ids : sessions[k] # s
    BY <1>2, <2>1 DEF Maps
  <2>3. realOf[real] \in Ids \cup {None}
    BY <1>4 DEF TypeOK, MapTypes
  <2>4. realOf[real] = None
    BY <1>4, <2>1, <2>2, <2>3, LookupFacts
  <2>5. sessions[real] = None
    BY <1>4, <2>1, <2>2, <2>4, LookupFacts
  <2>6. real = temp \/ pending[real] = None
    BY <1>2, <1>4, <2>1, <2>4, <2>5, LookupFacts DEF Maps
  <2> QED BY <1>4, <2>1, <2>2, <2>4, <2>5, <2>6 DEF Maps
<1>6. CASE Accepts(r, real)
  BY <1>2, <1>3, <1>4, <1>5, <1>6
<1>7. CASE ~ Accepts(r, real)
  BY <1>3, <1>7
<1> QED BY <1>6, <1>7

LEMMA RegisterKeepsTurns ==
  ASSUME TypeOK, Turns, Maps, NEW r \in Runners, Register(r)
  PROVE  Turns'
<1>1. /\ pc[r] = "register" /\ UNCHANGED <<parent, tree, mine>>
      /\ \A q \in Runners \ {r} : pc'[q] = pc[q] /\ handle'[q] = handle[q]
  BY DEF Register, Goto, TypeOK, TurnTypes
<1>2. \/ /\ pc'[r] = "read"
         /\ \E real \in Ids : /\ handle' = [handle EXCEPT ![r] = real]
                              /\ recorded' = recorded \cup {real}
                              /\ (\E q \in Runners : real = Real(q)) /\ TreeOf(real) = tree[r]
      \/ pc'[r] = "remove" /\ UNCHANGED <<handle, recorded>>
  BY RegisterCases DEF Goto, TypeOK, TurnTypes
<1>3. tree[r] # None /\ mine[r] # None /\ handle[r] # None
  BY <1>1 DEF Turns, Working
<1>4. /\ handle'[r] # None /\ TreeOf(handle[r])' = tree'[r]
      /\ \A i \in recorded' : (\E q \in Runners : i = Real(q)) /\ TreeOf(i)' # None
      /\ recorded \subseteq recorded'
  BY <1>1, <1>2, <1>3, IdFacts DEF Turns, TreeOf, TypeOK, TurnTypes
<1>5. \A q \in Runners : pc'[q] = "idle" <=> tree'[q] = None
  BY <1>1, <1>2, <1>3 DEF Turns
<1>6. \A q, w \in Runners : Active(q)' /\ Active(w)' /\ tree'[q] = tree'[w] => q = w
  BY <1>1 DEF Turns, Active
<1>7. \A q \in Runners : mine'[q] # None => Begun(mine[q])' /\ tree'[mine'[q]] = tree'[q]
  <2>1. \A q \in Runners : Begun(q) => Begun(q)'
    BY <1>1, <1>2 DEF Begun
  <2>2. \A q \in Runners : mine[q] \in Runners \cup {None}
    BY DEF TypeOK, TurnTypes
  <2> QED BY <1>1, <2>1, <2>2 DEF Turns, Begun
<1>8. \A q \in Runners : (Working(q)' => mine'[q] # None /\ handle'[q] # None)
                         /\ (~ Begun(q)' => mine'[q] = None /\ handle'[q] = None)
  BY <1>1, <1>2, <1>3, <1>4 DEF Turns, Begun, Working
<1>9. /\ \A q \in Runners : tree'[q] # None => tree'[tree'[q]] = tree'[q]
      /\ \A q \in Runners : handle'[q] # None => TreeOf(handle[q])' = tree'[q]
      /\ \A q \in Runners : parent'[q] # None =>
           parent'[q] \in recorded' /\ TreeOf(parent[q])' = tree'[q]
  BY <1>1, <1>4 DEF Turns, TreeOf
<1> QED BY <1>4, <1>5, <1>6, <1>7, <1>8, <1>9 DEF Turns

LEMMA TurnsKept ==
  ASSUME TypeOK, Turns, Maps, Holder, [Next]_vars
  PROVE  Turns'
<1>1. ASSUME NEW r \in Runners, Begin(r) \/ GetOrCreate(r) \/ Register(r) PROVE Turns'
  BY <1>1, BeginKeepsTurns, BorrowKeepsTurns, RegisterKeepsTurns
<1>2. ASSUME UNCHANGED <<turnVars, borrowVars>>,
             \/ UNCHANGED pc
             \/ \E r \in Runners, at \in {"read", "handle", "register", "ending", "shield",
                                         "stderr", "remove", "stopping", "done"} :
                  (Working(r) \/ (pc[r] # "idle" /\ at = "done")) /\ Goto(r, at)
      PROVE  Turns'
  <2>1. UNCHANGED <<parent, tree, recorded, mine, handle>>
    BY <1>2 DEF turnVars, borrowVars
  <2>2. \A q \in Runners : /\ Working(q)' => Working(q)
                           /\ Active(q)' => Active(q)
                           /\ Begun(q) => Begun(q)'
                           /\ pc[q] = "idle" <=> pc'[q] = "idle"
    BY <1>2 DEF Goto, Working, Active, Begun, TypeOK, TurnTypes
  <2>3. \A q \in Runners : mine[q] \in Runners \cup {None}
    BY DEF TypeOK, TurnTypes
  <2>4. \A q \in Runners : mine'[q] # None => Begun(mine[q])' /\ tree'[mine'[q]] = tree'[q]
    BY <2>1, <2>2, <2>3 DEF Turns, Begun
  <2>5. \A q, w \in Runners : Active(q)' /\ Active(w)' /\ tree'[q] = tree'[w] => q = w
    BY <2>1, <2>2 DEF Turns
  <2>6. \A q \in Runners : (Working(q)' => mine'[q] # None /\ handle'[q] # None)
                           /\ (~ Begun(q)' => mine'[q] = None /\ handle'[q] = None)
                           /\ (pc'[q] = "idle" <=> tree'[q] = None)
    BY <2>1, <2>2 DEF Turns
  <2> QED BY <2>1, <2>4, <2>5, <2>6 DEF Turns, TreeOf
<1> QED BY <1>1, <1>2, Moves

-----------------------------------------------------------------------------
(***************************************************************************)
(* Maps.                                                                   *)
(***************************************************************************)

\* Steps that leave the maps alone.
LEMMA MapsFrame ==
  ASSUME TypeOK, Turns, Holder, Maps, [Next]_vars, UNCHANGED mapVars
  PROVE  Maps'
<1>1. UNCHANGED <<pending, sessions, realOf, tempOf>>
  BY DEF mapVars
<1>2. \A s \in Runners : Begun(s) => /\ Begun(s)' /\ tree[s] # None /\ tree'[s] = tree[s]
  BY Onward DEF Turns, Begun
<1>3. \A i \in Ids : tree[i[2]] # None => tree'[i[2]] = tree[i[2]]
  BY Onward, IdFacts
<1>4. \A i \in Ids : /\ pending[i] \in Runners \cup {None} /\ sessions[i] \in Runners \cup {None}
                     /\ realOf[i] \in Ids \cup {None}
  BY DEF TypeOK, MapTypes
<1>5. \A i \in Ids : pending'[i] # None =>
        /\ Begun(pending[i])' /\ tree'[pending'[i]] = TreeOf(i)'
        /\ sessions'[i] = None /\ realOf'[i] = None
  BY <1>1, <1>2, <1>3, <1>4 DEF Maps, TreeOf, Begun
<1>6. \A i \in Ids : sessions'[i] # None => Begun(sessions[i])' /\ tree'[sessions'[i]] = TreeOf(i)'
  BY <1>1, <1>2, <1>3, <1>4 DEF Maps, TreeOf, Begun
<1>7. \A i \in Ids : realOf'[i] # None => TreeOf(realOf[i])' = TreeOf(i)'
  <2>1. ASSUME NEW i \in Ids, realOf[i] # None
        PROVE  tree[realOf[i][2]] # None /\ tree[i[2]] = tree[realOf[i][2]] /\ realOf[i] \in Ids
    BY <1>2, <1>4, <2>1 DEF Maps, TreeOf
  <2> QED BY <1>1, <1>3, <2>1 DEF TreeOf
<1> QED BY <1>1, <1>5, <1>6, <1>7 DEF Maps

LEMMA BorrowKeepsMaps ==
  ASSUME TypeOK, Turns, Holder, Maps, NEW r \in Runners, GetOrCreate(r)
  PROVE  Maps'
<1>1. UNCHANGED <<tree, sessions, realOf, tempOf>> /\ [Next]_vars
  BY DEF GetOrCreate, turnVars, Next, RunnerStep
<1>2. CASE UNCHANGED pending
  BY <1>1, <1>2, MapsFrame DEF mapVars
<1>3. ASSUME NEW temp \in Ids,
             TreeOf(temp) = tree[r] /\ \A q \in Runners : temp = Temp(q) => q = r,
             realOf[temp] = None /\ sessions[temp] = None /\ pending[temp] = None,
             pending' = [pending EXCEPT ![temp] = r],
             Borrow(r, r, temp)
      PROVE  Maps'
  <2>1. /\ pending'[temp] = r /\ \A i \in Ids \ {temp} : pending'[i] = pending[i]
        /\ \A i \in Ids : pending[i] \in Runners \cup {None} /\ sessions[i] \in Runners \cup {None}
    BY <1>3 DEF TypeOK, MapTypes
  <2>2. pc[r] = "create" /\ Begun(r)'
    BY <1>3 DEF GetOrCreate, Borrow, Goto, Begun, TypeOK, TurnTypes
  <2>3. \A i \in Ids : pending[i] # r /\ sessions[i] # r
    BY <2>2, IdFacts DEF Maps, Begun
  <2>4. \A s \in Runners : Begun(s) => Begun(s)'
    BY <1>1, Onward
  <2>5. \A i \in Ids : pending'[i] # None =>
          /\ Begun(pending[i])' /\ tree'[pending'[i]] = TreeOf(i)'
          /\ sessions'[i] = None /\ realOf'[i] = None
    BY <1>1, <1>3, <2>1, <2>2, <2>4 DEF Maps, TreeOf, Begun
  <2>6. \A i \in Ids : sessions'[i] # None => Begun(sessions[i])' /\ tree'[sessions'[i]] = TreeOf(i)'
    BY <1>1, <2>1, <2>4 DEF Maps, TreeOf, Begun
  <2>7. \A i, k \in Ids : pending'[i] # None /\ pending'[i] = pending'[k] => i = k
    BY <2>1, <2>3 DEF Maps
  <2>8. \A i, k \in Ids : pending'[i] # None => pending'[i] # sessions'[k]
    BY <1>1, <2>1, <2>3 DEF Maps
  <2>9. \A q \in Runners : pending'[Temp(q)] \in {None, q} /\ sessions'[Temp(q)] = None
    BY <1>1, <1>3, <2>1, IdFacts DEF Maps
  <2>10. \A q \in Runners : realOf'[Temp(q)] # None => sessions'[realOf'[Temp(q)]] = q
    BY <1>1 DEF Maps
  <2> QED BY <1>1, <2>5, <2>6, <2>7, <2>8, <2>9, <2>10 DEF Maps, TreeOf
<1> QED BY <1>2, <1>3, BorrowCases

LEMMA RegisterKeepsMaps ==
  ASSUME TypeOK, Turns, Holder, Maps, NEW r \in Runners, Register(r)
  PROVE  Maps'
<1>1. UNCHANGED tree /\ [Next]_vars
  BY DEF Register, Next, RunnerStep
<1>2. CASE UNCHANGED mapVars
  BY <1>1, <1>2, MapsFrame
<1>3. ASSUME NEW real \in Ids, NEW temp \in Ids,
             pending[temp] \in Runners /\ \E q \in Runners : real = Real(q),
             TreeOf(real) = tree[r] /\ TreeOf(temp) = tree[r],
             realOf[temp] = None /\ sessions[temp] = None,
             tempOf[real] = None /\ sessions[real] = None,
             (real = temp \/ pending[real] = None) /\ realOf[real] = None,
             pending' = [pending EXCEPT ![temp] = None],
             sessions' = [sessions EXCEPT ![real] = pending[temp]],
             realOf' = [realOf EXCEPT ![temp] = real],
             tempOf' = [tempOf EXCEPT ![real] = temp]
      PROVE  Maps'
  <2> DEFINE s == pending[temp]
  <2>1. /\ pending'[temp] = None /\ \A i \in Ids \ {temp} : pending'[i] = pending[i]
        /\ sessions'[real] = s /\ \A i \in Ids \ {real} : sessions'[i] = sessions[i]
        /\ realOf'[temp] = real /\ \A i \in Ids \ {temp} : realOf'[i] = realOf[i]
        /\ tempOf'[real] = temp /\ \A i \in Ids \ {real} : tempOf'[i] = tempOf[i]
    BY <1>3 DEF TypeOK, MapTypes
  <2>2. \A i \in Ids : /\ pending[i] \in Runners \cup {None} /\ sessions[i] \in Runners \cup {None}
                       /\ realOf[i] \in Ids \cup {None} /\ tempOf[i] \in Ids \cup {None}
    BY DEF TypeOK, MapTypes
  <2>3. s # None /\ Begun(s) /\ tree[s] = TreeOf(temp) /\ None \notin Ids
    BY <1>3, IdFacts DEF Maps
  <2>4. \A q \in Runners : Begun(q) => Begun(q)'
    BY <1>1, Onward
  <2>5. \A i \in Ids : pending'[i] # None =>
          /\ Begun(pending[i])' /\ tree'[pending'[i]] = TreeOf(i)'
          /\ sessions'[i] = None /\ realOf'[i] = None
    BY <1>1, <1>3, <2>1, <2>2, <2>4 DEF Maps, TreeOf, Begun
  <2>6. \A i \in Ids : sessions'[i] # None => Begun(sessions[i])' /\ tree'[sessions'[i]] = TreeOf(i)'
    BY <1>1, <1>3, <2>1, <2>2, <2>3, <2>4 DEF Maps, TreeOf, Begun
  <2>7. \A i, k \in Ids : pending'[i] # None /\ pending'[i] = pending'[k] => i = k
    BY <2>1 DEF Maps
  <2>8. \A i, k \in Ids : sessions'[i] # None /\ sessions'[i] = sessions'[k] => i = k
    BY <2>1, <2>3 DEF Maps
  <2>9. \A i, k \in Ids : pending'[i] # None => pending'[i] # sessions'[k]
    BY <2>1, <2>3 DEF Maps
  <2>10. \A i \in Ids : sessions'[i] # None <=> tempOf'[i] # None
    BY <2>1, <2>3 DEF Maps
  <2>11. \A i, k \in Ids : realOf'[i] = k <=> tempOf'[k] = i
    BY <1>3, <2>1, <2>3 DEF Maps
  <2>12. \A i \in Ids : realOf'[i] \notin {None, i} => sessions'[i] = None
    BY <1>3, <2>1, <2>3 DEF Maps
  <2>13. \A i \in Ids : realOf'[i] # None => TreeOf(realOf[i])' = TreeOf(i)'
    BY <1>1, <1>3, <2>1, <2>2 DEF Maps, TreeOf
  <2>14. \A q \in Runners : pending'[Temp(q)] \in {None, q} /\ sessions'[Temp(q)] = None
    BY <1>3, <2>1, IdFacts DEF Maps
  <2>15. \A q \in Runners : realOf'[Temp(q)] # None => sessions'[realOf'[Temp(q)]] = q
    <3>1. ASSUME NEW q \in Runners, realOf[Temp(q)] # None
          PROVE  realOf[Temp(q)] \in Ids \ {real} /\ sessions[realOf[Temp(q)]] = q
      BY <1>3, <2>2, <3>1, IdFacts DEF Maps
    <3>2. \A q \in Runners : temp = Temp(q) => s = q
      BY <1>3, <2>3 DEF Maps
    <3> QED BY <2>1, <3>1, <3>2, IdFacts
  <2> QED
    BY <2>5, <2>6, <2>7, <2>8, <2>9, <2>10, <2>11, <2>12, <2>13, <2>14, <2>15 DEF Maps
<1> QED BY <1>2, <1>3, RegisterCases

\* What the end of a stop() does to the maps: a session is forgotten only when it is
\* closed and its process is gone.
LEMMA StopCases ==
  ASSUME TypeOK, Holder, StopSession \/ StopSessionEnds
  PROVE  /\ target \in Runners
         /\ UNCHANGED <<turnVars, borrowVars, streaming, shield, process, alive>>
         /\ \/ UNCHANGED <<mapVars, closing>>
            \/ Forget(target) /\ target \in closed' /\ process[target] \notin alive
<1>1. target \in Runners
  BY DEF StopSession, StopSessionEnds, Holder, TypeOK, LockTypes
<1>2. CASE StopSession
  BY <1>1, <1>2 DEF StopSession, StopBegins, Running, StopReturns, Retain
<1>3. CASE StopSessionEnds
  <2>1. target \in closed'
    BY <1>3 DEF StopSessionEnds, Holder, sessionVars
  <2>2. UNCHANGED <<mapVars, closing>> \/ (Forget(target) /\ ~ Running(target))
    BY <1>3 DEF StopSessionEnds, ExitConfirmed, StopReturns, Retain
  <2>3. UNCHANGED <<turnVars, borrowVars, streaming, shield, process, alive>>
    BY <1>3 DEF StopSessionEnds, ExitConfirmed, StopRaises, sessionVars
  <2> QED BY <1>1, <2>1, <2>2, <2>3 DEF Running
<1> QED BY <1>2, <1>3

\* The steps that change the maps.
LEMMA MapSteps ==
  ASSUME [Next]_vars
  PROVE  \/ UNCHANGED <<mapVars, closing>>
         \/ \E r \in Runners : GetOrCreate(r) \/ Register(r) \/ Remove(r)
         \/ StopSession \/ StopSessionEnds \/ StopAll
<1> DEFINE P == \/ UNCHANGED <<mapVars, closing>>
                \/ \E r \in Runners : GetOrCreate(r) \/ Register(r) \/ Remove(r)
                \/ StopSession \/ StopSessionEnds \/ StopAll
<1>1. ASSUME NEW r \in Runners, Begin(r) \/ Launch(r) \/ LaunchFails(r) \/ Event(r) PROVE P
  BY <1>1 DEF Begin, Launch, LaunchFails, Event
<1>2. ASSUME NEW r \in Runners, ReadEnd(r) \/ StreamEnd(r) \/ StderrEnd(r) \/ CloseGenerator(r)
      PROVE  P
  BY <1>2 DEF ReadEnd, StreamEnd, StderrEnd, CloseGenerator, Unwind
<1>3. ASSUME NEW r \in Runners, ShieldBegins(r) \/ ShieldEnds(r) \/ Cancel(r) \/ Exit(r) PROVE P
  BY <1>3 DEF ShieldBegins, ShieldEnds, Cancel, Exit
<1>4. ASSUME StopAllNext \/ StopAllReturns \/ UNCHANGED vars PROVE P
  BY <1>4 DEF StopAllNext, StopAllReturns, vars
<1>5. ASSUME NEW r \in Runners, GetOrCreate(r) \/ Register(r) \/ Remove(r) PROVE P
  BY <1>5
<1>6. (StopSession \/ StopSessionEnds \/ StopAll) => P
  OBVIOUS
<1> HIDE DEF P
<1>7. P
  BY <1>1, <1>2, <1>3, <1>4, <1>5, <1>6 DEF Next, RunnerStep, ManagerStep, Done
<1> QED BY <1>7 DEF P

LEMMA ForgetKeepsMaps ==
  ASSUME TypeOK, Turns, Holder, Maps, [Next]_vars, UNCHANGED tree, NEW s \in Runners, Forget(s)
  PROVE  Maps'
<1>1. s # None /\ None \notin Ids
  BY IdFacts
<1>2. \A i \in Ids :
        /\ pending'[i] = IF pending[i] = s THEN None ELSE pending[i]
        /\ sessions'[i] = IF sessions[i] = s THEN None ELSE sessions[i]
        /\ tempOf'[i] = IF sessions[i] = s THEN None ELSE tempOf[i]
  BY DEF Forget
<1>3. \A i \in Ids : realOf'[i] = IF \E k \in Ids : sessions[k] = s /\ tempOf[k] = i THEN None
                                  ELSE realOf[i]
  BY DEF Forget, KeysOf
<1>4. \A i \in Ids : /\ pending[i] \in Runners \cup {None} /\ sessions[i] \in Runners \cup {None}
                     /\ realOf[i] \in Ids \cup {None} /\ tempOf[i] \in Ids \cup {None}
  BY DEF TypeOK, MapTypes
<1>5. \A q \in Runners : Begun(q) => Begun(q)'
  BY Onward
\* An id stays an alias exactly as long as its session is known.
<1>6. \A i \in Ids : realOf'[i] = IF realOf[i] # None /\ sessions[realOf[i]] = s THEN None
                                  ELSE realOf[i]
  BY <1>1, <1>3, <1>4 DEF Maps
<1>7. \A i \in Ids : pending'[i] # None =>
        /\ Begun(pending[i])' /\ tree'[pending'[i]] = TreeOf(i)'
        /\ sessions'[i] = None /\ realOf'[i] = None
  BY <1>2, <1>4, <1>5, <1>6 DEF Maps, TreeOf, Begun
<1>8. \A i \in Ids : sessions'[i] # None => Begun(sessions[i])' /\ tree'[sessions'[i]] = TreeOf(i)'
  BY <1>2, <1>4, <1>5 DEF Maps, TreeOf, Begun
<1>9. /\ \A i, k \in Ids : pending'[i] # None /\ pending'[i] = pending'[k] => i = k
      /\ \A i, k \in Ids : sessions'[i] # None /\ sessions'[i] = sessions'[k] => i = k
      /\ \A i, k \in Ids : pending'[i] # None => pending'[i] # sessions'[k]
  BY <1>1, <1>2 DEF Maps
<1>10. \A i \in Ids : sessions'[i] # None <=> tempOf'[i] # None
  BY <1>1, <1>2 DEF Maps
<1>11. \A i, k \in Ids : realOf'[i] = k <=> tempOf'[k] = i
  BY <1>1, <1>2, <1>6 DEF Maps
<1>12. /\ \A i \in Ids : realOf'[i] \notin {None, i} => sessions'[i] = None
       /\ \A i \in Ids : realOf'[i] # None => TreeOf(realOf[i])' = TreeOf(i)'
  BY <1>1, <1>2, <1>6 DEF Maps, TreeOf
<1>13. \A q \in Runners : /\ pending'[Temp(q)] \in {None, q} /\ sessions'[Temp(q)] = None
                          /\ realOf'[Temp(q)] # None => sessions'[realOf'[Temp(q)]] = q
  BY <1>1, <1>2, <1>4, <1>6, IdFacts DEF Maps
<1> QED BY <1>7, <1>8, <1>9, <1>10, <1>11, <1>12, <1>13 DEF Maps

LEMMA MapsKept ==
  ASSUME TypeOK, Turns, Holder, Maps, [Next]_vars
  PROVE  Maps'
<1>1. CASE UNCHANGED mapVars
  BY <1>1, MapsFrame
<1>2. CASE \E r \in Runners : GetOrCreate(r) \/ Register(r)
  BY <1>2, BorrowKeepsMaps, RegisterKeepsMaps
<1>3. CASE StopSession \/ StopSessionEnds
  <2>1. UNCHANGED tree
    BY <1>3, StopCases DEF turnVars
  <2> QED BY <1>1, <1>3, <2>1, StopCases, ForgetKeepsMaps
<1>4. (\E r \in Runners : Remove(r)) \/ StopAll => UNCHANGED mapVars
  BY DEF Remove, StopAll
<1> QED BY <1>1, <1>2, <1>3, <1>4, MapSteps

-----------------------------------------------------------------------------
(***************************************************************************)
(* Handles.                                                                *)
(***************************************************************************)

\* A session of another conversation is not found, whatever happens in this one.
LEMMA BorrowChanges ==
  ASSUME TypeOK, Turns, Maps, NEW r \in Runners, GetOrCreate(r)
  PROVE  /\ \A i \in Ids : TreeOf(i) # tree[r] => SessionForId(i)' = SessionForId(i)
         /\ Known' \in {Known, Known \cup {r}} /\ closing' = closing
         /\ pc'[r] = "enter" => /\ mine'[r] \in Known' /\ handle'[r] \in Ids
                                /\ SessionForId(handle[r])' = mine'[r]
         /\ pc'[r] = "done" => mine'[r] = mine[r]
<1>1. UNCHANGED <<sessions, realOf, tempOf, closing>>
  BY DEF GetOrCreate
<1>2. CASE UNCHANGED pending
  <2>1. Known' = Known /\ \A i : SessionForId(i)' = SessionForId(i)
    BY <1>1, <1>2, MapsUnchanged DEF mapVars
  <2>2. /\ pc'[r] = "enter" => /\ mine'[r] \in Known /\ handle'[r] \in Ids
                               /\ SessionForId(handle'[r]) = mine'[r]
        /\ pc'[r] = "done" => mine'[r] = mine[r]
    BY BorrowCases, <1>2, IdFacts DEF Borrow, Goto, TypeOK, TurnTypes, MapTypes
  <2> QED BY <1>1, <1>2, <2>1, <2>2 DEF SessionForId, LookupId
<1>3. ASSUME NEW temp \in Ids,
             TreeOf(temp) = tree[r],
             realOf[temp] = None /\ sessions[temp] = None /\ pending[temp] = None,
             pending' = [pending EXCEPT ![temp] = r],
             Borrow(r, r, temp)
      PROVE  /\ \A i \in Ids : TreeOf(i) # tree[r] => SessionForId(i)' = SessionForId(i)
             /\ Known' = Known \cup {r}
             /\ pc'[r] = "enter" /\ mine'[r] = r /\ handle'[r] = temp
             /\ SessionForId(handle[r])' = r
  <2>1. /\ pending'[temp] = r /\ \A i \in Ids \ {temp} : pending'[i] = pending[i]
        /\ pc'[r] = "enter" /\ mine'[r] = r /\ handle'[r] = temp
    BY <1>3 DEF TypeOK, MapTypes, TurnTypes, Borrow, Goto
  <2>2. \A s : s \in Known' <=> s \in Runners /\ \E i \in Ids : pending'[i] = s \/ sessions'[i] = s
    BY DEF Known, KeysOf
  <2>3. Known' = Known \cup {r}
    <3>1. ASSUME NEW s \in Known' PROVE s \in Known \cup {r}
      BY <1>1, <2>1, <2>2, <3>1, KnownFacts
    <3>2. ASSUME NEW s \in Known \cup {r} PROVE s \in Known'
      BY <1>1, <1>3, <2>1, <2>2, <3>2, KnownFacts, IdFacts
    <3> QED BY <3>1, <3>2
  <2>4. \A i \in Ids : TreeOf(i) # tree[r] => SessionForId(i)' = SessionForId(i)
    <3>1. ASSUME NEW i \in Ids, TreeOf(i) # tree[r] PROVE LookupId(i) \in Ids \ {temp}
      BY <1>3, <3>1, LookupFacts
    <3> QED BY <1>1, <2>1, <3>1 DEF SessionForId, LookupId
  <2>5. SessionForId(handle[r])' = r
    BY <1>1, <1>3, <2>1, IdFacts DEF SessionForId, LookupId
  <2> QED BY <2>1, <2>3, <2>4, <2>5
<1>4. CASE \E temp \in Ids :
             /\ TreeOf(temp) = tree[r]
             /\ realOf[temp] = None /\ sessions[temp] = None /\ pending[temp] = None
             /\ pending' = [pending EXCEPT ![temp] = r]
             /\ Borrow(r, r, temp)
  BY <1>1, <1>3, <1>4
<1> QED BY <1>2, <1>4, BorrowCases

LEMMA RegisterChanges ==
  ASSUME TypeOK, Turns, Maps, NEW r \in Runners, Register(r)
  PROVE  /\ \A i \in Ids : TreeOf(i) # tree[r] => SessionForId(i)' = SessionForId(i)
         /\ Known' = Known /\ closing' = closing /\ mine' = mine
         /\ SessionForId(handle[r])' = SessionForId(handle[r])
<1>1. UNCHANGED <<closing, mine, tree>> /\ Working(r)
  BY DEF Register, Working
<1>2. CASE UNCHANGED <<mapVars, handle>>
  BY <1>1, <1>2, MapsUnchanged DEF SessionForId, LookupId, mapVars
<1>3. ASSUME NEW real \in Ids, NEW temp \in Ids,
             temp = handle[r], pending[temp] \in Runners,
             TreeOf(real) = tree[r] /\ TreeOf(temp) = tree[r],
             realOf[temp] = None /\ sessions[temp] = None /\ sessions[real] = None,
             (real = temp \/ pending[real] = None) /\ realOf[real] = None,
             pending' = [pending EXCEPT ![temp] = None],
             sessions' = [sessions EXCEPT ![real] = pending[temp]],
             realOf' = [realOf EXCEPT ![temp] = real],
             handle' = [handle EXCEPT ![r] = real]
      PROVE  /\ \A i \in Ids : TreeOf(i) # tree[r] => SessionForId(i)' = SessionForId(i)
             /\ Known' = Known
             /\ SessionForId(handle[r])' = SessionForId(handle[r])
  <2> DEFINE s == pending[temp]
  <2>1. /\ pending'[temp] = None /\ \A i \in Ids \ {temp} : pending'[i] = pending[i]
        /\ sessions'[real] = s /\ \A i \in Ids \ {real} : sessions'[i] = sessions[i]
        /\ realOf'[temp] = real /\ \A i \in Ids \ {temp} : realOf'[i] = realOf[i]
        /\ handle'[r] = real
    BY <1>3 DEF TypeOK, MapTypes, TurnTypes
  <2>2. \A q : q \in Known' <=> q \in Runners /\ \E i \in Ids : pending'[i] = q \/ sessions'[i] = q
    BY DEF Known, KeysOf
  <2>3. Known' = Known
    <3>1. ASSUME NEW q \in Known' PROVE q \in Known
      BY <1>3, <2>1, <2>2, <3>1, KnownFacts, IdFacts
    <3>2. ASSUME NEW q \in Known PROVE q \in Known'
      BY <1>3, <2>1, <2>2, <3>2, KnownFacts, IdFacts
    <3> QED BY <3>1, <3>2
  <2>4. \A i \in Ids : TreeOf(i) # tree[r] => SessionForId(i)' = SessionForId(i)
    <3>1. ASSUME NEW i \in Ids, TreeOf(i) # tree[r]
          PROVE  LookupId(i) \in Ids \ {temp, real} /\ i \notin {temp, real}
      BY <1>3, <3>1, LookupFacts
    <3> QED BY <2>1, <3>1 DEF SessionForId, LookupId
  <2>5. SessionForId(temp) = s /\ s # None
    BY <1>3, IdFacts DEF SessionForId, LookupId
  <2>6. realOf'[real] \in {None, real}
    BY <1>3, <2>1
  <2>7. SessionForId(handle[r])' = s
    BY <2>1, <2>5, <2>6 DEF SessionForId, LookupId
  <2> QED BY <1>3, <2>3, <2>4, <2>5, <2>7
<1>4. CASE \E real \in Ids :
             LET temp == handle[r] IN
             /\ temp \in Ids /\ pending[temp] \in Runners
             /\ TreeOf(real) = tree[r] /\ TreeOf(temp) = tree[r]
             /\ realOf[temp] = None /\ sessions[temp] = None /\ sessions[real] = None
             /\ real = temp \/ pending[real] = None
             /\ realOf[real] = None
             /\ pending' = [pending EXCEPT ![temp] = None]
             /\ sessions' = [sessions EXCEPT ![real] = pending[temp]]
             /\ realOf' = [realOf EXCEPT ![temp] = real]
             /\ handle' = [handle EXCEPT ![r] = real]
  BY <1>1, <1>3, <1>4
<1> QED BY <1>2, <1>4, RegisterCases

LEMMA ClosedStays ==
  ASSUME [Next]_vars
  PROVE  closed \subseteq closed'
<1>1. ASSUME NEW r \in Runners, Begin(r) \/ GetOrCreate(r) \/ Register(r) \/ Remove(r)
      PROVE  closed' = closed
  BY <1>1 DEF Begin, GetOrCreate, Register, Remove, sessionVars
<1>2. ASSUME NEW r \in Runners, Launch(r) \/ LaunchFails(r) \/ Event(r) \/ Cancel(r) \/ Exit(r)
      PROVE  closed' = closed
  BY <1>2 DEF Launch, LaunchFails, Event, Cancel, Exit, sessionVars
<1>3. ASSUME NEW r \in Runners, ReadEnd(r) \/ StreamEnd(r) \/ StderrEnd(r) \/ CloseGenerator(r)
      PROVE  closed' = closed
  BY <1>3 DEF ReadEnd, StreamEnd, StderrEnd, CloseGenerator, Unwind, sessionVars
<1>4. ASSUME NEW r \in Runners, ShieldBegins(r) \/ ShieldEnds(r) PROVE closed \subseteq closed'
  BY <1>4 DEF ShieldBegins, ShieldEnds, StopBegins, sessionVars
<1>5. ASSUME StopSession \/ StopSessionEnds PROVE closed \subseteq closed'
  BY <1>5 DEF StopSession, StopSessionEnds, StopBegins, sessionVars
<1>6. ASSUME StopAll \/ StopAllNext \/ StopAllReturns \/ UNCHANGED vars PROVE closed' = closed
  BY <1>6 DEF StopAll, StopAllNext, StopAllReturns, vars, sessionVars
<1> QED BY <1>1, <1>2, <1>3, <1>4, <1>5, <1>6 DEF Next, RunnerStep, ManagerStep, Done

LEMMA HandlesKept ==
  ASSUME TypeOK, Turns, Maps, Handles, Holder, [Next]_vars
  PROVE  Handles'
<1>1. closed \subseteq closed'
  BY ClosedStays
<1>2. \A q \in Runners : /\ mine[q] \in Runners \cup {None} /\ handle[q] \in Ids \cup {None}
                         /\ mine[q] # None => Begun(mine[q])
                         /\ Working(q) => mine[q] # None /\ handle[q] \in Ids
                         /\ Working(q) => Active(q) /\ TreeOf(handle[q]) = tree[q]
  BY DEF Turns, TypeOK, TurnTypes, Working, Active
<1>3. ASSUME NEW r \in Runners, GetOrCreate(r) PROVE Handles'
  <2>1. /\ pc[r] = "create" /\ Active(r) /\ ~ Begun(r) /\ mine[r] = None
        /\ UNCHANGED <<tree, closed>>
    BY <1>3 DEF GetOrCreate, Active, Begun, Turns, turnVars, sessionVars
  <2>2. /\ \A q \in Runners \ {r} : pc'[q] = pc[q] /\ mine'[q] = mine[q] /\ handle'[q] = handle[q]
        /\ pc'[r] \in {"enter", "done"}
    BY <1>3 DEF GetOrCreate, Borrow, Goto, TypeOK, TurnTypes, borrowVars
  <2>3. \A q \in Runners \ {r} : mine[q] # r
    BY <1>2, <2>1, IdFacts
  <2>4. \A q \in Runners \ {r} : Working(q) => TreeOf(handle[q]) # tree[r]
    BY <1>2, <2>1 DEF Turns
  <2>5. \A q \in Runners \ {r} : Working(q) => SessionForId(handle[q])' = SessionForId(handle[q])
    BY <1>2, <1>3, <2>2, <2>4, BorrowChanges DEF SessionForId, LookupId
  <2>6. /\ Known' \in {Known, Known \cup {r}}
        /\ pc'[r] = "enter" => mine'[r] \in Known' /\ SessionForId(handle[r])' = mine'[r]
        /\ pc'[r] = "done" => mine'[r] = mine[r]
    BY <1>3, BorrowChanges
  <2>7. \A q \in Runners : Working(q)' =>
          SessionForId(handle[q])' = IF mine'[q] \in Known' THEN mine'[q] ELSE None
    BY <2>2, <2>3, <2>5, <2>6 DEF Handles, Working
  <2>8. \A q \in Runners : mine'[q] # None => mine'[q] \in Known' \cup closed'
    BY <1>1, <2>1, <2>2, <2>6 DEF Handles
  <2> QED BY <2>7, <2>8 DEF Handles
<1>4. ASSUME NEW r \in Runners, Register(r) PROVE Handles'
  <2>1. /\ pc[r] = "register" /\ Active(r) /\ Working(r)
        /\ \A q \in Runners \ {r} : pc'[q] = pc[q] /\ handle'[q] = handle[q]
    BY <1>4 DEF Register, Goto, Active, Working, TypeOK, TurnTypes
  <2>2. Known' = Known /\ mine' = mine /\ SessionForId(handle[r])' = SessionForId(handle[r])
    BY <1>4, RegisterChanges
  <2>3. \A q \in Runners \ {r} : Working(q) => TreeOf(handle[q]) # tree[r]
    BY <1>2, <2>1 DEF Turns
  <2>4. \A q \in Runners \ {r} : Working(q) => SessionForId(handle[q])' = SessionForId(handle[q])
    BY <1>2, <1>4, <2>1, <2>3, RegisterChanges DEF SessionForId, LookupId
  <2>5. \A q \in Runners : Working(q)' => Working(q)
    BY <2>1 DEF Working
  <2>6. \A q \in Runners : Working(q)' =>
          SessionForId(handle[q])' = IF mine'[q] \in Known' THEN mine'[q] ELSE None
    BY <2>2, <2>4, <2>5 DEF Handles
  <2> QED BY <1>1, <2>2, <2>6 DEF Handles
<1>5. ASSUME UNCHANGED <<mine, handle>>,
             \A q \in Runners : Working(q)' => Working(q),
             \/ Known' = Known /\ \A i \in Ids : SessionForId(i)' = SessionForId(i)
             \/ \E s \in Runners : Forget(s) /\ s \in closed'
      PROVE  Handles'
  <2>1. CASE Known' = Known /\ \A i \in Ids : SessionForId(i)' = SessionForId(i)
    <3>1. \A q \in Runners : Working(q) => SessionForId(handle[q])' = SessionForId(handle[q])
      BY <1>2, <1>5, <2>1 DEF SessionForId, LookupId
    <3> QED BY <1>1, <1>5, <2>1, <3>1 DEF Handles
  <2>2. ASSUME NEW s \in Runners, Forget(s), s \in closed' PROVE Handles'
    <3>1. /\ Known' = Known \ {s} /\ s # None
          /\ \A i \in Ids : SessionForId(i)' = IF SessionForId(i) = s THEN None ELSE SessionForId(i)
      BY <2>2, ForgetFacts, IdFacts
    <3>2. \A q \in Runners : Working(q) =>
            SessionForId(handle[q])' = IF SessionForId(handle[q]) = s THEN None
                                       ELSE SessionForId(handle[q])
      BY <1>2, <1>5, <3>1 DEF SessionForId, LookupId
    <3>3. \A q \in Runners : Working(q)' =>
            SessionForId(handle[q])' = IF mine'[q] \in Known' THEN mine'[q] ELSE None
      BY <1>2, <1>5, <3>1, <3>2 DEF Handles
    <3> QED BY <1>1, <1>5, <2>2, <3>1, <3>3 DEF Handles
  <2> QED BY <1>5, <2>1, <2>2
<1>6. ASSUME NEW r \in Runners, Begin(r) PROVE Handles'
  <2>1. /\ UNCHANGED <<mine, handle>> /\ \A q \in Runners : Working(q)' => Working(q)
        /\ UNCHANGED mapVars
    BY <1>6 DEF Begin, Goto, Working, TypeOK, TurnTypes, borrowVars
  <2> QED BY <1>5, <2>1, MapsUnchanged
<1>7. ASSUME UNCHANGED <<turnVars, borrowVars>>, UNCHANGED pc
                \/ \E r \in Runners, at \in {"read", "handle", "register", "ending", "shield",
                                            "stderr", "remove", "stopping", "done"} :
                     (Working(r) \/ (pc[r] # "idle" /\ at = "done")) /\ Goto(r, at),
             ~ \E r \in Runners : GetOrCreate(r) \/ Register(r)
      PROVE  Handles'
  <2>1. /\ UNCHANGED <<mine, handle>> /\ \A q \in Runners : Working(q)' => Working(q)
    BY <1>7 DEF Goto, Working, TypeOK, TurnTypes, borrowVars
  <2>2. UNCHANGED mapVars \/ \E s \in Runners : Forget(s) /\ s \in closed'
    BY <1>7, MapSteps, StopCases DEF Remove, StopAll
  <2> QED BY <1>5, <2>1, <2>2, MapsUnchanged
<1> QED BY <1>3, <1>4, <1>6, <1>7, Moves

-----------------------------------------------------------------------------
(***************************************************************************)
(* The manager lock.                                                       *)
(***************************************************************************)
LEMMA HolderKept ==
  ASSUME TypeOK, Turns, Maps, Handles, Holder, [Next]_vars
  PROVE  Holder'
<1> USE IdFacts
<1>1. \A r \in Runners : lock' = r <=> pc'[r] = "stopping"
  <2> DEFINE P == \A r \in Runners : lock' = r <=> pc'[r] = "stopping"
  <2>1. ASSUME NEW r \in Runners, Begin(r) \/ GetOrCreate(r) \/ Register(r) PROVE P
    BY <2>1 DEF Begin, GetOrCreate, Register, Borrow, Goto, Holder, TypeOK, TurnTypes, lockVars
  <2>2. ASSUME NEW r \in Runners, Launch(r) \/ LaunchFails(r) \/ Event(r) \/ Exit(r) PROVE P
    BY <2>2 DEF Launch, LaunchFails, Event, Exit, Goto, Holder, TypeOK, TurnTypes, lockVars
  <2>3. ASSUME NEW r \in Runners, ReadEnd(r) \/ StreamEnd(r) \/ StderrEnd(r) \/ CloseGenerator(r)
        PROVE  P
    BY <2>3 DEF ReadEnd, StreamEnd, StderrEnd, CloseGenerator, Unwind, Goto, Holder, TypeOK,
                TurnTypes, lockVars
  <2>4. ASSUME NEW r \in Runners, ShieldBegins(r) \/ ShieldEnds(r) PROVE P
    BY <2>4 DEF ShieldBegins, ShieldEnds, ShieldGoto, Goto, Holder, TypeOK, TurnTypes, lockVars
  <2>5. ASSUME NEW r \in Runners, Remove(r) PROVE P
    BY <2>5 DEF Remove, Goto, Holder, TypeOK, TurnTypes
  <2>6. ASSUME NEW r \in Runners, Cancel(r) PROVE P
    BY <2>6 DEF Cancel, Goto, Holder, TypeOK, TurnTypes
  <2>7. ASSUME StopSession \/ StopSessionEnds PROVE P
    <3>1. \/ UNCHANGED <<pc, lock>>
          \/ lock \in Runners /\ lock' = None /\ Goto(lock, "done")
      BY <2>7 DEF StopSession, StopSessionEnds, StopReturns
    <3> QED BY <3>1 DEF Goto, Holder, TypeOK, TurnTypes
  <2>8. ASSUME StopAll \/ StopAllNext \/ StopAllReturns \/ UNCHANGED vars PROVE P
    BY <2>8 DEF StopAll, StopAllNext, StopAllReturns, Holder, vars, lockVars
  <2> HIDE DEF P
  <2>9. P
    BY <2>1, <2>2, <2>3, <2>4, <2>5, <2>6, <2>7, <2>8 DEF Next, RunnerStep, ManagerStep, Done
  <2> QED BY <2>9 DEF P
<1>2. closing' \subseteq Known'
  <2>1. CASE UNCHANGED <<mapVars, closing>>
    BY <2>1, MapsUnchanged DEF Holder
  <2>2. ASSUME NEW r \in Runners, GetOrCreate(r) \/ Register(r) PROVE closing' \subseteq Known'
    BY <2>2, BorrowChanges, RegisterChanges DEF Holder
  <2>3. ASSUME NEW r \in Runners, Remove(r) PROVE closing' \subseteq Known'
    <3>1. handle[r] \in Ids
      BY <2>3 DEF Remove, Working, Turns, TypeOK, TurnTypes
    <3>2. closing' \subseteq closing \cup {SessionForId(handle[r])} /\ Known' = Known
          /\ (SessionForId(handle[r]) = None => closing' = closing)
      BY <2>3, MapsUnchanged DEF Remove
    <3> QED BY <3>1, <3>2, LookupFacts DEF Holder
  <2>4. CASE StopSession \/ StopSessionEnds
    BY <2>1, <2>4, StopCases, ForgetFacts DEF Holder
  <2>5. ASSUME StopAll PROVE closing' \subseteq Known'
    BY <2>5, MapsUnchanged DEF StopAll, StopAllScope, Holder
  <2> QED BY <2>1, <2>2, <2>3, <2>4, <2>5, MapSteps
<1>3. closed \subseteq closed'
  BY ClosedStays
<1>4. /\ target' # None => lock' # None
      /\ killing' => target' # None /\ target' \in closed'
      /\ lock' = Manager /\ ~ failed' => Known' \subseteq todo' \cup {target'}
  <2> DEFINE P == /\ target' # None => lock' # None
                  /\ killing' => target' # None /\ target' \in closed'
                  /\ lock' = Manager /\ ~ failed' => Known' \subseteq todo' \cup {target'}
  <2>1. ASSUME NEW r \in Runners, GetOrCreate(r) \/ Register(r) PROVE P
    BY <1>3, <2>1 DEF GetOrCreate, Register, Holder, lockVars
  <2>2. ASSUME UNCHANGED <<lock, target, todo, failed, killing>>, Known' = Known PROVE P
    BY <1>3, <2>2 DEF Holder
  <2>3. ASSUME NEW r \in Runners,
               \/ Begin(r) \/ Launch(r) \/ LaunchFails(r) \/ Event(r) \/ Exit(r) \/ ReadEnd(r)
               \/ StreamEnd(r) \/ StderrEnd(r) \/ CloseGenerator(r) \/ ShieldBegins(r)
               \/ ShieldEnds(r)
        PROVE  P
    <3>1. UNCHANGED <<lockVars, mapVars>>
      BY <2>3 DEF Begin, Launch, LaunchFails, Event, Exit, ReadEnd, StreamEnd, StderrEnd,
                  CloseGenerator, Unwind, ShieldBegins, ShieldEnds
    <3> QED BY <2>2, <3>1, MapsUnchanged DEF lockVars
  <2>4. ASSUME NEW r \in Runners, Remove(r) PROVE P
    BY <2>2, <2>4, MapsUnchanged DEF Remove, Holder
  <2>5. ASSUME NEW r \in Runners, Cancel(r) PROVE P
    BY <2>2, <2>5, MapsUnchanged DEF Cancel
  <2>6. ASSUME StopSession \/ StopSessionEnds PROVE P
    <3>1. CASE killing' /\ UNCHANGED <<mapVars, lock, target, todo, failed>> /\ target \in closed'
      BY <1>3, <3>1, StopCases, <2>6, MapsUnchanged DEF Holder
    <3>2. ASSUME StopReturns(TRUE), target \in closed' PROVE P
      <4>1. /\ Known' \subseteq Known \ {target} /\ target' = None /\ ~ killing'
            /\ \/ lock = Manager /\ failed' = (failed \/ ~ TRUE) /\ UNCHANGED <<lock, todo>>
               \/ lock' = None
        BY <2>6, <3>2, StopCases, ForgetFacts DEF StopReturns, Retain
      <4> QED BY <4>1 DEF Holder
    <3>3. ASSUME StopReturns(FALSE) PROVE P
      BY <3>3 DEF StopReturns
    <3>4. CASE StopSession
      <4>1. target \in closed'
        BY <3>4 DEF StopSession, StopBegins
      <4> QED BY <3>1, <3>2, <3>4, <4>1 DEF StopSession
    <3>5. CASE StopSessionEnds
      <4>1. target \in closed'
        BY <1>3, <3>5 DEF StopSessionEnds, Holder
      <4> QED BY <3>2, <3>3, <3>5, <4>1 DEF StopSessionEnds
    <3> QED BY <2>6, <3>4, <3>5
  <2>7. ASSUME StopAll PROVE P
    BY <1>3, <2>7, MapsUnchanged DEF StopAll, StopAllScope, Holder
  <2>8. ASSUME StopAllNext PROVE P
    <3>1. Known' = Known /\ UNCHANGED <<lock, failed, killing, closed>> /\ lock = Manager
      BY <2>8, MapsUnchanged DEF StopAllNext, sessionVars
    <3>2. PICK s \in todo : target' = s /\ todo' = todo \ {s}
      BY <2>8 DEF StopAllNext
    <3>3. target = None /\ None \notin Known
      BY <2>8, KnownFacts DEF StopAllNext
    <3> QED BY <3>1, <3>2, <3>3 DEF Holder
  <2>9. ASSUME StopAllReturns PROVE P
    BY <2>9 DEF StopAllReturns, Holder
  <2>10. ASSUME UNCHANGED vars PROVE P
    BY <2>2, <2>10, MapsUnchanged DEF vars, lockVars
  <2> HIDE DEF P
  <2>11. P
    BY <2>1, <2>3, <2>4, <2>5, <2>6, <2>7, <2>8, <2>9, <2>10
       DEF Next, RunnerStep, ManagerStep, Done
  <2> QED BY <2>11 DEF P
<1> QED BY <1>1, <1>2, <1>4 DEF Holder

-----------------------------------------------------------------------------
(***************************************************************************)
(* The locks of a session, and its process.                                *)
(***************************************************************************)

\* Only closed sessions have their lifecycle lock held between two steps.
LEMMA LifecycleHeld ==
  ASSUME Holder, Locks, NEW s \in Runners, ~ LifecycleFree(s)
  PROVE  s \in closed
BY DEF Holder, Locks, LifecycleFree

\* A runner borrows once.
LEMMA Borrowed ==
  ASSUME TypeOK, Turns, Holder, [Next]_vars
  PROVE  \A r \in Runners : mine[r] # None => mine'[r] = mine[r]
<1>1. ASSUME NEW r \in Runners, GetOrCreate(r)
      PROVE  \A q \in Runners : mine[q] # None => mine'[q] = mine[q]
  <2>1. mine[r] = None
    BY <1>1 DEF GetOrCreate, Turns, Begun
  <2> QED BY <1>1, <2>1 DEF GetOrCreate, Borrow, TypeOK, TurnTypes, borrowVars
<1>2. ASSUME NEW r \in Runners, Begin(r) \/ Register(r) PROVE mine' = mine
  BY <1>2 DEF Begin, Register, borrowVars
<1> QED BY <1>1, <1>2, Moves DEF borrowVars

LEMMA LocksKept ==
  ASSUME TypeOK, Turns, Holder, Locks, [Next]_vars
  PROVE  Locks'
<1>0. /\ closed \subseteq closed'
      /\ \A r \in Runners : Begun(r) => Begun(r)'
      /\ \A r \in Runners : mine[r] # None => mine'[r] = mine[r]
      /\ \A r \in Runners : mine[r] \in Runners \cup {None}
      /\ \A r \in Runners : Working(r) => mine[r] # None
  BY ClosedStays, Onward, Borrowed DEF TypeOK, TurnTypes, Turns
\* A generator that no longer holds the lock, or a runner that moves elsewhere.
<1>1. ASSUME streaming' \subseteq streaming, UNCHANGED shield,
             NEW r \in Runners, NEW at, Goto(r, at) \/ UNCHANGED pc,
             \A q \in Runners \ {r} : q \in streaming => q \in streaming',
             pc'[r] \in {"read", "handle", "register", "ending", "shield", "stderr"} =>
               r \in streaming',
             pc'[r] = "stderr" => mine[r] \in closed',
             pc'[r] # "shield" \/ shield[r] # "none"
      PROVE  Locks'
  <2>1. \A q \in Runners \ {r} : pc'[q] = pc[q]
    BY <1>1 DEF Goto, TypeOK, TurnTypes
  <2>2. \A q \in streaming : Begun(q) /\ mine[q] # None /\ q \in Runners
    BY DEF Locks, TypeOK, SessionTypes
  <2>3. \A q \in Runners : pc'[q] = "stderr" => mine'[q] \in closed'
    BY <1>0, <1>1, <2>1, IdFacts DEF Locks, TypeOK, SessionTypes
  <2>4. \A q \in Runners : shield[q] # "none" =>
          mine'[q] # None /\ (shield[q] = "kills" => mine'[q] \in closed')
    BY <1>0 DEF Locks
  <2>5. /\ \A q \in streaming' : Begun(q)' /\ mine'[q] # None
        /\ \A p, q \in streaming' : mine'[p] = mine'[q] => p = q
    BY <1>0, <1>1, <2>2 DEF Locks
  <2>6. \A q \in Runners :
          /\ pc'[q] \in {"read", "handle", "register", "ending", "shield", "stderr"} =>
               q \in streaming'
          /\ pc'[q] = "shield" => shield'[q] # "none"
    BY <1>1, <2>1 DEF Locks
  <2> QED BY <1>1, <2>3, <2>4, <2>5, <2>6 DEF Locks
<1>2. ASSUME NEW r \in Runners, Begin(r) \/ GetOrCreate(r) PROVE Locks'
  <2>1. /\ UNCHANGED <<streaming, shield>>
        /\ \E at \in {"create", "enter", "done"} : Goto(r, at)
    BY <1>2 DEF Begin, GetOrCreate, Borrow
  <2>2. pc'[r] \in {"create", "enter", "done"}
    BY <2>1 DEF Goto, TypeOK, TurnTypes
  <2> QED BY <1>1, <2>1, <2>2
<1>3. ASSUME NEW r \in Runners, Register(r) \/ Event(r) \/ ReadEnd(r) PROVE Locks'
  <2>1. /\ UNCHANGED <<streaming, shield>>
        /\ \E at \in {"read", "handle", "register", "ending", "remove"} : Goto(r, at)
        /\ pc[r] \in {"read", "handle", "register"}
    BY <1>3 DEF Register, Event, ReadEnd
  <2>2. /\ pc'[r] \in {"read", "handle", "register", "ending", "remove"}
        /\ r \in streaming
    BY <2>1 DEF Goto, TypeOK, TurnTypes, Locks
  <2> QED BY <1>1, <2>1, <2>2
<1>4. ASSUME NEW r \in Runners, LaunchFails(r) \/ Remove(r) \/ StreamEnd(r) \/ StderrEnd(r)
      PROVE  Locks'
  <2>1. /\ streaming' \in {streaming, streaming \ {r}} /\ UNCHANGED shield
        /\ \E at \in {"remove", "done", "stopping"} : Goto(r, at)
    BY <1>4 DEF LaunchFails, Remove, StreamEnd, StderrEnd, Unwind
  <2>2. pc'[r] \in {"remove", "done", "stopping"}
    BY <2>1 DEF Goto, TypeOK, TurnTypes
  <2> QED BY <1>1, <2>1, <2>2
<1>5. ASSUME NEW r \in Runners, CloseGenerator(r) PROVE Locks'
  <2>1. /\ streaming' = streaming \ {r} /\ UNCHANGED <<shield, pc>> /\ pc[r] = "done"
    BY <1>5 DEF CloseGenerator, Unwind
  <2> QED BY <1>1, <2>1
<1>6. ASSUME NEW r \in Runners, Launch(r) PROVE Locks'
  <2>1. /\ pc[r] = "enter" /\ streaming' = streaming \cup {r} /\ UNCHANGED <<shield, mine>>
        /\ \A q \in streaming : mine[q] # mine[r]
        /\ pc'[r] = "read" /\ \A q \in Runners \ {r} : pc'[q] = pc[q]
    BY <1>6 DEF Launch, CliLockFree, Goto, TypeOK, TurnTypes, borrowVars
  <2>2. Begun(r) /\ Begun(r)' /\ mine[r] # None
    BY <1>0, <2>1 DEF Begun, Working
  <2>3. \A q \in streaming : q \in Runners /\ Begun(q) /\ mine[q] # None
    BY DEF Locks, TypeOK, SessionTypes
  <2>4. /\ \A q \in streaming' : Begun(q)' /\ mine'[q] # None
        /\ \A p, q \in streaming' : mine'[p] = mine'[q] => p = q
    BY <1>0, <2>1, <2>2, <2>3 DEF Locks
  <2>5. \A q \in Runners :
          /\ pc'[q] \in {"read", "handle", "register", "ending", "shield", "stderr"} =>
               q \in streaming'
          /\ pc'[q] = "shield" => shield'[q] # "none"
    BY <2>1 DEF Locks
  <2>6. \A q \in Runners :
          /\ pc'[q] = "stderr" => mine'[q] \in closed'
          /\ shield'[q] # "none" => mine'[q] # None
          /\ shield'[q] = "kills" => mine'[q] \in closed'
    BY <1>0, <2>1 DEF Locks
  <2> QED BY <2>4, <2>5, <2>6 DEF Locks
<1>7. ASSUME NEW r \in Runners, ShieldBegins(r) \/ ShieldEnds(r) PROVE Locks'
  <2>1. /\ UNCHANGED <<streaming, mine>> /\ mine[r] \in closed'
        /\ \E at \in {"kills", "none"} : shield' = [shield EXCEPT ![r] = at]
        /\ (UNCHANGED pc /\ shield'[r] = "kills") \/ ShieldGoto(r)
    BY <1>0, <1>7 DEF ShieldBegins, ShieldEnds, StopBegins, Locks, borrowVars, TypeOK,
        SessionTypes
  <2>2. /\ \A q \in Runners \ {r} : pc'[q] = pc[q] /\ shield'[q] = shield[q]
        /\ pc'[r] = pc[r] \/ (pc[r] = "shield" /\ pc'[r] = "stderr")
        /\ pc'[r] = "shield" => shield'[r] = "kills"
    BY <2>1 DEF ShieldGoto, Goto, TypeOK, TurnTypes, SessionTypes
  <2>3. mine[r] # None
    BY <1>7 DEF ShieldBegins, ShieldEnds, Locks
  <2>4. \A q \in Runners :
          /\ pc'[q] \in {"read", "handle", "register", "ending", "shield", "stderr"} =>
               q \in streaming'
          /\ pc'[q] = "shield" => shield'[q] # "none"
    BY <2>1, <2>2 DEF Locks
  <2>5. \A q \in Runners :
          /\ pc'[q] = "stderr" => mine'[q] \in closed'
          /\ shield'[q] # "none" => mine'[q] # None
          /\ shield'[q] = "kills" => mine'[q] \in closed'
    BY <1>0, <2>1, <2>2, <2>3 DEF Locks
  <2>6. /\ \A q \in streaming' : Begun(q)' /\ mine'[q] # None
        /\ \A p, q \in streaming' : mine'[p] = mine'[q] => p = q
    BY <1>0, <2>1 DEF Locks, TypeOK, SessionTypes
  <2> QED BY <2>4, <2>5, <2>6 DEF Locks
<1>8. ASSUME NEW r \in Runners, Cancel(r) PROVE Locks'
  <2>1. CASE /\ pc[r] \in {"create", "remove", "stopping"} /\ Goto(r, "done")
             /\ UNCHANGED <<streaming, shield>>
    <3>1. pc'[r] = "done"
      BY <2>1 DEF Goto, TypeOK, TurnTypes
    <3> QED BY <1>1, <2>1, <3>1
  <2>2. CASE /\ pc[r] \in {"enter", "handle", "register", "ending", "stderr"} /\ Goto(r, "remove")
             /\ streaming' \in {streaming, streaming \ {r}} /\ UNCHANGED shield
    <3>1. pc'[r] = "remove"
      BY <2>2 DEF Goto, TypeOK, TurnTypes
    <3> QED BY <1>1, <2>2, <3>1
  <2>3. CASE pc[r] = "read" /\ Goto(r, "shield") /\ shield' = [shield EXCEPT ![r] = "waits"]
             /\ UNCHANGED streaming
    <3>1. /\ pc'[r] = "shield" /\ shield'[r] = "waits" /\ mine[r] # None /\ r \in streaming
          /\ \A q \in Runners \ {r} : pc'[q] = pc[q] /\ shield'[q] = shield[q]
      BY <1>0, <2>3 DEF Goto, Working, Locks, TypeOK, TurnTypes, SessionTypes
    <3>2. mine' = mine
      BY <1>8 DEF Cancel, borrowVars
    <3>3. \A q \in Runners :
            /\ pc'[q] \in {"read", "handle", "register", "ending", "shield", "stderr"} =>
                 q \in streaming'
            /\ pc'[q] = "shield" => shield'[q] # "none"
      BY <2>3, <3>1 DEF Locks
    <3>4. \A q \in Runners :
            /\ pc'[q] = "stderr" => mine'[q] \in closed'
            /\ shield'[q] # "none" => mine'[q] # None
            /\ shield'[q] = "kills" => mine'[q] \in closed'
      BY <1>0, <3>1, <3>2 DEF Locks
    <3>5. /\ \A q \in streaming' : Begun(q)' /\ mine'[q] # None
          /\ \A p, q \in streaming' : mine'[p] = mine'[q] => p = q
      BY <1>0, <2>3, <3>2 DEF Locks, TypeOK, SessionTypes
    <3> QED BY <3>3, <3>4, <3>5 DEF Locks
  <2>4. CASE pc[r] = "shield" /\ (shield[r] = "waits" => ~ LifecycleFree(mine[r]))
             /\ Goto(r, "stderr") /\ UNCHANGED <<streaming, shield>>
    <3>1. pc'[r] = "stderr" /\ r \in streaming /\ mine[r] \in Runners /\ shield[r] \in {"waits", "kills"}
      BY <1>0, <2>4 DEF Goto, Working, Locks, TypeOK, TurnTypes, SessionTypes
    <3>2. mine[r] \in closed
      BY <2>4, <3>1, LifecycleHeld DEF Locks
    <3> QED BY <1>0, <1>1, <2>4, <3>1, <3>2
  <2> QED BY <1>8, <2>1, <2>2, <2>3, <2>4 DEF Cancel
<1>9. ASSUME UNCHANGED <<streaming, shield>>, UNCHANGED pc \/ \E r \in Runners : Goto(r, "done")
      PROVE  Locks'
  <2>1. CASE UNCHANGED pc
    BY <1>0, <1>9, <2>1, IdFacts DEF Locks, TypeOK, SessionTypes
  <2>2. ASSUME NEW r \in Runners, Goto(r, "done") PROVE Locks'
    <3>1. pc'[r] = "done"
      BY <2>2 DEF Goto, TypeOK, TurnTypes
    <3> QED BY <1>1, <1>9, <2>2, <3>1
  <2> QED BY <1>9, <2>1, <2>2
<1>10. ASSUME StopSession \/ StopSessionEnds PROVE Locks'
  BY <1>9, <1>10 DEF StopSession, StopSessionEnds, StopReturns
<1>11. ASSUME NEW r \in Runners, Exit(r) PROVE Locks'
  BY <1>9, <1>11 DEF Exit
<1>12. ASSUME StopAll \/ StopAllNext \/ StopAllReturns \/ UNCHANGED vars PROVE Locks'
  BY <1>9, <1>12 DEF StopAll, StopAllNext, StopAllReturns, vars
<1> QED
  BY <1>2, <1>3, <1>4, <1>5, <1>6, <1>7, <1>8, <1>10, <1>11, <1>12
     DEF Next, RunnerStep, ManagerStep, Done

\* The session of a process that runs stays known, whoever stops it.
LEMMA RunningStays ==
  ASSUME TypeOK, Turns, Maps, Holder, Processes, [Next]_vars
  PROVE  \A p \in alive : Begun(p)' /\ mine'[p] = mine[p] /\ mine[p] \in Known'
<1>1. \A p \in alive : /\ p \in Runners /\ Begun(p) /\ mine[p] \in Known /\ mine[p] # None
                       /\ process[mine[p]] = p
  BY KnownFacts, IdFacts DEF Processes, TypeOK, SessionTypes
<1>2. \A p \in alive : Begun(p)' /\ mine'[p] = mine[p]
  BY <1>1, Onward, Borrowed
<1>3. \/ Known \subseteq Known'
      \/ Known' = Known \ {target} /\ process[target] \notin alive
  <2>1. CASE UNCHANGED mapVars
    BY <2>1, MapsUnchanged
  <2>2. CASE \E r \in Runners : GetOrCreate(r) \/ Register(r)
    BY <2>2, BorrowChanges, RegisterChanges
  <2>3. CASE StopSession \/ StopSessionEnds
    BY <2>1, <2>3, StopCases, ForgetFacts
  <2> QED BY <2>1, <2>2, <2>3, MapSteps DEF Remove, StopAll
<1> QED BY <1>1, <1>2, <1>3

LEMMA ProcessesKept ==
  ASSUME TypeOK, Turns, Maps, Handles, Holder, Locks, Processes, [Next]_vars
  PROVE  Processes'
<1>0. /\ \A p \in alive : /\ p \in Runners /\ Begun(p)' /\ mine'[p] = mine[p]
                          /\ mine[p] \in Known' /\ mine[p] \in Runners
      /\ closed \subseteq closed' /\ alive \subseteq Runners /\ failures \in Nat
      /\ \A p \in alive : process[mine[p]] = p
  BY RunningStays, ClosedStays, KnownFacts, BoundsAssumption
     DEF Processes, TypeOK, SessionTypes
\* Steps that launch nothing: what is left alive, and why it is closed or owned.
<1>1. ASSUME alive' \subseteq alive,
             \A p \in alive' : /\ process'[mine[p]] = p
                               /\ p \in pids'
                               /\ p \in streaming' \/ mine[p] \in closed'
                               /\ mine[p] \in closed' => p \in killed' \/ failures' > 0,
             \A r \in Runners : pc'[r] = "ending" => r \notin alive'
      PROVE  Processes'
  BY <1>0, <1>1 DEF Processes
\* Steps that close nothing and take no process from anybody.
<1>2. ASSUME UNCHANGED <<process, closed, killed, failures>>, alive' \subseteq alive,
             \A p \in alive' : p \in pids => p \in pids',
             \A p \in alive' : p \in streaming => p \in streaming' \/ mine[p] \in closed,
             \A r \in Runners : pc'[r] = "ending" => r \notin alive'
      PROVE  Processes'
  BY <1>1, <1>2 DEF Processes
<1>3. ASSUME NEW r \in Runners, Begin(r) \/ GetOrCreate(r) \/ Register(r) \/ Remove(r)
      PROVE  Processes'
  <2>1. /\ UNCHANGED <<sessionVars, streaming, processVars, boundVars>>
        /\ \E at \in {"create", "enter", "done", "read", "remove", "stopping"} : Goto(r, at)
    BY <1>3 DEF Begin, GetOrCreate, Borrow, Register, Remove
  <2>2. \A q \in Runners : pc'[q] = "ending" => q \notin alive
    BY <2>1 DEF Goto, Processes, TypeOK, TurnTypes
  <2> QED BY <1>2, <2>1, <2>2 DEF sessionVars, processVars, boundVars
<1>4. ASSUME NEW r \in Runners, LaunchFails(r) \/ Event(r) PROVE Processes'
  <2>1. /\ UNCHANGED <<sessionVars, streaming, processVars, boundVars>>
        /\ \E at \in {"register", "handle", "read", "remove"} : Goto(r, at)
    BY <1>4 DEF LaunchFails, Event
  <2>2. \A q \in Runners : pc'[q] = "ending" => q \notin alive
    BY <2>1 DEF Goto, Processes, TypeOK, TurnTypes
  <2> QED BY <1>2, <2>1, <2>2 DEF sessionVars, processVars, boundVars
<1>5. ASSUME NEW r \in Runners, Exit(r) PROVE Processes'
  BY <1>2, <1>5 DEF Exit, Processes, sessionVars, boundVars
<1>6. ASSUME NEW r \in Runners, ReadEnd(r) PROVE Processes'
  <2>1. /\ r \notin alive /\ alive' = alive /\ pids' = pids \ {r}
        /\ UNCHANGED <<sessionVars, streaming, killed, boundVars>> /\ Goto(r, "ending")
    BY <1>6 DEF ReadEnd
  <2>2. \A q \in Runners : pc'[q] = "ending" => q \notin alive
    BY <2>1 DEF Goto, Processes, TypeOK, TurnTypes
  <2> QED BY <1>2, <2>1, <2>2 DEF sessionVars, boundVars
<1>7. ASSUME NEW r \in Runners, StreamEnd(r) \/ StderrEnd(r) \/ CloseGenerator(r) PROVE Processes'
  <2>1. /\ r \notin alive /\ alive' = alive /\ pids' \in {pids, pids \ {r}}
        /\ streaming' = streaming \ {r}
        /\ UNCHANGED <<sessionVars, killed, boundVars>>
        /\ UNCHANGED pc \/ Goto(r, "remove")
    BY <1>7 DEF StreamEnd, StderrEnd, CloseGenerator, Unwind, Processes, processVars
  <2>2. \A q \in Runners : pc'[q] = "ending" => q \notin alive
    BY <2>1 DEF Goto, Processes, TypeOK, TurnTypes
  <2> QED BY <1>2, <2>1, <2>2 DEF sessionVars, boundVars
<1>8. ASSUME NEW r \in Runners, Cancel(r) PROVE Processes'
  <2>1. /\ UNCHANGED <<sessionVars, processVars, boundVars>>
        /\ \E at \in {"done", "remove", "shield", "stderr"} : Goto(r, at)
        /\ UNCHANGED streaming \/ (pc[r] = "stderr" /\ streaming' = streaming \ {r})
    BY <1>8 DEF Cancel
  <2>2. \A q \in Runners : pc'[q] = "ending" => q \notin alive
    BY <2>1 DEF Goto, Processes, TypeOK, TurnTypes
  <2>3. pc[r] = "stderr" => mine[r] \in closed
    BY DEF Locks
  <2> QED BY <1>2, <2>1, <2>2, <2>3 DEF sessionVars, processVars, boundVars
<1>9. ASSUME NEW r \in Runners, Launch(r) PROVE Processes'
  <2>1. /\ pc[r] = "enter" /\ mine[r] \notin closed /\ CliLockFree(mine[r])
        /\ process' = [process EXCEPT ![mine[r]] = r]
        /\ alive' = alive \cup {r} /\ pids' = pids \cup {r} /\ streaming' = streaming \cup {r}
        /\ Goto(r, "read") /\ UNCHANGED <<mapVars, mine, closed, killed, failures>>
    BY <1>9 DEF Launch, MayLaunch, borrowVars, boundVars
  <2>2. mine[r] \in Known /\ mine[r] \in Runners /\ Begun(r)
    BY <2>1, KnownFacts DEF Turns, Handles, Working, Begun
  <2>3. \A p \in alive : mine[p] # mine[r]
    BY <2>1 DEF Processes, CliLockFree
  <2>4. process'[mine[r]] = r /\ \A p \in alive : process'[mine[p]] = p
    BY <1>0, <2>1, <2>2, <2>3 DEF TypeOK, SessionTypes
  <2>5. pc'[r] = "read" /\ \A q \in Runners \ {r} : pc'[q] = pc[q]
    BY <2>1 DEF Goto, TypeOK, TurnTypes
  <2>6. Known' = Known
    BY <2>1, MapsUnchanged
  <2>7. Begun(r)'
    BY <2>5 DEF Begun
  <2> QED BY <1>0, <2>1, <2>2, <2>4, <2>5, <2>6, <2>7 DEF Processes
\* Steps of a stop().
<1>10. ASSUME NEW s \in Runners, StopBegins(s), UNCHANGED <<streaming, failures>>,
              \A r \in Runners : pc'[r] = "ending" => pc[r] = "ending"
       PROVE  Processes'
  <2>1. /\ UNCHANGED <<process, alive>> /\ closed' = closed \cup {s}
        /\ process[s] \in alive => killed' = killed \cup {process[s]} /\ pids' = pids
        /\ process[s] \notin alive => pids' = pids \ {process[s]} /\ killed' = killed
    BY <1>10 DEF StopBegins, Running
  <2>2. \A p \in alive : p \in pids'
    BY <2>1 DEF Processes
  <2>3. \A p \in alive : mine[p] \in closed' => p \in killed' \/ failures' > 0
    BY <1>0, <1>10, <2>1 DEF Processes
  <2>4. \A p \in alive : p \in streaming' \/ mine[p] \in closed'
    BY <1>10, <2>1 DEF Processes
  <2>5. \A p \in alive : process'[mine[p]] = p
    BY <1>0, <2>1
  <2>6. \A r \in Runners : pc'[r] = "ending" => r \notin alive'
    BY <1>10, <2>1 DEF Processes
  <2> QED BY <1>1, <2>1, <2>2, <2>3, <2>4, <2>5, <2>6
<1>11. ASSUME NEW s \in Runners, ExitConfirmed(s) \/ StopRaises(s),
              UNCHANGED <<streaming, sessionVars>>,
              \A r \in Runners : pc'[r] = "ending" => pc[r] = "ending"
       PROVE  Processes'
  <2>1. CASE ExitConfirmed(s)
    BY <1>2, <1>11, <2>1 DEF ExitConfirmed, Running, Processes, sessionVars
  <2>2. CASE StopRaises(s)
    <3>1. UNCHANGED <<alive, pids, process, closed, streaming>> /\ failures' > 0
      BY <1>0, <1>11, <2>2 DEF StopRaises, sessionVars
    <3> QED BY <1>1, <1>11, <3>1 DEF Processes
  <2> QED BY <1>11, <2>1, <2>2
<1>12. ASSUME NEW r \in Runners, ShieldBegins(r) \/ ShieldEnds(r) PROVE Processes'
  <2>1. mine[r] \in Runners
    BY <1>12 DEF ShieldBegins, ShieldEnds, Locks, TypeOK, TurnTypes
  <2>2. UNCHANGED pc \/ Goto(r, "stderr")
    BY <1>12 DEF ShieldBegins, ShieldEnds, ShieldGoto
  <2>3. \A q \in Runners : pc'[q] = "ending" => pc[q] = "ending"
    BY <2>2 DEF Goto, TypeOK, TurnTypes
  <2> QED BY <1>10, <1>11, <1>12, <2>1, <2>3 DEF ShieldBegins, ShieldEnds, boundVars
<1>13. ASSUME StopSession \/ StopSessionEnds PROVE Processes'
  <2>1. target \in Runners
    BY <1>13, StopCases
  <2>2. UNCHANGED pc \/ (lock \in Runners /\ Goto(lock, "done"))
    BY <1>13 DEF StopSession, StopSessionEnds, StopReturns
  <2>3. \A q \in Runners : pc'[q] = "ending" => pc[q] = "ending"
    BY <2>2 DEF Goto, TypeOK, TurnTypes
  <2> QED BY <1>10, <1>11, <1>13, <2>1, <2>3 DEF StopSession, StopSessionEnds, boundVars
<1>14. ASSUME StopAll \/ StopAllNext \/ StopAllReturns \/ UNCHANGED vars PROVE Processes'
  <2>1. UNCHANGED <<pc, sessionVars, streaming, processVars, failures>>
    BY <1>14 DEF StopAll, StopAllNext, StopAllReturns, vars, boundVars
  <2> QED BY <1>2, <2>1 DEF Processes, sessionVars, processVars
<1> QED
  BY <1>3, <1>4, <1>5, <1>6, <1>7, <1>8, <1>9, <1>12, <1>13, <1>14
     DEF Next, RunnerStep, ManagerStep, Done

-----------------------------------------------------------------------------
(***************************************************************************)
(* The theorems.                                                           *)
(***************************************************************************)
LEMMA InitInductive == Init => Inductive
<1> SUFFICES ASSUME Init PROVE Inductive
  OBVIOUS
<1>1. TypeOK
  BY TypeInit
<1>2. Turns
  BY IdFacts DEF Init, Turns, Active, Begun, Working
<1>3. Maps
  BY IdFacts DEF Init, Maps
<1>4. Handles
  BY IdFacts DEF Init, Handles, Working
<1>5. Holder
  BY IdFacts DEF Init, Holder
<1>6. Locks /\ Processes
  BY DEF Init, Locks, Processes
<1> QED BY <1>1, <1>2, <1>3, <1>4, <1>5, <1>6 DEF Inductive

\* The manager's maps, its lock, the locks of the sessions and their processes fit
\* together in every state, whatever is cancelled, stopped or fails.
THEOREM InductiveCorrect == Spec => []Inductive
<1>1. Inductive /\ [Next]_vars => Inductive'
  BY TypeKept, TurnsKept, MapsKept, HandlesKept, HolderKept, LocksKept, ProcessesKept
     DEF Inductive
<1> QED BY InitInductive, <1>1, PTL DEF Spec

\* Every process that runs is in the process registry and belongs to a session the
\* manager knows, which stop() of cli/managed/session.py has signalled if it is
\* closed: cancelled runners and failed stops leave no process behind unseen.
THEOREM ProcessIsOwnedCorrect == Spec => []ProcessIsOwned
<1>1. Inductive => ProcessIsOwned
  <2> SUFFICES ASSUME Inductive, NEW p \in alive
      PROVE  p \in pids /\ \E s \in Known :
               process[s] = p /\ (s \in closed => p \in killed \/ failures > 0)
    BY DEF ProcessIsOwned
  <2>1. p \in pids /\ mine[p] \in Known /\ process[mine[p]] = p
    BY DEF Inductive, Processes
  <2>2. mine[p] \in closed => p \in killed \/ failures > 0
    BY DEF Inductive, Processes
  <2> QED BY <2>1, <2>2
<1> QED BY InductiveCorrect, <1>1, PTL

\* The ids of the manager are exact: one id per session, aliases exactly for the
\* registered ones, and a runner removes its own session or none.
THEOREM AliasesExactCorrect == Spec => []AliasesExact
<1>1. Inductive => AliasesExact
  <2> SUFFICES ASSUME Inductive PROVE AliasesExact
    OBVIOUS
  <2>1. ASSUME NEW s \in Runners
        PROVE  Cardinality(KeysOf(pending, s)) + Cardinality(KeysOf(sessions, s)) <= 1
    <3> DEFINE A == KeysOf(pending, s)
               B == KeysOf(sessions, s)
    <3>1. /\ \A i, k \in A : i = k
          /\ \A i, k \in B : i = k
          /\ A = {} \/ B = {}
      BY IdFacts DEF Inductive, Maps, KeysOf
    <3>2. \A S : S = {} => Cardinality(S) = 0
      BY FS_EmptySet
    <3>3. ASSUME NEW S, \A i, k \in S : i = k PROVE Cardinality(S) \in {0, 1}
      <4>1. S = {} \/ \E i : S = {i}
        BY <3>3
      <4> QED BY <3>2, <4>1, FS_Singleton
    <3>4. Cardinality(A) \in {0, 1} /\ Cardinality(B) \in {0, 1}
      <4> HIDE DEF A, B
      <4> QED BY <3>1, <3>3
    <3>5. Cardinality(A) = 0 \/ Cardinality(B) = 0
      <4> HIDE DEF A, B
      <4> QED BY <3>1, <3>2
    <3> QED BY <3>4, <3>5
  <2>2. \A i \in Ids : (sessions[i] # None) <=> (tempOf[i] # None)
    BY DEF Inductive, Maps
  <2>3. \A i, k \in Ids : realOf[i] = k <=> tempOf[k] = i
    BY DEF Inductive, Maps
  <2>4. closing \subseteq Known
    BY DEF Inductive, Holder
  <2>5. \A r \in Runners : pc[r] \notin {"idle", "create", "done"} =>
          SessionForId(handle[r]) = IF mine[r] \in Known THEN mine[r] ELSE None
    BY DEF Inductive, Handles, Working
  <2> QED BY <2>1, <2>2, <2>3, <2>4, <2>5 DEF AliasesExact
<1> QED BY InductiveCorrect, <1>1, PTL

\* When stop_all returns without raising, every session it found is stopped and
\* forgotten: no process is left, and what was issued before launches nothing.
THEOREM StopAllLeavesNothingCorrect == Spec => StopAllLeavesNothing
<1>1. ASSUME Inductive, [Next]_vars, lock = Manager /\ lock' = None /\ ~ failed
      PROVE  /\ alive = {}
             /\ \A r \in Runners : mine[r] # None /\ pc[r] # "done" => mine[r] \in closed
  <2>1. todo = {} /\ target = None
    <3> DEFINE P == lock' = lock \/ lock = None \/ lock \in Runners \/ (todo = {} /\ target = None)
    <3>1. ASSUME NEW r \in Runners,
                 \/ Begin(r) \/ GetOrCreate(r) \/ Register(r) \/ Launch(r) \/ LaunchFails(r)
                 \/ Event(r) \/ ReadEnd(r) \/ StreamEnd(r) \/ StderrEnd(r) \/ CloseGenerator(r)
                 \/ ShieldBegins(r) \/ ShieldEnds(r) \/ Remove(r) \/ Exit(r)
          PROVE  P
      BY <3>1 DEF Begin, GetOrCreate, Register, Launch, LaunchFails, Event, ReadEnd, StreamEnd,
                  StderrEnd, CloseGenerator, Unwind, ShieldBegins, ShieldEnds, Remove, Exit, lockVars
    <3>2. ASSUME NEW r \in Runners, Cancel(r) PROVE P
      BY <1>1, <3>2 DEF Cancel, Inductive, Holder
    <3>3. ASSUME StopSession \/ StopSessionEnds PROVE P
      BY <3>3 DEF StopSession, StopSessionEnds, StopReturns
    <3>4. ASSUME StopAll \/ StopAllNext \/ StopAllReturns \/ UNCHANGED vars PROVE P
      BY <3>4 DEF StopAll, StopAllNext, StopAllReturns, vars, lockVars
    <3> HIDE DEF P
    <3>5. P
      BY <1>1, <3>1, <3>2, <3>3, <3>4 DEF Next, RunnerStep, ManagerStep, Done
    <3> QED BY <1>1, <3>5, IdFacts DEF P
  <2>2. Known = {}
    BY <1>1, <2>1, KnownFacts, IdFacts DEF Inductive, Holder
  <2>3. alive = {}
    BY <1>1, <2>2 DEF Inductive, Processes
  <2>4. \A r \in Runners : mine[r] # None => mine[r] \in closed
    BY <1>1, <2>2 DEF Inductive, Handles
  <2> QED BY <2>3, <2>4
<1>2. Inductive /\ [Next]_vars =>
        [lock = Manager /\ lock' = None /\ ~ failed =>
           /\ alive = {}
           /\ \A r \in Runners : mine[r] # None /\ pc[r] # "done" => mine[r] \in closed]_vars
  BY <1>1
<1> QED BY InductiveCorrect, <1>2, PTL DEF Spec, StopAllLeavesNothing
=============================================================================
