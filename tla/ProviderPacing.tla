--------------------------- MODULE ProviderPacing ---------------------------
(***************************************************************************)
(* The limiter of one provider: a strict sliding window of reservations    *)
(* (core/rate_limit.py), a reactive block after a 429, a cap on open       *)
(* streams, and the retry ladder above them (providers/rate_limit.py).     *)
(*                                                                         *)
(* An attempt is <<request, number>>: the stamp it holds in the window.    *)
(* Time passes in ticks, and is kept relative to now: the age of a stamp   *)
(* up to Window, what is left of a timer, of the block and of a sleep.     *)
(***************************************************************************)
EXTENDS Naturals, FiniteSets, SequencesExt

CONSTANTS
  Requests,
  Limit,           \* rate_limit
  Window,          \* rate_window, in ticks
  MaxConcurrency,  \* max_concurrency
  MaxTries,        \* 1 + max_retries
  Delay,           \* the longest backoff of the ladder, in ticks
  None             \* no timer is armed

ASSUME PacingAssumption ==
  /\ IsFiniteSet(Requests)
  /\ {Limit, Window, MaxConcurrency, MaxTries} \subseteq Nat \ {0}
  /\ Delay \in Nat
  /\ None \notin Nat

VARIABLES
  phase,     \* where the task of a request suspends
  tries,     \* upstream calls it has begun
  sleep,     \* what is left of its backoff
  waiters,   \* _waiters: pending or cancelled futures, oldest first
  times,     \* _times: the attempts that hold a slot, oldest first
  age,       \* the age of the stamp of each attempt; Window once it is over
  timer,     \* _timer: what is left of it
  blocked,   \* what is left of _blocked_until
  started,   \* ghost: the attempts that reached the upstream
  since      \* ghost: how long ago each did

windowVars == <<waiters, times, age, timer>>
requestVars == <<phase, tries, sleep>>
ghostVars == <<started, since>>
vars == <<requestVars, windowVars, blocked, ghostVars>>

Attempts == Requests \X (1..MaxTries)
Ages == 0..Window
Upcoming(r) == <<r, tries[r] + 1>>   \* the attempt r is about to make

\* "slot": waits for the semaphore; "paced": about to look at the block;
\* "queued": its future is pending; "granted": it is done, the task has not
\* resumed; "sent": fn() runs; "backoff": sleeps; "stream": the answer is
\* consumed under the slot.
Holding == {"paced", "queued", "granted", "sent", "backoff", "stream"}
Phases == {"new", "slot", "over"} \cup Holding

TypeOK ==
  /\ phase \in [Requests -> Phases]
  /\ tries \in [Requests -> 0..MaxTries]
  /\ sleep \in [Requests -> 0..Delay]
  /\ waiters \in Seq(Requests)
  /\ times \in Seq(Attempts)
  /\ age \in [Attempts -> Ages]
  /\ timer \in Ages \cup {None}
  /\ blocked \in 0..Delay
  /\ started \in SUBSET Attempts
  /\ since \in [Attempts -> Ages]

Init ==
  /\ phase = [r \in Requests |-> "new"]
  /\ tries = [r \in Requests |-> 0]
  /\ sleep = [r \in Requests |-> 0]
  /\ waiters = <<>>
  /\ times = <<>>
  /\ age = [a \in Attempts |-> Window]
  /\ timer = None
  /\ blocked = 0
  /\ started = {}
  /\ since = [a \in Attempts |-> Window]

-----------------------------------------------------------------------------
(***************************************************************************)
(* The window.  Every await is a step boundary here, also one that the     *)
(* event loop passes at once because nothing has to be waited for.         *)
(***************************************************************************)

\* _prune: drops stamps from the left until one is young enough.
Pruned(stamps) ==
  LET expired == {i \in 1..Len(stamps) : \A j \in 1..i : age[stamps[j]] = Window}
  IN SubSeq(stamps, Cardinality(expired) + 1, Len(stamps))

\* What _pump takes off the queue: cancelled futures, and a pending one for
\* every free slot.
Taken(queue, ph, free) ==
  LET served(i) == Cardinality({j \in 1..i : ph[queue[j]] = "queued"})
  IN SubSeq(queue, 1, Cardinality({i \in 1..Len(queue) : served(i - 1) < free}))

\* The requests of these waiters whose future is pending, in the same order.
Waiting(queue, ph) ==
  LET upTo[i \in 0..Len(queue)] ==
        IF i = 0 THEN <<>>
        ELSE IF ph[queue[i]] = "queued" THEN Append(upTo[i - 1], queue[i]) ELSE upTo[i - 1]
  IN upTo[Len(queue)]

\* Mutant: the timer is dropped and not armed again.
PumpUnarmed(stamps, queue, ph) ==
  LET kept == Pruned(stamps)
      taken == Taken(queue, ph, Limit - Len(kept))
      granted == Waiting(taken, ph)
      reserved == [i \in 1..Len(granted) |-> Upcoming(granted[i])]
  IN /\ times' = kept \o reserved
     /\ waiters' = SubSeq(queue, Len(taken) + 1, Len(queue))
     /\ age' = [a \in Attempts |-> IF a \in ToSet(reserved) THEN 0 ELSE age[a]]
     /\ phase' = [r \in Requests |-> IF r \in ToSet(granted) THEN "granted" ELSE ph[r]]
     /\ timer' = None

\* _pump over these stamps and waiters, the requests being in phases ph.
Pump(stamps, queue, ph) ==
  LET kept == Pruned(stamps)
      taken == Taken(queue, ph, Limit - Len(kept))
      granted == Waiting(taken, ph)
      reserved == [i \in 1..Len(granted) |-> Upcoming(granted[i])]
  IN /\ times' = kept \o reserved
     /\ waiters' = SubSeq(queue, Len(taken) + 1, Len(queue))
     /\ age' = [a \in Attempts |-> IF a \in ToSet(reserved) THEN 0 ELSE age[a]]
     /\ phase' = [r \in Requests |-> IF r \in ToSet(granted) THEN "granted" ELSE ph[r]]
     /\ timer' = IF waiters' = <<>> \/ times' = <<>> THEN None
                 ELSE Window - age'[Head(times')]

\* Mutant: a slot that was not used stays taken until it expires.
ReleaseNothing(r, ph) ==
  /\ phase' = ph
  /\ UNCHANGED windowVars

\* _release: gives back the slot of r, unless it has expired meanwhile.
Release(r, ph) ==
  IF Upcoming(r) \in ToSet(times)
  THEN Pump(RemoveFirst(times, Upcoming(r)), waiters, ph)
  ELSE /\ phase' = ph
       /\ UNCHANGED windowVars

\* Mutant: the slot counts from its reservation, not from its use.
RestampNothing(r) == UNCHANGED <<times, age>>

\* _restamp: moves the slot of r to now, at the end of the window.
Restamp(r) ==
  IF Upcoming(r) \in ToSet(times)
  THEN /\ times' = Append(RemoveFirst(times, Upcoming(r)), Upcoming(r))
       /\ age' = [age EXCEPT ![Upcoming(r)] = 0]
  ELSE UNCHANGED <<times, age>>

-----------------------------------------------------------------------------
(***************************************************************************)
(* A request.                                                              *)
(***************************************************************************)

Goto(r, p) == phase' = [phase EXCEPT ![r] = p]

Arrive(r) ==
  /\ phase[r] = "new"
  /\ Goto(r, "slot")
  /\ UNCHANGED <<tries, sleep, windowVars, blocked, ghostVars>>

Holder == {r \in Requests : phase[r] \in Holding}

\* concurrency_slot
TakeSlot(r) ==
  /\ phase[r] = "slot"
  /\ Cardinality(Holder) < MaxConcurrency
  /\ Goto(r, "paced")
  /\ UNCHANGED <<tries, sleep, windowVars, blocked, ghostVars>>

\* Mutant: a free slot is taken without a place in the queue.
EnqueueBarging(r) ==
  /\ phase[r] = "paced" /\ blocked = 0
  /\ IF Len(Pruned(times)) < Limit
     THEN /\ times' = Append(Pruned(times), Upcoming(r))
          /\ age' = [age EXCEPT ![Upcoming(r)] = 0]
          /\ Goto(r, "granted")
          /\ UNCHANGED <<waiters, timer>>
     ELSE Pump(times, Append(waiters, r), [phase EXCEPT ![r] = "queued"])
  /\ UNCHANGED <<tries, sleep, blocked, ghostVars>>

\* wait_if_blocked past its sleeps, and _acquire up to its await.
Enqueue(r) ==
  /\ phase[r] = "paced" /\ blocked = 0
  /\ Pump(times, Append(waiters, r), [phase EXCEPT ![r] = "queued"])
  /\ UNCHANGED <<tries, sleep, blocked, ghostVars>>

\* Mutant: the block is not looked at again.
AdmittedAlways == TRUE

\* The condition of acquire_if, when the waiter resumes.
Admitted == blocked = 0

\* _acquire resumes: the upstream call begins, or the slot is given back and
\* the request waits for the end of the block.
Resume(r) ==
  /\ phase[r] = "granted"
  /\ Admitted
  /\ Restamp(r)
  /\ Goto(r, "sent")
  /\ tries' = [tries EXCEPT ![r] = @ + 1]
  /\ started' = started \cup {Upcoming(r)}
  /\ since' = [since EXCEPT ![Upcoming(r)] = 0]
  /\ UNCHANGED <<sleep, waiters, timer, blocked>>

TurnedAway(r) ==
  /\ phase[r] = "granted"
  /\ ~Admitted
  /\ Release(r, [phase EXCEPT ![r] = "paced"])
  /\ UNCHANGED <<tries, sleep, blocked, ghostVars>>

\* fn() answers: a stream to consume, or a failure that is not retried.
Answered(r) ==
  /\ phase[r] = "sent"
  /\ \E p \in {"stream", "over"} : Goto(r, p)
  /\ UNCHANGED <<tries, sleep, windowVars, blocked, ghostVars>>

\* fn() fails with a 5xx, a transport error or a 429: a backoff of d, or the
\* last try.  Only a 429 that this limiter answers blocks the provider.
Failed(r, d, throttled) ==
  /\ phase[r] = "sent"
  /\ IF tries[r] < MaxTries
     THEN /\ Goto(r, "backoff")
          /\ sleep' = [sleep EXCEPT ![r] = d]
          /\ blocked' = IF throttled /\ d > blocked THEN d ELSE blocked
     ELSE /\ Goto(r, "over")
          /\ UNCHANGED <<sleep, blocked>>
  /\ UNCHANGED <<tries, windowVars, ghostVars>>

BackoffEnds(r) ==
  /\ phase[r] = "backoff" /\ sleep[r] = 0
  /\ Goto(r, "paced")
  /\ UNCHANGED <<tries, sleep, windowVars, blocked, ghostVars>>

\* The stream ends, or fails with a 429 that blocks the provider for d.
StreamEnds(r, d) ==
  /\ phase[r] = "stream"
  /\ Goto(r, "over")
  /\ blocked' = IF d > blocked THEN d ELSE blocked
  /\ UNCHANGED <<tries, sleep, windowVars, ghostVars>>

\* The task is cancelled where it suspends.  A future that is pending stays in
\* the queue; a slot that was reserved for the request is given back.
Cancel(r) ==
  /\ phase[r] \notin {"new", "over"}
  /\ IF phase[r] = "granted"
     THEN Release(r, [phase EXCEPT ![r] = "over"])
     ELSE /\ Goto(r, "over")
          /\ UNCHANGED windowVars
  /\ UNCHANGED <<tries, sleep, blocked, ghostVars>>

-----------------------------------------------------------------------------
(***************************************************************************)
(* Time.                                                                   *)
(***************************************************************************)

TimerFires ==
  /\ timer = 0
  /\ Pump(times, waiters, phase)
  /\ UNCHANGED <<tries, sleep, blocked, ghostVars>>

\* The event loop resumes a task that is ready within a window.
LoopKeepsUp == \A r \in Requests : phase[r] = "granted" => age[Upcoming(r)] + 1 < Window

Less(n) == IF n \in {0, None} THEN n ELSE n - 1
Older(n) == IF n < Window THEN n + 1 ELSE Window

Tick ==
  /\ LoopKeepsUp
  /\ age' = [a \in Attempts |-> Older(age[a])]
  /\ since' = [a \in Attempts |-> Older(since[a])]
  /\ timer' = Less(timer)
  /\ blocked' = Less(blocked)
  /\ sleep' = [r \in Requests |-> Less(sleep[r])]
  /\ UNCHANGED <<phase, tries, waiters, times, started>>

Finished ==
  /\ \A r \in Requests : phase[r] = "over"
  /\ UNCHANGED vars

Next ==
  \/ \E r \in Requests :
       \/ Arrive(r) \/ TakeSlot(r) \/ Enqueue(r) \/ Resume(r) \/ TurnedAway(r)
       \/ Answered(r) \/ BackoffEnds(r) \/ Cancel(r)
       \/ \E d \in 0..Delay : StreamEnds(r, d) \/ \E t \in BOOLEAN : Failed(r, d, t)
  \/ TimerFires \/ Tick \/ Finished

Spec == Init /\ [][Next]_vars

\* Tasks that are ready run, upstream calls and streams end (they have time
\* limits of their own), timers fire, time passes.
Fairness ==
  /\ \A r \in Requests :
       /\ WF_vars(TakeSlot(r)) /\ WF_vars(Enqueue(r)) /\ WF_vars(BackoffEnds(r))
       /\ WF_vars(Resume(r) \/ TurnedAway(r))
       /\ WF_vars(Answered(r)) /\ WF_vars(StreamEnds(r, 0))
  /\ WF_vars(TimerFires) /\ WF_vars(Tick)

FairSpec == Spec /\ Fairness

-----------------------------------------------------------------------------
(***************************************************************************)
(* Properties.                                                             *)
(***************************************************************************)

\* Never more than Limit upstream calls begin in any interval of one window,
\* counted from when they really begin, with waiters cancelled, turned away
\* and re-stamped in between.
RateBound == Cardinality({a \in started : since[a] < Window}) <= Limit

\* Every slot of the window belongs to a call that was made or to a waiter
\* that is about to make it: nobody who gave up leaves quota used.
NoQuotaLost == \A a \in ToSet(times) :
  a \in started \/ \E r \in Requests : phase[r] = "granted" /\ a = Upcoming(r)

\* A call that waited for the window does not begin under a block that was
\* installed or extended meanwhile.
NeverWhileBlocked == [][started' # started => blocked = 0]_vars

\* A reservation never passes over somebody who queued before, neither when a
\* timer is late nor when slots come back out of order.
FirstComeFirstAdmitted == [][\A r, w \in Requests :
  phase'[r] = "granted" /\ phase[r] # "granted" /\ {phase[w], phase'[w]} = {"queued"}
    => \E i, j \in 1..Len(waiters) : i < j /\ waiters[i] = r /\ waiters[j] = w]_vars

\* In the end every request that arrived is over, whatever is cancelled on the
\* way: neither a stream slot nor the wake-up of the queue is lost.
RequestsEnd == <>[](\A r \in Requests : phase[r] \in {"new", "over"})
=============================================================================
