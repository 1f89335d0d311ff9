--------------------------- MODULE ResponseStreams ---------------------------
(***************************************************************************)
(* One streaming answer of the HTTP API, api/response_streams.py: the      *)
(* handler prefetches the first frame, the response task hands the rest    *)
(* out, a pump task iterates the body while a keepalive clock runs, and a  *)
(* cleanup task closes the body and releases the provider lease, bounded   *)
(* by the deadline of a stop.                                              *)
(*                                                                         *)
(* An action is what one task does between two awaits.  A chunk of the     *)
(* body is one frame, of the kinds the open-block tracker tells apart.     *)
(* The body is external: it may stay silent, end or raise, and while it    *)
(* unwinds a cancellation or is being closed it may hang for ever.         *)
(***************************************************************************)
EXTENDS Integers, FiniteSets, SequencesExt

CONSTANTS
  MaxFrames,      \* bound: frames the body produces
  MaxKeepalives,  \* bound: keepalives written into one response
  MaxCancels      \* bound: cancellations other than the one of uvicorn's shutdown

ASSUME BoundsAssumption == {MaxFrames, MaxKeepalives, MaxCancels} \subseteq Nat

\* message_start, the start of a text or tool block, of any other block,
\* content_block_stop, message_stop.
Frame == {"start", "text", "thinking", "stop", "end"}

\* The frames of a message in the order an adapter emits them.  The kinds matter
\* to the open-block tracker only: without it every frame is a "stop".
MayFollow(f, s) == CASE f = "start" -> s = <<>>
                     [] f = "stop" -> s # <<>> /\ Last(s) \in {"text", "thinking"}
                     [] OTHER -> s # <<>> /\ Last(s) \in {"start", "stop"}

VARIABLES
  surface,       \* what the route and the settings ask for: see Surfaces
  body,          \* the async generator of the provider
  produced,      \* ghost: every frame it yielded
  misused,       \* ghost: it was closed while its __anext__ ran
  pump,          \* _KeepaliveSource._task
  demand,        \* _demand
  pending,       \* _pending: none, open, or settled with a frame or an end
  armed,         \* _next_due is a time
  inMessage,     \* _OpenBlockTracker._in_message
  openBlock,     \* _OpenBlockTracker._frame is a delta
  pc,            \* the task of the request
  item,          \* the chunk it is sending
  awaiting,      \* _awaiting_first_frame
  received,      \* what the client got, in order
  outcome,       \* how the response went, once it is being closed
  cleanup,       \* the cleanup task: none, created, pump, body, done
  closeBounded,  \* its wait_for around the close has a budget
  pumpBounded,   \* its wait for the pump has one
  waitBounded,   \* the wait of the request for the cleanup has one
  abandoned,     \* it is in _ABANDONED_CLEANUPS, its cancellation under way
  released,      \* the lease of the provider generation was given back
  stop,          \* StopDeadline: none, requested, past the hard deadline
  cancels,       \* cancellations so far
  forced         \* uvicorn has cancelled the request at its shutdown bound

bodyVars == <<body, produced, misused>>
sourceVars == <<pump, demand, pending, armed, inMessage, openBlock>>
callVars == <<pc, item, awaiting, outcome>>
closeVars == <<cleanup, closeBounded, pumpBounded, waitBounded, abandoned, released>>
stopVars == <<stop, cancels, forced>>
vars == <<surface, received, bodyVars, sourceVars, callVars, closeVars, stopVars>>

\* A terminal frame emitter and empty deltas exist on the Anthropic surface only.
Surfaces ==
  {s \in [keepalive : BOOLEAN, anthropic : BOOLEAN, frames : BOOLEAN] :
     s.frames => s.keepalive /\ s.anthropic}

Settled == Frame \cup {"ended", "failed"}
Reading == pc \in {"prefetch", "read"}
Stopping == stop # "none"

TypeOK ==
  /\ surface \in Surfaces
  /\ body \in {"suspended", "running", "unwinding", "ended", "failed", "closing", "closed"}
  /\ produced \in Seq(Frame)
  /\ pump \in {"none", "waiting", "calling", "cancelling", "done"}
  /\ pending \in Settled \cup {"none", "open", "cancelled"}
  /\ pc \in {"prefetch", "send", "read", "preclose", "close", "over"}
  /\ item \in Frame \cup {"none", "ping", "delta", "error"}
  /\ received \in Seq(Frame \cup {"ping", "delta", "error"})
  /\ outcome \in {"open", "ended", "error", "failed", "broken", "cut"}
  /\ cleanup \in {"none", "created", "pump", "body", "done"}
  /\ {misused, demand, armed, inMessage, openBlock, awaiting, closeBounded, pumpBounded,
      waitBounded, abandoned, released, forced} \subseteq BOOLEAN
  /\ stop \in {"none", "requested", "past"} /\ cancels \in 0..MaxCancels

\* The handler has asked for the first frame: itself, or through the pump.
Init ==
  /\ surface \in Surfaces
  /\ body = IF surface.keepalive THEN "suspended" ELSE "running"
  /\ produced = <<>> /\ misused = FALSE
  /\ pump = IF surface.keepalive THEN "waiting" ELSE "none"
  /\ demand = surface.keepalive
  /\ pending = IF surface.keepalive THEN "open" ELSE "none"
  /\ armed = surface.keepalive /\ inMessage = FALSE /\ openBlock = FALSE
  /\ pc = "prefetch" /\ item = "none" /\ awaiting = FALSE /\ received = <<>> /\ outcome = "open"
  /\ cleanup = "none" /\ closeBounded = FALSE /\ pumpBounded = FALSE /\ waitBounded = FALSE
  /\ abandoned = FALSE /\ released = FALSE
  /\ stop = "none" /\ cancels = 0 /\ forced = FALSE

(***************************************************************************)
(* The request task.                                                       *)
(***************************************************************************)

\* _close, or _close_pre_start_body in the handler: a cleanup task is created
\* and waited for.
BeginClose(o) ==
  /\ pc' = IF pc = "prefetch" THEN "preclose" ELSE "close"
  /\ outcome' = o
  /\ cleanup' = "created" /\ waitBounded' = Stopping
  /\ UNCHANGED <<item, awaiting, closeBounded, pumpBounded, abandoned, released>>

\* A failure the client learns of inside the stream.
\* Mutant: a stream that only a keepalive started may end like any other.
ReportedUnlessEnded(r) == r = "failed" /\ (awaiting \/ surface.anthropic)
Reported(r) == r \in {"ended", "failed"} /\ (awaiting \/ (r = "failed" /\ surface.anthropic))

\* What follows the result of the body: a frame is sent, an end or a failure is
\* answered with a status, reported in the stream, or ends it.
Continue(r) ==
  \/ /\ r \in Frame
     /\ pc' = "send" /\ item' = r /\ awaiting' = FALSE
     /\ UNCHANGED <<outcome, closeVars>>
  \/ /\ pc = "read" /\ Reported(r)
     /\ pc' = "send" /\ item' = "error"
     /\ UNCHANGED <<awaiting, outcome, closeVars>>
  \/ /\ pc = "prefetch" /\ r \notin Frame
     /\ BeginClose("error")
  \/ /\ pc = "read" /\ r \notin Frame /\ ~Reported(r)
     /\ BeginClose(IF r = "ended" THEN "ended" ELSE "broken")

\* The chunk is sent, and the next one asked for at once: of the pump, unless
\* the last demand is still open behind a keepalive, or of the body.
Sent ==
  /\ pc = "send"
  /\ received' = Append(received, item)
  /\ \/ /\ item = "error"
        /\ BeginClose("failed")
        /\ UNCHANGED <<bodyVars, sourceVars>>
     \/ /\ item # "error"
        /\ pc' = "read"
        /\ UNCHANGED <<item, awaiting, outcome, closeVars, produced, misused, pump, armed, inMessage, openBlock>>
        /\ \/ surface.keepalive /\ pending = "none" /\ pending' = "open" /\ demand' = TRUE /\ UNCHANGED body
           \/ surface.keepalive /\ pending # "none" /\ UNCHANGED <<pending, demand, body>>
           \/ ~surface.keepalive /\ body' = "running" /\ UNCHANGED <<pending, demand>>
  /\ UNCHANGED <<surface, stopVars>>

\* _OpenBlockTracker._observe, for the frame the reader takes.
Feed(f) ==
  /\ inMessage' = IF surface.frames THEN f = "start" \/ (inMessage /\ f # "end") ELSE inMessage
  /\ openBlock' = (surface.frames /\ f = "text" /\ inMessage)

\* next() finds the future settled.
Take ==
  /\ Reading /\ pending \in Settled
  /\ pending' = "none"
  /\ \/ pending \in Frame /\ armed' = TRUE /\ Feed(pending)
     \/ pending \notin Frame /\ UNCHANGED <<armed, inMessage, openBlock>>
  /\ Continue(pending)
  /\ UNCHANGED <<surface, received, bodyVars, pump, demand, stopVars>>

\* next() times out first.  The demand stays open: the frame comes later.
KeepaliveFrame == IF openBlock THEN "delta" ELSE "ping"
KeepaliveDue ==
  /\ Reading /\ pending = "open" /\ armed
  /\ Cardinality({i \in DOMAIN received : received[i] \in {"ping", "delta"}}) < MaxKeepalives
  /\ pc' = "send" /\ item' = KeepaliveFrame
  /\ awaiting' = (awaiting \/ pc = "prefetch")
  /\ UNCHANGED <<surface, received, bodyVars, sourceVars, outcome, closeVars, stopVars>>

\* The silence has lasted max_seconds: no keepalive until a real frame.
KeepaliveCapped ==
  /\ Reading /\ pending = "open" /\ armed
  /\ armed' = FALSE
  /\ UNCHANGED <<surface, received, bodyVars, pump, demand, pending, inMessage, openBlock, callVars, closeVars, stopVars>>

\* The task is cancelled.  With a pump its await ends at once; without one the
\* body unwinds first, and a second cancellation ends that too.  The wait for a
\* cleanup absorbs it, and is bounded from then on if a stop was requested.
Cancelled ==
  \/ /\ pc = "send" \/ (Reading /\ surface.keepalive)
     /\ BeginClose("cut")
     /\ UNCHANGED body
  \/ /\ Reading /\ body = "running" /\ ~surface.keepalive
     /\ body' = "unwinding"
     /\ UNCHANGED <<callVars, closeVars>>
  \/ /\ Reading /\ body = "unwinding" /\ ~surface.keepalive
     /\ body' = "failed"
     /\ BeginClose("cut")
  \/ /\ pc \in {"preclose", "close"}
     /\ outcome' = IF pc = "preclose" THEN "cut" ELSE outcome
     /\ waitBounded' = Stopping
     /\ UNCHANGED <<body, pc, item, awaiting, cleanup, closeBounded, pumpBounded, abandoned, released>>

\* The client disconnects, or its send fails.
Cancel ==
  /\ cancels < MaxCancels
  /\ cancels' = cancels + 1
  /\ Cancelled
  /\ UNCHANGED <<surface, received, produced, misused, sourceVars, stop, forced>>

\* uvicorn cancels what still runs at its graceful-shutdown bound, once.
ForceCancel ==
  /\ Stopping /\ ~forced
  /\ forced' = TRUE
  /\ Cancelled
  /\ UNCHANGED <<surface, received, produced, misused, sourceVars, stop, cancels>>

\* _wait_for_cleanup finds the cleanup done.  The handler then answers or
\* raises, and its lease is given back either way.
Closed ==
  /\ pc \in {"preclose", "close"} /\ cleanup = "done"
  /\ pc' = "over"
  /\ released' = (released \/ pc = "preclose")
  /\ UNCHANGED <<surface, received, bodyVars, sourceVars, item, awaiting, outcome,
                 cleanup, closeBounded, pumpBounded, waitBounded, abandoned, stopVars>>

\* _abandon_cleanup at the deadline: the cleanup is cancelled and left alone.
Abandon ==
  /\ pc \in {"preclose", "close"} /\ waitBounded /\ stop = "past"
  /\ cleanup \in {"pump", "body"}
  /\ abandoned' = TRUE
  /\ pc' = "over"
  /\ released' = (released \/ pc = "preclose")
  /\ UNCHANGED <<surface, received, bodyVars, sourceVars, item, awaiting, outcome,
                 cleanup, closeBounded, pumpBounded, waitBounded, stopVars>>

(***************************************************************************)
(* The body, and the pump that iterates it.                                *)
(***************************************************************************)

\* The pump takes a demand and calls __anext__.
PumpCalls ==
  /\ pump = "waiting" /\ demand
  /\ demand' = FALSE /\ pump' = "calling" /\ body' = "running"
  /\ UNCHANGED <<surface, received, produced, misused, pending, armed, inMessage, openBlock,
                 callVars, closeVars, stopVars>>

\* __anext__ returns or raises.  The pump settles the future it was called for;
\* without a pump the request task goes on with the result.
BodyYields(f) ==
  /\ body = "running" /\ Len(produced) < MaxFrames
  /\ IF surface.frames THEN MayFollow(f, produced) ELSE f = "stop"
  /\ body' = "suspended" /\ produced' = Append(produced, f)
  /\ \/ /\ pump = "calling" /\ pump' = "waiting" /\ pending' = f
        /\ UNCHANGED <<callVars, closeVars>>
     \/ /\ pump = "none" /\ Continue(f)
        /\ UNCHANGED <<pump, pending>>
  /\ UNCHANGED <<surface, received, misused, demand, armed, inMessage, openBlock, stopVars>>

BodyStops(r) ==
  /\ body = "running"
  /\ body' = r
  /\ \/ /\ pump = "calling" /\ pump' = "done" /\ pending' = r
        /\ UNCHANGED <<callVars, closeVars>>
     \/ /\ pump = "none" /\ Continue(r)
        /\ UNCHANGED <<pump, pending>>
  /\ UNCHANGED <<surface, received, produced, misused, demand, armed, inMessage, openBlock, stopVars>>

\* The cancelled pump ends, once the body has unwound; _pump_done releases a
\* reader that still waits.
PumpEnds ==
  /\ pump = "cancelling"
  /\ pump' = "done"
  /\ body' = IF body = "unwinding" THEN "failed" ELSE body
  /\ pending' = IF pending = "open" THEN "cancelled" ELSE pending
  /\ UNCHANGED <<surface, received, produced, misused, demand, armed, inMessage, openBlock,
                 callVars, closeVars, stopVars>>

\* The body unwinds in the request task, which ends by its cancellation.
Unwound ==
  /\ body = "unwinding" /\ pump = "none"
  /\ body' = "failed"
  /\ BeginClose("cut")
  /\ UNCHANGED <<surface, received, produced, misused, sourceVars, stopVars>>

(***************************************************************************)
(* The cleanup task.  The one of a started response releases the lease     *)
(* when the body is closed, given up at the deadline, or abandoned.        *)
(***************************************************************************)

CleanupEnds ==
  /\ cleanup' = "done"
  /\ released' = (released \/ pc # "preclose")

\* An open generator is closed; closing one that has ended does nothing, and
\* closing one that runs raises, which is only traced.
CloseBody ==
  /\ pending' = "none"
  /\ \/ /\ body = "suspended" /\ body' = "closing" /\ cleanup' = "body"
        /\ UNCHANGED <<misused, released>>
     \/ /\ body \in {"ended", "failed"} /\ CleanupEnds
        /\ UNCHANGED <<body, misused>>
     \/ /\ body \in {"running", "unwinding"} /\ CleanupEnds
        /\ misused' = TRUE /\ UNCHANGED body

\* Mutant: the body is closed without waiting for the pump.
CleanupStartAtOnce ==
  /\ cleanup = "created"
  /\ closeBounded' = (pc = "close" /\ Stopping)
  /\ pump' = IF pump \in {"waiting", "calling"} THEN "cancelling" ELSE pump
  /\ CloseBody
  /\ UNCHANGED <<surface, received, produced, demand, armed, inMessage, openBlock, pumpBounded,
                 waitBounded, abandoned, callVars, stopVars>>

\* The pump is cancelled first if it has not ended.
CleanupStart ==
  /\ cleanup = "created"
  /\ closeBounded' = (pc = "close" /\ Stopping)
  /\ \/ /\ pump \in {"waiting", "calling"}
        /\ pump' = "cancelling"
        /\ body' = IF pump = "calling" THEN "unwinding" ELSE body
        /\ cleanup' = "pump" /\ pumpBounded' = Stopping
        /\ UNCHANGED <<pending, misused, released>>
     \/ /\ pump \in {"none", "done"}
        /\ CloseBody
        /\ UNCHANGED <<pump, pumpBounded>>
  /\ UNCHANGED <<surface, received, produced, demand, armed, inMessage, openBlock,
                 waitBounded, abandoned, callVars, stopVars>>

PumpSettled ==
  /\ cleanup = "pump" /\ pump = "done" /\ ~abandoned
  /\ CloseBody
  /\ UNCHANGED <<surface, received, produced, pump, demand, armed, inMessage, openBlock, callVars,
                 closeBounded, pumpBounded, waitBounded, abandoned, stopVars>>

\* The wait for the pump has run out: it keeps the body.
PumpAbandoned ==
  /\ cleanup = "pump" /\ pump # "done" /\ pumpBounded /\ stop = "past"
  /\ pending' = "none"
  /\ CleanupEnds
  /\ UNCHANGED <<surface, received, bodyVars, pump, demand, armed, inMessage, openBlock, callVars,
                 closeBounded, pumpBounded, waitBounded, abandoned, stopVars>>

BodyCloses ==
  /\ cleanup = "body" /\ ~abandoned
  /\ body' = "closed"
  /\ CleanupEnds
  /\ UNCHANGED <<surface, received, produced, misused, sourceVars, callVars,
                 closeBounded, pumpBounded, waitBounded, abandoned, stopVars>>

\* The close is interrupted: by its own timeout, or by the cancellation of an
\* abandoned cleanup.  The lease is released all the same.
Interrupted ==
  /\ cleanup \in {"pump", "body"}
  /\ body' = IF body = "closing" THEN "closed" ELSE body
  /\ CleanupEnds
  /\ UNCHANGED <<surface, received, produced, misused, sourceVars, callVars,
                 closeBounded, pumpBounded, waitBounded, abandoned, stopVars>>
CloseTimesOut == closeBounded /\ stop = "past" /\ Interrupted
\* Mutant: any cancellation of the cleanup propagates at once, unreleased.
CleanupCancelledUnreleased ==
  /\ abandoned /\ cleanup \in {"pump", "body"}
  /\ body' = IF body = "closing" THEN "closed" ELSE body
  /\ cleanup' = "done"
  /\ UNCHANGED <<surface, received, produced, misused, sourceVars, callVars,
                 closeBounded, pumpBounded, waitBounded, abandoned, released, stopVars>>
CleanupCancelled == abandoned /\ Interrupted

(***************************************************************************)
(* The stop deadline.                                                      *)
(***************************************************************************)

RequestStop ==
  /\ stop = "none"
  /\ stop' = "requested"
  /\ UNCHANGED <<surface, received, bodyVars, sourceVars, callVars, closeVars, cancels, forced>>

DeadlinePasses ==
  /\ stop = "requested"
  /\ stop' = "past"
  /\ UNCHANGED <<surface, received, bodyVars, sourceVars, callVars, closeVars, cancels, forced>>

Next ==
  \/ Sent \/ Take \/ KeepaliveDue \/ KeepaliveCapped \/ Cancel \/ ForceCancel \/ Closed \/ Abandon
  \/ PumpCalls \/ PumpEnds \/ Unwound
  \/ \E f \in Frame : BodyYields(f)
  \/ \E r \in {"ended", "failed"} : BodyStops(r)
  \/ CleanupStart \/ PumpSettled \/ PumpAbandoned \/ BodyCloses \/ CloseTimesOut \/ CleanupCancelled
  \/ RequestStop \/ DeadlinePasses

Spec == Init /\ [][Next]_vars

(***************************************************************************)
(* Safety.                                                                 *)
(***************************************************************************)

\* The frames among what the client received.
FramesIn(s) ==
  LET upTo[i \in 0..Len(s)] ==
        IF i = 0 THEN <<>>
        ELSE IF s[i] \in Frame THEN Append(upTo[i - 1], s[i]) ELSE upTo[i - 1]
  IN upTo[Len(s)]
FramesSent == FramesIn(received)

\* Frames reach the client in the order and number the body yields them, with at
\* most one on its way: a keepalive that wins a race against a frame neither
\* drops, doubles nor overtakes it.
NothingLost ==
  /\ IsPrefix(FramesSent, produced)
  /\ Len(produced) <= Len(FramesSent) + 1

\* The client learns how the body went: a response only ends like a complete one
\* when the body ended after a frame and all of it was sent.  What went wrong
\* before any byte is answered with a status, later it is the last thing in the
\* stream, once; the OpenAI adapters, which write their own ending, break off.
VerdictTrue ==
  /\ outcome = "ended" => body = "ended" /\ FramesSent = produced /\ produced # <<>>
  /\ outcome = "error" => received = <<>>
  /\ outcome = "broken" => body = "failed" /\ ~surface.anthropic /\ FramesSent # <<>>
  /\ outcome = "failed" => body = "failed" \/ produced = <<>>
  /\ \A i \in DOMAIN received : received[i] = "error" =>
       i = Len(received) /\ outcome \in {"failed", "cut"}

\* An empty delta is only written inside a block of text or tool arguments that
\* the client has open.
InOpenBlock(i) == \E j \in 1..(i - 1) :
  /\ received[j] = "text"
  /\ \A k \in (j + 1)..(i - 1) : received[k] \in {"delta", "ping"}
  /\ \E k \in 1..(j - 1) : received[k] = "start" /\ \A m \in k..j : received[m] # "end"
DeltasFit == \A i \in DOMAIN received : received[i] = "delta" => InOpenBlock(i)

ClientSeesTheBody == NothingLost /\ VerdictTrue /\ DeltasFit

\* The provider client stays leased while its stream may still run, unless the
\* deadline of a stop has passed, and no body is closed while its __anext__ runs.
LeaseOutlivesBody ==
  /\ ~misused
  /\ released /\ stop # "past" => body \in {"ended", "failed", "closed"}

(***************************************************************************)
(* Liveness.  A task that can run is run, timers fire, and uvicorn cancels *)
(* what is left; the body need not answer, unwind or close.                *)
(***************************************************************************)

FairSpec ==
  /\ Spec
  /\ WF_vars(DeadlinePasses) /\ WF_vars(ForceCancel) /\ WF_vars(Closed) /\ WF_vars(Abandon)
  /\ WF_vars(CleanupStart) /\ WF_vars(PumpSettled) /\ WF_vars(PumpAbandoned)
  /\ WF_vars(CloseTimesOut) /\ WF_vars(CleanupCancelled)
  /\ WF_vars(body # "unwinding" /\ PumpEnds)

\* The lease is given back: after a stop although the upstream stays silent (with
\* a pump: without one the request itself waits for the body to unwind), and
\* without a stop when the body does unwind and close.
LeaseIsReleased ==
  /\ (Stopping /\ surface.keepalive) ~> released
  /\ WF_vars(PumpEnds) /\ WF_vars(Unwound) /\ WF_vars(BodyCloses) =>
       ((outcome # "open") ~> released)
=============================================================================
