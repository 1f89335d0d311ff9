------------------------ MODULE ResponseStreams_proofs ------------------------
(***************************************************************************)
(* Proofs about ResponseStreams, for any number of frames, keepalives and  *)
(* cancellations.                                                          *)
(***************************************************************************)
EXTENDS ResponseStreams, SequenceTheorems, WellFoundedInduction, TLAPS

(***************************************************************************)
(* The inductive invariant.                                                *)
(***************************************************************************)
Over == {"ended", "failed", "closed"}
Open == pc \in {"prefetch", "send", "read"}
SendsFrame == pc = "send" /\ item \in Frame

\* A response is closed by one cleanup, which the request leaves only when it is
\* done or abandoned at the deadline.
Phases ==
  /\ cleanup = "none" <=> Open
  /\ outcome = "open" <=> Open
  /\ abandoned => stop = "past" /\ pc = "over"
  /\ pc = "over" => cleanup = "done" \/ abandoned
  /\ surface.keepalive <=> pump # "none"
  /\ pc = "prefetch" => received = <<>> /\ item = "none" /\ ~awaiting
  /\ pc = "send" => item # "none"

\* Who iterates the body: the pump while it is calling, or, without one, the
\* request while it reads.  The cleanup closes it when neither does.
Iterated ==
  /\ body = "running" => pump = "calling" \/ (pump = "none" /\ Reading)
  /\ body = "unwinding" => pump = "cancelling" \/ (pump = "none" /\ Reading)
  /\ pump = "calling" => body = "running" /\ pending = "open" /\ ~demand
  /\ pump = "waiting" => body = "suspended" /\ (demand => pending = "open")
  /\ pump \in {"waiting", "calling"} => cleanup \in {"none", "created"}
  /\ pump = "cancelling" => cleanup \in {"pump", "done"}
  /\ pump = "none" => pending = "none"
  /\ pump = "none" /\ pc = "send" =>
       body = "suspended" \/ (item = "error" /\ body \in {"ended", "failed"})
  /\ cleanup = "pump" => pump \in {"cancelling", "done"}
  /\ cleanup = "body" <=> body = "closing"
  /\ body = "closed" => cleanup = "done"

\* The body is over when the cleanup is done, but for the deadline.
Lease ==
  /\ ~misused
  /\ cleanup = "done" /\ stop # "past" => body \in Over
  /\ released => cleanup = "done" \/ stop = "past"

\* One frame at most is between the body and the client: settled, or being sent.
Flow ==
  /\ produced = FramesSent \/ \E f \in Frame : produced = Append(FramesSent, f)
  /\ SendsFrame => produced = Append(FramesSent, item) /\ pending = "none"
  /\ pending \in Frame => produced = Append(FramesSent, pending)
  /\ pending = "open" => produced = FramesSent
  /\ Open /\ ~SendsFrame /\ pending \notin Frame => produced = FramesSent

\* How the body went is known before it is told, and only a keepalive can be in
\* the stream before the first frame.
Verdict ==
  /\ VerdictTrue
  /\ pending \in {"ended", "failed"} => body = pending
  /\ pc = "send" /\ item = "error" =>
       pending = "none" /\ (body = "failed" \/ (body = "ended" /\ produced = <<>>))
  /\ outcome = "failed" => body = "failed" \/ (body = "ended" /\ produced = <<>>)
  /\ pc \in {"send", "read"} /\ ~SendsFrame => (awaiting <=> FramesSent = <<>>)
  /\ SendsFrame => ~awaiting
  /\ outcome = "open" => \A i \in 1..Len(received) : received[i] # "error"

\* What the tracker believes holds for what the client has and is being sent.
Shown == IF SendsFrame THEN Append(received, item) ELSE received
MessageIn(s) == \E k \in 1..Len(s) : s[k] = "start" /\ \A m \in k..Len(s) : s[m] # "end"
BlockIn(s) == \E j \in 1..Len(s) :
  /\ s[j] = "text"
  /\ \A k \in (j + 1)..Len(s) : s[k] \in {"delta", "ping"}
  /\ \E k \in 1..(j - 1) : s[k] = "start" /\ \A m \in k..j : s[m] # "end"
Tracked ==
  /\ DeltasFit
  /\ inMessage \/ openBlock => surface.frames
  /\ pc = "prefetch" => ~inMessage /\ ~openBlock
  /\ pc \in {"send", "read"} => (inMessage => MessageIn(Shown)) /\ (openBlock => BlockIn(Shown))
  /\ pc = "send" /\ item = "delta" => openBlock

Inductive ==
  /\ TypeOK /\ Phases /\ Iterated /\ Lease /\ Flow /\ Verdict /\ Tracked

-----------------------------------------------------------------------------
(***************************************************************************)
(* The frames in a sequence.                                               *)
(***************************************************************************)

\* A set of numbers has a least one.
LEMMA NatMinimum ==
  ASSUME NEW T \in SUBSET Nat, T # {}
  PROVE  \E k \in T : \A i \in T : k <= i
<1> DEFINE R == OpToRel(<, Nat)
<1>1. PICK k \in T : \A i \in T : <<i, k>> \notin R
  BY NatLessThanWellFounded, WFMin
<1>2. \A i \in T : i < k => <<i, k>> \in R
  BY <1>1 DEF OpToRel
<1> HIDE DEF R
<1>3. ASSUME NEW i \in T PROVE k <= i
  <2>1. ~(i < k)
    BY <1>1, <1>2
  <2>2. i \in Nat /\ k \in Nat
    OBVIOUS
  <2> QED BY <2>1, <2>2
<1> QED BY <1>3

\* Induction, for a set of numbers.
LEMMA NatByInduction ==
  ASSUME NEW T, 0 \in T, \A n \in Nat : n \in T => n + 1 \in T
  PROVE  Nat \subseteq T
<1> SUFFICES ASSUME Nat \ T # {} PROVE FALSE
  OBVIOUS
<1>1. PICK k \in Nat \ T : \A i \in Nat \ T : k <= i
  BY NatMinimum
<1>2. k # 0 /\ k - 1 \in Nat /\ ~(k <= k - 1) /\ (k - 1) + 1 = k
  BY <1>1
<1>3. k - 1 \in T
  BY <1>1, <1>2
<1> QED BY <1>1, <1>2, <1>3

\* FramesIn is the last value of a function that is defined by recursion.
UpTo(s) == CHOOSE g : g = [i \in 0..Len(s) |-> IF i = 0 THEN <<>>
        ELSE IF s[i] \in Frame THEN Append(g[i - 1], s[i]) ELSE g[i - 1]]

LEMMA FramesInUpTo == ASSUME NEW s PROVE FramesIn(s) = UpTo(s)[Len(s)]
  BY DEF FramesIn, UpTo

\* There is one, for every sequence.
LEMMA UpToFacts ==
  ASSUME NEW S, NEW s \in Seq(S)
  PROVE  UpTo(s) = [i \in 0..Len(s) |-> IF i = 0 THEN <<>>
        ELSE IF s[i] \in Frame THEN Append(UpTo(s)[i - 1], s[i]) ELSE UpTo(s)[i - 1]]
<1> DEFINE Step(g, i) == IF i = 0 THEN <<>>
        ELSE IF s[i] \in Frame THEN Append(g[i - 1], s[i]) ELSE g[i - 1]
    Is(g, n) == g = [i \in 0..n |-> Step(g, i)]
    T == {n \in Nat : \E g : Is(g, n)}
<1>1. 0 \in T
  <2> DEFINE g == [i \in 0..0 |-> <<>>]
  <2>1. Is(g, 0)
    OBVIOUS
  <2> HIDE DEF g, Is
  <2> QED BY <2>1
<1>2. ASSUME NEW n \in Nat, n \in T PROVE n + 1 \in T
  <2>1. PICK g : Is(g, n)
    BY <1>2
  <2> DEFINE h == [i \in 0..(n+1) |-> IF i = n + 1 THEN Step(g, n + 1) ELSE g[i]]
  <2>2. \A i \in 0..(n+1) : h[i] = Step(h, i)
    <3> SUFFICES ASSUME NEW i \in 0..(n+1) PROVE h[i] = Step(h, i)
      OBVIOUS
    <3>1. CASE i = 0
      BY <2>1, <3>1
    <3>2. CASE i # 0 
      <4>0. i - 1 \in 0..n /\ i-1 # n+1 /\ i-1 \in 0..(n+1)
        BY <3>2
      <4>1. h[i - 1] = g[i - 1]
        BY <4>0
      <4>2. h[i] = Step(g, i)
        <5>1. CASE i = n + 1
          BY <5>1
        <5>2. CASE i # n+1
          <6>1. i \in 0..n /\ h[i] = g[i]
            BY <5>2
          <6>2. \A j \in 0..n : g[j] = Step(g, j)
            BY <2>1
          <6> QED BY <6>1, <6>2
        <5> QED BY <5>1, <5>2
      <4> QED BY <3>2, <4>1, <4>2
    <3> QED BY <3>1, <3>2
  <2>3. Is(h, n+1)
    BY <2>2
  <2> HIDE DEF h, Is
  <2> QED BY <2>3
<1> HIDE DEF T
<1>3. Len(s) \in T
  BY <1>1, <1>2, NatByInduction
<1>4. \E g : Is(g, Len(s))
  BY <1>3 DEF T
<1> QED BY <1>4 DEF UpTo

\* It starts with nothing, and takes the frames one by one.
LEMMA UpToSteps ==
  ASSUME NEW S, NEW s \in Seq(S)
  PROVE  /\ UpTo(s)[0] = <<>>
         /\ \A i \in 1..Len(s) : UpTo(s)[i] =
              IF s[i] \in Frame THEN Append(UpTo(s)[i - 1], s[i]) ELSE UpTo(s)[i - 1]
<1> DEFINE g == UpTo(s)
<1>1. g = [i \in 0..Len(s) |-> IF i = 0 THEN <<>>
        ELSE IF s[i] \in Frame THEN Append(g[i - 1], s[i]) ELSE g[i - 1]]
  BY UpToFacts
<1> HIDE DEF g
<1>2. 0 \in 0..Len(s)
  OBVIOUS
<1>3. g[0] = <<>>
  BY <1>1, <1>2
<1>4. ASSUME NEW i \in 1..Len(s)
      PROVE  g[i] = IF s[i] \in Frame THEN Append(g[i - 1], s[i]) ELSE g[i - 1]
  <2>1. i \in 0..Len(s) /\ i # 0
    OBVIOUS
  <2> QED BY <1>1, <2>1
<1> QED BY <1>3, <1>4 DEF g

\* No frames in an empty sequence.
LEMMA FramesInEmpty == FramesIn(<<>>) = <<>>
<1>1. <<>> \in Seq({}) /\ Len(<<>>) = 0
  OBVIOUS
<1> QED BY <1>1, UpToSteps, FramesInUpTo

\* What it gives are frames.
LEMMA FramesInType ==
  ASSUME NEW S, NEW s \in Seq(S)
  PROVE  FramesIn(s) \in Seq(Frame)
<1> DEFINE g == UpTo(s)
           T == {i \in Nat : i <= Len(s) => g[i] \in Seq(Frame)}
<1>1. 0 \in T
  <2>1. g[0] = <<>> /\ <<>> \in Seq(Frame)
    BY UpToSteps
  <2> HIDE DEF g
  <2> QED BY <2>1
<1>2. ASSUME NEW n \in Nat, n \in T PROVE n + 1 \in T
  <2> SUFFICES ASSUME n + 1 <= Len(s) PROVE g[n + 1] \in Seq(Frame)
    OBVIOUS
  <2>1. n + 1 \in 1..Len(s) /\ (n + 1) - 1 = n /\ g[n] \in Seq(Frame)
    BY <1>2
  <2>2. g[n + 1] = IF s[n + 1] \in Frame THEN Append(g[n], s[n + 1]) ELSE g[n]
    BY <2>1, UpToSteps
  <2> QED BY <2>1, <2>2
<1> HIDE DEF T
<1>3. Len(s) \in T
  BY <1>1, <1>2, NatByInduction
<1> QED BY <1>3, FramesInUpTo DEF T

\* A frame that is appended is the last one; anything else does not count.
LEMMA FramesInAppend ==
  ASSUME NEW S, NEW s \in Seq(S), NEW x \in S
  PROVE  FramesIn(Append(s, x)) = IF x \in Frame THEN Append(FramesIn(s), x) ELSE FramesIn(s)
<1> DEFINE t == Append(s, x)
           g == UpTo(s)
           h == UpTo(t)
           T == {i \in Nat : i <= Len(s) => g[i] = h[i]}
<1>0. t \in Seq(S) /\ Len(t) = Len(s) + 1 /\ t[Len(s) + 1] = x /\ \A i \in 1..Len(s) : t[i] = s[i]
  OBVIOUS
<1> HIDE DEF t
<1>1. 0 \in T
  BY <1>0, UpToSteps
<1>2. ASSUME NEW n \in Nat, n \in T PROVE n + 1 \in T
  <2> SUFFICES ASSUME n + 1 <= Len(s) PROVE g[n + 1] = h[n + 1]
    OBVIOUS
  <2>1. n + 1 \in 1..Len(s) /\ n + 1 \in 1..Len(t) /\ (n + 1) - 1 = n /\ g[n] = h[n]
    BY <1>0, <1>2
  <2>2. g[n + 1] = IF s[n + 1] \in Frame THEN Append(g[n], s[n + 1]) ELSE g[n]
    BY <2>1, UpToSteps
  <2>3. h[n + 1] = IF t[n + 1] \in Frame THEN Append(h[n], t[n + 1]) ELSE h[n]
    BY <1>0, <2>1, UpToSteps
  <2> QED BY <1>0, <2>1, <2>2, <2>3
<1> HIDE DEF T
<1>3. Len(s) \in T
  BY <1>1, <1>2, NatByInduction
<1>4. g[Len(s)] = h[Len(s)]
  BY <1>3 DEF T
<1>5. Len(s) + 1 \in 1..Len(t) /\ (Len(s) + 1) - 1 = Len(s)
  BY <1>0
<1>6. h[Len(s) + 1] = IF t[Len(s) + 1] \in Frame THEN Append(h[Len(s)], t[Len(s) + 1])
    ELSE h[Len(s)]
  BY <1>0, <1>5, UpToSteps
<1>7. FramesIn(s) = g[Len(s)] /\ FramesIn(t) = h[Len(s) + 1]
  BY <1>0, FramesInUpTo
<1> QED BY <1>0, <1>4, <1>6, <1>7 DEF t

LEMMA ControlKeeps ==
  ASSUME TypeOK, Phases, Iterated, Lease, [Next]_vars
  PROVE  TypeOK' /\ Phases' /\ Iterated' /\ Lease'
<1> USE BoundsAssumption DEF TypeOK, Phases, Iterated, Lease, Open, Over, Reading, Stopping,
    Settled,
        bodyVars, sourceVars, callVars, closeVars, stopVars
<1>1. ASSUME Sent PROVE TypeOK' /\ Phases' /\ Iterated' /\ Lease'
  <2>1. TypeOK'
    <3>1. produced' \in Seq(Frame) /\ received' \in Seq(Frame \cup {"ping", "delta", "error"})
      BY <1>1 DEF Sent, BeginClose
    <3>2. /\ pc' \in {"prefetch", "send", "read", "preclose", "close", "over"}
          /\ item' \in Frame \cup {"none", "ping", "delta", "error"}
          /\ outcome' \in {"open", "ended", "error", "failed", "broken", "cut"}
          /\ cleanup' \in {"none", "created", "pump", "body", "done"}
      BY <1>1 DEF Sent, BeginClose
    <3>3. /\ surface' \in Surfaces
          /\ body' \in {"suspended", "running", "unwinding", "ended", "failed", "closing",
              "closed"}
          /\ pump' \in {"none", "waiting", "calling", "cancelling", "done"}
          /\ pending' \in Settled \cup {"none", "open", "cancelled"}
      BY <1>1 DEF Sent, BeginClose
    <3>4. /\ {misused', demand', armed', inMessage', openBlock'} \subseteq BOOLEAN
          /\ {awaiting', abandoned', released', forced'} \subseteq BOOLEAN
      BY <1>1 DEF Sent, BeginClose
    <3>5. {closeBounded', pumpBounded', waitBounded'} \subseteq BOOLEAN
      BY <1>1 DEF Sent, BeginClose
    <3>6. stop' \in {"none", "requested", "past"} /\ cancels' \in 0..MaxCancels
      BY <1>1 DEF Sent, BeginClose
    <3> QED BY <3>1, <3>2, <3>3, <3>4, <3>5, <3>6
  <2>2. Phases'
    BY <1>1 DEF Sent, BeginClose, Frame
  <2>3. Iterated'
    BY <1>1 DEF Sent, BeginClose, Frame
  <2>4. Lease'
    BY <1>1 DEF Sent, BeginClose, Frame
  <2> QED BY <2>1, <2>2, <2>3, <2>4
<1>2. ASSUME Take PROVE TypeOK' /\ Phases' /\ Iterated' /\ Lease'
  <2>1. TypeOK'
    <3>1. /\ UNCHANGED <<surface, received, bodyVars, pump, demand, stopVars>>
          /\ pending' = "none" /\ Continue(pending)
          /\ {armed', inMessage', openBlock'} \subseteq BOOLEAN
      BY <1>2 DEF Take, Feed
    <3> QED BY <1>2, <3>1 DEF Take, Continue, BeginClose, Reported, Frame
  <2>2. Phases'
    BY <1>2 DEF Take, Feed, Continue, BeginClose, Reported, Frame
  <2>3. Iterated'
    BY <1>2 DEF Take, Feed, Continue, BeginClose, Reported, Frame
  <2>4. Lease'
    BY <1>2 DEF Take, Feed, Continue, BeginClose, Reported, Frame
  <2> QED BY <2>1, <2>2, <2>3, <2>4
<1>3. ASSUME KeepaliveDue PROVE TypeOK' /\ Phases' /\ Iterated' /\ Lease'
  <2>1. TypeOK'
    BY <1>3 DEF KeepaliveDue, KeepaliveFrame, Frame
  <2>2. Phases'
    BY <1>3 DEF KeepaliveDue, KeepaliveFrame
  <2>3. Iterated'
    BY <1>3 DEF KeepaliveDue, KeepaliveFrame
  <2>4. Lease'
    BY <1>3 DEF KeepaliveDue, KeepaliveFrame
  <2> QED BY <2>1, <2>2, <2>3, <2>4
<1>4. ASSUME KeepaliveCapped PROVE TypeOK' /\ Phases' /\ Iterated' /\ Lease'
  <2>1. TypeOK'
    BY <1>4 DEF KeepaliveCapped, Frame
  <2>2. Phases'
    BY <1>4 DEF KeepaliveCapped
  <2>3. Iterated'
    BY <1>4 DEF KeepaliveCapped
  <2>4. Lease'
    BY <1>4 DEF KeepaliveCapped
  <2> QED BY <2>1, <2>2, <2>3, <2>4
<1>5. ASSUME Cancel PROVE TypeOK' /\ Phases' /\ Iterated' /\ Lease'
  <2>1. TypeOK'
    <3>1. produced' \in Seq(Frame) /\ received' \in Seq(Frame \cup {"ping", "delta", "error"})
      BY <1>5 DEF Cancel, Cancelled, BeginClose
    <3>2. /\ pc' \in {"prefetch", "send", "read", "preclose", "close", "over"}
          /\ item' \in Frame \cup {"none", "ping", "delta", "error"}
          /\ outcome' \in {"open", "ended", "error", "failed", "broken", "cut"}
          /\ cleanup' \in {"none", "created", "pump", "body", "done"}
      BY <1>5 DEF Cancel, Cancelled, BeginClose
    <3>3. /\ surface' \in Surfaces
          /\ body' \in {"suspended", "running", "unwinding", "ended", "failed", "closing",
              "closed"}
          /\ pump' \in {"none", "waiting", "calling", "cancelling", "done"}
          /\ pending' \in Settled \cup {"none", "open", "cancelled"}
      BY <1>5 DEF Cancel, Cancelled, BeginClose
    <3>4. /\ {misused', demand', armed', inMessage', openBlock'} \subseteq BOOLEAN
          /\ {awaiting', abandoned', released', forced'} \subseteq BOOLEAN
      BY <1>5 DEF Cancel, Cancelled, BeginClose
    <3>5. {closeBounded', pumpBounded', waitBounded'} \subseteq BOOLEAN
      BY <1>5 DEF Cancel, Cancelled, BeginClose
    <3>6. stop' \in {"none", "requested", "past"} /\ cancels' \in 0..MaxCancels
      BY <1>5 DEF Cancel, Cancelled, BeginClose
    <3> QED BY <3>1, <3>2, <3>3, <3>4, <3>5, <3>6
  <2>2. Phases'
    BY <1>5 DEF Cancel, Cancelled, BeginClose
  <2>3. Iterated'
    BY <1>5 DEF Cancel, Cancelled, BeginClose
  <2>4. Lease'
    BY <1>5 DEF Cancel, Cancelled, BeginClose
  <2> QED BY <2>1, <2>2, <2>3, <2>4
<1>6. ASSUME ForceCancel PROVE TypeOK' /\ Phases' /\ Iterated' /\ Lease'
  <2>1. TypeOK'
    <3>1. produced' \in Seq(Frame) /\ received' \in Seq(Frame \cup {"ping", "delta", "error"})
      BY <1>6 DEF ForceCancel, Cancelled, BeginClose
    <3>2. /\ pc' \in {"prefetch", "send", "read", "preclose", "close", "over"}
          /\ item' \in Frame \cup {"none", "ping", "delta", "error"}
          /\ outcome' \in {"open", "ended", "error", "failed", "broken", "cut"}
          /\ cleanup' \in {"none", "created", "pump", "body", "done"}
      BY <1>6 DEF ForceCancel, Cancelled, BeginClose
    <3>3. /\ surface' \in Surfaces
          /\ body' \in {"suspended", "running", "unwinding", "ended", "failed", "closing",
              "closed"}
          /\ pump' \in {"none", "waiting", "calling", "cancelling", "done"}
          /\ pending' \in Settled \cup {"none", "open", "cancelled"}
      BY <1>6 DEF ForceCancel, Cancelled, BeginClose
    <3>4. /\ {misused', demand', armed', inMessage', openBlock'} \subseteq BOOLEAN
          /\ {awaiting', abandoned', released', forced'} \subseteq BOOLEAN
      BY <1>6 DEF ForceCancel, Cancelled, BeginClose
    <3>5. {closeBounded', pumpBounded', waitBounded'} \subseteq BOOLEAN
      BY <1>6 DEF ForceCancel, Cancelled, BeginClose
    <3>6. stop' \in {"none", "requested", "past"} /\ cancels' \in 0..MaxCancels
      BY <1>6 DEF ForceCancel, Cancelled, BeginClose
    <3> QED BY <3>1, <3>2, <3>3, <3>4, <3>5, <3>6
  <2>2. Phases'
    BY <1>6 DEF ForceCancel, Cancelled, BeginClose
  <2>3. Iterated'
    BY <1>6 DEF ForceCancel, Cancelled, BeginClose
  <2>4. Lease'
    BY <1>6 DEF ForceCancel, Cancelled, BeginClose
  <2> QED BY <2>1, <2>2, <2>3, <2>4
<1>7. ASSUME Closed PROVE TypeOK' /\ Phases' /\ Iterated' /\ Lease'
  <2>1. TypeOK'
    BY <1>7 DEF Closed, Frame
  <2>2. Phases'
    BY <1>7 DEF Closed
  <2>3. Iterated'
    BY <1>7 DEF Closed
  <2>4. Lease'
    BY <1>7 DEF Closed
  <2> QED BY <2>1, <2>2, <2>3, <2>4
<1>8. ASSUME Abandon PROVE TypeOK' /\ Phases' /\ Iterated' /\ Lease'
  <2>1. TypeOK'
    BY <1>8 DEF Abandon, Frame
  <2>2. Phases'
    BY <1>8 DEF Abandon
  <2>3. Iterated'
    BY <1>8 DEF Abandon
  <2>4. Lease'
    BY <1>8 DEF Abandon
  <2> QED BY <2>1, <2>2, <2>3, <2>4
<1>9. ASSUME PumpCalls PROVE TypeOK' /\ Phases' /\ Iterated' /\ Lease'
  <2>1. TypeOK'
    BY <1>9 DEF PumpCalls, Frame
  <2>2. Phases'
    BY <1>9 DEF PumpCalls
  <2>3. Iterated'
    BY <1>9 DEF PumpCalls
  <2>4. Lease'
    BY <1>9 DEF PumpCalls
  <2> QED BY <2>1, <2>2, <2>3, <2>4
<1>10. ASSUME PumpEnds PROVE TypeOK' /\ Phases' /\ Iterated' /\ Lease'
  <2>1. TypeOK'
    BY <1>10 DEF PumpEnds, Frame
  <2>2. Phases'
    BY <1>10 DEF PumpEnds
  <2>3. Iterated'
    BY <1>10 DEF PumpEnds
  <2>4. Lease'
    BY <1>10 DEF PumpEnds
  <2> QED BY <2>1, <2>2, <2>3, <2>4
<1>11. ASSUME Unwound PROVE TypeOK' /\ Phases' /\ Iterated' /\ Lease'
  <2>1. TypeOK'
    BY <1>11 DEF Unwound, BeginClose, Frame
  <2>2. Phases'
    BY <1>11 DEF Unwound, BeginClose
  <2>3. Iterated'
    BY <1>11 DEF Unwound, BeginClose
  <2>4. Lease'
    BY <1>11 DEF Unwound, BeginClose
  <2> QED BY <2>1, <2>2, <2>3, <2>4
<1>12. ASSUME NEW f \in Frame, BodyYields(f) PROVE TypeOK' /\ Phases' /\ Iterated' /\ Lease'
  <2>1. TypeOK'
    <3>1. produced' \in Seq(Frame) /\ received' \in Seq(Frame \cup {"ping", "delta", "error"})
      BY <1>12 DEF BodyYields, Continue, BeginClose, Reported
    <3>2. /\ pc' \in {"prefetch", "send", "read", "preclose", "close", "over"}
          /\ item' \in Frame \cup {"none", "ping", "delta", "error"}
          /\ outcome' \in {"open", "ended", "error", "failed", "broken", "cut"}
          /\ cleanup' \in {"none", "created", "pump", "body", "done"}
      BY <1>12 DEF BodyYields, Continue, BeginClose, Reported
    <3>3. /\ surface' \in Surfaces
          /\ body' \in {"suspended", "running", "unwinding", "ended", "failed", "closing",
              "closed"}
          /\ pump' \in {"none", "waiting", "calling", "cancelling", "done"}
          /\ pending' \in Settled \cup {"none", "open", "cancelled"}
      BY <1>12 DEF BodyYields, Continue, BeginClose, Reported
    <3>4. /\ {misused', demand', armed', inMessage', openBlock'} \subseteq BOOLEAN
          /\ {awaiting', abandoned', released', forced'} \subseteq BOOLEAN
      BY <1>12 DEF BodyYields, Continue, BeginClose, Reported
    <3>5. {closeBounded', pumpBounded', waitBounded'} \subseteq BOOLEAN
      BY <1>12 DEF BodyYields, Continue, BeginClose, Reported
    <3>6. stop' \in {"none", "requested", "past"} /\ cancels' \in 0..MaxCancels
      BY <1>12 DEF BodyYields, Continue, BeginClose, Reported
    <3> QED BY <3>1, <3>2, <3>3, <3>4, <3>5, <3>6
  <2>2. Phases'
    BY <1>12 DEF BodyYields, Continue, BeginClose, Reported, Frame
  <2>3. Iterated'
    <3>1. CASE pump = "calling"
      BY <1>12, <3>1 DEF BodyYields, Frame
    <3>2. CASE pump = "none"
      BY <1>12, <3>2 DEF BodyYields, Continue, BeginClose, Reported, Frame
    <3> QED BY <1>12, <3>1, <3>2 DEF BodyYields
  <2>4. Lease'
    BY <1>12 DEF BodyYields, Continue, BeginClose, Reported, Frame
  <2> QED BY <2>1, <2>2, <2>3, <2>4
<1>13. ASSUME NEW r \in {"ended", "failed"}, BodyStops(r)
    PROVE TypeOK' /\ Phases' /\ Iterated' /\ Lease'
  <2>1. TypeOK'
    BY <1>13 DEF BodyStops, Continue, BeginClose, Reported, Frame
  <2>2. Phases'
    BY <1>13 DEF BodyStops, Continue, BeginClose, Reported, Frame
  <2>3. Iterated'
    BY <1>13 DEF BodyStops, Continue, BeginClose, Reported, Frame
  <2>4. Lease'
    BY <1>13 DEF BodyStops, Continue, BeginClose, Reported, Frame
  <2> QED BY <2>1, <2>2, <2>3, <2>4
<1>14. ASSUME CleanupStart PROVE TypeOK' /\ Phases' /\ Iterated' /\ Lease'
  <2>1. TypeOK'
    <3>1. produced' \in Seq(Frame) /\ received' \in Seq(Frame \cup {"ping", "delta", "error"})
      BY <1>14 DEF CleanupStart, CloseBody, CleanupEnds
    <3>2. /\ pc' \in {"prefetch", "send", "read", "preclose", "close", "over"}
          /\ item' \in Frame \cup {"none", "ping", "delta", "error"}
          /\ outcome' \in {"open", "ended", "error", "failed", "broken", "cut"}
          /\ cleanup' \in {"none", "created", "pump", "body", "done"}
      BY <1>14 DEF CleanupStart, CloseBody, CleanupEnds
    <3>3. /\ surface' \in Surfaces
          /\ body' \in {"suspended", "running", "unwinding", "ended", "failed", "closing",
              "closed"}
          /\ pump' \in {"none", "waiting", "calling", "cancelling", "done"}
          /\ pending' \in Settled \cup {"none", "open", "cancelled"}
      BY <1>14 DEF CleanupStart, CloseBody, CleanupEnds
    <3>4. /\ {misused', demand', armed', inMessage', openBlock'} \subseteq BOOLEAN
          /\ {awaiting', abandoned', released', forced'} \subseteq BOOLEAN
      BY <1>14 DEF CleanupStart, CloseBody, CleanupEnds
    <3>5. {closeBounded', pumpBounded', waitBounded'} \subseteq BOOLEAN
      BY <1>14 DEF CleanupStart, CloseBody, CleanupEnds
    <3>6. stop' \in {"none", "requested", "past"} /\ cancels' \in 0..MaxCancels
      BY <1>14 DEF CleanupStart, CloseBody, CleanupEnds
    <3> QED BY <3>1, <3>2, <3>3, <3>4, <3>5, <3>6
  <2>2. Phases'
    BY <1>14 DEF CleanupStart, CloseBody, CleanupEnds
  <2>3. Iterated'
    BY <1>14 DEF CleanupStart, CloseBody, CleanupEnds
  <2>4. Lease'
    BY <1>14 DEF CleanupStart, CloseBody, CleanupEnds
  <2> QED BY <2>1, <2>2, <2>3, <2>4
<1>15. ASSUME PumpSettled PROVE TypeOK' /\ Phases' /\ Iterated' /\ Lease'
  <2>1. TypeOK'
    <3>1. produced' \in Seq(Frame) /\ received' \in Seq(Frame \cup {"ping", "delta", "error"})
      BY <1>15 DEF PumpSettled, CloseBody, CleanupEnds
    <3>2. /\ pc' \in {"prefetch", "send", "read", "preclose", "close", "over"}
          /\ item' \in Frame \cup {"none", "ping", "delta", "error"}
          /\ outcome' \in {"open", "ended", "error", "failed", "broken", "cut"}
          /\ cleanup' \in {"none", "created", "pump", "body", "done"}
      BY <1>15 DEF PumpSettled, CloseBody, CleanupEnds
    <3>3. /\ surface' \in Surfaces
          /\ body' \in {"suspended", "running", "unwinding", "ended", "failed", "closing",
              "closed"}
          /\ pump' \in {"none", "waiting", "calling", "cancelling", "done"}
          /\ pending' \in Settled \cup {"none", "open", "cancelled"}
      BY <1>15 DEF PumpSettled, CloseBody, CleanupEnds
    <3>4. /\ {misused', demand', armed', inMessage', openBlock'} \subseteq BOOLEAN
          /\ {awaiting', abandoned', released', forced'} \subseteq BOOLEAN
      BY <1>15 DEF PumpSettled, CloseBody, CleanupEnds
    <3>5. {closeBounded', pumpBounded', waitBounded'} \subseteq BOOLEAN
      BY <1>15 DEF PumpSettled, CloseBody, CleanupEnds
    <3>6. stop' \in {"none", "requested", "past"} /\ cancels' \in 0..MaxCancels
      BY <1>15 DEF PumpSettled, CloseBody, CleanupEnds
    <3> QED BY <3>1, <3>2, <3>3, <3>4, <3>5, <3>6
  <2>2. Phases'
    BY <1>15 DEF PumpSettled, CloseBody, CleanupEnds
  <2>3. Iterated'
    BY <1>15 DEF PumpSettled, CloseBody, CleanupEnds
  <2>4. Lease'
    BY <1>15 DEF PumpSettled, CloseBody, CleanupEnds
  <2> QED BY <2>1, <2>2, <2>3, <2>4
<1>16. ASSUME PumpAbandoned PROVE TypeOK' /\ Phases' /\ Iterated' /\ Lease'
  <2>1. TypeOK'
    BY <1>16 DEF PumpAbandoned, CleanupEnds, Frame
  <2>2. Phases'
    BY <1>16 DEF PumpAbandoned, CleanupEnds
  <2>3. Iterated'
    BY <1>16 DEF PumpAbandoned, CleanupEnds
  <2>4. Lease'
    BY <1>16 DEF PumpAbandoned, CleanupEnds
  <2> QED BY <2>1, <2>2, <2>3, <2>4
<1>17. ASSUME BodyCloses PROVE TypeOK' /\ Phases' /\ Iterated' /\ Lease'
  <2>1. TypeOK'
    BY <1>17 DEF BodyCloses, CleanupEnds, Frame
  <2>2. Phases'
    BY <1>17 DEF BodyCloses, CleanupEnds
  <2>3. Iterated'
    BY <1>17 DEF BodyCloses, CleanupEnds
  <2>4. Lease'
    BY <1>17 DEF BodyCloses, CleanupEnds
  <2> QED BY <2>1, <2>2, <2>3, <2>4
<1>18. ASSUME CloseTimesOut PROVE TypeOK' /\ Phases' /\ Iterated' /\ Lease'
  <2>1. TypeOK'
    BY <1>18 DEF CloseTimesOut, Interrupted, CleanupEnds, Frame
  <2>2. Phases'
    BY <1>18 DEF CloseTimesOut, Interrupted, CleanupEnds
  <2>3. Iterated'
    BY <1>18 DEF CloseTimesOut, Interrupted, CleanupEnds
  <2>4. Lease'
    BY <1>18 DEF CloseTimesOut, Interrupted, CleanupEnds
  <2> QED BY <2>1, <2>2, <2>3, <2>4
<1>19. ASSUME CleanupCancelled PROVE TypeOK' /\ Phases' /\ Iterated' /\ Lease'
  <2>1. TypeOK'
    BY <1>19 DEF CleanupCancelled, Interrupted, CleanupEnds, Frame
  <2>2. Phases'
    BY <1>19 DEF CleanupCancelled, Interrupted, CleanupEnds
  <2>3. Iterated'
    BY <1>19 DEF CleanupCancelled, Interrupted, CleanupEnds
  <2>4. Lease'
    BY <1>19 DEF CleanupCancelled, Interrupted, CleanupEnds
  <2> QED BY <2>1, <2>2, <2>3, <2>4
<1>20. ASSUME RequestStop PROVE TypeOK' /\ Phases' /\ Iterated' /\ Lease'
  <2>1. TypeOK'
    BY <1>20 DEF RequestStop, Frame
  <2>2. Phases'
    BY <1>20 DEF RequestStop
  <2>3. Iterated'
    BY <1>20 DEF RequestStop
  <2>4. Lease'
    BY <1>20 DEF RequestStop
  <2> QED BY <2>1, <2>2, <2>3, <2>4
<1>21. ASSUME DeadlinePasses PROVE TypeOK' /\ Phases' /\ Iterated' /\ Lease'
  <2>1. TypeOK'
    BY <1>21 DEF DeadlinePasses, Frame
  <2>2. Phases'
    BY <1>21 DEF DeadlinePasses
  <2>3. Iterated'
    BY <1>21 DEF DeadlinePasses
  <2>4. Lease'
    BY <1>21 DEF DeadlinePasses
  <2> QED BY <2>1, <2>2, <2>3, <2>4
<1>22. ASSUME UNCHANGED vars PROVE TypeOK' /\ Phases' /\ Iterated' /\ Lease'
  BY <1>22 DEF vars
<1> QED BY <1>1, <1>2, <1>3, <1>4, <1>5, <1>6, <1>7, <1>8, <1>9, <1>10, <1>11, <1>12, <1>13,
    <1>14, <1>15, <1>16, <1>17, <1>18, <1>19, <1>20, <1>21, <1>22 DEF Next

-----------------------------------------------------------------------------
(***************************************************************************)
(* What the client gets.                                                   *)
(***************************************************************************)

\* The frames the client has got grow by the one that is sent.
LEMMA FramesSentSteps ==
  ASSUME TypeOK, Phases
  PROVE  /\ FramesSent \in Seq(Frame)
         /\ received' = received => FramesSent' = FramesSent
         /\ pc = "send" /\ received' = Append(received, item) =>
              FramesSent' = IF item \in Frame THEN Append(FramesSent, item) ELSE FramesSent
<1>1. received \in Seq(Frame \cup {"ping", "delta", "error"})
  BY DEF TypeOK
<1>2. pc = "send" => item \in Frame \cup {"ping", "delta", "error"}
  BY DEF TypeOK, Phases
<1>3. FramesIn(received) \in Seq(Frame)
  BY <1>1, FramesInType
<1>4. pc = "send" => FramesIn(Append(received, item)) =
        IF item \in Frame THEN Append(FramesIn(received), item) ELSE FramesIn(received)
  BY <1>1, <1>2, FramesInAppend
<1> QED BY <1>3, <1>4 DEF FramesSent

\* Only Sent gives the client something.
LEMMA OnlySentSends ==
  ASSUME [Next]_vars
  PROVE  Sent \/ UNCHANGED received
BY DEF Next, vars, Take, KeepaliveDue, KeepaliveCapped, Cancel, ForceCancel, Closed, Abandon,
    PumpCalls, PumpEnds, Unwound, BodyYields, BodyStops, CleanupStart, PumpSettled,
        PumpAbandoned, BodyCloses, CloseTimesOut, CleanupCancelled, RequestStop,
            DeadlinePasses, Interrupted

LEMMA FlowKeeps ==
  ASSUME TypeOK, Phases, Iterated, Flow, [Next]_vars
  PROVE  Flow'
<1>0. FramesSent \in Seq(Frame) /\ produced \in Seq(Frame)
  BY FramesSentSteps DEF TypeOK
<1> USE DEF Open, SendsFrame, Reading
<1>1. ASSUME Sent PROVE Flow'
  <2>1. FramesSent' = IF item \in Frame THEN Append(FramesSent, item) ELSE FramesSent
    BY <1>1, FramesSentSteps DEF Sent
  <2>2. produced' = produced /\ pc' \in {"read", "close"} /\ pc = "send"
    BY <1>1 DEF Sent, BeginClose, bodyVars
  <2>3. pending' = pending \/ (pending = "none" /\ pending' = "open" /\ pc' = "read")
    BY <1>1 DEF Sent, sourceVars
  <2>4. pending \in Frame => item \notin Frame
    BY <2>2 DEF Flow, Frame
  <2>5. item \in Frame => produced = Append(FramesSent, item) /\ pending = "none"
    BY <2>2 DEF Flow
  <2>6. item \notin Frame /\ pending \notin Frame => produced = FramesSent
    BY <2>2 DEF Flow
  <2>7. "none" \notin Frame /\ "open" \notin Frame
    BY DEF Frame
  <2> QED BY <1>0, <2>1, <2>2, <2>3, <2>4, <2>5, <2>6, <2>7 DEF Flow
<1>2. ASSUME UNCHANGED received PROVE FramesSent' = FramesSent
  BY <1>2, FramesSentSteps
<1>3. ASSUME Take, FramesSent' = FramesSent PROVE Flow'
  BY <1>3 DEF Flow, Take, Continue, BeginClose, Reported, Frame, bodyVars
<1>4. ASSUME KeepaliveDue, FramesSent' = FramesSent PROVE Flow'
  BY <1>4 DEF Flow, KeepaliveDue, KeepaliveFrame, Frame, bodyVars, sourceVars
<1>5. ASSUME KeepaliveCapped, FramesSent' = FramesSent PROVE Flow'
  BY <1>5 DEF Flow, KeepaliveCapped, bodyVars, callVars
<1>6. ASSUME Cancel, FramesSent' = FramesSent PROVE Flow'
  BY <1>6 DEF Flow, Cancel, Cancelled, BeginClose, sourceVars, callVars
<1>7. ASSUME ForceCancel, FramesSent' = FramesSent PROVE Flow'
  BY <1>7 DEF Flow, ForceCancel, Cancelled, BeginClose, sourceVars, callVars
<1>8. ASSUME Closed, FramesSent' = FramesSent PROVE Flow'
  BY <1>8 DEF Flow, Closed, bodyVars, sourceVars
<1>9. ASSUME Abandon, FramesSent' = FramesSent PROVE Flow'
  BY <1>9 DEF Flow, Abandon, bodyVars, sourceVars
<1>10. ASSUME PumpCalls, FramesSent' = FramesSent PROVE Flow'
  BY <1>10 DEF Flow, PumpCalls, callVars
<1>11. ASSUME PumpEnds, FramesSent' = FramesSent PROVE Flow'
  BY <1>11 DEF Flow, PumpEnds, Frame, callVars
<1>12. ASSUME Unwound, FramesSent' = FramesSent PROVE Flow'
  BY <1>12 DEF Flow, Unwound, BeginClose, sourceVars
<1>13. ASSUME NEW f \in Frame, BodyYields(f), FramesSent' = FramesSent PROVE Flow'
  BY <1>13 DEF Flow, BodyYields, Continue, Reported, Iterated, Frame, callVars
<1>14. ASSUME NEW r \in {"ended", "failed"}, BodyStops(r), FramesSent' = FramesSent PROVE Flow'
  BY <1>14 DEF Flow, BodyStops, Continue, BeginClose, Iterated, Frame, callVars
<1>15. ASSUME CleanupStart, FramesSent' = FramesSent PROVE Flow'
  BY <1>15 DEF Flow, CleanupStart, CloseBody, Phases, Frame, callVars
<1>16. ASSUME PumpSettled, FramesSent' = FramesSent PROVE Flow'
  BY <1>16 DEF Flow, PumpSettled, CloseBody, Phases, Frame, callVars
<1>17. ASSUME PumpAbandoned, FramesSent' = FramesSent PROVE Flow'
  BY <1>17 DEF Flow, PumpAbandoned, Phases, Frame, bodyVars, callVars
<1>18. ASSUME BodyCloses, FramesSent' = FramesSent PROVE Flow'
  BY <1>18 DEF Flow, BodyCloses, sourceVars, callVars
<1>19. ASSUME CloseTimesOut, FramesSent' = FramesSent PROVE Flow'
  BY <1>19 DEF Flow, CloseTimesOut, Interrupted, sourceVars, callVars
<1>20. ASSUME CleanupCancelled, FramesSent' = FramesSent PROVE Flow'
  BY <1>20 DEF Flow, CleanupCancelled, Interrupted, sourceVars, callVars
<1>21. ASSUME RequestStop, FramesSent' = FramesSent PROVE Flow'
  BY <1>21 DEF Flow, RequestStop, bodyVars, sourceVars, callVars
<1>22. ASSUME DeadlinePasses, FramesSent' = FramesSent PROVE Flow'
  BY <1>22 DEF Flow, DeadlinePasses, bodyVars, sourceVars, callVars
<1>23. ASSUME UNCHANGED vars, FramesSent' = FramesSent PROVE Flow'
  BY <1>23 DEF Flow, vars, bodyVars, sourceVars, callVars
<1> QED BY OnlySentSends, <1>1, <1>2, <1>3, <1>4, <1>5, <1>6, <1>7, <1>8, <1>9, <1>10, <1>11,
    <1>12, <1>13, <1>14, <1>15, <1>16, <1>17, <1>18, <1>19, <1>20, <1>21, <1>22, <1>23 DEF Next

LEMMA VerdictKeeps ==
  ASSUME TypeOK, Phases, Iterated, Flow, Verdict, [Next]_vars
  PROVE  Verdict'
<1>0. /\ FramesSent \in Seq(Frame) /\ produced \in Seq(Frame)
      /\ \A s \in Seq(Frame), f \in Frame : Append(s, f) # <<>>
      /\ pc = "prefetch" => FramesSent = <<>>
  <2>1. pc = "prefetch" => FramesSent = <<>>
    BY FramesInEmpty DEF Phases, FramesSent
  <2>2. ASSUME NEW s \in Seq(Frame), NEW f \in Frame PROVE Append(s, f) # <<>>
    <3>1. Len(Append(s, f)) = Len(s) + 1 /\ Len(s) \in Nat /\ Len(<<>>) = 0
      OBVIOUS
    <3> QED BY <3>1
  <2>3. FramesSent \in Seq(Frame)
    BY FramesSentSteps
  <2>4. produced \in Seq(Frame)
    BY DEF TypeOK
  <2> QED BY <2>1, <2>2, <2>3, <2>4
<1> USE DEF Open, SendsFrame, Reading
<1>1. ASSUME Sent PROVE Verdict'
  <2>1. FramesSent' = IF item \in Frame THEN Append(FramesSent, item) ELSE FramesSent
    BY <1>1, FramesSentSteps DEF Sent
  <2>2. /\ UNCHANGED <<produced, surface>> /\ pc = "send"
        /\ \/ item = "error" /\ pc' = "close" /\ outcome' = "failed" /\ UNCHANGED <<pending,
            body>>
           \/ item # "error" /\ pc' = "read" /\ UNCHANGED <<outcome, awaiting>>
    BY <1>1 DEF Sent, BeginClose, bodyVars, sourceVars
  <2>3. item # "error" => pending' = pending \/ (pending = "none" /\ pending' = "open")
    BY <1>1 DEF Sent
  <2>4. item # "error" => body' = body \/ (pump = "none" /\ pending' = pending)
    BY <1>1 DEF Sent, TypeOK, Phases
  <2>5. /\ received \in Seq(Frame \cup {"ping", "delta", "error"})
        /\ item \in Frame \cup {"ping", "delta", "error"}
        /\ received' = Append(received, item)
    BY <1>1, <2>2 DEF TypeOK, Phases, Sent
  <2>6. /\ Len(received') = Len(received) + 1 /\ received'[Len(received) + 1] = item
        /\ \A i \in 1..Len(received) : received'[i] = received[i] /\ received[i] # "error"
        /\ DOMAIN received' = 1..(Len(received) + 1)
    BY <2>2, <2>5 DEF Verdict, Phases
  <2>7. outcome = "open"
    BY <2>2 DEF Phases
  <2>8. \A i \in DOMAIN received' : received'[i] = "error" =>
          i = Len(received') /\ outcome' \in {"failed", "cut"}
    BY <2>2, <2>6
  <2>9. outcome' = "failed" => body' = "failed" \/ (body' = "ended" /\ produced' = <<>>)
    BY <2>2, <2>7 DEF Verdict
  <2>10. VerdictTrue'
    BY <2>2, <2>7, <2>8, <2>9 DEF VerdictTrue
  <2>11. pending' \in {"ended", "failed"} => body' = pending'
    BY <2>2, <2>3, <2>4 DEF Verdict, Iterated
  <2>12. pc' \in {"send", "read"} => (awaiting' <=> FramesSent' = <<>>)
    BY <1>0, <2>1, <2>2 DEF Verdict, TypeOK
  <2>13. outcome' = "open" => \A i \in 1..Len(received') : received'[i] # "error"
    BY <2>2, <2>6
  <2> QED BY <2>2, <2>9, <2>10, <2>11, <2>12, <2>13 DEF Verdict
<1>2. ASSUME UNCHANGED received PROVE FramesSent' = FramesSent
  BY <1>2, FramesSentSteps
<1>3. ASSUME Take, FramesSent' = FramesSent, received' = received PROVE Verdict'
  BY <1>3 DEF Flow, Verdict, VerdictTrue, Take, Continue, BeginClose, Reported, Phases,
      Settled, Frame, bodyVars
<1>4. ASSUME KeepaliveDue, FramesSent' = FramesSent, received' = received PROVE Verdict'
  BY <1>0, <1>4 DEF Verdict, VerdictTrue, KeepaliveDue, KeepaliveFrame, Phases, Frame,
      sourceVars
<1>5. ASSUME KeepaliveCapped, FramesSent' = FramesSent, received' = received PROVE Verdict'
  BY <1>5 DEF Verdict, VerdictTrue, KeepaliveCapped, Phases, callVars
<1>6. ASSUME Cancel, FramesSent' = FramesSent, received' = received PROVE Verdict'
  <2>1. /\ UNCHANGED <<surface, received, produced, pending, FramesSent>>
        /\ \/ /\ pc = "send" \/ (Reading /\ surface.keepalive)
              /\ pc' \in {"preclose", "close"} /\ outcome' = "cut"
              /\ UNCHANGED body
           \/ /\ Reading /\ body = "running" /\ pump = "none"
              /\ UNCHANGED <<pc, item, awaiting, outcome>>
           \/ /\ Reading /\ body = "unwinding" /\ pump = "none"
              /\ pc' \in {"preclose", "close"} /\ outcome' = "cut"
           \/ /\ pc \in {"preclose", "close"} /\ pc' = pc /\ outcome' \in {outcome, "cut"}
              /\ UNCHANGED body
    BY <1>6 DEF Cancel, Cancelled, BeginClose, Phases, sourceVars, callVars
  <2> QED BY <1>0, <1>6, <2>1 DEF Verdict, VerdictTrue, Phases, Iterated
<1>7. ASSUME ForceCancel, FramesSent' = FramesSent, received' = received PROVE Verdict'
  <2>1. /\ UNCHANGED <<surface, received, produced, pending, FramesSent>>
        /\ \/ /\ pc = "send" \/ (Reading /\ surface.keepalive)
              /\ pc' \in {"preclose", "close"} /\ outcome' = "cut"
              /\ UNCHANGED body
           \/ /\ Reading /\ body = "running" /\ pump = "none"
              /\ UNCHANGED <<pc, item, awaiting, outcome>>
           \/ /\ Reading /\ body = "unwinding" /\ pump = "none"
              /\ pc' \in {"preclose", "close"} /\ outcome' = "cut"
           \/ /\ pc \in {"preclose", "close"} /\ pc' = pc /\ outcome' \in {outcome, "cut"}
              /\ UNCHANGED body
    BY <1>7 DEF ForceCancel, Cancelled, BeginClose, Phases, sourceVars, callVars
  <2> QED BY <1>0, <1>7, <2>1 DEF Verdict, VerdictTrue, Phases, Iterated
<1>8. ASSUME Closed, FramesSent' = FramesSent, received' = received PROVE Verdict'
  BY <1>8 DEF Verdict, VerdictTrue, Closed, bodyVars, sourceVars
<1>9. ASSUME Abandon, FramesSent' = FramesSent, received' = received PROVE Verdict'
  BY <1>9 DEF Verdict, VerdictTrue, Abandon, bodyVars, sourceVars
<1>10. ASSUME PumpCalls, FramesSent' = FramesSent, received' = received PROVE Verdict'
  BY <1>10 DEF Verdict, VerdictTrue, PumpCalls, Iterated, callVars
<1>11. ASSUME PumpEnds, FramesSent' = FramesSent, received' = received PROVE Verdict'
  BY <1>11 DEF Verdict, VerdictTrue, PumpEnds, callVars
<1>12. ASSUME Unwound, FramesSent' = FramesSent, received' = received PROVE Verdict'
  BY <1>12 DEF Verdict, VerdictTrue, Unwound, BeginClose, sourceVars
<1>13. ASSUME NEW f \in Frame, BodyYields(f), FramesSent' = FramesSent,
    received' = received PROVE Verdict'
  BY <1>13 DEF Verdict, VerdictTrue, BodyYields, Continue, Reported, Frame, callVars
<1>14. ASSUME NEW r \in {"ended", "failed"}, BodyStops(r), FramesSent' = FramesSent,
    received' = received PROVE Verdict'
  BY <1>14 DEF Flow, Verdict, VerdictTrue, BodyStops, Continue, BeginClose, Reported, Phases,
      Iterated, Frame, callVars
<1>15. ASSUME CleanupStart, FramesSent' = FramesSent, received' = received PROVE Verdict'
  BY <1>15 DEF Verdict, VerdictTrue, CleanupStart, CloseBody, Iterated, callVars
<1>16. ASSUME PumpSettled, FramesSent' = FramesSent, received' = received PROVE Verdict'
  BY <1>16 DEF Verdict, VerdictTrue, PumpSettled, CloseBody, callVars
<1>17. ASSUME PumpAbandoned, FramesSent' = FramesSent, received' = received PROVE Verdict'
  BY <1>17 DEF Verdict, VerdictTrue, PumpAbandoned, bodyVars, callVars
<1>18. ASSUME BodyCloses, FramesSent' = FramesSent, received' = received PROVE Verdict'
  BY <1>18 DEF Verdict, VerdictTrue, BodyCloses, Iterated, sourceVars, callVars
<1>19. ASSUME CloseTimesOut, FramesSent' = FramesSent, received' = received PROVE Verdict'
  BY <1>19 DEF Verdict, VerdictTrue, CloseTimesOut, Interrupted, sourceVars, callVars
<1>20. ASSUME CleanupCancelled, FramesSent' = FramesSent, received' = received PROVE Verdict'
  BY <1>20 DEF Verdict, VerdictTrue, CleanupCancelled, Interrupted, sourceVars, callVars
<1>21. ASSUME RequestStop, FramesSent' = FramesSent, received' = received PROVE Verdict'
  BY <1>21 DEF Verdict, VerdictTrue, RequestStop, bodyVars, sourceVars, callVars
<1>22. ASSUME DeadlinePasses, FramesSent' = FramesSent, received' = received PROVE Verdict'
  BY <1>22 DEF Verdict, VerdictTrue, DeadlinePasses, bodyVars, sourceVars, callVars
<1>23. ASSUME UNCHANGED vars, FramesSent' = FramesSent, received' = received PROVE Verdict'
  BY <1>23 DEF Verdict, VerdictTrue, vars, bodyVars, sourceVars, callVars
<1> QED BY OnlySentSends, <1>1, <1>2, <1>3, <1>4, <1>5, <1>6, <1>7, <1>8, <1>9, <1>10, <1>11,
    <1>12, <1>13, <1>14, <1>15, <1>16, <1>17, <1>18, <1>19, <1>20, <1>21, <1>22, <1>23 DEF Next

\* A message stays open, and a block, behind what does not end it.
LEMMA OpenAppend ==
  ASSUME NEW S, NEW s \in Seq(S), NEW x \in S
  PROVE  /\ x = "start" => MessageIn(Append(s, x))
         /\ MessageIn(s) /\ x # "end" => MessageIn(Append(s, x))
         /\ MessageIn(s) /\ x = "text" => BlockIn(Append(s, x))
         /\ BlockIn(s) /\ x \in {"delta", "ping"} => BlockIn(Append(s, x))
<1> DEFINE t == Append(s, x)
           n == Len(s)
<1>0. n \in Nat /\ Len(t) = n + 1 /\ t[n + 1] = x /\ \A i \in 1..n : t[i] = s[i]
  OBVIOUS
<1> HIDE DEF t
<1> HIDE DEF n
<1>1. ASSUME x = "start" PROVE MessageIn(t)
  <2>1. n + 1 \in 1..Len(t) /\ \A m \in (n + 1)..Len(t) : m = n + 1
    BY <1>0
  <2> QED BY <1>0, <1>1, <2>1 DEF MessageIn
<1>2. ASSUME MessageIn(s), x # "end" PROVE MessageIn(t)
  <2>1. PICK k \in 1..n : s[k] = "start" /\ \A m \in k..n : s[m] # "end"
    BY <1>2 DEF MessageIn, n
  <2>2. k \in 1..Len(t) /\ t[k] = "start"
    BY <1>0, <2>1
  <2>3. ASSUME NEW m \in k..Len(t) PROVE t[m] # "end"
    BY <1>0, <1>2, <2>1
  <2> QED BY <2>2, <2>3 DEF MessageIn
<1>3. ASSUME MessageIn(s), x = "text" PROVE BlockIn(t)
  <2>1. PICK k \in 1..n : s[k] = "start" /\ \A m \in k..n : s[m] # "end"
    BY <1>3 DEF MessageIn, n
  <2>2. k \in 1..((n + 1) - 1) /\ t[k] = "start" /\ \A m \in k..(n + 1) : t[m] # "end"
    <3>1. ASSUME NEW m \in k..(n + 1) PROVE t[m] # "end"
      BY <1>0, <1>3, <2>1
    <3> QED BY <1>0, <2>1, <3>1
  <2>3. n + 1 \in 1..Len(t) /\ t[n + 1] = "text" /\ \A i \in ((n + 1) + 1)..Len(t) : FALSE
    BY <1>0, <1>3
  <2> QED BY <2>2, <2>3 DEF BlockIn
<1>4. ASSUME BlockIn(s), x \in {"delta", "ping"} PROVE BlockIn(t)
  <2>1. PICK j \in 1..n :
          /\ s[j] = "text"
          /\ \A k \in (j + 1)..n : s[k] \in {"delta", "ping"}
          /\ \E k \in 1..(j - 1) : s[k] = "start" /\ \A m \in k..j : s[m] # "end"
    BY <1>4 DEF BlockIn, n
  <2>2. PICK k \in 1..(j - 1) : s[k] = "start" /\ \A m \in k..j : s[m] # "end"
    BY <2>1
  <2>3. t[k] = "start" /\ \A m \in k..j : t[m] # "end"
    BY <1>0, <2>1, <2>2
  <2>4. ASSUME NEW i \in (j + 1)..Len(t) PROVE t[i] \in {"delta", "ping"}
    BY <1>0, <1>4, <2>1
  <2>5. j \in 1..Len(t) /\ t[j] = "text"
    BY <1>0, <2>1
  <2> QED BY <2>2, <2>3, <2>4, <2>5 DEF BlockIn
<1> QED BY <1>1, <1>2, <1>3, <1>4 DEF t

LEMMA TrackedKeeps ==
  ASSUME TypeOK, Phases, Iterated, Tracked, [Next]_vars
  PROVE  Tracked'
<1>0. received \in Seq(Frame \cup {"ping", "delta", "error"})
  BY DEF TypeOK
<1> USE DEF Reading
<1>1. ASSUME Sent PROVE Tracked'
  <2>1. /\ UNCHANGED <<inMessage, openBlock, surface>> /\ pc = "send"
        /\ pc' = IF item = "error" THEN "close" ELSE "read"
        /\ item \in Frame \cup {"ping", "delta", "error"}
        /\ received' = Append(received, item)
    BY <1>1 DEF Sent, BeginClose, sourceVars, TypeOK, Phases
  <2>2. /\ Len(received') = Len(received) + 1 /\ received'[Len(received) + 1] = item
        /\ \A i \in 1..Len(received) : received'[i] = received[i]
        /\ DOMAIN received' = 1..(Len(received) + 1) /\ DOMAIN received = 1..Len(received)
        /\ Len(received) \in Nat
    BY <1>0, <2>1
  <2>3. ASSUME NEW i \in DOMAIN received', received'[i] = "delta" PROVE InOpenBlock(i)'
    <3>1. CASE i \in 1..Len(received)
      <4>1. received[i] = "delta" /\ i \in DOMAIN received
        BY <2>2, <2>3, <3>1
      <4>2. InOpenBlock(i)
        BY <4>1 DEF Tracked, DeltasFit
      <4>3. \A j \in 1..i : received'[j] = received[j]
        BY <2>2, <3>1
      <4>4. PICK j \in 1..(i - 1) :
              /\ received[j] = "text"
              /\ \A k \in (j + 1)..(i - 1) : received[k] \in {"delta", "ping"}
              /\ \E k \in 1..(j - 1) : received[k] = "start" /\ \A m \in k..j : received[m] # "end"
        BY <4>2 DEF InOpenBlock
      <4>5. \A k \in (j + 1)..(i - 1) : received'[k] \in {"delta", "ping"}
        BY <3>1, <4>3, <4>4
      <4>6. PICK k \in 1..(j - 1) : received[k] = "start" /\ \A m \in k..j : received[m] # "end"
        BY <4>4
      <4>7. received'[k] = "start" /\ \A m \in k..j : received'[m] # "end"
        BY <3>1, <4>3, <4>6
      <4> QED BY <3>1, <4>3, <4>4, <4>5, <4>6, <4>7 DEF InOpenBlock
    <3>2. CASE i = Len(received) + 1
      <4>1. item = "delta" /\ ~SendsFrame
        BY <2>2, <2>3, <3>2 DEF SendsFrame, Frame
      <4>2. BlockIn(received)
        BY <2>1, <4>1 DEF Tracked, Shown
      <4>3. PICK j \in 1..Len(received) :
              /\ received[j] = "text"
              /\ \A k \in (j + 1)..Len(received) : received[k] \in {"delta", "ping"}
              /\ \E k \in 1..(j - 1) : received[k] = "start" /\ \A m \in k..j : received[m] # "end"
        BY <4>2 DEF BlockIn
      <4>4. received'[j] = "text" /\ \A k \in (j + 1)..(i - 1) : received'[k] \in {"delta",
          "ping"}
        BY <2>2, <3>2, <4>3
      <4>5. PICK k \in 1..(j - 1) : received[k] = "start" /\ \A m \in k..j : received[m] # "end"
        BY <4>3
      <4>6. received'[k] = "start" /\ \A m \in k..j : received'[m] # "end"
        BY <2>2, <4>3, <4>5
      <4>7. j \in 1..(i - 1)
        BY <2>2, <3>2
      <4> QED BY <4>4, <4>5, <4>6, <4>7 DEF InOpenBlock
    <3> QED BY <2>2, <3>1, <3>2
  <2>4. CASE item = "error"
    BY <2>1, <2>3, <2>4 DEF Tracked, DeltasFit
  <2>5. CASE item \in Frame
    <3>1. Shown' = Shown
      BY <2>1, <2>5 DEF Shown, SendsFrame, Frame
    <3> QED BY <2>1, <2>3, <2>5, <3>1 DEF Tracked, DeltasFit, MessageIn, BlockIn, Frame
  <2>6. CASE item \in {"ping", "delta"}
    <3>1. Shown' = Append(received, item) /\ Shown = received
      BY <2>1, <2>6 DEF Shown, SendsFrame, Frame
    <3>2. /\ MessageIn(received) => MessageIn(Append(received, item))
          /\ BlockIn(received) => BlockIn(Append(received, item))
      BY <1>0, <2>6, OpenAppend
    <3>3. (inMessage => MessageIn(Shown)) /\ (openBlock => BlockIn(Shown))
      BY <2>1 DEF Tracked
    <3>4. (inMessage' => MessageIn(Shown')) /\ (openBlock' => BlockIn(Shown'))
      BY <2>1, <3>1, <3>2, <3>3
    <3> QED BY <2>1, <2>3, <2>6, <3>4 DEF Tracked, DeltasFit, MessageIn, BlockIn
  <2> QED BY <2>1, <2>4, <2>5, <2>6
\* The other steps write nothing, and only a frame that is taken changes the tracker.
<1>2. ASSUME UNCHANGED received, DeltasFit PROVE DeltasFit'
  BY <1>2 DEF DeltasFit, InOpenBlock
<1>3. ASSUME Take PROVE Tracked'
  <2>1. received' = received /\ surface' = surface /\ Reading /\ Shown = received
    BY <1>3 DEF Take, Shown, SendsFrame
  <2>2. CASE pending \in Frame
    <3>1. pc' = "send" /\ item' = pending /\ Shown' = Append(received, pending)
      BY <1>3, <2>1, <2>2 DEF Take, Continue, BeginClose, Shown, SendsFrame, Frame, Reported
    <3>2. /\ inMessage' = IF surface.frames THEN pending = "start" \/ (inMessage /\ pending # "end") ELSE inMessage
          /\ openBlock' = (surface.frames /\ pending = "text" /\ inMessage)
      BY <1>3, <2>2 DEF Take, Feed
    <3>3. inMessage => surface.frames /\ MessageIn(received)
      BY <2>1 DEF Tracked
    <3>4. /\ inMessage' => MessageIn(Append(received, pending))
          /\ openBlock' => BlockIn(Append(received, pending))
      BY <1>0, <2>2, <3>2, <3>3, OpenAppend
    <3>5. (inMessage' => MessageIn(Shown')) /\ (openBlock' => BlockIn(Shown'))
      BY <3>1, <3>4
    <3>6. inMessage' \/ openBlock' => surface'.frames
      BY <2>1, <3>2, <3>3
    <3> QED BY <1>2, <2>1, <2>2, <3>1, <3>5, <3>6 DEF Tracked, Frame, MessageIn, BlockIn
  <2>3. CASE pending \notin Frame
    <3>1. UNCHANGED <<inMessage, openBlock>>
      BY <1>3, <2>3 DEF Take
    <3>2. (pc' = "send" /\ item' = "error" /\ pc = "read") \/ pc' \in {"preclose", "close"}
      BY <1>3, <2>1, <2>3 DEF Take, Continue, BeginClose
    <3>3. pc' = "send" => Shown' = Shown
      BY <2>1, <3>2 DEF Shown, SendsFrame, Frame
    <3> QED BY <1>2, <2>1, <3>1, <3>2, <3>3 DEF Tracked, MessageIn, BlockIn
  <2> QED BY <2>2, <2>3
<1>4. ASSUME KeepaliveDue PROVE Tracked'
  <2>1. /\ UNCHANGED <<received, surface, inMessage, openBlock>> /\ Reading
        /\ pc' = "send" /\ item' = IF openBlock THEN "delta" ELSE "ping"
    BY <1>4 DEF KeepaliveDue, KeepaliveFrame, sourceVars
  <2>2. Shown' = Shown
    BY <2>1 DEF Shown, SendsFrame, Frame
  <2> QED BY <1>2, <2>1, <2>2 DEF Tracked, MessageIn, BlockIn
<1>5. ASSUME \/ \E f \in Frame : BodyYields(f)
             \/ \E r \in {"ended", "failed"} : BodyStops(r)
      PROVE  Tracked'
  <2>1. UNCHANGED <<received, surface, inMessage, openBlock>>
    BY <1>5 DEF BodyYields, BodyStops
  <2>2. \/ UNCHANGED callVars
        \/ ~surface.keepalive /\ (pc' = "send" => item' # "delta")
    BY <1>5 DEF BodyYields, BodyStops, Continue, BeginClose, Phases, Frame
  <2>3. CASE UNCHANGED callVars
    <3>1. Shown' = Shown
      BY <2>1, <2>3 DEF Shown, SendsFrame, callVars
    <3> QED BY <1>2, <2>1, <2>3, <3>1 DEF Tracked, MessageIn, BlockIn, callVars
  <2>4. CASE ~surface.keepalive /\ (pc' = "send" => item' # "delta")
    <3>1. ~surface.frames
      BY <2>4 DEF TypeOK, Surfaces
    <3> QED BY <1>2, <2>1, <2>4, <3>1 DEF Tracked, TypeOK
  <2> QED BY <2>2, <2>3, <2>4
<1>6. ASSUME \/ KeepaliveCapped \/ Cancel \/ ForceCancel \/ Closed \/ Abandon
             \/ PumpCalls \/ PumpEnds \/ Unwound
             \/ CleanupStart \/ PumpSettled \/ PumpAbandoned \/ BodyCloses \/ CloseTimesOut
             \/ CleanupCancelled \/ RequestStop \/ DeadlinePasses \/ UNCHANGED vars
      PROVE  Tracked'
  <2>1. UNCHANGED <<received, surface, inMessage, openBlock>>
    BY <1>6 DEF KeepaliveCapped, Cancel, ForceCancel, Closed, Abandon, PumpCalls, PumpEnds,
        Unwound,
                CleanupStart, PumpSettled, PumpAbandoned, BodyCloses, CloseTimesOut,
                    CleanupCancelled,
                Interrupted, RequestStop, DeadlinePasses, vars, sourceVars
  <2>2. UNCHANGED <<pc, item>> \/ pc' \in {"preclose", "close", "over"}
    BY <1>6 DEF KeepaliveCapped, Cancel, ForceCancel, Cancelled, BeginClose, Closed, Abandon,
                PumpCalls, PumpEnds, Unwound,
                CleanupStart, PumpSettled, PumpAbandoned, BodyCloses, CloseTimesOut,
                    CleanupCancelled,
                Interrupted, RequestStop, DeadlinePasses, vars, callVars
  <2>3. CASE UNCHANGED <<pc, item>>
    <3>1. Shown' = Shown
      BY <2>1, <2>3 DEF Shown, SendsFrame
    <3> QED BY <1>2, <2>1, <2>3, <3>1 DEF Tracked, MessageIn, BlockIn
  <2>4. CASE pc' \in {"preclose", "close", "over"}
    BY <1>2, <2>1, <2>4 DEF Tracked
  <2> QED BY <2>2, <2>3, <2>4
<1> QED BY <1>1, <1>3, <1>4, <1>5, <1>6 DEF Next

-----------------------------------------------------------------------------
LEMMA InitInductive == Init => Inductive
<1> SUFFICES ASSUME Init PROVE Inductive
  OBVIOUS
<1>1. FramesSent = <<>> /\ received = <<>> /\ produced = <<>>
  BY FramesInEmpty DEF Init, FramesSent
<1>2. TypeOK
  <2>1. surface.keepalive \in BOOLEAN /\ 0 \in 0..MaxCancels
    BY BoundsAssumption DEF Init, Surfaces
  <2>2. produced \in Seq(Frame) /\ received \in Seq(Frame \cup {"ping", "delta", "error"})
    BY <1>1
  <2>3. {misused, demand, armed, inMessage, openBlock, awaiting} \subseteq BOOLEAN
    BY <2>1 DEF Init
  <2>4. {closeBounded, pumpBounded, waitBounded, abandoned, released, forced} \subseteq BOOLEAN
    BY DEF Init
  <2> QED BY <2>1, <2>2, <2>3, <2>4 DEF Init, TypeOK
<1>3. Phases /\ Iterated /\ Lease
  BY DEF Init, Phases, Iterated, Lease, Open, Reading, Over, Surfaces
<1>4. Flow
  BY <1>1 DEF Init, Flow, Frame, SendsFrame
<1>5. Verdict
  <2>1. Len(received) = 0 /\ DOMAIN received = {}
    BY <1>1
  <2> QED BY <1>1, <2>1 DEF Init, Verdict, VerdictTrue, SendsFrame
<1>6. Tracked
  <2>1. DOMAIN received = {}
    BY <1>1
  <2> QED BY <2>1 DEF Init, Tracked, DeltasFit
<1> QED BY <1>2, <1>3, <1>4, <1>5, <1>6 DEF Inductive

\* Every reachable state satisfies the inductive invariant.
THEOREM InductiveCorrect == Spec => []Inductive
<1>1. Inductive /\ [Next]_vars => Inductive'
  BY ControlKeeps, FlowKeeps, VerdictKeeps, TrackedKeeps DEF Inductive
<1> QED BY InitInductive, <1>1, PTL DEF Spec

\* The types of the state.
THEOREM TypeCorrect == Spec => []TypeOK
<1>1. Inductive => TypeOK
  BY DEF Inductive
<1> QED BY InductiveCorrect, <1>1, PTL

\* The provider client stays leased while its stream may still run: the cleanup
\* that gives it back is done only when the body is over, or past the deadline.
THEOREM LeaseOutlivesBodyCorrect == Spec => []LeaseOutlivesBody
<1>1. Inductive => LeaseOutlivesBody
  BY DEF Inductive, Lease, Over, LeaseOutlivesBody
<1> QED BY InductiveCorrect, <1>1, PTL

\* What the client gets is what the body gave, in order, with the truth about how
\* it went and with keepalives that fit.
THEOREM ClientSeesTheBodyCorrect == Spec => []ClientSeesTheBody
<1>1. ASSUME Inductive PROVE NothingLost
  <2>0. FramesSent \in Seq(Frame)
    BY <1>1, FramesSentSteps DEF Inductive
  <2>1. CASE produced = FramesSent
    BY <2>0, <2>1 DEF NothingLost, IsPrefix
  <2>2. ASSUME NEW f \in Frame, produced = Append(FramesSent, f) PROVE NothingLost
    <3>1. Len(produced) = Len(FramesSent) + 1 /\ Len(FramesSent) \in Nat
      BY <2>0, <2>2
    <3>2. SubSeq(produced, 1, Len(FramesSent)) = SubSeq(FramesSent, 1, Len(FramesSent))
      BY <2>0, <2>2
    <3> QED BY <3>1, <3>2 DEF NothingLost, IsPrefix
  <2> QED BY <1>1, <2>1, <2>2 DEF Inductive, Flow
<1>2. Inductive => ClientSeesTheBody
  BY <1>1 DEF Inductive, Verdict, Tracked, ClientSeesTheBody
<1> QED BY InductiveCorrect, <1>2, PTL
=============================================================================
