-------------------------- MODULE ProviderExecution --------------------------
(***************************************************************************)
(* One request of the proxy, application/execution.py: the models of its   *)
(* route are tried in order until one answers.  Before anything reached    *)
(* the client another model simply takes over; after that the next model   *)
(* is asked to finish the message, or the message is cut short, or the     *)
(* error is passed on.                                                     *)
(*                                                                         *)
(* An action is what the generator does between two places where it can    *)
(* be cancelled (a yield, an await of the provider or of a close).  A      *)
(* decision that needs no await may take several actions, which nothing    *)
(* but the clock can come between.  The providers are external: a stream   *)
(* emits a legal message, and may fail or stay silent at any frame.        *)
(***************************************************************************)
EXTENDS MessageSplice

CONSTANTS
  Length,    \* number of models on the route
  Siblings,  \* the models on one provider; any other is alone on its own
  MaxTries,  \* policy: tries of a rate-limited model that has nowhere to go
  MaxLong,   \* bound: models tried and blocks shown while a stream opens a further block
  MaxOut     \* bound: models paused or benched when the request begins

Models == 1..Length

ASSUME RouteAssumption ==
  /\ Length \in Nat \ {0} /\ Siblings \subseteq Models /\ MaxTries \in Nat
  /\ MaxLong \in Nat /\ MaxOut \in Nat

VARIABLES
  surface,   \* the client's wire format and the policy: see Surfaces
  order,     \* the models worth attempting, in route order
  pc,        \* where the request is, or how it ended
  position,  \* index in order of the attempt under way
  upstream,  \* what its provider stream has emitted
  fault,     \* how it failed, or "none"
  splicer,   \* ContinuationSplicer of a resumed message, or NoSplicer
  following, \* position found for the model that continues the message
  held,      \* frames held back for a client that does not stream
  shown,     \* the frames sent to the client
  rows,      \* the ledger: one verdict per model
  current,   \* _AttemptLedger._current
  published, \* the ledger went to the request log
  attempted, \* ghost: models that were opened or refused to open, until a walk meets them anew
  owed,      \* ghost: failures of each model less those charged to its health
  retried,   \* retried_positions
  probed,    \* probed_positions
  tries,     \* rate_limit_attempts
  spent      \* the total budget of the request was found used up

ledgerVars == <<rows, current, published, attempted>>
attemptVars == <<position, upstream, held>>
retryVars == <<retried, probed, tries>>
vars == <<surface, order, pc, attemptVars, fault, splicer, following, shown, ledgerVars, owed,
          retryVars, spent>>

\* A client that does not stream gets one message at the end; the Responses
\* dialect always streams.  Retrying the first model is combined
\* with the defaults of the rest only.
Surfaces ==
  {s \in [buffered : BOOLEAN, messages : BOOLEAN, clean : BOOLEAN, resume : BOOLEAN,
          retryOnce : BOOLEAN] :
     /\ s.buffered => s.messages
     /\ s.buffered \/ ~s.messages \/ s.retryOnce => s.clean /\ s.resume}

Faults == {"ends_route", "transient", "rate_limit", "limited"}
NoSplicer == [decided |-> FALSE]
Fresh == [phase |-> "new", blocks |-> 0, spoke |-> FALSE]
Ends == {"done", "truncated", "raised", "left", "unread"}
Over == pc \in Ends
Skips == {"never", "paused", "ejected", "cooldown", "late", "ended"}

TypeOK ==
  /\ DOMAIN surface = {"buffered", "messages", "clean", "resume", "retryOnce"}
  /\ order \in Seq(Models)
  /\ pc \in {"new", "prepare", "made", "read", "closing", "retry", "route", "probe", "fall", "again",
             "ladder", "seam", "resume", "cutting", "finishing", "finished"} \cup Ends
  /\ position \in 0..Length /\ following \in 0..Length
  /\ upstream \in [phase : {"new", "between", "reason", "stopped"} \cup Kinds,
                   blocks : 0..MaxBlocks, spoke : BOOLEAN]
  /\ fault \in Faults \cup {"none"}
  /\ rows \in [Models -> Skips \cup {"failed", "succeeded", "interrupted"}]
  /\ current \in 0..Length /\ published \in BOOLEAN /\ attempted \subseteq Models
  /\ owed \in [Models -> 0..1]
  /\ retried \in BOOLEAN /\ probed \subseteq 1..Length /\ tries \in [1..Length -> Nat]
  /\ spent \in BOOLEAN

Init ==
  /\ surface \in Surfaces /\ order = <<>> /\ pc = "new"
  /\ position = 0 /\ following = 0 /\ upstream = Fresh /\ held = <<>>
  /\ fault = "none" /\ splicer = NoSplicer /\ shown = <<>>
  /\ rows = [m \in Models |-> "never"] /\ current = 0 /\ published = FALSE /\ attempted = {}
  /\ owed = [m \in Models |-> 0]
  /\ retried = FALSE /\ probed = {} /\ tries = [p \in 1..Length |-> 1]
  /\ spent = FALSE

Model == order[position]
Continuing == splicer # NoSplicer
\* Nothing can be taken back once the first frame was sent.
Committed == ~surface.buffered /\ shown # <<>>

-----------------------------------------------------------------------------
(* The route. *)

\* usable_indexes: what is neither paused by the operator nor benched or cooling
\* down; benches are ignored if they would leave nothing.
Usable(paused, benched) ==
  LET live == Models \ paused
  IN IF live \ benched = {} THEN live ELSE live \ benched

\* _candidate_order, with the siblings of a limited model first if preferred.
Candidates(start) == [n \in 1..(Len(order) - start + 1) |-> start + n - 1]
SiblingsFirst(start) ==
  LET siblings == {p \in start..Len(order) : order[p] \in Siblings}
  IN Ascending(siblings) \o Ascending((start..Len(order)) \ siblings)

\* unreachable_after: the verdicts once a failure of m ended the route.
RouteEnded(r, m) == [n \in Models |-> IF n > m THEN "ended" ELSE r[n]]

\* What the candidates of _prepare_from may meet: one that is cooling down is stepped
\* over unless it is the last of the route, one that cannot be resolved or refuses
\* the request is passed, unless its failure ends the route.  Nothing is tried once
\* the budget is spent.
Walks(cands) ==
  {w \in UNION {[1..n -> {"late", "cooling", "refused", "ends_route", "ready"}] :
                  n \in 1..Len(cands)} :
     /\ \A j \in DOMAIN w : w[j] \in {"late", "ends_route", "ready"} => j = Len(w)
     /\ Len(w) < Len(cands) => w[Len(w)] \in {"late", "ends_route", "ready"}
     /\ \A j \in DOMAIN w : w[j] = "cooling" => cands[j] < Len(order)
     /\ spent => w[1] = "late"}

\* What one walk leaves in the ledger, and the position it found, or 0.  A refusal is
\* charged to the health of its model where it happens; the budget is reported for
\* every position after the one where it was spent.  A model that the walk meets counts
\* as attempted if it was tried by this walk.
Walked(cands, w) ==
  LET end == w[Len(w)]
      last == cands[Len(w)]
      Met(verdicts) == {order[cands[j]] : j \in {k \in DOMAIN w : w[k] \in verdicts}}
      started == {j \in DOMAIN w : w[j] \notin {"late", "cooling"}}
      tried == Met({"refused", "ends_route", "ready"})
      late == IF end = "late" THEN {order[p] : p \in last..Len(order)} ELSE {}
      told == [m \in Models |-> IF m \in late THEN "late"
                                ELSE IF m \in Met({"cooling"}) THEN "cooldown"
                                ELSE IF m \in Met({"refused", "ends_route"}) THEN "failed"
                                ELSE rows[m]]
  IN [rows |-> IF end = "ends_route" THEN RouteEnded(told, order[last]) ELSE told,
      current |-> IF started = {} THEN current ELSE order[cands[Max(started)]],
      attempted |-> (attempted \ (late \cup Met({"cooling"}))) \cup tried,
      spent |-> end = "late",
      at |-> IF end = "ready" THEN last ELSE 0]

NoWalk == [rows |-> rows, current |-> current, attempted |-> attempted, spent |-> spent, at |-> 0]

\* _prepare_from: the first candidate that resolves and passes its preflight.
Prepared(cands) == IF cands = <<>> THEN {NoWalk} ELSE {Walked(cands, w) : w \in Walks(cands)}

Enter(book) ==
  rows' = book.rows /\ current' = book.current /\ attempted' = book.attempted
    /\ spent' = book.spent

\* The attempt at position p begins.
Begin(p) ==
  pc' = "read" /\ position' = p /\ upstream' = Fresh /\ held' = <<>> /\ fault' = "none"

\* The request ends with its error.
Raise == pc' = "raised" /\ published' = TRUE

\* _charge_failure.
Charge(m) == owed' = [owed EXCEPT ![m] = @ - 1]

-----------------------------------------------------------------------------
(* Before the stream. *)

\* stream(): the models worth attempting are fixed.
Plan ==
  /\ pc = "new"
  /\ \E paused, benched \in SUBSET Models :
       /\ Cardinality(paused \cup benched) <= MaxOut
       /\ LET usable == Usable(paused, benched)
          IN /\ order' = Ascending(usable)
             /\ rows' = [m \in Models |-> IF m \in usable THEN "never"
                                          ELSE IF m \in paused THEN "paused" ELSE "ejected"]
             /\ IF usable = {} THEN Raise ELSE pc' = "prepare" /\ UNCHANGED published
  /\ UNCHANGED <<surface, attemptVars, fault, splicer, following, shown, current, attempted, owed,
                 retryVars, spent>>

\* The first is prepared before the stream is returned; if none can be, the error
\* is raised to the caller.
Preflight ==
  /\ pc = "prepare"
  /\ \E book \in Prepared(Candidates(1)) :
       /\ Enter(book)
       /\ IF book.at = 0 THEN Raise ELSE pc' = "made" /\ UNCHANGED published
       /\ position' = book.at
  /\ UNCHANGED <<surface, order, upstream, held, fault, splicer, following, shown, owed,
                 retryVars>>

FirstPull ==
  /\ pc = "made"
  /\ pc' = "read"
  /\ UNCHANGED <<surface, order, attemptVars, fault, splicer, following, shown, ledgerVars, owed,
                 retryVars, spent>>

\* A generator that was never started runs nothing when it is closed.
NeverPulled ==
  /\ pc = "made"
  /\ pc' = "unread"
  /\ UNCHANGED <<surface, order, attemptVars, fault, splicer, following, shown, ledgerVars, owed,
                 retryVars, spent>>

-----------------------------------------------------------------------------
(* One attempt. *)

\* External: the next frames a provider stream may emit.  Only a continuation can
\* start the answer over.
Step(f, phase, blocks, spoke) ==
  [frame |-> f, upstream |-> [phase |-> phase, blocks |-> blocks, spoke |-> spoke]]
Emissions ==
  LET n == upstream.blocks
      MayOpen == n = 0 \/ (n < MaxBlocks /\ Cardinality(attempted) + NextIndex(shown) <= MaxLong)
  IN CASE upstream.phase = "new" -> {Step(Start, "between", n, FALSE)}
       [] upstream.phase = "between" ->
            {Step(Open(n, k), k, n + 1, FALSE) : k \in IF MayOpen THEN Kinds ELSE {}}
            \cup {Step(Reason("own"), "reason", n, FALSE) : x \in IF n > 0 THEN {1} ELSE {}}
       [] upstream.phase \in Kinds /\ ~upstream.spoke ->
            {Step(Delta(n - 1, upstream.phase, Model, w), upstream.phase, n, TRUE) :
               w \in IF Continuing /\ upstream.phase = "text" THEN {"new", "again"} ELSE {"new"}}
       [] upstream.phase \in Kinds /\ upstream.spoke -> {Step(Close(n - 1), "between", n, FALSE)}
       [] upstream.phase = "reason" -> {Step(Stop, "stopped", n, FALSE)}
       [] OTHER -> {}

\* A chunk arrives: held back, sent, or rewritten for the message it continues.
Chunk ==
  /\ pc = "read"
  /\ \E e \in Emissions :
       /\ upstream' = e.upstream
       /\ \/ surface.buffered
             /\ held' = Append(held, e.frame) /\ UNCHANGED <<shown, splicer>>
          \/ ~surface.buffered /\ ~Continuing
             /\ shown' = Append(shown, e.frame) /\ UNCHANGED <<held, splicer>>
          \/ ~surface.buffered /\ Continuing
             /\ \E r \in Rewrites(splicer, e.frame) :
                  splicer' = r.splicer /\ shown' = shown \o r.out
             /\ UNCHANGED held
  /\ UNCHANGED <<surface, order, pc, position, fault, following, ledgerVars, owed, retryVars, spent>>

\* The stream is over; it is closed before anything is decided.
StreamEnds ==
  /\ pc = "read" /\ upstream.phase = "stopped"
  /\ pc' = "closing" /\ upstream' = Fresh
  /\ UNCHANGED <<surface, order, position, held, fault, splicer, following, shown, ledgerVars, owed,
                 retryVars, spent>>

\* It fails, and what was held back goes with it.  A pool reports a limit of the model
\* before its stream opens; once committed only the end of the route is told apart.
StreamFails(f) ==
  /\ pc = "read"
  /\ f = "limited" => upstream.phase = "new"
  /\ fault' = (IF Committed /\ f # "ends_route" THEN "transient" ELSE f)
  /\ pc' = "closing" /\ upstream' = Fresh /\ held' = <<>>
  /\ owed' = [owed EXCEPT ![Model] = @ + 1]
  /\ UNCHANGED <<surface, order, position, splicer, following, shown, ledgerVars, retryVars, spent>>

\* _next_chunk gives up on it: no first token, a stall, or the budget is spent.
DeadlineReached == StreamFails("transient")

-----------------------------------------------------------------------------
(* After a failure the client has seen the beginning of. *)

\* _can_resume.
Resumable ==
  surface.resume /\ surface.messages /\ fault # "ends_route" /\ Closable(shown) /\ HasText(shown)

\* Mutant: a failure that another model makes good is not charged.
ResumeUncharged(p) ==
  /\ rows' = [rows EXCEPT ![Model] = "failed"]
  /\ following' = 0
  /\ Begin(p)
  /\ UNCHANGED owed

\* The failure is recorded and charged, and the turn of the next model begins.
Resume(p) ==
  /\ rows' = [rows EXCEPT ![Model] = "failed"]
  /\ Charge(Model)
  /\ following' = 0
  /\ Begin(p)

\* _truncate_after_commit, when there is no next model: the message is ended on
\* what was sent, or the error follows it.
CutShort(book) ==
  IF surface.clean /\ surface.messages /\ Closable(shown)
  THEN /\ pc' = "cutting" /\ shown' = shown \o TruncationFrames(shown)
       /\ Enter(book)
       /\ UNCHANGED published
  ELSE /\ rows' = RouteEnded([book.rows EXCEPT ![Model] = "failed"], Model)
       /\ current' = book.current /\ attempted' = book.attempted /\ spent' = book.spent
       /\ Raise
       /\ UNCHANGED shown

\* The next model is found, and what it may go on writing into is frozen, before the
\* open blocks are closed for it.
CommittedFailure ==
  /\ pc = "closing" /\ fault # "none" /\ Committed
  /\ \E book \in IF Resumable THEN Prepared(Candidates(position + 1)) ELSE {NoWalk} :
       IF book.at # 0
       THEN /\ pc' = IF CloseFrames(shown) = <<>> THEN "resume" ELSE "seam"
            /\ following' = book.at /\ shown' = shown \o CloseFrames(shown)
            /\ splicer' = NewSplicer(shown)
            /\ Enter(book)
            /\ UNCHANGED published
       ELSE CutShort(book) /\ UNCHANGED <<following, splicer>>
  /\ UNCHANGED <<surface, order, attemptVars, fault, owed, retryVars>>

\* The client took the closing frames, if there were any.
SeamSent ==
  /\ pc \in {"seam", "resume"}
  /\ Resume(following)
  /\ UNCHANGED <<surface, order, splicer, shown, current, published, attempted, retryVars, spent>>

\* The client took the ending: the failure is recorded and charged.
CutSent ==
  /\ pc = "cutting"
  /\ rows' = RouteEnded([rows EXCEPT ![Model] = "failed"], Model)
  /\ Charge(Model)
  /\ pc' = "truncated" /\ published' = TRUE
  /\ UNCHANGED <<surface, order, attemptVars, fault, splicer, following, shown, current, attempted,
                 retryVars, spent>>

-----------------------------------------------------------------------------
(* After a success. *)

\* What was held back is sent, or the message that was continued is ended.
Finish ==
  /\ pc = "closing" /\ fault = "none"
  /\ pc' = IF Continuing \/ held # <<>> THEN "finishing" ELSE "finished"
  /\ shown' = shown \o IF Continuing THEN FinishFrames(splicer) ELSE held
  /\ UNCHANGED <<surface, order, attemptVars, fault, splicer, following, ledgerVars, owed,
                 retryVars, spent>>

FinishSent ==
  /\ pc \in {"finishing", "finished"}
  /\ rows' = [rows EXCEPT ![Model] = "succeeded"]
  /\ pc' = "done" /\ published' = TRUE
  /\ UNCHANGED <<surface, order, attemptVars, fault, splicer, following, shown, current, attempted,
                 owed, retryVars, spent>>

-----------------------------------------------------------------------------
(* After a failure the client does not know of. *)

\* It is recorded and charged.  Some failures no other model would do better at, and
\* some the same model may not repeat.
UncommittedFailure ==
  /\ pc = "closing" /\ fault # "none" /\ ~Committed
  /\ Charge(Model)
  /\ LET failed == [rows EXCEPT ![Model] = "failed"]
     IN IF fault = "ends_route" THEN rows' = RouteEnded(failed, Model) /\ Raise
        ELSE /\ rows' = failed /\ UNCHANGED published
             /\ pc' \in IF surface.retryOnce /\ fault # "limited" /\ position = 1 /\ ~retried
                        THEN {"retry", "route"} ELSE {"route"}
  /\ UNCHANGED <<surface, order, attemptVars, fault, splicer, following, shown, current, attempted,
                 retryVars, spent>>

\* One walk along the candidates: the attempt it found begins, or Else.
Walk(cands, Else) ==
  /\ \E book \in Prepared(cands) :
       /\ Enter(book)
       /\ IF book.at # 0 THEN Begin(book.at) /\ UNCHANGED published
          ELSE Else /\ UNCHANGED <<attemptVars, fault>>
  /\ UNCHANGED <<surface, order, splicer, following, shown, owed>>

GoTo(next) == pc' = next /\ UNCHANGED published

\* The first model of the route is tried once more, where the policy says so.
RetryPrimary ==
  /\ pc = "retry"
  /\ retried' = TRUE
  /\ Walk(Candidates(position), GoTo("route"))
  /\ UNCHANGED <<probed, tries>>

\* A limit of the model only is routed around once per position.
RoutesAround == fault = "limited" /\ position \notin probed
LaterSibling ==
  Model \in Siblings /\ \E p \in DOMAIN order : p > position /\ order[p] \in Siblings

\* No candidate is left: the model itself again, if it was only rate limited.
Exhausted ==
  IF fault \in {"limited", "rate_limit"} /\ tries[position] < Max({1, MaxTries})
  THEN GoTo("ladder") ELSE Raise

\* The models on the provider of the limited one are tried first.
PreferSibling ==
  /\ pc = "route" /\ RoutesAround /\ LaterSibling
  /\ probed' = probed \cup {position}
  /\ Walk(SiblingsFirst(position + 1), Exhausted)
  /\ UNCHANGED <<retried, tries>>

\* Mutant: the position is not remembered as probed.
ProbeForgotten ==
  /\ pc = "route" /\ RoutesAround /\ ~LaterSibling
  /\ pc' \in {"probe", "fall"}
  /\ UNCHANGED <<surface, order, attemptVars, fault, splicer, following, shown, ledgerVars, owed,
                 retryVars, spent>>

\* With none of them left the credential is asked, if there is a question for it.
Probe ==
  /\ pc = "route" /\ RoutesAround /\ ~LaterSibling
  /\ probed' = probed \cup {position}
  /\ pc' \in {"probe", "fall"}
  /\ UNCHANGED <<surface, order, attemptVars, fault, splicer, following, shown, ledgerVars, owed,
                 retried, tries, spent>>

\* Only a limit of the credential itself brings the same model back.
ProbeAnswered ==
  /\ pc = "probe"
  /\ pc' \in {"again", "fall"}
  /\ UNCHANGED <<surface, order, attemptVars, fault, splicer, following, shown, ledgerVars, owed,
                 retryVars, spent>>

Fallback ==
  /\ pc \in {"fall", "again"} \/ (pc = "route" /\ ~RoutesAround)
  /\ Walk(Candidates(IF pc = "again" THEN position ELSE position + 1), Exhausted)
  /\ UNCHANGED retryVars

Ladder ==
  /\ pc = "ladder"
  /\ tries' = [tries EXCEPT ![position] = @ + 1]
  /\ Walk(Candidates(position), Raise)
  /\ UNCHANGED <<retried, probed>>

-----------------------------------------------------------------------------
(* The client and the clock. *)

\* The client leaves while the generator awaits or yields: the attempt that was
\* started last is recorded as interrupted, and the attempt is forgotten.
ClientLeaves ==
  /\ pc \in {"read", "closing", "probe", "seam", "cutting", "finishing"}
  /\ rows' = [rows EXCEPT ![current] = "interrupted"]
  /\ pc' = "left" /\ published' = TRUE
  /\ upstream' = Fresh /\ held' = <<>> /\ fault' = "none" /\ splicer' = NoSplicer
  /\ UNCHANGED <<surface, order, position, following, shown, current, attempted, owed, retryVars,
                 spent>>

Ended == Over /\ UNCHANGED vars

Attempt == Chunk \/ StreamEnds \/ DeadlineReached
Decision ==
  \/ Plan \/ Preflight
  \/ CommittedFailure \/ Finish \/ UncommittedFailure
  \/ RetryPrimary \/ PreferSibling \/ Probe \/ ProbeAnswered \/ Fallback \/ Ladder
Pulled == FirstPull \/ NeverPulled \/ SeamSent \/ CutSent \/ FinishSent \/ ClientLeaves

Next ==
  \/ Attempt \/ Decision \/ Pulled \/ Ended
  \/ \E f \in Faults : StreamFails(f)

Spec == Init /\ [][Next]_vars

\* A wait for a chunk has a deadline, a close and a probe have their own, and a
\* client takes what is sent to it or leaves.
FairSpec == Spec /\ WF_vars(Attempt \/ Decision \/ Pulled)

-----------------------------------------------------------------------------
(* Properties. *)

\* The n-th frame is in a block of its kind that was opened before it and is not closed.
InBlock(s, n) ==
  /\ \E o \in FramesOf(s, "open") :
       o < n /\ s[o].index = s[n].index /\ (s[n].type = "delta" => s[o].kind = s[n].kind)
  /\ \A c \in FramesOf(s, "close") : c < n => s[c].index # s[n].index

\* The frames of a message, in the order every client relies on: a start, blocks
\* with indices that are used once, content only inside a block that is open, and
\* after the last block one reason and a stop.
WellFormed(s) ==
  /\ s # <<>> => FramesOf(s, "start") = {1}
  /\ \A m, n \in FramesOf(s, "open") : s[m].index = s[n].index => m = n
  /\ \A n \in FramesOf(s, "close") \cup FramesOf(s, "delta") : InBlock(s, n)
  /\ \A n \in FramesOf(s, "reason") :
       OpenBlocks(s) = {} /\ \A m \in DOMAIN s : m > n => s[m] = Stop
  /\ \A n \in FramesOf(s, "stop") : n = Len(s) /\ s[n - 1].type = "reason"

Whole(s) == WellFormed(s) /\ s # <<>> /\ Last(s) = Stop
Writers == {shown[n].by : n \in FramesOf(shown, "delta")}

\* Whatever fails and whoever takes over, the client reads one message: its frames
\* are well formed across every seam and complete when the request ends normally, a
\* model's own ending is only shown if that model finished, no tool call is
\* closed without its arguments, nothing of a second model's thinking is shown, and
\* a client that does not stream sees one model's answer only.
OneMessage ==
  /\ WellFormed(shown)
  /\ pc \in {"done", "truncated"} => Whole(shown)
  /\ pc = "truncated" => Reason("own") \notin Range(shown)
  /\ \A n \in FramesOf(shown, "close") :
       IsKind(shown, shown[n].index, "tool") => HasContent(shown, shown[n].index)
  /\ \A n \in FramesOf(shown, "delta") :
       shown[n].kind = "thinking" => shown[n].by = shown[Min(FramesOf(shown, "delta"))].by
  /\ surface.buffered =>
       Writers \subseteq IF pc \in {"finishing", "done", "left"} THEN {Model} ELSE {}

\* Where the failure of the attempt under way need not be charged yet: until the client
\* took what was sent because of it.
Undecided == pc \in {"seam", "resume", "cutting"} \/ (pc = "closing" /\ fault # "none")

\* The ledger and the health of the models tell what became of every attempt.  At any
\* time a failed stream is charged to its model once: never twice, and not later than
\* the next attempt or the end of the request, except that an error which is passed on
\* to the client, and a failure that the client leaves before it was dealt with, are
\* not charged.  At the end of a request whose stream was read the ledger is published,
\* the model that finished and no other succeeded, and a model that was tried, by the
\* last walk that met it, is not reported as skipped, except that a failure which ends
\* the route is told of every model behind, the budget if it runs out at a model ahead
\* of a preferred sibling that has refused is told of that sibling too, and a client
\* that leaves before a failure was dealt with leaves it untold.
EveryAttemptAccounted ==
  /\ \A m \in Models :
       /\ owed[m] \in {0, 1}
       /\ owed[m] = 1 =>
            m = Model /\ (Undecided \/ pc = "left" \/ (pc = "raised" /\ Committed))
  /\ Over /\ pc # "unread" =>
       /\ published
       /\ \A m \in Models : rows[m] = "succeeded" <=> (pc = "done" /\ m = Model)
       /\ pc = "left" => rows[current] = "interrupted"
       /\ \A m \in attempted :
            \/ rows[m] \notin Skips
            \/ rows[m] = "ended"
            \/ rows[m] = "late" /\ m \in Siblings /\ probed # {}
            \/ pc = "left" /\ m = Model

\* Every request ends: retries, probes and walks along the route do not go on for ever.
RequestEnds == <>Over
=============================================================================
