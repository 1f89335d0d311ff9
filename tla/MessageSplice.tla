---------------------------- MODULE MessageSplice ----------------------------
(***************************************************************************)
(* The frames of one Anthropic message, what a tracker of the frames sent  *)
(* so far knows about it (core/anthropic/streaming/truncation.py), and the *)
(* rewriting of a second model's stream into the rest of a message that a  *)
(* first one left half-written (core/anthropic/streaming/splice.py).       *)
(*                                                                         *)
(* Pure operators.  A block carries at most one delta, which is all of its *)
(* content: a tool block without one has incomplete arguments.  A frame is *)
(* never split over two chunks.  The comparison of texts is abstracted to  *)
(* the words of a delta: "again" if they start the answer over.            *)
(***************************************************************************)
EXTENDS Integers, FiniteSets, SequencesExt

CONSTANT MaxBlocks  \* bound: content blocks of one upstream stream

ASSUME BlocksAssumption == MaxBlocks \in Nat \ {0}

Kinds == {"text", "thinking", "tool"}
Sources == 0..(MaxBlocks - 1)
NoIndex == -1

Start == [type |-> "start"]
Open(i, kind) == [type |-> "open", index |-> i, kind |-> kind]
Delta(i, kind, author, words) ==
  [type |-> "delta", index |-> i, kind |-> kind, by |-> author, words |-> words]
Close(i) == [type |-> "close", index |-> i]
\* message_delta: the model's own stop_reason, or the one that means "cut short".
Reason(why) == [type |-> "reason", why |-> why]
Stop == [type |-> "stop"]

-----------------------------------------------------------------------------
(* The tracker: a function of the frames that were sent. *)

FramesOf(s, type) == {n \in DOMAIN s : s[n].type = type}
Opened(s) == {s[n].index : n \in FramesOf(s, "open")}
OpenBlocks(s) == Opened(s) \ {s[n].index : n \in FramesOf(s, "close")}
IsKind(s, i, kind) == \E n \in FramesOf(s, "open") : s[n] = Open(i, kind)
HasContent(s, i) == \E n \in FramesOf(s, "delta") : s[n].index = i
NextIndex(s) == IF Opened(s) = {} THEN 0 ELSE Max(Opened(s)) + 1
HasText(s) == \E n \in FramesOf(s, "delta") : s[n].kind = "text"

\* Closing it would hand the client a tool call with empty arguments.
IncompleteToolUse(s) == \E i \in OpenBlocks(s) : IsKind(s, i, "tool") /\ ~HasContent(s, i)

Closable(s) == Opened(s) # {} /\ FramesOf(s, "reason") = {} /\ ~IncompleteToolUse(s)

\* In the order of their numbers.
Ascending(S) ==
  CHOOSE s \in [1..Cardinality(S) -> S] : \A i, j \in 1..Cardinality(S) : i < j => s[i] < s[j]

Closings(blocks) == [n \in 1..Cardinality(blocks) |-> Close(Ascending(blocks)[n])]

\* The ending of a message that cannot be continued.
TruncationFrames(s) == Closings(OpenBlocks(s)) \o <<Reason("cut"), Stop>>

-----------------------------------------------------------------------------
(* The seam. *)

\* freeze_stream: the text block a continuation is written into, unless a tool
\* block is open as well.
OpenText(s) ==
  LET texts == {i \in OpenBlocks(s) : IsKind(s, i, "text")}
  IN IF texts = {} \/ \E i \in OpenBlocks(s) : IsKind(s, i, "tool") THEN NoIndex
     ELSE Min(texts)

\* Mutant: the block that will be continued is closed with the others.
CloseAllFrames(s) == Closings(OpenBlocks(s))

CloseFrames(s) == Closings(OpenBlocks(s) \ {OpenText(s)})

\* ContinuationSplicer, for the frames sent when the model before it failed.
NewSplicer(s) ==
  [text |-> OpenText(s),               \* _dest_text_index
   next |-> NextIndex(s),              \* _next_index
   open |-> {OpenText(s)} \ {NoIndex}, \* _open_dest
   index |-> [b \in Sources |-> NoIndex],  \* _index_map
   adopted |-> NoIndex,                \* _adopted_source
   dropped |-> {},                     \* _dropped_sources
   candidate |-> <<>>,                 \* text held back until the verdict
   decided |-> FALSE, rejected |-> FALSE,
   spoke |-> FALSE]                    \* _forwarded_chars > 0

Result(splicer, out) == [splicer |-> splicer, out |-> out]

\* Whether the words held back start the answer over.
Restarts(candidate) == candidate # <<>> /\ Head(candidate).words = "again"

\* _decide_if_pending: a restart is rejected, other words are released (also those that
\* the code would strip because they repeat the end of the message).
Decide(s) ==
  IF s.decided THEN Result(s, <<>>)
  ELSE IF Restarts(s.candidate)
  THEN Result([s EXCEPT !.decided = TRUE, !.rejected = TRUE, !.candidate = <<>>], <<>>)
  ELSE Result([s EXCEPT !.decided = TRUE, !.spoke = s.candidate # <<>>, !.candidate = <<>>],
              s.candidate)

\* A frame that needs the verdict first, and is sent if it is not a rejection.
Judged(verdict, sent) ==
  IF verdict.splicer.rejected THEN verdict ELSE Result(sent.splicer, verdict.out \o sent.out)

OnBlockStart(s, f) ==
  LET Allocate(t) == Result([t EXCEPT !.index[f.index] = t.next, !.next = @ + 1,
                                      !.open = @ \cup {t.next}],
                            <<Open(t.next, f.kind)>>)
  IN IF f.kind = "thinking" THEN Result([s EXCEPT !.dropped = @ \cup {f.index}], <<>>)
     ELSE IF f.kind = "text" /\ s.text # NoIndex /\ s.adopted = NoIndex
     THEN Result([s EXCEPT !.adopted = f.index, !.index[f.index] = s.text], <<>>)
     ELSE Judged(Decide(s), Allocate(Decide(s).splicer))

\* Words of the adopted block are held until there are enough of them.
OnCandidateText(s, f) ==
  LET words == Delta(s.text, "text", f.by, f.words)
      held == [s EXCEPT !.candidate = <<words>>]
  IN IF s.decided THEN {Result([s EXCEPT !.spoke = TRUE], <<words>>)}
     ELSE {Result(held, <<>>), Decide(held)}

OnBlockDelta(s, f) ==
  LET Send(t) == Result([t EXCEPT !.spoke = @ \/ f.kind = "text"],
                        <<Delta(t.index[f.index], f.kind, f.by, f.words)>>)
  IN IF f.index \in s.dropped THEN {Result(s, <<>>)}
     ELSE IF f.index = s.adopted THEN OnCandidateText(s, f)
     ELSE {Judged(Decide(s), Send(Decide(s).splicer))}

OnBlockStop(s, f) ==
  LET Send(t) == Result([t EXCEPT !.open = @ \ {t.index[f.index]}], <<Close(t.index[f.index])>>)
  IN IF f.index \in s.dropped THEN Result(s, <<>>) ELSE Judged(Decide(s), Send(Decide(s).splicer))

\* rewrite: what becomes of one frame of the continuation.
Rewrites(s, f) ==
  CASE s.rejected \/ f.type \in {"start", "reason", "stop"} -> {Result(s, <<>>)}
    [] ~s.rejected /\ f.type = "open" -> {OnBlockStart(s, f)}
    [] ~s.rejected /\ f.type = "delta" -> OnBlockDelta(s, f)
    [] ~s.rejected /\ f.type = "close" -> {OnBlockStop(s, f)}

\* finish: the stop reason is the model's own only if it carried the answer on.
FinishFrames(s) ==
  LET d == Decide(s)
  IN d.out \o Closings(d.splicer.open)
     \o <<Reason(IF ~d.splicer.rejected /\ d.splicer.spoke THEN "own" ELSE "cut"), Stop>>
=============================================================================
