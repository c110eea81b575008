--------------------------- MODULE AnthropicStream ---------------------------
(***************************************************************************)
(* AnthropicStreamConverter behind UniversalConverter: an OpenAI chat      *)
(* stream becomes the event stream of the Anthropic Messages API.          *)
(*                                                                         *)
(* The converter's fields and the client that reads its events are one     *)
(* record st, so that a method of the converter is an operator st -> st    *)
(* and the order of the calls in the code is the nesting of the operators. *)
(* The client is the reader the events are meant for: it opens one content *)
(* block at a time, numbered from 0, and expects no event after            *)
(* message_stop.  It never refuses an event; it notes that one was wrong.  *)
(* What is no event of the Messages API, the [DONE] and the errors of      *)
(* upstream that ExtractForward hands on, it does not read.                *)
(***************************************************************************)
EXTENDS SseConverter, Integers

CONSTANTS
  ArgPieces,   (* fragments in the arguments of one tool call; the last is  *)
               (* the closing brace                                         *)
  Quirks       (* what upstream does beside the regular order: "literal", a *)
               (* fragment that is JSON by itself                           *)

ASSUME ConverterAssumption == ArgPieces \in Nat /\ ArgPieces > 1

VARIABLES
  st,     (* the converter and the client that reads its events             *)
  up      (* upstream: how far its message got, how many fragments of the   *)
          (* arguments of its latest tool call it has sent, and whether     *)
          (* that is not its first                                          *)

messagesVars == <<framing, st, up>>

(* A tool delta with an id begins a tool call.  Its arguments are the next *)
(* fragment, one that is JSON by itself (such as the number in             *)
(* `{"n": 1}`), the whole object, or that in another formatting.           *)
ArgKinds == {"none", "fragment", "literal", "whole", "reformatted"}
Tool(id, args, piece) == [id |-> id, args |-> args, piece |-> piece]
ToolDeltas == {Tool(id, args, n) : id \in BOOLEAN, args \in ArgKinds, n \in 1 .. ArgPieces}

Garbled == ArgPieces + 1    \* fragments that do not add up to an object

-----------------------------------------------------------------------------
(* The client.                                                             *)
NoBlock == -1

Wrong(s) == [s EXCEPT !.wellFormed = FALSE]

MessageStart(s) ==
  IF s.started THEN Wrong(s) ELSE [s EXCEPT !.started = TRUE]

BlockStart(s) ==
  IF s.started /\ ~s.stopped /\ s.open = NoBlock /\ s.index = s.closed
    THEN [s EXCEPT !.open = s.index]
    ELSE Wrong([s EXCEPT !.open = s.index])

BlockDelta(s) == IF s.open = s.index THEN s ELSE Wrong(s)

BlockStop(s) ==
  IF s.open = s.index
    THEN [s EXCEPT !.open = NoBlock, !.closed = @ + 1]
    ELSE Wrong(s)

MessageStop(s) ==
  IF s.started /\ ~s.stopped /\ s.open = NoBlock
    THEN [s EXCEPT !.stopped = TRUE]
    ELSE Wrong(s)

-----------------------------------------------------------------------------
(* The methods of the converter.                                           *)
States == {"Initial", "MessageInProgress", "Reasoning", "Text", "ToolUse",
           "Completed"}

StInit == [state |-> "Initial", index |-> 0, args |-> 0, completed |-> FALSE,
           started |-> FALSE, open |-> NoBlock, closed |-> 0,
           stopped |-> FALSE, wellFormed |-> TRUE]

CreateMessageStart(s) ==
  IF s.state = "Initial"
    THEN [MessageStart(s) EXCEPT !.state = "MessageInProgress"]
    ELSE s

(* Mutant of CloseBlock: the next block takes the number of this one.      *)
CloseBlockKeepsIndex(s, state) ==
  IF s.state = state
    THEN [BlockStop(s) EXCEPT !.state = "MessageInProgress"]
    ELSE s

(* finish_reasoning and finish_content: the open block of that kind ends.  *)
CloseBlock(s, state) ==
  IF s.state = state
    THEN [BlockStop(s) EXCEPT !.index = @ + 1, !.state = "MessageInProgress"]
    ELSE s

FinishReasoning(s) == CloseBlock(s, "Reasoning")
FinishContent(s)   == CloseBlock(s, "Text")

(* finish_tool_calls supplies a closing brace that upstream never sent.    *)
FinishToolCalls(s) ==
  IF s.state = "ToolUse" /\ s.args = ArgPieces - 1
    THEN CloseBlock([BlockDelta(s) EXCEPT !.args = ArgPieces], "ToolUse")
    ELSE CloseBlock(s, "ToolUse")

(* Mutant of FinishAll: an open tool call is forgotten.                    *)
FinishAllButTool(s) == FinishContent(FinishReasoning(s))

FinishAll(s) == FinishToolCalls(FinishContent(FinishReasoning(s)))

(* process_reasoning_delta and process_content_delta.                      *)
StreamBlock(s, state) ==
  BlockDelta(IF s.state = state THEN s
             ELSE [BlockStart(s) EXCEPT !.state = state])

ProcessReasoningDelta(s) == StreamBlock(s, "Reasoning")
ProcessContentDelta(s)   == StreamBlock(s, "Text")

(* process_tool_call_delta: an id begins a block.  Then the arguments:     *)
(* what is JSON by itself adds what is missing of it if it goes on from    *)
(* what is there, and nothing otherwise; a fragment is always accepted.    *)
BeginTool(s) == [BlockStart(s) EXCEPT !.args = 0, !.state = "ToolUse"]

TakeArgs(s, n) == [BlockDelta(s) EXCEPT !.args = n]

(* Mutant of AddArgs: no duplicate detection.                              *)
AddArgsAgain(s, tc) ==
  IF tc.args = "none" THEN s
  ELSE TakeArgs(s, IF tc.args = "fragment" THEN tc.piece
                   ELSE IF s.args = 0 THEN ArgPieces ELSE Garbled)

AddArgs(s, tc) ==
  CASE tc.args = "none"        -> s
    [] tc.args = "fragment"    -> TakeArgs(s, IF tc.piece = s.args + 1 THEN tc.piece ELSE Garbled)
    [] tc.args = "whole"       -> IF s.args < ArgPieces THEN TakeArgs(s, ArgPieces) ELSE s
    [] tc.args = "literal"     -> IF s.args = 0 THEN TakeArgs(s, Garbled) ELSE s
    [] tc.args = "reformatted" -> IF s.args = 0 THEN TakeArgs(s, ArgPieces) ELSE s

ProcessToolCallDelta(s, tc) ==
  LET begun == IF tc.id THEN BeginTool(s) ELSE s
  IN IF begun.state = "ToolUse" THEN AddArgs(begun, tc) ELSE begun

ProcessCompletion(s) ==
  IF s.completed THEN s
  ELSE [MessageStop(FinishAll([s EXCEPT !.completed = TRUE]))
          EXCEPT !.state = "Completed"]

-----------------------------------------------------------------------------
(* Upstream, which is external: the order in which a message comes.  What  *)
(* finishes a message may be sent twice (vLLM does).                       *)
Ranks == [reasoning |-> 0, content |-> 1, tool |-> 2, finish |-> 3]

InOrder(kind) == up.rank <= Ranks[kind] /\ (up.rank = 3 => kind = "finish")

Upstream(kind, args, parallel) ==
  /\ InOrder(kind)
  /\ up' = [rank |-> IF up.rank < Ranks[kind] THEN Ranks[kind] ELSE up.rank,
            args |-> args, parallel |-> parallel]

(* The tool calls come one behind the other, as many as the model made.    *)
ToolInOrder(tc) ==
  /\ up.rank < 2 => tc.id
  /\ LET had == IF tc.id THEN 0 ELSE up.args
     IN /\ tc.args = "literal" => "literal" \in Quirks /\ had \in 1 .. ArgPieces - 2
        /\ tc.args \in {"literal", "fragment"} => tc.piece = had + 1
        /\ tc.args = "reformatted" => had \in {0, ArgPieces}
        /\ tc.args \in {"none", "whole", "reformatted"} => tc.piece = 1
        /\ Upstream("tool",
                    CASE tc.args = "none" -> had
                      [] tc.args \in {"fragment", "literal"} -> tc.piece
                      [] OTHER -> ArgPieces,
                    up.parallel \/ (tc.id /\ up.rank = 2))

-----------------------------------------------------------------------------
MessagesInit ==
  /\ FramingInit
  /\ st = StInit
  /\ up = [rank |-> 0, args |-> 0, parallel |-> FALSE]

Framing == /\ NetworkChunk \/ NetworkTail \/ NetworkEnds(st.completed)
              \/ ExtractNothing \/ ExtractSkip \/ ExtractForward
           /\ UNCHANGED <<st, up>>

(* process: the first chat chunk starts the message.                       *)
ProcessChunk ==
  /\ ExtractChunk
  /\ st' = CreateMessageStart(st)
  /\ UNCHANGED up

ProcessRest ==
  /\ ParsePartial
  /\ st' = IF inChunk' THEN CreateMessageStart(st) ELSE st
  /\ UNCHANGED up

ReasoningDelta ==
  /\ inChunk
  /\ Upstream("reasoning", up.args, up.parallel)
  /\ st' = ProcessReasoningDelta(st)
  /\ UNCHANGED framing

ContentDelta ==
  /\ inChunk
  /\ Upstream("content", up.args, up.parallel)
  /\ st' = ProcessContentDelta(FinishReasoning(st))
  /\ UNCHANGED framing

ToolCallDelta(tc) ==
  /\ inChunk
  /\ ToolInOrder(tc)
  /\ st' = ProcessToolCallDelta(FinishContent(FinishReasoning(st)), tc)
  /\ UNCHANGED framing

(* A finish_reason: the rest of the chat chunk is not looked at.           *)
Completion ==
  /\ Upstream("finish", up.args, up.parallel)
  /\ st' = ProcessCompletion(st)
  /\ ChunkEnds

ProcessReturns == ChunkEnds /\ UNCHANGED <<st, up>>

FinalizeStream ==
  /\ Finalize
  /\ st' = FinishAll(st)
  /\ UNCHANGED up

MessagesNext ==
  \/ Framing \/ ProcessChunk \/ ProcessRest \/ ReasoningDelta \/ ContentDelta
  \/ \E tc \in ToolDeltas : ToolCallDelta(tc)
  \/ Completion \/ ProcessReturns \/ FinalizeStream

MessagesSpec == MessagesInit /\ [][MessagesNext]_messagesVars

(* convert() is polled until it ends; a chat chunk has finitely many       *)
(* deltas; and an upstream that falls silent is cut off by the read        *)
(* timeout of the HTTP client, which ends the byte stream with an error.   *)
Convert == Framing \/ ProcessChunk \/ ProcessRest \/ ProcessReturns \/ FinalizeStream

-----------------------------------------------------------------------------
MessagesTypeOK ==
  /\ FramingTypeOK
  /\ st \in [state : States, index : Nat, args : 0 .. Garbled,
             completed : BOOLEAN, started : BOOLEAN, open : Int, closed : Nat,
             stopped : BOOLEAN, wellFormed : BOOLEAN]
  /\ up \in [rank : 0 .. 3, args : 0 .. ArgPieces, parallel : BOOLEAN]

(* The client reads no event that is out of place: a delta or a stop of a  *)
(* block that is not open, a block inside another, a number that is out of *)
(* sequence, a second message_start, or an event behind message_stop,      *)
(* however upstream's deltas are cut into chat chunks and the chunks into  *)
(* network chunks, and also when the stream breaks off.  That holds for a  *)
(* message with one tool call; process_tool_call_delta does not close the  *)
(* block of a call before it opens that of the next (BlocksInOrder).       *)
WellFormed == st.wellFormed \/ up.parallel

(* "Converts OpenAI ChatCompletion SSE chunks into Anthropic Messages API  *)
(* SSE events": the events of any message are in the order that protocol   *)
(* has them.                                                               *)
BlocksInOrder == st.wellFormed

(* However convert() ends, no block stays open, and message_stop was sent  *)
(* if and only if upstream finished: a message cut off must not look       *)
(* complete to the client.                                                 *)
ClosedAtEnd ==
  phase = "done" => /\ st.open = NoBlock
                    /\ st.stopped <=> up.rank = 3

(* The arguments the client holds of the latest tool call are those        *)
(* upstream sent, each part once, although upstream repeats the object     *)
(* whole or in another formatting; what was added is at most the last      *)
(* brace, and only once the call is closed.                                *)
ToolArgsIntact ==
  \/ st.args = up.args
  \/ st.state # "ToolUse" /\ up.args = ArgPieces - 1 /\ st.args = ArgPieces

(* A stream that upstream ends in the ordinary way, with an event in every *)
(* frame, is used to its last event: nothing complete is left in the       *)
(* buffer, not even an event that lacks only its blank line.  Only what    *)
(* comes behind the end of the message may stay.                           *)
NothingLost ==
  phase = "done" /\ net = "eof" /\ ~skipped =>
    /\ buffer = << >>
    /\ \/ tail = NoTail \/ ~tail.whole
       \/ tail.kind \in {"comment", "bad"}
       \/ st.completed

=============================================================================
