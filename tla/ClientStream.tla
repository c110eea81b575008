---------------------------- MODULE ClientStream ----------------------------
(***************************************************************************)
(* UniversalConverter with the converters of the two OpenAI APIs: which of *)
(* them runs is the API the client speaks.  (AnthropicStream is the same   *)
(* composition with the converter of the Messages API.)                    *)
(*                                                                         *)
(* The provider is external: it sends reasoning, then text, then tool      *)
(* calls one behind the other, each with an id in its first delta, then a  *)
(* finish, which it may repeat; it may stop anywhere.                      *)
(***************************************************************************)
EXTENDS SseConverter, ResponsesConverter, OpenaiPassthrough

CONSTANTS
  MaxCalls,    (* bound: tool calls of one answer                           *)
  Quirks       (* what else the provider does: "backtrack", text behind     *)
               (* a tool call                                               *)

VARIABLES
  api,    (* the API of the client: "responses" or "chat"                   *)
  st,     (* ResponsesStreamConverter and its client                        *)
  pt,     (* OpenaiPassthrough and its client                               *)
  up      (* the provider: how far its answer got, the fragments it sent of *)
          (* each call's arguments, the calls it gave an id to; and whether *)
          (* its finish was in the rest that parse_partial reads            *)

streamVars == <<framing, api, st, pt, up>>

Ranks == [reasoning |-> 0, content |-> 1, tool |-> 2, finish |-> 3]

Upstream(kind, calls) ==
  /\ \/ up.rank <= Ranks[kind] /\ (up.rank = 3 => kind = "finish")
     \/ "backtrack" \in Quirks /\ up.rank = 2 /\ kind = "content"
  /\ up' = [up EXCEPT !.rank = Ranks[kind], !.calls = calls,
                      !.late = kind = "finish" /\ up.rank < 3 /\ phase = "finalize"]

ToolInOrder(tc) ==
  LET n == Len(up.calls)
      had == IF tc.id THEN 0 ELSE up.calls[n]
      now == CASE tc.args = "none" -> had
               [] tc.args = "fragment" -> tc.piece
               [] OTHER -> ArgPieces
  IN /\ n = 0 => tc.id
     /\ tc.id => n < MaxCalls
     /\ tc.args = "fragment" => tc.piece = had + 1
     /\ tc.args # "fragment" => tc.piece = 1
     /\ tc.args = "reformatted" => had \in {0, ArgPieces}
     /\ Upstream("tool", IF tc.id THEN Append(up.calls, now)
                         ELSE [up.calls EXCEPT ![n] = now])

-----------------------------------------------------------------------------
StreamInit ==
  /\ FramingInit
  /\ api \in {"responses", "chat"}
  /\ st = ConverterInit
  /\ pt = PassthroughInit
  /\ up = [rank |-> 0, calls |-> << >>, named |-> {}, nameless |-> {},
            late |-> FALSE]

IsCompleted == IF api = "chat" THEN pt.completed ELSE st.completed

Framing == /\ NetworkChunk \/ NetworkTail \/ NetworkEnds(IsCompleted)
              \/ ExtractNothing \/ ExtractSkip \/ ExtractForward
           /\ UNCHANGED <<api, st, pt, up>>

(* process() of the Responses converter begins with the first chat chunk.  *)
Entered(open) == IF open /\ api = "responses" THEN BeginResponse(st) ELSE st

ProcessChunk ==
  /\ ExtractChunk
  /\ st' = Entered(TRUE)
  /\ UNCHANGED <<api, pt, up>>

ProcessRest ==
  /\ ParsePartial
  /\ st' = Entered(inChunk')
  /\ UNCHANGED <<api, pt, up>>

Converting == inChunk /\ api = "responses" /\ UNCHANGED <<api, pt>>

ReasoningDelta ==
  /\ Converting
  /\ Upstream("reasoning", up.calls)
  /\ st' = ProcessReasoningDelta(st)
  /\ UNCHANGED framing

ContentDelta ==
  /\ Converting
  /\ Upstream("content", up.calls)
  /\ st' = ProcessContentDelta(FinishReasoning(st))
  /\ UNCHANGED framing

ToolCallDelta(tc) ==
  /\ Converting
  /\ ToolInOrder(tc)
  /\ st' = ProcessToolCallDelta(FinishContent(FinishReasoning(st)), tc)
  /\ UNCHANGED framing

Completion ==
  /\ Converting
  /\ Upstream("finish", up.calls)
  /\ st' = ProcessCompletion(st)
  /\ ChunkEnds

ProcessReturns == Converting /\ ChunkEnds /\ UNCHANGED <<st, up>>

(* A chat client: any chunk, in any order.                                 *)
PassChunk(c) ==
  /\ inChunk /\ api = "chat"
  /\ pt' = PassthroughProcess(pt, c)
  /\ up' = [up EXCEPT !.named = IF c.id = "id" THEN @ \cup {c.index} ELSE @,
                      !.nameless = IF c.id = "null" /\ c.index \notin up.named \cup {NoIndex}
                                     THEN @ \cup {c.index} ELSE @]
  /\ ChunkEnds
  /\ UNCHANGED <<api, st>>

(* finalize closes what is open; the passthrough has none.                 *)
FinalizeStream ==
  /\ Finalize
  /\ st' = IF api = "responses" THEN FinishAll(st) ELSE st
  /\ UNCHANGED <<api, pt, up>>

StreamNext ==
  \/ Framing \/ ProcessChunk \/ ProcessRest \/ ReasoningDelta \/ ContentDelta
  \/ \E tc \in ToolDeltas : ToolCallDelta(tc)
  \/ Completion \/ ProcessReturns
  \/ \E c \in ChatChunks : PassChunk(c)
  \/ FinalizeStream

StreamSpec == StreamInit /\ [][StreamNext]_streamVars

-----------------------------------------------------------------------------
(* Every output item is added under the next number, gets its deltas and   *)
(* its end under that number while it is open, and the output array of     *)
(* response.completed lists exactly the items, in order; nothing follows.  *)
(* The converter numbers calls behind an index that text and reasoning     *)
(* move, and closes the same phases from three places.  The one exception  *)
(* is what CompletedIsLast below is about.                                 *)
ItemsWellFormed == st.wellFormed \/ (up.late /\ up.calls # << >>)

(* "Avoid calling finalize() when the converter already completed": once   *)
(* response.completed is out, the answer and its items stay as they are.   *)
(* A finish in an event that lacks its blank line breaks it: convert()     *)
(* asks is_completed() before it reads that event and not behind it, calls *)
(* finalize(), and the calls, which are still there, are done again.       *)
CompletedIsLast == [][st.finished => st' = st]_st

(* When convert() ends, no item is open, and the answer is completed if    *)
(* and only if the provider finished it.                                   *)
ItemsClosedAtEnd ==
  phase = "done" /\ api = "responses" =>
    /\ \A i \in 1 .. Len(st.items) : ~st.items[i].open
    /\ st.finished <=> up.rank = 3

(* The arguments held for each call are those the provider sent for it,    *)
(* although it repeats them whole or reformatted and although deltas are   *)
(* charged to the last call; what is added is at most one closing brace.   *)
CallArgsIntact ==
  api = "responses" =>
    /\ Len(st.calls) = Len(up.calls)
    /\ \A i \in 1 .. Len(up.calls) :
         \/ st.calls[i] = up.calls[i]
         \/ /\ st.completed \/ phase = "done"
            /\ st.calls[i] = Repaired(up.calls[i])

(* A chat client is told the id of a tool call with every delta that comes *)
(* once the provider has given it, and receives nothing behind a finish.   *)
ChatDeltasNamed ==
  api = "chat" =>
    /\ pt.nameless \subseteq up.nameless
    /\ ~pt.behind
=============================================================================
