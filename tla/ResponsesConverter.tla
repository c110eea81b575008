------------------------- MODULE ResponsesConverter -------------------------
(***************************************************************************)
(* ResponsesStreamConverter: chat chunks become the events of the OpenAI   *)
(* Responses API.  The converter's fields and the client that reads its    *)
(* events are one record, a method is an operator on it, and the order of  *)
(* the calls in the code is the nesting of the operators.                  *)
(*                                                                         *)
(* The client keeps the list of output items.  An item is added under the  *)
(* next output_index, receives deltas while it is open and is done once;   *)
(* response.completed repeats the items as an array.  The client refuses   *)
(* nothing; it notes that an event was wrong.                              *)
(***************************************************************************)
EXTENDS Naturals, Sequences

CONSTANT ArgPieces   (* fragments in the arguments of one tool call; the   *)
                     (* last is the closing brace                          *)

ASSUME ConverterAssumption == ArgPieces \in Nat \ {0}

Garbled == ArgPieces + 1    \* fragments that do not add up to an object

States == {"Initial", "InProgress", "Reasoning", "Content"}

(* What a tool delta may carry beside an id: nothing, the next fragment,   *)
(* the whole object, or the object in another formatting.                  *)
ArgKinds == {"none", "fragment", "whole", "reformatted"}
ToolDeltas == [id : BOOLEAN, args : ArgKinds, piece : 1 .. ArgPieces]

ConverterInit ==
  [state |-> "Initial", outputIdx |-> 0, contentStarted |-> FALSE,
   reasoned |-> FALSE, texted |-> FALSE, calls |-> << >>, completed |-> FALSE,
   items |-> << >>, created |-> FALSE, finished |-> FALSE, wellFormed |-> TRUE]

-----------------------------------------------------------------------------
(* The client.                                                             *)
Note(s, right) == [s EXCEPT !.wellFormed = @ /\ right]

Reading(s) == s.created /\ ~s.finished

ItemAdded(s, kind, idx) ==
  [Note(s, Reading(s) /\ idx = Len(s.items))
     EXCEPT !.items = Append(@, [kind |-> kind, open |-> TRUE])]

IsOpen(s, kind, idx) ==
  /\ Reading(s)
  /\ idx < Len(s.items)
  /\ s.items[idx + 1] = [kind |-> kind, open |-> TRUE]

ItemDelta(s, kind, idx) == Note(s, IsOpen(s, kind, idx))

ItemDone(s, kind, idx) ==
  IF IsOpen(s, kind, idx)
    THEN [s EXCEPT !.items[idx + 1].open = FALSE]
    ELSE Note(s, FALSE)

(* response.completed, with the kinds of the items in its output array.    *)
ResponseCompleted(s, output) ==
  [Note(s, /\ Reading(s)
           /\ output = [i \in 1 .. Len(s.items) |-> s.items[i].kind]
           /\ \A i \in 1 .. Len(s.items) : ~s.items[i].open)
     EXCEPT !.finished = TRUE]

-----------------------------------------------------------------------------
(* response.created and response.in_progress, on the first chat chunk.     *)
BeginResponse(s) ==
  IF s.state = "Initial"
    THEN [Note(s, ~s.created) EXCEPT !.created = TRUE, !.state = "InProgress"]
    ELSE s

ProcessReasoningDelta(s) ==
  LET begun == IF s.state = "Reasoning" THEN s
               ELSE [ItemAdded(s, "reasoning", s.outputIdx) EXCEPT !.state = "Reasoning"]
  IN [ItemDelta(begun, "reasoning", s.outputIdx) EXCEPT !.reasoned = TRUE]

FinishReasoning(s) ==
  IF s.state # "Reasoning" THEN s
  ELSE [ItemDone(s, "reasoning", s.outputIdx)
          EXCEPT !.state = "InProgress", !.outputIdx = @ + 1]

ProcessContentDelta(s) ==
  LET begun == IF s.contentStarted THEN s
               ELSE [ItemAdded(s, "message", s.outputIdx)
                       EXCEPT !.contentStarted = TRUE, !.state = "Content"]
  IN [ItemDelta(begun, "message", s.outputIdx) EXCEPT !.texted = TRUE]

(* Mutant of FinishContent: the flag that vLLM made necessary is not       *)
(* reset.                                                                  *)
FinishContentAgain(s) ==
  IF ~s.contentStarted THEN s
  ELSE [ItemDone(s, "message", s.outputIdx) EXCEPT !.outputIdx = @ + 1]

FinishContent(s) ==
  IF ~s.contentStarted THEN s
  ELSE [ItemDone(s, "message", s.outputIdx)
          EXCEPT !.outputIdx = @ + 1, !.contentStarted = FALSE]

-----------------------------------------------------------------------------
(* A delta with an id begins a call, numbered behind the calls before it.  *)
BeginCall(s) ==
  [ItemAdded(s, "call", s.outputIdx + Len(s.calls)) EXCEPT !.calls = Append(@, 0)]

(* Arguments are added to the last call, and nowhere else: what is JSON by *)
(* itself adds what is missing if it goes on from what is there, a         *)
(* duplicate adds nothing, and a fragment is always accepted.              *)
Added(had, tc) ==
  CASE tc.args = "none"        -> had
    [] tc.args = "fragment"    -> IF tc.piece = had + 1 THEN tc.piece ELSE Garbled
    [] tc.args = "whole"       -> IF had < ArgPieces THEN ArgPieces ELSE had
    [] tc.args = "reformatted" -> IF had = 0 THEN ArgPieces ELSE had

(* Mutant of AddArguments: a repeated object is appended.                  *)
AddArgumentsAgain(s, tc) ==
  LET n == Len(s.calls)
      had == s.calls[n]
  IN IF tc.args = "none" THEN s
     ELSE [ItemDelta(s, "call", s.outputIdx + n - 1)
             EXCEPT !.calls[n] = IF tc.args # "fragment" /\ had > 0
                                   THEN Garbled ELSE Added(had, tc)]

AddArguments(s, tc) ==
  LET n == Len(s.calls)
      had == s.calls[n]
  IN IF Added(had, tc) = had THEN s
     ELSE [ItemDelta(s, "call", s.outputIdx + n - 1)
             EXCEPT !.calls[n] = Added(had, tc)]

ProcessToolCallDelta(s, tc) == AddArguments(IF tc.id THEN BeginCall(s) ELSE s, tc)

(* finish_tool_calls: closing braces that never came are supplied, then    *)
(* every call is done.  The calls stay where they are.                     *)
Repaired(args) == IF args = ArgPieces - 1 THEN ArgPieces ELSE args

RepairCalls(s) ==
  [Note(s, \A i \in 1 .. Len(s.calls) :
             \/ Repaired(s.calls[i]) = s.calls[i]
             \/ IsOpen(s, "call", s.outputIdx + i - 1))
     EXCEPT !.calls = [i \in 1 .. Len(s.calls) |-> Repaired(s.calls[i])]]

CallsDone(s) ==
  LET numbers == {s.outputIdx + i - 1 : i \in 1 .. Len(s.calls)}
      closed  == {k \in 1 .. Len(s.items) : k - 1 \in numbers /\ IsOpen(s, "call", k - 1)}
  IN [Note(s, \A n \in numbers : IsOpen(s, "call", n))
        EXCEPT !.items = [k \in 1 .. Len(s.items) |->
                            [s.items[k] EXCEPT !.open = @ /\ k \notin closed]],
               !.outputIdx = @ + Len(s.calls)]

FinishToolCalls(s) == CallsDone(RepairCalls(s))

(* Mutant of FinishAll: open calls are forgotten.                          *)
FinishAllButCalls(s) == FinishContent(FinishReasoning(s))

FinishAll(s) == FinishToolCalls(FinishContent(FinishReasoning(s)))

(* The output array that response.completed repeats.                       *)
FinalOutput(s) ==
  (IF s.reasoned THEN <<"reasoning">> ELSE << >>)
    \o (IF s.texted THEN <<"message">> ELSE << >>)
    \o [i \in 1 .. Len(s.calls) |-> "call"]

(* process_completion, once; a second finish is not looked at.             *)
ProcessCompletion(s) ==
  IF s.completed THEN s
  ELSE LET closed == FinishAll([s EXCEPT !.completed = TRUE])
       IN ResponseCompleted(closed, FinalOutput(closed))
=============================================================================
