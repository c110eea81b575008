------------------------ MODULE AnthropicStreamProofs ------------------------
(***************************************************************************)
(* What is proved of AnthropicStream for every number of events, every     *)
(* network chunking and every number of argument fragments, for upstreams  *)
(* that send no fragment that is JSON by itself (Quirks = {}).             *)
(*                                                                         *)
(* The methods of the converter preserve Linked, which says that what the  *)
(* converter believes and what the client has read fit together; the       *)
(* inductive invariant IInv adds how both follow upstream.                 *)
(***************************************************************************)
EXTENDS AnthropicStream, TLAPS

Blocks == {"Reasoning", "Text", "ToolUse"}

StType == [state : States, index : Nat, args : 0 .. Garbled,
           completed : BOOLEAN, started : BOOLEAN, open : Int, closed : Nat,
           stopped : BOOLEAN, wellFormed : BOOLEAN]

(* The client has a block open exactly when the converter is in a state of *)
(* one, and it is the block the converter will name next.                  *)
Linked(s) ==
  /\ s \in StType
  /\ s.started <=> s.state # "Initial"
  /\ s.stopped <=> s.state = "Completed"
  /\ s.closed = s.index
  /\ s.open = IF s.state \in Blocks THEN s.index ELSE NoBlock

-----------------------------------------------------------------------------
(* The methods of the converter.                                           *)

LEMMA MessageStartLinked ==
  ASSUME NEW s, Linked(s)
  PROVE  LET t == CreateMessageStart(s)
         IN /\ Linked(t) /\ t.args = s.args /\ t.completed = s.completed
            /\ t.wellFormed = s.wellFormed
            /\ t.state = IF s.state = "Initial" THEN "MessageInProgress" ELSE s.state
  BY DEF Linked, StType, States, Blocks, NoBlock, CreateMessageStart, MessageStart, Wrong

LEMMA StreamLinked ==
  ASSUME NEW s, Linked(s), NEW b \in {"Reasoning", "Text"},
         s.state \in {"MessageInProgress", b}
  PROVE  LET t == StreamBlock(s, b)
         IN /\ Linked(t) /\ t.args = s.args /\ t.completed = s.completed /\ t.state = b
            /\ t.wellFormed = s.wellFormed
<1>1. CASE s.state = b
  BY <1>1 DEF Linked, StType, States, Blocks, NoBlock, StreamBlock, BlockDelta, Wrong
<1>2. CASE s.state = "MessageInProgress"
  <2> DEFINE u == [s EXCEPT !.open = s.index]
             r == [u EXCEPT !.state = b]
  <2>1. /\ u \in StType /\ u.open = s.index /\ u.index = s.index /\ u.closed = s.closed
        /\ u.args = s.args /\ u.completed = s.completed /\ u.started = s.started
        /\ u.stopped = s.stopped /\ u.wellFormed = s.wellFormed
    <3>1. s \in StType
      BY DEF Linked
    <3> QED
      BY <3>1 DEF StType
  <2>2. BlockStart(s) = u
    BY <1>2 DEF Linked, StType, Blocks, NoBlock, BlockStart
  <2> HIDE DEF u
  <2>3. /\ r \in StType
        /\ r.state = b /\ r.open = s.index /\ r.index = s.index /\ r.closed = s.closed
        /\ r.args = s.args /\ r.completed = s.completed /\ r.started = s.started
        /\ r.stopped = s.stopped /\ r.wellFormed = s.wellFormed
    BY <2>1 DEF StType, States
  <2>4. StreamBlock(s, b) = BlockDelta(r)
    BY <1>2, <2>2 DEF StreamBlock
  <2> HIDE DEF r
  <2>5. StreamBlock(s, b) = r
    BY <2>3, <2>4 DEF BlockDelta
  <2> QED
    BY <1>2, <2>3, <2>5 DEF Linked, Blocks
<1> QED
  BY <1>1, <1>2

LEMMA CloseLinked ==
  ASSUME NEW s, Linked(s), NEW b \in Blocks
  PROVE  LET t == CloseBlock(s, b)
         IN /\ Linked(t) /\ t.args = s.args /\ t.completed = s.completed
            /\ t.wellFormed = s.wellFormed
            /\ t.state = IF s.state = b THEN "MessageInProgress" ELSE s.state
<1>1. CASE s.state = b
  <2> DEFINE u == [s EXCEPT !.open = NoBlock]
             c == [u EXCEPT !.closed = s.closed + 1]
             d == [c EXCEPT !.index = c.index + 1]
             r == [d EXCEPT !.state = "MessageInProgress"]
  <2>1. s \in StType /\ s.open = s.index /\ s.closed = s.index /\ NoBlock \in Int
    BY <1>1 DEF Linked, NoBlock
  <2>2. /\ u \in StType /\ u.open = NoBlock /\ u.index = s.index
        /\ u.args = s.args /\ u.completed = s.completed /\ u.started = s.started
        /\ u.stopped = s.stopped /\ u.wellFormed = s.wellFormed
    BY <2>1 DEF StType
  <2>3. CloseBlock(s, b) = [[u EXCEPT !.closed = s.closed + 1]
                             EXCEPT !.index = s.index + 1, !.state = "MessageInProgress"]
    <3>1. BlockStop(s) = [s EXCEPT !.open = NoBlock, !.closed = s.closed + 1]
      BY <2>1 DEF BlockStop
    <3>2. BlockStop(s) = c
      BY <3>1
    <3>3. c.index = s.index
      BY <2>1 DEF StType
    <3> QED
      BY <1>1, <3>2, <3>3 DEF CloseBlock
  <2> HIDE DEF u
  <2>4. /\ c \in StType /\ c.open = NoBlock /\ c.index = s.index /\ c.closed = s.index + 1
        /\ c.args = s.args /\ c.completed = s.completed /\ c.started = s.started
        /\ c.stopped = s.stopped /\ c.wellFormed = s.wellFormed
    BY <2>1, <2>2 DEF StType
  <2>5. CloseBlock(s, b) = r
    BY <2>3, <2>4
  <2> HIDE DEF c
  <2>6. /\ d \in StType /\ d.open = NoBlock /\ d.index = s.index + 1 /\ d.closed = s.index + 1
        /\ d.args = s.args /\ d.completed = s.completed /\ d.started = s.started
        /\ d.stopped = s.stopped /\ d.wellFormed = s.wellFormed
    BY <2>1, <2>4 DEF StType
  <2> HIDE DEF d
  <2>7. /\ r \in StType /\ r.state = "MessageInProgress"
        /\ r.open = NoBlock /\ r.index = s.index + 1 /\ r.closed = s.index + 1
        /\ r.args = s.args /\ r.completed = s.completed /\ r.started = s.started
        /\ r.stopped = s.stopped /\ r.wellFormed = s.wellFormed
    BY <2>6 DEF StType, States
  <2> HIDE DEF r
  <2> QED
    BY <1>1, <2>5, <2>7 DEF Linked, Blocks
<1>2. CASE s.state # b
  BY <1>2 DEF CloseBlock
<1> QED
  BY <1>1, <1>2

(* What adds arguments to the open call only changes args.                 *)
LEMMA TakeArgsLinked ==
  ASSUME NEW s, Linked(s), s.state = "ToolUse", NEW n \in 0 .. Garbled
  PROVE  TakeArgs(s, n) = [s EXCEPT !.args = n] /\ Linked(TakeArgs(s, n))
  BY DEF Linked, StType, States, Blocks, NoBlock, TakeArgs, BlockDelta, Wrong

LEMMA FinishToolLinked ==
  ASSUME NEW s, Linked(s)
  PROVE  LET t == FinishToolCalls(s)
         IN /\ Linked(t) /\ t.completed = s.completed /\ t.wellFormed = s.wellFormed
            /\ t.state = IF s.state = "ToolUse" THEN "MessageInProgress" ELSE s.state
            /\ t.args = IF s.state = "ToolUse" /\ s.args = ArgPieces - 1
                          THEN ArgPieces ELSE s.args
<1> DEFINE r == [BlockDelta(s) EXCEPT !.args = ArgPieces]
<1>1. CASE s.state = "ToolUse" /\ s.args = ArgPieces - 1
  <2>1. ArgPieces \in 0 .. Garbled
    BY ConverterAssumption DEF Garbled
  <2>2. r = TakeArgs(s, ArgPieces)
    BY DEF TakeArgs
  <2>3. r = [s EXCEPT !.args = ArgPieces] /\ Linked(r)
    BY <1>1, <2>1, <2>2, TakeArgsLinked
  <2>4. FinishToolCalls(s) = CloseBlock(r, "ToolUse")
    BY <1>1 DEF FinishToolCalls
  <2>5. /\ r.state = "ToolUse" /\ r.args = ArgPieces /\ r.completed = s.completed
        /\ r.wellFormed = s.wellFormed
    BY <1>1, <2>3 DEF Linked, StType
  <2> HIDE DEF r
  <2>6. LET t == CloseBlock(r, "ToolUse")
        IN /\ Linked(t) /\ t.args = r.args /\ t.completed = r.completed
           /\ t.wellFormed = r.wellFormed
           /\ t.state = "MessageInProgress"
    BY <2>3, <2>5, CloseLinked DEF Blocks
  <2> QED
    BY <1>1, <2>4, <2>5, <2>6
<1>2. CASE ~(s.state = "ToolUse" /\ s.args = ArgPieces - 1)
  <2>1. FinishToolCalls(s) = CloseBlock(s, "ToolUse")
    BY <1>2 DEF FinishToolCalls
  <2> QED
    BY <1>2, <2>1, CloseLinked DEF Blocks
<1> QED
  BY <1>1, <1>2

(* finish_reasoning, finish_content and finish_tool_calls in a row: no     *)
(* block is open afterwards.                                               *)
LEMMA FinishAllLinked ==
  ASSUME NEW s, Linked(s)
  PROVE  LET t == FinishAll(s)
         IN /\ Linked(t) /\ t.completed = s.completed /\ t.wellFormed = s.wellFormed
            /\ t.state = IF s.state \in Blocks THEN "MessageInProgress" ELSE s.state
            /\ t.args = IF s.state = "ToolUse" /\ s.args = ArgPieces - 1
                          THEN ArgPieces ELSE s.args
<1> DEFINE r == FinishReasoning(s)
           c == FinishContent(r)
<1>1. /\ Linked(r) /\ r.args = s.args /\ r.completed = s.completed
      /\ r.wellFormed = s.wellFormed
      /\ r.state = IF s.state = "Reasoning" THEN "MessageInProgress" ELSE s.state
  BY CloseLinked DEF FinishReasoning, Blocks
<1> HIDE DEF r
<1>2. /\ Linked(c) /\ c.args = r.args /\ c.completed = r.completed
      /\ c.wellFormed = r.wellFormed
      /\ c.state = IF r.state = "Text" THEN "MessageInProgress" ELSE r.state
  BY <1>1, CloseLinked DEF FinishContent, Blocks
<1> HIDE DEF c
<1>3. LET t == FinishToolCalls(c)
      IN /\ Linked(t) /\ t.completed = c.completed /\ t.wellFormed = c.wellFormed
         /\ t.state = IF c.state = "ToolUse" THEN "MessageInProgress" ELSE c.state
         /\ t.args = IF c.state = "ToolUse" /\ c.args = ArgPieces - 1
                       THEN ArgPieces ELSE c.args
  BY <1>2, FinishToolLinked
<1>4. FinishAll(s) = FinishToolCalls(c)
  BY DEF FinishAll, c, r
<1> QED
  BY <1>1, <1>2, <1>3, <1>4 DEF Blocks

(* A tool delta with an id begins a call: in place outside of a block, out *)
(* of place, in the block it finds open, behind another call.              *)
LEMMA BeginLinked ==
  ASSUME NEW s, Linked(s), s.state \in {"MessageInProgress", "ToolUse"}
  PROVE  LET t == BeginTool(s)
         IN /\ Linked(t) /\ t.args = 0 /\ t.completed = s.completed /\ t.state = "ToolUse"
            /\ s.state = "MessageInProgress" => t.wellFormed = s.wellFormed
<1> DEFINE u == BlockStart(s)
           a == [u EXCEPT !.args = 0]
           r == [a EXCEPT !.state = "ToolUse"]
<1>1. s \in StType /\ 0 \in 0 .. Garbled
  BY ConverterAssumption DEF Linked, Garbled
<1>2. /\ u \in StType /\ u.open = s.index /\ u.index = s.index /\ u.closed = s.closed
      /\ u.completed = s.completed /\ u.started = s.started /\ u.stopped = s.stopped
      /\ s.state = "MessageInProgress" => u.wellFormed = s.wellFormed
  <2>1. CASE s.state = "MessageInProgress"
    <3>1. u = [s EXCEPT !.open = s.index]
      BY <2>1 DEF Linked, StType, Blocks, NoBlock, BlockStart
    <3> QED
      BY <1>1, <3>1 DEF StType
  <2>2. CASE s.state = "ToolUse"
    <3> DEFINE o == [s EXCEPT !.open = s.index]
    <3>1. s.open # NoBlock
      BY <1>1, <2>2 DEF Linked, StType, Blocks, NoBlock
    <3>2. u = Wrong(o)
      BY <3>1 DEF BlockStart
    <3>3. /\ o \in StType /\ o.open = s.index /\ o.index = s.index /\ o.closed = s.closed
          /\ o.completed = s.completed /\ o.started = s.started /\ o.stopped = s.stopped
      BY <1>1 DEF StType
    <3> HIDE DEF o
    <3> QED
      BY <2>2, <3>2, <3>3 DEF Wrong, StType
  <2> QED
    BY <2>1, <2>2
<1>3. BeginTool(s) = r
  BY DEF BeginTool
<1> HIDE DEF u
<1>4. /\ a \in StType /\ a.open = s.index /\ a.index = s.index /\ a.closed = s.closed
      /\ a.completed = s.completed /\ a.started = s.started /\ a.args = 0
      /\ a.stopped = s.stopped /\ a.wellFormed = u.wellFormed
  BY <1>1, <1>2 DEF StType
<1> HIDE DEF a
<1>5. /\ r \in StType /\ r.open = s.index /\ r.index = s.index /\ r.closed = s.closed
      /\ r.completed = s.completed /\ r.started = s.started /\ r.args = 0
      /\ r.stopped = s.stopped /\ r.wellFormed = u.wellFormed /\ r.state = "ToolUse"
  BY <1>4 DEF StType, States
<1> HIDE DEF r
<1> QED
  BY <1>2, <1>3, <1>5 DEF Linked, Blocks

(* Whatever a tool delta brings in regular order, the converter holds the  *)
(* arguments upstream has sent by then.                                    *)
LEMMA ToolDeltaLinked ==
  ASSUME NEW s, Linked(s), NEW tc \in ToolDeltas, NEW had \in 0 .. ArgPieces,
         IF tc.id THEN s.state \in {"MessageInProgress", "ToolUse"} /\ had = 0
                  ELSE s.state = "ToolUse" /\ had = s.args,
         tc.args # "literal",
         tc.args = "fragment" => tc.piece = had + 1,
         tc.args = "reformatted" => had \in {0, ArgPieces}
  PROVE  LET t == ProcessToolCallDelta(s, tc)
         IN /\ Linked(t) /\ t.completed = s.completed /\ t.state = "ToolUse"
            /\ (tc.id /\ s.state = "ToolUse") \/ t.wellFormed = s.wellFormed
            /\ t.args = CASE tc.args = "none" -> had
                          [] tc.args \in {"fragment", "literal"} -> tc.piece
                          [] OTHER -> ArgPieces
<1> DEFINE b == IF tc.id THEN BeginTool(s) ELSE s
<1>1. /\ Linked(b) /\ b.args = had /\ b.completed = s.completed /\ b.state = "ToolUse"
      /\ (tc.id /\ s.state = "ToolUse") \/ b.wellFormed = s.wellFormed
  BY BeginLinked
<1>2. ProcessToolCallDelta(s, tc) = AddArgs(b, tc)
  BY <1>1 DEF ProcessToolCallDelta
<1> HIDE DEF b
<1>3. tc.args \in ArgKinds /\ tc.piece \in 1 .. ArgPieces
  BY DEF ToolDeltas, Tool
<1>4. ASSUME NEW n \in 0 .. ArgPieces
      PROVE  LET t == TakeArgs(b, n)
             IN /\ Linked(t) /\ t.completed = s.completed /\ t.state = "ToolUse" /\ t.args = n
                /\ (tc.id /\ s.state = "ToolUse") \/ t.wellFormed = s.wellFormed
  <2>1. n \in 0 .. Garbled
    BY ConverterAssumption DEF Garbled
  <2>2. TakeArgs(b, n) = [b EXCEPT !.args = n] /\ Linked(TakeArgs(b, n))
    BY <1>1, <2>1, TakeArgsLinked
  <2>3. b \in StType
    BY <1>1 DEF Linked
  <2> QED
    BY <1>1, <2>2, <2>3 DEF StType
<1>5. ArgPieces \in 0 .. ArgPieces
  BY ConverterAssumption
<1>6. CASE tc.args = "none"
  BY <1>1, <1>2, <1>6 DEF AddArgs
<1>7. CASE tc.args = "fragment"
  <2>1. AddArgs(b, tc) = TakeArgs(b, tc.piece)
    BY <1>1, <1>7 DEF AddArgs
  <2>2. tc.piece \in 0 .. ArgPieces
    BY <1>3
  <2> QED
    BY <1>2, <1>4, <1>7, <2>1, <2>2
<1>8. CASE tc.args = "whole"
  <2>1. CASE had < ArgPieces
    <3>1. AddArgs(b, tc) = TakeArgs(b, ArgPieces)
      BY <1>1, <1>8, <2>1 DEF AddArgs
    <3> QED
      BY <1>2, <1>4, <1>5, <1>8, <3>1
  <2>2. CASE ~(had < ArgPieces)
    <3>1. AddArgs(b, tc) = b
      BY <1>1, <1>8, <2>2 DEF AddArgs
    <3>2. had = ArgPieces
      BY <2>2, ConverterAssumption
    <3> QED
      BY <1>1, <1>2, <1>8, <3>1, <3>2
  <2> QED
    BY <2>1, <2>2
<1>9. CASE tc.args = "reformatted"
  <2>1. CASE had = 0
    <3>1. AddArgs(b, tc) = TakeArgs(b, ArgPieces)
      BY <1>1, <1>9, <2>1 DEF AddArgs
    <3> QED
      BY <1>2, <1>4, <1>5, <1>9, <3>1
  <2>2. CASE had # 0
    <3>1. AddArgs(b, tc) = b
      BY <1>1, <1>9, <2>2 DEF AddArgs
    <3> QED
      BY <1>1, <1>2, <1>9, <2>2, <3>1
  <2> QED
    BY <2>1, <2>2
<1> QED
  BY <1>3, <1>6, <1>7, <1>8, <1>9 DEF ArgKinds

(* process_completion, of a message that was not finished before.          *)
LEMMA CompletionLinked ==
  ASSUME NEW s, Linked(s), ~s.completed, s.state # "Completed", s.state # "Initial"
  PROVE  LET t == ProcessCompletion(s)
         IN /\ Linked(t) /\ t.completed /\ t.state = "Completed"
            /\ t.wellFormed = s.wellFormed
            /\ t.args = IF s.state = "ToolUse" /\ s.args = ArgPieces - 1
                          THEN ArgPieces ELSE s.args
<1> DEFINE c == [s EXCEPT !.completed = TRUE]
           f == FinishAll(c)
           m == [f EXCEPT !.stopped = TRUE]
           r == [m EXCEPT !.state = "Completed"]
<1>1. s \in StType
  BY DEF Linked
<1>2. /\ c \in StType /\ c.completed
      /\ c.open = s.open /\ c.index = s.index /\ c.closed = s.closed /\ c.state = s.state
      /\ c.args = s.args /\ c.started = s.started /\ c.stopped = s.stopped
      /\ c.wellFormed = s.wellFormed
  BY <1>1 DEF StType
<1>3. ProcessCompletion(s) = [MessageStop(f) EXCEPT !.state = "Completed"]
  BY DEF ProcessCompletion
<1> HIDE DEF c
<1>4. Linked(c)
  BY <1>2 DEF Linked
<1>5. /\ Linked(f) /\ f.completed = c.completed /\ f.wellFormed = c.wellFormed
      /\ f.state = IF c.state \in Blocks THEN "MessageInProgress" ELSE c.state
      /\ f.args = IF c.state = "ToolUse" /\ c.args = ArgPieces - 1
                    THEN ArgPieces ELSE c.args
  BY <1>4, FinishAllLinked
<1> HIDE DEF f
<1>6. s.state \in States
  BY <1>1 DEF StType
<1>7. f.state = "MessageInProgress" /\ f \in StType
  BY <1>2, <1>5, <1>6 DEF States, Blocks, Linked
<1>8. f.started /\ ~f.stopped /\ f.open = NoBlock
  BY <1>5, <1>7 DEF Linked, Blocks
<1>9. MessageStop(f) = m
  BY <1>8 DEF MessageStop
<1>10. /\ m \in StType /\ m.stopped
       /\ m.open = f.open /\ m.index = f.index /\ m.closed = f.closed
       /\ m.args = f.args /\ m.started = f.started /\ m.completed = f.completed
       /\ m.wellFormed = f.wellFormed
  BY <1>7 DEF StType
<1>11. ProcessCompletion(s) = r
  BY <1>3, <1>9
<1> HIDE DEF m
<1>12. /\ r \in StType /\ r.stopped /\ r.state = "Completed"
       /\ r.open = f.open /\ r.index = f.index /\ r.closed = f.closed
       /\ r.args = f.args /\ r.started = f.started /\ r.completed = f.completed
       /\ r.wellFormed = f.wellFormed
  BY <1>10 DEF StType, States
<1> HIDE DEF r
<1> QED
  BY <1>2, <1>5, <1>7, <1>8, <1>11, <1>12 DEF Linked, Blocks

-----------------------------------------------------------------------------
(* Types, whatever upstream does.                                          *)

LEMMA ClientTyped ==
  ASSUME NEW s \in StType
  PROVE  /\ MessageStart(s) \in StType /\ BlockStart(s) \in StType
         /\ BlockDelta(s) \in StType /\ BlockStop(s) \in StType
         /\ MessageStop(s) \in StType
<1>1. ASSUME NEW t \in StType PROVE Wrong(t) \in StType
  BY DEF Wrong, StType
<1>2. MessageStart(s) \in StType /\ MessageStop(s) \in StType /\ BlockDelta(s) \in StType
  <2>1. [s EXCEPT !.started = TRUE] \in StType /\ [s EXCEPT !.stopped = TRUE] \in StType
    BY DEF StType
  <2> QED
    BY <1>1, <2>1 DEF MessageStart, MessageStop, BlockDelta
<1>3. BlockStart(s) \in StType
  <2>1. [s EXCEPT !.open = s.index] \in StType
    BY DEF StType
  <2> QED
    BY <1>1, <2>1 DEF BlockStart
<1>4. BlockStop(s) \in StType
  <2> DEFINE u == [s EXCEPT !.open = NoBlock]
             c == [u EXCEPT !.closed = s.closed + 1]
  <2>1. u \in StType /\ s.closed + 1 \in Nat
    BY DEF StType, NoBlock
  <2>2. BlockStop(s) \in {c, Wrong(s)}
    BY DEF BlockStop
  <2> HIDE DEF u
  <2>3. c \in StType
    BY <2>1 DEF StType
  <2> QED
    BY <1>1, <2>2, <2>3
<1> QED
  BY <1>2, <1>3, <1>4

LEMMA CloseTyped ==
  ASSUME NEW s \in StType, NEW b
  PROVE  CloseBlock(s, b) \in StType
<1> DEFINE u == BlockStop(s)
           c == [u EXCEPT !.index = u.index + 1]
           d == [c EXCEPT !.state = "MessageInProgress"]
<1>1. u \in StType
  BY ClientTyped
<1>2. CloseBlock(s, b) \in {s, d}
  BY DEF CloseBlock
<1> HIDE DEF u
<1>3. c \in StType
  BY <1>1 DEF StType
<1> HIDE DEF c
<1>4. d \in StType
  BY <1>3 DEF StType, States
<1> QED
  BY <1>2, <1>4

LEMMA FinishTyped ==
  ASSUME NEW s \in StType
  PROVE  FinishReasoning(s) \in StType /\ FinishContent(s) \in StType /\ FinishAll(s) \in StType
<1>1. ASSUME NEW t \in StType PROVE FinishToolCalls(t) \in StType
  <2>1. BlockDelta(t) \in StType
    BY ClientTyped
  <2>2. [BlockDelta(t) EXCEPT !.args = ArgPieces] \in StType
    BY <2>1, ConverterAssumption DEF StType, Garbled
  <2> QED
    BY <2>2, CloseTyped DEF FinishToolCalls
<1>2. FinishReasoning(s) \in StType /\ FinishContent(s) \in StType
  BY CloseTyped DEF FinishReasoning, FinishContent
<1>3. FinishContent(FinishReasoning(s)) \in StType
  BY <1>2, CloseTyped DEF FinishContent
<1> QED
  BY <1>1, <1>2, <1>3 DEF FinishAll

LEMMA StreamTyped ==
  ASSUME NEW s \in StType, NEW b \in States
  PROVE  StreamBlock(s, b) \in StType
<1>1. BlockStart(s) \in StType
  BY ClientTyped
<1>2. [BlockStart(s) EXCEPT !.state = b] \in StType
  BY <1>1 DEF StType
<1> QED
  BY <1>2, ClientTyped DEF StreamBlock

LEMMA ToolDeltaTyped ==
  ASSUME NEW s \in StType, NEW tc \in ToolDeltas
  PROVE  ProcessToolCallDelta(s, tc) \in StType
<1> DEFINE b == IF tc.id THEN BeginTool(s) ELSE s
           u == BlockStart(s)
<1>1. u \in StType
  BY ClientTyped
<1>2. b \in StType
  <2> DEFINE a == [u EXCEPT !.args = 0]
             d == [a EXCEPT !.state = "ToolUse"]
  <2>1. b \in {s, d}
    BY DEF BeginTool
  <2> HIDE DEF u
  <2>2. a \in StType
    BY <1>1, ConverterAssumption DEF StType, Garbled
  <2> HIDE DEF a
  <2>3. d \in StType
    BY <2>2 DEF StType, States
  <2> QED
    BY <2>1, <2>3
<1> HIDE DEF b
<1>3. ASSUME NEW n \in 0 .. Garbled PROVE TakeArgs(b, n) \in StType
  <2>1. BlockDelta(b) \in StType
    BY <1>2, ClientTyped
  <2> QED
    BY <2>1 DEF TakeArgs, StType
<1>4. /\ tc.args \in ArgKinds /\ tc.piece \in 0 .. Garbled
      /\ ArgPieces \in 0 .. Garbled /\ Garbled \in 0 .. Garbled
  BY ConverterAssumption DEF ToolDeltas, Tool, Garbled
<1>5. AddArgs(b, tc) \in StType
  BY <1>2, <1>3, <1>4 DEF AddArgs, ArgKinds
<1> QED
  BY <1>2, <1>5 DEF ProcessToolCallDelta, b

LEMMA CompletionTyped ==
  ASSUME NEW s \in StType
  PROVE  ProcessCompletion(s) \in StType
<1> DEFINE c == [s EXCEPT !.completed = TRUE]
<1>1. c \in StType
  BY DEF StType
<1>2. MessageStop(FinishAll(c)) \in StType
  BY <1>1, FinishTyped, ClientTyped
<1> HIDE DEF c
<1>3. [MessageStop(FinishAll(c)) EXCEPT !.state = "Completed"] \in StType
  BY <1>2 DEF StType, States
<1> QED
  BY <1>3 DEF ProcessCompletion, c

UpType == [rank : 0 .. 3, args : 0 .. ArgPieces, parallel : BOOLEAN]

(* Every action changes st by a method of the converter, and upstream's    *)
(* place by Upstream.                                                      *)
LEMMA NextTyped ==
  st \in StType /\ up \in UpType /\ [MessagesNext]_messagesVars => (st \in StType /\ up \in UpType)'
<1> SUFFICES ASSUME st \in StType, up \in UpType, [MessagesNext]_messagesVars
             PROVE  st' \in StType /\ up' \in UpType
  OBVIOUS
<1>1. ASSUME NEW kind \in DOMAIN Ranks, NEW args \in 0 .. ArgPieces,
             NEW parallel \in BOOLEAN, Upstream(kind, args, parallel)
      PROVE  up' \in UpType
  BY <1>1 DEF Upstream, Ranks, UpType
<1>2. /\ DOMAIN Ranks = {"reasoning", "content", "tool", "finish"}
      /\ up.args \in 0 .. ArgPieces /\ up.parallel \in BOOLEAN
  BY DEF Ranks, UpType
<1>3. CreateMessageStart(st) \in StType
  <2>1. MessageStart(st) \in StType
    BY ClientTyped
  <2> QED
    BY <2>1 DEF CreateMessageStart, StType, States
<1>4. CASE ReasoningDelta
  BY <1>1, <1>2, <1>4, StreamTyped DEF ReasoningDelta, ProcessReasoningDelta, States
<1>5. CASE ContentDelta
  <2>1. FinishReasoning(st) \in StType
    BY FinishTyped
  <2> QED
    BY <1>1, <1>2, <1>5, <2>1, StreamTyped DEF ContentDelta, ProcessContentDelta, States
<1>6. ASSUME NEW tc \in ToolDeltas, ToolCallDelta(tc) PROVE st' \in StType /\ up' \in UpType
  <2>1. FinishContent(FinishReasoning(st)) \in StType
    BY FinishTyped
  <2>2. st' \in StType
    BY <1>6, <2>1, ToolDeltaTyped DEF ToolCallDelta
  <2>3. tc.piece \in 0 .. ArgPieces
    BY ConverterAssumption DEF ToolDeltas, Tool
  <2>4. up.parallel \/ (tc.id /\ up.rank = 2) \in BOOLEAN
    BY DEF ToolDeltas, Tool
  <2> DEFINE had == IF tc.id THEN 0 ELSE up.args
             sum == CASE tc.args = "none" -> had
                      [] tc.args \in {"fragment", "literal"} -> tc.piece
                      [] OTHER -> ArgPieces
             more == up.parallel \/ (tc.id /\ up.rank = 2)
  <2>5. Upstream("tool", sum, more)
    BY <1>6 DEF ToolCallDelta, ToolInOrder
  <2>6. sum \in 0 .. ArgPieces /\ more \in BOOLEAN
    BY <1>2, <2>3, <2>4, ConverterAssumption
  <2> HIDE DEF sum, more
  <2>7. up' \in UpType
    BY <1>1, <1>2, <2>5, <2>6
  <2> QED
    BY <2>2, <2>7
<1>7. CASE Completion
  BY <1>1, <1>2, <1>7, CompletionTyped DEF Completion
<1>8. CASE FinalizeStream
  BY <1>8, FinishTyped DEF FinalizeStream
<1>9. CASE ProcessChunk \/ ProcessRest
  BY <1>3, <1>9 DEF ProcessChunk, ProcessRest
<1>10. CASE Framing \/ ProcessReturns \/ UNCHANGED messagesVars
  BY <1>10 DEF Framing, ProcessReturns, messagesVars
<1> QED
  BY <1>4, <1>5, <1>6, <1>7, <1>8, <1>9, <1>10 DEF MessagesNext

LEMMA TailOneMore ==
  ASSUME NEW a \in Seq(Kinds), NEW b \in Seq(Kinds)
  PROVE  a \o b \in Seq(Kinds)
  OBVIOUS

LEMMA NextFramed == FramingTypeOK /\ [MessagesNext]_messagesVars => FramingTypeOK'
<1> SUFFICES ASSUME FramingTypeOK, [MessagesNext]_messagesVars PROVE FramingTypeOK'
  OBVIOUS
<1>1. NoTail \in Tails
  BY DEF Tails
<1>2. CASE NetworkChunk
  <2>1. EndOfTail \in Seq(Kinds)
    BY DEF EndOfTail, FramingTypeOK, Tails, NoTail
  <2>n. PICK n \in 0 .. MaxBatch : \E batch \in [1 .. n -> Kinds], t \in Tails :
          /\ sent' = sent + n + (IF t = NoTail THEN 0 ELSE 1)
          /\ buffer' = buffer \o EndOfTail \o batch
          /\ tail' = t
    BY <1>2 DEF NetworkChunk
  <2>2. PICK batch \in [1 .. n -> Kinds], t \in Tails :
          /\ sent' = sent + n + (IF t = NoTail THEN 0 ELSE 1)
          /\ buffer' = buffer \o EndOfTail \o batch
          /\ tail' = t
    BY <2>n
  <2>3. batch \in Seq(Kinds)
    BY FramingAssumption
  <2>4. buffer' \in Seq(Kinds)
    <3>1. buffer \o EndOfTail \in Seq(Kinds)
      BY <2>1, TailOneMore DEF FramingTypeOK
    <3> QED
      BY <2>2, <2>3, <3>1, TailOneMore
  <2>5. sent' \in 0 .. MaxFrames
    BY <1>2, <2>2, FramingAssumption DEF NetworkChunk, FramingTypeOK
  <2> QED
    BY <1>2, <2>2, <2>4, <2>5 DEF NetworkChunk, FramingTypeOK
<1>3. CASE NetworkTail
  BY <1>3 DEF NetworkTail, FramingTypeOK, Tails, NoTail
<1>4. CASE NetworkEnds(st.completed)
  BY <1>4 DEF NetworkEnds, FramingTypeOK
<1>5. CASE ExtractNothing \/ ExtractSkip \/ ExtractForward \/ ExtractChunk
  <2>1. buffer # << >> => Tail(buffer) \in Seq(Kinds)
    BY DEF FramingTypeOK
  <2>2. ASSUME NEW kind \in {"done", "error"} PROVE Append(forwarded, kind) \in Seq({"done", "error"})
    BY DEF FramingTypeOK
  <2>3. buffer' \in Seq(Kinds) /\ forwarded' \in Seq({"done", "error"})
    BY <1>5, <2>1, <2>2
       DEF ExtractNothing, ExtractSkip, ExtractForward, ExtractChunk, FramingTypeOK
  <2>4. phase' \in {"read", "loop"} /\ inChunk' \in BOOLEAN /\ skipped' \in BOOLEAN
    BY <1>5 DEF ExtractNothing, ExtractSkip, ExtractForward, ExtractChunk, InLoop, FramingTypeOK
  <2>5. UNCHANGED <<tail, net, sent>>
    BY <1>5 DEF ExtractNothing, ExtractSkip, ExtractForward, ExtractChunk
  <2> QED
    BY <2>3, <2>4, <2>5 DEF FramingTypeOK
<1>6. CASE ParsePartial
  <2>1. /\ phase' = "finalize" /\ inChunk' \in BOOLEAN
        /\ forwarded' \in Seq({"done", "error"})
        /\ UNCHANGED <<net, sent, skipped>>
    BY <1>6 DEF ParsePartial, FramingTypeOK
  <2>2. UNCHANGED <<buffer, tail>> \/ (buffer' = << >> /\ tail' = NoTail)
    BY <1>6 DEF ParsePartial
  <2>3. buffer' \in Seq(Kinds) /\ tail' \in Tails
    <3>1. CASE UNCHANGED <<buffer, tail>>
      BY <3>1 DEF FramingTypeOK
    <3>2. CASE buffer' = << >> /\ tail' = NoTail
      BY <1>1, <3>2
    <3> QED
      BY <2>2, <3>1, <3>2
  <2> QED
    BY <2>1, <2>3 DEF FramingTypeOK
<1>7. CASE ChunkEnds \/ Finalize
  BY <1>7 DEF ChunkEnds, Finalize, FramingTypeOK
<1>8. CASE UNCHANGED framing
  BY <1>8 DEF framing, FramingTypeOK
<1> QED
  BY <1>2, <1>3, <1>4, <1>5, <1>6, <1>7, <1>8
     DEF MessagesNext, Framing, ProcessChunk, ProcessRest, ReasoningDelta, ContentDelta,
         ToolCallDelta, Completion, ProcessReturns, FinalizeStream, messagesVars

LEMMA InitTyped == MessagesInit => st \in StType /\ up \in UpType /\ FramingTypeOK
<1> SUFFICES ASSUME MessagesInit PROVE st \in StType /\ up \in UpType /\ FramingTypeOK
  OBVIOUS
<1>1. st \in StType /\ up \in UpType
  BY ConverterAssumption DEF MessagesInit, StInit, StType, States, NoBlock, Garbled, UpType
<1>2. buffer \in Seq(Kinds) /\ forwarded \in Seq({"done", "error"})
  BY DEF MessagesInit, FramingInit
<1>3. tail \in Tails /\ sent \in 0 .. MaxFrames
  BY FramingAssumption DEF MessagesInit, FramingInit, Tails
<1>4. FramingTypeOK
  BY <1>2, <1>3 DEF MessagesInit, FramingInit, FramingTypeOK
<1> QED
  BY <1>1, <1>4

LEMMA TypedAlways == MessagesSpec => [](st \in StType /\ up \in UpType /\ FramingTypeOK)
  BY InitTyped, NextTyped, NextFramed, PTL DEF MessagesSpec

(* The converter, the client and the framing keep their types, whatever    *)
(* upstream sends.                                                         *)
THEOREM TypeCorrect == MessagesSpec => []MessagesTypeOK
<1>1. st \in StType /\ up \in UpType /\ FramingTypeOK => MessagesTypeOK
  BY DEF StType, UpType, MessagesTypeOK
<1> QED
  BY <1>1, TypedAlways, PTL

-----------------------------------------------------------------------------
(* Whenever convert() waits for the network or has left its loop, it has   *)
(* used all complete events, unless one without a chat chunk stopped the   *)
(* extraction; and past parse_partial no whole event is left in the tail.  *)

Spent == tail = NoTail \/ ~tail.whole \/ tail.kind \in {"comment", "bad"}

Drained ==
  /\ inChunk => phase \in {"loop", "finalize"}
  /\ phase \in {"read", "partial"} => buffer = << >> \/ skipped
  /\ phase = "finalize" => skipped \/ (buffer = << >> /\ Spent)
  /\ phase = "done" => skipped \/ (buffer = << >> /\ (Spent \/ st.completed))

LEMMA PartialSpends ==
  ASSUME FramingTypeOK, buffer = << >>, ParsePartial
  PROVE  buffer' = << >> /\ Spent'
<1>1. tail.kind \in {"none", "comment"} => tail = NoTail \/ tail.kind = "comment"
  BY DEF FramingTypeOK, Tails, Kinds
<1>2. {<<i, buffer[i]>> : i \in {j \in DOMAIN buffer : buffer[j] # "comment"}} = {}
  OBVIOUS
<1>3. DataEvents = IF tail.kind \in {"none", "comment"} THEN {}
                   ELSE {<<0, IF tail.whole THEN tail.kind ELSE "bad">>}
  BY <1>2 DEF DataEvents
<1>4. CASE tail.kind \in {"none", "comment"}
  <2>1. Remainder = "bad"
    BY <1>3, <1>4 DEF Remainder
  <2> QED
    BY <1>1, <1>4, <2>1 DEF ParsePartial, Spent
<1>5. CASE tail.kind \notin {"none", "comment"}
  <2> DEFINE left == IF tail.whole THEN tail.kind ELSE "bad"
  <2>1. DataEvents = {<<0, left>>}
    BY <1>3, <1>5
  <2> HIDE DEF left
  <2>2. (CHOOSE e \in DataEvents : TRUE) = <<0, left>>
    BY <2>1
  <2>3. \E e \in DataEvents : DataEvents = {e}
    BY <2>1
  <2>4. Remainder = <<0, left>>[2]
    BY <2>2, <2>3 DEF Remainder
  <2>5. Remainder = left
    BY <2>4
  <2>6. CASE Remainder = "bad"
    <3>1. UNCHANGED <<buffer, tail>>
      BY <2>6 DEF ParsePartial
    <3>2. tail.kind = "bad" \/ ~tail.whole
      BY <2>5, <2>6 DEF left
    <3> QED
      BY <3>1, <3>2 DEF Spent
  <2>7. CASE Remainder # "bad"
    BY <2>7 DEF ParsePartial, Spent
  <2> QED
    BY <2>6, <2>7
<1> QED
  BY <1>4, <1>5

LEMMA InitDrained == MessagesInit => Drained
  BY DEF MessagesInit, FramingInit, Drained

LEMMA NextDrained == FramingTypeOK /\ Drained /\ [MessagesNext]_messagesVars => Drained'
<1> SUFFICES ASSUME FramingTypeOK, Drained, [MessagesNext]_messagesVars PROVE Drained'
  OBVIOUS
<1>1. CASE Framing
  <2>1. st' = st
    BY <1>1 DEF Framing
  <2>2. CASE NetworkChunk \/ NetworkTail
    BY <2>2 DEF NetworkChunk, NetworkTail, Drained
  <2>3. CASE NetworkEnds(st.completed)
    BY <2>1, <2>3 DEF NetworkEnds, Drained, Spent
  <2>4. CASE ExtractNothing \/ ExtractSkip \/ ExtractForward
    BY <2>4 DEF ExtractNothing, ExtractSkip, ExtractForward, InLoop, Drained
  <2> QED
    BY <1>1, <2>2, <2>3, <2>4 DEF Framing
<1>2. CASE ProcessChunk
  BY <1>2 DEF ProcessChunk, ExtractChunk, InLoop, Drained
<1>3. CASE ProcessRest
  <2>1. ParsePartial /\ phase = "partial" /\ phase' = "finalize" /\ skipped' = skipped
    BY <1>3 DEF ProcessRest, ParsePartial
  <2>2. skipped \/ (buffer' = << >> /\ Spent')
    BY <2>1, PartialSpends DEF Drained
  <2> QED
    BY <2>1, <2>2 DEF Drained
<1>4. CASE ReasoningDelta \/ ContentDelta \/ (\E tc \in ToolDeltas : ToolCallDelta(tc))
  <2>1. inChunk /\ UNCHANGED framing
    BY <1>4 DEF ReasoningDelta, ContentDelta, ToolCallDelta
  <2> QED
    BY <2>1 DEF framing, Drained, Spent
<1>5. CASE Completion \/ ProcessReturns
  <2>1. inChunk /\ ~inChunk' /\ UNCHANGED <<buffer, tail, phase, skipped>>
    BY <1>5 DEF Completion, ProcessReturns, ChunkEnds
  <2> QED
    BY <2>1 DEF Drained, Spent
<1>6. CASE FinalizeStream
  BY <1>6 DEF FinalizeStream, Finalize, Drained, Spent
<1>7. CASE UNCHANGED messagesVars
  BY <1>7 DEF messagesVars, framing, Drained, Spent
<1> QED
  BY <1>1, <1>2, <1>3, <1>4, <1>5, <1>6, <1>7 DEF MessagesNext

(* A stream that upstream ends in the ordinary way, with a chat chunk, an  *)
(* error or [DONE] in every event, is used to its last event.              *)
THEOREM NoEventIsLost == MessagesSpec => []NothingLost
<1>1. FramingTypeOK /\ Drained => NothingLost
  BY DEF Drained, Spent, NothingLost
<1> QED
  BY <1>1, TypedAlways, InitDrained, NextDrained, PTL DEF MessagesSpec

-----------------------------------------------------------------------------
(* The inductive invariant.  Position: where convert() is.  Follows: how   *)
(* far the converter is tells how far upstream is.                         *)
Position ==
  /\ phase \in {"read", "loop", "partial", "finalize", "done"}
  /\ inChunk \in BOOLEAN
  /\ inChunk => st.state # "Initial" /\ phase \in {"loop", "finalize"}
  /\ phase = "done" => st.state \notin Blocks

Follows ==
  /\ up \in [rank : 0 .. 3, args : 0 .. ArgPieces, parallel : BOOLEAN]
  /\ up.parallel \/ st.wellFormed
  /\ st.completed <=> st.state = "Completed"
  /\ st.state = "Completed" <=> up.rank = 3
  /\ st.state = "Initial" => up.rank = 0
  /\ st.state = "Reasoning" => up.rank = 0
  /\ st.state = "Text" => up.rank = 1
  /\ st.state = "ToolUse" => up.rank = 2
  /\ up.rank = 2 /\ phase # "done" => st.state = "ToolUse"
  /\ up.rank < 2 => up.args = 0

IInv == Linked(st) /\ Position /\ Follows /\ ToolArgsIntact

LEMMA InitIInv == MessagesInit => IInv
<1> SUFFICES ASSUME MessagesInit PROVE IInv
  OBVIOUS
<1>1. st \in StType
  BY ConverterAssumption DEF MessagesInit, StInit, StType, States, NoBlock, Garbled
<1>2. Linked(st)
  BY <1>1 DEF MessagesInit, StInit, Linked, Blocks
<1>3. Position
  BY DEF MessagesInit, StInit, FramingInit, Position, Blocks
<1>4. Follows /\ ToolArgsIntact
  BY ConverterAssumption DEF MessagesInit, StInit, Follows, ToolArgsIntact
<1> QED
  BY <1>2, <1>3, <1>4 DEF IInv

LEMMA NextIInv == ASSUME Quirks = {} PROVE IInv /\ [MessagesNext]_messagesVars => IInv'
<1> SUFFICES ASSUME IInv, [MessagesNext]_messagesVars PROVE IInv'
  OBVIOUS
<1> USE DEF IInv
<1>1. CASE Framing
  <2>1. UNCHANGED <<st, up>>
    BY <1>1 DEF Framing
  <2>2. inChunk' = inChunk /\ (inChunk => phase' = phase)
    BY <1>1 DEF Framing, NetworkChunk, NetworkTail, NetworkEnds, ExtractNothing,
                ExtractSkip, ExtractForward, InLoop, Position
  <2>3. /\ phase' \in {"read", "loop", "partial", "done"}
        /\ phase # "done"
        /\ phase' = "done" => st.completed
    BY <1>1 DEF Framing, NetworkChunk, NetworkTail, NetworkEnds, ExtractNothing,
                ExtractSkip, ExtractForward, InLoop
  <2>4. Position'
    BY <2>1, <2>2, <2>3 DEF Position, Follows, Blocks
  <2>5. Linked(st)' /\ ToolArgsIntact'
    BY <2>1 DEF Linked, ToolArgsIntact, StType
  <2>6. Follows'
    BY <2>1, <2>3 DEF Follows
  <2> QED
    BY <2>4, <2>5, <2>6
<1>2. CASE ProcessChunk \/ ProcessRest
  <2>1. up' = up /\ phase # "done" /\ phase' \in {"loop", "finalize"} /\ inChunk' \in BOOLEAN
    BY <1>2 DEF ProcessChunk, ProcessRest, ExtractChunk, ParsePartial, InLoop
  <2>2. st' = CreateMessageStart(st) \/ (st' = st /\ ~inChunk')
    BY <1>2, <2>1 DEF ProcessChunk, ProcessRest
  <2>3. /\ Linked(st') /\ st'.args = st.args /\ st'.completed = st.completed
        /\ st'.wellFormed = st.wellFormed
        /\ \/ st'.state = IF st.state = "Initial" THEN "MessageInProgress" ELSE st.state
           \/ st'.state = st.state /\ ~inChunk'
    BY <2>2, MessageStartLinked
  <2>4. Position'
    BY <2>1, <2>3 DEF Position
  <2>5. Follows'
    BY <2>1, <2>3 DEF Follows
  <2>6. ToolArgsIntact'
    BY <2>1, <2>3 DEF ToolArgsIntact
  <2> QED
    BY <2>3, <2>4, <2>5, <2>6
<1>3. CASE ReasoningDelta
  <2>1. inChunk /\ up.rank = 0 /\ up' = [rank |-> 0, args |-> up.args, parallel |-> up.parallel]
    BY <1>3 DEF ReasoningDelta, Upstream, InOrder, Ranks, Follows
  <2>2. UNCHANGED <<phase, inChunk>>
    BY <1>3 DEF ReasoningDelta, framing
  <2>3. st.state \in {"MessageInProgress", "Reasoning"}
    BY <2>1 DEF Follows, Position, Linked, StType, States
  <2>4. /\ Linked(st') /\ st'.args = st.args /\ st'.completed = st.completed
        /\ st'.state = "Reasoning" /\ st'.wellFormed = st.wellFormed
    BY <1>3, <2>3, StreamLinked DEF ReasoningDelta, ProcessReasoningDelta
  <2> QED
    BY <2>1, <2>2, <2>3, <2>4 DEF Position, Follows, ToolArgsIntact, Blocks
<1>4. CASE ContentDelta
  <2> DEFINE r == FinishReasoning(st)
  <2>1. inChunk /\ up.rank \in {0, 1} /\ up' = [rank |-> 1, args |-> up.args, parallel |-> up.parallel]
    BY <1>4 DEF ContentDelta, Upstream, InOrder, Ranks, Follows
  <2>2. UNCHANGED <<phase, inChunk>>
    BY <1>4 DEF ContentDelta, framing
  <2>3. st.state \in {"MessageInProgress", "Reasoning", "Text"}
    BY <2>1 DEF Follows, Position, Linked, StType, States
  <2>4. /\ Linked(r) /\ r.args = st.args /\ r.completed = st.completed
        /\ r.wellFormed = st.wellFormed
        /\ r.state = IF st.state = "Reasoning" THEN "MessageInProgress" ELSE st.state
    BY CloseLinked DEF FinishReasoning, Blocks
  <2> HIDE DEF r
  <2>5. r.state \in {"MessageInProgress", "Text"}
    BY <2>3, <2>4
  <2>6. st' = StreamBlock(r, "Text")
    BY <1>4 DEF ContentDelta, ProcessContentDelta, r
  <2>7. /\ Linked(st') /\ st'.args = r.args /\ st'.completed = r.completed
        /\ st'.state = "Text" /\ st'.wellFormed = r.wellFormed
    BY <2>4, <2>5, <2>6, StreamLinked
  <2> QED
    BY <2>1, <2>2, <2>3, <2>4, <2>7 DEF Position, Follows, ToolArgsIntact, Blocks
<1>5. ASSUME NEW tc \in ToolDeltas, ToolCallDelta(tc) PROVE IInv'
  <2> DEFINE r == FinishReasoning(st)
             c == FinishContent(r)
             had == IF tc.id THEN 0 ELSE up.args
             sum == CASE tc.args = "none" -> had
                      [] tc.args \in {"fragment", "literal"} -> tc.piece
                      [] OTHER -> ArgPieces
  <2>1. /\ inChunk /\ up.rank \in {0, 1, 2}
        /\ up.rank < 2 => tc.id
        /\ tc.args # "literal"
        /\ tc.args = "fragment" => tc.piece = had + 1
        /\ tc.args = "reformatted" => had \in {0, ArgPieces}
        /\ up' = [rank |-> 2, args |-> sum, parallel |-> up.parallel \/ (tc.id /\ up.rank = 2)]
    BY <1>5 DEF ToolCallDelta, ToolInOrder, Upstream, InOrder, Ranks, Follows
  <2>2. UNCHANGED <<phase, inChunk>>
    BY <1>5 DEF ToolCallDelta, framing
  <2>3. /\ st.state \in {"MessageInProgress", "Reasoning", "Text", "ToolUse"}
        /\ st.state = "ToolUse" <=> up.rank = 2
    BY <2>1 DEF Follows, Position, Linked, StType, States
  <2>4. /\ Linked(r) /\ r.args = st.args /\ r.completed = st.completed
        /\ r.wellFormed = st.wellFormed
        /\ r.state = IF st.state = "Reasoning" THEN "MessageInProgress" ELSE st.state
    BY CloseLinked DEF FinishReasoning, Blocks
  <2> HIDE DEF r
  <2>5. /\ Linked(c) /\ c.args = r.args /\ c.completed = r.completed
        /\ c.wellFormed = r.wellFormed
        /\ c.state = IF r.state = "Text" THEN "MessageInProgress" ELSE r.state
    BY <2>4, CloseLinked DEF FinishContent, Blocks
  <2> HIDE DEF c
  <2>6. c.state = IF up.rank < 2 THEN "MessageInProgress" ELSE "ToolUse"
    BY <2>1, <2>3, <2>4, <2>5
  <2>7. ~tc.id => had = c.args
    BY <2>1, <2>3, <2>4, <2>5 DEF ToolArgsIntact
  <2>8. had \in 0 .. ArgPieces
    BY ConverterAssumption DEF Follows
  <2>9. st' = ProcessToolCallDelta(c, tc)
    BY <1>5 DEF ToolCallDelta, c, r
  <2> HIDE DEF had
  <2>10. /\ Linked(st') /\ st'.completed = c.completed /\ st'.state = "ToolUse" /\ st'.args = sum
         /\ (tc.id /\ c.state = "ToolUse") \/ st'.wellFormed = c.wellFormed
    <3>1. IF tc.id THEN c.state \in {"MessageInProgress", "ToolUse"} /\ had = 0
                   ELSE c.state = "ToolUse" /\ had = c.args
      BY <2>1, <2>6, <2>7 DEF had
    <3> QED
      BY <2>1, <2>5, <2>8, <2>9, <3>1, ToolDeltaLinked
  <2>11. sum \in 0 .. ArgPieces
    BY <2>8, ConverterAssumption DEF ToolDeltas, Tool
  <2> HIDE DEF sum
  <2>12. Position' /\ ToolArgsIntact'
    BY <2>1, <2>2, <2>10 DEF Position, ToolArgsIntact, Blocks
  <2>13. up'.parallel \/ st'.wellFormed
    BY <2>1, <2>4, <2>5, <2>6, <2>10 DEF Follows
  <2>14. Follows'
    BY <2>1, <2>2, <2>3, <2>4, <2>5, <2>10, <2>11, <2>13 DEF Follows
  <2> QED
    BY <2>10, <2>12, <2>14
<1>6. CASE Completion
  <2>1. /\ inChunk /\ inChunk' = FALSE /\ phase' = phase
        /\ up' = [rank |-> 3, args |-> up.args, parallel |-> up.parallel]
    BY <1>6 DEF Completion, ChunkEnds, Upstream, InOrder, Ranks, Follows
  <2>2. CASE st.completed
    <3>1. st' = st
      BY <1>6, <2>2 DEF Completion, ProcessCompletion
    <3>2. Linked(st)' /\ ToolArgsIntact'
      BY <2>1, <3>1 DEF Linked, ToolArgsIntact, StType
    <3>3. Position'
      BY <2>1, <3>1 DEF Position
    <3>4. Follows'
      BY <2>1, <2>2, <3>1 DEF Follows
    <3> QED
      BY <3>2, <3>3, <3>4
  <2>3. CASE ~st.completed
    <3>1. st.state # "Completed" /\ st.state # "Initial"
      BY <2>1, <2>3 DEF Follows, Position
    <3>2. /\ Linked(st') /\ st'.completed /\ st'.state = "Completed"
          /\ st'.wellFormed = st.wellFormed
          /\ st'.args = IF st.state = "ToolUse" /\ st.args = ArgPieces - 1
                          THEN ArgPieces ELSE st.args
      BY <1>6, <2>3, <3>1, CompletionLinked DEF Completion
    <3>3. ToolArgsIntact'
      BY <2>1, <3>2 DEF ToolArgsIntact
    <3>4. Position'
      BY <2>1, <3>2 DEF Position, Blocks
    <3>5. Follows'
      BY <2>1, <3>2 DEF Follows
    <3> QED
      BY <3>2, <3>3, <3>4, <3>5
  <2> QED
    BY <2>2, <2>3
<1>7. CASE ProcessReturns
  <2>1. inChunk' = FALSE /\ UNCHANGED <<phase, st, up>>
    BY <1>7 DEF ProcessReturns, ChunkEnds
  <2>2. Linked(st)' /\ ToolArgsIntact'
    BY <2>1 DEF Linked, ToolArgsIntact, StType
  <2>3. Position'
    BY <2>1 DEF Position
  <2>4. Follows'
    BY <2>1 DEF Follows
  <2> QED
    BY <2>2, <2>3, <2>4
<1>8. CASE FinalizeStream
  <2>1. phase = "finalize" /\ ~inChunk /\ inChunk' = FALSE /\ phase' = "done" /\ up' = up
    BY <1>8 DEF FinalizeStream, Finalize, Position
  <2>2. /\ Linked(st') /\ st'.completed = st.completed /\ st'.wellFormed = st.wellFormed
        /\ st'.state = IF st.state \in Blocks THEN "MessageInProgress" ELSE st.state
        /\ st'.args = IF st.state = "ToolUse" /\ st.args = ArgPieces - 1
                        THEN ArgPieces ELSE st.args
    BY <1>8, FinishAllLinked DEF FinalizeStream
  <2>3. Position'
    BY <2>1, <2>2 DEF Position, Blocks
  <2>4. Follows'
    BY <2>1, <2>2 DEF Follows, Blocks
  <2>5. ToolArgsIntact'
    BY <2>1, <2>2 DEF ToolArgsIntact, Blocks
  <2> QED
    BY <2>2, <2>3, <2>4, <2>5
<1>9. CASE UNCHANGED messagesVars
  <2>1. UNCHANGED <<phase, inChunk, st, up>>
    BY <1>9 DEF messagesVars, framing
  <2> QED
    BY <2>1 DEF Linked, Position, Follows, ToolArgsIntact, StType
<1> QED
  BY <1>1, <1>2, <1>3, <1>4, <1>5, <1>6, <1>7, <1>8, <1>9 DEF MessagesNext

LEMMA IInvAlways == ASSUME Quirks = {} PROVE MessagesSpec => []IInv
  BY InitIInv, NextIInv, PTL DEF MessagesSpec

(* For every cut of a regular upstream into chat chunks, events and        *)
(* network chunks, and wherever the stream breaks off, the client reads no *)
(* event that is out of place, as long as upstream makes one tool call.    *)
THEOREM StreamIsWellFormed == ASSUME Quirks = {} PROVE MessagesSpec => []WellFormed
<1>1. IInv => WellFormed
  BY DEF IInv, Follows, WellFormed
<1> QED
  BY <1>1, IInvAlways, PTL

(* However the conversion ends, no block stays open, and the client has    *)
(* seen message_stop exactly when upstream finished its message.           *)
THEOREM StreamIsClosed == ASSUME Quirks = {} PROVE MessagesSpec => []ClosedAtEnd
<1>1. IInv => ClosedAtEnd
  BY DEF IInv, Linked, Position, Follows, ClosedAtEnd
<1> QED
  BY <1>1, IInvAlways, PTL

(* For arguments of every length, cut into any fragments, repeated whole   *)
(* or in another formatting, or lacking their last brace, the client ends  *)
(* up with the arguments that were sent.                                   *)
THEOREM ToolArgsArrive == ASSUME Quirks = {} PROVE MessagesSpec => []ToolArgsIntact
<1>1. IInv => ToolArgsIntact
  BY DEF IInv
<1> QED
  BY <1>1, IInvAlways, PTL
=============================================================================
