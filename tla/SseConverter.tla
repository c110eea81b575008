---------------------------- MODULE SseConverter ----------------------------
(***************************************************************************)
(* UniversalConverter::convert: the bytes of an upstream chat-completions  *)
(* stream come in network chunks that are cut anywhere, are collected in a *)
(* buffer, cut into SSE events at blank lines, and the chat chunk inside   *)
(* each event is handed to the converter C of the client's API.            *)
(*                                                                         *)
(* The converter itself is not here: a module that EXTENDS this one gives  *)
(* the actions of C::process while a chat chunk is open, the meaning of    *)
(* is_completed, and what finalize does.  What is inside a chat chunk is   *)
(* chosen when it is processed: nothing before that depends on it.         *)
(***************************************************************************)
EXTENDS Naturals, Sequences

CONSTANTS
  MaxFrames,  (* bound: how many SSE events upstream sends                  *)
  MaxBatch    (* bound: how many of them end in one network chunk           *)

ASSUME FramingAssumption == MaxFrames \in Nat /\ MaxBatch \in Nat

(* The SSE events.  A comment has no data line; a bad one has data that is *)
(* neither [DONE] nor JSON of a chat chunk.                                *)
Kinds == {"comment", "bad", "done", "error", "chunk"}

(* What follows the last blank line: nothing, or the start of one event,   *)
(* cut inside its data line or complete but for the blank line.            *)
NoTail == [kind |-> "none", whole |-> FALSE]
Tails == [kind : Kinds, whole : BOOLEAN] \cup {NoTail}

VARIABLES
  buffer,    (* complete events in the buffer                               *)
  tail,      (* the rest of the buffer                                      *)
  net,       (* the upstream byte stream                                    *)
  phase,     (* where convert() is                                          *)
  inChunk,   (* process() is working off a chat chunk                       *)
  sent,      (* number of events that upstream has begun to send            *)
  forwarded, (* history: kinds of the events forwarded to the client as is  *)
  skipped    (* history: an event without a chat chunk was drained          *)

framing == <<buffer, tail, net, phase, inChunk, sent, forwarded, skipped>>

FramingTypeOK ==
  /\ buffer \in Seq(Kinds)
  /\ tail \in Tails
  /\ net \in {"open", "eof", "error"}
  /\ phase \in {"read", "loop", "partial", "finalize", "done"}
  /\ inChunk \in BOOLEAN
  /\ sent \in 0 .. MaxFrames
  /\ forwarded \in Seq({"done", "error"})
  /\ skipped \in BOOLEAN

FramingInit ==
  /\ buffer = << >>
  /\ tail = NoTail
  /\ net = "open"
  /\ phase = "read"
  /\ inChunk = FALSE
  /\ sent = 0
  /\ forwarded = << >>
  /\ skipped = FALSE

(* A network chunk arrives.  It ends the event that was begun, if one was, *)
(* brings whole events, and may begin another.                             *)
EndOfTail == IF tail = NoTail THEN << >> ELSE <<tail.kind>>

NetworkChunk ==
  /\ phase = "read" /\ net = "open"
  /\ \E n \in 0 .. MaxBatch : \E batch \in [1 .. n -> Kinds], t \in Tails :
       /\ EndOfTail \o batch # << >> \/ t # NoTail
       /\ sent' = sent + n + (IF t = NoTail THEN 0 ELSE 1)
       /\ buffer' = buffer \o EndOfTail \o batch
       /\ tail' = t
  /\ sent' <= MaxFrames
  /\ phase' = "loop"
  /\ UNCHANGED <<net, inChunk, forwarded, skipped>>

(* The rest of a cut data line arrives, and nothing else.                  *)
NetworkTail ==
  /\ phase = "read" /\ net = "open"
  /\ tail # NoTail /\ ~tail.whole
  /\ tail' = [tail EXCEPT !.whole = TRUE]
  /\ phase' = "loop"
  /\ UNCHANGED <<buffer, net, inChunk, sent, forwarded, skipped>>

(* Mutant of NetworkEnds: a broken connection does not leave the loop.     *)
NetworkEndsKeepsReading(isCompleted) ==
  /\ phase = "read" /\ net = "open"
  /\ net' \in {"eof", "error"}
  /\ phase' = IF net' = "error" THEN "read"
              ELSE IF isCompleted THEN "done" ELSE "partial"
  /\ UNCHANGED <<buffer, tail, inChunk, sent, forwarded, skipped>>

(* Upstream ends its stream, or the connection breaks: the error goes to   *)
(* the client and the loop is left.  Both go on behind the loop, where     *)
(* is_completed() ends convert() at once.                                  *)
NetworkEnds(isCompleted) ==
  /\ phase = "read" /\ net = "open"
  /\ net' \in {"eof", "error"}
  /\ phase' = IF isCompleted THEN "done" ELSE "partial"
  /\ UNCHANGED <<buffer, tail, inChunk, sent, forwarded, skipped>>

-----------------------------------------------------------------------------
(* extract_and_convert, called until it returns None.                      *)

InLoop == phase = "loop" /\ ~inChunk

(* No blank line in the buffer.                                            *)
ExtractNothing ==
  /\ InLoop
  /\ buffer = << >>
  /\ phase' = "read"
  /\ UNCHANGED <<buffer, tail, net, inChunk, sent, forwarded, skipped>>

(* An event without a chat chunk is drained, and the None that extract     *)
(* returns for it ends the loop just as an empty buffer would.             *)
ExtractSkip ==
  /\ InLoop
  /\ buffer # << >>
  /\ Head(buffer) \in {"comment", "bad"}
  /\ buffer' = Tail(buffer)
  /\ skipped' = TRUE
  /\ phase' = "read"
  /\ UNCHANGED <<tail, net, inChunk, sent, forwarded>>

(* [DONE] and upstream errors are forwarded verbatim.                      *)
ExtractForward ==
  /\ InLoop
  /\ buffer # << >>
  /\ Head(buffer) \in {"done", "error"}
  /\ buffer' = Tail(buffer)
  /\ forwarded' = Append(forwarded, Head(buffer))
  /\ UNCHANGED <<tail, net, phase, inChunk, sent, skipped>>

(* A chat chunk goes to the converter.                                     *)
ExtractChunk ==
  /\ InLoop
  /\ buffer # << >>
  /\ Head(buffer) = "chunk"
  /\ buffer' = Tail(buffer)
  /\ inChunk' = TRUE
  /\ UNCHANGED <<tail, net, phase, sent, forwarded, skipped>>

(* process() returns: its loop over the choices has ended.                 *)
ChunkEnds ==
  /\ inChunk
  /\ inChunk' = FALSE
  /\ UNCHANGED <<buffer, tail, net, phase, sent, forwarded, skipped>>

-----------------------------------------------------------------------------
(* Mutant of DataEvents: an event without its blank line is not read.      *)
DataEventsEnded ==
  {<<i, buffer[i]>> : i \in {j \in DOMAIN buffer : buffer[j] # "comment"}}

(* parse_partial: what is left in the buffer is read as ONE event.  The    *)
(* data lines of everything in it are joined, so two events that were left *)
(* there are no JSON any more, and neither is a data line that was cut.    *)
(* An event stands beside its place in the buffer, the tail at 0.          *)
DataEvents ==
  {<<i, buffer[i]>> : i \in {j \in DOMAIN buffer : buffer[j] # "comment"}}
    \cup (IF tail.kind \in {"none", "comment"} THEN {}
          ELSE {<<0, IF tail.whole THEN tail.kind ELSE "bad">>})

Remainder ==
  IF \E e \in DataEvents : DataEvents = {e}
    THEN (CHOOSE e \in DataEvents : TRUE)[2] ELSE "bad"

ParsePartial ==
  /\ phase = "partial"
  /\ phase' = "finalize"
  /\ inChunk' = (Remainder = "chunk")
  /\ forwarded' = IF Remainder \in {"done", "error"}
                    THEN Append(forwarded, Remainder) ELSE forwarded
  /\ IF Remainder = "bad"
       THEN UNCHANGED <<buffer, tail>>
       ELSE buffer' = << >> /\ tail' = NoTail
  /\ UNCHANGED <<net, sent, skipped>>

(* finalize() has nothing left to wait for.                                *)
Finalize ==
  /\ phase = "finalize" /\ ~inChunk
  /\ phase' = "done"
  /\ UNCHANGED <<buffer, tail, net, inChunk, sent, forwarded, skipped>>
=============================================================================
