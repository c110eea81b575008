-------------------------- MODULE OpenaiPassthrough --------------------------
(***************************************************************************)
(* OpenaiPassthrough: chat chunks are handed on to a chat-completions      *)
(* client, with the id of a tool call filled in where the provider leaves  *)
(* it out, and nothing behind the chunk that finishes.                     *)
(*                                                                         *)
(* A chunk is the tool call it is about (an index, or none), the id given  *)
(* with it, and its finish reason.  The type of a call is treated by the   *)
(* same code as its id and is left out.                                    *)
(***************************************************************************)
EXTENDS Naturals

CONSTANT Indices     (* the indices of tool calls                          *)

NoIndex == 99

(* An id that is not there, an empty one, or the call's own.               *)
Ids == {"null", "empty", "id"}
Finishes == {"none", "stop", "other"}

ChatChunks ==
  {c \in [choices : BOOLEAN, index : Indices \cup {NoIndex}, id : Ids, finish : Finishes] :
     /\ ~c.choices => c.index = NoIndex /\ c.finish = "none"
     /\ c.index = NoIndex => c.id = "null"}

(* received: what the client was sent, by index: whether it was told the   *)
(* id with every delta that had none of its own; ended: a finished chunk.  *)
PassthroughInit ==
  [ids |-> {}, completed |-> FALSE, nameless |-> {}, ended |-> FALSE, behind |-> FALSE]

(* fix_null_fields: an id is remembered when it is not empty, and filled   *)
(* in when it is null.                                                     *)
Remembered(s, c) == IF c.id = "id" THEN s.ids \cup {c.index} ELSE s.ids

(* Mutant of FixedId: nothing is filled in.                                *)
FixedIdAsIs(s, c) == c.id

FixedId(s, c) == IF c.id = "null" /\ c.index \in Remembered(s, c) THEN "id" ELSE c.id

(* What a client sees of a chunk.                                          *)
Forward(s, c) ==
  [s EXCEPT !.nameless = IF c.index # NoIndex /\ FixedId(s, c) = "null"
                           THEN @ \cup {c.index} ELSE @,
            !.ids = Remembered(s, c),
            !.behind = @ \/ s.ended,
            !.ended = @ \/ c.finish = "stop"]

(* Mutant of PassthroughProcess: chunks behind the finish are passed on.   *)
PassthroughProcessOn(s, c) ==
  IF ~c.choices THEN s
  ELSE [Forward(s, c) EXCEPT !.completed = @ \/ c.finish = "stop"]

(* process: nothing once completed, nothing of a chunk without choices.    *)
PassthroughProcess(s, c) ==
  IF s.completed \/ ~c.choices THEN s
  ELSE [Forward(s, c) EXCEPT !.completed = c.finish = "stop"]
=============================================================================
