---------------------------- MODULE SearchStream ----------------------------
(***************************************************************************)
(* search::stream::drive: the web-search loop of a streaming request.      *)
(* Text is forwarded as it comes; tool calls and the finish of a round are *)
(* held back until the round is over.  Then either klava runs the searches *)
(* the model asked for and asks it again, and the client never hears of    *)
(* it, or what was held back is flushed and the stream ends.               *)
(***************************************************************************)
EXTENDS Naturals, Sequences, FiniteSets

CONSTANTS
  MaxRounds,   (* MAX_SEARCH_ROUNDS                                         *)
  Indices,     (* indices of the tool calls in one round                    *)
  RoundFrames, (* bound: frames upstream sends in one round                 *)
  MaxText      (* bound: pieces of text in the whole answer                 *)

ASSUME SearchAssumption ==
  /\ MaxRounds \in Nat /\ RoundFrames \in Nat /\ MaxText \in Nat
  /\ IsFiniteSet(Indices)

(* A piece of a tool call: the name comes with the first piece of a call;  *)
(* query says whether the piece holds some of the query.  A frame has at   *)
(* most one piece of each call.                                            *)
Names  == {"none", "search", "own"}
Pieces == UNION {[idx -> [name : Names, query : BOOLEAN]] : idx \in SUBSET Indices}

(* The chat frames of upstream; text is the number of the piece of text, 0 *)
(* for none.                                                               *)
Frame == [text : 0 .. MaxText, pieces : Pieces, finish : BOOLEAN, done : BOOLEAN]

DoneFrame == [text |-> 0, pieces |-> << >>, finish |-> FALSE, done |-> TRUE]

VARIABLES
  step,      (* where drive() is                                            *)
  rounds,    (* rounds of searches that were begun                          *)
  acc,       (* tool_acc: the calls of this round, put together             *)
  buffered,  (* frames held back                                            *)
  todo,      (* calls of this round whose search is still to be run         *)
  executed,  (* history: searches run for this request                      *)
  over,      (* upstream: this round was finished, or has failed            *)
  frames,    (* upstream: frames sent in this round                         *)
  said,      (* upstream: pieces of text sent in all rounds                 *)
  odd,       (* history: what upstream did that most do not: "mixed", a     *)
             (* frame with several things in it; "together", one with calls *)
             (* of the search tool and of others; "unended", a last event   *)
             (* without its blank line                                      *)
  client     (* what the client has received                                *)

searchVars ==
  <<step, rounds, acc, buffered, todo, executed, over, frames, said, odd, client>>

Answer == INSTANCE OneAnswer WITH answer <- client

NoCall == [seen |-> FALSE, name |-> "none", query |-> FALSE]

Item(kind, n) == [kind |-> kind, n |-> n]
Tell(kind) == client' = Append(client, Item(kind, 0))

-----------------------------------------------------------------------------
(* accumulate_tool_calls.                                                  *)
Accumulate(f) ==
  [i \in Indices |->
     IF i \notin DOMAIN f.pieces THEN acc[i]
     ELSE LET piece == f.pieces[i]
          IN [seen  |-> TRUE,
              name  |-> IF piece.name = "none" THEN acc[i].name ELSE piece.name,
              query |-> acc[i].query \/ piece.query]]

(* Mutant of Held: everything after the first tool call is held.           *)
HeldOnceCalled(f) ==
  DOMAIN f.pieces # {} \/ f.finish \/ \E i \in Indices : acc[i].seen

(* Mutant of Held: a finish is passed on at once.                          *)
HeldCalls(f) == DOMAIN f.pieces # {}

(* classify_frame: tool calls and the finish are held.                     *)
Held(f) == DOMAIN f.pieces # {} \/ f.finish

(* Mutant of SearchOnly: looks for the name in the frame itself.           *)
SearchNamed(f) ==
  /\ DOMAIN f.pieces # {}
  /\ \A i \in DOMAIN f.pieces : f.pieces[i].name = "search"

(* frame_is_search_only.                                                   *)
SearchOnly(f) ==
  /\ DOMAIN f.pieces # {}
  /\ \A i \in DOMAIN f.pieces : acc[i].name = "search"

(* What the client reads in a frame.                                       *)
ItemsOf(f) ==
  LET when(cond, item) == IF cond THEN <<item>> ELSE << >>
      names == {acc[i].name : i \in DOMAIN f.pieces}
  IN when(f.text # 0, Item("text", f.text))
       \o when("search" \in names, Item("search", 0))
       \o when(names \ {"search"} # {}, Item("call", 0))
       \o when(f.finish, Item("finish", 0))
       \o when(f.done, Item("done", 0))

-----------------------------------------------------------------------------
(* Upstream, which is external: the frames it may send next.  Most carry   *)
(* one thing, a piece of text, a piece of one call or the finish.  A       *)
(* finish is the last of a round.                                          *)
Regular(f) ==
  /\ \A i, j \in DOMAIN f.pieces : i = j
  /\ f.text # 0 => DOMAIN f.pieces = {} /\ ~f.finish
  /\ f.finish => DOMAIN f.pieces = {}

Together(f) == {"search", "own"} \subseteq {Accumulate(f)[i].name : i \in DOMAIN f.pieces}

Oddities(f) == {o \in {"mixed", "together"} : IF o = "mixed" THEN ~Regular(f) ELSE Together(f)}

MaySend(f) ==
  /\ ~over /\ frames < RoundFrames
  /\ f.text # 0 \/ DOMAIN f.pieces # {} \/ f.finish
  /\ f.text # 0 => f.text = said + 1
  /\ \A i \in DOMAIN f.pieces :
       /\ f.pieces[i].name = "none" <=> acc[i].seen
       /\ f.pieces[i].query => Accumulate(f)[i].name = "search"

NextText == IF said < MaxText THEN {0, said + 1} ELSE {0}

-----------------------------------------------------------------------------
SearchInit ==
  /\ step = "read" /\ rounds = 0
  /\ acc = [i \in Indices |-> NoCall]
  /\ buffered = << >> /\ todo = {} /\ executed = 0
  /\ over = FALSE /\ frames = 0 /\ said = 0
  /\ odd = {} /\ client = << >>

(* A frame arrives: forwarded at once, or put together and held.           *)
Receive(f) ==
  /\ step = "read"
  /\ MaySend(f)
  /\ frames' = frames + 1
  /\ said' = IF f.text # 0 THEN f.text ELSE said
  /\ over' = f.finish
  /\ odd' = odd \cup Oddities(f)
  /\ IF Held(f)
       THEN /\ acc' = Accumulate(f)
            /\ buffered' = Append(buffered, f)
            /\ UNCHANGED client
       ELSE /\ client' = client \o ItemsOf(f)
            /\ UNCHANGED <<acc, buffered>>
  /\ UNCHANGED <<step, rounds, todo, executed>>

ReceiveFrame ==
  \E t \in NextText, ps \in Pieces, fin \in BOOLEAN :
    Receive([text |-> t, pieces |-> ps, finish |-> fin, done |-> FALSE])

(* An upstream error event is forwarded, and reading goes on.              *)
ReceiveError ==
  /\ step = "read" /\ ~over
  /\ over' = TRUE
  /\ Tell("error")
  /\ UNCHANGED <<step, rounds, acc, buffered, todo, executed, frames, said, odd>>

(* [DONE] ends the round; so does the end of the byte stream, with or      *)
(* without a finish before it.                                             *)
ReceiveDone ==
  /\ step = "read" /\ over
  /\ buffered' = Append(buffered, DoneFrame)
  /\ step' = "classify"
  /\ UNCHANGED <<rounds, acc, todo, executed, over, frames, said, odd, client>>

(* What the stream ends in without a blank line is passed on as it is,     *)
(* unclassified: part of an event, which says nothing, or a whole one.     *)
BytesEnd ==
  /\ step = "read"
  /\ step' = "classify"
  /\ \/ UNCHANGED <<client, odd>>
     \/ /\ ~over
        /\ \E kind \in {"call", "search", "finish"} : Tell(kind)
        /\ odd' = odd \cup {"unended"}
  /\ UNCHANGED <<rounds, acc, buffered, todo, executed, over, frames, said>>

StreamBreaks ==
  /\ step = "read"
  /\ Tell("failed")
  /\ step' = "ended"
  /\ UNCHANGED <<rounds, acc, buffered, todo, executed, over, frames, said, odd>>

-----------------------------------------------------------------------------
(* The round is classified.                                                *)
Searches == {i \in Indices : acc[i].seen /\ acc[i].name = "search"}
HasOther == \E i \in Indices : acc[i].seen /\ acc[i].name # "search"

(* Mutant of CanSearch: other tools do not count.                          *)
CanSearchAside ==
  /\ Searches # {}
  /\ rounds < MaxRounds
  /\ \A i \in Searches : acc[i].query

CanSearch ==
  /\ Searches # {}
  /\ ~HasOther
  /\ rounds < MaxRounds
  /\ \A i \in Searches : acc[i].query

SearchRound ==
  /\ step = "classify" /\ CanSearch
  /\ rounds' = rounds + 1
  /\ todo' = Searches
  /\ step' = "search"
  /\ UNCHANGED <<acc, buffered, executed, over, frames, said, odd, client>>

(* One search; its failure is a result like any other.                     *)
Execute(i) ==
  /\ step = "search" /\ i \in todo
  /\ todo' = todo \ {i}
  /\ executed' = executed + 1
  /\ UNCHANGED <<step, rounds, acc, buffered, over, frames, said, odd, client>>

(* The results are appended and the next round is requested, with nothing  *)
(* kept of this one.                                                       *)
NextRound ==
  /\ step = "search" /\ todo = {}
  /\ step' = "read"
  /\ acc' = [i \in Indices |-> NoCall]
  /\ buffered' = << >>
  /\ over' = FALSE /\ frames' = 0
  /\ UNCHANGED <<rounds, todo, executed, said, odd, client>>

NextRoundFails ==
  /\ step = "search" /\ todo = {}
  /\ Tell("failed")
  /\ step' = "ended"
  /\ UNCHANGED <<rounds, acc, buffered, todo, executed, over, frames, said, odd>>

FlushRound ==
  /\ step = "classify" /\ ~CanSearch
  /\ step' = "flush"
  /\ UNCHANGED <<rounds, acc, buffered, todo, executed, over, frames, said, odd, client>>

(* Mutant of Flush: a search frame is passed over but not taken out.       *)
FlushStuck ==
  /\ step = "flush" /\ buffered # << >>
  /\ IF SearchOnly(Head(buffered))
       THEN UNCHANGED <<buffered, client>>
       ELSE /\ buffered' = Tail(buffered)
            /\ client' = client \o ItemsOf(Head(buffered))
  /\ UNCHANGED <<step, rounds, acc, todo, executed, over, frames, said, odd>>

Flush ==
  /\ step = "flush" /\ buffered # << >>
  /\ buffered' = Tail(buffered)
  /\ client' = IF SearchOnly(Head(buffered)) THEN client
               ELSE client \o ItemsOf(Head(buffered))
  /\ UNCHANGED <<step, rounds, acc, todo, executed, over, frames, said, odd>>

FlushEnds ==
  /\ step = "flush" /\ buffered = << >>
  /\ step' = "ended"
  /\ UNCHANGED <<rounds, acc, buffered, todo, executed, over, frames, said, odd, client>>

SearchNext ==
  \/ ReceiveFrame \/ ReceiveError \/ ReceiveDone \/ BytesEnd \/ StreamBreaks
  \/ SearchRound \/ \E i \in Indices : Execute(i)
  \/ NextRound \/ NextRoundFails
  \/ FlushRound \/ Flush \/ FlushEnds

SearchSpec == SearchInit /\ [][SearchNext]_searchVars

(* The client polls the stream; an upstream that is silent is cut off by   *)
(* the read timeout of the HTTP client.                                    *)
Drive ==
  \/ BytesEnd \/ StreamBreaks \/ SearchRound \/ \E i \in Indices : Execute(i)
  \/ NextRound \/ NextRoundFails \/ FlushRound \/ Flush \/ FlushEnds

-----------------------------------------------------------------------------
SearchTypeOK ==
  /\ step \in {"read", "classify", "search", "flush", "ended"}
  /\ rounds \in 0 .. MaxRounds
  /\ acc \in [Indices -> [seen : BOOLEAN, name : Names, query : BOOLEAN]]
  /\ buffered \in Seq(Frame)
  /\ todo \in SUBSET Indices
  /\ executed \in Nat
  /\ over \in BOOLEAN
  /\ frames \in 0 .. RoundFrames
  /\ said \in 0 .. MaxText
  /\ odd \subseteq {"mixed", "together", "unended"}
  /\ client \in Seq(Answer!Item)

(* The client is not told of a search: not in the text that is forwarded,  *)
(* not when klava gives up searching, and not when the model calls the     *)
(* search tool together with the client's own tools.  A search call gets   *)
(* past only in a frame that holds another tool's call beside it, which    *)
(* frame_is_search_only keeps, and in a last event without its blank line, *)
(* which is passed on unread (SearchNeverSeen).                            *)
SearchHidden ==
  (\E i \in DOMAIN client : client[i].kind = "search") => odd \cap {"together", "unended"} # {}

(* "the client sees one continuous answer and never learns about the       *)
(* search tool".                                                           *)
SearchNeverSeen == \A i \in DOMAIN client : client[i].kind # "search"

(* "content deltas are forwarded to the client immediately": while a round *)
(* is read, the client has every piece of text that upstream has sent, as  *)
(* long as no frame carries something beside its text.                     *)
TextForwarded ==
  step \in {"read", "search"} /\ "mixed" \notin odd =>
    \A n \in 1 .. said : \E i \in DOMAIN client : client[i] = Item("text", n)

(* The same said of what must never happen: a piece of text that upstream  *)
(* sent is neither with the client nor held back to be flushed.            *)
TextKept ==
  \A n \in 1 .. said :
    \/ \E i \in DOMAIN client : client[i] = Item("text", n)
    \/ \E k \in DOMAIN buffered : buffered[k].text = n

(* A round whose frames are thrown away holds no call of the client's own  *)
(* tools: whatever the model mixes, those calls are the client's to run.   *)
OwnCallsKept ==
  step = "search" =>
    \A k \in DOMAIN buffered : \A i \in DOMAIN buffered[k].pieces : acc[i].name = "search"

(* One request costs a bounded number of searches.                         *)
SearchesBounded == executed <= MaxRounds * Cardinality(Indices)

(* All rounds together look to the client like one answer, for an upstream *)
(* that puts one thing into a frame and ends its last event.               *)
ClientSeesOneAnswer == Answer!Init /\ [][odd' = {} => Answer!Next]_client
=============================================================================
