--------------------------- MODULE RequestsProofs ---------------------------
(***************************************************************************)
(* What is proved of a request's way through klava, as Requests composes   *)
(* it: the handlers, the streamed answers, and the bundled extensions.     *)
(*                                                                         *)
(* Responses streams (AnswerInv): the converter's counters say what the    *)
(* client has read. The items are reasoning, text and calls in this order, *)
(* as many as were begun (Linked); those in front of outputIdx are closed; *)
(* the state and the flags say which one is open; the arguments are        *)
(* upstream's. None of the three properties is inductive without the       *)
(* others. They are proved for Quirks = {}: a provider that goes back from *)
(* calls to text reuses their numbers, which the converter does not        *)
(* survive.                                                                *)
(*                                                                         *)
(* Chat streams (NamedInv): a call the client has seen without an id is    *)
(* one that upstream has not named yet.                                    *)
(*                                                                         *)
(* Bundled extensions: BundledInv of BundledProofs; handlers: PipelineInv  *)
(* of PipelineProofs.                                                      *)
(***************************************************************************)
EXTENDS Requests, BundledProofs, PipelineProofs, TLAPS

(***************************************************************************)
(* The Responses stream.                                                   *)
(***************************************************************************)
OutputItems == [kind : {"reasoning", "message", "call"}, open : BOOLEAN]

Converters ==
  [state : States, outputIdx : Nat, contentStarted : BOOLEAN,
   reasoned : BOOLEAN, texted : BOOLEAN, calls : Seq(0 .. Garbled), completed : BOOLEAN,
   items : Seq(OutputItems), created : BOOLEAN, finished : BOOLEAN, wellFormed : BOOLEAN]

(* The items in front of the calls, and whether one of them is open.       *)
Spoken(s) == (IF s.reasoned THEN 1 ELSE 0) + (IF s.texted THEN 1 ELSE 0)
Speaking(s) == s.state = "Reasoning" \/ s.contentStarted

ItemAt(s, k) ==
  [kind |-> IF k > Spoken(s) THEN "call"
            ELSE IF k = 1 /\ s.reasoned THEN "reasoning" ELSE "message",
   open |-> k > s.outputIdx]

(* What the converter counts is what the client has read: the items are    *)
(* reasoning, text and calls in this order, and those from outputIdx on    *)
(* are open.                                                               *)
Linked(s) ==
  /\ s \in Converters
  /\ s.wellFormed
  /\ s.created <=> s.state # "Initial"
  /\ ~s.finished
  /\ s.state = "Initial" => Spoken(s) = 0 /\ s.calls = << >> /\ ~s.contentStarted
  /\ s.state = "Reasoning" => s.reasoned /\ ~s.texted /\ ~s.contentStarted
  /\ s.contentStarted => s.texted
  /\ Speaking(s) => s.calls = << >>
  /\ Len(s.items) = Spoken(s) + Len(s.calls)
  /\ \A k \in 1 .. Len(s.items) : s.items[k] = ItemAt(s, k)

Filling(s) == Linked(s) /\ s.outputIdx = Spoken(s) - (IF Speaking(s) THEN 1 ELSE 0)
Filled(s) == Linked(s) /\ ~Speaking(s) /\ s.outputIdx = Len(s.items)

-----------------------------------------------------------------------------
(* The client.                                                             *)

LEMMA NotedRight ==
  ASSUME NEW s \in Converters, s.wellFormed, NEW right, right = TRUE
  PROVE  Note(s, right) = s
  BY DEF Note, Converters

LEMMA AddedRight ==
  ASSUME NEW s \in Converters, s.wellFormed, Reading(s),
         NEW kind \in {"reasoning", "message", "call"}
  PROVE  ItemAdded(s, kind, Len(s.items)) =
           [s EXCEPT !.items = Append(s.items, [kind |-> kind, open |-> TRUE])]
<1>1. Note(s, Reading(s) /\ Len(s.items) = Len(s.items)) = s
  BY NotedRight
<1> QED
  BY <1>1 DEF ItemAdded

LEMMA DeltaRight ==
  ASSUME NEW s \in Converters, s.wellFormed, NEW kind, NEW idx, IsOpen(s, kind, idx)
  PROVE  ItemDelta(s, kind, idx) = s
<1>1. IsOpen(s, kind, idx) = TRUE
  BY DEF IsOpen, Reading, Converters
<1> QED
  BY <1>1, NotedRight DEF ItemDelta

(* The first open item of a converter that fills one.                      *)
LEMMA OpensAt ==
  ASSUME NEW s, Linked(s), s.created, NEW k \in 1 .. Len(s.items), k > s.outputIdx
  PROVE  IsOpen(s, ItemAt(s, k).kind, k - 1)
<1>1. s.items[k] = ItemAt(s, k) /\ Len(s.items) \in Nat
  BY DEF Linked, Converters
<1>2. (k - 1) + 1 = k /\ k - 1 < Len(s.items)
  BY <1>1
<1>3. s.items[k] = [kind |-> ItemAt(s, k).kind, open |-> TRUE]
  BY <1>1 DEF ItemAt
<1>4. Reading(s)
  BY DEF Linked, Reading
<1> QED
  BY <1>2, <1>3, <1>4 DEF IsOpen

LEMMA ItemAtOpen ==
  ASSUME NEW s, NEW k
  PROVE  ItemAt(s, k).open <=> k > s.outputIdx
  BY DEF ItemAt

LEMMA ItemAtClosed ==
  ASSUME NEW s, NEW k, ~(k > s.outputIdx)
  PROVE  ItemAt(s, k) = [kind |-> ItemAt(s, k).kind, open |-> FALSE]
<1>1. (k > s.outputIdx) = FALSE
  OBVIOUS
<1> QED
  BY <1>1 DEF ItemAt

LEMMA ItemsPut ==
  ASSUME NEW s \in Converters, NEW x \in Seq(OutputItems)
  PROVE  [s EXCEPT !.items = x] \in Converters
  BY DEF Converters

LEMMA ClosedItem ==
  ASSUME NEW x \in OutputItems
  PROVE  /\ [x EXCEPT !.open = FALSE] = [kind |-> x.kind, open |-> FALSE]
         /\ ~x.open => x = [kind |-> x.kind, open |-> FALSE]
<1> DEFINE y == [x EXCEPT !.open = FALSE]
<1>1. x = [kind |-> x.kind, open |-> x.open]
  BY DEF OutputItems
<1>2. y \in OutputItems /\ y.kind = x.kind /\ y.open = FALSE
  BY DEF OutputItems
<1>3. x.open \in BOOLEAN
  BY DEF OutputItems
<1>4. y = [kind |-> x.kind, open |-> FALSE]
  <2> HIDE DEF y
  <2> QED
    BY <1>2 DEF OutputItems
<1> QED
  BY <1>1, <1>3, <1>4

LEMMA SameItems ==
  ASSUME NEW s, NEW t, t.reasoned = s.reasoned, t.texted = s.texted
  PROVE  /\ Spoken(t) = Spoken(s)
         /\ t.outputIdx = s.outputIdx => \A k : ItemAt(t, k) = ItemAt(s, k)
  BY DEF Spoken, ItemAt

LEMMA SpokenSmall == ASSUME NEW s PROVE Spoken(s) \in 0 .. 2
  BY DEF Spoken

-----------------------------------------------------------------------------
(* The methods of the converter, one lemma each.                           *)

LEMMA BeginFilling ==
  ASSUME NEW s, Filling(s)
  PROVE  LET t == BeginResponse(s)
         IN /\ Filling(t) /\ t.created /\ t.calls = s.calls /\ t.completed = s.completed
            /\ t.reasoned = s.reasoned /\ t.texted = s.texted
            /\ t.contentStarted = s.contentStarted
            /\ t.state = IF s.state = "Initial" THEN "InProgress" ELSE s.state
<1>1. CASE s.state = "Initial"
  <2> DEFINE u == [s EXCEPT !.created = TRUE]
             r == [u EXCEPT !.state = "InProgress"]
  <2>1. s \in Converters /\ ~s.created /\ s.wellFormed
    BY <1>1 DEF Filling, Linked
  <2>2. BeginResponse(s) = r
    <3>1. Note(s, ~s.created) = s
      BY <2>1, NotedRight
    <3> QED
      BY <1>1, <3>1 DEF BeginResponse
  <2>3. /\ r \in Converters /\ r.created /\ r.state = "InProgress"
        /\ r.outputIdx = s.outputIdx /\ r.contentStarted = s.contentStarted
        /\ r.reasoned = s.reasoned /\ r.texted = s.texted /\ r.calls = s.calls
        /\ r.completed = s.completed /\ r.items = s.items /\ r.finished = s.finished
        /\ r.wellFormed = s.wellFormed
    BY <2>1 DEF Converters, States
  <2> HIDE DEF r
  <2>4. Spoken(r) = Spoken(s) /\ \A k : ItemAt(r, k) = ItemAt(s, k)
    BY <2>3, SameItems
  <2>5. Speaking(r) <=> Speaking(s)
    BY <1>1, <2>3 DEF Speaking
  <2> QED
    BY <1>1, <2>2, <2>3, <2>4, <2>5 DEF Filling, Linked
<1>2. CASE s.state # "Initial"
  BY <1>2 DEF BeginResponse, Filling, Linked
<1> QED
  BY <1>1, <1>2

(* finish_reasoning and finish_content close the item that is open.        *)
LEMMA CloseSpoken ==
  ASSUME NEW s, Filling(s), Speaking(s)
  PROVE  LET n == s.outputIdx
         IN /\ n \in Nat /\ Len(s.items) = n + 1 /\ s.created /\ s.calls = << >>
            /\ IsOpen(s, IF s.state = "Reasoning" THEN "reasoning" ELSE "message", n)
            /\ [s.items EXCEPT ![n + 1].open = FALSE] \in Seq(OutputItems)
            /\ Len([s.items EXCEPT ![n + 1].open = FALSE]) = n + 1
            /\ \A k \in 1 .. Len(s.items) :
                 [s.items EXCEPT ![n + 1].open = FALSE][k] =
                   [kind |-> ItemAt(s, k).kind, open |-> FALSE]
<1> DEFINE n == s.outputIdx
           word == IF s.state = "Reasoning" THEN "reasoning" ELSE "message"
<1>1. s \in Converters /\ Linked(s)
  BY DEF Filling, Linked
<1>2. n \in Nat /\ s.items \in Seq(OutputItems)
  BY <1>1 DEF Converters
<1>3. s.created /\ s.calls = << >> /\ Spoken(s) = n + 1
  <2>1. s.created /\ s.calls = << >>
    BY DEF Filling, Linked, Speaking
  <2> QED
    BY <1>2, <2>1, SpokenSmall DEF Filling
<1>4. Len(s.items) = n + 1
  BY <1>3, SpokenSmall DEF Filling, Linked
<1>5. ItemAt(s, n + 1).kind = word
  <2>1. ~(n + 1 > Spoken(s))
    BY <1>2, <1>3
  <2>2. CASE s.state = "Reasoning"
    BY <1>2, <1>3, <2>1, <2>2, <1>1 DEF ItemAt, Linked, Spoken
  <2>3. CASE s.state # "Reasoning"
    <3>1. s.texted
      BY <2>3 DEF Speaking, Filling, Linked
    <3> QED
      BY <1>2, <1>3, <2>1, <2>3, <3>1 DEF ItemAt, Spoken
  <2> QED
    BY <2>2, <2>3
<1>6. IsOpen(s, word, n)
  <2>1. n + 1 \in 1 .. Len(s.items) /\ n + 1 > s.outputIdx /\ (n + 1) - 1 = n
    BY <1>2, <1>4
  <2> QED
    BY <1>1, <1>3, <1>5, <2>1, OpensAt
<1>7. ASSUME NEW k \in 1 .. Len(s.items)
      PROVE  [s.items EXCEPT ![n + 1].open = FALSE][k] =
               [kind |-> ItemAt(s, k).kind, open |-> FALSE]
  <2> DEFINE it == s.items[k]
  <2>1. it = ItemAt(s, k) /\ it \in OutputItems
    BY <1>1, <1>2, <1>7 DEF Linked
  <2>2. it.kind = ItemAt(s, k).kind /\ (it.open <=> k > n)
    BY <2>1, ItemAtOpen
  <2>3. /\ n + 1 \in DOMAIN s.items /\ k \in DOMAIN s.items
        /\ k # n + 1 => ~(k > n)
    BY <1>2, <1>4, <1>7
  <2>4. [it EXCEPT !.open = FALSE] = [kind |-> it.kind, open |-> FALSE]
    BY <2>1, ClosedItem
  <2>5. ~it.open => it = [kind |-> it.kind, open |-> FALSE]
    BY <2>1, ClosedItem
  <2>6. [s.items EXCEPT ![n + 1].open = FALSE][k] =
          IF k = n + 1 THEN [it EXCEPT !.open = FALSE] ELSE it
    BY <2>3
  <2> QED
    BY <2>2, <2>3, <2>4, <2>5, <2>6
<1>8. /\ [s.items EXCEPT ![n + 1].open = FALSE] \in Seq(OutputItems)
      /\ Len([s.items EXCEPT ![n + 1].open = FALSE]) = n + 1
  <2>1. n + 1 \in DOMAIN s.items /\ s.items[n + 1] \in OutputItems
    BY <1>2, <1>4
  <2>2. [s.items[n + 1] EXCEPT !.open = FALSE] \in OutputItems
    BY <2>1 DEF OutputItems
  <2> QED
    BY <1>2, <1>4, <2>1, <2>2
<1> QED
  BY <1>2, <1>3, <1>4, <1>6, <1>7, <1>8

LEMMA ClosedFilling ==
  ASSUME NEW s, Filling(s), Speaking(s), NEW t \in Converters,
         t.items = [s.items EXCEPT ![s.outputIdx + 1].open = FALSE],
         t.outputIdx = s.outputIdx + 1, ~Speaking(t), t.state # "Initial",
         t.reasoned = s.reasoned, t.texted = s.texted, t.calls = s.calls,
         t.created = s.created, t.finished = s.finished, t.wellFormed = s.wellFormed
  PROVE  Filling(t)
<1> DEFINE n == s.outputIdx
<1>1. /\ n \in Nat /\ Len(s.items) = n + 1 /\ s.created /\ s.calls = << >>
      /\ Len(t.items) = n + 1
      /\ \A k \in 1 .. Len(s.items) : t.items[k] = [kind |-> ItemAt(s, k).kind, open |-> FALSE]
  BY CloseSpoken
<1>2. Spoken(t) = Spoken(s) /\ Spoken(s) = n + 1
  <2>1. Spoken(s) - 1 = n
    BY DEF Filling
  <2> QED
    BY <2>1, SameItems, SpokenSmall
<1>3. ASSUME NEW k \in 1 .. n + 1
      PROVE  t.items[k] = ItemAt(t, k)
  <2>1. ItemAt(t, k) = [kind |-> ItemAt(s, k).kind, open |-> FALSE]
    <3>1. ~(k > t.outputIdx)
      BY <1>1
    <3>2. ItemAt(t, k).kind = ItemAt(s, k).kind
      BY <1>2 DEF ItemAt
    <3> QED
      BY <3>1, <3>2, ItemAtClosed
  <2> QED
    BY <1>1, <2>1
<1>4. Len(s.calls) = 0
  BY <1>1
<1> QED
  BY <1>1, <1>2, <1>3, <1>4 DEF Filling, Linked, Speaking

LEMMA ReasoningClosed ==
  ASSUME NEW s, Filling(s)
  PROVE  LET t == FinishReasoning(s)
         IN /\ Filling(t) /\ t.calls = s.calls /\ t.completed = s.completed
            /\ t.created = s.created /\ t.reasoned = s.reasoned /\ t.texted = s.texted
            /\ t.contentStarted = s.contentStarted
            /\ t.state = IF s.state = "Reasoning" THEN "InProgress" ELSE s.state
<1>1. CASE s.state = "Reasoning"
  <2> DEFINE n == s.outputIdx
             closed == [s.items EXCEPT ![n + 1].open = FALSE]
             u == [s EXCEPT !.items = closed]
             v == [u EXCEPT !.state = "InProgress"]
             r == [v EXCEPT !.outputIdx = n + 1]
  <2>1. Speaking(s) /\ s \in Converters /\ ~s.contentStarted
    BY <1>1 DEF Speaking, Filling, Linked
  <2>2. IsOpen(s, "reasoning", n) /\ n \in Nat /\ closed \in Seq(OutputItems)
    BY <1>1, <2>1, CloseSpoken
  <2>3. ItemDone(s, "reasoning", n) = u
    BY <2>2 DEF ItemDone
  <2>4. u.outputIdx = n
    BY <2>1 DEF Converters
  <2>5. FinishReasoning(s) = [u EXCEPT !.state = "InProgress", !.outputIdx = n + 1]
    <3> HIDE DEF u
    <3> QED
      BY <1>1, <2>3, <2>4 DEF FinishReasoning
  <2>6. FinishReasoning(s) = r
    BY <2>5
  <2> HIDE DEF closed
  <2>7. /\ r \in Converters /\ r.items = closed /\ r.outputIdx = n + 1
        /\ r.state = "InProgress" /\ r.contentStarted = s.contentStarted
        /\ r.reasoned = s.reasoned /\ r.texted = s.texted /\ r.calls = s.calls
        /\ r.created = s.created /\ r.finished = s.finished
        /\ r.wellFormed = s.wellFormed /\ r.completed = s.completed
    <3>1. u \in Converters /\ n + 1 \in Nat
      BY <2>1, <2>2, ItemsPut
    <3>2. v \in Converters
      <4> HIDE DEF u
      <4> QED
        BY <3>1 DEF Converters, States
    <3> QED
      BY <2>1, <2>2, <3>1, <3>2 DEF Converters, States
  <2> HIDE DEF r
  <2>8. ~Speaking(r)
    BY <2>1, <2>7 DEF Speaking
  <2>9. Filling(r)
    BY <2>1, <2>7, <2>8, ClosedFilling DEF closed
  <2> QED
    BY <1>1, <2>6, <2>7, <2>9
<1>2. CASE s.state # "Reasoning"
  BY <1>2 DEF FinishReasoning
<1> QED
  BY <1>1, <1>2

LEMMA ContentClosed ==
  ASSUME NEW s, Filling(s)
  PROVE  LET t == FinishContent(s)
         IN /\ Filling(t) /\ t.calls = s.calls /\ t.completed = s.completed
            /\ t.created = s.created /\ t.reasoned = s.reasoned /\ t.texted = s.texted
            /\ ~t.contentStarted /\ t.state = s.state
<1>1. CASE s.contentStarted
  <2> DEFINE n == s.outputIdx
             closed == [s.items EXCEPT ![n + 1].open = FALSE]
             u == [s EXCEPT !.items = closed]
             v == [u EXCEPT !.outputIdx = n + 1]
             r == [v EXCEPT !.contentStarted = FALSE]
  <2>1. Speaking(s) /\ s \in Converters /\ s.state # "Reasoning" /\ s.state # "Initial"
    BY <1>1 DEF Speaking, Filling, Linked
  <2>2. IsOpen(s, "message", n) /\ n \in Nat /\ closed \in Seq(OutputItems)
    BY <2>1, CloseSpoken
  <2>3. ItemDone(s, "message", n) = u
    BY <2>2 DEF ItemDone
  <2>4. u.outputIdx = n
    BY <2>1 DEF Converters
  <2>5. FinishContent(s) = [u EXCEPT !.outputIdx = n + 1, !.contentStarted = FALSE]
    <3> HIDE DEF u
    <3> QED
      BY <1>1, <2>3, <2>4 DEF FinishContent
  <2>6. FinishContent(s) = r
    BY <2>5
  <2> HIDE DEF closed
  <2>7. /\ r \in Converters /\ r.items = closed /\ r.outputIdx = n + 1
        /\ r.state = s.state /\ ~r.contentStarted
        /\ r.reasoned = s.reasoned /\ r.texted = s.texted /\ r.calls = s.calls
        /\ r.created = s.created /\ r.finished = s.finished
        /\ r.wellFormed = s.wellFormed /\ r.completed = s.completed
    <3>1. u \in Converters /\ n + 1 \in Nat
      BY <2>1, <2>2, ItemsPut
    <3>2. v \in Converters
      <4> HIDE DEF u
      <4> QED
        BY <3>1 DEF Converters
    <3> QED
      BY <2>1, <2>2, <3>1, <3>2 DEF Converters
  <2> HIDE DEF r
  <2>8. ~Speaking(r)
    BY <2>1, <2>7 DEF Speaking
  <2>9. Filling(r)
    BY <2>1, <2>7, <2>8, ClosedFilling DEF closed
  <2> QED
    BY <1>1, <2>6, <2>7, <2>9
<1>2. CASE ~s.contentStarted
  BY <1>2 DEF FinishContent
<1> QED
  BY <1>1, <1>2

(* An item is added behind all others.                                     *)
LEMMA Appended ==
  ASSUME NEW s, Filling(s), s.created, NEW kind \in {"reasoning", "message", "call"}
  PROVE  LET u == ItemAdded(s, kind, Len(s.items))
         IN /\ u \in Converters
            /\ u.items = Append(s.items, [kind |-> kind, open |-> TRUE])
            /\ u.state = s.state /\ u.outputIdx = s.outputIdx
            /\ u.contentStarted = s.contentStarted
            /\ u.reasoned = s.reasoned /\ u.texted = s.texted /\ u.calls = s.calls
            /\ u.completed = s.completed /\ u.created = s.created
            /\ u.finished = s.finished /\ u.wellFormed = s.wellFormed
<1> DEFINE x == Append(s.items, [kind |-> kind, open |-> TRUE])
<1>1. s \in Converters /\ s.wellFormed /\ Reading(s)
  BY DEF Filling, Linked, Reading
<1>2. ItemAdded(s, kind, Len(s.items)) = [s EXCEPT !.items = x]
  BY <1>1, AddedRight
<1>3. x \in Seq(OutputItems)
  <2>1. s.items \in Seq(OutputItems) /\ [kind |-> kind, open |-> TRUE] \in OutputItems
    BY <1>1 DEF Converters, OutputItems
  <2> QED
    BY <2>1
<1> HIDE DEF x
<1>4. [s EXCEPT !.items = x] \in Converters
  BY <1>1, <1>3, ItemsPut
<1>5. /\ [s EXCEPT !.items = x].items = x
      /\ [s EXCEPT !.items = x].state = s.state
      /\ [s EXCEPT !.items = x].outputIdx = s.outputIdx
      /\ [s EXCEPT !.items = x].contentStarted = s.contentStarted
      /\ [s EXCEPT !.items = x].reasoned = s.reasoned
      /\ [s EXCEPT !.items = x].texted = s.texted
      /\ [s EXCEPT !.items = x].calls = s.calls
      /\ [s EXCEPT !.items = x].completed = s.completed
      /\ [s EXCEPT !.items = x].created = s.created
      /\ [s EXCEPT !.items = x].finished = s.finished
      /\ [s EXCEPT !.items = x].wellFormed = s.wellFormed
  BY <1>1 DEF Converters
<1> QED
  BY <1>2, <1>4, <1>5 DEF x

LEMMA LastIsOpen ==
  ASSUME NEW s \in Converters, Reading(s), NEW n \in Nat, NEW kind,
         NEW q \in Seq(OutputItems), Len(q) = n,
         s.items = Append(q, [kind |-> kind, open |-> TRUE])
  PROVE  IsOpen(s, kind, n) /\ Len(s.items) = n + 1
  BY DEF IsOpen

LEMMA ReasoningFilling ==
  ASSUME NEW s, Filling(s), s.created,
         \/ s.state = "Reasoning"
         \/ s.state = "InProgress" /\ Spoken(s) = 0 /\ s.calls = << >>
  PROVE  LET t == ProcessReasoningDelta(s)
         IN /\ Filling(t) /\ t.calls = << >> /\ t.completed = s.completed
            /\ t.created /\ t.state = "Reasoning"
<1>0. s \in Converters /\ s.wellFormed
  BY DEF Filling, Linked
<1>1. CASE s.state = "Reasoning"
  <2>1. Speaking(s)
    BY <1>1 DEF Speaking
  <2>2. IsOpen(s, "reasoning", s.outputIdx) /\ s.calls = << >>
    BY <1>1, <2>1, CloseSpoken
  <2>3. ItemDelta(s, "reasoning", s.outputIdx) = s
    BY <1>0, <2>2, DeltaRight
  <2>4. s.reasoned = TRUE
    BY <1>0, <1>1 DEF Filling, Linked, Converters
  <2>5. [s EXCEPT !.reasoned = TRUE] = s
    BY <1>0, <2>4 DEF Converters
  <2> QED
    BY <1>1, <2>2, <2>3, <2>5 DEF ProcessReasoningDelta
<1>2. CASE s.state # "Reasoning"
  <2> DEFINE u == ItemAdded(s, "reasoning", s.outputIdx)
             b == [u EXCEPT !.state = "Reasoning"]
             r == [b EXCEPT !.reasoned = TRUE]
  <2>1. /\ s.items = << >> /\ s.outputIdx = 0 /\ s.calls = << >> /\ s.state = "InProgress"
        /\ ~s.reasoned /\ ~s.texted /\ ~s.contentStarted
    <3>1. ~s.reasoned /\ ~s.texted
      BY <1>2 DEF Spoken
    <3>2. ~s.contentStarted
      BY <3>1 DEF Filling, Linked
    <3>3. Len(s.items) = 0 /\ s.outputIdx = 0
      BY <1>2, <3>2 DEF Filling, Linked, Speaking
    <3> QED
      BY <1>0, <1>2, <3>1, <3>2, <3>3 DEF Converters
  <2>2. /\ u \in Converters
        /\ u.items = Append(s.items, [kind |-> "reasoning", open |-> TRUE])
        /\ u.state = s.state /\ u.outputIdx = s.outputIdx
        /\ u.contentStarted = s.contentStarted
        /\ u.reasoned = s.reasoned /\ u.texted = s.texted /\ u.calls = s.calls
        /\ u.completed = s.completed /\ u.created = s.created
        /\ u.finished = s.finished /\ u.wellFormed = s.wellFormed
    <3>1. u = ItemAdded(s, "reasoning", Len(s.items))
      BY <2>1
    <3> HIDE DEF u
    <3> QED
      BY <3>1, Appended
  <2> HIDE DEF u
  <2>3. /\ b \in Converters /\ b.items = u.items
        /\ b.outputIdx = 0 /\ b.created = s.created /\ b.finished = s.finished
        /\ b.wellFormed = s.wellFormed
    BY <2>1, <2>2 DEF Converters, States
  <2>4. /\ r \in Converters /\ r.items = u.items /\ r.state = "Reasoning"
        /\ r.outputIdx = 0 /\ r.created = s.created /\ r.finished = s.finished
        /\ r.contentStarted = s.contentStarted /\ r.texted = s.texted /\ r.reasoned
        /\ r.calls = s.calls /\ r.completed = s.completed /\ r.wellFormed = s.wellFormed
    BY <2>1, <2>2 DEF Converters, States
  <2>5. ProcessReasoningDelta(s) = [ItemDelta(b, "reasoning", 0) EXCEPT !.reasoned = TRUE]
    BY <1>2, <2>1 DEF ProcessReasoningDelta, u
  <2> HIDE DEF b
  <2>6. ItemDelta(b, "reasoning", 0) = b
    <3>1. Reading(b)
      BY <2>3 DEF Reading, Filling, Linked
    <3>2. /\ s.items \in Seq(OutputItems) /\ Len(s.items) = 0 /\ 0 \in Nat
          /\ b.items = Append(s.items, [kind |-> "reasoning", open |-> TRUE])
      BY <1>0, <2>1, <2>2, <2>3 DEF Converters
    <3>3. IsOpen(b, "reasoning", 0)
      BY <2>3, <3>1, <3>2, LastIsOpen
    <3> QED
      BY <1>0, <2>2, <2>3, <3>3, DeltaRight
  <2> HIDE DEF r
  <2>7. Spoken(r) = 1 /\ Speaking(r) /\ Len(r.calls) = 0
    BY <2>1, <2>4 DEF Spoken, Speaking
  <2>8. Len(r.items) = 1 /\ r.items[1] = [kind |-> "reasoning", open |-> TRUE]
    BY <2>1, <2>2, <2>4
  <2>9. ItemAt(r, 1) = [kind |-> "reasoning", open |-> TRUE]
    <3>1. (1 > r.outputIdx) = TRUE /\ ~(1 > Spoken(r))
      BY <2>4, <2>7
    <3> QED
      BY <2>4, <3>1 DEF ItemAt
  <2>10. Filling(r)
    <3>1. ~s.finished /\ s.created
      BY DEF Filling, Linked
    <3>2. \A k \in 1 .. Len(r.items) : r.items[k] = ItemAt(r, k)
      <4>1. ASSUME NEW k \in 1 .. Len(r.items) PROVE k = 1
        BY <2>8, <4>1
      <4> QED
        BY <2>8, <2>9, <4>1
    <3>3. Len(r.items) = Spoken(r) + Len(r.calls)
      BY <2>7, <2>8
    <3>4. Linked(r)
      BY <1>0, <2>1, <2>4, <3>1, <3>2, <3>3 DEF Linked
    <3>5. r.outputIdx = Spoken(r) - 1
      BY <2>4, <2>7
    <3> QED
      BY <2>7, <3>4, <3>5 DEF Filling
  <2> QED
    BY <2>1, <2>4, <2>5, <2>6, <2>10 DEF r
<1> QED
  BY <1>1, <1>2

LEMMA ContentFilling ==
  ASSUME NEW s, Filling(s), s.created, s.state # "Reasoning", s.calls = << >>,
         s.texted => s.contentStarted
  PROVE  LET t == ProcessContentDelta(s)
         IN /\ Filling(t) /\ t.calls = << >> /\ t.completed = s.completed
            /\ t.created /\ t.contentStarted
<1>0. s \in Converters /\ s.wellFormed /\ ~s.finished /\ Reading(s)
  BY DEF Filling, Linked, Reading
<1>1. CASE s.contentStarted
  <2>1. Speaking(s)
    BY <1>1 DEF Speaking
  <2>2. IsOpen(s, "message", s.outputIdx)
    BY <2>1, CloseSpoken
  <2>3. ItemDelta(s, "message", s.outputIdx) = s
    BY <1>0, <2>2, DeltaRight
  <2>4. s.texted = TRUE
    BY <1>0, <1>1 DEF Filling, Linked, Converters
  <2>5. [s EXCEPT !.texted = TRUE] = s
    BY <1>0, <2>4 DEF Converters
  <2> QED
    BY <1>1, <2>3, <2>5 DEF ProcessContentDelta
<1>2. CASE ~s.contentStarted
  <2> DEFINE n == s.outputIdx
             u == ItemAdded(s, "message", n)
             d == [u EXCEPT !.contentStarted = TRUE]
             b == [d EXCEPT !.state = "Content"]
             r == [b EXCEPT !.texted = TRUE]
  <2>1. /\ ~s.texted /\ ~Speaking(s) /\ n = Spoken(s) /\ n \in Nat /\ Len(s.calls) = 0
        /\ Len(s.items) = n
    <3>1. ~s.texted /\ ~Speaking(s)
      BY <1>2 DEF Speaking
    <3>2. n = Spoken(s) /\ Len(s.calls) = 0
      BY <3>1, SpokenSmall DEF Filling
    <3>3. Len(s.items) = Spoken(s) + Len(s.calls)
      BY DEF Filling, Linked
    <3> QED
      BY <3>1, <3>2, <3>3, SpokenSmall
  <2>2. /\ u \in Converters
        /\ u.items = Append(s.items, [kind |-> "message", open |-> TRUE])
        /\ u.state = s.state /\ u.outputIdx = s.outputIdx
        /\ u.contentStarted = s.contentStarted
        /\ u.reasoned = s.reasoned /\ u.texted = s.texted /\ u.calls = s.calls
        /\ u.completed = s.completed /\ u.created = s.created
        /\ u.finished = s.finished /\ u.wellFormed = s.wellFormed
    <3>1. u = ItemAdded(s, "message", Len(s.items))
      BY <2>1
    <3> HIDE DEF u
    <3> QED
      BY <3>1, Appended
  <2> HIDE DEF u
  <2>3. /\ b \in Converters /\ b.items = u.items
        /\ b.outputIdx = n /\ b.created = s.created /\ b.finished = s.finished
        /\ b.wellFormed = s.wellFormed
    BY <2>2 DEF Converters, States
  <2>4. /\ r \in Converters /\ r.items = u.items /\ r.state = "Content"
        /\ r.outputIdx = n /\ r.created = s.created /\ r.finished = s.finished
        /\ r.contentStarted /\ r.texted /\ r.reasoned = s.reasoned
        /\ r.calls = s.calls /\ r.completed = s.completed /\ r.wellFormed = s.wellFormed
    BY <2>2 DEF Converters, States
  <2>5. ProcessContentDelta(s) = [ItemDelta(b, "message", n) EXCEPT !.texted = TRUE]
    <3>1. [u EXCEPT !.contentStarted = TRUE, !.state = "Content"] = b
      OBVIOUS
    <3> HIDE DEF b
    <3> QED
      BY <1>2, <3>1 DEF ProcessContentDelta, u
  <2> HIDE DEF b
  <2>6. s.items \in Seq(OutputItems)
    BY <1>0 DEF Converters
  <2>7. ItemDelta(b, "message", n) = b
    <3>1. Reading(b)
      BY <1>0, <2>3 DEF Reading
    <3>2. IsOpen(b, "message", n)
      BY <2>1, <2>2, <2>3, <2>6, <3>1, LastIsOpen
    <3> QED
      BY <1>0, <2>3, <3>2, DeltaRight
  <2> HIDE DEF r
  <2>8. Spoken(r) = n + 1 /\ Speaking(r) /\ Len(r.calls) = 0
    BY <2>1, <2>4 DEF Spoken, Speaking
  <2>9. /\ Len(r.items) = n + 1
        /\ \A k \in 1 .. n : r.items[k] = s.items[k]
        /\ r.items[n + 1] = [kind |-> "message", open |-> TRUE]
    BY <2>1, <2>2, <2>4, <2>6
  <2>10. ASSUME NEW k \in 1 .. n + 1
         PROVE  r.items[k] = ItemAt(r, k)
    <3>1. CASE k = n + 1
      <4>1. (k > r.outputIdx) = TRUE /\ ~(k > Spoken(r))
        BY <2>1, <2>4, <2>8, <3>1
      <4>2. ~(k = 1 /\ r.reasoned)
        BY <2>1, <2>4, <3>1 DEF Spoken
      <4> QED
        BY <2>9, <3>1, <4>1, <4>2 DEF ItemAt
    <3>2. CASE k # n + 1
      <4>1. k \in 1 .. n
        BY <2>1, <3>2
      <4>2. ~(k > Spoken(r)) /\ ~(k > Spoken(s)) /\ r.outputIdx = s.outputIdx
        BY <2>1, <2>4, <2>8, <4>1
      <4>3. ItemAt(r, k) = ItemAt(s, k)
        BY <2>4, <4>2 DEF ItemAt
      <4>4. s.items[k] = ItemAt(s, k)
        BY <2>1, <4>1 DEF Filling, Linked
      <4> QED
        BY <2>9, <4>1, <4>3, <4>4
    <3> QED
      BY <3>1, <3>2
  <2>11. Linked(r)
    <3>1. Len(r.items) = Spoken(r) + Len(r.calls)
      BY <2>1, <2>8, <2>9
    <3>2. \A k \in 1 .. Len(r.items) : r.items[k] = ItemAt(r, k)
      BY <2>9, <2>10
    <3> QED
      BY <1>0, <2>4, <3>1, <3>2 DEF Linked
  <2>12. r.outputIdx = Spoken(r) - 1
    BY <2>1, <2>4, <2>8
  <2>13. Filling(r)
    BY <2>8, <2>11, <2>12 DEF Filling
  <2> QED
    BY <2>4, <2>5, <2>7, <2>13 DEF r
<1> QED
  BY <1>1, <1>2

LEMMA BeginCallFilling ==
  ASSUME NEW s, Filling(s), s.created, ~Speaking(s)
  PROVE  LET t == BeginCall(s)
         IN /\ Filling(t) /\ t.calls = Append(s.calls, 0) /\ t.completed = s.completed
            /\ t.created /\ ~Speaking(t) /\ t.state = s.state
            /\ t.reasoned = s.reasoned /\ t.texted = s.texted
<1> DEFINE n == Len(s.items)
           u == ItemAdded(s, "call", n)
           r == [u EXCEPT !.calls = Append(u.calls, 0)]
<1>1. /\ s \in Converters /\ s.wellFormed /\ ~s.finished /\ s.state # "Initial"
      /\ s.outputIdx = Spoken(s) /\ n = Spoken(s) + Len(s.calls)
      /\ s.state # "Reasoning" /\ ~s.contentStarted
  BY SpokenSmall DEF Filling, Linked, Speaking
<1>2. s.items \in Seq(OutputItems) /\ s.calls \in Seq(0 .. Garbled) /\ n \in Nat
  BY <1>1 DEF Converters
<1>3. BeginCall(s) = r
  <2>1. s.outputIdx + Len(s.calls) = n
    BY <1>1
  <2> QED
    BY <2>1 DEF BeginCall
<1>4. /\ u \in Converters
      /\ u.items = Append(s.items, [kind |-> "call", open |-> TRUE])
      /\ u.state = s.state /\ u.outputIdx = s.outputIdx
      /\ u.contentStarted = s.contentStarted
      /\ u.reasoned = s.reasoned /\ u.texted = s.texted /\ u.calls = s.calls
      /\ u.completed = s.completed /\ u.created = s.created
      /\ u.finished = s.finished /\ u.wellFormed = s.wellFormed
  BY Appended
<1> HIDE DEF u
<1>5. /\ r \in Converters /\ r.items = u.items /\ r.calls = Append(s.calls, 0)
      /\ r.state = s.state /\ r.outputIdx = s.outputIdx
      /\ r.contentStarted = s.contentStarted
      /\ r.reasoned = s.reasoned /\ r.texted = s.texted
      /\ r.completed = s.completed /\ r.created = s.created
      /\ r.finished = s.finished /\ r.wellFormed = s.wellFormed
  <2>1. Append(u.calls, 0) \in Seq(0 .. Garbled)
    <3>1. 0 \in 0 .. Garbled
      BY ConverterAssumption DEF Garbled
    <3> QED
      BY <1>2, <1>4, <3>1
  <2> QED
    BY <1>4, <2>1 DEF Converters
<1> HIDE DEF r
<1>6. ~Speaking(r) /\ Spoken(r) = Spoken(s) /\ \A k : ItemAt(r, k) = ItemAt(s, k)
  BY <1>1, <1>5, SameItems DEF Speaking
<1>7. Len(r.calls) = Len(s.calls) + 1
  BY <1>2, <1>5
<1>8. Len(r.items) = n + 1 /\ \A k \in 1 .. n : r.items[k] = s.items[k]
  BY <1>2, <1>4, <1>5
<1>9. r.items[n + 1] = [kind |-> "call", open |-> TRUE]
  BY <1>2, <1>4, <1>5
<1>10. ASSUME NEW k \in 1 .. n + 1
       PROVE  r.items[k] = ItemAt(r, k)
  <2>1. CASE k = n + 1
    <3>1. (k > s.outputIdx) = TRUE /\ k > Spoken(s)
      BY <1>1, <1>2, <2>1, SpokenSmall
    <3>2. ItemAt(s, k) = [kind |-> "call", open |-> TRUE]
      BY <3>1 DEF ItemAt
    <3> QED
      BY <1>6, <1>9, <2>1, <3>2
  <2>2. CASE k # n + 1
    <3>1. k \in 1 .. n
      BY <1>2, <2>2
    <3>2. s.items[k] = ItemAt(s, k)
      BY <3>1 DEF Filling, Linked
    <3> QED
      BY <1>6, <1>8, <3>1, <3>2
  <2> QED
    BY <2>1, <2>2
<1>11. Linked(r)
  <2>1. Len(r.items) = Spoken(r) + Len(r.calls)
    BY <1>1, <1>2, <1>6, <1>7, <1>8, SpokenSmall
  <2>2. \A k \in 1 .. Len(r.items) : r.items[k] = ItemAt(r, k)
    BY <1>8, <1>10
  <2> QED
    BY <1>1, <1>5, <1>6, <2>1, <2>2 DEF Linked
<1>12. Filling(r)
  BY <1>1, <1>5, <1>6, <1>11, SpokenSmall DEF Filling
<1> QED
  BY <1>3, <1>5, <1>6, <1>12

(* Arguments only change the argument count of the last call.              *)
LEMMA ArgumentsFilling ==
  ASSUME NEW s, Filling(s), s.created, ~Speaking(s), s.calls # << >>,
         NEW tc, Added(s.calls[Len(s.calls)], tc) \in 0 .. Garbled
  PROVE  LET t == AddArguments(s, tc)
             n == Len(s.calls)
         IN /\ Filling(t) /\ t.calls = [s.calls EXCEPT ![n] = Added(s.calls[n], tc)]
            /\ t.completed = s.completed /\ t.created /\ ~Speaking(t) /\ t.state = s.state
            /\ t.reasoned = s.reasoned /\ t.texted = s.texted
<1> DEFINE n == Len(s.calls)
           x == Added(s.calls[n], tc)
           q == [s.calls EXCEPT ![n] = x]
           r == [s EXCEPT !.calls = q]
<1>1. /\ s \in Converters /\ s.wellFormed /\ ~s.finished
      /\ s.outputIdx = Spoken(s) /\ Len(s.items) = Spoken(s) + n
      /\ s.state # "Reasoning" /\ ~s.contentStarted
  BY SpokenSmall DEF Filling, Linked, Speaking
<1>2. s.calls \in Seq(0 .. Garbled) /\ n \in Nat /\ n > 0
  <2>1. s.calls \in Seq(0 .. Garbled)
    BY <1>1 DEF Converters
  <2> QED
    BY <2>1
<1>3. x \in 0 .. Garbled
  OBVIOUS
<1> HIDE DEF x
<1>4. q \in Seq(0 .. Garbled) /\ Len(q) = n
  BY <1>2, <1>3
<1>5. CASE x = s.calls[n]
  <2>1. q = s.calls
    BY <1>2, <1>5
  <2>2. AddArguments(s, tc) = s
    BY <1>5 DEF AddArguments, x
  <2> QED
    BY <2>1, <2>2 DEF x
<1>6. CASE x # s.calls[n]
  <2>1. IsOpen(s, "call", s.outputIdx + n - 1)
    <3> DEFINE k == s.outputIdx + n
    <3>1. k \in 1 .. Len(s.items) /\ k > s.outputIdx /\ k > Spoken(s)
      BY <1>1, <1>2, SpokenSmall
    <3>2. ItemAt(s, k).kind = "call"
      BY <3>1 DEF ItemAt
    <3>3. k - 1 = s.outputIdx + n - 1 /\ Linked(s)
      BY <1>1, <1>2, SpokenSmall DEF Filling
    <3> HIDE DEF k
    <3>4. IsOpen(s, ItemAt(s, k).kind, k - 1)
      BY <3>1, <3>3, OpensAt
    <3> QED
      BY <3>2, <3>3, <3>4
  <2>2. ItemDelta(s, "call", s.outputIdx + n - 1) = s
    BY <1>1, <2>1, DeltaRight
  <2>3. AddArguments(s, tc) = [s EXCEPT !.calls[n] = x]
    BY <1>6, <2>2 DEF AddArguments, x
  <2>4. AddArguments(s, tc) = r
    BY <2>3
  <2> HIDE DEF q
  <2>5. /\ r \in Converters /\ r.items = s.items /\ r.calls = q
        /\ r.state = s.state /\ r.outputIdx = s.outputIdx
        /\ r.contentStarted = s.contentStarted
        /\ r.reasoned = s.reasoned /\ r.texted = s.texted
        /\ r.completed = s.completed /\ r.created = s.created
        /\ r.finished = s.finished /\ r.wellFormed = s.wellFormed
    BY <1>1, <1>4 DEF Converters
  <2> HIDE DEF r
  <2>6. ~Speaking(r) /\ Spoken(r) = Spoken(s) /\ \A k : ItemAt(r, k) = ItemAt(s, k)
    BY <1>1, <2>5, SameItems DEF Speaking
  <2>7. Linked(r)
    <3>1. s.state # "Initial" /\ \A k \in 1 .. Len(s.items) : s.items[k] = ItemAt(s, k)
      BY DEF Filling, Linked
    <3>2. Len(r.items) = Spoken(r) + Len(r.calls)
      BY <1>1, <1>4, <2>5, <2>6
    <3> QED
      BY <1>1, <2>5, <2>6, <3>1, <3>2 DEF Linked
  <2>8. Filling(r)
    BY <1>1, <2>5, <2>6, <2>7, SpokenSmall DEF Filling
  <2> QED
    BY <2>4, <2>5, <2>6, <2>8 DEF q, x
<1> QED
  BY <1>5, <1>6

-----------------------------------------------------------------------------
(* finish_tool_calls.                                                      *)

RepairedCalls(seq) == [i \in 1 .. Len(seq) |-> Repaired(seq[i])]

LEMMA RepairIsArgs ==
  ASSUME NEW seq \in Seq(0 .. Garbled)
  PROVE  RepairedCalls(seq) \in Seq(0 .. Garbled) /\ Len(RepairedCalls(seq)) = Len(seq)
<1>1. ASSUME NEW i \in 1 .. Len(seq) PROVE Repaired(seq[i]) \in 0 .. Garbled
  <2>1. seq[i] \in 0 .. Garbled
    <3>1. Garbled \in Nat
      BY ConverterAssumption DEF Garbled
    <3> HIDE DEF Garbled
    <3> QED
      BY <1>1, <3>1
  <2>2. ArgPieces \in 0 .. Garbled
    BY ConverterAssumption DEF Garbled
  <2> QED
    BY <2>1, <2>2 DEF Repaired
<1> QED
  BY <1>1 DEF RepairedCalls

(* Every call is open until then: its place is outputIdx and its number.   *)
LEMMA CallIsOpen ==
  ASSUME NEW s, Filling(s), ~Speaking(s), NEW i \in 1 .. Len(s.calls)
  PROVE  IsOpen(s, "call", s.outputIdx + i - 1)
<1> DEFINE k == s.outputIdx + i
<1>1. /\ s.outputIdx = Spoken(s) /\ Len(s.items) = Spoken(s) + Len(s.calls)
      /\ Len(s.calls) \in Nat /\ Linked(s) /\ s.created
  <2>1. s.calls \in Seq(0 .. Garbled)
    BY DEF Filling, Linked, Converters
  <2> QED
    BY <2>1, SpokenSmall DEF Filling, Linked
<1>2. k \in 1 .. Len(s.items) /\ k > s.outputIdx /\ k > Spoken(s)
  BY <1>1, SpokenSmall
<1>3. ItemAt(s, k).kind = "call"
  BY <1>2 DEF ItemAt
<1>4. k - 1 = s.outputIdx + i - 1
  BY <1>1, SpokenSmall
<1> HIDE DEF k
<1>5. IsOpen(s, ItemAt(s, k).kind, k - 1)
  BY <1>1, <1>2, OpensAt
<1> QED
  BY <1>3, <1>4, <1>5

LEMMA RepairFilling ==
  ASSUME NEW s, Filling(s), ~Speaking(s)
  PROVE  LET t == RepairCalls(s)
         IN /\ Filling(t) /\ t.calls = RepairedCalls(s.calls) /\ t.completed = s.completed
            /\ t.created = s.created /\ ~Speaking(t) /\ t.state = s.state
            /\ t.reasoned = s.reasoned /\ t.texted = s.texted
<1> DEFINE q == RepairedCalls(s.calls)
           r == [s EXCEPT !.calls = q]
           right == \A i \in 1 .. Len(s.calls) :
                      \/ Repaired(s.calls[i]) = s.calls[i]
                      \/ IsOpen(s, "call", s.outputIdx + i - 1)
<1>1. /\ s \in Converters /\ s.wellFormed /\ ~s.finished
      /\ s.outputIdx = Spoken(s) /\ Len(s.items) = Spoken(s) + Len(s.calls)
      /\ s.state # "Reasoning" /\ ~s.contentStarted
  BY SpokenSmall DEF Filling, Linked, Speaking
<1>2. q \in Seq(0 .. Garbled) /\ Len(q) = Len(s.calls)
  <2>1. s.calls \in Seq(0 .. Garbled)
    BY <1>1 DEF Converters
  <2> QED
    BY <2>1, RepairIsArgs
<1>3. right = TRUE
  BY CallIsOpen
<1>4. RepairCalls(s) = r
  <2>1. Note(s, right) = s
    BY <1>1, <1>3, NotedRight
  <2> HIDE DEF right
  <2> QED
    BY <2>1 DEF RepairCalls, RepairedCalls, right
<1> HIDE DEF q
<1>5. /\ r \in Converters /\ r.items = s.items /\ r.calls = q
      /\ r.state = s.state /\ r.outputIdx = s.outputIdx
      /\ r.contentStarted = s.contentStarted
      /\ r.reasoned = s.reasoned /\ r.texted = s.texted
      /\ r.completed = s.completed /\ r.created = s.created
      /\ r.finished = s.finished /\ r.wellFormed = s.wellFormed
  BY <1>1, <1>2 DEF Converters
<1> HIDE DEF r
<1>6. ~Speaking(r) /\ Spoken(r) = Spoken(s) /\ \A k : ItemAt(r, k) = ItemAt(s, k)
  BY <1>1, <1>5, SameItems DEF Speaking
<1>7. Linked(r)
  <2>1. \A k \in 1 .. Len(s.items) : s.items[k] = ItemAt(s, k)
    BY DEF Filling, Linked
  <2>2. Len(r.items) = Spoken(r) + Len(r.calls)
    BY <1>1, <1>2, <1>5, <1>6
  <2>3. s.calls = << >> => q = << >>
    BY <1>2
  <2>4. /\ s.created <=> s.state # "Initial"
        /\ s.state = "Initial" => Spoken(s) = 0 /\ s.calls = << >> /\ ~s.contentStarted
    BY DEF Filling, Linked
  <2> QED
    BY <1>1, <1>5, <1>6, <2>1, <2>2, <2>3, <2>4 DEF Linked
<1>8. Filling(r)
  BY <1>1, <1>5, <1>6, <1>7, SpokenSmall DEF Filling
<1> QED
  BY <1>4, <1>5, <1>6, <1>8 DEF q

LEMMA DoneFilled ==
  ASSUME NEW s, Filling(s), ~Speaking(s)
  PROVE  LET t == CallsDone(s)
         IN /\ Filled(t) /\ t.calls = s.calls /\ t.completed = s.completed
            /\ t.created = s.created /\ t.reasoned = s.reasoned /\ t.texted = s.texted
            /\ t.state = s.state
<1> DEFINE numbers == {s.outputIdx + i - 1 : i \in 1 .. Len(s.calls)}
           closed == {k \in 1 .. Len(s.items) : k - 1 \in numbers /\ IsOpen(s, "call", k - 1)}
           x == [k \in 1 .. Len(s.items) |-> [s.items[k] EXCEPT !.open = @ /\ k \notin closed]]
           n == s.outputIdx + Len(s.calls)
           u == [s EXCEPT !.items = x]
           r == [u EXCEPT !.outputIdx = n]
           right == \A m \in numbers : IsOpen(s, "call", m)
<1>1. /\ s \in Converters /\ s.wellFormed /\ ~s.finished
      /\ s.outputIdx = Spoken(s) /\ Len(s.items) = Spoken(s) + Len(s.calls)
      /\ s.state # "Reasoning" /\ ~s.contentStarted /\ Linked(s)
  BY SpokenSmall DEF Filling, Linked, Speaking
<1>2. s.items \in Seq(OutputItems) /\ Len(s.calls) \in Nat
  BY <1>1 DEF Converters
<1>3. n = Len(s.items) /\ n \in Nat
  BY <1>1, <1>2
<1>4. right = TRUE
  BY CallIsOpen
<1>5. CallsDone(s) = r
  <2>1. Note(s, right) = s
    BY <1>1, <1>4, NotedRight
  <2>2. CallsDone(s) = [Note(s, right) EXCEPT !.items = x, !.outputIdx = n]
    <3> HIDE DEF right, x
    <3>1. CallsDone(s) = [Note(s, right) EXCEPT !.items = x,
                                                !.outputIdx = @ + Len(s.calls)]
      BY DEF CallsDone, right, x
    <3>2. CallsDone(s) = [s EXCEPT !.items = x, !.outputIdx = @ + Len(s.calls)]
      BY <2>1, <3>1
    <3>3. [s EXCEPT !.items = x, !.outputIdx = @ + Len(s.calls)] =
            [s EXCEPT !.items = x, !.outputIdx = n]
      BY <1>1 DEF Converters
    <3> QED
      BY <2>1, <3>2, <3>3
  <2> HIDE DEF x, right
  <2> QED
    BY <2>1, <2>2
<1>6. ASSUME NEW k \in 1 .. Len(s.items)
      PROVE  /\ x[k] = [kind |-> ItemAt(s, k).kind, open |-> FALSE]
             /\ x[k] \in OutputItems
  <2>1. s.items[k] = ItemAt(s, k) /\ s.items[k] \in OutputItems
    BY <1>1, <1>2 DEF Linked
  <2>2. x[k] = [s.items[k] EXCEPT !.open = s.items[k].open /\ k \notin closed]
    OBVIOUS
  <2>3. (s.items[k].open /\ k \notin closed) = FALSE
    <3>1. CASE k > s.outputIdx
      <4>1. PICK i \in 1 .. Len(s.calls) : k = s.outputIdx + i
        <5>1. k - s.outputIdx \in 1 .. Len(s.calls)
          BY <1>1, <1>2, <3>1, SpokenSmall
        <5> QED
          BY <1>1, <5>1, SpokenSmall
      <4>2. k - 1 = s.outputIdx + i - 1
        BY <1>1, <4>1, SpokenSmall
      <4>3. IsOpen(s, "call", k - 1)
        BY <4>1, <4>2, CallIsOpen
      <4> QED
        BY <4>2, <4>3
    <3>2. CASE ~(k > s.outputIdx)
      BY <2>1, <3>2, ItemAtOpen
    <3> QED
      BY <3>1, <3>2
  <2> HIDE DEF closed, x
  <2>4. x[k] = [s.items[k] EXCEPT !.open = FALSE]
    BY <2>2, <2>3
  <2>5. [s.items[k] EXCEPT !.open = FALSE] = [kind |-> s.items[k].kind, open |-> FALSE]
    BY <2>1, ClosedItem
  <2>6. [kind |-> s.items[k].kind, open |-> FALSE] \in OutputItems
    BY <2>1 DEF OutputItems
  <2> QED
    BY <2>1, <2>4, <2>5, <2>6
<1>7. x \in Seq(OutputItems) /\ Len(x) = Len(s.items)
  <2>1. x = [k \in 1 .. Len(s.items) |-> x[k]]
    OBVIOUS
  <2>2. Len(s.items) \in Nat
    BY <1>2
  <2> HIDE DEF x, closed
  <2>3. x \in [1 .. Len(s.items) -> OutputItems]
    BY <1>6, <2>1
  <2> QED
    BY <2>2, <2>3
<1> HIDE DEF x
<1>8. u \in Converters
  BY <1>1, <1>7, ItemsPut
<1>9. /\ r \in Converters /\ r.items = x /\ r.calls = s.calls
      /\ r.state = s.state /\ r.outputIdx = n
      /\ r.contentStarted = s.contentStarted
      /\ r.reasoned = s.reasoned /\ r.texted = s.texted
      /\ r.completed = s.completed /\ r.created = s.created
      /\ r.finished = s.finished /\ r.wellFormed = s.wellFormed
  BY <1>1, <1>3, <1>8 DEF Converters
<1> HIDE DEF r, n
<1>10. Spoken(r) = Spoken(s) /\ ~Speaking(r)
  BY <1>1, <1>9, SameItems DEF Speaking
<1>11. ASSUME NEW k \in 1 .. Len(s.items)
       PROVE  x[k] = ItemAt(r, k)
  <2>1. ~(k > r.outputIdx)
    BY <1>3, <1>9
  <2>2. ItemAt(r, k).kind = ItemAt(s, k).kind
    BY <1>9, <1>10 DEF ItemAt
  <2> QED
    BY <1>6, <2>1, <2>2, ItemAtClosed
<1>12. Linked(r)
  BY <1>1, <1>7, <1>9, <1>10, <1>11 DEF Linked
<1> QED
  BY <1>3, <1>5, <1>7, <1>9, <1>10, <1>12 DEF Filled

(* finish_reasoning, finish_content and finish_tool_calls in a row: every  *)
(* item is closed.                                                         *)
LEMMA FinishAllFilled ==
  ASSUME NEW s, Filling(s)
  PROVE  LET t == FinishAll(s)
         IN /\ Filled(t) /\ t.calls = RepairedCalls(s.calls) /\ t.completed = s.completed
            /\ t.created = s.created /\ t.reasoned = s.reasoned /\ t.texted = s.texted
            /\ t.state = IF s.state = "Reasoning" THEN "InProgress" ELSE s.state
<1> DEFINE a == FinishReasoning(s)
           b == FinishContent(a)
           d == RepairCalls(b)
<1>1. /\ Filling(a) /\ a.calls = s.calls /\ a.completed = s.completed /\ a.created = s.created
      /\ a.reasoned = s.reasoned /\ a.texted = s.texted
      /\ a.state = IF s.state = "Reasoning" THEN "InProgress" ELSE s.state
  BY ReasoningClosed
<1> HIDE DEF a
<1>2. /\ Filling(b) /\ b.calls = a.calls /\ b.completed = a.completed /\ b.created = a.created
      /\ b.reasoned = a.reasoned /\ b.texted = a.texted /\ b.state = a.state
      /\ ~b.contentStarted
  BY <1>1, ContentClosed
<1> HIDE DEF b
<1>3. ~Speaking(b)
  BY <1>1, <1>2 DEF Speaking
<1>4. /\ Filling(d) /\ d.calls = RepairedCalls(b.calls) /\ d.completed = b.completed
      /\ d.created = b.created /\ ~Speaking(d) /\ d.state = b.state
      /\ d.reasoned = b.reasoned /\ d.texted = b.texted
  BY <1>2, <1>3, RepairFilling
<1> HIDE DEF d
<1>5. LET t == CallsDone(d)
      IN /\ Filled(t) /\ t.calls = d.calls /\ t.completed = d.completed
         /\ t.created = d.created /\ t.reasoned = d.reasoned /\ t.texted = d.texted
         /\ t.state = d.state
  BY <1>4, DoneFilled
<1>6. FinishAll(s) = CallsDone(d)
  BY DEF FinishAll, FinishToolCalls, a, b, d
<1> QED
  BY <1>1, <1>2, <1>4, <1>5, <1>6

(* The array that response.completed repeats.                              *)
LEMMA OutputIsItems ==
  ASSUME NEW s, Filled(s)
  PROVE  FinalOutput(s) = [i \in 1 .. Len(s.items) |-> s.items[i].kind]
<1> DEFINE r == IF s.reasoned THEN <<"reasoning">> ELSE << >>
           m == IF s.texted THEN <<"message">> ELSE << >>
           q == [i \in 1 .. Len(s.calls) |-> "call"]
           Kind == {"reasoning", "message", "call"}
           n == Spoken(s)
           f == r \o m \o q
<1>1. /\ s \in Converters /\ Len(s.items) = n + Len(s.calls) /\ Len(s.calls) \in Nat
      /\ \A k \in 1 .. Len(s.items) : s.items[k] = ItemAt(s, k)
  BY DEF Filled, Linked, Converters
<1>2. n \in 0 .. 2
  BY SpokenSmall
<1>3. r \o m \in Seq(Kind) /\ Len(r \o m) = n
  <2>1. /\ <<"reasoning">> \in Seq(Kind) /\ <<"message">> \in Seq(Kind) /\ << >> \in Seq(Kind)
        /\ Len(<<"reasoning">>) = 1 /\ Len(<<"message">>) = 1
    OBVIOUS
  <2> HIDE DEF Kind
  <2>2. CASE s.reasoned /\ s.texted
    <3>1. Len(<<"reasoning">> \o <<"message">>) = 2
      BY <2>1
    <3> QED
      BY <2>1, <2>2, <3>1 DEF Spoken
  <2>3. CASE s.reasoned /\ ~s.texted
    BY <2>1, <2>3 DEF Spoken
  <2>4. CASE ~s.reasoned /\ s.texted
    BY <2>1, <2>4 DEF Spoken
  <2>5. CASE ~s.reasoned /\ ~s.texted
    BY <2>1, <2>5 DEF Spoken
  <2> QED
    BY <2>2, <2>3, <2>4, <2>5
<1>4. \A k \in 1 .. n : (r \o m)[k] = IF k = 1 /\ s.reasoned THEN "reasoning" ELSE "message"
  BY <1>2 DEF Spoken
<1>5. q \in Seq(Kind) /\ Len(q) = Len(s.calls) /\ \A i \in 1 .. Len(s.calls) : q[i] = "call"
  BY <1>1
<1> HIDE DEF r, m, q, Kind, n
<1> DEFINE p == r \o m
<1> HIDE DEF p
<1>6. /\ p \o q \in Seq(Kind) /\ Len(p \o q) = n + Len(s.calls)
      /\ \A k \in 1 .. n + Len(s.calls) : (p \o q)[k] = IF k <= n THEN p[k] ELSE q[k - n]
  BY <1>1, <1>2, <1>3, <1>5 DEF p
<1>7. ASSUME NEW k \in 1 .. n + Len(s.calls)
      PROVE  (p \o q)[k] = ItemAt(s, k).kind
  <2>1. CASE k <= n
    <3>1. k \in 1 .. n /\ ~(k > Spoken(s))
      BY <1>1, <1>2, <2>1 DEF n
    <3>2. (p \o q)[k] = IF k = 1 /\ s.reasoned THEN "reasoning" ELSE "message"
      BY <1>4, <1>6, <2>1, <3>1 DEF p
    <3> QED
      BY <3>1, <3>2 DEF ItemAt
  <2>2. CASE ~(k <= n)
    <3>1. k > Spoken(s) /\ k - n \in 1 .. Len(s.calls)
      BY <1>1, <1>2, <2>2 DEF n
    <3>2. (p \o q)[k] = "call"
      BY <1>5, <1>6, <2>2, <3>1
    <3> QED
      BY <3>1, <3>2 DEF ItemAt
  <2> QED
    BY <2>1, <2>2
<1>8. FinalOutput(s) = p \o q
  BY DEF FinalOutput, p, r, m, q
<1>9. p \o q = [k \in 1 .. n + Len(s.calls) |-> (p \o q)[k]]
  <2> DEFINE z == p \o q
  <2>1. z \in Seq(Kind) /\ Len(z) = n + Len(s.calls)
    BY <1>6
  <2> HIDE DEF z
  <2>2. z = [k \in 1 .. Len(z) |-> z[k]]
    BY <2>1
  <2> QED
    BY <2>1, <2>2 DEF z
<1> QED
  BY <1>1, <1>7, <1>8, <1>9 DEF n

(* process_completion, of an answer that was not finished before.          *)
LEMMA CompletionFilled ==
  ASSUME NEW s, Filling(s), s.created, ~s.completed
  PROVE  LET t == ProcessCompletion(s)
         IN /\ t \in Converters /\ t.wellFormed /\ t.finished /\ t.completed /\ t.created
            /\ t.calls = RepairedCalls(s.calls) /\ t.state # "Initial"
            /\ t.state # "Reasoning" /\ ~t.contentStarted
            /\ \A i \in 1 .. Len(t.items) : ~t.items[i].open
<1> DEFINE b == [s EXCEPT !.completed = TRUE]
           d == FinishAll(b)
           r == [d EXCEPT !.finished = TRUE]
<1>1. s \in Converters
  BY DEF Filling, Linked
<1>2. /\ b \in Converters /\ b.completed /\ b.created = s.created
      /\ b.state = s.state /\ b.outputIdx = s.outputIdx /\ b.contentStarted = s.contentStarted
      /\ b.reasoned = s.reasoned /\ b.texted = s.texted /\ b.calls = s.calls
      /\ b.items = s.items /\ b.finished = s.finished /\ b.wellFormed = s.wellFormed
  BY <1>1 DEF Converters
<1> HIDE DEF b
<1>3. Filling(b)
  <2>1. Spoken(b) = Spoken(s) /\ (Speaking(b) <=> Speaking(s))
        /\ \A k : ItemAt(b, k) = ItemAt(s, k)
    BY <1>2, SameItems DEF Speaking
  <2> QED
    BY <1>2, <2>1 DEF Filling, Linked
<1>4. /\ Filled(d) /\ d.calls = RepairedCalls(s.calls) /\ d.completed /\ d.created
  BY <1>2, <1>3, FinishAllFilled
<1>5. ProcessCompletion(s) = ResponseCompleted(d, FinalOutput(d))
  BY DEF ProcessCompletion, b, d
<1> HIDE DEF d
<1>6. \A i \in 1 .. Len(d.items) : ~d.items[i].open
  <2>1. ASSUME NEW i \in 1 .. Len(d.items) PROVE ~d.items[i].open
    <3>1. d.items[i] = ItemAt(d, i) /\ ~(i > d.outputIdx)
      BY <1>4 DEF Filled, Linked
    <3> QED
      BY <3>1, ItemAtOpen
  <2> QED
    BY <2>1
<1>7. d \in Converters /\ d.wellFormed /\ Reading(d)
  BY <1>4 DEF Filled, Linked, Reading
<1>8. ResponseCompleted(d, FinalOutput(d)) = r
  <2> DEFINE right == /\ Reading(d)
                      /\ FinalOutput(d) = [i \in 1 .. Len(d.items) |-> d.items[i].kind]
                      /\ \A i \in 1 .. Len(d.items) : ~d.items[i].open
  <2>1. right = TRUE
    BY <1>4, <1>6, <1>7, OutputIsItems
  <2>2. ResponseCompleted(d, FinalOutput(d)) = [Note(d, right) EXCEPT !.finished = TRUE]
    BY DEF ResponseCompleted
  <2> HIDE DEF right
  <2> QED
    BY <1>7, <2>1, <2>2, NotedRight
<1>9. /\ r \in Converters /\ r.finished /\ r.wellFormed = d.wellFormed
      /\ r.completed = d.completed /\ r.created = d.created /\ r.calls = d.calls
      /\ r.state = d.state /\ r.contentStarted = d.contentStarted /\ r.items = d.items
  BY <1>7 DEF Converters
<1>10. d.state # "Initial" /\ d.state # "Reasoning" /\ ~d.contentStarted
  BY <1>4 DEF Filled, Linked, Speaking
<1> HIDE DEF r
<1> QED
  BY <1>4, <1>5, <1>6, <1>7, <1>8, <1>9, <1>10

-----------------------------------------------------------------------------
(* The stream and its provider.                                            *)

CallIndices == Indices \cup {NoIndex}

Providers == [rank : 0 .. 3, calls : Seq(0 .. ArgPieces),
              named : SUBSET CallIndices, nameless : SUBSET CallIndices, late : BOOLEAN]

(* An answer that is finished, or was when the rest of the stream was read.*)
Finished(s) ==
  /\ s \in Converters /\ s.finished /\ s.created
  /\ s.state # "Reasoning" /\ s.state # "Initial" /\ ~s.contentStarted
  /\ \A i \in 1 .. Len(s.items) : ~s.items[i].open

(* How far the converter is when the provider has come to rank.            *)
FillsAt(s, rank) ==
  /\ rank = 0 => /\ s.state \in {"Initial", "InProgress", "Reasoning"} /\ ~s.texted
                 /\ s.state # "Reasoning" => Spoken(s) = 0
  /\ rank = 1 => s.contentStarted
  /\ rank = 2 => ~Speaking(s) /\ s.calls # << >> /\ s.created

(* While the answer goes on, after its finish, and after convert().        *)
Answering ==
  /\ Filling(st) /\ st.calls = up.calls /\ FillsAt(st, up.rank) /\ ~st.completed
  /\ st.created \/ up.rank = 0

Complete ==
  Finished(st) /\ st.wellFormed /\ st.calls = RepairedCalls(up.calls) /\ st.completed

Ended ==
  /\ st.wellFormed \/ (up.late /\ up.calls # << >>)
  /\ \A i \in 1 .. Len(st.items) : ~st.items[i].open
  /\ st.finished <=> up.rank = 3
  /\ st.calls = RepairedCalls(up.calls)

AnswerInv ==
  api = "responses" =>
    /\ up \in Providers
    /\ up.rank < 2 => up.calls = << >>
    /\ inChunk => phase \in {"loop", "finalize"} /\ st.created
    /\ phase # "done" =>
         /\ up.rank < 3 => Answering
         /\ up.rank = 3 => Complete
         /\ up.rank = 3 => phase # "partial" /\ (phase = "finalize" => up.late /\ ~inChunk)
    /\ phase = "done" => Ended

(* A chat client and its provider.                                         *)
Passthroughs == [ids : SUBSET CallIndices, completed : BOOLEAN,
                 nameless : SUBSET CallIndices, ended : BOOLEAN, behind : BOOLEAN]

NamedInv ==
  api = "chat" =>
    /\ up \in Providers /\ pt \in Passthroughs
    /\ pt.completed \/ up.named \subseteq pt.ids
    /\ pt.nameless \subseteq up.nameless
    /\ pt.ended => pt.completed
    /\ ~pt.behind
    /\ st.wellFormed

-----------------------------------------------------------------------------
(* The provider's steps.                                                   *)

LEMMA UpstreamSets ==
  ASSUME Quirks = {}, up \in Providers,
         NEW kind \in {"reasoning", "content", "tool", "finish"},
         NEW calls \in Seq(0 .. ArgPieces), Upstream(kind, calls)
  PROVE  /\ up' \in Providers /\ up'.rank = Ranks[kind] /\ up'.calls = calls
         /\ up.rank <= Ranks[kind] /\ (up.rank = 3 => kind = "finish")
         /\ up'.late <=> kind = "finish" /\ up.rank < 3 /\ phase = "finalize"
<1> DEFINE late1 == kind = "finish" /\ up.rank < 3 /\ phase = "finalize"
           u == [up EXCEPT !.rank = Ranks[kind]]
           v == [u EXCEPT !.calls = calls]
           w == [v EXCEPT !.late = late1]
<1>1. up' = w /\ up.rank <= Ranks[kind] /\ (up.rank = 3 => kind = "finish")
  <2>1. up' = [up EXCEPT !.rank = Ranks[kind], !.calls = calls, !.late = late1]
    BY DEF Upstream
  <2>2. up.rank <= Ranks[kind] /\ (up.rank = 3 => kind = "finish")
    BY DEF Upstream
  <2> QED
    BY <2>1, <2>2
<1>2. Ranks[kind] \in 0 .. 3
  BY DEF Ranks
<1>3. late1 \in BOOLEAN
  OBVIOUS
<1> HIDE DEF late1
<1>4. w \in Providers /\ w.rank = Ranks[kind] /\ w.calls = calls /\ w.late = late1
  BY <1>2, <1>3 DEF Providers
<1> QED
  BY <1>1, <1>4 DEF late1

LEMMA FramingKeepsAnswer == ASSUME AnswerInv, Framing PROVE AnswerInv'
<1> SUFFICES ASSUME api' = "responses" PROVE AnswerInv'
  BY DEF AnswerInv
<1>1. st' = st /\ up' = up /\ api' = api /\ api = "responses"
  BY DEF Framing
<1>2. /\ Answering' <=> Answering
      /\ Complete' <=> Complete
      /\ Ended' <=> Ended
  BY <1>1 DEF Answering, Complete, Ended
<1>3. CASE NetworkEnds(IsCompleted)
  <2>1. /\ phase = "read" /\ inChunk' = inChunk
        /\ phase' = IF st.completed THEN "done" ELSE "partial"
    BY <1>1, <1>3 DEF NetworkEnds, IsCompleted
  <2>2. up \in Providers /\ ~inChunk /\ (up.rank < 2 => up.calls = << >>)
    BY <1>1, <2>1 DEF AnswerInv
  <2>3. up.rank \in 0 .. 3
    BY <2>2 DEF Providers
  <2>4. CASE up.rank = 3
    <3>1. Complete
      BY <1>1, <2>1, <2>4 DEF AnswerInv
    <3>2. phase' = "done" /\ Ended
      BY <2>1, <2>4, <3>1 DEF Complete, Ended, Finished
    <3> QED
      BY <1>1, <1>2, <2>1, <2>2, <3>2 DEF AnswerInv
  <2>5. CASE up.rank < 3
    <3>1. Answering
      BY <1>1, <2>1, <2>5 DEF AnswerInv
    <3>2. phase' = "partial"
      BY <2>1, <3>1 DEF Answering
    <3> QED
      BY <1>1, <1>2, <2>1, <2>2, <2>5, <3>1, <3>2 DEF AnswerInv
  <2> QED
    BY <2>3, <2>4, <2>5
<1>4. CASE NetworkChunk \/ NetworkTail
  <2>1. phase = "read" /\ phase' = "loop" /\ inChunk' = inChunk
    BY <1>4 DEF NetworkChunk, NetworkTail
  <2> QED
    BY <1>1, <1>2, <2>1 DEF AnswerInv
<1>5. CASE ExtractNothing \/ ExtractSkip \/ ExtractForward
  <2>1. phase = "loop" /\ phase' \in {"loop", "read"} /\ ~inChunk /\ ~inChunk'
    BY <1>5 DEF ExtractNothing, ExtractSkip, ExtractForward, InLoop
  <2> QED
    BY <1>1, <1>2, <2>1 DEF AnswerInv
<1> QED
  BY <1>3, <1>4, <1>5 DEF Framing

(* What begins a chunk.                                                    *)
LEMMA EnteredKeepsAnswer ==
  ASSUME AnswerInv, api = "responses", up.rank < 3, phase # "done",
         st' = Entered(TRUE), UNCHANGED <<api, up>>
  PROVE  Answering' /\ st'.created
<1>1. Answering /\ st' = BeginResponse(st) /\ up' = up
  BY DEF AnswerInv, Entered
<1>2. Filling(st)
  BY <1>1 DEF Answering
<1>3. /\ Filling(st') /\ st'.created /\ st'.calls = st.calls /\ st'.completed = st.completed
      /\ st'.reasoned = st.reasoned /\ st'.texted = st.texted
      /\ st'.contentStarted = st.contentStarted
      /\ st'.state = IF st.state = "Initial" THEN "InProgress" ELSE st.state
  BY <1>1, <1>2, BeginFilling
<1>4. Spoken(st') = Spoken(st) /\ (Speaking(st') <=> Speaking(st))
  BY <1>3, SameItems DEF Speaking
<1>5. FillsAt(st', up.rank)
  BY <1>1, <1>3, <1>4 DEF Answering, FillsAt
<1> QED
  BY <1>1, <1>3, <1>5 DEF Answering

LEMMA ChunkKeepsAnswer == ASSUME AnswerInv, ProcessChunk \/ ProcessRest PROVE AnswerInv'
<1> SUFFICES ASSUME api' = "responses" PROVE AnswerInv'
  BY DEF AnswerInv
<1>1. api = "responses" /\ api' = api /\ up' = up
  BY DEF ProcessChunk, ProcessRest
<1>2. up \in Providers /\ (up.rank < 2 => up.calls = << >>) /\ up.rank \in 0 .. 3
  BY <1>1 DEF AnswerInv, Providers
<1>3. CASE ProcessChunk
  <2>1. st' = BeginResponse(st) /\ st' = Entered(TRUE)
    BY <1>1, <1>3 DEF ProcessChunk, Entered
  <2>0. phase = "loop" /\ phase' = "loop" /\ inChunk'
    BY <1>3 DEF ProcessChunk, ExtractChunk, InLoop
  <2>2. CASE up.rank < 3
    <3>1. Answering' /\ st'.created
      BY <1>1, <2>0, <2>1, <2>2, EnteredKeepsAnswer
    <3> QED
      BY <1>1, <1>2, <2>0, <2>2, <3>1 DEF AnswerInv
  <2>3. CASE up.rank = 3
    <3>1. Complete
      BY <1>1, <2>0, <2>3 DEF AnswerInv
    <3>2. st' = st /\ st.created
      BY <2>1, <3>1 DEF Complete, Finished, BeginResponse
    <3>3. Complete'
      BY <1>1, <3>1, <3>2 DEF Complete
    <3> QED
      BY <1>1, <1>2, <2>0, <2>3, <3>2, <3>3 DEF AnswerInv
  <2> QED
    BY <1>2, <2>2, <2>3
<1>4. CASE ProcessRest
  <2>1. /\ phase = "partial" /\ phase' = "finalize" /\ inChunk' \in BOOLEAN
        /\ st' = Entered(inChunk')
    BY <1>4 DEF ProcessRest, ParsePartial
  <2>2. up.rank < 3 /\ Answering
    BY <1>1, <1>2, <2>1 DEF AnswerInv
  <2>3. CASE inChunk'
    <3>1. Answering' /\ st'.created
      BY <1>1, <2>1, <2>2, <2>3, EnteredKeepsAnswer DEF Entered
    <3> QED
      BY <1>1, <1>2, <2>1, <2>2, <3>1 DEF AnswerInv
  <2>4. CASE ~inChunk'
    <3>1. st' = st
      BY <2>1, <2>4 DEF Entered
    <3>2. Answering'
      BY <1>1, <2>2, <3>1 DEF Answering
    <3> QED
      BY <1>1, <1>2, <2>1, <2>2, <2>4, <3>2 DEF AnswerInv
  <2> QED
    BY <2>3, <2>4
<1> QED
  BY <1>3, <1>4

-----------------------------------------------------------------------------
(* The deltas.                                                             *)

(* A delta finds the converter filling its items.                          *)
LEMMA DeltaFinds ==
  ASSUME AnswerInv, Converting
  PROVE  /\ api = "responses" /\ api' = api /\ up \in Providers /\ up.rank \in 0 .. 3
         /\ inChunk /\ phase \in {"loop", "finalize"}
         /\ st.created /\ (up.rank < 2 => up.calls = << >>)
         /\ up.rank < 3 => Answering
         /\ up.rank = 3 => Complete /\ phase = "loop"
  BY DEF AnswerInv, Converting, Providers

LEMMA ReasoningKeepsAnswer ==
  ASSUME Quirks = {}, AnswerInv, ReasoningDelta PROVE AnswerInv'
<1>1. /\ api = "responses" /\ api' = api /\ up \in Providers /\ up.rank \in 0 .. 3
      /\ inChunk /\ phase \in {"loop", "finalize"}
      /\ st.created /\ (up.rank < 2 => up.calls = << >>)
      /\ up.rank < 3 => Answering
  BY DeltaFinds DEF ReasoningDelta
<1>2. phase' = phase /\ inChunk' = inChunk /\ st' = ProcessReasoningDelta(st)
  BY DEF ReasoningDelta, framing
<1>3. /\ up' \in Providers /\ up'.rank = 0 /\ up'.calls = up.calls /\ up.rank = 0
  <2>1. up.calls \in Seq(0 .. ArgPieces) /\ Upstream("reasoning", up.calls)
    BY <1>1 DEF ReasoningDelta, Providers
  <2>2. Ranks["reasoning"] = 0
    BY DEF Ranks
  <2> QED
    BY <1>1, <2>1, <2>2, UpstreamSets
<1>4. Answering /\ Filling(st) /\ st.calls = << >> /\ ~st.completed
  BY <1>1, <1>3 DEF Answering
<1>5. st.state = "Reasoning" \/ (st.state = "InProgress" /\ Spoken(st) = 0)
  <2>1. st.state # "Initial"
    BY <1>1, <1>4 DEF Filling, Linked
  <2> QED
    BY <1>3, <1>4, <2>1 DEF Answering, FillsAt
<1>6. /\ Filling(st') /\ st'.calls = << >> /\ st'.completed = st.completed
      /\ st'.created /\ st'.state = "Reasoning"
  BY <1>1, <1>2, <1>4, <1>5, ReasoningFilling
<1>7. FillsAt(st', 0)
  BY <1>6 DEF FillsAt, Filling, Linked
<1>8. Answering'
  BY <1>1, <1>3, <1>4, <1>6, <1>7 DEF Answering
<1> QED
  BY <1>1, <1>2, <1>3, <1>6, <1>8 DEF AnswerInv

LEMMA ContentKeepsAnswer ==
  ASSUME Quirks = {}, AnswerInv, ContentDelta PROVE AnswerInv'
<1> DEFINE a == FinishReasoning(st)
<1>1. /\ api = "responses" /\ api' = api /\ up \in Providers /\ up.rank \in 0 .. 3
      /\ inChunk /\ phase \in {"loop", "finalize"}
      /\ st.created /\ (up.rank < 2 => up.calls = << >>)
      /\ up.rank < 3 => Answering
  BY DeltaFinds DEF ContentDelta
<1>2. phase' = phase /\ inChunk' = inChunk /\ st' = ProcessContentDelta(a)
  BY DEF ContentDelta, framing
<1>3. /\ up' \in Providers /\ up'.rank = 1 /\ up'.calls = up.calls /\ up.rank \in 0 .. 1
  <2>1. up.calls \in Seq(0 .. ArgPieces) /\ Upstream("content", up.calls)
    BY <1>1 DEF ContentDelta, Providers
  <2>2. Ranks["content"] = 1
    BY DEF Ranks
  <2> QED
    BY <1>1, <2>1, <2>2, UpstreamSets
<1>4. Answering /\ Filling(st) /\ st.calls = << >> /\ ~st.completed
  BY <1>1, <1>3 DEF Answering
<1>5. /\ Filling(a) /\ a.calls = st.calls /\ a.completed = st.completed
      /\ a.created = st.created /\ a.reasoned = st.reasoned /\ a.texted = st.texted
      /\ a.contentStarted = st.contentStarted
      /\ a.state = IF st.state = "Reasoning" THEN "InProgress" ELSE st.state
  BY <1>4, ReasoningClosed
<1> HIDE DEF a
<1>6. a.state # "Reasoning" /\ (a.texted => a.contentStarted)
  BY <1>3, <1>4, <1>5 DEF Answering, FillsAt
<1>7. /\ Filling(st') /\ st'.calls = << >> /\ st'.completed = a.completed
      /\ st'.created /\ st'.contentStarted
  BY <1>1, <1>2, <1>4, <1>5, <1>6, ContentFilling
<1>8. FillsAt(st', 1)
  BY <1>7 DEF FillsAt
<1>9. Answering'
  BY <1>1, <1>3, <1>4, <1>5, <1>7, <1>8 DEF Answering
<1> QED
  BY <1>1, <1>2, <1>3, <1>7, <1>9 DEF AnswerInv

(* What a tool delta adds in regular order is what the provider sent.      *)
LEMMA AddedIsSent ==
  ASSUME NEW tc \in ToolDeltas, NEW had \in 0 .. ArgPieces,
         tc.args = "fragment" => tc.piece = had + 1,
         tc.args = "reformatted" => had \in {0, ArgPieces}
  PROVE  LET now == CASE tc.args = "none" -> had
                      [] tc.args = "fragment" -> tc.piece
                      [] OTHER -> ArgPieces
         IN now \in 0 .. ArgPieces /\ Added(had, tc) = now
<1>1. tc.args \in ArgKinds /\ tc.piece \in 1 .. ArgPieces
  BY DEF ToolDeltas
<1>2. ArgPieces \in Nat /\ ArgPieces > 0
  BY ConverterAssumption
<1>3. CASE tc.args = "none"
  BY <1>3 DEF Added
<1>4. CASE tc.args = "fragment"
  BY <1>1, <1>2, <1>4 DEF Added
<1>5. CASE tc.args = "whole"
  BY <1>1, <1>2, <1>5 DEF Added
<1>6. CASE tc.args = "reformatted"
  BY <1>1, <1>2, <1>6 DEF Added
<1> QED
  BY <1>1, <1>3, <1>4, <1>5, <1>6 DEF ArgKinds

LEMMA LastPut ==
  ASSUME NEW S, NEW seq \in Seq(S), seq # << >>, NEW x \in S
  PROVE  [seq EXCEPT ![Len(seq)] = x] \in Seq(S) /\ [seq EXCEPT ![Len(seq)] = x] # << >>
<1> DEFINE r == [seq EXCEPT ![Len(seq)] = x]
<1>1. r \in Seq(S) /\ Len(r) = Len(seq) /\ Len(seq) # 0
  OBVIOUS
<1> QED
  BY <1>1

LEMMA AppendedPut ==
  ASSUME NEW S, NEW seq \in Seq(S), NEW y \in S, NEW x \in S, NEW i, i = Len(seq) + 1
  PROVE  [Append(seq, y) EXCEPT ![i] = x] = Append(seq, x)
<1> DEFINE a == Append(seq, y)
           r == [a EXCEPT ![i] = x]
           b == Append(seq, x)
<1>1. /\ a \in Seq(S) /\ Len(a) = Len(seq) + 1 /\ Len(seq) \in Nat
      /\ \A k \in 1 .. Len(seq) : a[k] = seq[k]
  OBVIOUS
<1>2. /\ b \in Seq(S) /\ Len(b) = Len(seq) + 1 /\ b[Len(seq) + 1] = x
      /\ \A k \in 1 .. Len(seq) : b[k] = seq[k]
  OBVIOUS
<1> HIDE DEF a, b
<1>3. /\ r \in Seq(S) /\ Len(r) = Len(seq) + 1 /\ r[Len(seq) + 1] = x
      /\ \A k \in 1 .. Len(seq) : r[k] = seq[k]
  BY <1>1
<1>4. \A k \in 1 .. Len(seq) + 1 : r[k] = b[k]
  BY <1>1, <1>2, <1>3
<1> HIDE DEF r
<1>5. r = b
  BY <1>1, <1>2, <1>3, <1>4
<1> QED
  BY <1>5 DEF r, a, b

LEMMA ToolKeepsAnswer ==
  ASSUME Quirks = {}, AnswerInv, NEW tc \in ToolDeltas, ToolCallDelta(tc)
  PROVE  AnswerInv'
<1> DEFINE a == FinishReasoning(st)
           b == FinishContent(a)
           n == Len(up.calls)
           had == IF tc.id THEN 0 ELSE up.calls[n]
           now == CASE tc.args = "none" -> had
                    [] tc.args = "fragment" -> tc.piece
                    [] OTHER -> ArgPieces
           q == IF tc.id THEN Append(up.calls, now) ELSE [up.calls EXCEPT ![n] = now]
           d == IF tc.id THEN BeginCall(b) ELSE b
           m == Len(d.calls)
<1>1. /\ api = "responses" /\ api' = api /\ up \in Providers /\ up.rank \in 0 .. 3
      /\ inChunk /\ phase \in {"loop", "finalize"}
      /\ st.created /\ (up.rank < 2 => up.calls = << >>)
      /\ up.rank < 3 => Answering
  BY DeltaFinds DEF ToolCallDelta
<1>2. phase' = phase /\ inChunk' = inChunk /\ st' = AddArguments(d, tc)
  BY DEF ToolCallDelta, framing, ProcessToolCallDelta
<1>3. /\ n = 0 => tc.id
      /\ tc.args = "fragment" => tc.piece = had + 1
      /\ tc.args = "reformatted" => had \in {0, ArgPieces}
      /\ Upstream("tool", q)
  BY DEF ToolCallDelta, ToolInOrder
<1>4. ArgPieces \in Nat /\ 0 \in 0 .. ArgPieces
  BY ConverterAssumption
<1>5. up.calls \in Seq(0 .. ArgPieces) /\ n \in Nat /\ had \in 0 .. ArgPieces
  <2>1. up.calls \in Seq(0 .. ArgPieces)
    BY <1>1 DEF Providers
  <2>2. n \in Nat
    BY <2>1
  <2>3. ~tc.id => up.calls[n] \in 0 .. ArgPieces
    BY <1>3, <1>4, <2>1, <2>2
  <2> QED
    BY <1>4, <2>1, <2>2, <2>3
<1>6. now \in 0 .. ArgPieces /\ Added(had, tc) = now
  BY <1>3, <1>5, AddedIsSent
<1> HIDE DEF now
<1>7. q \in Seq(0 .. ArgPieces) /\ q # << >>
  <2>1. CASE tc.id
    BY <1>4, <1>5, <1>6, <2>1
  <2>2. CASE ~tc.id
    <3>1. q = [up.calls EXCEPT ![n] = now] /\ Len(up.calls) > 0
      BY <1>3, <1>5, <2>2
    <3> DEFINE Args == 0 .. ArgPieces
    <3>2. up.calls # << >> /\ up.calls \in Seq(Args) /\ now \in Args
      BY <1>5, <1>6, <3>1
    <3> HIDE DEF Args
    <3>3. /\ [up.calls EXCEPT ![n] = now] \in Seq(Args)
          /\ [up.calls EXCEPT ![n] = now] # << >>
      BY <3>2, LastPut
    <3> QED
      BY <3>1, <3>3 DEF Args
  <2> QED
    BY <2>1, <2>2
<1> HIDE DEF q
<1>8. up' \in Providers /\ up'.rank = 2 /\ up'.calls = q /\ up.rank \in 0 .. 2
  <2>1. Ranks["tool"] = 2
    BY DEF Ranks
  <2> QED
    BY <1>1, <1>3, <1>7, <2>1, UpstreamSets
<1>9. Answering /\ Filling(st) /\ st.calls = up.calls /\ ~st.completed
  BY <1>1, <1>8 DEF Answering
<1>10. /\ Filling(a) /\ a.calls = st.calls /\ a.completed = st.completed
       /\ a.created = st.created /\ a.reasoned = st.reasoned /\ a.texted = st.texted
       /\ a.contentStarted = st.contentStarted
       /\ a.state = IF st.state = "Reasoning" THEN "InProgress" ELSE st.state
  BY <1>9, ReasoningClosed
<1> HIDE DEF a
<1>11. /\ Filling(b) /\ b.calls = a.calls /\ b.completed = a.completed
       /\ b.created = a.created /\ ~b.contentStarted /\ b.state = a.state
  BY <1>10, ContentClosed
<1> HIDE DEF b
<1>12. ~Speaking(b) /\ b.created /\ b.calls = up.calls
  BY <1>1, <1>9, <1>10, <1>11 DEF Speaking
<1>13. /\ Filling(d) /\ d.calls = (IF tc.id THEN Append(up.calls, 0) ELSE up.calls)
       /\ d.completed = b.completed /\ d.created /\ ~Speaking(d)
  BY <1>11, <1>12, BeginCallFilling
<1> HIDE DEF d
<1>14. d.calls # << >> /\ d.calls[m] = had /\ m > 0
  <2>1. CASE tc.id
    <3>1. Append(up.calls, 0)[n + 1] = 0 /\ Len(Append(up.calls, 0)) = n + 1
      BY <1>5
    <3> QED
      BY <1>5, <1>13, <2>1, <3>1
  <2>2. CASE ~tc.id
    BY <1>3, <1>5, <1>13, <2>2
  <2> QED
    BY <2>1, <2>2
<1>15. Added(d.calls[m], tc) \in 0 .. Garbled
  BY <1>4, <1>6, <1>14 DEF Garbled
<1>16. /\ Filling(st') /\ st'.calls = [d.calls EXCEPT ![m] = Added(d.calls[m], tc)]
       /\ st'.completed = d.completed /\ st'.created /\ ~Speaking(st')
  BY <1>2, <1>13, <1>14, <1>15, ArgumentsFilling
<1>17. st'.calls = q
  <2>1. st'.calls = [d.calls EXCEPT ![m] = now]
    BY <1>6, <1>14, <1>16
  <2>2. CASE tc.id
    <3> DEFINE Args == 0 .. ArgPieces
               zero == 0
    <3>1. m = Len(up.calls) + 1 /\ d.calls = Append(up.calls, zero)
      BY <1>5, <1>13, <2>2
    <3>2. up.calls \in Seq(Args) /\ now \in Args /\ zero \in Args
      BY <1>4, <1>5, <1>6
    <3> HIDE DEF Args, zero, m
    <3>3. [Append(up.calls, zero) EXCEPT ![m] = now] = Append(up.calls, now)
      <4> DEFINE seq == up.calls
      <4>1. /\ seq \in Seq(Args) /\ now \in Args /\ zero \in Args
            /\ m = Len(seq) + 1
        BY <3>1, <3>2
      <4> HIDE DEF seq, now
      <4>2. [Append(seq, zero) EXCEPT ![m] = now] = Append(seq, now)
        BY ONLY <4>1, AppendedPut
      <4> QED
        BY <4>2 DEF seq
    <3> QED
      BY <2>1, <2>2, <3>1, <3>3 DEF q
  <2>3. CASE ~tc.id
    BY <1>13, <2>1, <2>3 DEF q
  <2> QED
    BY <2>2, <2>3
<1>18. FillsAt(st', 2)
  BY <1>7, <1>16, <1>17 DEF FillsAt
<1>19. Answering'
  BY <1>8, <1>9, <1>10, <1>11, <1>13, <1>16, <1>17, <1>18 DEF Answering
<1> QED
  BY <1>1, <1>2, <1>8, <1>16, <1>19 DEF AnswerInv

LEMMA CompletionKeepsAnswer ==
  ASSUME Quirks = {}, AnswerInv, Completion PROVE AnswerInv'
<1>1. /\ api = "responses" /\ api' = api /\ up \in Providers /\ up.rank \in 0 .. 3
      /\ inChunk /\ phase \in {"loop", "finalize"}
      /\ st.created /\ (up.rank < 2 => up.calls = << >>)
      /\ up.rank < 3 => Answering
      /\ up.rank = 3 => Complete /\ phase = "loop"
  BY DeltaFinds DEF Completion
<1>2. phase' = phase /\ ~inChunk' /\ st' = ProcessCompletion(st)
  BY DEF Completion, ChunkEnds
<1>3. /\ up' \in Providers /\ up'.rank = 3 /\ up'.calls = up.calls
      /\ up'.late <=> up.rank < 3 /\ phase = "finalize"
  <2>1. up.calls \in Seq(0 .. ArgPieces) /\ Upstream("finish", up.calls)
    BY <1>1 DEF Completion, Providers
  <2>2. Ranks["finish"] = 3
    BY DEF Ranks
  <2> QED
    BY <1>1, <2>1, <2>2, UpstreamSets
<1>4. Complete'
  <2>1. CASE up.rank < 3
    <3>1. Filling(st) /\ ~st.completed /\ st.calls = up.calls
      BY <1>1, <2>1 DEF Answering
    <3>2. /\ st' \in Converters /\ st'.wellFormed /\ st'.finished /\ st'.completed
          /\ st'.created /\ st'.calls = RepairedCalls(st.calls) /\ st'.state # "Initial"
          /\ st'.state # "Reasoning" /\ ~st'.contentStarted
          /\ \A i \in 1 .. Len(st'.items) : ~st'.items[i].open
      BY <1>1, <1>2, <3>1, CompletionFilled
    <3> QED
      BY <1>3, <3>1, <3>2 DEF Complete, Finished
  <2>2. CASE up.rank = 3
    <3>1. Complete
      BY <1>1, <2>2
    <3>2. st' = st
      BY <1>2, <3>1 DEF ProcessCompletion, Complete
    <3> QED
      BY <1>3, <3>1, <3>2 DEF Complete
  <2> QED
    BY <1>1, <2>1, <2>2
<1>5. phase' = "finalize" => up'.late
  BY <1>1, <1>2, <1>3
<1> QED
  BY <1>1, <1>2, <1>3, <1>4, <1>5 DEF AnswerInv

LEMMA ReturnKeepsAnswer == ASSUME AnswerInv, ProcessReturns PROVE AnswerInv'
<1>1. /\ api = "responses" /\ api' = api /\ up \in Providers /\ up.rank \in 0 .. 3
      /\ inChunk /\ phase \in {"loop", "finalize"}
      /\ st.created /\ (up.rank < 2 => up.calls = << >>)
      /\ up.rank < 3 => Answering
      /\ up.rank = 3 => Complete /\ phase = "loop"
  BY DeltaFinds DEF ProcessReturns
<1>2. phase' = phase /\ ~inChunk' /\ st' = st /\ up' = up
  BY DEF ProcessReturns, ChunkEnds
<1>3. (Answering' <=> Answering) /\ (Complete' <=> Complete)
  BY <1>2 DEF Answering, Complete
<1> QED
  BY <1>1, <1>2, <1>3 DEF AnswerInv

-----------------------------------------------------------------------------
(* finalize.                                                               *)

LEMMA RepairedOnce ==
  ASSUME NEW seq \in Seq(0 .. Garbled)
  PROVE  RepairedCalls(RepairedCalls(seq)) = RepairedCalls(seq)
<1>1. ASSUME NEW x PROVE Repaired(Repaired(x)) = Repaired(x)
  BY ConverterAssumption DEF Repaired
<1>2. Len(RepairedCalls(seq)) = Len(seq)
  BY RepairIsArgs
<1> QED
  BY <1>1, <1>2 DEF RepairedCalls

(* Of an answer that is finished, the calls are done a second time.        *)
LEMMA FinishedAgain ==
  ASSUME NEW s, Finished(s)
  PROVE  LET t == FinishAll(s)
         IN /\ t.finished /\ t.calls = RepairedCalls(s.calls)
            /\ \A i \in 1 .. Len(t.items) : ~t.items[i].open
            /\ s.wellFormed /\ s.calls = << >> => t.wellFormed
<1> DEFINE good == s.wellFormed /\ \A i \in 1 .. Len(s.calls) :
                      \/ Repaired(s.calls[i]) = s.calls[i]
                      \/ IsOpen(s, "call", s.outputIdx + i - 1)
           u == [s EXCEPT !.wellFormed = good]
           d == [u EXCEPT !.calls = RepairedCalls(s.calls)]
           numbers == {d.outputIdx + i - 1 : i \in 1 .. Len(d.calls)}
           closed == {k \in 1 .. Len(d.items) : k - 1 \in numbers /\ IsOpen(d, "call", k - 1)}
           x == [k \in 1 .. Len(d.items) |-> [d.items[k] EXCEPT !.open = @ /\ k \notin closed]]
           right == d.wellFormed /\ \A m \in numbers : IsOpen(d, "call", m)
           v == [d EXCEPT !.wellFormed = right]
           w == [v EXCEPT !.items = x]
           z == [w EXCEPT !.outputIdx = @ + Len(d.calls)]
<1>1. s \in Converters /\ s.calls \in Seq(0 .. Garbled)
  BY DEF Finished, Converters
<1>2. FinishAll(s) = CallsDone(RepairCalls(s))
  BY DEF FinishAll, FinishToolCalls, FinishReasoning, FinishContent, Finished
<1>3. RepairCalls(s) = d
  BY DEF RepairCalls, Note, RepairedCalls
<1>4. RepairedCalls(s.calls) \in Seq(0 .. Garbled) /\ Len(RepairedCalls(s.calls)) = Len(s.calls)
  BY <1>1, RepairIsArgs
<1>5. /\ d \in Converters /\ d.items = s.items /\ d.finished = s.finished
      /\ d.calls = RepairedCalls(s.calls) /\ (d.wellFormed <=> good)
  <2> DEFINE q == RepairedCalls(s.calls)
  <2>1. good \in BOOLEAN
    BY <1>1 DEF Converters
  <2> HIDE DEF good, q
  <2>2. /\ u \in Converters /\ u.items = s.items /\ u.finished = s.finished
        /\ u.wellFormed = good
    BY <1>1, <2>1 DEF Converters
  <2> HIDE DEF u
  <2>3. q \in Seq(0 .. Garbled) /\ d = [u EXCEPT !.calls = q]
    BY <1>4 DEF q
  <2> HIDE DEF d
  <2>4. /\ d \in Converters /\ d.items = u.items /\ d.finished = u.finished
        /\ d.calls = q /\ d.wellFormed = u.wellFormed
    BY <2>2, <2>3 DEF Converters
  <2> QED
    BY <2>2, <2>4 DEF q
<1>6. CallsDone(d) = z
  BY DEF CallsDone, Note
<1> HIDE DEF d
<1>7. x \in Seq(OutputItems) /\ Len(x) = Len(s.items)
      /\ \A i \in 1 .. Len(s.items) : ~x[i].open
  <2>1. d.items \in Seq(OutputItems) /\ Len(d.items) \in Nat
    BY <1>5 DEF Converters
  <2>2. ASSUME NEW k \in 1 .. Len(d.items)
        PROVE  x[k] \in OutputItems /\ ~x[k].open
    <3>1. d.items[k] \in OutputItems /\ ~d.items[k].open
      BY <1>5, <2>1, <2>2 DEF Finished
    <3>2. (d.items[k].open /\ k \notin closed) = FALSE
      BY <3>1
    <3>3. x[k] = [d.items[k] EXCEPT !.open = FALSE]
      BY <2>2, <3>2
    <3> HIDE DEF x
    <3> QED
      BY <3>1, <3>3 DEF OutputItems
  <2>3. x = [k \in 1 .. Len(d.items) |-> x[k]]
    OBVIOUS
  <2> HIDE DEF x
  <2>4. x \in [1 .. Len(d.items) -> OutputItems]
    BY <2>2, <2>3
  <2> QED
    BY <1>5, <2>1, <2>2, <2>4
<1> HIDE DEF x
<1>8. right \in BOOLEAN
  BY <1>5 DEF Converters
<1> HIDE DEF right
<1>9. /\ z.finished = d.finished /\ z.calls = d.calls /\ z.items = x /\ z.wellFormed = right
  BY <1>5, <1>7, <1>8 DEF Converters
<1>10. s.wellFormed /\ s.calls = << >> => right
  BY <1>4, <1>5 DEF right
<1> HIDE DEF z
<1> QED
  BY <1>2, <1>3, <1>5, <1>6, <1>7, <1>9, <1>10 DEF Finished

LEMMA FinalizeKeepsAnswer == ASSUME AnswerInv, FinalizeStream PROVE AnswerInv'
<1> SUFFICES ASSUME api' = "responses" PROVE AnswerInv'
  BY DEF AnswerInv
<1>1. /\ api = "responses" /\ api' = api /\ up' = up /\ st' = FinishAll(st)
      /\ phase = "finalize" /\ phase' = "done" /\ ~inChunk /\ ~inChunk'
  BY DEF FinalizeStream, Finalize
<1>2. up \in Providers /\ (up.rank < 2 => up.calls = << >>) /\ up.rank \in 0 .. 3
  BY <1>1 DEF AnswerInv, Providers
<1>3. CASE up.rank < 3
  <2>1. Answering
    BY <1>1, <1>3 DEF AnswerInv
  <2>2. Filling(st) /\ st.calls = up.calls
    BY <2>1 DEF Answering
  <2>3. Filled(st') /\ st'.calls = RepairedCalls(up.calls)
    BY <1>1, <2>2, FinishAllFilled
  <2>4. ASSUME NEW i \in 1 .. Len(st'.items) PROVE ~st'.items[i].open
    <3>1. /\ st'.items[i] = ItemAt(st', i)
          /\ st'.outputIdx = Len(st'.items) /\ Len(st'.items) \in Nat
      BY <2>3 DEF Filled, Linked, Converters
    <3>2. ItemAt(st', i).open <=> i > st'.outputIdx
      BY ItemAtOpen
    <3> QED
      BY <3>1, <3>2
  <2>5. st'.wellFormed /\ ~st'.finished
    BY <2>3 DEF Filled, Linked
  <2>6. Ended'
    BY <1>1, <1>3, <2>3, <2>4, <2>5 DEF Ended
  <2> QED
    BY <1>1, <1>2, <2>6 DEF AnswerInv
<1>4. CASE up.rank = 3
  <2>1. Complete /\ up.late
    BY <1>1, <1>4 DEF AnswerInv
  <2>2. /\ st'.finished /\ st'.calls = RepairedCalls(st.calls)
        /\ \A i \in 1 .. Len(st'.items) : ~st'.items[i].open
        /\ st.calls = << >> => st'.wellFormed
    BY <1>1, <2>1, FinishedAgain DEF Complete
  <2>3. up.calls \in Seq(0 .. Garbled)
    <3>1. up.calls \in Seq(0 .. ArgPieces)
      BY <1>2 DEF Providers
    <3> QED
      BY <3>1, ConverterAssumption DEF Garbled
  <2>4. st'.calls = RepairedCalls(up.calls)
    BY <2>1, <2>2, <2>3, RepairedOnce DEF Complete
  <2>5. up.calls = << >> => st.calls = << >>
    BY <2>1 DEF Complete, RepairedCalls
  <2>6. Ended'
    BY <1>1, <1>4, <2>1, <2>2, <2>4, <2>5 DEF Ended
  <2> QED
    BY <1>1, <1>2, <2>6 DEF AnswerInv
<1> QED
  BY <1>2, <1>3, <1>4

-----------------------------------------------------------------------------
(* A chat client.                                                          *)

LEMMA PassKeepsNamed ==
  ASSUME NamedInv, NEW x \in ChatChunks, PassChunk(x)
  PROVE  NamedInv'
<1>1. /\ api = "chat" /\ api' = api /\ up \in Providers /\ pt \in Passthroughs
      /\ pt.completed \/ up.named \subseteq pt.ids
      /\ pt.nameless \subseteq up.nameless
      /\ pt.ended => pt.completed
      /\ ~pt.behind
      /\ st.wellFormed /\ st' = st
  BY DEF NamedInv, PassChunk
<1>2. x.index \in CallIndices
  BY DEF ChatChunks, CallIndices
<1> DEFINE named1 == IF x.id = "id" THEN up.named \cup {x.index} ELSE up.named
           nameless1 == IF x.id = "null" /\ x.index \notin up.named \cup {NoIndex}
                          THEN up.nameless \cup {x.index} ELSE up.nameless
           v == [up EXCEPT !.named = named1]
           w == [v EXCEPT !.nameless = nameless1]
<1>3. up' = w /\ pt' = PassthroughProcess(pt, x)
  BY DEF PassChunk
<1>4. named1 \in SUBSET CallIndices /\ nameless1 \in SUBSET CallIndices
  BY <1>1, <1>2 DEF Providers
<1>5. /\ up.named \subseteq named1 /\ up.nameless \subseteq nameless1
      /\ x.id = "id" => x.index \in named1
      /\ named1 \subseteq up.named \cup (IF x.id = "id" THEN {x.index} ELSE {})
      /\ x.id = "null" /\ x.index \notin up.named /\ x.index # NoIndex
           => x.index \in nameless1
  OBVIOUS
<1> HIDE DEF named1, nameless1
<1>6. up' \in Providers /\ up'.named = named1 /\ up'.nameless = nameless1
  BY <1>1, <1>3, <1>4 DEF Providers
<1>7. CASE pt.completed \/ ~x.choices
  <2>1. pt' = pt
    BY <1>3, <1>7 DEF PassthroughProcess
  <2>2. ~x.choices => x.id = "null"
    BY DEF ChatChunks
  <2> QED
    BY <1>1, <1>5, <1>6, <1>7, <2>1, <2>2 DEF NamedInv
<1>8. CASE ~pt.completed /\ x.choices
  <2> DEFINE less1 == IF x.index # NoIndex /\ FixedId(pt, x) = "null"
                        THEN pt.nameless \cup {x.index} ELSE pt.nameless
             ids1 == Remembered(pt, x)
             behind1 == pt.behind \/ pt.ended
             ended1 == pt.ended \/ x.finish = "stop"
             done1 == x.finish = "stop"
             p1 == [pt EXCEPT !.nameless = less1]
             p2 == [p1 EXCEPT !.ids = ids1]
             p3 == [p2 EXCEPT !.behind = behind1]
             p4 == [p3 EXCEPT !.ended = ended1]
             p5 == [p4 EXCEPT !.completed = done1]
  <2>1. pt' = p5
    BY <1>3, <1>8 DEF PassthroughProcess, Forward
  <2>2. ids1 \in SUBSET CallIndices /\ less1 \in SUBSET CallIndices
    BY <1>1, <1>2 DEF Passthroughs, Remembered
  <2>3. up.named \subseteq pt.ids
    BY <1>1, <1>8
  <2>4. named1 \subseteq ids1
    BY <1>5, <2>3 DEF Remembered
  <2>5. less1 \subseteq nameless1
    <3>1. CASE x.index # NoIndex /\ FixedId(pt, x) = "null"
      <4>1. x.id = "null" /\ x.index \notin Remembered(pt, x)
        BY <3>1 DEF FixedId
      <4>2. x.index \notin up.named
        BY <4>1, <2>3 DEF Remembered
      <4> QED
        BY <1>1, <1>5, <3>1, <4>1, <4>2
    <3>2. CASE ~(x.index # NoIndex /\ FixedId(pt, x) = "null")
      BY <1>1, <1>5, <3>2
    <3> QED
      BY <3>1, <3>2
  <2>6. behind1 = FALSE /\ ended1 = done1 /\ done1 \in BOOLEAN
    BY <1>1, <1>8
  <2> HIDE DEF less1, ids1, behind1, ended1, done1
  <2>7. /\ p5 \in Passthroughs /\ p5.nameless = less1 /\ p5.ids = ids1
        /\ p5.behind = behind1 /\ p5.ended = ended1 /\ p5.completed = done1
    BY <1>1, <2>2, <2>6 DEF Passthroughs
  <2> HIDE DEF p5
  <2> QED
    BY <1>1, <1>6, <2>1, <2>4, <2>5, <2>6, <2>7 DEF NamedInv
<1> QED
  BY <1>7, <1>8

-----------------------------------------------------------------------------
(* The specification.                                                      *)

LEMMA StreamInitial == ASSUME StreamInit PROVE AnswerInv /\ NamedInv
<1>1. st = ConverterInit /\ pt = PassthroughInit /\ phase = "read" /\ inChunk = FALSE
  BY DEF StreamInit, FramingInit
<1>2. /\ up \in Providers /\ up.rank = 0 /\ up.calls = << >> /\ up.named = {}
      /\ up.nameless = {}
  BY DEF StreamInit, Providers
<1>3. /\ st \in Converters /\ st.wellFormed /\ ~st.created /\ ~st.finished
      /\ st.state = "Initial" /\ ~st.contentStarted /\ ~st.reasoned /\ ~st.texted
      /\ st.calls = << >> /\ st.items = << >> /\ st.outputIdx = 0 /\ ~st.completed
  BY <1>1 DEF ConverterInit, Converters, States
<1>4. Spoken(st) = 0 /\ ~Speaking(st)
  BY <1>3 DEF Spoken, Speaking
<1>5. Filling(st)
  <2>1. Len(st.items) = 0 /\ Len(st.calls) = 0
    BY <1>3
  <2>2. Linked(st)
    BY <1>3, <1>4, <2>1 DEF Linked
  <2> DEFINE open == IF Speaking(st) THEN 1 ELSE 0
  <2>3. open = 0
    BY <1>4
  <2> HIDE DEF open
  <2>4. st.outputIdx = Spoken(st) - open
    BY <1>3, <1>4, <2>3
  <2> QED
    BY <2>2, <2>4 DEF Filling, open
<1>6. Answering
  BY <1>2, <1>3, <1>4, <1>5 DEF Answering, FillsAt
<1>7. pt \in Passthroughs /\ pt.nameless = {} /\ ~pt.ended /\ ~pt.behind
  BY <1>1 DEF PassthroughInit, Passthroughs
<1> QED
  BY <1>1, <1>2, <1>3, <1>6, <1>7 DEF AnswerInv, NamedInv

LEMMA StreamKeepsAnswer ==
  ASSUME Quirks = {}, AnswerInv, StreamNext PROVE AnswerInv'
<1>1. CASE Framing
  BY <1>1, FramingKeepsAnswer
<1>2. CASE ProcessChunk \/ ProcessRest
  BY <1>2, ChunkKeepsAnswer
<1>3. CASE ReasoningDelta
  BY <1>3, ReasoningKeepsAnswer
<1>4. CASE ContentDelta
  BY <1>4, ContentKeepsAnswer
<1>5. CASE \E tc \in ToolDeltas : ToolCallDelta(tc)
  BY <1>5, ToolKeepsAnswer
<1>6. CASE Completion
  BY <1>6, CompletionKeepsAnswer
<1>7. CASE ProcessReturns
  BY <1>7, ReturnKeepsAnswer
<1>8. CASE \E x \in ChatChunks : PassChunk(x)
  <2>1. api' = "chat"
    BY <1>8 DEF PassChunk
  <2> QED
    BY <2>1 DEF AnswerInv
<1>9. CASE FinalizeStream
  BY <1>9, FinalizeKeepsAnswer
<1> QED
  BY <1>1, <1>2, <1>3, <1>4, <1>5, <1>6, <1>7, <1>8, <1>9 DEF StreamNext

LEMMA StreamKeepsNamed == ASSUME NamedInv, StreamNext PROVE NamedInv'
<1>1. CASE \E x \in ChatChunks : PassChunk(x)
  BY <1>1, PassKeepsNamed
<1>2. CASE Framing \/ ProcessChunk \/ ProcessRest \/ FinalizeStream
  <2>1. api' = api /\ pt' = pt /\ up' = up /\ (api = "chat" => st' = st)
    BY <1>2 DEF Framing, ProcessChunk, ProcessRest, FinalizeStream, Entered
  <2> QED
    BY <2>1 DEF NamedInv
<1>3. CASE \/ ReasoningDelta \/ ContentDelta \/ Completion \/ ProcessReturns
           \/ \E tc \in ToolDeltas : ToolCallDelta(tc)
  <2>1. api' = "responses"
    BY <1>3 DEF ReasoningDelta, ContentDelta, Completion, ProcessReturns, ToolCallDelta,
                Converting
  <2> QED
    BY <2>1 DEF NamedInv
<1> QED
  BY <1>1, <1>2, <1>3 DEF StreamNext

LEMMA ApiHolds == RequestsSpec => [](api \in {"responses", "chat"})
<1>1. RequestsInit => api \in {"responses", "chat"}
  BY DEF RequestsInit, StreamInit, StreamRests
<1>2. api \in {"responses", "chat"} /\ [RequestsNext]_requestVars
        => (api \in {"responses", "chat"})'
  <2> SUFFICES ASSUME [RequestsNext]_requestVars PROVE api' = api
    OBVIOUS
  <2> QED
    BY DEF RequestsNext, PipelineStep, ExtensionStep, requestVars, streamVars, StreamStep,
           StreamNext, Framing, ProcessChunk, ProcessRest, ReasoningDelta, ContentDelta,
           ToolCallDelta, Completion, ProcessReturns, Converting, PassChunk, FinalizeStream
<1> QED
  BY <1>1, <1>2, PTL DEF RequestsSpec

LEMMA AnswerHolds == ASSUME Quirks = {} PROVE RequestsSpec => []AnswerInv
<1>1. RequestsInit => AnswerInv
  BY StreamInitial DEF RequestsInit, StreamRests
<1>2. AnswerInv /\ [RequestsNext]_requestVars => AnswerInv'
  <2> SUFFICES ASSUME AnswerInv, [RequestsNext]_requestVars PROVE AnswerInv'
    OBVIOUS
  <2>1. CASE StreamStep
    BY <2>1, StreamKeepsAnswer DEF StreamStep
  <2>2. CASE UNCHANGED streamVars
    BY <2>2 DEF streamVars, framing, AnswerInv, Answering, Complete, Ended
  <2> QED
    BY <2>1, <2>2 DEF RequestsNext, PipelineStep, ExtensionStep, requestVars
<1> QED
  BY <1>1, <1>2, PTL DEF RequestsSpec

LEMMA NamedHolds == RequestsSpec => []NamedInv
<1>1. RequestsInit => NamedInv
  BY StreamInitial DEF RequestsInit, StreamRests
<1>2. NamedInv /\ [RequestsNext]_requestVars => NamedInv'
  <2> SUFFICES ASSUME NamedInv, [RequestsNext]_requestVars PROVE NamedInv'
    OBVIOUS
  <2>1. CASE StreamStep
    BY <2>1, StreamKeepsNamed DEF StreamStep
  <2>2. CASE UNCHANGED streamVars
    BY <2>2 DEF streamVars, NamedInv
  <2> QED
    BY <2>1, <2>2 DEF RequestsNext, PipelineStep, ExtensionStep, requestVars
<1> QED
  BY <1>1, <1>2, PTL DEF RequestsSpec

-----------------------------------------------------------------------------
(* The output items a Responses client is sent are well formed, for        *)
(* streams of any length and answers with any number of calls, except      *)
(* behind the finish that is done a second time when an event was left     *)
(* without its blank line (CompletedIsLast): ItemsWellFormed.              *)
THEOREM ItemsAreWellFormed ==
  ASSUME Quirks = {} PROVE RequestsSpec => []ItemsWellFormed
<1>1. AnswerInv /\ NamedInv /\ api \in {"responses", "chat"} => ItemsWellFormed
  <2> SUFFICES ASSUME AnswerInv, NamedInv, api \in {"responses", "chat"}
               PROVE  ItemsWellFormed
    OBVIOUS
  <2>1. CASE api = "chat"
    BY <2>1 DEF NamedInv, ItemsWellFormed
  <2>2. CASE api = "responses"
    <3>1. up.rank \in 0 .. 3
      BY <2>2 DEF AnswerInv, Providers
    <3>2. Answering \/ Complete \/ Ended
      BY <2>2, <3>1 DEF AnswerInv
    <3> QED
      BY <3>2 DEF Answering, Filling, Linked, Complete, Ended, ItemsWellFormed
  <2> QED
    BY <2>1, <2>2
<1> QED
  BY <1>1, AnswerHolds, NamedHolds, ApiHolds, PTL

(* When convert() ends no item is open, and the answer is completed if and *)
(* only if the provider finished it: ItemsClosedAtEnd.                     *)
THEOREM ItemsAreClosed ==
  ASSUME Quirks = {} PROVE RequestsSpec => []ItemsClosedAtEnd
<1>1. AnswerInv => ItemsClosedAtEnd
  BY DEF AnswerInv, Ended, ItemsClosedAtEnd
<1> QED
  BY <1>1, AnswerHolds, PTL

(* The arguments held for a call are the provider's, with at most the      *)
(* closing brace supplied: CallArgsIntact.                                 *)
THEOREM CallArgsAreIntact ==
  ASSUME Quirks = {} PROVE RequestsSpec => []CallArgsIntact
<1>1. AnswerInv => CallArgsIntact
  <2> SUFFICES ASSUME AnswerInv, api = "responses" PROVE CallArgsIntact
    BY DEF CallArgsIntact
  <2>1. up.rank \in 0 .. 3 /\ up.calls \in Seq(0 .. ArgPieces)
    BY DEF AnswerInv, Providers
  <2>2. CASE Answering
    BY <2>2 DEF Answering, CallArgsIntact
  <2>3. CASE (Complete \/ Ended) /\ (st.completed \/ phase = "done")
    <3>1. st.calls = RepairedCalls(up.calls)
      BY <2>3 DEF Complete, Ended
    <3>2. /\ Len(st.calls) = Len(up.calls)
          /\ \A i \in 1 .. Len(up.calls) : st.calls[i] = Repaired(up.calls[i])
      BY <2>1, <3>1 DEF RepairedCalls
    <3> QED
      BY <2>3, <3>2 DEF CallArgsIntact
  <2>4. Answering \/ ((Complete \/ Ended) /\ (st.completed \/ phase = "done"))
    BY <2>1 DEF AnswerInv, Complete
  <2> QED
    BY <2>2, <2>3, <2>4
<1> QED
  BY <1>1, AnswerHolds, PTL

(* A chat client is told every id the provider gave, and gets nothing      *)
(* behind a finish: ChatDeltasNamed, for any number of calls and chunks.   *)
THEOREM ChatDeltasAreNamed == RequestsSpec => []ChatDeltasNamed
<1>1. NamedInv => ChatDeltasNamed
  BY DEF NamedInv, ChatDeltasNamed
<1> QED
  BY <1>1, NamedHolds, PTL

-----------------------------------------------------------------------------
(***************************************************************************)
(* The bundled extensions: BundledInv of BundledProofs, step by step.      *)
(***************************************************************************)
LEMMA BundledHolds == RequestsSpec => []BundledInv
<1>1. RequestsInit => BundledInv
  <2> SUFFICES ASSUME RequestsInit PROVE BundledInv
    OBVIOUS
  <2>1. CASE ExtensionsRest
    <3>1. asked = << >> /\ messages = asked /\ at = "compress" /\ clock = 0 /\ late = 0
      BY <2>1 DEF ExtensionsRest
    <3>2. asked \in Seq(ChatMessages)
      BY <3>1
    <3> QED
      BY <3>1, <3>2, ExtInitial
  <2>2. CASE ExtInit
    <3>1. /\ asked \in Seq(ChatMessages)
          /\ messages = asked /\ at = "compress" /\ clock = 0 /\ late = 0
      BY <2>2, BundledAssumption DEF ExtInit
    <3> QED
      BY <3>1, ExtInitial
  <2> QED
    BY <2>1, <2>2 DEF RequestsInit
<1>2. BundledInv /\ [RequestsNext]_requestVars => BundledInv'
  <2> SUFFICES ASSUME BundledInv, [RequestsNext]_requestVars PROVE BundledInv'
    OBVIOUS
  <2>1. CASE ExtensionStep
    BY <2>1, ExtStepKeeps DEF ExtensionStep
  <2>2. CASE UNCHANGED extVars
    BY <2>2, ExtUnchanged
  <2> QED
    BY <2>1, <2>2 DEF RequestsNext, PipelineStep, StreamStep, requestVars
<1> QED
  BY <1>1, <1>2, PTL DEF RequestsSpec

(* The guardrail's promise, for any conversation, any compression and any  *)
(* advice: a detected word is in what is sent only where the guardrail     *)
(* could not analyse the text or use the span, and what is sent was not    *)
(* too long to be read.                                                    *)
THEOREM SentIsRedacted == RequestsSpec => []SentRedacted
<1>1. BundledInv => SentRedacted
  BY DEF BundledInv
<1> QED
  BY <1>1, BundledHolds, PTL

(* No extension loses or swaps an image: masked with a placeholder of its  *)
(* own and put back from it, whatever else the texts contain.              *)
THEOREM ImagesAreKept == RequestsSpec => []ImagesKept
<1>1. BundledInv => ImagesKept
  BY DEF BundledInv
<1> QED
  BY <1>1, BundledHolds, PTL

(* The compressor overruns its budget by no more than the load it did not  *)
(* count and the delay of its last pass.                                   *)
THEOREM RepliesAreInTime == RequestsSpec => []ReplyInTime
<1>1. BundledInv => ReplyInTime
  BY DEF BundledInv, ReplyInTime
<1> QED
  BY <1>1, BundledHolds, PTL

-----------------------------------------------------------------------------
(***************************************************************************)
(* The handlers: PipelineInv of PipelineProofs where they are the subject, *)
(* and nothing begun where they are not.                                   *)
(***************************************************************************)
HandlersInv ==
  IF subject = "pipeline" THEN PipelineInv
  ELSE pc = "received" /\ out = Nothing /\ sends = << >> /\ engines = NoSearch

LEMMA HandlersHold == RequestsSpec => []HandlersInv
<1>1. RequestsInit => HandlersInv
  <2>1. subject = "pipeline" /\ Init => HandlersInv
    BY PipelineInitial DEF HandlersInv
  <2>2. subject # "pipeline" /\ PipelineRests => HandlersInv
    BY DEF HandlersInv, PipelineRests
  <2>3. RequestsInit => (subject = "pipeline" /\ Init) \/ (subject # "pipeline" /\ PipelineRests)
    BY DEF RequestsInit
  <2> QED
    BY <2>1, <2>2, <2>3
<1>2. HandlersInv /\ [RequestsNext]_requestVars => HandlersInv'
  <2> SUFFICES ASSUME HandlersInv, [RequestsNext]_requestVars PROVE HandlersInv'
    OBVIOUS
  <2>1. CASE PipelineStep
    <3>1. subject = "pipeline" /\ subject' = subject /\ PipelineInv /\ Next
      BY <2>1 DEF PipelineStep, HandlersInv
    <3> QED
      BY <3>1, PipelineStepKeeps DEF HandlersInv
  <2>2. CASE UNCHANGED <<subject, vars>>
    <3>1. CASE subject = "pipeline"
      BY <2>2, <3>1, PipelineUnchanged DEF HandlersInv
    <3>2. CASE subject # "pipeline"
      BY <2>2, <3>2 DEF HandlersInv, vars
    <3> QED
      BY <3>1, <3>2
  <2> QED
    BY <2>1, <2>2 DEF RequestsNext, StreamStep, ExtensionStep, requestVars
<1> QED
  BY <1>1, <1>2, PTL DEF RequestsSpec

(* The chat protocol, for every conversation that keeps the protocol of    *)
(* its API, parallel calls included: whatever the translation, an          *)
(* extension's note, the system message for Qwen and the rounds of         *)
(* searches make of it, in every request that is sent each call has its    *)
(* answer behind it and each answer its call before it, and unless a       *)
(* Responses client made calls in parallel the answers follow at once.     *)
THEOREM ChatProtocolIsKept == RequestsSpec => []ChatProtocolKept
<1>1. HandlersInv => ChatProtocolKept
  BY PipelineChatsKept DEF HandlersInv, ChatProtocolKept
<1> QED
  BY <1>1, HandlersHold, PTL

(* A client of any of the three APIs that asked for no stream, whatever    *)
(* the model answers: its text and exactly its own calls, in order, with   *)
(* the finish that fits them, and the name of the model it asked for; and  *)
(* the text and the name of an extension's answer, streamed or not.        *)
THEOREM AnswersAreWhole == RequestsSpec => []AnswerWhole
<1>1. HandlersInv => AnswerWhole
  BY DEF HandlersInv, PipelineInv, AnswerWhole, Nothing
<1> QED
  BY <1>1, HandlersHold, PTL

(* The user's veto and choice of an engine, whatever is configured, said   *)
(* and decided; a configured Yandex that was declined is left open.        *)
THEOREM EnginesHonourUsers == RequestsSpec => []EngineHonoursUser
<1>1. HandlersInv => EngineHonoursUser
  BY DEF HandlersInv, PipelineInv, EngineHonoursUser
<1> QED
  BY <1>1, HandlersHold, PTL

(* What the client said of its effort, for every policy and in every       *)
(* round: its opt-out, its level up to the cap, or the default up to the   *)
(* cap, and no field where there is none.                                  *)
THEOREM EffortIsHonoured == RequestsSpec => []EffortHonoured
<1>1. HandlersInv => EffortHonoured
  BY PipelineEffortHonoured DEF HandlersInv, EffortHonoured
<1> QED
  BY <1>1, HandlersHold, PTL

(* Every configuration that startup accepts: a default that is picked is   *)
(* never refused for want of a key, however pools are routed and wherever  *)
(* the cursor stands.                                                      *)
THEOREM DefaultsAreUsable == RequestsSpec => []DefaultsUsable
<1>1. HandlersInv => DefaultsUsable
  BY PipelineDefaultsUsable DEF HandlersInv, DefaultsUsable
<1> QED
  BY <1>1, HandlersHold, PTL
=============================================================================
