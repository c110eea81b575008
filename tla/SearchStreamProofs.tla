-------------------------- MODULE SearchStreamProofs --------------------------
(***************************************************************************)
(* What is proved of SearchStream for any number of rounds, of tool calls, *)
(* of frames and of pieces of text, and for any upstream.                  *)
(***************************************************************************)
EXTENDS SearchStream, FiniteSetTheorems, TLAPS

Call == [seen : BOOLEAN, name : Names, query : BOOLEAN]

Typed ==
  /\ step \in {"read", "classify", "search", "flush", "ended"}
  /\ acc \in [Indices -> Call]
  /\ buffered \in Seq(Frame)
  /\ over \in BOOLEAN
  /\ said \in 0 .. MaxText

(* Every call a held frame speaks of has been put together, with a name;   *)
(* and a round that is searched has no call of another tool.               *)
Calls ==
  /\ \A k \in DOMAIN buffered : DOMAIN buffered[k].pieces \subseteq {i \in Indices : acc[i].seen}
  /\ \A i \in Indices : acc[i].seen => acc[i].name \in {"search", "own"}
  /\ step = "search" => ~HasOther

CInv == Typed /\ Calls

LEMMA FrameType ==
  ASSUME NEW t \in NextText, NEW ps \in Pieces, NEW fin \in BOOLEAN, Typed
  PROVE  [text |-> t, pieces |-> ps, finish |-> fin, done |-> FALSE] \in Frame
  BY SearchAssumption DEF NextText, Typed, Frame

LEMMA DoneType == DoneFrame \in Frame /\ DOMAIN DoneFrame.pieces = {}
<1>1. << >> \in [{} -> [name : Names, query : BOOLEAN]]
  OBVIOUS
<1>2. << >> \in Pieces
  BY <1>1 DEF Pieces
<1> QED
  BY <1>2, SearchAssumption DEF DoneFrame, Frame

LEMMA PieceType ==
  ASSUME NEW ps \in Pieces
  PROVE  /\ DOMAIN ps \subseteq Indices
         /\ \A i \in DOMAIN ps : ps[i] \in [name : Names, query : BOOLEAN]
  BY DEF Pieces

LEMMA NoCallsType ==
  [i \in Indices |-> NoCall] \in [Indices -> Call] /\ << >> \in Seq(Frame)
<1>1. NoCall \in Call
  BY DEF NoCall, Call, Names
<1> QED
  BY <1>1

LEMMA InitCInv == SearchInit => CInv
<1> SUFFICES ASSUME SearchInit PROVE CInv
  OBVIOUS
<1>1. acc \in [Indices -> Call] /\ buffered \in Seq(Frame)
  BY NoCallsType DEF SearchInit
<1>2. Typed
  <2>1. step = "read" /\ over = FALSE /\ said = 0
    BY DEF SearchInit
  <2>2. 0 \in 0 .. MaxText
    BY SearchAssumption
  <2> QED
    BY <1>1, <2>1, <2>2 DEF Typed
<1>3. Calls
  BY DEF SearchInit, Calls, NoCall
<1> QED
  BY <1>2, <1>3 DEF CInv

(* A frame that upstream may send leaves every call it speaks of put       *)
(* together, and takes none away.                                          *)
LEMMA AccumulateCalls ==
  ASSUME Typed, Calls, NEW f \in Frame, MaySend(f)
  PROVE  LET a == Accumulate(f)
         IN /\ a \in [Indices -> Call]
            /\ \A i \in Indices : a[i].seen <=> acc[i].seen \/ i \in DOMAIN f.pieces
            /\ \A i \in Indices : a[i].seen => a[i].name \in {"search", "own"}
<1> DEFINE a == Accumulate(f)
<1>1. f.pieces \in Pieces
  BY DEF Frame
<1>2. /\ DOMAIN f.pieces \subseteq Indices
      /\ \A i \in DOMAIN f.pieces : f.pieces[i] \in [name : Names, query : BOOLEAN]
  BY <1>1, PieceType
<1>3. ASSUME NEW i \in Indices
      PROVE  /\ a[i] \in Call
             /\ a[i].seen <=> acc[i].seen \/ i \in DOMAIN f.pieces
             /\ a[i].seen => a[i].name \in {"search", "own"}
  <2>1. CASE i \notin DOMAIN f.pieces
    BY <2>1 DEF Accumulate, Typed, Calls
  <2>2. CASE i \in DOMAIN f.pieces
    <3>1. /\ f.pieces[i].name \in Names /\ f.pieces[i].query \in BOOLEAN
          /\ acc[i].name \in Names /\ acc[i].query \in BOOLEAN
      BY <1>2, <2>2 DEF Typed, Call
    <3>2. a[i] = [seen  |-> TRUE,
                  name  |-> IF f.pieces[i].name = "none" THEN acc[i].name ELSE f.pieces[i].name,
                  query |-> acc[i].query \/ f.pieces[i].query]
      BY <2>2 DEF Accumulate
    <3>3. f.pieces[i].name = "none" => acc[i].seen
      BY <2>2 DEF MaySend
    <3> QED
      BY <2>2, <3>1, <3>2, <3>3 DEF Call, Names, Calls
  <2> QED
    BY <2>1, <2>2
<1>4. a = [i \in Indices |-> a[i]]
  BY DEF Accumulate
<1> QED
  BY <1>3, <1>4

LEMMA NextCInv == CInv /\ [SearchNext]_searchVars => CInv'
<1> SUFFICES ASSUME CInv, [SearchNext]_searchVars PROVE CInv'
  OBVIOUS
<1> USE DEF CInv
<1>1. ASSUME NEW t \in NextText, NEW ps \in Pieces, NEW fin \in BOOLEAN,
             Receive([text |-> t, pieces |-> ps, finish |-> fin, done |-> FALSE])
      PROVE  CInv'
  <2> DEFINE f == [text |-> t, pieces |-> ps, finish |-> fin, done |-> FALSE]
  <2>1. f \in Frame /\ f.finish \in BOOLEAN /\ f.text \in 0 .. MaxText
    BY FrameType DEF Frame
  <2>2. Receive(f)
    BY <1>1
  <2> HIDE DEF f
  <2>3. MaySend(f) /\ step = "read" /\ step' = "read" /\ over' = f.finish
        /\ said' \in 0 .. MaxText
    BY <2>1, <2>2 DEF Receive, Typed
  <2>4. CASE Held(f)
    <3>1. acc' = Accumulate(f) /\ buffered' = Append(buffered, f)
      BY <2>2, <2>4 DEF Receive
    <3>2. /\ acc' \in [Indices -> Call]
          /\ \A i \in Indices : acc'[i].seen <=> acc[i].seen \/ i \in DOMAIN f.pieces
          /\ \A i \in Indices : acc'[i].seen => acc'[i].name \in {"search", "own"}
      BY <2>1, <2>3, <3>1, AccumulateCalls
    <3>3. DOMAIN f.pieces \subseteq Indices
      BY <2>1, PieceType DEF Frame
    <3>4. Typed'
      BY <2>1, <2>3, <3>1, <3>2 DEF Typed
    <3>5. ASSUME NEW k \in DOMAIN buffered'
          PROVE  DOMAIN buffered'[k].pieces \subseteq {i \in Indices : acc'[i].seen}
      <4>1. buffered'[k] = f \/ (k \in DOMAIN buffered /\ buffered'[k] = buffered[k])
        BY <2>1, <3>1 DEF Typed
      <4> QED
        BY <3>2, <3>3, <4>1 DEF Calls
    <3> QED
      BY <2>3, <3>2, <3>4, <3>5 DEF Calls
  <2>5. CASE ~Held(f)
    BY <2>1, <2>2, <2>3, <2>5 DEF Receive, Typed, Calls
  <2> QED
    BY <2>4, <2>5
<1>2. CASE ReceiveError \/ BytesEnd \/ StreamBreaks \/ NextRoundFails \/ FlushRound \/ FlushEnds
  <2>1. /\ UNCHANGED <<acc, buffered, said>> /\ over' \in BOOLEAN
        /\ step' \in {"read", "classify", "flush", "ended"}
    BY <1>2 DEF ReceiveError, BytesEnd, StreamBreaks, NextRoundFails, FlushRound, FlushEnds, Typed
  <2> QED
    BY <2>1 DEF Typed, Calls
<1>3. CASE ReceiveDone
  <2>1. /\ UNCHANGED <<acc, over, said>> /\ step' = "classify"
        /\ buffered' = Append(buffered, DoneFrame)
    BY <1>3 DEF ReceiveDone
  <2>2. ASSUME NEW k \in DOMAIN buffered'
        PROVE  DOMAIN buffered'[k].pieces \subseteq {i \in Indices : acc[i].seen}
    <3>1. buffered'[k] = DoneFrame \/ (k \in DOMAIN buffered /\ buffered'[k] = buffered[k])
      BY <2>1, DoneType DEF Typed
    <3> QED
      BY <3>1, DoneType DEF Calls
  <2> QED
    BY <2>1, <2>2, DoneType DEF Typed, Calls
<1>4. CASE SearchRound
  BY <1>4 DEF SearchRound, CanSearch, HasOther, Typed, Calls
<1>5. ASSUME NEW i \in Indices, Execute(i) PROVE CInv'
  BY <1>5 DEF Execute, HasOther, Typed, Calls
<1>6. CASE NextRound
  <2>1. acc' \in [Indices -> Call] /\ buffered' \in Seq(Frame)
    BY <1>6, NoCallsType DEF NextRound
  <2>2. Typed'
    BY <1>6, <2>1 DEF NextRound, Typed
  <2>3. Calls'
    BY <1>6 DEF NextRound, Calls, NoCall
  <2> QED
    BY <2>2, <2>3
<1>7. CASE Flush
  <2>1. /\ UNCHANGED <<acc, over, said, step>> /\ step = "flush"
        /\ buffered # << >> /\ buffered' = Tail(buffered)
    BY <1>7 DEF Flush
  <2>2. \A k \in DOMAIN buffered' : k + 1 \in DOMAIN buffered /\ buffered'[k] = buffered[k + 1]
    BY <2>1 DEF Typed
  <2> QED
    BY <2>1, <2>2 DEF Typed, Calls
<1>8. CASE UNCHANGED searchVars
  BY <1>8 DEF searchVars, Typed, Calls, HasOther
<1> QED
  BY <1>1, <1>2, <1>3, <1>4, <1>5, <1>6, <1>7, <1>8 DEF SearchNext, ReceiveFrame

LEMMA CInvAlways == SearchSpec => []CInv
  BY InitCInv, NextCInv, PTL DEF SearchSpec

(* Whatever upstream mixes into one frame or one round, a round whose held *)
(* frames are thrown away has no call of the client's own tools.           *)
THEOREM OwnCallsAreKept == SearchSpec => []OwnCallsKept
<1>1. CInv => OwnCallsKept
  BY DEF CInv, Calls, HasOther, OwnCallsKept
<1> QED
  BY <1>1, CInvAlways, PTL

-----------------------------------------------------------------------------
(* The rest of the types, and the cost of a request: the searches run and  *)
(* still to be run are at most one for each call of each round begun.      *)

Counted ==
  /\ rounds \in 0 .. MaxRounds
  /\ todo \subseteq Indices
  /\ executed \in Nat
  /\ executed + Cardinality(todo) <= rounds * Cardinality(Indices)

Received ==
  /\ frames \in 0 .. RoundFrames
  /\ odd \subseteq {"mixed", "together", "unended"}
  /\ client \in Seq(Answer!Item)

LEMMA ItemType ==
  /\ \A kind \in {"error", "call", "search", "finish", "done", "failed"} :
       Item(kind, 0) \in Answer!Item
  /\ \A n \in 0 .. MaxText : Item("text", n) \in Answer!Item
  BY SearchAssumption DEF Item, Answer!Item

LEMMA ConcatType ==
  ASSUME NEW S, NEW a \in Seq(S), NEW b \in Seq(S)
  PROVE  a \o b \in Seq(S)
  OBVIOUS

LEMMA ItemsType ==
  ASSUME NEW f, f.text \in 0 .. MaxText
  PROVE  ItemsOf(f) \in Seq(Answer!Item)
<1> DEFINE names == {acc[i].name : i \in DOMAIN f.pieces}
           text == IF f.text # 0 THEN <<Item("text", f.text)>> ELSE << >>
           search == IF "search" \in names THEN <<Item("search", 0)>> ELSE << >>
           call == IF names \ {"search"} # {} THEN <<Item("call", 0)>> ELSE << >>
           finish == IF f.finish THEN <<Item("finish", 0)>> ELSE << >>
           done == IF f.done THEN <<Item("done", 0)>> ELSE << >>
<1>1. /\ text \in Seq(Answer!Item) /\ search \in Seq(Answer!Item) /\ call \in Seq(Answer!Item)
      /\ finish \in Seq(Answer!Item) /\ done \in Seq(Answer!Item)
  BY ItemType
<1>2. ItemsOf(f) = text \o search \o call \o finish \o done
  BY DEF ItemsOf
<1> HIDE DEF text, search, call, finish, done
<1>3. text \o search \in Seq(Answer!Item)
  BY <1>1, ConcatType
<1>4. text \o search \o call \in Seq(Answer!Item)
  BY <1>1, <1>3, ConcatType
<1>5. text \o search \o call \o finish \in Seq(Answer!Item)
  BY <1>1, <1>4, ConcatType
<1> QED
  BY <1>1, <1>2, <1>5, ConcatType

LEMMA InitCost == SearchInit => Counted /\ Received
<1>1. Cardinality({}) = 0 /\ Cardinality(Indices) \in Nat
  BY FS_EmptySet, FS_CardinalityType, SearchAssumption
<1> QED
  BY <1>1, SearchAssumption DEF SearchInit, Counted, Received

LEMMA NextCounted == Counted /\ [SearchNext]_searchVars => Counted'
<1> SUFFICES ASSUME Counted, [SearchNext]_searchVars PROVE Counted'
  OBVIOUS
<1>1. Cardinality(Indices) \in Nat
  BY FS_CardinalityType, SearchAssumption
<1>2. CASE SearchRound
  <2>1. /\ rounds < MaxRounds /\ rounds' = rounds + 1 /\ executed' = executed
        /\ todo' \subseteq Indices
    BY <1>2 DEF SearchRound, CanSearch, Searches
  <2>2. IsFiniteSet(todo) /\ IsFiniteSet(todo')
    BY <2>1, FS_Subset, SearchAssumption DEF Counted
  <2>3. Cardinality(todo) \in Nat /\ Cardinality(todo') \in Nat
    BY <2>2, FS_CardinalityType
  <2>4. Cardinality(todo') <= Cardinality(Indices)
    BY <2>1, FS_Subset, SearchAssumption
  <2>5. rounds \in Nat /\ MaxRounds \in Nat
    BY SearchAssumption DEF Counted
  <2>6. (rounds + 1) * Cardinality(Indices) = rounds * Cardinality(Indices) + Cardinality(Indices)
    BY <1>1, <2>5
  <2>7. rounds * Cardinality(Indices) \in Nat
    BY <1>1, <2>5
  <2>8. executed + Cardinality(todo') <= (rounds + 1) * Cardinality(Indices)
    BY <1>1, <2>3, <2>4, <2>6, <2>7 DEF Counted
  <2> QED
    BY <2>1, <2>5, <2>8 DEF Counted
<1>3. ASSUME NEW i \in Indices, Execute(i) PROVE Counted'
  <2>1. IsFiniteSet(todo)
    BY FS_Subset, SearchAssumption DEF Counted
  <2>2. /\ i \in todo /\ todo' = todo \ {i}
        /\ executed' = executed + 1 /\ rounds' = rounds
    BY <1>3 DEF Execute
  <2>3. Cardinality(todo') = Cardinality(todo) - 1 /\ Cardinality(todo) \in Nat
    BY <2>1, <2>2, FS_RemoveElement, FS_CardinalityType
  <2>4. rounds * Cardinality(Indices) \in Nat
    BY <1>1, SearchAssumption DEF Counted
  <2>5. executed' + Cardinality(todo') = executed + Cardinality(todo)
    BY <2>2, <2>3 DEF Counted
  <2> QED
    BY <2>2, <2>5 DEF Counted
<1>4. CASE UNCHANGED <<rounds, todo, executed>>
  BY <1>4 DEF Counted
<1>5. SearchRound \/ (\E i \in Indices : Execute(i)) \/ UNCHANGED <<rounds, todo, executed>>
  BY DEF SearchNext, searchVars, ReceiveFrame, Receive, ReceiveError, ReceiveDone, BytesEnd,
         StreamBreaks, NextRound, NextRoundFails, FlushRound, Flush, FlushEnds
<1> QED
  BY <1>2, <1>3, <1>4, <1>5

LEMMA NextReceived == Typed /\ Received /\ [SearchNext]_searchVars => Received'
<1> SUFFICES ASSUME Typed, Received, [SearchNext]_searchVars PROVE Received'
  OBVIOUS
<1>1. ASSUME NEW t \in NextText, NEW ps \in Pieces, NEW fin \in BOOLEAN,
             Receive([text |-> t, pieces |-> ps, finish |-> fin, done |-> FALSE])
      PROVE  Received'
  <2> DEFINE f == [text |-> t, pieces |-> ps, finish |-> fin, done |-> FALSE]
  <2>1. f.text \in 0 .. MaxText
    BY FrameType DEF Frame
  <2>2. ItemsOf(f) \in Seq(Answer!Item)
    BY <2>1, ItemsType
  <2>3. Receive(f)
    BY <1>1
  <2> HIDE DEF f
  <2>4. frames < RoundFrames /\ frames' = frames + 1 /\ odd' = odd \cup Oddities(f)
        /\ (client' = client \/ client' = client \o ItemsOf(f))
    BY <2>3 DEF Receive, MaySend
  <2>5. frames' \in 0 .. RoundFrames
    BY <2>4, SearchAssumption DEF Received
  <2>6. client' \in Seq(Answer!Item)
    BY <2>2, <2>4, ConcatType DEF Received
  <2> QED
    BY <2>4, <2>5, <2>6 DEF Received, Oddities
<1>2. CASE ReceiveError \/ StreamBreaks \/ NextRoundFails
  <2>1. frames' = frames /\ odd' = odd
        /\ \E kind \in {"error", "failed"} : client' = Append(client, Item(kind, 0))
    BY <1>2 DEF ReceiveError, StreamBreaks, NextRoundFails, Tell
  <2> QED
    BY <2>1, ItemType DEF Received
<1>3. CASE BytesEnd
  <2>1. frames' = frames /\ (odd' = odd \/ odd' = odd \cup {"unended"})
    BY <1>3 DEF BytesEnd
  <2>2. \/ client' = client
        \/ \E kind \in {"call", "search", "finish"} : client' = Append(client, Item(kind, 0))
    BY <1>3 DEF BytesEnd, Tell
  <2>3. client' \in Seq(Answer!Item)
    BY <2>2, ItemType DEF Received
  <2> QED
    BY <2>1, <2>3 DEF Received
<1>4. CASE Flush
  <2>1. Head(buffered) \in Frame
    BY <1>4 DEF Flush, Typed
  <2>2. ItemsOf(Head(buffered)) \in Seq(Answer!Item)
    BY <2>1, ItemsType DEF Frame
  <2> QED
    BY <1>4, <2>2 DEF Flush, Received
<1>5. CASE NextRound
  BY <1>5, SearchAssumption DEF NextRound, Received
<1>6. CASE UNCHANGED <<frames, odd, client>>
  BY <1>6 DEF Received
<1>7. ASSUME ReceiveDone \/ SearchRound \/ (\E i \in Indices : Execute(i)) \/ FlushRound
             \/ FlushEnds \/ UNCHANGED searchVars
      PROVE  UNCHANGED <<frames, odd, client>>
  BY <1>7 DEF ReceiveDone, SearchRound, Execute, FlushRound, FlushEnds, searchVars
<1> QED
  BY <1>1, <1>2, <1>3, <1>4, <1>5, <1>6, <1>7 DEF SearchNext, ReceiveFrame

LEMMA CostAlways == SearchSpec => [](CInv /\ Counted /\ Received)
<1>1. CInv /\ Counted /\ Received /\ [SearchNext]_searchVars => (CInv /\ Counted /\ Received)'
  BY NextCInv, NextCounted, NextReceived DEF CInv
<1> QED
  BY InitCInv, InitCost, <1>1, PTL DEF SearchSpec

(* Every variable of the loop keeps its type, whatever upstream sends.     *)
THEOREM TypeCorrect == SearchSpec => []SearchTypeOK
<1>1. CInv /\ Counted /\ Received => SearchTypeOK
  BY DEF CInv, Typed, Call, Counted, Received, SearchTypeOK
<1> QED
  BY <1>1, CostAlways, PTL

(* One request costs at most a search for each call index and round,       *)
(* however often the model asks to search.                                 *)
THEOREM CostIsBounded == SearchSpec => []SearchesBounded
<1>1. Counted => SearchesBounded
  <2> SUFFICES ASSUME Counted PROVE SearchesBounded
    OBVIOUS
  <2>1. IsFiniteSet(todo)
    BY FS_Subset, SearchAssumption DEF Counted
  <2>2. Cardinality(todo) \in Nat /\ Cardinality(Indices) \in Nat
    BY <2>1, FS_CardinalityType, SearchAssumption
  <2>3. rounds \in Nat /\ MaxRounds \in Nat /\ rounds <= MaxRounds
    BY SearchAssumption DEF Counted
  <2> DEFINE n == Cardinality(Indices)
  <2> HIDE DEF n
  <2>4. n \in Nat
    BY <2>2 DEF n
  <2>5. rounds * n <= MaxRounds * n /\ rounds * n \in Nat /\ MaxRounds * n \in Nat
    BY <2>3, <2>4
  <2> QED
    BY <2>2, <2>5 DEF Counted, SearchesBounded, n
<1> QED
  BY <1>1, CostAlways, PTL

-----------------------------------------------------------------------------
(* The steps that told the client of something, by what they did to what   *)
(* it had; and what upstream did is never forgotten.                       *)
LEMMA ClientGrows ==
  ASSUME CInv, Received, [SearchNext]_searchVars
  PROVE  /\ odd \subseteq odd'
         /\ \A i \in DOMAIN client : i \in DOMAIN client' /\ client'[i] = client[i]
<1> USE DEF CInv
<1>1. ASSUME NEW items \in Seq(Answer!Item), client' = client \o items
      PROVE  \A i \in DOMAIN client : i \in DOMAIN client' /\ client'[i] = client[i]
  BY <1>1 DEF Received
<1>2. ASSUME NEW kind, Tell(kind)
      PROVE  \A i \in DOMAIN client : i \in DOMAIN client' /\ client'[i] = client[i]
  BY <1>2 DEF Received, Tell
<1>3. ASSUME NEW t \in NextText, NEW ps \in Pieces, NEW fin \in BOOLEAN,
             Receive([text |-> t, pieces |-> ps, finish |-> fin, done |-> FALSE])
      PROVE  /\ odd \subseteq odd'
             /\ \A i \in DOMAIN client : i \in DOMAIN client' /\ client'[i] = client[i]
  <2> DEFINE f == [text |-> t, pieces |-> ps, finish |-> fin, done |-> FALSE]
  <2>1. ItemsOf(f) \in Seq(Answer!Item)
    BY FrameType, ItemsType DEF Frame
  <2>2. Receive(f)
    BY <1>3
  <2> HIDE DEF f
  <2>3. odd' = odd \cup Oddities(f) /\ (client' = client \/ client' = client \o ItemsOf(f))
    BY <2>2 DEF Receive
  <2> QED
    BY <1>1, <2>1, <2>3
<1>4. CASE ReceiveError \/ StreamBreaks \/ NextRoundFails
  <2>1. odd' = odd /\ \E kind \in {"error", "failed"} : Tell(kind)
    BY <1>4 DEF ReceiveError, StreamBreaks, NextRoundFails
  <2> QED
    BY <1>2, <2>1
<1>5. CASE BytesEnd
  <2>1. /\ odd' = odd \/ odd' = odd \cup {"unended"}
        /\ client' = client \/ \E kind \in {"call", "search", "finish"} : Tell(kind)
    BY <1>5 DEF BytesEnd
  <2> QED
    BY <1>2, <2>1
<1>6. CASE Flush
  <2>1. ItemsOf(Head(buffered)) \in Seq(Answer!Item)
    <3>1. Head(buffered) \in Frame
      BY <1>6 DEF Flush, Typed
    <3> QED
      BY <3>1, ItemsType DEF Frame
  <2>2. odd' = odd /\ (client' = client \/ client' = client \o ItemsOf(Head(buffered)))
    BY <1>6 DEF Flush
  <2> QED
    BY <1>1, <2>1, <2>2
<1>7. CASE \/ ReceiveDone \/ SearchRound \/ (\E i \in Indices : Execute(i)) \/ NextRound
           \/ FlushRound \/ FlushEnds \/ UNCHANGED searchVars
  BY <1>7 DEF ReceiveDone, SearchRound, Execute, NextRound, FlushRound, FlushEnds, searchVars
<1> QED
  BY <1>3, <1>4, <1>5, <1>6, <1>7 DEF SearchNext, ReceiveFrame

-----------------------------------------------------------------------------
LEMMA ItemsOfText ==
  ASSUME NEW f, f.text # 0, DOMAIN f.pieces = {}, ~f.finish, ~f.done
  PROVE  ItemsOf(f) = <<Item("text", f.text)>>
<1>1. {acc[i].name : i \in DOMAIN f.pieces} = {}
  OBVIOUS
<1> QED
  BY <1>1 DEF ItemsOf

(* As long as no frame carries several things, text is never held back.    *)
Forwarded ==
  "mixed" \notin odd => \A n \in 1 .. said : \E i \in DOMAIN client : client[i] = Item("text", n)

LEMMA NextForwarded ==
  CInv /\ Received /\ Forwarded /\ [SearchNext]_searchVars => Forwarded'
<1> SUFFICES ASSUME CInv, Received, Forwarded, [SearchNext]_searchVars, "mixed" \notin odd',
                    NEW n \in 1 .. said'
             PROVE  \E i \in DOMAIN client' : client'[i] = Item("text", n)
  BY DEF Forwarded
<1>1. /\ "mixed" \notin odd
      /\ \A i \in DOMAIN client : i \in DOMAIN client' /\ client'[i] = client[i]
  BY ClientGrows
<1>2. \A m \in 1 .. said : \E i \in DOMAIN client' : client'[i] = Item("text", m)
  BY <1>1 DEF Forwarded
<1>3. ASSUME NEW t \in NextText, NEW ps \in Pieces, NEW fin \in BOOLEAN,
             Receive([text |-> t, pieces |-> ps, finish |-> fin, done |-> FALSE])
      PROVE  \E i \in DOMAIN client' : client'[i] = Item("text", n)
  <2> DEFINE f == [text |-> t, pieces |-> ps, finish |-> fin, done |-> FALSE]
  <2>1. f \in Frame /\ ~f.done /\ f.text \in Nat
    BY FrameType, SearchAssumption DEF Frame, CInv
  <2>2. Receive(f)
    BY <1>3
  <2> HIDE DEF f
  <2>3. Regular(f) /\ MaySend(f)
    BY <2>2 DEF Receive, Oddities
  <2>4. CASE f.text = 0
    BY <1>2, <2>2, <2>4 DEF Receive
  <2>5. CASE f.text # 0
    <3>1. DOMAIN f.pieces = {} /\ ~f.finish /\ f.text = said + 1
      BY <2>3, <2>5 DEF Regular, MaySend
    <3>2. client' = client \o ItemsOf(f) /\ said' = said + 1
      BY <2>2, <2>5, <3>1 DEF Receive, Held
    <3>3. ItemsOf(f) = <<Item("text", said + 1)>>
      BY <2>1, <2>5, <3>1, ItemsOfText
    <3>4. client'[Len(client) + 1] = Item("text", said + 1) /\ Len(client) + 1 \in DOMAIN client'
      BY <3>2, <3>3 DEF Received
    <3>5. n \in 1 .. said \/ n = said + 1
      BY <3>2, SearchAssumption DEF CInv, Typed
    <3> QED
      BY <1>2, <3>4, <3>5
  <2> QED
    BY <2>4, <2>5
<1>4. CASE said' = said
  BY <1>2, <1>4
<1>5. ReceiveFrame \/ said' = said
  BY DEF SearchNext, searchVars, ReceiveError, ReceiveDone, BytesEnd, StreamBreaks, SearchRound,
         Execute, NextRound, NextRoundFails, FlushRound, Flush, FlushEnds
<1> QED
  BY <1>3, <1>4, <1>5 DEF ReceiveFrame

(* While rounds are read and searched, the client lacks no text that came  *)
(* in frames of its own.                                                   *)
THEOREM TextIsForwarded == SearchSpec => []TextForwarded
<1>1. SearchInit => Forwarded
  BY DEF SearchInit, Forwarded
<1>2. Forwarded => TextForwarded
  BY DEF Forwarded, TextForwarded
<1> QED
  BY <1>1, <1>2, CostAlways, NextForwarded, PTL DEF SearchSpec

-----------------------------------------------------------------------------
(* A held frame that speaks of a search and of another tool was noted.     *)
Speaks(f) == {acc[i].name : i \in DOMAIN f.pieces}

Noted ==
  /\ \A k \in DOMAIN buffered :
       {"search", "own"} \subseteq Speaks(buffered[k]) => "together" \in odd
  /\ (\E i \in DOMAIN client : client[i].kind = "search") => odd \cap {"together", "unended"} # {}

(* The name of a call does not change in a round.                          *)
LEMMA NamesStay ==
  ASSUME CInv, NEW f \in Frame, MaySend(f), NEW i \in Indices, acc[i].seen
  PROVE  Accumulate(f)[i].name = acc[i].name
  BY DEF Accumulate, MaySend

LEMMA SearchItem ==
  ASSUME NEW f, f.text \in 0 .. MaxText, "search" \notin Speaks(f),
         NEW i \in DOMAIN ItemsOf(f)
  PROVE  ItemsOf(f)[i].kind # "search"
<1> DEFINE text == IF f.text # 0 THEN <<Item("text", f.text)>> ELSE << >>
           call == IF Speaks(f) \ {"search"} # {} THEN <<Item("call", 0)>> ELSE << >>
           finish == IF f.finish THEN <<Item("finish", 0)>> ELSE << >>
           done == IF f.done THEN <<Item("done", 0)>> ELSE << >>
           Others == {item \in Answer!Item : item.kind # "search"}
<1>1. ItemsOf(f) = text \o << >> \o call \o finish \o done
  BY DEF ItemsOf, Speaks
<1>2. /\ text \in Seq(Others) /\ call \in Seq(Others) /\ finish \in Seq(Others)
      /\ done \in Seq(Others) /\ << >> \in Seq(Others)
  <2>1. \A kind \in {"call", "finish", "done"} : Item(kind, 0) \in Others
    BY ItemType DEF Item
  <2>2. Item("text", f.text) \in Others
    BY ItemType DEF Item
  <2> HIDE DEF Others
  <2> QED
    BY <2>1, <2>2
<1> HIDE DEF text, call, finish, done
<1>3. text \o << >> \in Seq(Others)
  BY <1>2, ConcatType
<1>4. text \o << >> \o call \in Seq(Others)
  BY <1>2, <1>3, ConcatType
<1>5. text \o << >> \o call \o finish \in Seq(Others)
  BY <1>2, <1>4, ConcatType
<1>6. ItemsOf(f) \in Seq(Others)
  BY <1>1, <1>2, <1>5, ConcatType
<1>7. ItemsOf(f)[i] \in Others
  <2> HIDE DEF Others
  <2> QED
    BY <1>6
<1> QED
  BY <1>7

LEMMA NextNoted == CInv /\ Received /\ Noted /\ [SearchNext]_searchVars => Noted'
<1> SUFFICES ASSUME CInv, Received, Noted, [SearchNext]_searchVars PROVE Noted'
  OBVIOUS
<1>1. odd \subseteq odd'
  BY ClientGrows
<1>2. ASSUME NEW f, f.text \in 0 .. MaxText, client' = client \o ItemsOf(f),
             "search" \in Speaks(f) => "together" \in odd'
      PROVE  (\E i \in DOMAIN client' : client'[i].kind = "search")
               => odd' \cap {"together", "unended"} # {}
  <2> SUFFICES ASSUME NEW i \in DOMAIN client', client'[i].kind = "search"
               PROVE  odd' \cap {"together", "unended"} # {}
    OBVIOUS
  <2>1. ItemsOf(f) \in Seq(Answer!Item) /\ client \in Seq(Answer!Item)
    BY <1>2, ItemsType DEF Received
  <2>2. CASE i \in DOMAIN client
    <3>1. client'[i] = client[i]
      BY <1>2, <2>1, <2>2
    <3> QED
      BY <1>1, <2>2, <3>1 DEF Noted
  <2>3. CASE i \notin DOMAIN client
    <3>1. PICK j \in DOMAIN ItemsOf(f) : client'[i] = ItemsOf(f)[j]
      <4> DEFINE items == ItemsOf(f)
      <4> HIDE DEF items
      <4>1. items \in Seq(Answer!Item) /\ client' = client \o items
        BY <1>2, <2>1 DEF items
      <4>2. i - Len(client) \in DOMAIN items /\ client'[i] = items[i - Len(client)]
        BY <2>1, <2>3, <4>1
      <4> QED
        BY <4>2 DEF items
    <3>2. "search" \in Speaks(f)
      BY <1>2, <3>1, SearchItem
    <3> QED
      BY <1>2, <3>2
  <2> QED
    BY <2>2, <2>3
<1>3. ASSUME client' = client
      PROVE  (\E i \in DOMAIN client' : client'[i].kind = "search")
               => odd' \cap {"together", "unended"} # {}
  BY <1>1, <1>3 DEF Noted
<1>4. ASSUME NEW t \in NextText, NEW ps \in Pieces, NEW fin \in BOOLEAN,
             Receive([text |-> t, pieces |-> ps, finish |-> fin, done |-> FALSE])
      PROVE  Noted'
  <2> DEFINE f == [text |-> t, pieces |-> ps, finish |-> fin, done |-> FALSE]
  <2>1. f \in Frame /\ ~f.done /\ f.text \in 0 .. MaxText /\ DOMAIN f.pieces \subseteq Indices
    BY FrameType, PieceType DEF Frame, CInv
  <2>2. Receive(f)
    BY <1>4
  <2> HIDE DEF f
  <2>3. MaySend(f) /\ odd' = odd \cup Oddities(f)
    BY <2>2 DEF Receive
  <2>4. CASE Held(f)
    <3>1. acc' = Accumulate(f) /\ buffered' = Append(buffered, f) /\ client' = client
      BY <2>2, <2>4 DEF Receive
    <3>2. ASSUME NEW k \in DOMAIN buffered', {"search", "own"} \subseteq Speaks(buffered[k])'
          PROVE  "together" \in odd'
      <4>1. CASE k \in DOMAIN buffered /\ buffered'[k] = buffered[k]
        <5>1. \A i \in DOMAIN buffered[k].pieces : acc'[i].name = acc[i].name
          <6>1. \A i \in DOMAIN buffered[k].pieces : i \in Indices /\ acc[i].seen
            BY <4>1 DEF CInv, Calls
          <6> QED
            BY <2>1, <2>3, <3>1, <6>1, NamesStay
        <5>2. Speaks(buffered[k])' = Speaks(buffered[k])
          BY <4>1, <5>1 DEF Speaks
        <5> QED
          BY <1>1, <3>2, <4>1, <5>2 DEF Noted
      <4>2. CASE buffered'[k] = f
        <5>1. Together(f)
          BY <3>1, <3>2, <4>2 DEF Speaks, Together
        <5> QED
          BY <2>3, <5>1 DEF Oddities
      <4>3. \/ k \in DOMAIN buffered /\ buffered'[k] = buffered[k]
            \/ buffered'[k] = f
        BY <2>1, <3>1 DEF CInv, Typed
      <4> QED
        BY <4>1, <4>2, <4>3
    <3> QED
      BY <1>3, <3>1, <3>2 DEF Noted
  <2>5. CASE ~Held(f)
    <3>1. client' = client \o ItemsOf(f) /\ UNCHANGED <<acc, buffered>> /\ DOMAIN f.pieces = {}
      BY <2>2, <2>5 DEF Receive, Held
    <3>2. "search" \notin Speaks(f)
      BY <3>1 DEF Speaks
    <3>3. \A k \in DOMAIN buffered : Speaks(buffered[k])' = Speaks(buffered[k])
      BY <3>1 DEF Speaks
    <3> QED
      BY <1>1, <1>2, <2>1, <3>1, <3>2, <3>3 DEF Noted
  <2> QED
    BY <2>4, <2>5
<1>5. ASSUME UNCHANGED <<acc, buffered>>
      PROVE  \A k \in DOMAIN buffered' :
               {"search", "own"} \subseteq Speaks(buffered[k])' => "together" \in odd'
  <2>1. \A k \in DOMAIN buffered : Speaks(buffered[k])' = Speaks(buffered[k])
    BY <1>5 DEF Speaks
  <2> QED
    BY <1>1, <1>5, <2>1 DEF Noted
<1>6. CASE ReceiveError \/ StreamBreaks \/ NextRoundFails
  <2>1. /\ UNCHANGED <<acc, buffered, odd>>
        /\ \E kind \in {"error", "failed"} : client' = Append(client, Item(kind, 0))
    BY <1>6 DEF ReceiveError, StreamBreaks, NextRoundFails, Tell
  <2>2. PICK kind \in {"error", "failed"} : client' = Append(client, Item(kind, 0))
    BY <2>1
  <2>3. \A i \in DOMAIN client' :
          client'[i] = Item(kind, 0) \/ (i \in DOMAIN client /\ client'[i] = client[i])
    BY <2>2, ItemType DEF Received
  <2>4. Item(kind, 0).kind # "search"
    BY DEF Item
  <2> QED
    BY <1>5, <2>1, <2>3, <2>4 DEF Noted
<1>7. CASE BytesEnd
  <2>1. /\ UNCHANGED <<acc, buffered>>
        /\ (client' = client /\ odd' = odd) \/ "unended" \in odd'
    BY <1>7 DEF BytesEnd
  <2> QED
    BY <1>3, <1>5, <2>1 DEF Noted
<1>8. CASE ReceiveDone
  <2>1. UNCHANGED <<acc, odd, client>> /\ buffered' = Append(buffered, DoneFrame)
    BY <1>8 DEF ReceiveDone
  <2>2. ASSUME NEW k \in DOMAIN buffered', {"search", "own"} \subseteq Speaks(buffered[k])'
        PROVE  "together" \in odd'
    <3>1. Speaks(DoneFrame) = {}
      BY DoneType DEF Speaks
    <3>2. buffered'[k] = DoneFrame \/ (k \in DOMAIN buffered /\ buffered'[k] = buffered[k])
      BY <2>1, DoneType DEF CInv, Typed
    <3>3. Speaks(buffered[k])' = Speaks(buffered'[k])
      BY <2>1 DEF Speaks
    <3> QED
      BY <2>1, <2>2, <3>1, <3>2, <3>3 DEF Noted
  <2> QED
    BY <1>3, <2>1, <2>2 DEF Noted
<1>9. CASE NextRound
  <2>1. client' = client /\ DOMAIN buffered' = {}
    BY <1>9 DEF NextRound
  <2> QED
    BY <1>3, <2>1 DEF Noted
<1>10. CASE Flush
  <2> DEFINE f == Head(buffered)
  <2>1. /\ UNCHANGED <<acc, odd>> /\ buffered # << >> /\ buffered' = Tail(buffered)
        /\ client' = IF SearchOnly(f) THEN client ELSE client \o ItemsOf(f)
    BY <1>10 DEF Flush
  <2>2. /\ 1 \in DOMAIN buffered /\ f = buffered[1] /\ f \in Frame
        /\ \A k \in DOMAIN buffered' : k + 1 \in DOMAIN buffered /\ buffered'[k] = buffered[k + 1]
    BY <2>1 DEF CInv, Typed
  <2> HIDE DEF f
  <2>3. f.text \in 0 .. MaxText
    BY <2>2 DEF Frame
  <2>4. ~SearchOnly(f) /\ "search" \in Speaks(f) => "together" \in odd'
    <3>1. \A i \in DOMAIN f.pieces : acc[i].name \in {"search", "own"}
      BY <2>2 DEF CInv, Calls
    <3>2. ~SearchOnly(f) /\ "search" \in Speaks(f) => {"search", "own"} \subseteq Speaks(f)
      BY <3>1 DEF SearchOnly, Speaks
    <3> QED
      BY <2>1, <2>2, <3>2 DEF Noted
  <2>5. (\E i \in DOMAIN client' : client'[i].kind = "search")
          => odd' \cap {"together", "unended"} # {}
    BY <1>2, <1>3, <2>1, <2>3, <2>4
  <2>6. ASSUME NEW k \in DOMAIN buffered', {"search", "own"} \subseteq Speaks(buffered[k])'
        PROVE  "together" \in odd'
    <3>1. Speaks(buffered[k])' = Speaks(buffered[k + 1])
      BY <2>1, <2>2 DEF Speaks
    <3> QED
      BY <2>1, <2>2, <2>6, <3>1 DEF Noted
  <2> QED
    BY <2>5, <2>6 DEF Noted
<1>11. CASE \/ SearchRound \/ (\E i \in Indices : Execute(i)) \/ FlushRound \/ FlushEnds
            \/ UNCHANGED searchVars
  <2>1. UNCHANGED <<acc, buffered, client>>
    BY <1>11 DEF SearchRound, Execute, FlushRound, FlushEnds, searchVars
  <2> QED
    BY <1>3, <1>5, <2>1 DEF Noted
<1> QED
  BY <1>4, <1>6, <1>7, <1>8, <1>9, <1>10, <1>11 DEF SearchNext, ReceiveFrame

(* No call of the search tool reaches the client, neither in a round that  *)
(* is searched nor when klava gives up and flushes, unless upstream put it *)
(* into one frame with another tool's call or did not end its last event.  *)
THEOREM SearchIsHidden == SearchSpec => []SearchHidden
<1>1. SearchInit => Noted
  BY DEF SearchInit, Noted
<1>2. Noted => SearchHidden
  BY DEF Noted, SearchHidden
<1> QED
  BY <1>1, <1>2, CostAlways, NextNoted, PTL DEF SearchSpec

-----------------------------------------------------------------------------
(* As long as upstream puts one thing into a frame, a held frame is one of *)
(* three kinds, which come in this order.                                  *)
Rank(f) == IF f.done THEN 3 ELSE IF f.finish THEN 2 ELSE 1

Plain(f) ==
  /\ f.text = 0
  /\ \A i, j \in DOMAIN f.pieces : i = j
  /\ DOMAIN f.pieces # {} <=> Rank(f) = 1
  /\ f.finish <=> Rank(f) = 2
  /\ f.done <=> Rank(f) = 3

Before(r, f) == r < Rank(f) \/ (r = 1 /\ Rank(f) = 1)

Held1 ==
  /\ \A k \in DOMAIN buffered : Plain(buffered[k])
  /\ \A k, l \in DOMAIN buffered : k < l => Before(Rank(buffered[k]), buffered[l])
  /\ step = "read" => \A k \in DOMAIN buffered : Rank(buffered[k]) = 1 \/ (over /\ Rank(buffered[k]) = 2)

(* What the client has comes before what is held; its texts are complete.  *)
Told ==
  /\ client \in Seq(Answer!Item)
  /\ \A i \in DOMAIN client : client[i].kind # "search" /\ client[i].n <= said
  /\ step \in {"read", "classify", "search"} =>
       \A i \in DOMAIN client : client[i].kind \in {"text", "error"}
  /\ step = "flush" => \A i \in DOMAIN client : \A k \in DOMAIN buffered :
       client[i].kind # "failed" /\ Before(Answer!Part[client[i].kind], buffered[k])
  /\ \A n \in 1 .. said : \E i \in DOMAIN client : client[i] = Item("text", n)

Tidy == Held1 /\ Told

TInv == odd = {} => Tidy

LEMMA ItemsOfHeld ==
  ASSUME Calls, NEW f, Plain(f), DOMAIN f.pieces \subseteq {i \in Indices : acc[i].seen},
         ~SearchOnly(f)
  PROVE  LET kind == IF f.done THEN "done" ELSE IF f.finish THEN "finish" ELSE "call"
         IN ItemsOf(f) = <<Item(kind, 0)>>
<1> DEFINE names == {acc[i].name : i \in DOMAIN f.pieces}
<1>1. CASE Rank(f) = 1
  <2>1. names = {"own"} /\ ~f.finish /\ ~f.done /\ f.text = 0
    BY <1>1 DEF Plain, Calls, SearchOnly
  <2>2. ItemsOf(f) = << >> \o << >> \o <<Item("call", 0)>> \o << >> \o << >>
    BY <2>1 DEF ItemsOf
  <2> QED
    BY <2>1, <2>2
<1>2. CASE Rank(f) # 1
  <2>1. names = {} /\ f.text = 0 /\ (f.finish <=> ~f.done)
    BY <1>2 DEF Plain, Rank
  <2>2. ItemsOf(f) = << >> \o << >> \o << >>
                       \o (IF f.finish THEN <<Item("finish", 0)>> ELSE << >>)
                       \o (IF f.done THEN <<Item("done", 0)>> ELSE << >>)
    BY <2>1 DEF ItemsOf
  <2>3. CASE f.done
    <3>1. ItemsOf(f) = << >> \o << >> \o << >> \o << >> \o <<Item("done", 0)>>
      BY <2>1, <2>2, <2>3
    <3>2. << >> \o << >> \o << >> \o << >> \o <<Item("done", 0)>> = <<Item("done", 0)>>
      OBVIOUS
    <3> QED
      BY <2>3, <3>1, <3>2
  <2>4. CASE ~f.done
    BY <2>1, <2>2, <2>4
  <2> QED
    BY <2>3, <2>4
<1> QED
  BY <1>1, <1>2

(* A frame that upstream may send, with one thing in it.                   *)
LEMMA SentIsPlain ==
  ASSUME NEW f \in Frame, MaySend(f), Regular(f), ~f.done
  PROVE  IF Held(f) THEN Plain(f) /\ Rank(f) \in {1, 2} /\ (f.finish <=> Rank(f) = 2)
                    ELSE f.text = said + 1 /\ DOMAIN f.pieces = {} /\ ~f.finish
  BY DEF MaySend, Regular, Held, Plain, Rank, Frame

(* The client is told one more item.                                       *)
LEMMA TellItem ==
  ASSUME client \in Seq(Answer!Item), NEW item \in Answer!Item, client' = Append(client, item)
  PROVE  /\ client' \in Seq(Answer!Item)
         /\ DOMAIN client' = DOMAIN client \cup {Len(client) + 1}
         /\ client'[Len(client) + 1] = item
         /\ \A i \in DOMAIN client : client'[i] = client[i]
  OBVIOUS

LEMMA AnswerStep ==
  ASSUME Told, NEW item \in Answer!Item, client' = Append(client, item),
         item.kind # "search",
         IF item.kind = "text" THEN item.n = said + 1 ELSE item.n = 0,
         \A i \in DOMAIN client :
           /\ client[i].kind # "done"
           /\ \/ Answer!Part[client[i].kind] < Answer!Part[item.kind]
              \/ Answer!Part[client[i].kind] = Answer!Part[item.kind] /\ Answer!Part[item.kind] < 2,
         said \in Nat
  PROVE  Answer!Next
<1>1. item.kind \in DOMAIN Answer!Part
  BY DEF Answer!Part, Answer!Item
<1>2. Answer!InOrder(item)
  <2>1. CASE item.kind = "text"
    <3>1. \A i \in DOMAIN client : client[i].n < item.n
      <4>1. ASSUME NEW i \in DOMAIN client PROVE client[i].n \in Nat /\ client[i].n <= said
        <5>1. client[i] \in Answer!Item /\ client[i].n <= said
          BY DEF Told
        <5> QED
          BY <5>1 DEF Answer!Item
      <4> QED
        BY <2>1, <4>1
    <3>2. item.n > 1 => \E i \in DOMAIN client : client[i].n = item.n - 1
      <4>1. SUFFICES ASSUME said > 0 PROVE \E i \in DOMAIN client : client[i].n = said
        BY <2>1
      <4>2. PICK i \in DOMAIN client : client[i] = Item("text", said)
        BY <4>1 DEF Told
      <4> QED
        BY <4>2 DEF Item
    <3> QED
      BY <2>1, <3>1, <3>2 DEF Answer!InOrder
  <2>2. CASE item.kind # "text"
    BY <2>2 DEF Answer!InOrder
  <2> QED
    BY <2>1, <2>2
<1>3. Answer!Receive(item)
  BY <1>1, <1>2 DEF Answer!Receive
<1>4. item.n \in Answer!Numbers
  <2>1. CASE item.kind = "text" /\ said > 0
    <3>1. PICK i \in DOMAIN client : client[i] = Item("text", said)
      BY <2>1 DEF Told
    <3> QED
      BY <2>1, <3>1 DEF Item, Answer!Numbers
  <2>2. CASE ~(item.kind = "text" /\ said > 0)
    BY <2>2 DEF Answer!Numbers
  <2> QED
    BY <2>1, <2>2
<1>5. item = [kind |-> item.kind, n |-> item.n]
  BY DEF Answer!Item
<1> QED
  BY <1>1, <1>3, <1>4, <1>5 DEF Answer!Next

LEMMA InitTInv == SearchInit => TInv
  BY SearchAssumption DEF SearchInit, TInv, Tidy, Held1, Told

(* Every step of such an upstream keeps Tidy and is a step of OneAnswer.   *)
LEMMA NextTidy ==
  CInv /\ Tidy /\ odd' = {} /\ [SearchNext]_searchVars => Tidy' /\ [Answer!Next]_client
<1> SUFFICES ASSUME CInv, Tidy, odd' = {}, [SearchNext]_searchVars
             PROVE  Tidy' /\ [Answer!Next]_client
  OBVIOUS
<1> USE DEF CInv, Tidy
<1>0. said \in Nat
  BY SearchAssumption DEF Typed
<1>1. ASSUME NEW t \in NextText, NEW ps \in Pieces, NEW fin \in BOOLEAN,
             Receive([text |-> t, pieces |-> ps, finish |-> fin, done |-> FALSE])
      PROVE  Tidy' /\ [Answer!Next]_client
  <2> DEFINE f == [text |-> t, pieces |-> ps, finish |-> fin, done |-> FALSE]
  <2>1. f \in Frame /\ ~f.done /\ Receive(f)
    BY <1>1, FrameType
  <2> HIDE DEF f
  <2>2. MaySend(f) /\ step = "read" /\ step' = "read" /\ over' = f.finish /\ ~over
        /\ said' = IF f.text # 0 THEN f.text ELSE said
    BY <2>1 DEF Receive, MaySend
  <2> Regular(f)
    BY <2>1 DEF Receive, Oddities
  <2>3. IF Held(f) THEN Plain(f) /\ Rank(f) \in {1, 2} /\ (f.finish <=> Rank(f) = 2)
                   ELSE f.text = said + 1 /\ DOMAIN f.pieces = {} /\ ~f.finish
    BY <2>1, <2>2, SentIsPlain
  <2>4. CASE Held(f)
    <3>1. buffered' = Append(buffered, f) /\ client' = client /\ said' = said
      BY <2>1, <2>2, <2>3, <2>4 DEF Receive, Plain
    <3>2. \A k \in DOMAIN buffered' :
            \/ k \in DOMAIN buffered /\ buffered'[k] = buffered[k]
            \/ k = Len(buffered) + 1 /\ buffered'[k] = f
      BY <2>1, <3>1 DEF Typed
    <3>3. \A k \in DOMAIN buffered : Rank(buffered[k]) = 1 /\ k < Len(buffered) + 1
      BY <2>2 DEF Held1, Typed
    <3>4. ASSUME NEW k \in DOMAIN buffered', NEW l \in DOMAIN buffered', k < l
          PROVE  Before(Rank(buffered'[k]), buffered'[l])
      <4>1. k \in DOMAIN buffered
        BY <3>2, <3>3, <3>4 DEF Typed
      <4> QED
        BY <2>3, <2>4, <3>2, <3>3, <3>4, <4>1 DEF Held1, Before
    <3>5. Held1'
      BY <2>2, <2>3, <2>4, <3>2, <3>3, <3>4 DEF Held1
    <3>6. Told'
      BY <2>2, <3>1 DEF Told
    <3> QED
      BY <3>1, <3>5, <3>6
  <2>5. CASE ~Held(f)
    <3> DEFINE item == Item("text", f.text)
    <3>1. f.text = said + 1 /\ f.text # 0 /\ ~f.finish
      BY <1>0, <2>3, <2>5
    <3>2. client' = client \o <<item>> /\ UNCHANGED <<acc, buffered>> /\ said' = said + 1
      BY <2>1, <2>2, <2>3, <2>5, <3>1, ItemsOfText DEF Receive
    <3>3. item \in Answer!Item /\ item.kind = "text" /\ item.n = said + 1
      BY <1>0, <3>1 DEF Item, Answer!Item
    <3>4. client \in Seq(Answer!Item) /\ \A i \in DOMAIN client : client[i].kind \in {"text", "error"}
      BY <2>2 DEF Told
    <3>5. client' = Append(client, item)
      BY <3>2, <3>3, <3>4
    <3>6. Answer!Next
      BY <1>0, <3>3, <3>4, <3>5, AnswerStep DEF Answer!Part
    <3>7. /\ client' \in Seq(Answer!Item)
          /\ DOMAIN client' = DOMAIN client \cup {Len(client) + 1}
          /\ client'[Len(client) + 1] = item
          /\ \A i \in DOMAIN client : client'[i] = client[i]
      BY <3>3, <3>4, <3>5, TellItem
    <3> HIDE DEF item
    <3>8. \A i \in DOMAIN client' : client'[i].kind \in {"text", "error"} /\ client'[i].n <= said'
      <4>1. \A i \in DOMAIN client : client[i] \in Answer!Item /\ client[i].n <= said
        BY <3>4 DEF Told
      <4>2. \A i \in DOMAIN client : client[i].n \in Nat
        BY <4>1 DEF Answer!Item
      <4> QED
        BY <1>0, <3>2, <3>3, <3>4, <3>7, <4>1, <4>2
    <3>9. \A n \in 1 .. said' : \E i \in DOMAIN client' : client'[i] = Item("text", n)
      <4>1. \A n \in 1 .. said : \E i \in DOMAIN client' : client'[i] = Item("text", n)
        BY <3>7 DEF Told
      <4>2. client'[Len(client) + 1] = Item("text", said')
        BY <3>1, <3>2, <3>7 DEF item
      <4>3. ASSUME NEW n \in 1 .. said' PROVE n \in 1 .. said \/ n = said'
        BY <1>0, <3>2, <4>3
      <4>4. Len(client) + 1 \in DOMAIN client' /\ DOMAIN client \subseteq DOMAIN client'
        BY <3>7
      <4>5. ASSUME NEW n \in 1 .. said' PROVE \E i \in DOMAIN client' : client'[i] = Item("text", n)
        BY <3>7, <4>1, <4>2, <4>3, <4>4
      <4> QED
        BY <4>5
    <3>10. Told'
      BY <2>2, <3>7, <3>8, <3>9 DEF Told
    <3>11. Held1'
      BY <2>2, <3>2 DEF Held1
    <3> QED
      BY <3>6, <3>10, <3>11
  <2> QED
    BY <2>4, <2>5
<1>2. CASE ReceiveError \/ StreamBreaks \/ NextRoundFails
  <2>1. PICK kind \in {"error", "failed"} : Tell(kind) /\ (step' = "read" => kind = "error" /\ step = "read")
    BY <1>2 DEF ReceiveError, StreamBreaks, NextRoundFails
  <2> DEFINE item == Item(kind, 0)
  <2>2. client' = Append(client, item) /\ item \in Answer!Item /\ item.kind = kind /\ item.n = 0
    BY <2>1 DEF Tell, Item, Answer!Item
  <2>3. /\ step \in {"read", "search"} /\ step' \in {"read", "ended"}
        /\ UNCHANGED <<buffered, said>> /\ (step' = "read" => over')
    BY <1>2 DEF ReceiveError, StreamBreaks, NextRoundFails
  <2>4. client \in Seq(Answer!Item) /\ \A i \in DOMAIN client : client[i].kind \in {"text", "error"}
    BY <2>3 DEF Told
  <2>5. Answer!Next
    <3>1. Answer!Part["text"] = 0 /\ Answer!Part["error"] = 0 /\ Answer!Part["failed"] = 4
      BY DEF Answer!Part
    <3> QED
      BY <1>0, <2>1, <2>2, <2>4, <3>1, AnswerStep
  <2>6. /\ client' \in Seq(Answer!Item)
        /\ DOMAIN client' = DOMAIN client \cup {Len(client) + 1}
        /\ client'[Len(client) + 1] = item
        /\ \A i \in DOMAIN client : client'[i] = client[i]
    BY <2>2, <2>4, TellItem
  <2> HIDE DEF item
  <2>7. Told'
    <3>1. \A i \in DOMAIN client' : client'[i].kind # "search" /\ client'[i].n <= said'
      BY <1>0, <2>1, <2>2, <2>3, <2>6 DEF Told
    <3>2. step' = "read" => \A i \in DOMAIN client' : client'[i].kind \in {"text", "error"}
      BY <2>1, <2>2, <2>4, <2>6
    <3>3. \A n \in 1 .. said' : \E i \in DOMAIN client' : client'[i] = Item("text", n)
      BY <2>3, <2>6 DEF Told
    <3> QED
      BY <2>3, <2>6, <3>1, <3>2, <3>3 DEF Told
  <2>8. Held1'
    BY <2>1, <2>3 DEF Held1
  <2> QED
    BY <2>5, <2>7, <2>8
<1>3. CASE ReceiveDone
  <2>1. /\ buffered' = Append(buffered, DoneFrame) /\ UNCHANGED <<client, said>>
        /\ step = "read" /\ step' = "classify"
    BY <1>3 DEF ReceiveDone
  <2>2. Plain(DoneFrame) /\ Rank(DoneFrame) = 3
    BY DoneType DEF Plain, Rank, DoneFrame
  <2>3. \A k \in DOMAIN buffered' :
          \/ k \in DOMAIN buffered /\ buffered'[k] = buffered[k]
          \/ k = Len(buffered) + 1 /\ buffered'[k] = DoneFrame
    BY <2>1, DoneType DEF Typed
  <2>4. \A k \in DOMAIN buffered : Rank(buffered[k]) \in {1, 2} /\ k < Len(buffered) + 1
    BY <2>1 DEF Held1, Typed
  <2>5. ASSUME NEW k \in DOMAIN buffered', NEW l \in DOMAIN buffered', k < l
        PROVE  Before(Rank(buffered'[k]), buffered'[l])
    <3>1. k \in DOMAIN buffered
      BY <2>3, <2>4, <2>5 DEF Typed
    <3> QED
      BY <2>2, <2>3, <2>4, <2>5, <3>1 DEF Held1, Before
  <2>6. Held1'
    BY <2>1, <2>2, <2>3, <2>5 DEF Held1
  <2> QED
    BY <2>1, <2>6 DEF Told
<1>4. CASE BytesEnd \/ SearchRound
  <2>1. client' = client
    BY <1>4 DEF BytesEnd, SearchRound
  <2> QED
    BY <1>4, <2>1 DEF BytesEnd, SearchRound, Held1, Told
<1>5. ASSUME NEW i \in Indices, Execute(i) PROVE Tidy' /\ [Answer!Next]_client
  BY <1>5 DEF Execute, Held1, Told
<1>6. CASE NextRound
  BY <1>6 DEF NextRound, Held1, Told
<1>7. CASE FlushRound
  <2>1. UNCHANGED <<buffered, client, said>> /\ step = "classify" /\ step' = "flush"
    BY <1>7 DEF FlushRound
  <2>2. ASSUME NEW i \in DOMAIN client, NEW k \in DOMAIN buffered
        PROVE  client[i].kind # "failed" /\ Before(Answer!Part[client[i].kind], buffered[k])
    <3>1. Answer!Part[client[i].kind] = 0 /\ client[i].kind # "failed"
      BY <2>1 DEF Told, Answer!Part
    <3> QED
      BY <3>1 DEF Before, Rank
  <2> QED
    BY <2>1, <2>2 DEF Held1, Told
<1>8. CASE Flush
  <2> DEFINE f == Head(buffered)
  <2>1. /\ step = "flush" /\ step' = "flush" /\ buffered # << >> /\ buffered' = Tail(buffered)
        /\ said' = said
        /\ client' = IF SearchOnly(f) THEN client ELSE client \o ItemsOf(f)
    BY <1>8 DEF Flush
  <2>2. /\ 1 \in DOMAIN buffered /\ f = buffered[1]
        /\ \A k \in DOMAIN buffered' :
             k + 1 \in DOMAIN buffered /\ 1 < k + 1 /\ k \in Nat /\ buffered'[k] = buffered[k + 1]
    BY <2>1 DEF Typed
  <2> HIDE DEF f
  <2>3. Held1'
    <3>1. ASSUME NEW k \in DOMAIN buffered', NEW l \in DOMAIN buffered', k < l
          PROVE  Before(Rank(buffered'[k]), buffered'[l])
      <4>1. k + 1 < l + 1
        BY <2>2, <3>1
      <4> QED
        BY <2>2, <4>1 DEF Held1
    <3> QED
      BY <2>1, <2>2, <3>1 DEF Held1
  <2>4. \A k \in DOMAIN buffered' : Before(Rank(f), buffered'[k])
    BY <2>2 DEF Held1
  <2>5. CASE SearchOnly(f)
    BY <2>1, <2>2, <2>3, <2>5 DEF Told
  <2>6. CASE ~SearchOnly(f)
    <3> DEFINE kind == IF f.done THEN "done" ELSE IF f.finish THEN "finish" ELSE "call"
               item == Item(kind, 0)
    <3>1. ItemsOf(f) = <<item>>
      BY <2>2, <2>6, ItemsOfHeld DEF Held1, Calls
    <3>2. item \in Answer!Item /\ item.kind = kind /\ item.n = 0
      BY DEF Item, Answer!Item
    <3>3. Answer!Part[kind] = Rank(f) /\ kind \notin {"text", "search", "failed"}
      BY DEF Answer!Part, Rank
    <3> HIDE DEF item, kind
    <3>4. client \in Seq(Answer!Item)
      BY DEF Told
    <3>5. client' = Append(client, item)
      BY <2>1, <2>6, <3>1, <3>2, <3>4
    <3>6. /\ client' \in Seq(Answer!Item)
          /\ DOMAIN client' = DOMAIN client \cup {Len(client) + 1}
          /\ client'[Len(client) + 1] = item
          /\ \A i \in DOMAIN client : client'[i] = client[i]
      BY <3>2, <3>4, <3>5, TellItem
    <3>7. ASSUME NEW i \in DOMAIN client
          PROVE  /\ client[i].kind # "failed"
                 /\ Before(Answer!Part[client[i].kind], f)
                 /\ client[i].kind \in DOMAIN Answer!Part
      <4>1. client[i] \in Answer!Item /\ client[i].kind # "search"
        BY DEF Told
      <4> QED
        BY <2>1, <2>2, <4>1 DEF Told, Answer!Item, Answer!Part
    <3>8. Answer!Next
      <4>1. ASSUME NEW i \in DOMAIN client
            PROVE  /\ client[i].kind # "done"
                   /\ \/ Answer!Part[client[i].kind] < Answer!Part[kind]
                      \/ Answer!Part[client[i].kind] = Answer!Part[kind] /\ Answer!Part[kind] < 2
        <5>1. Before(Answer!Part[client[i].kind], f)
          BY <3>7
        <5>2. Answer!Part["done"] = 3 /\ Rank(f) \in 1 .. 3
          BY DEF Answer!Part, Rank
        <5>3. client[i].kind # "done"
          BY <5>1, <5>2 DEF Before
        <5>4. Answer!Part[client[i].kind] < Rank(f) \/ (Answer!Part[client[i].kind] = 1 /\ Rank(f) = 1)
          BY <5>1 DEF Before
        <5> QED
          BY <3>3, <5>3, <5>4
      <4> QED
        BY <1>0, <3>2, <3>3, <3>5, <4>1, AnswerStep
    <3>9. ASSUME NEW i \in DOMAIN client', NEW k \in DOMAIN buffered'
          PROVE  client'[i].kind # "failed" /\ Before(Answer!Part[client'[i].kind], buffered'[k])
      <4>1. CASE i \in DOMAIN client
        BY <2>1, <2>2, <3>6, <4>1 DEF Told
      <4>2. CASE i = Len(client) + 1
        BY <2>4, <3>2, <3>3, <3>6, <4>2
      <4> QED
        BY <3>6, <4>1, <4>2
    <3>10. \A i \in DOMAIN client' : client'[i].kind # "search" /\ client'[i].n <= said'
      BY <1>0, <2>1, <3>2, <3>3, <3>6 DEF Told
    <3>11. \A n \in 1 .. said' : \E i \in DOMAIN client' : client'[i] = Item("text", n)
      BY <2>1, <3>6 DEF Told
    <3>12. Told'
      BY <2>1, <3>6, <3>9, <3>10, <3>11 DEF Told
    <3> QED
      BY <2>3, <3>8, <3>12
  <2> QED
    BY <2>5, <2>6
<1>9. CASE FlushEnds
  BY <1>9 DEF FlushEnds, Held1, Told
<1>10. CASE UNCHANGED searchVars
  BY <1>10 DEF searchVars, Held1, Told
<1> QED
  BY <1>1, <1>2, <1>3, <1>4, <1>5, <1>6, <1>7, <1>8, <1>9, <1>10 DEF SearchNext, ReceiveFrame

LEMMA NextTInv ==
  CInv /\ Received /\ TInv /\ [SearchNext]_searchVars
    => TInv' /\ [odd' = {} => Answer!Next]_client
  BY NextTidy, ClientGrows DEF TInv

(* The loop implements OneAnswer: all its rounds together are one answer.  *)
THEOREM LoopIsOneAnswer == SearchSpec => ClientSeesOneAnswer
<1>1. SearchInit => Answer!Init
  BY DEF SearchInit, Answer!Init
<1> QED
  BY <1>1, CostAlways, InitTInv, NextTInv, PTL DEF SearchSpec, ClientSeesOneAnswer
=============================================================================
