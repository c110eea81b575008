------------------------ MODULE ExtensionChainProofs ------------------------
(***************************************************************************)
(* Machine-checked proofs about ExtensionChain, for every number of        *)
(* extensions and every MAX_DECIDE_ROUNDS.  The safety properties of the   *)
(* chain are not inductive on their own: they need to know that the loop   *)
(* locals agree with what the host really did for the current extension,   *)
(* and that extensions after the current one were not touched.             *)
(***************************************************************************)
EXTENDS ExtensionChain, SequenceTheorems, TLAPS

(* Where the chain stands and what that says of the history.               *)
Position ==
  /\ stage \in {"ask", "nested"} => cur \in Exts
  /\ stage # "over" <=> status = "pending"
  /\ status = "sent" => cur = NumExt + 1
  /\ status = "canned" => cur \in Exts /\ fate[cur] = "edited"
  /\ status = "rejected" =>
       \/ payload = NoMessages
       \/ cur \in Exts /\ fate[cur] \in {"failed", "denied"}

(* Extensions before, at and after the current one.                        *)
Progress ==
  /\ \A e \in Exts : e < cur =>
       /\ fate[e] # "pending"
       /\ e \in failClosed => fate[e] \notin {"failed", "denied"}
  /\ \A e \in Exts : e > cur =>
       asked[e] = 0 /\ spent[e] = 0 /\ fate[e] = "pending"
                    /\ lastAnswer[e] = "none"
  /\ cur \in Exts /\ stage # "over" => fate[cur] = "pending"

(* The loop locals are the host's own record of the current extension.     *)
Locals ==
  cur \in Exts /\ stage # "over" =>
    /\ decideResult = lastAnswer[cur]
    /\ decideRounds = asked[cur]
    /\ spent[cur] = IF stage = "nested" THEN 1 ELSE 0

Budget ==
  /\ \A e \in Exts : asked[e] <= MAX_DECIDE_ROUNDS /\ spent[e] <= 1
  /\ nestedCallsUsed < cur

(* Edits, sharpened: nothing of the current or a later extension.          *)
Edits ==
  /\ EditsInNameOrder
  /\ \A i \in DOMAIN payload : payload[i] < cur

IInv ==
  /\ ChainTypeOK
  /\ Position
  /\ Progress
  /\ Locals
  /\ Budget
  /\ GateFailsClosed
  /\ Edits

-----------------------------------------------------------------------------
(* Edits, as a condition on the payload p that extension c leaves when its *)
(* fate is f.                                                              *)
Edited == {"edited", "replaced"}

EditBy(p, c, f) ==
  /\ p \in Seq(0 .. NumExt)
  /\ \A i \in DOMAIN p :
       /\ p[i] <= c
       /\ p[i] = c => f \in Edited
       /\ p[i] < c /\ p[i] # Client => fate[p[i]] \in Edited
  /\ \A i, j \in DOMAIN p : i < j /\ p[i] > p[j] =>
       f = "replaced" \/ \E r \in Exts : r >= p[i] /\ fate[r] = "replaced"
  /\ \/ f = "replaced"
     \/ \E i \in DOMAIN p : p[i] = Client
     \/ \E r \in Exts : fate[r] = "replaced"

(* What an extension got so far is a legal edit of any fate.               *)
LEMMA OldPayloadIsEdit ==
  ASSUME IInv, cur \in Exts, NEW f \in Fates
  PROVE  EditBy(payload, cur, f)
<1>1. \A i \in DOMAIN payload : payload[i] \in 0 .. NumExt
  BY ChainAssumption DEF IInv, ChainTypeOK
<1>2. cur \in Nat
  BY DEF Exts
<1>. QED BY <1>1, <1>2 DEF IInv, ChainTypeOK, Edits, EditsInNameOrder, EditBy, Edited

(* So are its messages followed by some of the extension's own.            *)
LEMMA AddedPayloadIsEdit ==
  ASSUME IInv, cur \in Exts, NEW n \in Nat
  PROVE  EditBy(payload \o [k \in 1 .. n |-> cur], cur, "edited")
<1> DEFINE own == [k \in 1 .. n |-> cur]
           q == payload \o own
<1>1. payload \in Seq(0 .. NumExt) /\ cur \in 0 .. NumExt
  BY ChainAssumption DEF IInv, ChainTypeOK, Exts
<1>2. own \in Seq(0 .. NumExt) /\ Len(own) = n
  BY <1>1
<1>3. q \in Seq(0 .. NumExt) /\ Len(q) = Len(payload) + n
  BY <1>1, <1>2
<1>4. DOMAIN q = 1 .. Len(payload) + n /\ DOMAIN payload = 1 .. Len(payload)
      /\ Len(payload) \in Nat
  BY <1>1, <1>3
<1>5. ASSUME NEW i \in DOMAIN q
      PROVE  \/ i \in DOMAIN payload /\ q[i] = payload[i]
             \/ i > Len(payload) /\ q[i] = cur
  <2>1. CASE i <= Len(payload)
    BY <2>1, <1>1, <1>2, <1>4
  <2>2. CASE i > Len(payload)
    <3>1. q[i] = own[i - Len(payload)]
      BY <2>2, <1>1, <1>2, <1>4
    <3>. QED BY <2>2, <3>1, <1>4
  <2>. QED BY <2>1, <2>2, <1>4
<1>6. \A i \in DOMAIN payload : i \in DOMAIN q /\ q[i] = payload[i]
  BY <1>1, <1>2, <1>4
<1>7. EditBy(payload, cur, "edited")
  BY OldPayloadIsEdit DEF Fates
<1>8. cur \in Nat /\ cur # Client /\ \A i \in DOMAIN payload : payload[i] < cur /\ payload[i] \in Nat
  BY <1>1, ChainAssumption DEF IInv, Edits, Exts, Client
<1>. HIDE DEF q
<1>9. \A i \in DOMAIN q : /\ q[i] <= cur
                          /\ q[i] < cur /\ q[i] # Client => fate[q[i]] \in Edited
  BY <1>5, <1>7, <1>8 DEF EditBy
<1>10. ASSUME NEW i \in DOMAIN q, NEW j \in DOMAIN q, i < j, q[i] > q[j]
       PROVE  \E r \in Exts : r >= q[i] /\ fate[r] = "replaced"
  <2>1. j \in DOMAIN payload /\ q[j] = payload[j]
    BY <1>5, <1>9, <1>8, <1>10
  <2>2. i \in DOMAIN payload /\ q[i] = payload[i]
    BY <1>5, <2>1, <1>4, <1>10
  <2>. QED BY <2>1, <2>2, <1>10 DEF IInv, Edits, EditsInNameOrder
<1>11. \/ \E i \in DOMAIN q : q[i] = Client
       \/ \E r \in Exts : fate[r] = "replaced"
  BY <1>6 DEF IInv, Edits, EditsInNameOrder
<1>12. EditBy(q, cur, "edited")
  BY <1>3, <1>9, <1>10, <1>11 DEF EditBy, Edited
<1>. QED BY <1>12 DEF q

LEMMA AppendedPayloadIsEdit ==
  ASSUME IInv, cur \in Exts
  PROVE  EditBy(Append(payload, cur), cur, "edited")
<1>1. payload \in Seq(0 .. NumExt) /\ cur \in 0 .. NumExt
  BY ChainAssumption DEF IInv, ChainTypeOK, Exts
<1>2. Append(payload, cur) = payload \o [k \in 1 .. 1 |-> cur]
  BY <1>1
<1>. QED BY <1>2, AddedPayloadIsEdit

(* A replacement may have any order.                                       *)
LEMMA RewrittenIsEdit ==
  ASSUME IInv, cur \in Exts, NEW p \in Rewritten(payload, cur)
  PROVE  EditBy(p, cur, "replaced")
<1>1. PICK n \in 0 .. MaxMessages :
        p \in [1 .. n -> {payload[i] : i \in DOMAIN payload} \cup {cur}]
  BY DEF Rewritten
<1>2. \A i \in DOMAIN payload : payload[i] < cur /\ payload[i] \in 0 .. NumExt
  BY ChainAssumption DEF IInv, ChainTypeOK, Edits
<1>3. cur \in 0 .. NumExt /\ cur \in Nat
  BY ChainAssumption DEF Exts
<1>4. \A i \in 1 .. n : p[i] = cur \/ \E k \in DOMAIN payload : p[i] = payload[k]
  BY <1>1
<1>5. p \in Seq(0 .. NumExt) /\ DOMAIN p = 1 .. n
  <2>1. \A i \in 1 .. n : p[i] \in 0 .. NumExt
    BY <1>2, <1>3, <1>4
  <2>2. n \in Nat
    BY ChainAssumption
  <2>3. p \in [1 .. n -> 0 .. NumExt] /\ DOMAIN p = 1 .. n
    BY <1>1, <2>1
  <2>. QED BY <2>2, <2>3, SeqDef
<1>6. \A i \in DOMAIN p : /\ p[i] <= cur
                          /\ p[i] < cur /\ p[i] # Client => fate[p[i]] \in Edited
  BY <1>2, <1>3, <1>4, <1>5 DEF IInv, Edits, EditsInNameOrder, Edited
<1>. QED BY <1>5, <1>6 DEF EditBy, Edited

(* Leaving the loop for the next extension keeps the invariant.            *)
LEMMA AdvanceKeepsInv ==
  ASSUME IInv, cur \in Exts, stage # "over",
         NEW f \in Fates \ {"pending"},
         cur \in failClosed => f \notin {"failed", "denied"},
         NextExtension(f), UNCHANGED <<asked, lastAnswer, spent>>,
         nestedCallsUsed' \in {nestedCallsUsed, nestedCallsUsed + 1},
         EditBy(payload', cur, f)
  PROVE  IInv'
<1> USE ChainAssumption DEF IInv, NextExtension, config, Exts
<1>0. payload' \in Seq(0 .. NumExt)
  BY DEF EditBy
<1>1. ChainTypeOK'
  BY <1>0 DEF ChainTypeOK, Phases, Fates, Answers
<1>2. cur' = cur + 1 /\ cur \in Nat /\ fate \in [Exts -> Fates]
      /\ fate' = [fate EXCEPT ![cur] = f]
  BY DEF ChainTypeOK
<1>3. Position'
  BY DEF ChainTypeOK, Position
<1>4. Progress'
  BY DEF ChainTypeOK, Progress
<1>5. Locals'
  BY <1>2 DEF ChainTypeOK, Locals, Progress
<1>6. Budget'
  BY <1>2 DEF ChainTypeOK, Budget
<1>7. GateFailsClosed'
  BY DEF ChainTypeOK, GateFailsClosed
<1>8. Edits'
  <2>1. \A i \in DOMAIN payload' : payload'[i] \in Nat
    BY DEF EditBy
  <2>2. \A i \in DOMAIN payload' : payload'[i] < cur'
    BY <1>2, <2>1 DEF EditBy
  <2>3. \A i \in DOMAIN payload' :
          payload'[i] # Client => fate'[payload'[i]] \in Edited
    BY <1>2, <2>1 DEF EditBy, Client
  <2>4. fate[cur] = "pending"
    BY DEF Progress
  <2>5. \A r \in Exts : fate[r] = "replaced" => fate'[r] = "replaced"
    BY <1>2, <2>4
  <2>6. f = "replaced" => fate'[cur] = "replaced"
    BY <1>2
  <2>7. \A i, j \in DOMAIN payload' : i < j /\ payload'[i] > payload'[j] =>
          \E r \in Exts : r >= payload'[i] /\ fate'[r] = "replaced"
    BY <1>2, <2>1, <2>5, <2>6 DEF EditBy
  <2>8. \/ \E i \in DOMAIN payload' : payload'[i] = Client
        \/ \E r \in Exts : fate'[r] = "replaced"
    BY <2>5, <2>6 DEF EditBy
  <2>. QED BY <2>2, <2>3, <2>7, <2>8 DEF Edits, EditsInNameOrder, Edited
<1>. QED BY <1>1, <1>3, <1>4, <1>5, <1>6, <1>7, <1>8

(* Ending the request changes no verdict but the current one.              *)
LEMMA EndingKeepsEdits ==
  ASSUME IInv, cur \in Exts, stage # "over", NEW f,
         fate' = [fate EXCEPT ![cur] = f], UNCHANGED <<payload, cur>>
  PROVE  Edits'
<1> USE DEF IInv
<1>1. /\ fate[cur] = "pending" /\ fate \in [Exts -> Fates]
      /\ payload' = payload /\ cur' = cur
  BY DEF Progress, ChainTypeOK
<1>2. \A r \in Exts : r # cur => fate'[r] = fate[r]
  BY <1>1
<1>3. \A r \in Exts : fate[r] = "replaced" => fate'[r] = "replaced"
  BY <1>1, <1>2
<1>4. \A i \in DOMAIN payload : payload[i] \in 0 .. NumExt /\ payload[i] < cur
  BY ChainAssumption DEF ChainTypeOK, Edits
<1>5. \A i \in DOMAIN payload : payload[i] # Client =>
        payload[i] \in Exts /\ payload[i] # cur
  BY <1>4, ChainAssumption DEF Exts, Client
<1>6. \A i \in DOMAIN payload : payload[i] # Client =>
        fate'[payload[i]] \in {"edited", "replaced"}
  BY <1>2, <1>5 DEF Edits, EditsInNameOrder
<1>. QED BY <1>1, <1>3, <1>4, <1>6 DEF Edits, EditsInNameOrder

(* Ending the request with an error keeps it too.                          *)
LEMMA RejectKeepsInv ==
  ASSUME IInv, cur \in Exts, stage # "over", NEW f \in {"failed", "denied"},
         Reject(f), UNCHANGED <<payload, paid>>
  PROVE  IInv'
<1> USE ChainAssumption DEF IInv, Reject, config, local, paid, Exts
<1>1. ChainTypeOK'
  BY DEF ChainTypeOK, Phases, Fates, Statuses
<1>2. Position'
  BY DEF ChainTypeOK, Position
<1>3. Progress'
  BY DEF ChainTypeOK, Progress
<1>4. Locals' /\ Budget' /\ GateFailsClosed'
  BY DEF ChainTypeOK, Locals, Budget, GateFailsClosed
<1>5. Edits'
  BY EndingKeepsEdits
<1>. QED BY <1>1, <1>2, <1>3, <1>4, <1>5

(* The three steps that stay inside one extension's loop.                  *)
LEMMA LoopStepsKeepInv ==
  ASSUME IInv, AskStarts \/ AskAnswered \/ NestedSent
  PROVE  IInv'
<1> USE ChainAssumption DEF IInv, config, local, paid, Running, Exts
<1>1. CASE AskStarts
  <2>1. ChainTypeOK' /\ Position' /\ Progress'
    BY <1>1 DEF AskStarts, ChainTypeOK, Position, Progress, Phases
  <2>2. Locals' /\ Budget' /\ GateFailsClosed'
    BY <1>1 DEF AskStarts, ChainTypeOK, Locals, Budget, GateFailsClosed
  <2>3. Edits'
    BY <1>1 DEF AskStarts, Edits, EditsInNameOrder
  <2>. QED BY <2>1, <2>2, <2>3
<1>2. CASE AskAnswered
  <2>1. ChainTypeOK' /\ Position' /\ Progress'
    BY <1>2 DEF AskAnswered, ChainTypeOK, Position, Progress, Phases, Answers
  <2>2. spent[cur] = 0
    BY <1>2 DEF AskAnswered, Position, Locals
  <2>3. Locals' /\ Budget' /\ GateFailsClosed'
    BY <1>2, <2>2 DEF AskAnswered, ChainTypeOK, Position, Locals, Budget,
                      GateFailsClosed
  <2>4. Edits'
    BY <1>2 DEF AskAnswered, Edits, EditsInNameOrder
  <2>. QED BY <2>1, <2>3, <2>4
<1>3. CASE NestedSent
  <2>1. ChainTypeOK' /\ Position' /\ Progress'
    BY <1>3 DEF NestedSent, ChainTypeOK, Position, Progress, Phases
  <2>2. spent[cur] = 0 /\ (requireDecide => lastAnswer[cur] = "yes")
    BY <1>3 DEF NestedSent, Locals, Approved
  <2>3. Locals' /\ Budget' /\ GateFailsClosed'
    BY <1>3, <2>2 DEF NestedSent, ChainTypeOK, Locals, Budget, GateFailsClosed
  <2>4. Edits'
    BY <1>3 DEF NestedSent, Edits, EditsInNameOrder
  <2>. QED BY <2>1, <2>3, <2>4
<1>. QED BY <1>1, <1>2, <1>3

(* The two steps that end the request without a verdict of an extension.   *)
LEMMA EndingStepsKeepInv ==
  ASSUME IInv, NestedTakenOver \/ Deliver
  PROVE  IInv'
<1> USE ChainAssumption DEF IInv, config, local, paid, Exts
<1>1. CASE NestedTakenOver
  <2>1. cur \in Exts /\ fate[cur] = "pending"
    BY <1>1 DEF NestedTakenOver, Position, Progress
  <2>2. ChainTypeOK' /\ Position' /\ Progress'
    BY <1>1, <2>1 DEF NestedTakenOver, ChainTypeOK, Position, Progress, Phases,
                      Fates, Statuses
  <2>3. Locals' /\ Budget' /\ GateFailsClosed'
    BY <1>1 DEF NestedTakenOver, ChainTypeOK, Locals, Budget, GateFailsClosed
  <2>4. Edits'
    BY <1>1, <2>1, EndingKeepsEdits DEF NestedTakenOver
  <2>. QED BY <2>2, <2>3, <2>4
<1>2. CASE Deliver
  <2>1. ChainTypeOK' /\ Position' /\ Progress'
    BY <1>2 DEF Deliver, ChainTypeOK, Position, Progress, Phases, Statuses
  <2>2. Locals' /\ Budget' /\ GateFailsClosed'
    BY <1>2 DEF Deliver, ChainTypeOK, Locals, Budget, GateFailsClosed
  <2>3. Edits'
    BY <1>2 DEF Deliver, Edits, EditsInNameOrder
  <2>. QED BY <2>1, <2>2, <2>3
<1>. QED BY <1>1, <1>2

LEMMA InitEstablishesInv == ChainInit => IInv
<1> SUFFICES ASSUME ChainInit PROVE IInv
  OBVIOUS
<1> USE ChainAssumption DEF ChainInit, Exts
<1>1. payload \in Seq(0 .. NumExt) /\ DOMAIN payload = {1} /\ payload[1] = 0
  BY DEF Client
<1>2. ChainTypeOK
  BY <1>1 DEF ChainTypeOK, Phases, Statuses, Fates, Answers
<1>3. Position /\ Progress /\ Locals /\ Budget /\ GateFailsClosed
  BY DEF Position, Progress, Locals, Budget, GateFailsClosed
<1>4. Edits
  BY <1>1 DEF Edits, EditsInNameOrder, Client
<1>. QED BY <1>2, <1>3, <1>4 DEF IInv

LEMMA StepKeepsInv == IInv /\ [ChainNext]_chainVars => IInv'
<1> SUFFICES ASSUME IInv, [ChainNext]_chainVars PROVE IInv'
  OBVIOUS
<1> USE DEF Running, Fates, paid
<1>0. /\ nestedCallsUsed \in Nat
      /\ stage \in {"ask", "nested"} => cur \in Exts
  BY DEF IInv, ChainTypeOK, Position
<1>1. CASE ExtensionFails
  <2>1. CASE cur \in failClosed
    BY <1>1, <2>1, RejectKeepsInv DEF ExtensionFails
  <2>2. CASE cur \notin failClosed
    BY <1>1, <2>2, AdvanceKeepsInv, OldPayloadIsEdit DEF ExtensionFails, EditBy
  <2>. QED BY <2>1, <2>2
<1>2. CASE ReplyContinue
  BY <1>2, AdvanceKeepsInv, OldPayloadIsEdit DEF ReplyContinue, EditBy
<1>3. CASE ReplyReplace
  <2>1. cur \in Exts
    BY <1>3 DEF ReplyReplace
  <2>2. EditBy(payload', cur, "replaced")
    BY <1>3, <2>1, RewrittenIsEdit DEF ReplyReplace
  <2>. QED BY <1>3, <2>1, <2>2, AdvanceKeepsInv DEF ReplyReplace
<1>4. CASE ReplyAppend
  <2>1. cur \in Exts
    BY <1>4 DEF ReplyAppend
  <2>2. EditBy(payload', cur, "edited")
    BY <1>4, <2>1, AddedPayloadIsEdit DEF ReplyAppend
  <2>. QED BY <1>4, <2>1, <2>2, AdvanceKeepsInv DEF ReplyAppend
<1>5. CASE ReplyDeny
  <2>1. CASE Reject("denied")
    BY <1>5, <2>1, RejectKeepsInv DEF ReplyDeny
  <2>2. CASE cur \notin failClosed /\ NextExtension("denied")
    BY <1>5, <2>2, AdvanceKeepsInv, OldPayloadIsEdit DEF ReplyDeny, EditBy
  <2>. QED BY <1>5, <2>1, <2>2 DEF ReplyDeny
<1>6. CASE AskExhausted \/ NestedRefused
  BY <1>6, AdvanceKeepsInv, OldPayloadIsEdit
     DEF AskExhausted, NestedRefused, EditBy
<1>7. CASE AskFailed \/ NestedUnsendable \/ NestedFailed
  BY <1>0, <1>7, AdvanceKeepsInv, OldPayloadIsEdit
     DEF AskFailed, NestedUnsendable, NestedFailed, EditBy
<1>8. CASE NestedAppended
  <2>1. cur \in Exts
    BY <1>0, <1>8 DEF NestedAppended
  <2>2. EditBy(payload', cur, "edited")
    BY <1>8, <2>1, OldPayloadIsEdit, AppendedPayloadIsEdit DEF NestedAppended
  <2>. QED BY <1>8, <2>1, <2>2, AdvanceKeepsInv DEF NestedAppended
<1>9. CASE AskStarts \/ AskAnswered \/ NestedSent
  BY <1>9, LoopStepsKeepInv
<1>10. CASE NestedTakenOver \/ Deliver
  BY <1>10, EndingStepsKeepInv
<1>11. CASE NestedPanics
  BY <1>11, RejectKeepsInv DEF NestedPanics
<1>12. CASE UNCHANGED chainVars
  BY <1>12 DEF chainVars, config, local, IInv, ChainTypeOK, Position, Progress, Locals,
               Budget, GateFailsClosed, Edits, EditsInNameOrder
<1>. QED
  BY <1>1, <1>2, <1>3, <1>4, <1>5, <1>6, <1>7, <1>8, <1>9, <1>10, <1>11, <1>12
     DEF ChainNext

LEMMA Invariance == ChainSpec => []IInv
BY InitEstablishesInv, StepKeepsInv, PTL DEF ChainSpec

-----------------------------------------------------------------------------
(* Every variable keeps its type; in particular no extension gets more     *)
(* decide rounds than MAX_DECIDE_ROUNDS.                                   *)
THEOREM TypeCorrect == ChainSpec => []ChainTypeOK
<1>1. IInv => ChainTypeOK
  BY DEF IInv
<1>. QED BY <1>1, Invariance, PTL

(* The spending gate fails closed whatever the extensions answer.          *)
THEOREM GateIsClosed == ChainSpec => []GateFailsClosed
<1>1. IInv => GateFailsClosed
  BY DEF IInv
<1>. QED BY <1>1, Invariance, PTL

(* The cost of one client request is bounded, extension by extension.      *)
THEOREM CostIsBounded == ChainSpec => []SpendBounded
<1>1. IInv => SpendBounded
  BY DEF IInv, SpendBounded, Budget, Progress
<1>. QED BY <1>1, Invariance, PTL

(* A fail-closed gate that broke or denied is never passed, nothing is     *)
(* sent around an extension, and nothing else rejects a request.           *)
THEOREM GatesAreObeyed == ChainSpec => []GatesHold
<1>1. IInv => GatesHold
  <2> SUFFICES ASSUME IInv PROVE GatesHold
    OBVIOUS
  <2> USE ChainAssumption DEF IInv, ChainTypeOK, Position, Progress, Exts
  <2>1. ASSUME status \in {"sent", "canned"}, NEW e \in failClosed
        PROVE  fate[e] \notin {"failed", "denied"}
    BY <2>1
  <2>2. ASSUME status = "sent", NEW e \in Exts
        PROVE  fate[e] # "pending"
    BY <2>2
  <2>. QED BY <2>1, <2>2 DEF GatesHold
<1>. QED BY <1>1, Invariance, PTL

(* An extension that did not finish an edit leaves no trace in the         *)
(* payload, and only a replacement can take messages away or out of name   *)
(* order.                                                                  *)
THEOREM ChainFailsOpen == ChainSpec => []EditsInNameOrder
<1>1. IInv => EditsInNameOrder
  BY DEF IInv, Edits
<1>. QED BY <1>1, Invariance, PTL

=============================================================================
