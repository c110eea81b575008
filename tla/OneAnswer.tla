------------------------------ MODULE OneAnswer ------------------------------
(***************************************************************************)
(* What a client of a streaming request is promised, whatever klava does   *)
(* behind its back: one answer.  Its text comes in order, each piece once; *)
(* then the calls of the client's own tools; then one finish; then [DONE]. *)
(* The answer may stop anywhere, and it may be cut off by a failure.       *)
(***************************************************************************)
EXTENDS Naturals, Sequences

VARIABLE answer    \* the items the client has received

Item == [kind : {"text", "error", "call", "search", "finish", "done", "failed"}, n : Nat]

(* The parts of an answer; there is no part for the search tool.           *)
Part == [text |-> 0, error |-> 0, call |-> 1, finish |-> 2, done |-> 3, failed |-> 4]

Init == answer = << >>

InOrder(item) ==
  IF item.kind = "text"
    THEN /\ item.n > 0
         /\ item.n > 1 => \E i \in DOMAIN answer : answer[i].n = item.n - 1
         /\ \A i \in DOMAIN answer : answer[i].n < item.n
    ELSE item.n = 0

Receive(item) ==
  /\ item.kind \in DOMAIN Part
  /\ InOrder(item)
  /\ \A i \in DOMAIN answer :
       /\ answer[i].kind # "done"
       /\ \/ Part[answer[i].kind] < Part[item.kind]
          \/ Part[answer[i].kind] = Part[item.kind] /\ Part[item.kind] < 2
  /\ answer' = Append(answer, item)

Numbers == {0, 1} \cup {answer[i].n + 1 : i \in DOMAIN answer}

Next == \E kind \in DOMAIN Part, n \in Numbers : Receive([kind |-> kind, n |-> n])

Spec == Init /\ [][Next]_answer
=============================================================================
