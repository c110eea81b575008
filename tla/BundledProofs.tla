---------------------------- MODULE BundledProofs ----------------------------
(***************************************************************************)
(* What is proved of a request's way through the bundled extensions:       *)
(* ExtStepKeeps, for conversations of any length, any memory and any time. *)
(*                                                                         *)
(* ImagesKept: compression and advice leave every encoded text where it    *)
(* was (Alike). The guardrail puts a numbered place for each one. Two      *)
(* images have two numbers (Numbered: a number counts the ones in front),  *)
(* and a place is replaced by the image of its number only                 *)
(* (RestoredPlace), though the restoring goes through every word and all   *)
(* numbers.                                                                *)
(*                                                                         *)
(* SentRedacted: what the guardrail has redacted holds no detected word    *)
(* but those it missed, and restoring the images brings none back          *)
(* (RestoredClean).  No step of it changes the length of a text.           *)
(*                                                                         *)
(* ReplyInTime: a pass is started only while the budget lasts behind its   *)
(* predicted end, so the clock is at most the budget, the loading and the  *)
(* delay of one pass.                                                      *)
(***************************************************************************)
EXTENDS BundledExtensions, FiniteSetTheorems, WellFoundedInduction, TLAPS

LEMMA LeastOf ==
  ASSUME NEW T \in SUBSET Nat, T # {}
  PROVE  \E n \in T : \A k \in T : n <= k
<1>1. \E n \in T : \A k \in T : <<k, n>> \notin OpToRel(<, Nat)
  BY WFMin, NatLessThanWellFounded, Zenon
<1>2. PICK n \in T : \A k \in T : ~(k < n)
  BY <1>1, Zenon DEF OpToRel
<1> QED
  BY <1>2

(* The restoring of one word, placeholder by placeholder.                  *)
Upto(word, n, originals, f) ==
  f = [k \in 0 .. n |-> IF k = 0 THEN word ELSE Replaced(f[k - 1], k - 1, originals)]

LEMMA UptoExists ==
  ASSUME NEW word, NEW originals, NEW n \in Nat
  PROVE  \E f : Upto(word, n, originals, f)
<1> DEFINE T == {m \in Nat : ~\E f : Upto(word, m, originals, f)}
<1>1. CASE T = {}
  BY <1>1
<1>2. CASE T # {}
  <2>1. PICK m \in T : \A k \in T : m <= k
    BY <1>2, LeastOf
  <2>2. CASE m = 0
    <3> DEFINE f == [k \in 0 .. 0 |-> word]
    <3>1. f = [k \in 0 .. 0 |-> IF k = 0 THEN word ELSE Replaced(f[k - 1], k - 1, originals)]
      OBVIOUS
    <3> HIDE DEF f
    <3>2. Upto(word, 0, originals, f)
      BY <3>1 DEF Upto
    <3> QED
      BY <2>2, <3>2
  <2>3. CASE m # 0
    <3>1. m - 1 \in Nat /\ m \in Nat
      BY <2>3
    <3>2. PICK g : Upto(word, m - 1, originals, g)
      BY <2>1, <3>1
    <3> DEFINE f == [k \in 0 .. m |-> IF k = m THEN Replaced(g[m - 1], m - 1, originals)
                                      ELSE g[k]]
               r == [k \in 0 .. m |-> IF k = 0 THEN word
                                      ELSE Replaced(f[k - 1], k - 1, originals)]
    <3>3. ASSUME NEW k \in 0 .. m PROVE f[k] = r[k]
      <4>1. CASE k = m
        <5>1. f[k] = Replaced(g[m - 1], m - 1, originals) /\ f[m - 1] = g[m - 1]
          BY <3>1, <4>1
        <5> QED
          BY <2>3, <3>1, <4>1, <5>1
      <4>2. CASE k # m
        <5>1. f[k] = g[k] /\ k \in 0 .. (m - 1)
          BY <3>1, <4>2
        <5>2. g[k] = IF k = 0 THEN word ELSE Replaced(g[k - 1], k - 1, originals)
          BY <3>2, <5>1 DEF Upto
        <5>3. k # 0 => f[k - 1] = g[k - 1]
          BY <3>1, <4>2
        <5> QED
          BY <5>1, <5>2, <5>3
      <4> QED
        BY <4>1, <4>2
    <3>4. f = r
      BY <3>3
    <3>5. Upto(word, m, originals, f)
      BY <3>4 DEF Upto
    <3> QED
      BY <3>5
  <2> QED
    BY <2>2, <2>3
<1> QED
  BY <1>1, <1>2

LEMMA RestoredUpto ==
  ASSUME NEW word, NEW originals, Cardinality(originals) \in Nat
  PROVE  \E f : /\ Upto(word, Cardinality(originals), originals, f)
                /\ RestoredWord(word, originals) = f[Cardinality(originals)]
<1> DEFINE n == Cardinality(originals)
           f == CHOOSE g : Upto(word, n, originals, g)
<1>1. Upto(word, n, originals, f)
  BY UptoExists
<1>2. RestoredWord(word, originals) = f[n]
  BY DEF RestoredWord, Upto
<1> QED
  BY <1>1, <1>2

LEMMA RestoredClean ==
  ASSUME NEW word, NEW originals, Cardinality(originals) \in Nat,
         word.kind # "email", \A o \in originals : o.was.kind # "email"
  PROVE  RestoredWord(word, originals).kind # "email"
<1> DEFINE n == Cardinality(originals)
<1>1. PICK f : Upto(word, n, originals, f) /\ RestoredWord(word, originals) = f[n]
  BY RestoredUpto
<1> HIDE DEF n
<1>2. \A k \in 0 .. n : f[k] = IF k = 0 THEN word ELSE Replaced(f[k - 1], k - 1, originals)
  BY <1>1 DEF Upto
<1>3. n \in Nat
  BY DEF n
<1> DEFINE T == {k \in 0 .. n : f[k].kind = "email"}
<1>4. ASSUME T # {} PROVE FALSE
  <2>1. T \in SUBSET Nat
    BY <1>3
  <2> HIDE DEF T
  <2>2. PICK m \in T : \A k \in T : m <= k
    BY <1>4, <2>1, LeastOf
  <2>3. m \in 0 .. n /\ f[m].kind = "email"
    BY <2>2 DEF T
  <2>4. m # 0 /\ m - 1 \in 0 .. n
    BY <1>2, <1>3, <2>3
  <2>5. f[m - 1].kind # "email"
    BY <2>2, <2>3, <2>4 DEF T
  <2>6. f[m] = Replaced(f[m - 1], m - 1, originals)
    BY <1>2, <2>3, <2>4
  <2> DEFINE hits == {o \in originals : o.place = f[m - 1] /\ f[m - 1].n = m - 1}
  <2>7. CASE hits = {}
    BY <2>3, <2>5, <2>6, <2>7 DEF Replaced
  <2>8. CASE hits # {}
    <3>1. (CHOOSE o \in hits : TRUE) \in hits
      BY <2>8
    <3>2. f[m] = (CHOOSE o \in hits : TRUE).was
      BY <2>6, <2>8 DEF Replaced
    <3> QED
      BY <2>3, <3>1, <3>2
  <2> QED
    BY <2>7, <2>8
<1> QED
  BY <1>1, <1>3, <1>4

LEMMA RestoredPlace ==
  ASSUME NEW originals, Cardinality(originals) \in Nat,
         \A o \in originals : o.place.kind = "place" /\ o.was.kind # "place",
         NEW j \in Nat, j < Cardinality(originals),
         NEW o \in originals, o.place = Place(j),
         \A other \in originals : other.place = Place(j) => other = o
  PROVE  RestoredWord(Place(j), originals) = o.was
<1> DEFINE n == Cardinality(originals)
           word == Place(j)
<1>1. PICK f : Upto(word, n, originals, f) /\ RestoredWord(word, originals) = f[n]
  BY RestoredUpto
<1>2. n \in Nat /\ j < n
  OBVIOUS
<1>3. word.n = j /\ word.kind = "place"
  BY DEF Place
<1> HIDE DEF n
<1>4. \A k \in 0 .. n : f[k] = IF k = 0 THEN word ELSE Replaced(f[k - 1], k - 1, originals)
  BY <1>1 DEF Upto
<1> DEFINE T == {k \in 0 .. n : f[k] # IF k <= j THEN word ELSE o.was}
<1>5. ASSUME T # {} PROVE FALSE
  <2>1. T \in SUBSET Nat
    BY <1>2
  <2> HIDE DEF T
  <2>2. PICK m \in T : \A k \in T : m <= k
    BY <1>5, <2>1, LeastOf
  <2>3. m \in 0 .. n /\ f[m] # IF m <= j THEN word ELSE o.was
    BY <2>2 DEF T
  <2>4. m # 0 /\ m - 1 \in 0 .. n
    BY <1>2, <1>4, <2>3
  <2>5. f[m - 1] = IF m - 1 <= j THEN word ELSE o.was
    BY <2>2, <2>3, <2>4 DEF T
  <2>6. f[m] = Replaced(f[m - 1], m - 1, originals)
    BY <1>4, <2>3, <2>4
  <2> DEFINE hits == {x \in originals : x.place = f[m - 1] /\ f[m - 1].n = m - 1}
  <2>7. CASE m <= j
    <3>1. hits = {}
      BY <1>2, <1>3, <2>3, <2>5, <2>7
    <3> QED
      BY <2>3, <2>5, <2>6, <2>7, <3>1 DEF Replaced
  <2>8. CASE m = j + 1
    <3>0. f[m - 1] = word /\ m - 1 = j
      BY <2>3, <2>5, <2>8
    <3>1. o \in hits /\ \A x \in hits : x = o
      BY <1>3, <3>0
    <3>2. (CHOOSE x \in hits : TRUE) = o
      BY <3>1
    <3>3. f[m] = (CHOOSE x \in hits : TRUE).was
      BY <2>6, <3>1 DEF Replaced
    <3>4. ~(m <= j)
      BY <2>8
    <3> HIDE DEF hits, word
    <3> QED
      BY <2>3, <3>2, <3>3, <3>4
  <2>9. CASE m > j + 1
    <3>0. f[m - 1] = o.was
      BY <2>3, <2>5, <2>9
    <3>1. hits = {}
      BY <3>0
    <3> QED
      BY <2>3, <2>6, <2>9, <3>0, <3>1 DEF Replaced
  <2> QED
    BY <1>2, <2>3, <2>7, <2>8, <2>9
<1>6. f[n] = o.was
  BY <1>2, <1>5
<1> QED
  BY <1>1, <1>6 DEF n

-----------------------------------------------------------------------------
(* Payloads and the texts at their addresses.                              *)
MessagesOf(S) == [role : {"user", "assistant", "tool"}, calls : Seq(Nat),
                  error : BOOLEAN, texts : Seq(S)]

LEMMA AddressAt ==
  ASSUME NEW S, NEW msgs \in Seq(MessagesOf(S)), NEW a \in Addresses(msgs)
  PROVE  /\ a = [m |-> a.m, p |-> a.p]
         /\ a.m \in DOMAIN msgs /\ a.p \in DOMAIN msgs[a.m].texts
         /\ msgs[a.m] \in MessagesOf(S) /\ TextAt(msgs, a) \in S
<1>0. PICK m \in DOMAIN msgs : a \in {[m |-> m, p |-> p] : p \in DOMAIN msgs[m].texts}
  BY DEF Addresses
<1>1. PICK p \in DOMAIN msgs[m].texts : a = [m |-> m, p |-> p]
  BY <1>0
<1>2. msgs[m] \in MessagesOf(S)
  OBVIOUS
<1>3. msgs[m].texts \in Seq(S)
  BY <1>2 DEF MessagesOf
<1>4. msgs[m].texts[p] \in S
  BY <1>3
<1> QED
  BY <1>1, <1>2, <1>4 DEF TextAt

LEMMA AddressIs ==
  ASSUME NEW msgs, NEW m \in DOMAIN msgs, NEW p \in DOMAIN msgs[m].texts
  PROVE  [m |-> m, p |-> p] \in Addresses(msgs)
  BY DEF Addresses

LEMMA WithTextsAt ==
  ASSUME NEW S, NEW msgs \in Seq(MessagesOf(S)), NEW R, NEW text \in [Addresses(msgs) -> R]
  PROVE  /\ WithTexts(msgs, text) \in Seq(MessagesOf(R))
         /\ Addresses(WithTexts(msgs, text)) = Addresses(msgs)
         /\ \A a \in Addresses(msgs) : TextAt(WithTexts(msgs, text), a) = text[a]
<1> DEFINE new == WithTexts(msgs, text)
           row(m) == [p \in DOMAIN msgs[m].texts |-> text[[m |-> m, p |-> p]]]
<1>1. ASSUME NEW m \in DOMAIN msgs
      PROVE  /\ msgs[m] \in MessagesOf(S) /\ DOMAIN msgs[m].texts = 1 .. Len(msgs[m].texts)
             /\ Len(msgs[m].texts) \in Nat /\ row(m) \in Seq(R)
             /\ DOMAIN row(m) = DOMAIN msgs[m].texts
  <2>1. msgs[m] \in MessagesOf(S)
    OBVIOUS
  <2>2. msgs[m].texts \in Seq(S)
    BY <2>1 DEF MessagesOf
  <2>3. \A p \in DOMAIN msgs[m].texts : row(m)[p] \in R
    BY AddressIs
  <2>4. /\ DOMAIN row(m) = DOMAIN msgs[m].texts
        /\ row(m) = [p \in DOMAIN msgs[m].texts |-> row(m)[p]]
    OBVIOUS
  <2> HIDE DEF row
  <2>5. DOMAIN msgs[m].texts = 1 .. Len(msgs[m].texts) /\ Len(msgs[m].texts) \in Nat
    BY <2>2
  <2>6. row(m) \in [1 .. Len(msgs[m].texts) -> R]
    BY <2>3, <2>4, <2>5
  <2>7. row(m) \in Seq(R)
    BY <2>5, <2>6
  <2> QED
    BY <2>1, <2>4, <2>5, <2>7
<1>2. new = [m \in DOMAIN msgs |-> [msgs[m] EXCEPT !.texts = row(m)]]
  BY DEF WithTexts
<1> HIDE DEF row, new
<1>3. ASSUME NEW m \in DOMAIN msgs
      PROVE  new[m] \in MessagesOf(R) /\ new[m].texts = row(m)
  <2>1. new[m] = [msgs[m] EXCEPT !.texts = row(m)]
    BY <1>2
  <2> QED
    BY <1>1, <2>1 DEF MessagesOf
<1>4. DOMAIN new = DOMAIN msgs /\ DOMAIN msgs = 1 .. Len(msgs) /\ Len(msgs) \in Nat
  BY <1>2
<1>5. new \in Seq(MessagesOf(R))
  <2>1. new \in [1 .. Len(msgs) -> MessagesOf(R)]
    BY <1>2, <1>3, <1>4
  <2> QED
    BY <1>4, <2>1
<1>6. Addresses(new) = Addresses(msgs)
  <2>1. \A m \in DOMAIN msgs : DOMAIN new[m].texts = DOMAIN msgs[m].texts
    BY <1>1, <1>3
  <2> QED
    BY <1>4, <2>1 DEF Addresses
<1>7. ASSUME NEW a \in Addresses(msgs) PROVE TextAt(new, a) = text[a]
  <2>1. /\ a = [m |-> a.m, p |-> a.p]
        /\ a.m \in DOMAIN msgs /\ a.p \in DOMAIN msgs[a.m].texts
    BY AddressAt
  <2>2. row(a.m)[a.p] = text[a]
    BY <2>1 DEF row
  <2> QED
    BY <1>3, <2>1, <2>2 DEF TextAt
<1> QED
  BY <1>5, <1>6, <1>7 DEF new

PutText(msgs, a, new) == [msgs EXCEPT ![a.m].texts[a.p] = new]

LEMMA PutTextAt ==
  ASSUME NEW S, NEW msgs \in Seq(MessagesOf(S)), NEW a \in Addresses(msgs), NEW new \in S
  PROVE  LET put == PutText(msgs, a, new)
         IN /\ put \in Seq(MessagesOf(S))
            /\ Addresses(put) = Addresses(msgs)
            /\ \A b \in Addresses(msgs) :
                 TextAt(put, b) = IF b = a THEN new ELSE TextAt(msgs, b)
<1>1. /\ a = [m |-> a.m, p |-> a.p]
      /\ a.m \in DOMAIN msgs /\ a.p \in DOMAIN msgs[a.m].texts
      /\ msgs[a.m] \in MessagesOf(S)
  BY AddressAt
<1> DEFINE texts1 == [msgs[a.m].texts EXCEPT ![a.p] = new]
           message1 == [msgs[a.m] EXCEPT !.texts = texts1]
           put == [msgs EXCEPT ![a.m] = message1]
<1>2. PutText(msgs, a, new) = put
  BY DEF PutText
<1>3. msgs[a.m].texts \in Seq(S)
  BY <1>1 DEF MessagesOf
<1>4. /\ texts1 \in Seq(S) /\ DOMAIN texts1 = DOMAIN msgs[a.m].texts
      /\ \A p \in DOMAIN msgs[a.m].texts :
           texts1[p] = IF p = a.p THEN new ELSE msgs[a.m].texts[p]
  BY <1>1, <1>3
<1> HIDE DEF texts1
<1>5. message1 \in MessagesOf(S) /\ message1.texts = texts1
  BY <1>1, <1>4 DEF MessagesOf
<1> HIDE DEF message1
<1>6. /\ put \in Seq(MessagesOf(S)) /\ DOMAIN put = DOMAIN msgs
      /\ \A m \in DOMAIN msgs : put[m] = IF m = a.m THEN message1 ELSE msgs[m]
  BY <1>1, <1>5
<1> HIDE DEF put
<1>7. Addresses(put) = Addresses(msgs)
  <2>1. \A m \in DOMAIN msgs : DOMAIN put[m].texts = DOMAIN msgs[m].texts
    BY <1>4, <1>5, <1>6
  <2> QED
    BY <1>6, <2>1 DEF Addresses
<1>8. ASSUME NEW b \in Addresses(msgs)
      PROVE  TextAt(put, b) = IF b = a THEN new ELSE TextAt(msgs, b)
  <2>1. /\ b = [m |-> b.m, p |-> b.p]
        /\ b.m \in DOMAIN msgs /\ b.p \in DOMAIN msgs[b.m].texts
    BY AddressAt
  <2>2. CASE b.m # a.m
    BY <1>6, <2>1, <2>2 DEF TextAt
  <2>3. CASE b.m = a.m
    <3>1. put[b.m].texts[b.p] = IF b.p = a.p THEN new ELSE msgs[b.m].texts[b.p]
      BY <1>4, <1>5, <1>6, <2>1, <2>3
    <3>2. b = a <=> b.p = a.p
      BY <1>1, <2>1, <2>3
    <3> QED
      BY <3>1, <3>2 DEF TextAt
  <2> QED
    BY <2>2, <2>3
<1> QED
  BY <1>2, <1>6, <1>7, <1>8

-----------------------------------------------------------------------------
(* The placeholders.                                                       *)

LEMMA AddressesFinite ==
  ASSUME NEW S, NEW msgs \in Seq(MessagesOf(S))
  PROVE  IsFiniteSet(Addresses(msgs))
<1> DEFINE row(m) == {[m |-> m, p |-> p] : p \in DOMAIN msgs[m].texts}
           rows == {row(m) : m \in DOMAIN msgs}
<1>1. ASSUME NEW m \in DOMAIN msgs PROVE IsFiniteSet(row(m))
  <2>1. msgs[m] \in MessagesOf(S)
    OBVIOUS
  <2>2. DOMAIN msgs[m].texts = 1 .. Len(msgs[m].texts) /\ Len(msgs[m].texts) \in Nat
    BY <2>1 DEF MessagesOf
  <2>3. IsFiniteSet(DOMAIN msgs[m].texts)
    BY <2>2, FS_Interval
  <2> DEFINE f == [p \in DOMAIN msgs[m].texts |-> [m |-> m, p |-> p]]
  <2>4. f \in Surjection(DOMAIN msgs[m].texts, row(m))
    BY DEF Surjection
  <2> QED
    BY <2>3, <2>4, FS_Surjection
<1>2. IsFiniteSet(DOMAIN msgs)
  <2>1. DOMAIN msgs = 1 .. Len(msgs) /\ Len(msgs) \in Nat
    OBVIOUS
  <2> QED
    BY <2>1, FS_Interval
<1> HIDE DEF row
<1>3. IsFiniteSet(rows)
  <2> DEFINE f == [m \in DOMAIN msgs |-> row(m)]
  <2>1. f \in Surjection(DOMAIN msgs, rows)
    BY DEF Surjection
  <2> QED
    BY <1>2, <2>1, FS_Surjection
<1>4. \A T \in rows : IsFiniteSet(T)
  BY <1>1
<1> HIDE DEF rows
<1>5. IsFiniteSet(UNION rows)
  BY <1>3, <1>4, FS_UNION
<1> QED
  BY <1>5 DEF Addresses, rows, row

LEMMA Numbered ==
  ASSUME NEW S, NEW msgs \in Seq(MessagesOf(S))
  PROVE  /\ IsFiniteSet(EncodedAt(msgs)) /\ Cardinality(EncodedAt(msgs)) \in Nat
         /\ \A a \in EncodedAt(msgs) :
              EncodedBefore(msgs, a) \in 0 .. Cardinality(EncodedAt(msgs)) - 1
         /\ \A a, b \in EncodedAt(msgs) :
              EncodedBefore(msgs, a) = EncodedBefore(msgs, b) => a = b
<1>1. IsFiniteSet(EncodedAt(msgs)) /\ Cardinality(EncodedAt(msgs)) \in Nat
  <2>1. EncodedAt(msgs) \in SUBSET Addresses(msgs)
    BY DEF EncodedAt
  <2> QED
    BY <2>1, AddressesFinite, FS_Subset, FS_CardinalityType
<1> DEFINE front(b) == {a \in EncodedAt(msgs) : Before(a, b)}
<1>2. ASSUME NEW b \in EncodedAt(msgs)
      PROVE  /\ IsFiniteSet(front(b)) /\ Cardinality(front(b)) \in Nat
             /\ EncodedBefore(msgs, b) = Cardinality(front(b))
             /\ b.m \in Nat /\ b.p \in Nat /\ b = [m |-> b.m, p |-> b.p]
             /\ b \notin front(b)
  <2>1. front(b) \in SUBSET EncodedAt(msgs)
    OBVIOUS
  <2>2. b \in Addresses(msgs)
    BY DEF EncodedAt
  <2>3. /\ b = [m |-> b.m, p |-> b.p] /\ b.m \in DOMAIN msgs
        /\ b.p \in DOMAIN msgs[b.m].texts /\ msgs[b.m] \in MessagesOf(S)
    BY <2>2, AddressAt
  <2>4. msgs[b.m].texts \in Seq(S)
    BY <2>3 DEF MessagesOf
  <2>5. b.m \in Nat /\ b.p \in Nat
    BY <2>3, <2>4
  <2>6. b \notin front(b)
    BY <2>5 DEF Before
  <2> HIDE DEF front
  <2>7. IsFiniteSet(front(b)) /\ Cardinality(front(b)) \in Nat
    BY <1>1, <2>1, FS_Subset, FS_CardinalityType
  <2> QED
    BY <2>3, <2>5, <2>6, <2>7 DEF EncodedBefore, front
<1>3. ASSUME NEW T, NEW U, IsFiniteSet(U), T \subseteq U, NEW x \in U, x \notin T
      PROVE  Cardinality(T) < Cardinality(U)
  <2>1. Cardinality(T) <= Cardinality(U) /\ (Cardinality(U) = Cardinality(T) => U = T)
    BY <1>3, FS_Subset
  <2>2. Cardinality(T) \in Nat /\ Cardinality(U) \in Nat
    BY <1>3, FS_Subset, FS_CardinalityType
  <2> QED
    BY <1>3, <2>1, <2>2
<1>4. ASSUME NEW a \in EncodedAt(msgs)
      PROVE  EncodedBefore(msgs, a) \in 0 .. Cardinality(EncodedAt(msgs)) - 1
  <2>1. front(a) \subseteq EncodedAt(msgs)
    OBVIOUS
  <2> HIDE DEF front
  <2>2. Cardinality(front(a)) < Cardinality(EncodedAt(msgs))
    BY <1>1, <1>2, <1>3, <2>1
  <2> QED
    BY <1>1, <1>2, <2>2
<1>5. ASSUME NEW a \in EncodedAt(msgs), NEW b \in EncodedAt(msgs), Before(a, b)
      PROVE  EncodedBefore(msgs, a) < EncodedBefore(msgs, b)
  <2>1. a \in front(b)
    BY <1>5
  <2>2. ASSUME NEW x \in front(a) PROVE x \in front(b)
    <3>1. x \in EncodedAt(msgs) /\ Before(x, a)
      BY <2>2
    <3>2. /\ x.m \in Nat /\ x.p \in Nat /\ a.m \in Nat /\ a.p \in Nat
          /\ b.m \in Nat /\ b.p \in Nat
      BY <1>2, <3>1
    <3>3. Before(x, b)
      BY <1>5, <3>1, <3>2 DEF Before
    <3> QED
      BY <3>1, <3>3
  <2> HIDE DEF front
  <2>3. Cardinality(front(a)) < Cardinality(front(b))
    BY <1>2, <1>3, <2>1, <2>2
  <2> QED
    BY <1>2, <2>3
<1>6. ASSUME NEW a \in EncodedAt(msgs), NEW b \in EncodedAt(msgs),
             EncodedBefore(msgs, a) = EncodedBefore(msgs, b)
      PROVE  a = b
  <2>1. EncodedBefore(msgs, a) \in Int /\ EncodedBefore(msgs, b) \in Int
    BY <1>1, <1>4
  <2>2. ~Before(a, b) /\ ~Before(b, a)
    BY <1>5, <1>6, <2>1
  <2> HIDE DEF front
  <2>3. a.m \in Nat /\ a.p \in Nat /\ b.m \in Nat /\ b.p \in Nat
    BY <1>2
  <2>4. a.m = b.m /\ a.p = b.p
    BY <2>2, <2>3 DEF Before
  <2> QED
    BY <1>2, <2>4
<1> QED
  BY <1>1, <1>4, <1>6

LEMMA OriginalAt ==
  ASSUME NEW S, NEW msgs \in Seq(MessagesOf(S)), NEW a \in EncodedAt(msgs)
  PROVE  LET j == EncodedBefore(msgs, a)
             o == [place |-> Place(j), was |-> TextAt(msgs, a).words[1]]
         IN /\ Cardinality(Originals(msgs)) \in Nat
            /\ j \in Nat /\ j < Cardinality(Originals(msgs))
            /\ o \in Originals(msgs)
            /\ \A other \in Originals(msgs) : other.place = Place(j) => other = o
<1> DEFINE record(x) == [place |-> Placeholder(EncodedBefore(msgs, x)),
                         was |-> TextAt(msgs, x).words[1]]
           f == [x \in EncodedAt(msgs) |-> record(x)]
<1>1. Originals(msgs) = {record(x) : x \in EncodedAt(msgs)}
  BY DEF Originals
<1>2. \A x, y \in EncodedAt(msgs) : record(x).place = record(y).place => x = y
  BY Numbered DEF Placeholder, Place
<1>3. record(a) = [place |-> Place(EncodedBefore(msgs, a)), was |-> TextAt(msgs, a).words[1]]
  BY DEF Placeholder
<1> HIDE DEF record
<1>4. f \in Bijection(EncodedAt(msgs), Originals(msgs))
  BY <1>1, <1>2 DEF Bijection, Injection, Surjection, IsInjective
<1>5. Cardinality(Originals(msgs)) = Cardinality(EncodedAt(msgs))
  BY <1>4, Numbered, FS_Bijection DEF ExistsBijection
<1>6. record(a) \in Originals(msgs)
  BY <1>1
<1>7. \A other \in Originals(msgs) : other.place = record(a).place => other = record(a)
  BY <1>1, <1>2
<1>8. EncodedBefore(msgs, a) \in 0 .. Cardinality(EncodedAt(msgs)) - 1
      /\ Cardinality(EncodedAt(msgs)) \in Nat
  BY Numbered
<1> QED
  BY <1>3, <1>5, <1>6, <1>7, <1>8

-----------------------------------------------------------------------------
(* What the compressor and the guardrail make of a text.                   *)

LEMMA RewriteKeeps ==
  ASSUME NEW text \in ChatTexts, NEW new \in Rewrites(text) \cup {text}
  PROVE  /\ new \in ChatTexts /\ new.form = text.form
         /\ Encoded(text) => new.words[1] = text.words[1]
<1> DEFINE n == Len(text.words)
<1>1. /\ text \in [form : {"plain", "url", "code", "field"}, words : Seq(ChatWords)]
      /\ text.words \in Seq(ChatWords) /\ n \in Nat /\ DOMAIN text.words = 1 .. n
      /\ Encoded(text) => text.words # << >>
      /\ \A i \in 1 .. n : text.words[i].kind = "bytes" <=> (Encoded(text) /\ i = 1)
  BY DEF ChatTexts
<1>2. CASE new = text
  BY <1>2
<1>3. CASE new # text
  <2>1. PICK keep \in Keepings(n) :
          LET kept == [i \in DOMAIN keep |-> text.words[keep[i]]]
          IN /\ new = [text EXCEPT !.words = kept]
             /\ JudgeRebuilt(text.words, kept) /\ MeaningPreserved(text.words, kept)
    BY <1>3 DEF Rewrites
  <2>2. PICK k \in 0 .. n : /\ keep \in [1 .. k -> 1 .. n]
                            /\ \A i, j \in 1 .. k : i < j => keep[i] < keep[j]
    BY DEF Keepings
  <2> DEFINE kept == [i \in DOMAIN keep |-> text.words[keep[i]]]
  <2>3. /\ kept \in Seq(ChatWords) /\ DOMAIN kept = 1 .. k /\ k \in Nat
        /\ \A i \in 1 .. k : keep[i] \in 1 .. n /\ kept[i] = text.words[keep[i]]
    <3>1. DOMAIN keep = 1 .. k /\ k \in Nat
      BY <1>1, <2>2
    <3>2. \A i \in 1 .. k : keep[i] \in 1 .. n /\ kept[i] = text.words[keep[i]]
      BY <2>2, <3>1
    <3>3. \A i \in 1 .. n : text.words[i] \in ChatWords
      BY <1>1
    <3>4. kept = [i \in 1 .. k |-> kept[i]] /\ \A i \in 1 .. k : kept[i] \in ChatWords
      BY <3>1, <3>2, <3>3
    <3> HIDE DEF kept
    <3>5. kept \in Seq(ChatWords)
      BY <3>1, <3>4
    <3>6. DOMAIN kept = 1 .. k
      BY <3>4
    <3> QED
      BY <3>1, <3>2, <3>5, <3>6
  <2>4. new = [text EXCEPT !.words = kept] /\ kept # << >> /\ MeaningPreserved(text.words, kept)
    BY <2>1 DEF JudgeRebuilt
  <2> HIDE DEF kept
  <2>5. /\ new \in [form : {"plain", "url", "code", "field"}, words : Seq(ChatWords)]
        /\ new.form = text.form /\ new.words = kept /\ (Encoded(new) <=> Encoded(text))
    BY <1>1, <2>3, <2>4 DEF Encoded
  <2>6. Encoded(text) => 1 \in 1 .. k /\ keep[1] = 1
    <3> SUFFICES ASSUME Encoded(text) PROVE 1 \in 1 .. k /\ keep[1] = 1
      OBVIOUS
    <3>1. 1 \in 1 .. n /\ text.words[1].kind = "bytes"
      BY <1>1
    <3>2. text.words[1] \in ToSet(text.words)
      BY <1>1, <3>1 DEF ToSet
    <3>3. text.words[1] \in ToSet(kept)
      BY <2>4, <3>1, <3>2 DEF MeaningPreserved
    <3>4. PICK i \in 1 .. k : kept[i] = text.words[1]
      BY <2>3, <3>3 DEF ToSet
    <3>5. keep[i] = 1
      BY <1>1, <2>3, <3>1, <3>4
    <3>6. 1 \in 1 .. k /\ keep[1] \in 1 .. n /\ (i # 1 => keep[1] < keep[i])
      BY <2>2, <2>3
    <3> QED
      BY <1>1, <3>5, <3>6
  <2>7. \A i \in 1 .. k : new.words[i].kind = "bytes" <=> (Encoded(new) /\ i = 1)
    <3> SUFFICES ASSUME NEW i \in 1 .. k
                 PROVE  new.words[i].kind = "bytes" <=> (Encoded(new) /\ i = 1)
      OBVIOUS
    <3>1. new.words[i].kind = "bytes" <=> (Encoded(text) /\ keep[i] = 1)
      BY <1>1, <2>3, <2>5
    <3>2. Encoded(text) /\ i # 1 => keep[1] = 1 /\ keep[1] < keep[i]
      BY <2>2, <2>3, <2>6
    <3>3. keep[i] \in Nat
      BY <1>1, <2>3
    <3> QED
      BY <2>5, <2>6, <3>1, <3>2, <3>3
  <2>8. new \in ChatTexts
    BY <2>3, <2>4, <2>5, <2>7 DEF ChatTexts
  <2> QED
    BY <2>3, <2>5, <2>6, <2>8
<1> QED
  BY <1>2, <1>3

Loose == [form : {"plain", "url", "code", "field"}, words : Seq(ChatWords)]

LEMMA MaskedAt ==
  ASSUME NEW msgs \in Seq(ChatMessages)
  PROVE  /\ msgs \in Seq(MessagesOf(ChatTexts))
         /\ Masked(msgs) \in Seq(MessagesOf(Loose))
         /\ Addresses(Masked(msgs)) = Addresses(msgs)
         /\ \A a \in Addresses(msgs) :
              LET t == TextAt(Masked(msgs), a)
                  u == TextAt(msgs, a)
              IN /\ t.form = u.form /\ Len(t.words) = Len(u.words)
                 /\ \A i \in DOMAIN u.words :
                      t.words[i] = IF Encoded(u) /\ i = 1
                                     THEN Place(EncodedBefore(msgs, a)) ELSE u.words[i]
<1>1. msgs \in Seq(MessagesOf(ChatTexts))
  BY DEF ChatMessages, MessagesOf
<1> DEFINE mask(a) == IF Encoded(TextAt(msgs, a))
                        THEN [TextAt(msgs, a) EXCEPT !.words[1] = Placeholder(EncodedBefore(msgs, a))]
                        ELSE TextAt(msgs, a)
           text == [a \in Addresses(msgs) |-> mask(a)]
<1>2. ASSUME NEW a \in Addresses(msgs)
      PROVE  /\ mask(a) \in Loose
             /\ mask(a).form = TextAt(msgs, a).form
             /\ Len(mask(a).words) = Len(TextAt(msgs, a).words)
             /\ \A i \in DOMAIN TextAt(msgs, a).words :
                  mask(a).words[i] = IF Encoded(TextAt(msgs, a)) /\ i = 1
                                       THEN Place(EncodedBefore(msgs, a))
                                       ELSE TextAt(msgs, a).words[i]
  <2> DEFINE u == TextAt(msgs, a)
             place == Place(EncodedBefore(msgs, a))
             words1 == [u.words EXCEPT ![1] = place]
  <2>1. u \in ChatTexts
    BY <1>1, AddressAt
  <2>2. u \in Loose /\ u.words \in Seq(ChatWords) /\ (Encoded(u) => u.words # << >>)
    BY <2>1 DEF ChatTexts, Loose
  <2>3. CASE ~Encoded(u)
    BY <2>2, <2>3
  <2>4. CASE Encoded(u)
    <3>1. a \in EncodedAt(msgs)
      BY <2>4 DEF EncodedAt
    <3>2. EncodedBefore(msgs, a) \in Nat
      BY <1>1, <3>1, OriginalAt
    <3>3. place \in ChatWords
      BY <3>2 DEF ChatWords, Place
    <3>4. mask(a) = [u EXCEPT !.words = words1]
      BY <2>4 DEF Placeholder
    <3> HIDE DEF u, place, mask
    <3>5. /\ words1 \in Seq(ChatWords) /\ Len(words1) = Len(u.words)
          /\ \A i \in DOMAIN u.words : words1[i] = IF i = 1 THEN place ELSE u.words[i]
      BY <2>2, <2>4, <3>3
    <3> HIDE DEF words1
    <3>6. mask(a) \in Loose /\ mask(a).form = u.form /\ mask(a).words = words1
      BY <2>2, <3>4, <3>5 DEF Loose
    <3> QED
      BY <2>4, <3>5, <3>6 DEF u, place
  <2> QED
    BY <2>3, <2>4
<1>3. Masked(msgs) = WithTexts(msgs, text)
  BY DEF Masked
<1> HIDE DEF mask
<1>4. text \in [Addresses(msgs) -> Loose]
  BY <1>2
<1>5. \A a \in Addresses(msgs) : text[a] = mask(a)
  OBVIOUS
<1> HIDE DEF text
<1>6. /\ Masked(msgs) \in Seq(MessagesOf(Loose))
      /\ Addresses(Masked(msgs)) = Addresses(msgs)
      /\ \A a \in Addresses(msgs) : TextAt(Masked(msgs), a) = mask(a)
  BY <1>1, <1>3, <1>4, <1>5, WithTextsAt
<1> QED
  BY <1>1, <1>2, <1>6

LEMMA RedactedAt ==
  ASSUME NEW msgs \in Seq(MessagesOf(Loose)), NEW left
  PROVE  /\ Redacted(msgs, left) \in Seq(MessagesOf(Loose))
         /\ Addresses(Redacted(msgs, left)) = Addresses(msgs)
         /\ \A a \in Addresses(msgs) :
              LET t == TextAt(Redacted(msgs, left), a)
                  u == TextAt(msgs, a)
              IN /\ Len(t.words) = Len(u.words)
                 /\ \A i \in DOMAIN u.words :
                      t.words[i] = IF Detected(u.words[i]) /\ i \notin {h.i : h \in {h \in left : h.at = a}}
                                     THEN Word("redacted") ELSE u.words[i]
<1> DEFINE leftAt(a) == {h.i : h \in {h \in left : h.at = a}}
           text == [a \in Addresses(msgs) |-> RedactText(TextAt(msgs, a), leftAt(a))]
<1>1. ASSUME NEW u \in Loose, NEW l
      PROVE  /\ RedactText(u, l) \in Loose /\ Len(RedactText(u, l).words) = Len(u.words)
             /\ \A i \in DOMAIN u.words :
                  RedactText(u, l).words[i] =
                    IF Detected(u.words[i]) /\ i \notin l THEN Word("redacted") ELSE u.words[i]
  <2> DEFINE words1 == [i \in DOMAIN u.words |->
                          IF Detected(u.words[i]) /\ i \notin l THEN Word("redacted") ELSE u.words[i]]
  <2>1. RedactText(u, l) = [u EXCEPT !.words = words1]
    BY DEF RedactText
  <2>2. u.words \in Seq(ChatWords)
    BY DEF Loose
  <2>3. Word("redacted") \in ChatWords
    BY DEF Word, ChatWords
  <2>4. words1 \in Seq(ChatWords) /\ Len(words1) = Len(u.words)
    BY <2>2, <2>3
  <2> QED
    BY <2>1, <2>4 DEF Loose
<1>2. text \in [Addresses(msgs) -> Loose]
  BY <1>1, AddressAt
<1>3. Redacted(msgs, left) = WithTexts(msgs, text)
  BY DEF Redacted
<1>4. \A a \in Addresses(msgs) :
        text[a] = RedactText(TextAt(msgs, a), leftAt(a)) /\ TextAt(msgs, a) \in Loose
  BY AddressAt
<1> HIDE DEF text
<1>5. /\ Redacted(msgs, left) \in Seq(MessagesOf(Loose))
      /\ Addresses(Redacted(msgs, left)) = Addresses(msgs)
      /\ \A a \in Addresses(msgs) :
           TextAt(Redacted(msgs, left), a) = RedactText(TextAt(msgs, a), leftAt(a))
  BY <1>2, <1>3, <1>4, WithTextsAt
<1>6. ASSUME NEW a \in Addresses(msgs)
      PROVE  LET t == TextAt(Redacted(msgs, left), a)
                 u == TextAt(msgs, a)
             IN /\ Len(t.words) = Len(u.words)
                /\ \A i \in DOMAIN u.words :
                     t.words[i] = IF Detected(u.words[i]) /\ i \notin leftAt(a)
                                    THEN Word("redacted") ELSE u.words[i]
  <2> DEFINE u == TextAt(msgs, a)
             l == leftAt(a)
  <2>1. u \in Loose /\ TextAt(Redacted(msgs, left), a) = RedactText(u, l)
    BY <1>4, <1>5
  <2> HIDE DEF u, l
  <2>2. /\ Len(RedactText(u, l).words) = Len(u.words)
        /\ \A i \in DOMAIN u.words :
             RedactText(u, l).words[i] =
               IF Detected(u.words[i]) /\ i \notin l THEN Word("redacted") ELSE u.words[i]
    BY <1>1, <2>1
  <2> QED
    BY <2>1, <2>2 DEF u, l
<1> QED
  BY <1>5, <1>6

LEMMA RestoredAt ==
  ASSUME NEW msgs \in Seq(MessagesOf(Loose)), NEW originals
  PROVE  /\ Addresses(Restored(msgs, originals)) = Addresses(msgs)
         /\ \A a \in Addresses(msgs) :
              LET t == TextAt(Restored(msgs, originals), a)
                  u == TextAt(msgs, a)
              IN /\ DOMAIN t.words = DOMAIN u.words
                 /\ Len(t.words) = Len(u.words)
                 /\ \A i \in DOMAIN u.words : t.words[i] = RestoredWord(u.words[i], originals)
<1> DEFINE restore(a) == [TextAt(msgs, a) EXCEPT
                            !.words = [i \in DOMAIN @ |-> RestoredWord(@[i], originals)]]
           text == [a \in Addresses(msgs) |-> restore(a)]
           R == {restore(a) : a \in Addresses(msgs)}
<1>1. Restored(msgs, originals) = WithTexts(msgs, text)
  BY DEF Restored
<1>2. ASSUME NEW a \in Addresses(msgs)
      PROVE  /\ DOMAIN restore(a).words = DOMAIN TextAt(msgs, a).words
             /\ Len(restore(a).words) = Len(TextAt(msgs, a).words)
             /\ \A i \in DOMAIN TextAt(msgs, a).words :
                  restore(a).words[i] = RestoredWord(TextAt(msgs, a).words[i], originals)
  <2> DEFINE u == TextAt(msgs, a)
             words1 == [i \in DOMAIN u.words |-> RestoredWord(u.words[i], originals)]
  <2>1. u \in Loose /\ restore(a) = [u EXCEPT !.words = words1]
    BY AddressAt
  <2>2. restore(a).words = words1 /\ u.words \in Seq(ChatWords)
    BY <2>1 DEF Loose
  <2> HIDE DEF u, restore
  <2>3. DOMAIN words1 = 1 .. Len(u.words) /\ Len(u.words) \in Nat /\ DOMAIN u.words = 1 .. Len(u.words)
    BY <2>2
  <2>4. Len(words1) = Len(u.words)
    BY <2>3
  <2> QED
    BY <2>2, <2>3, <2>4 DEF u
<1> HIDE DEF restore
<1>3. text \in [Addresses(msgs) -> R] /\ \A a \in Addresses(msgs) : text[a] = restore(a)
  OBVIOUS
<1> HIDE DEF text, R
<1>4. /\ Addresses(Restored(msgs, originals)) = Addresses(msgs)
      /\ \A a \in Addresses(msgs) : TextAt(Restored(msgs, originals), a) = text[a]
  BY <1>1, <1>3, WithTextsAt
<1> QED
  BY <1>2, <1>3, <1>4

LEMMA GuardKeeps ==
  ASSUME NEW msgs \in Seq(ChatMessages), NEW left \in SUBSET Hits(Masked(msgs))
  PROVE  LET masked == Masked(msgs)
             redacted == Redacted(masked, left)
             new == IF redacted = masked THEN msgs ELSE Restored(redacted, Originals(msgs))
         IN /\ Addresses(new) = Addresses(msgs)
            /\ \A a \in Addresses(msgs) :
                 /\ Len(TextAt(new, a).words) = Len(TextAt(msgs, a).words)
                 /\ \A i \in DOMAIN TextAt(new, a).words :
                      TextAt(new, a).words[i].kind = "email" => [at |-> a, i |-> i] \in left
                 /\ Encoded(TextAt(msgs, a)) =>
                      TextAt(new, a).words[1] = TextAt(msgs, a).words[1]
<1> DEFINE masked == Masked(msgs)
           redacted == Redacted(masked, left)
           leftAt(a) == {h.i : h \in {h \in left : h.at = a}}
           originals == Originals(msgs)
           restored == Restored(redacted, originals)
           M(a) == TextAt(masked, a).words
           R(a) == TextAt(redacted, a).words
           U(a) == TextAt(msgs, a).words
           E(a) == Encoded(TextAt(msgs, a))
<1>1. /\ msgs \in Seq(MessagesOf(ChatTexts)) /\ masked \in Seq(MessagesOf(Loose))
      /\ Addresses(masked) = Addresses(msgs)
      /\ \A a \in Addresses(msgs) :
           /\ Len(M(a)) = Len(U(a))
           /\ \A i \in DOMAIN U(a) :
                M(a)[i] = IF E(a) /\ i = 1 THEN Place(EncodedBefore(msgs, a)) ELSE U(a)[i]
  BY MaskedAt
<1>2. /\ redacted \in Seq(MessagesOf(Loose)) /\ Addresses(redacted) = Addresses(msgs)
      /\ \A a \in Addresses(msgs) :
           /\ Len(R(a)) = Len(M(a))
           /\ \A i \in DOMAIN M(a) :
                R(a)[i] = IF Detected(M(a)[i]) /\ i \notin leftAt(a) THEN Word("redacted") ELSE M(a)[i]
  BY <1>1, RedactedAt
<1>3. ASSUME NEW a \in Addresses(msgs)
      PROVE  /\ DOMAIN U(a) = 1 .. Len(U(a)) /\ Len(U(a)) \in Nat
             /\ DOMAIN M(a) = DOMAIN U(a) /\ DOMAIN R(a) = DOMAIN U(a)
             /\ E(a) => 1 \in DOMAIN U(a) /\ U(a)[1].kind = "bytes"
  <2>1. TextAt(msgs, a) \in ChatTexts /\ TextAt(masked, a) \in Loose /\ TextAt(redacted, a) \in Loose
    BY <1>1, <1>2, AddressAt
  <2>2. /\ U(a) \in Seq(ChatWords) /\ M(a) \in Seq(ChatWords) /\ R(a) \in Seq(ChatWords)
        /\ E(a) => U(a) # << >>
        /\ \A i \in DOMAIN U(a) : U(a)[i].kind = "bytes" <=> (E(a) /\ i = 1)
    BY <2>1 DEF ChatTexts, Loose
  <2>3. Len(M(a)) = Len(U(a)) /\ Len(R(a)) = Len(M(a))
    BY <1>1, <1>2
  <2> HIDE DEF U, M, R, E
  <2> QED
    BY <2>2, <2>3
<1>4. Cardinality(originals) \in Nat
  <2>1. IsFiniteSet(EncodedAt(msgs))
    BY <1>1, Numbered
  <2> DEFINE f == [a \in EncodedAt(msgs) |->
                     [place |-> Placeholder(EncodedBefore(msgs, a)), was |-> U(a)[1]]]
  <2>2. f \in Surjection(EncodedAt(msgs), originals)
    BY DEF Surjection, Originals
  <2> HIDE DEF f, originals
  <2> QED
    BY <2>1, <2>2, FS_Surjection, FS_CardinalityType
<1>5. \A o \in originals : o.was.kind = "bytes" /\ o.place.kind = "place"
  <2>1. \A a \in EncodedAt(msgs) : a \in Addresses(msgs) /\ E(a)
    BY DEF EncodedAt
  <2> QED
    BY <1>3, <2>1 DEF Originals, Placeholder, Place
<1>6. ASSUME NEW a \in Addresses(msgs), NEW i \in leftAt(a)
      PROVE  [at |-> a, i |-> i] \in left
  <2>1. PICK h \in left : h.at = a /\ h.i = i
    OBVIOUS
  <2>2. h \in Hits(masked)
    OBVIOUS
  <2>3. PICK b \in Addresses(masked) : \E j : h = [at |-> b, i |-> j]
    BY <2>2 DEF Hits
  <2> QED
    BY <2>1, <2>3
<1>7. CASE redacted = masked
  <2>1. ASSUME NEW a \in Addresses(msgs), NEW i \in DOMAIN U(a), U(a)[i].kind = "email"
        PROVE  i \in leftAt(a)
    <3>1. CASE E(a) /\ i = 1
      BY <1>3, <2>1, <3>1
    <3>2. CASE ~(E(a) /\ i = 1)
      <4>1. M(a)[i] = U(a)[i]
        BY <1>1, <3>2
      <4>2. M(a)[i] = IF Detected(M(a)[i]) /\ i \notin leftAt(a) THEN Word("redacted") ELSE M(a)[i]
        BY <1>2, <1>3, <1>7
      <4> HIDE DEF M, U, leftAt
      <4> QED
        BY <2>1, <4>1, <4>2 DEF Detected, Word
    <3> QED
      BY <3>1, <3>2
  <2> QED
    BY <1>6, <1>7, <2>1
<1>8. CASE redacted # masked
  <2>1. /\ Addresses(restored) = Addresses(msgs)
        /\ \A a \in Addresses(msgs) :
             /\ DOMAIN TextAt(restored, a).words = DOMAIN U(a)
             /\ Len(TextAt(restored, a).words) = Len(U(a))
             /\ \A i \in DOMAIN U(a) :
                  TextAt(restored, a).words[i] = RestoredWord(R(a)[i], originals)
    BY <1>1, <1>2, <1>3, RestoredAt
  <2> HIDE DEF restored
  <2>2. ASSUME NEW a \in Addresses(msgs), NEW i \in DOMAIN U(a), i \notin leftAt(a)
        PROVE  TextAt(restored, a).words[i].kind # "email"
    <3>1. R(a)[i].kind # "email"
      <4>1. R(a)[i] = IF Detected(M(a)[i]) /\ i \notin leftAt(a) THEN Word("redacted") ELSE M(a)[i]
        BY <1>2, <1>3
      <4> HIDE DEF M, R, leftAt
      <4> QED
        BY <2>2, <4>1 DEF Detected, Word
    <3> HIDE DEF originals, R, U
    <3> QED
      BY <1>4, <1>5, <2>1, <3>1, RestoredClean
  <2>3. ASSUME NEW a \in Addresses(msgs), E(a)
        PROVE  TextAt(restored, a).words[1] = U(a)[1]
    <3> DEFINE j == EncodedBefore(msgs, a)
               o == [place |-> Place(j), was |-> U(a)[1]]
    <3>1. a \in EncodedAt(msgs)
      BY <2>3 DEF EncodedAt
    <3>2. /\ j \in Nat /\ j < Cardinality(originals) /\ o \in originals
          /\ \A other \in originals : other.place = Place(j) => other = o
      BY <1>1, <3>1, OriginalAt
    <3>3. 1 \in DOMAIN U(a) /\ M(a)[1] = Place(j)
      BY <1>1, <1>3, <2>3
    <3>4. R(a)[1] = Place(j)
      <4>1. R(a)[1] = IF Detected(M(a)[1]) /\ 1 \notin leftAt(a) THEN Word("redacted") ELSE M(a)[1]
        BY <1>2, <1>3, <3>3
      <4> QED
        BY <3>3, <4>1 DEF Detected, Place
    <3>5. o.place = Place(j) /\ o.was = U(a)[1]
      OBVIOUS
    <3>6. TextAt(restored, a).words[1] = RestoredWord(Place(j), originals)
      BY <2>1, <3>3, <3>4
    <3> HIDE DEF j, o, originals, U
    <3>7. \A x \in originals : x.place.kind = "place" /\ x.was.kind # "place"
      BY <1>5
    <3>8. RestoredWord(Place(j), originals) = o.was
      BY <1>4, <3>2, <3>5, <3>7, RestoredPlace
    <3> QED
      BY <3>5, <3>6, <3>8
  <2> QED
    BY <1>6, <1>8, <2>1, <2>2, <2>3 DEF restored
<1> QED
  BY <1>7, <1>8

-----------------------------------------------------------------------------
(* The extensions' steps.                                                  *)

(* The encoded texts of a payload are in another one, with their images.   *)
Alike(old, new) ==
  \A a \in Addresses(old) :
    /\ a \in Addresses(new)
    /\ Encoded(TextAt(old, a)) =>
         Encoded(TextAt(new, a)) /\ TextAt(new, a).words[1] = TextAt(old, a).words[1]

BundledInv ==
  /\ at \in {"compress", "compressing", "escalate", "guard"} =>
       messages \in Seq(ChatMessages) /\ Alike(asked, messages)
  /\ at = "compressing" =>
       copy \in Seq(ChatMessages) /\ todo \subseteq Addresses(copy) /\ Alike(asked, copy)
  /\ clock \in Nat /\ late \in Nat /\ clock <= BudgetTime + LoadTime + late
  /\ SentRedacted /\ ImagesKept

LEMMA AlikePut ==
  ASSUME NEW msgs \in Seq(ChatMessages), Alike(asked, msgs), NEW a \in Addresses(msgs),
         NEW new \in Rewrites(TextAt(msgs, a)) \cup {TextAt(msgs, a)}
  PROVE  LET put == PutText(msgs, a, new)
         IN /\ put \in Seq(ChatMessages) /\ Addresses(put) = Addresses(msgs)
            /\ Alike(asked, put)
<1> DEFINE put == PutText(msgs, a, new)
<1>1. msgs \in Seq(MessagesOf(ChatTexts)) /\ ChatMessages = MessagesOf(ChatTexts)
  BY DEF ChatMessages, MessagesOf
<1>2. TextAt(msgs, a) \in ChatTexts
  BY <1>1, AddressAt
<1>3. /\ new \in ChatTexts /\ new.form = TextAt(msgs, a).form
      /\ Encoded(TextAt(msgs, a)) => new.words[1] = TextAt(msgs, a).words[1]
  BY <1>2, RewriteKeeps
<1>4. /\ put \in Seq(MessagesOf(ChatTexts)) /\ Addresses(put) = Addresses(msgs)
      /\ \A b \in Addresses(msgs) : TextAt(put, b) = IF b = a THEN new ELSE TextAt(msgs, b)
  BY <1>1, <1>3, PutTextAt
<1> HIDE DEF put
<1>5. Alike(asked, put)
  BY <1>3, <1>4 DEF Alike, Encoded
<1> QED
  BY <1>1, <1>4, <1>5 DEF put

LEMMA CostsAreNat == ASSUME NEW n \in Nat PROVE PassCost(n) \in Nat
<1>1. n * n \in Nat
  OBVIOUS
<1> QED
  BY <1>1, BundledAssumption DEF PassCost, Square

LEMMA InBudget ==
  ASSUME NEW now \in Nat, NEW cost \in Nat, NEW delay \in Nat, NEW graph \in Nat,
         now + cost <= BudgetTime, graph <= LoadTime
  PROVE  /\ now + cost + delay + graph \in Nat
         /\ now + cost + delay + graph <= BudgetTime + LoadTime + delay
<1>1. BudgetTime \in Nat /\ LoadTime \in Nat
  BY BundledAssumption
<1> QED
  BY <1>1

LEMMA CompressKeeps ==
  ASSUME BundledInv,
         CompressPasses \/ CompressPlans \/ CompressPass \/ CompressReplies
  PROVE  BundledInv'
<1>1. BudgetTime \in Nat /\ LoadTime \in Nat /\ LoadTime > 0 /\ Delays \subseteq Nat
  BY BundledAssumption
<1>2. CASE CompressPasses
  <2>1. /\ at = "compress" /\ at' = "escalate" /\ messages' = messages /\ asked' = asked
        /\ clock' = 0 /\ late' = 0
    BY <1>2 DEF CompressPasses, Turn
  <2> QED
    BY <1>1, <2>1 DEF BundledInv, SentRedacted, ImagesKept
<1>3. CASE CompressPlans
  <2>1. /\ at = "compress" /\ at' = "compressing" /\ messages' = messages /\ asked' = asked
        /\ copy' = messages /\ todo' = Plan(messages)
        /\ clock' \in {0, 1} /\ late' = late
    BY <1>3 DEF CompressPlans
  <2>2. messages \in Seq(ChatMessages) /\ Alike(asked, messages) /\ late \in Nat
    BY <2>1 DEF BundledInv
  <2>3. todo' \subseteq Addresses(copy')
    BY <2>1 DEF Plan, Candidates
  <2>4. clock' \in Nat /\ late' \in Nat /\ clock' <= BudgetTime + LoadTime + late'
    BY <1>1, <2>1, <2>2
  <2>5. SentRedacted' /\ ImagesKept'
    BY <2>1 DEF SentRedacted, ImagesKept
  <2> QED
    BY <2>1, <2>2, <2>3, <2>4, <2>5 DEF BundledInv
<1>4. CASE CompressPass
  <2>1. PICK a \in todo : LET text == TextAt(copy, a)
                          IN /\ TimeFor(Tokens(text))
                             /\ late' \in Delays
                             /\ clock' = clock + PassCost(Tokens(text)) + late' + MapGraph
                             /\ \E new \in Rewrites(text) \cup {text} :
                                  copy' = PutText(copy, a, new)
                             /\ todo' = todo \ {a}
    BY <1>4 DEF CompressPass, PutText
  <2>2. /\ at = "compressing" /\ at' = at /\ messages' = messages /\ asked' = asked
    BY <1>4 DEF CompressPass
  <2>3. /\ copy \in Seq(ChatMessages) /\ todo \subseteq Addresses(copy) /\ Alike(asked, copy)
        /\ messages \in Seq(ChatMessages) /\ Alike(asked, messages)
    BY <2>2 DEF BundledInv
  <2>12. clock \in Nat
    BY DEF BundledInv
  <2>4. /\ copy' \in Seq(ChatMessages) /\ Addresses(copy') = Addresses(copy)
        /\ Alike(asked, copy')
    <3>1. PICK new \in Rewrites(TextAt(copy, a)) \cup {TextAt(copy, a)} :
            copy' = PutText(copy, a, new)
      BY <2>1
    <3>2. a \in Addresses(copy)
      BY <2>3
    <3> QED
      BY <2>3, <3>1, <3>2, AlikePut
  <2>5. Tokens(TextAt(copy, a)) \in Nat
    <3>1. TextAt(copy, a) \in ChatTexts
      BY <2>3, AddressAt DEF ChatMessages, MessagesOf
    <3> QED
      BY <3>1 DEF ChatTexts, Tokens
  <2> DEFINE cost == PassCost(Tokens(TextAt(copy, a)))
  <2>6. cost \in Nat /\ clock + cost <= BudgetTime
    BY <2>1, <2>5, CostsAreNat DEF TimeFor
  <2>7. MapGraph \in Nat /\ MapGraph <= LoadTime /\ late' \in Nat
    BY <1>1, <2>1 DEF MapGraph
  <2>8. clock' = clock + cost + late' + MapGraph
    BY <2>1
  <2> HIDE DEF cost
  <2>9. clock' \in Nat /\ clock' <= BudgetTime + LoadTime + late'
    BY <2>12, <2>6, <2>7, <2>8, InBudget
  <2>10. SentRedacted' /\ ImagesKept'
    BY <2>2 DEF SentRedacted, ImagesKept
  <2>11. todo' \subseteq Addresses(copy') /\ Alike(asked', copy') /\ Alike(asked', messages')
    BY <2>1, <2>2, <2>3, <2>4
  <2> QED
    BY <2>2, <2>3, <2>4, <2>7, <2>9, <2>10, <2>11 DEF BundledInv
<1>5. CASE CompressReplies
  <2>1. /\ at = "compressing" /\ at' = "escalate" /\ messages' \in {copy, messages}
        /\ asked' = asked /\ clock' = 0 /\ late' = 0
    BY <1>5 DEF CompressReplies, Turn
  <2>2. messages' \in Seq(ChatMessages) /\ Alike(asked, messages')
    BY <2>1 DEF BundledInv
  <2> QED
    BY <1>1, <2>1, <2>2 DEF BundledInv, SentRedacted, ImagesKept
<1> QED
  BY <1>2, <1>3, <1>4, <1>5

LEMMA AdviceJoins ==
  ASSUME NEW words \in {<<Word("word")>>, <<Word("email")>>},
         messages \in Seq(ChatMessages), Alike(asked, messages)
  PROVE  LET new == Append(messages, [role |-> "user", calls |-> << >>, error |-> FALSE,
                                      texts |-> <<Text("plain", words)>>])
         IN new \in Seq(ChatMessages) /\ Alike(asked, new)
<1> DEFINE text == Text("plain", words)
           row == <<text>>
           message == [role |-> "user", calls |-> << >>, error |-> FALSE, texts |-> row]
           new == Append(messages, message)
<1>1. text \in ChatTexts
  <2>1. /\ words \in Seq(ChatWords) /\ DOMAIN words = {1} /\ words[1].kind # "bytes"
    <3>1. ASSUME NEW kind \in {"word", "email"}, words = <<Word(kind)>>
          PROVE  /\ words \in Seq(ChatWords) /\ DOMAIN words = {1} /\ words[1].kind # "bytes"
      <4>1. Word(kind) \in ChatWords /\ Word(kind).kind # "bytes"
        BY DEF Word, ChatWords
      <4> QED
        BY <3>1, <4>1
    <3> QED
      BY <3>1
  <2> QED
    BY <2>1 DEF Text, ChatTexts, Encoded
<1> HIDE DEF text
<1>2. row \in Seq(ChatTexts)
  BY <1>1
<1> HIDE DEF row
<1>3. message \in ChatMessages
  BY <1>2 DEF ChatMessages
<1> HIDE DEF message
<1>4. /\ new \in Seq(ChatMessages) /\ Len(new) = Len(messages) + 1
      /\ \A m \in DOMAIN messages : m \in DOMAIN new /\ new[m] = messages[m]
  BY <1>3
<1> HIDE DEF new
<1>5. ASSUME NEW a \in Addresses(messages)
      PROVE  a \in Addresses(new) /\ TextAt(new, a) = TextAt(messages, a)
  <2>1. messages \in Seq(MessagesOf(ChatTexts))
    BY DEF ChatMessages, MessagesOf
  <2>2. /\ a = [m |-> a.m, p |-> a.p] /\ a.m \in DOMAIN messages
        /\ a.p \in DOMAIN messages[a.m].texts
    BY <2>1, AddressAt
  <2>3. new[a.m] = messages[a.m] /\ a.m \in DOMAIN new
    BY <1>4, <2>2
  <2>4. [m |-> a.m, p |-> a.p] \in Addresses(new)
    BY <2>2, <2>3, AddressIs
  <2> QED
    BY <2>2, <2>3, <2>4 DEF TextAt
<1>6. Alike(asked, new)
  BY <1>5 DEF Alike
<1> QED
  BY <1>4, <1>6 DEF new, message, row, text

LEMMA EscalateKeeps ==
  ASSUME BundledInv, EscalateContinues \/ EscalateDecides \/ EscalateCalls
  PROVE  BundledInv'
<1>1. /\ at = "escalate" /\ at' \in {"escalate", "guard", "answered"}
      /\ asked' = asked /\ clock' = clock /\ late' = late
      /\ messages' = messages
           \/ \E words \in {<<Word("word")>>, <<Word("email")>>} :
                messages' = Append(messages, [role |-> "user", calls |-> << >>, error |-> FALSE,
                                              texts |-> <<Text("plain", words)>>])
  BY DEF EscalateContinues, EscalateDecides, EscalateCalls, AfterEscalation
<1>2. messages \in Seq(ChatMessages) /\ Alike(asked, messages)
  BY <1>1 DEF BundledInv
<1>3. messages' \in Seq(ChatMessages) /\ Alike(asked, messages')
  BY <1>1, <1>2, AdviceJoins
<1>4. SentRedacted' /\ ImagesKept'
  BY <1>1 DEF SentRedacted, ImagesKept
<1> QED
  BY <1>1, <1>3, <1>4 DEF BundledInv

LEMMA GuardStepKeeps ==
  ASSUME BundledInv, GuardPasses \/ GuardDenies \/ GuardRedacts
  PROVE  BundledInv'
<1>1. /\ at = "guard" /\ at' \in {"sent", "denied"} /\ asked' = asked /\ settings' = settings
      /\ clock' = clock /\ late' = late
  BY DEF GuardPasses, GuardDenies, GuardRedacts, Rest
<1>2. messages \in Seq(ChatMessages) /\ Alike(asked, messages)
  BY <1>1 DEF BundledInv
<1>3. SentRedacted' /\ ImagesKept'
  <2>1. CASE GuardDenies
    <3>1. at' = "denied"
      BY <2>1 DEF GuardDenies
    <3> QED
      BY <3>1 DEF SentRedacted, ImagesKept
  <2>2. CASE GuardPasses
    <3>1. ~settings'.guarded /\ messages' = messages
      BY <1>1, <2>2 DEF GuardPasses
    <3> QED
      BY <1>1, <1>2, <3>1 DEF SentRedacted, ImagesKept, Alike
  <2>3. CASE GuardRedacts
    <3>1. /\ missed' \in SUBSET Hits(Masked(messages))
          /\ messages' = IF Redacted(Masked(messages), missed') = Masked(messages) THEN messages
                         ELSE Restored(Redacted(Masked(messages), missed'), Originals(messages))
          /\ WordsOf(Masked(messages)) <= MaxWords
      BY <2>3 DEF GuardRedacts
    <3>2. /\ Addresses(messages') = Addresses(messages)
          /\ \A a \in Addresses(messages) :
               /\ Len(TextAt(messages', a).words) = Len(TextAt(messages, a).words)
               /\ \A i \in DOMAIN TextAt(messages', a).words :
                    TextAt(messages', a).words[i].kind = "email" => [at |-> a, i |-> i] \in missed'
               /\ Encoded(TextAt(messages, a)) =>
                    TextAt(messages', a).words[1] = TextAt(messages, a).words[1]
      BY <1>2, <3>1, GuardKeeps
    <3>3. /\ Addresses(Masked(messages)) = Addresses(messages)
          /\ \A a \in Addresses(messages) :
               Len(TextAt(Masked(messages), a).words) = Len(TextAt(messages, a).words)
      BY <1>2, MaskedAt
    <3>4. Sizes(messages') = Sizes(Masked(messages))
      BY <3>2, <3>3 DEF Sizes
    <3>5. WordsOf(messages') <= MaxWords
      BY <3>1, <3>4, Zenon DEF WordsOf
    <3> QED
      BY <1>1, <1>2, <3>2, <3>5 DEF SentRedacted, ImagesKept, Alike
  <2> QED
    BY <2>1, <2>2, <2>3
<1> QED
  BY <1>1, <1>3 DEF BundledInv

LEMMA ExtStepKeeps == ASSUME BundledInv, ExtNext PROVE BundledInv'
  BY CompressKeeps, EscalateKeeps, GuardStepKeeps DEF ExtNext

LEMMA ExtInitial ==
  ASSUME asked \in Seq(ChatMessages), messages = asked, at = "compress", clock = 0, late = 0
  PROVE  BundledInv
<1>1. Alike(asked, messages)
  BY DEF Alike
<1> QED
  BY <1>1, BundledAssumption DEF BundledInv, SentRedacted, ImagesKept

LEMMA ExtUnchanged == ASSUME BundledInv, UNCHANGED extVars PROVE BundledInv'
<1>1. /\ settings' = settings /\ asked' = asked /\ messages' = messages /\ at' = at
      /\ copy' = copy /\ todo' = todo /\ clock' = clock /\ late' = late
      /\ missed' = missed
  BY DEF extVars
<1> QED
  BY <1>1 DEF BundledInv, Alike, SentRedacted, ImagesKept
=============================================================================
