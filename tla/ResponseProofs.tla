--------------------------- MODULE ResponseProofs ---------------------------
(***************************************************************************)
(* Response is safe for every Base, every set of exchanges of any length,  *)
(* every number of them and every way the server cuts its answers: an      *)
(* answer is put together whole, walked within the buffer and understood.  *)
(* The lemmas about the bytes are in CodecProofs.                          *)
(***************************************************************************)
EXTENDS CodecProofs

-----------------------------------------------------------------------------
\* The inductive invariant.

\* The answer that is being read, and how much of it the server has sent.
Answer == Encoded(exch[turn])
Sent == Len(Answer) - left

\* What read() has and the fragments in flight are what has been sent of the
\* answer: fragment i holds what follows its first at[i] bytes.
Cut(all, r, fragments, sent, at) ==
  /\ Len(r) = IF fragments = <<>> THEN sent ELSE at[1]
  /\ \A i, j \in DOMAIN fragments : i < j => at[i] < at[j]
  /\ \A i \in DOMAIN fragments :
       fragments[i] = Fragment(all, at[i], IF i = Len(fragments) THEN sent
                                           ELSE at[i + 1])

Framing(all, r, fragments, sent) ==
  /\ Len(r) <= sent /\ r = SubSeq(all, 1, Len(r))
  /\ \E at \in [DOMAIN fragments -> Len(r)..(sent - 1)] :
       Cut(all, r, fragments, sent, at)

Framed == left <= Len(Answer) /\ Framing(Answer, raw, wire, Sent)

\* The view stands between two segments and has shown those before it.
Walked ==
  \E m \in 0..Count(exch[turn]) :
    /\ got = SubSeq(Segments(exch[turn]), 1, m)
    /\ view.end = End(exch[turn], m) + 1

Phased ==
  /\ phase # "overrun"
  /\ phase # "end" => turn <= Turns
  /\ phase # "read" => left = 0 /\ wire = <<>>
  /\ phase = "read" => Framed
  /\ phase \in {"walk", "take"} => raw = Answer
  /\ phase = "walk" => Walked
  /\ phase = "take" => got = Segments(exch[turn])
  /\ Len(heard) = turn - 1

IInv == TypeOK /\ Phased /\ Understood

-----------------------------------------------------------------------------
\* Reading.

\* A beginning of an answer is not taken for a complete one, and verify_end
\* does not look in front of it.
LEMMA Beginnings ==
  ASSUME NEW x \in Exchanges, NEW u \in 1..Len(Encoded(x)), NEW r,
         r = SubSeq(Encoded(x), 1, u)
  PROVE  ~Overruns(r) /\ (verify_end(r) => u = Len(Encoded(x)))
<1> DEFINE all == Encoded(x)
<1>1. all \in Seq(Byte) /\ Len(all) \in Nat /\ all[1] # 0
  <2>1. MSG_TYPE[x.op] # 0
    BY ExchangesAssumption DEF MSG_TYPE
  <2> QED
    BY <2>1, Layout
<1>2. /\ Len(r) = u /\ u \in Nat /\ u >= 1
      /\ \A i \in 1..u : r[i] = all[i] /\ i \in DOMAIN r
  BY <1>1
<1>3. ~Overruns(r)
  BY <1>1, <1>2 DEF Overruns
<1>4. ASSUME verify_end(r)
      PROVE  u = Len(all)
  <2>1. (\A k \in 0..3 : r[u - k] = 0) /\ r[u - 4] = TLV_TYPE["END"]
    BY <1>2, <1>4 DEF verify_end
  <2>2. u >= 5
    <3>1. CASE u < 5
      <4>1. u - 1 \in 0..3 /\ u - (u - 1) = 1 /\ 1 \in 1..u
        BY <1>2, <3>1
      <4>2. r[u - (u - 1)] = 0
        BY <2>1, <4>1
      <4> QED
        BY <1>1, <1>2, <4>1, <4>2
    <3> QED
      BY <1>2, <3>1
  <2>3. /\ u \in 5..Len(all)
        /\ \A k \in 0..3 : u - k \in 1..u
        /\ u - 4 \in 1..u
    BY <1>1, <1>2, <2>2
  <2>4. (\A k \in 0..3 : all[u - k] = 0) /\ all[u - 4] = TLV_TYPE["END"]
    BY <1>2, <2>1, <2>3
  <2> QED
    BY <2>3, <2>4, NoEarlyEnd
<1> QED
  BY <1>3, <1>4

\* read() appends to what it has what follows it in the answer.
LEMMA BodyOfFragment ==
  ASSUME NEW all \in Seq(Byte), NEW a \in 0..Len(all), NEW u \in 1..Len(all),
         a < u, NEW r, r = SubSeq(all, 1, a)
  PROVE  /\ Fragment(all, a, u) \in Seq(Byte)
         /\ r \o Body(r, Fragment(all, a, u)) = SubSeq(all, 1, u)
<1> DEFINE rest == SubSeq(all, a + 1, u)
<1>1. /\ a \in Nat /\ u \in Nat /\ Len(all) \in Nat
      /\ rest \in Seq(Byte) /\ r \in Seq(Byte) /\ Len(r) = a
      /\ all[1] \in Byte /\ <<all[1]>> \in Seq(Byte)
  OBVIOUS
<1>2. r \o rest = SubSeq(all, 1, u)
  BY <1>1, ConcatAdjacentSubSeq
<1> HIDE DEF rest
<1>3. CASE a = 0
  <2>1. r = <<>> /\ Fragment(all, a, u) = rest
    BY <1>1, <1>3 DEF Fragment, rest
  <2> QED
    BY <1>1, <1>2, <2>1 DEF Body
<1>4. CASE a # 0
  <2>1. r # <<>>
    BY <1>1, <1>4
  <2>2. Fragment(all, a, u) = <<all[1]>> \o rest
    BY <1>4 DEF Fragment, rest
  <2>3. Tail(<<all[1]>> \o rest) = rest
    BY <1>1
  <2>4. <<all[1]>> \o rest \in Seq(Byte)
    BY <1>1
  <2> QED
    BY <1>2, <2>1, <2>2, <2>3, <2>4 DEF Body
<1> QED
  BY <1>3, <1>4

\* The three ways in which the framing changes.
LEMMA FramingBegins ==
  ASSUME NEW all \in Seq(Byte)
  PROVE  Framing(all, <<>>, <<>>, 0)
<1>1. DOMAIN <<>> = {} /\ Len(<<>>) = 0 /\ SubSeq(all, 1, 0) = <<>>
  OBVIOUS
<1>2. PICK at : at \in [DOMAIN <<>> -> Len(<<>>)..(0 - 1)]
  <2>1. [i \in {} |-> 0] \in [{} -> Len(<<>>)..(0 - 1)]
    OBVIOUS
  <2> QED
    BY <1>1, <2>1
<1>3. Cut(all, <<>>, <<>>, 0, at)
  BY <1>1 DEF Cut
<1>4. Len(<<>>) <= 0 /\ <<>> = SubSeq(all, 1, Len(<<>>))
  BY <1>1
<1> QED
  BY <1>2, <1>3, <1>4, Zenon DEF Framing

LEMMA FramingSend ==
  ASSUME NEW all \in Seq(Byte), NEW r, Len(r) \in Nat,
         NEW w \in Seq(Seq(Byte)), NEW sent \in Nat, NEW n \in Nat \ {0},
         sent + n <= Len(all), Framing(all, r, w, sent)
  PROVE  /\ Fragment(all, sent, sent + n) \in Seq(Byte)
         /\ Framing(all, r, Append(w, Fragment(all, sent, sent + n)), sent + n)
<1> DEFINE f == Fragment(all, sent, sent + n)
           w1 == Append(w, f)
           L == Len(w)
<1>1. PICK at \in [DOMAIN w -> Len(r)..(sent - 1)] : Cut(all, r, w, sent, at)
  BY DEF Framing
<1>2. f \in Seq(Byte)
  <2>1. /\ sent \in 0..Len(all) /\ sent + n \in 1..Len(all)
        /\ sent < sent + n
    OBVIOUS
  <2> QED
    BY <2>1, BodyOfFragment
<1> HIDE DEF f
<1>3. /\ L \in Nat /\ DOMAIN w = 1..L /\ Len(w1) = L + 1
      /\ DOMAIN w1 = 1..(L + 1)
      /\ \A i \in 1..L : w1[i] = w[i]
      /\ w1[L + 1] = f /\ w1 # <<>>
      /\ w = <<>> <=> L = 0
  BY <1>2
<1>4. /\ Len(r) <= sent /\ r = SubSeq(all, 1, Len(r))
      /\ Len(r) = IF L = 0 THEN sent ELSE at[1]
      /\ \A i, j \in 1..L : i < j => at[i] < at[j]
      /\ \A i \in 1..L : at[i] \in Len(r)..(sent - 1)
      /\ \A i \in 1..L :
           w[i] = Fragment(all, at[i], IF i = L THEN sent ELSE at[i + 1])
  BY <1>1, <1>3 DEF Cut, Framing
<1> HIDE DEF w1, L
<1> DEFINE at1 == [i \in 1..(L + 1) |-> IF i = L + 1 THEN sent ELSE at[i]]
<1>5. at1 \in [1..(L + 1) -> Len(r)..(sent + n - 1)]
  <2>1. ASSUME NEW i \in 1..(L + 1)
        PROVE  at1[i] \in Len(r)..(sent + n - 1)
    <3>1. CASE i = L + 1
      BY <1>4, <3>1
    <3>2. CASE i # L + 1
      <4>1. i \in 1..L /\ at[i] \in Len(r)..(sent - 1) /\ at1[i] = at[i]
        BY <1>3, <1>4, <3>2
      <4> QED
        BY <4>1
    <3> QED
      BY <3>1, <3>2
  <2> QED
    BY <2>1
<1>6. at1[1] = Len(r)
  BY <1>3, <1>4
<1>7. ASSUME NEW i \in 1..(L + 1), NEW j \in 1..(L + 1), i < j
      PROVE  at1[i] < at1[j]
  <2>1. i \in 1..L /\ at1[i] = at[i] /\ at[i] < sent
    BY <1>3, <1>4, <1>7
  <2>2. CASE j = L + 1
    BY <2>1, <2>2
  <2>3. CASE j # L + 1
    <3>1. j \in 1..L /\ at1[j] = at[j]
      BY <1>3, <2>3
    <3> QED
      BY <1>4, <1>7, <2>1, <3>1
  <2> QED
    BY <2>2, <2>3
<1>8. ASSUME NEW i \in 1..(L + 1)
      PROVE  w1[i] = Fragment(all, at1[i],
                              IF i = L + 1 THEN sent + n ELSE at1[i + 1])
  <2>1. CASE i = L + 1
    BY <1>3, <2>1 DEF f
  <2>2. CASE i # L + 1
    <3>1. i \in 1..L /\ i + 1 \in 1..(L + 1) /\ (i + 1 = L + 1 <=> i = L)
      BY <1>3, <2>2
    <3>2. at1[i] = at[i] /\ at1[i + 1] = IF i = L THEN sent ELSE at[i + 1]
      BY <2>2, <3>1
    <3> HIDE DEF at1
    <3> QED
      BY <1>3, <1>4, <2>2, <3>1, <3>2
  <2> QED
    BY <2>1, <2>2
<1> HIDE DEF at1
<1>9. Cut(all, r, w1, sent + n, at1)
  BY <1>3, <1>6, <1>7, <1>8 DEF Cut
<1>10. Framing(all, r, w1, sent + n)
  <2>1. Len(r) <= sent + n
    BY <1>4
  <2>2. at1 \in [DOMAIN w1 -> Len(r)..(sent + n - 1)]
    BY <1>3, <1>5
  <2> QED
    BY <1>4, <1>9, <2>1, <2>2 DEF Framing
<1> QED
  BY <1>2, <1>10 DEF f, w1

LEMMA FramingRead ==
  ASSUME NEW all \in Seq(Byte), NEW r, Len(r) \in Nat,
         NEW w \in Seq(Seq(Byte)), w # <<>>, NEW sent \in Nat,
         sent <= Len(all), Framing(all, r, w, sent)
  PROVE  \E u \in 1..Len(all) :
           /\ r \o Body(r, Head(w)) = SubSeq(all, 1, u)
           /\ Framing(all, SubSeq(all, 1, u), Tail(w), sent)
<1> DEFINE L == Len(w)
           t == Tail(w)
<1>1. PICK at \in [DOMAIN w -> Len(r)..(sent - 1)] : Cut(all, r, w, sent, at)
  BY DEF Framing
<1>2. /\ L \in Nat \ {0} /\ DOMAIN w = 1..L /\ Head(w) = w[1]
      /\ t \in Seq(Seq(Byte)) /\ Len(t) = L - 1 /\ DOMAIN t = 1..(L - 1)
      /\ \A i \in 1..(L - 1) : t[i] = w[i + 1]
      /\ t = <<>> <=> L = 1
  <2>1. L \in Nat \ {0} /\ DOMAIN w = 1..L /\ Head(w) = w[1]
    OBVIOUS
  <2>2. /\ t \in Seq(Seq(Byte)) /\ Len(t) = L - 1
        /\ \A i \in 1..Len(t) : t[i] = w[i + 1]
    BY HeadTailProperties
  <2> HIDE DEF t, L
  <2>3. DOMAIN t = 1..Len(t) /\ (t = <<>> <=> Len(t) = 0)
    BY <2>2, LenProperties, EmptySeq
  <2> QED
    BY <2>1, <2>2, <2>3
<1>3. /\ r = SubSeq(all, 1, Len(r)) /\ Len(r) = at[1]
      /\ \A i, j \in 1..L : i < j => at[i] < at[j]
      /\ \A i \in 1..L : at[i] \in Nat /\ at[i] < sent
      /\ \A i \in 1..L :
           w[i] = Fragment(all, at[i], IF i = L THEN sent ELSE at[i + 1])
  <2>1. r = SubSeq(all, 1, Len(r))
    BY DEF Framing
  <2>2. \A i \in 1..L : at[i] \in Len(r)..(sent - 1)
    BY <1>1, <1>2
  <2> HIDE DEF L
  <2>3. \A i \in 1..L : at[i] \in Nat /\ at[i] < sent
    BY <2>2
  <2> QED
    BY <1>1, <1>2, <2>1, <2>3 DEF Cut, L
<1> HIDE DEF t, L
<1> DEFINE u == IF L = 1 THEN sent ELSE at[2]
<1>4. /\ at[1] < u /\ u <= sent /\ u \in 1..Len(all)
      /\ Head(w) = Fragment(all, at[1], u)
      /\ at[1] \in 0..Len(all)
      /\ u = Len(all) => L = 1 /\ sent = Len(all)
  <2>1. 1 \in 1..L /\ (L # 1 => 2 \in 1..L) /\ 1 + 1 = 2
    BY <1>2
  <2> QED
    BY <1>2, <1>3, <2>1
<1> HIDE DEF u
<1>5. r \o Body(r, Head(w)) = SubSeq(all, 1, u)
  <2> DEFINE a == at[1]
  <2>1. /\ a \in 0..Len(all) /\ u \in 1..Len(all) /\ a < u
        /\ r = SubSeq(all, 1, a) /\ Head(w) = Fragment(all, a, u)
    BY <1>3, <1>4
  <2> HIDE DEF a
  <2>2. r \o Body(r, Fragment(all, a, u)) = SubSeq(all, 1, u)
    BY <2>1, BodyOfFragment
  <2> QED
    BY <2>1, <2>2
<1> DEFINE r1 == SubSeq(all, 1, u)
<1>6. Len(r1) = u /\ r1 = SubSeq(all, 1, Len(r1)) /\ u \in Nat
  BY <1>4
<1> HIDE DEF r1
<1> DEFINE at1 == [i \in 1..(L - 1) |-> at[i + 1]]
<1>7. ASSUME NEW i \in 1..(L - 1)
      PROVE  /\ i + 1 \in 1..L /\ at1[i] = at[i + 1] /\ L # 1
             /\ at1[i] \in u..(sent - 1)
  <2>1. i + 1 \in 1..L /\ 2 \in 1..L /\ L # 1 /\ u = at[2]
    BY <1>2 DEF u
  <2>2. at[2] <= at[i + 1]
    <3>1. i = 1 \/ 2 < i + 1
      OBVIOUS
    <3> QED
      BY <1>3, <2>1, <3>1
  <2>3. at[i + 1] \in Nat /\ at[i + 1] < sent
    BY <1>3, <2>1
  <2>4. at[i + 1] \in u..(sent - 1)
    BY <1>6, <2>1, <2>2, <2>3
  <2> QED
    BY <2>1, <2>4
<1>8. at1 \in [DOMAIN t -> Len(r1)..(sent - 1)]
  BY <1>2, <1>6, <1>7
<1>9. Cut(all, r1, t, sent, at1)
  <2>1. Len(r1) = IF t = <<>> THEN sent ELSE at1[1]
    BY <1>2, <1>6 DEF u
  <2>2. ASSUME NEW i \in 1..(L - 1), NEW j \in 1..(L - 1), i < j
        PROVE  at1[i] < at1[j]
    BY <1>3, <1>7, <2>2
  <2>3. ASSUME NEW i \in 1..(L - 1)
        PROVE  t[i] = Fragment(all, at1[i],
                               IF i = L - 1 THEN sent ELSE at1[i + 1])
    <3>1. w[i + 1] = Fragment(all, at[i + 1],
                              IF i + 1 = L THEN sent ELSE at[i + 1 + 1])
      BY <1>3, <1>7
    <3>2. (i + 1 = L <=> i = L - 1)
          /\ (i # L - 1 => at1[i + 1] = at[i + 1 + 1])
      BY <1>2
    <3>3. t[i] = w[i + 1] /\ at1[i] = at[i + 1]
      BY <1>2, <1>7
    <3> HIDE DEF at1
    <3> QED
      BY <3>1, <3>2, <3>3
  <2> HIDE DEF at1
  <2> QED
    BY <1>2, <2>1, <2>2, <2>3 DEF Cut
<1>10. Framing(all, r1, t, sent)
  BY <1>4, <1>6, <1>8, <1>9 DEF Framing
<1> QED
  BY <1>4, <1>5, <1>10 DEF r1, t

\* Nothing follows a whole answer.
LEMMA FramingEnds ==
  ASSUME NEW all \in Seq(Byte), NEW r, Len(r) = Len(all),
         NEW w \in Seq(Seq(Byte)), NEW sent \in Nat,
         sent <= Len(all), Framing(all, r, w, sent)
  PROVE  w = <<>> /\ sent = Len(all)
<1>1. PICK at \in [DOMAIN w -> Len(r)..(sent - 1)] : TRUE
  BY DEF Framing
<1>2. Len(all) \in Nat /\ sent = Len(all) /\ Len(r)..(sent - 1) = {}
  <2>1. Len(r) <= sent /\ Len(all) \in Nat
    BY DEF Framing
  <2> QED
    BY <2>1
<1>3. DOMAIN w = {}
  BY <1>1, <1>2
<1> QED
  BY <1>2, <1>3

\* The exchange a client is at.
LEMMA AtExchange ==
  ASSUME TypeOK, turn <= Turns
  PROVE  /\ exch[turn] \in Exchanges /\ turn \in 1..Turns
         /\ Answer \in Seq(Byte) /\ Len(Answer) \in Nat \ {0}
         /\ Answer[1] \in Byte
<1>1. turn \in 1..Turns /\ exch[turn] \in Exchanges
  BY ExchangesAssumption DEF TypeOK
<1>2. Len(Answer) \in Nat \ {0} /\ Answer \in Seq(Byte)
  <2>1. Count(exch[turn]) \in 0..Count(exch[turn])
    BY <1>1, Layout
  <2> QED
    BY <1>1, <2>1, Layout DEF Answer
<1> QED
  BY <1>1, <1>2

LEMMA PostStep ==
  ASSUME IInv, Post
  PROVE  IInv'
<1>1. /\ TypeOK /\ Phased /\ Understood /\ turn <= Turns
      /\ wire = <<>> /\ Len(heard) = turn - 1
  BY DEF IInv, Post, Phased
<1>2. Len(Answer) \in Nat \ {0} /\ Answer \in Seq(Byte)
  BY <1>1, AtExchange
<1>3. /\ Answer' = Answer /\ left' = Len(Answer) /\ Sent' = 0
      /\ wire' = <<>> /\ raw' = <<>> /\ phase' = "read"
  BY <1>1, <1>2 DEF Post, Answer, Sent
<1>4. Framed'
  BY <1>2, <1>3, FramingBegins DEF Framed
<1>5. TypeOK'
  BY <1>1, <1>2, <1>3 DEF TypeOK, Post
<1>6. Phased'
  BY <1>1, <1>3, <1>4 DEF Phased, Post
<1>7. Understood'
  BY <1>1 DEF Understood, Post
<1> QED
  BY <1>5, <1>6, <1>7 DEF IInv

LEMMA SendStep ==
  ASSUME IInv, Send
  PROVE  IInv'
<1>1. /\ TypeOK /\ Phased /\ Understood /\ left > 0 /\ left \in Nat
  BY DEF IInv, Send, TypeOK
<1>2. phase = "read" /\ turn <= Turns /\ Framed
  BY <1>1 DEF Phased
<1>3. Answer \in Seq(Byte) /\ Len(Answer) \in Nat
  BY <1>1, <1>2, AtExchange
<1>4. PICK n \in 1..left :
        /\ wire' = Append(wire, Fragment(Answer, Sent, Sent + n))
        /\ left' = left - n
  BY DEF Send, Answer, Sent
<1>5. UNCHANGED <<exch, turn, raw, phase, view, got, heard>>
  BY DEF Send
<1>6. /\ Answer' = Answer /\ Sent' = Sent + n /\ Sent \in Nat
      /\ n \in Nat \ {0} /\ left' \in Nat /\ left' <= Len(Answer)
      /\ Sent + n <= Len(Answer)
  BY <1>1, <1>2, <1>3, <1>4, <1>5 DEF Answer, Sent, Framed
<1>7. /\ Fragment(Answer, Sent, Sent + n) \in Seq(Byte)
      /\ Framing(Answer, raw, wire', Sent + n)
  <2>1. wire \in Seq(Seq(Byte)) /\ Len(raw) \in Nat
    BY <1>1 DEF TypeOK
  <2> QED
    BY <1>2, <1>3, <1>4, <1>6, <2>1, FramingSend DEF Framed
<1>8. Framed'
  BY <1>5, <1>6, <1>7 DEF Framed
<1>9. TypeOK'
  <2>1. wire' \in Seq(Seq(Byte))
    BY <1>1, <1>4, <1>7 DEF TypeOK
  <2> QED
    BY <1>1, <1>5, <1>6, <2>1 DEF TypeOK
<1>10. Phased'
  BY <1>1, <1>2, <1>5, <1>8 DEF Phased
<1>11. Understood'
  BY <1>1, <1>5 DEF Understood
<1> QED
  BY <1>9, <1>10, <1>11 DEF IInv

LEMMA ReadStep ==
  ASSUME IInv, Read
  PROVE  IInv'
<1>1. /\ TypeOK /\ Phased /\ Understood /\ phase = "read" /\ wire # <<>>
      /\ turn <= Turns /\ Framed
      /\ raw \in Seq(Byte) /\ wire \in Seq(Seq(Byte)) /\ left \in Nat
  BY DEF IInv, Read, TypeOK, Phased
<1>2. /\ exch[turn] \in Exchanges /\ Answer \in Seq(Byte)
      /\ Len(Answer) \in Nat \ {0}
  BY <1>1, AtExchange
<1>3. /\ UNCHANGED <<exch, turn, left, heard>> /\ wire' = Tail(wire)
      /\ raw' = raw \o Body(raw, Head(wire))
      /\ view' = tlv_view /\ got' = <<>>
      /\ Answer' = Answer /\ Sent' = Sent
  BY DEF Read, Answer, Sent
<1>4. Sent \in Nat /\ Sent <= Len(Answer) /\ left <= Len(Answer)
  BY <1>1, <1>2 DEF Framed, Sent
<1>5. PICK u \in 1..Len(Answer) :
        raw' = SubSeq(Answer, 1, u) /\ Framing(Answer, raw', wire', Sent)
  <2>1. Len(raw) \in Nat /\ Framing(Answer, raw, wire, Sent)
    BY <1>1 DEF Framed
  <2>2. PICK u \in 1..Len(Answer) :
          /\ raw \o Body(raw, Head(wire)) = SubSeq(Answer, 1, u)
          /\ Framing(Answer, SubSeq(Answer, 1, u), Tail(wire), Sent)
    BY <1>1, <1>2, <1>4, <2>1, FramingRead
  <2> QED
    BY <1>3, <2>2, Zenon
<1>6. ~Overruns(raw') /\ (verify_end(raw') => u = Len(Answer))
  BY <1>2, <1>5, Beginnings DEF Answer
<1>7. phase' = IF verify_end(raw') THEN "walk" ELSE "read"
  BY <1>6 DEF Read
<1>8. Framed'
  BY <1>3, <1>4, <1>5 DEF Framed
<1>9. phase' = "walk" => /\ left' = 0 /\ wire' = <<>> /\ raw' = Answer
                         /\ Walked'
  <2> SUFFICES ASSUME phase' = "walk"
               PROVE  left' = 0 /\ wire' = <<>> /\ raw' = Answer /\ Walked'
    OBVIOUS
  <2>1. u = Len(Answer)
    BY <1>6, <1>7
  <2>2. raw' = Answer
    BY <1>2, <1>5, <2>1, SubSeqFull
  <2>3. left' = 0 /\ wire' = <<>>
    <3>1. Len(raw') = Len(Answer) /\ wire' \in Seq(Seq(Byte))
      BY <1>1, <1>3, <2>2
    <3>2. wire' = <<>> /\ Sent = Len(Answer)
      BY <1>2, <1>4, <1>5, <3>1, FramingEnds
    <3> QED
      BY <1>1, <1>2, <1>3, <3>2 DEF Sent
  <2>4. Walked'
    <3>1. /\ Count(exch[turn]) \in Nat /\ End(exch[turn], 0) = 1
          /\ 0 \in 0..Count(exch[turn])
      BY <1>2, Layout
    <3>2. SubSeq(Segments(exch[turn]), 1, 0) = <<>>
      BY SubSeqEmpty
    <3>3. view'.end = 1 + 1
      BY <1>3 DEF tlv_view
    <3> QED
      BY <1>3, <3>1, <3>2, <3>3 DEF Walked
  <2> QED
    BY <2>2, <2>3, <2>4
<1>10. TypeOK'
  <2>1. raw' \in Seq(Byte)
    BY <1>2, <1>5
  <2>2. wire' \in Seq(Seq(Byte))
    BY <1>1, <1>3
  <2> QED
    BY <1>1, <1>3, <1>7, <2>1, <2>2 DEF TypeOK, tlv_view
<1>11. Phased'
  BY <1>1, <1>3, <1>7, <1>8, <1>9 DEF Phased
<1>12. Understood'
  BY <1>1, <1>3 DEF Understood
<1> QED
  BY <1>10, <1>11, <1>12 DEF IInv

-----------------------------------------------------------------------------
\* Walking.

\* What next_tlv shows of a segment is the segment.
LEMMA Shown ==
  ASSUME NEW all \in Seq(Byte), NEW b \in Nat, NEW tlv \in Segment,
         Size(tlv) \in Nat, At(all, b, tlv)
  PROVE  [type |-> all[b + 1],
          value |-> SubSeq(all, b + 6, b + 5 + Size(tlv))] = tlv
<1> DEFINE v == tlv.value
           z == Size(tlv)
<1>1. /\ b + 5 + z <= Len(all) /\ z \in Nat /\ Len(all) \in Nat
      /\ all[b + 1] = tlv.type
      /\ \A k \in 1..z : all[b + 5 + k] = v[k]
  BY DEF At
<1>2. v \in Seq(Byte) /\ Len(v) = z
  BY DEF Segment, Size
<1>3. tlv = [type |-> tlv.type, value |-> v]
  BY DEF Segment
<1> HIDE DEF v, z
<1>4. SubSeq(all, b + 6, b + 5 + z) = v
  <2> DEFINE s == SubSeq(all, b + 6, b + 5 + z)
  <2>1. /\ s \in Seq(Byte) /\ Len(s) = z
        /\ \A k \in 1..z : s[k] = all[b + 5 + k]
    BY <1>1
  <2> HIDE DEF s
  <2>2. \A k \in 1..z : s[k] = v[k]
    BY <1>1, <2>1
  <2>3. s = v
    BY <1>2, <2>1, <2>2, SeqEqual
  <2> QED
    BY <2>3 DEF s
<1> QED
  BY <1>1, <1>3, <1>4 DEF z

LEMMA NextTLVStep ==
  ASSUME IInv, NextTLV
  PROVE  IInv'
<1>1. /\ TypeOK /\ Phased /\ Understood /\ phase = "walk"
      /\ turn <= Turns /\ raw = Answer /\ left = 0 /\ wire = <<>> /\ Walked
      /\ raw \in Seq(Byte)
  BY DEF IInv, NextTLV, TypeOK, Phased
<1> DEFINE x == exch[turn]
           segs == Segments(x)
           N == Count(x)
<1>2. x \in Exchanges /\ raw = Encoded(x)
  BY <1>1, AtExchange DEF Answer
<1>3. PICK m \in 0..N : got = SubSeq(segs, 1, m) /\ view.end = End(x, m) + 1
  BY <1>1 DEF Walked
<1>4. /\ N \in Nat \ {0} /\ End(x, N) = Len(raw)
      /\ \A n \in 0..N : End(x, n) \in Nat \ {0}
      /\ \A n \in 1..N :
           /\ segs[n] \in Segment
           /\ Size(segs[n]) \in Nat
           /\ End(x, n) = End(x, n - 1) + 5 + Size(segs[n])
           /\ At(raw, End(x, n - 1), segs[n])
  BY <1>2, Layout
<1>5. segs \in Seq(Segment) /\ Len(segs) = N
  BY <1>2, AnswersAreAnswerable DEF Answerable, Count
<1>6. UNCHANGED <<exch, turn, left, wire, raw, heard>> /\ Answer' = Answer
  BY DEF NextTLV, Answer
<1> DEFINE b == view.end
           value == b + 5
           end == value + Length(raw, b + 1)
           fits == value <= Len(raw) + 1 /\ end <= Len(raw) + 1
<1>7. /\ fits => /\ view' = [view EXCEPT !.begin = value, !.end = end]
                 /\ got' = Append(got, [type  |-> raw[b],
                                        value |-> SubSeq(raw, value, end - 1)])
                 /\ phase' = phase
      /\ ~fits => /\ view' = [view EXCEPT !.begin = b, !.finished = TRUE]
                  /\ phase' = IF b = Len(raw) + 1 THEN "take" ELSE "overrun"
                  /\ got' = got
  BY DEF NextTLV
<1>8. got \in Seq([type : Byte, value : Seq(Byte)])
      /\ view \in [begin : Nat, end : Nat, finished : BOOLEAN]
  BY <1>1 DEF TypeOK
<1> HIDE DEF x, segs, N
<1>9. CASE m = N
  <2>1. b = Len(raw) + 1 /\ Len(raw) \in Nat
    BY <1>1, <1>3, <1>4, <1>9
  <2>2. ~fits
    <3>1. ~(value <= Len(raw) + 1)
      <4> HIDE DEF b
      <4> QED
        BY <2>1
    <3> QED
      BY <3>1
  <2>3. phase' = "take" /\ got' = segs
        /\ view' = [view EXCEPT !.begin = b, !.finished = TRUE]
    BY <1>3, <1>5, <1>7, <1>9, <2>1, <2>2, SubSeqFull
  <2>4. TypeOK'
    BY <1>1, <1>6, <1>7, <1>8, <2>2, <2>3 DEF TypeOK
  <2>5. Phased'
    BY <1>1, <1>6, <2>3 DEF Phased, segs, x
  <2> QED
    BY <1>1, <1>6, <2>4, <2>5 DEF IInv, Understood
<1>10. CASE m # N
  <2> DEFINE e == End(x, m)
             tlv == segs[m + 1]
             z == Size(tlv)
  <2>1. m + 1 \in 1..N /\ m + 1 - 1 = m /\ m \in Nat
    BY <1>3, <1>4, <1>10
  <2>2. /\ tlv \in Segment /\ z \in Nat /\ End(x, m + 1) = e + 5 + z
        /\ At(raw, e, tlv) /\ e \in Nat \ {0}
    BY <1>4, <2>1
  <2>3. e + 5 + z <= Len(raw) /\ Length(raw, e + 2) = z /\ Len(raw) \in Nat
    BY <1>1, <2>2 DEF At
  <2> HIDE DEF e, tlv, z
  <2>4. b = e + 1 /\ b + 1 = e + 2 /\ value = e + 6
    BY <1>3, <2>2 DEF e
  <2>5. end = e + 6 + z /\ end - 1 = e + 5 + z
    <3>1. Length(raw, b + 1) = z
      BY <2>3, <2>4
    <3> HIDE DEF b
    <3> QED
      BY <2>2, <2>4, <3>1
  <2>6. fits
    <3>1. value <= Len(raw) + 1 /\ end <= Len(raw) + 1
      <4> HIDE DEF value, end
      <4> QED
        BY <2>2, <2>3, <2>4, <2>5
    <3> QED
      BY <3>1
  <2>7. [type |-> raw[b], value |-> SubSeq(raw, value, end - 1)] = tlv
    <3>1. [type |-> raw[e + 1], value |-> SubSeq(raw, e + 6, e + 5 + z)] = tlv
      BY <1>1, <2>2, Shown DEF z
    <3> QED
      BY <2>4, <2>5, <3>1
  <2>8. /\ phase' = "walk" /\ got' = Append(got, tlv)
        /\ view' = [view EXCEPT !.begin = value, !.end = end]
    BY <1>1, <1>7, <2>6, <2>7
  <2>9. got' = SubSeq(segs, 1, m + 1)
    <3>1. SubSeq(segs, 1, m) \in Seq(Segment)
      BY <1>5, <2>1
    <3>2. Append(SubSeq(segs, 1, m), tlv) = SubSeq(segs, 1, m) \o <<tlv>>
      BY <2>2, <3>1, AppendIsConcat
    <3>3. SubSeq(segs, 1, m + 1) = SubSeq(segs, 1, m) \o <<segs[m + 1]>>
      BY <1>5, <2>1, SubSeqRecursiveSecond
    <3> QED
      BY <1>3, <2>8, <3>2, <3>3 DEF tlv
  <2>10. view'.end = End(x, m + 1) + 1 /\ value \in Nat /\ end \in Nat
    <3>1. view'.end = end
      BY <1>8, <2>8
    <3> HIDE DEF value, end
    <3> QED
      BY <2>2, <2>4, <2>5, <3>1
  <2>11. Walked'
    <3>1. m + 1 \in 0..N
      BY <2>1
    <3> QED
      BY <1>6, <2>9, <2>10, <3>1 DEF Walked, x, segs, N
  <2>12. TypeOK'
    <3>1. got' \in Seq([type : Byte, value : Seq(Byte)])
      BY <1>8, <2>2, <2>8 DEF Segment
    <3>2. view' \in [begin : Nat, end : Nat, finished : BOOLEAN]
      BY <1>8, <2>8, <2>10
    <3> QED
      BY <1>1, <1>6, <2>8, <3>1, <3>2 DEF TypeOK
  <2>13. Phased'
    BY <1>1, <1>6, <2>8, <2>11 DEF Phased
  <2> QED
    BY <1>1, <1>6, <2>12, <2>13 DEF IInv, Understood
<1> QED
  BY <1>9, <1>10

-----------------------------------------------------------------------------
\* Understanding.

\* What the segments of an answer are, to each kind of request.
LEMMA AnswersSay ==
  ASSUME NEW x \in Exchanges
  PROVE  LET segs == Segments(x)
             flag == TLV_TYPE[IF x.ok THEN "OK" ELSE "ERROR"]
         IN  /\ x.op \in Job =>
                  /\ segs[1] = TLV("ITEM", create_sign(x.items[1]))
                  /\ segs[2].type = flag
             /\ x.op = "AUTH" \/ (x.op = "SYNC" /\ ~x.ok) =>
                  segs[1].type = flag
             /\ x.op = "SYNC" /\ x.ok =>
                  /\ Len(segs) = Len(x.items) + 1
                  /\ \A i \in 1..Len(x.items) :
                       segs[i] = TLV("ITEM", create_sign(x.items[i]))
                  /\ segs[Len(x.items) + 1] = TLV("END", <<>>)
<1> DEFINE items == [i \in DOMAIN x.items |->
                       TLV("ITEM", create_sign(x.items[i]))]
           okOrError == IF x.ok THEN TLV("OK", <<>>) ELSE TLV("ERROR", x.code)
           end == TLV("END", <<>>)
           flag == TLV_TYPE[IF x.ok THEN "OK" ELSE "ERROR"]
           n == Len(x.items)
           S == [type : {2, 3, 4, 5}, value : Seq(Nat)]
<1>1. /\ x \in [op : DOMAIN MSG_TYPE, items : Seq(Item), ok : BOOLEAN,
               code : Seq(Byte)]
      /\ x.op \in Job => Len(x.items) = 1
  BY ExchangesAssumption
<1>2. /\ okOrError \in S /\ okOrError.type = flag /\ end \in S
  <2>1. x.code \in Seq(Nat)
    <3>1. x.code \in Seq(Byte)
      BY <1>1
    <3> QED
      BY <3>1, ExchangesAssumption, SeqMonotonic DEF Byte
  <2> QED
    BY <2>1 DEF TLV, TLV_TYPE
<1>3. /\ n \in Nat /\ items \in Seq(S) /\ Len(items) = n
      /\ \A i \in 1..n : items[i] = TLV("ITEM", create_sign(x.items[i]))
  <2>1. n \in Nat /\ DOMAIN x.items = 1..n
    BY <1>1
  <2>2. ASSUME NEW i \in 1..n
        PROVE  TLV("ITEM", create_sign(x.items[i])) \in S
    <3>1. create_sign(x.items[i]) \in Seq(Byte)
      BY <1>1, <2>1, Signs
    <3>2. create_sign(x.items[i]) \in Seq(Nat)
      BY <3>1, ExchangesAssumption, SeqMonotonic DEF Byte
    <3> QED
      BY <3>2 DEF TLV, TLV_TYPE
  <2> QED
    BY <2>1, <2>2
<1>4. Segments(x) =
        (CASE x.op = "SYNC" -> IF x.ok THEN items ELSE <<okOrError>>
           [] x.op = "AUTH" -> <<okOrError>>
           [] x.op \in Job  -> items \o <<okOrError>>) \o <<end>>
  BY DEF Segments
<1> HIDE DEF items, okOrError, end, flag, n, S
<1>5. ASSUME x.op \in Job
      PROVE  /\ Segments(x)[1] = TLV("ITEM", create_sign(x.items[1]))
             /\ Segments(x)[2].type = flag
  <2>1. Segments(x) = (items \o <<okOrError>>) \o <<end>>
    BY <1>4, <1>5 DEF Job
  <2>2. Len(items) = 1 /\ items[1] = TLV("ITEM", create_sign(x.items[1]))
    BY <1>1, <1>3, <1>5 DEF n
  <2>3. Segments(x)[1] = items[1] /\ Segments(x)[2] = okOrError
    <3> DEFINE body == items \o <<okOrError>>
    <3>1. /\ body \in Seq(S) /\ Len(body) = 2
          /\ body[1] = items[1] /\ body[2] = okOrError
      <4>1. <<okOrError>> \in Seq(S)
        BY <1>2
      <4> QED
        BY <1>3, <2>2, <4>1, Concatenation
    <3> HIDE DEF body
    <3>2. Segments(x) = body \o <<end>>
      BY <2>1 DEF body
    <3> QED
      BY <1>2, <3>1, <3>2
  <2> QED
    BY <1>2, <2>2, <2>3
<1>6. ASSUME x.op = "AUTH" \/ (x.op = "SYNC" /\ ~x.ok)
      PROVE  Segments(x)[1].type = flag
  <2>1. Segments(x) = <<okOrError>> \o <<end>>
    BY <1>4, <1>6 DEF Job
  <2>2. Segments(x)[1] = okOrError
    BY <1>2, <2>1
  <2> QED
    BY <1>2, <2>2
<1>7. ASSUME x.op = "SYNC" /\ x.ok
      PROVE  /\ Len(Segments(x)) = n + 1
             /\ \A i \in 1..n :
                  Segments(x)[i] = TLV("ITEM", create_sign(x.items[i]))
             /\ Segments(x)[n + 1] = end
  <2>1. Segments(x) = items \o <<end>>
    BY <1>4, <1>7 DEF Job
  <2> QED
    BY <1>2, <1>3, <2>1
<1> QED
  BY <1>5, <1>6, <1>7 DEF flag, n, end

\* From a whole answer, seen segment by segment, the client concludes what
\* the server has said.
LEMMA OutcomeIsMeant ==
  ASSUME NEW x \in Exchanges, raw = Encoded(x), got = Segments(x)
  PROVE  /\ Outcome(x) \in [ok : BOOLEAN, items : SUBSET (Text \X Text)]
         /\ Outcome(x).ok = x.ok
         /\ x.op = "SYNC" /\ x.ok =>
              Outcome(x).items = {x.items[k] : k \in DOMAIN x.items}
<1>1. /\ x \in [op : DOMAIN MSG_TYPE, items : Seq(Item), ok : BOOLEAN,
               code : Seq(Byte)]
      /\ x.op \in Job => Len(x.items) = 1
  BY ExchangesAssumption
<1>2. raw[1] = MSG_TYPE[x.op]
  BY Layout
<1>3. x.op \in Job \/ x.op = "AUTH" \/ x.op = "SYNC"
  BY <1>1 DEF MSG_TYPE, Job
<1>4. CASE x.op \in Job
  <2>1. /\ got[1] = TLV("ITEM", create_sign(x.items[1]))
        /\ got[2].type = TLV_TYPE[IF x.ok THEN "OK" ELSE "ERROR"]
    BY <1>4, AnswersSay
  <2>2. Accepted(x.op, create_sign(x.items[1])) = x.ok
    <3>1. got[1] = [type |-> TLV_TYPE["ITEM"],
                    value |-> create_sign(x.items[1])]
      BY <2>1 DEF TLV
    <3>2. got[2].type = TLV_TYPE["OK"] <=> x.ok
      BY <2>1 DEF TLV_TYPE
    <3>3. Accepted(x.op, create_sign(x.items[1])) <=> x.ok
      BY <1>2, <3>1, <3>2, Zenon DEF Accepted
    <3>4. x.ok \in BOOLEAN
          /\ Accepted(x.op, create_sign(x.items[1])) \in BOOLEAN
      BY <1>1 DEF Accepted
    <3> QED
      BY <3>3, <3>4
  <2>3. Outcome(x) = [ok |-> x.ok, items |-> {}]
    BY <1>4, <2>2 DEF Outcome, Job
  <2> QED
    BY <1>1, <1>4, <2>3 DEF Job
<1>5. CASE x.op = "AUTH"
  <2>1. got[1].type = TLV_TYPE[IF x.ok THEN "OK" ELSE "ERROR"]
    BY <1>5, AnswersSay
  <2>2. Authenticated = x.ok
    BY <1>1, <2>1 DEF Authenticated, TLV_TYPE
  <2>3. Outcome(x) = [ok |-> x.ok, items |-> {}]
    BY <1>5, <2>2 DEF Outcome, Job
  <2> QED
    BY <1>1, <1>5, <2>3
<1>6. CASE x.op = "SYNC" /\ ~x.ok
  <2>1. got[1].type = TLV_TYPE["ERROR"]
    BY <1>6, AnswersSay
  <2>2. SyncFailed
    BY <2>1 DEF SyncFailed
  <2>3. Outcome(x) = [ok |-> FALSE, items |-> {}]
    BY <1>6, <2>2 DEF Outcome, Job
  <2>4. x.ok = FALSE /\ ~x.ok
    BY <1>1, <1>6
  <2>5. /\ Outcome(x) \in [ok : BOOLEAN, items : SUBSET (Text \X Text)]
        /\ Outcome(x).ok = FALSE
    BY <2>3
  <2> QED
    BY <2>4, <2>5, Zenon
<1>7. CASE x.op = "SYNC" /\ x.ok
  <2> DEFINE n == Len(x.items)
  <2>1. /\ n \in Nat /\ DOMAIN x.items = 1..n /\ DOMAIN got = 1..(n + 1)
        /\ \A i \in 1..n : /\ x.items[i] \in Item
                            /\ got[i].value = create_sign(x.items[i])
                            /\ got[i].type = TLV_TYPE["ITEM"]
        /\ got[n + 1].type = TLV_TYPE["END"]
    <3>1. /\ Len(got) = n + 1
          /\ \A i \in 1..n : got[i] = TLV("ITEM", create_sign(x.items[i]))
          /\ got[n + 1] = TLV("END", <<>>)
      BY <1>7, AnswersSay
    <3>2. got \in Seq(Segment)
      BY AnswersAreAnswerable DEF Answerable
    <3>3. \A v : /\ TLV("ITEM", v).type = TLV_TYPE["ITEM"]
                 /\ TLV("ITEM", v).value = v
      BY DEF TLV
    <3>4. TLV("END", <<>>).type = TLV_TYPE["END"]
      BY DEF TLV
    <3>5. n \in Nat /\ DOMAIN x.items = 1..n
          /\ \A i \in 1..n : x.items[i] \in Item
      BY <1>1
    <3> HIDE DEF n
    <3>6. DOMAIN got = 1..(n + 1)
      BY <3>1, <3>2
    <3> QED
      BY <3>1, <3>3, <3>4, <3>5, <3>6
  <2> HIDE DEF n
  <2>2. ~SyncFailed
    <3>1. got[1].type # TLV_TYPE["ERROR"]
      <4>1. CASE n = 0
        BY <2>1, <4>1 DEF TLV_TYPE
      <4>2. CASE n # 0
        BY <2>1, <4>2 DEF TLV_TYPE
      <4> QED
        BY <4>1, <4>2
    <3> QED
      BY <1>2, <1>7, <3>1 DEF SyncFailed
  <2>3. {k \in DOMAIN got : got[k].type = TLV_TYPE["ITEM"]} = 1..n
    BY <2>1 DEF TLV_TYPE
  <2>4. \A i \in 1..n : split_sign(got[i].value) = x.items[i]
    BY <2>1, Signs
  <2>5. Listing = {x.items[k] : k \in DOMAIN x.items}
    BY <2>1, <2>3, <2>4 DEF Listing
  <2>6. Outcome(x) = [ok |-> TRUE, items |-> Listing]
    BY <1>7, <2>2 DEF Outcome, Job
  <2>7. Listing \subseteq Text \X Text
    BY <2>1, <2>5 DEF Item
  <2> QED
    BY <1>1, <1>7, <2>5, <2>6, <2>7
<1> QED
  BY <1>1, <1>3, <1>4, <1>5, <1>6, <1>7

LEMMA TakeStep ==
  ASSUME IInv, Take
  PROVE  IInv'
<1>1. /\ TypeOK /\ Phased /\ Understood /\ phase = "take"
      /\ turn <= Turns /\ raw = Answer /\ got = Segments(exch[turn])
      /\ left = 0 /\ wire = <<>> /\ Len(heard) = turn - 1
  BY DEF IInv, Take, Phased
<1>2. exch[turn] \in Exchanges /\ turn \in 1..Turns
  BY <1>1, AtExchange
<1> DEFINE h == Outcome(exch[turn])
<1>3. /\ h \in [ok : BOOLEAN, items : SUBSET (Text \X Text)]
      /\ h.ok = exch[turn].ok
      /\ exch[turn].op = "SYNC" /\ exch[turn].ok =>
           h.items = {exch[turn].items[k] : k \in DOMAIN exch[turn].items}
  BY <1>1, <1>2, OutcomeIsMeant DEF Answer
<1>4. /\ heard' = Append(heard, h) /\ turn' = turn + 1
      /\ phase' = IF turn = Turns THEN "end" ELSE "post"
      /\ UNCHANGED <<exch, left, wire, raw, view, got>>
  BY DEF Take
<1> HIDE DEF h
<1>5. /\ heard' \in Seq([ok : BOOLEAN, items : SUBSET (Text \X Text)])
      /\ Len(heard') = turn /\ heard'[turn] = h
      /\ \A i \in 1..(turn - 1) : heard'[i] = heard[i] /\ i \in DOMAIN heard
  BY <1>1, <1>2, <1>3, <1>4 DEF TypeOK
<1>6. TypeOK'
  <2>1. turn' \in 1..(Turns + 1)
    BY <1>2, <1>4, ExchangesAssumption
  <2>2. phase' \in {"post", "end"}
    BY <1>4
  <2> QED
    BY <1>1, <1>4, <1>5, <2>1, <2>2 DEF TypeOK
<1>7. Phased'
  <2>1. /\ phase' \in {"post", "end"} /\ (phase' # "end" => turn' <= Turns)
        /\ Len(heard') = turn' - 1
    BY <1>2, <1>4, <1>5, ExchangesAssumption
  <2> QED
    BY <1>1, <1>4, <2>1 DEF Phased
<1>8. Understood'
  <2> SUFFICES ASSUME NEW i \in DOMAIN heard'
               PROVE  /\ heard'[i].ok = exch[i].ok
                      /\ exch[i].op = "SYNC" /\ exch[i].ok =>
                           heard'[i].items =
                             {exch[i].items[k] : k \in DOMAIN exch[i].items}
    BY <1>4 DEF Understood
  <2>1. i = turn \/ i \in 1..(turn - 1)
    BY <1>2, <1>5
  <2>2. CASE i = turn
    BY <1>3, <1>5, <2>2
  <2>3. CASE i \in 1..(turn - 1)
    BY <1>1, <1>5, <2>3 DEF Understood
  <2> QED
    BY <2>1, <2>2, <2>3
<1> QED
  BY <1>6, <1>7, <1>8 DEF IInv

-----------------------------------------------------------------------------
LEMMA InitIInv ==
  ASSUME Init
  PROVE  IInv
<1>1. TypeOK
  BY ExchangesAssumption DEF Init, TypeOK, tlv_view
<1>2. Phased /\ Understood
  BY ExchangesAssumption DEF Init, Phased, Understood
<1> QED
  BY <1>1, <1>2 DEF IInv

LEMMA NextIInv ==
  ASSUME IInv, [Next]_vars
  PROVE  IInv'
<1>1. CASE UNCHANGED vars
  <2>1. TypeOK'
    BY <1>1 DEF IInv, TypeOK, vars
  <2>2. Phased'
    BY <1>1 DEF IInv, vars, Phased, Framed, Walked, Answer, Sent
  <2>3. Understood'
    BY <1>1 DEF IInv, Understood, vars
  <2> QED
    BY <2>1, <2>2, <2>3 DEF IInv
<1> QED
  BY <1>1, PostStep, SendStep, ReadStep, NextTLVStep, TakeStep DEF Next

\* In every exchange the client's buffer, the fragments in flight and what the
\* server has still to send make up the answer, and the view stands between
\* two of its segments.
THEOREM Invariance == Spec => []IInv
<1>1. Init => IInv
  BY InitIInv
<1>2. IInv /\ [Next]_vars => IInv'
  BY NextIInv
<1> QED
  BY <1>1, <1>2, PTL DEF Spec

\* The buffer, the fragments and the segments shown are bytes.
THEOREM TypeCorrect == Spec => []TypeOK
<1>1. IInv => TypeOK
  BY DEF IInv
<1> QED
  BY <1>1, Invariance, PTL

\* However the server cuts an answer, connection::read() neither stops before
\* its end nor goes on after it.
THEOREM AnswersAreReadWhole == Spec => []ReadIsWhole
<1>1. IInv => ReadIsWhole
  BY DEF IInv, Phased, ReadIsWhole, Answer
<1> QED
  BY <1>1, Invariance, PTL

\* Neither verify_end nor next_tlv reads outside the buffer.
THEOREM BufferIsNotLeft == Spec => []WithinBuffer
<1>1. IInv => WithinBuffer
  BY DEF IInv, Phased, WithinBuffer
<1> QED
  BY <1>1, Invariance, PTL

\* The handlers, auth and sync conclude from an answer what the server has
\* said in it.
THEOREM AnswersAreUnderstood == Spec => []Understood
<1>1. IInv => Understood
  BY DEF IInv
<1> QED
  BY <1>1, Invariance, PTL
=============================================================================
