---------------------------- MODULE CodecProofs ----------------------------
(***************************************************************************)
(* Lemmas about the bytes of an answer, for every Base and any number of   *)
(* segments of any length: where each segment stands in it, what a sign    *)
(* and a length read back to, and that no beginning of an answer ends as   *)
(* an END segment does.  ResponseProofs uses them.                         *)
(***************************************************************************)
EXTENDS Response, SequenceTheorems, WellFoundedInduction, TLAPS

-----------------------------------------------------------------------------
\* Induction over the natural numbers, for a set instead of a predicate.

LEMMA Least ==
  ASSUME NEW S, S \subseteq Nat, S # {}
  PROVE  \E n \in S : \A m \in S : n <= m
<1>1. PICK R : /\ IsWellFoundedOn(R, Nat)
               /\ \A m, n \in Nat : m < n => <<m, n>> \in R
  <2> DEFINE L == OpToRel(<, Nat)
  <2>1. \A m, n \in Nat : m < n => <<m, n>> \in L
    BY DEF OpToRel
  <2>2. IsWellFoundedOn(L, Nat)
    BY NatLessThanWellFounded
  <2> HIDE DEF L
  <2> QED
    BY <2>1, <2>2
<1>2. IsWellFoundedOn(R, Nat)
  BY <1>1
<1>3. PICK n \in S : \A m \in S : ~(<<m, n>> \in R)
  BY <1>2, WFMin
<1>4. \A m \in Nat : m < n \/ n <= m
  OBVIOUS
<1> QED
  BY <1>1, <1>3, <1>4, Zenon

LEMMA SetInduction ==
  ASSUME NEW S, 0 \in S, \A n \in Nat : n \in S => n + 1 \in S
  PROVE  Nat \subseteq S
<1>1. SUFFICES ASSUME Nat \ S # {}
               PROVE  FALSE
  OBVIOUS
<1>2. PICK n \in Nat \ S : \A m \in Nat \ S : n <= m
  BY <1>1, Least
<1>3. n # 0 /\ n - 1 \in Nat /\ n - 1 \in S
  BY <1>2
<1> QED
  BY <1>2, <1>3

-----------------------------------------------------------------------------
\* Lengths in four bytes.

LEMMA Shift ==
  ASSUME NEW n \in Nat, NEW b \in Nat \ {0}
  PROVE  /\ n \div b \in Nat /\ n % b \in 0..(b - 1)
         /\ n = (n \div b) * b + (n % b)
  OBVIOUS

LEMMA ShiftLess ==
  ASSUME NEW n \in Nat, NEW b \in Nat \ {0}, NEW m \in Nat, n < m * b
  PROVE  n \div b < m
<1>1. /\ n \div b \in Nat /\ n % b \in Nat
      /\ n = (n \div b) * b + (n % b)
  BY Shift
<1>2. ASSUME n \div b >= m
      PROVE  FALSE
  <2>1. PICK d \in Nat : n \div b = m + d
    BY <1>1, <1>2
  <2>2. (m + d) * b = m * b + d * b /\ d * b \in Nat /\ m * b \in Nat
    OBVIOUS
  <2> QED
    BY <1>1, <2>1, <2>2
<1> QED
  BY <1>1, <1>2

LEMMA LengthOfBigEndian ==
  ASSUME NEW n \in Nat, n < Base * Base * Base * Base
  PROVE  /\ BigEndian(n) \in Seq(Byte) /\ Len(BigEndian(n)) = 4
         /\ Length(BigEndian(n), 1) = n
<1> DEFINE n3 == n \div Base
           n2 == n3 \div Base
           n1 == n2 \div Base
<1>0. Base \in Nat \ {0}
  BY ExchangesAssumption
<1>1. /\ n3 \in Nat /\ n % Base \in Byte /\ n = n3 * Base + (n % Base)
  BY <1>0, Shift DEF Byte
<1>2. /\ n2 \in Nat /\ n3 % Base \in Byte /\ n3 = n2 * Base + (n3 % Base)
  BY <1>0, <1>1, Shift DEF Byte
<1>3. /\ n1 \in Nat /\ n2 % Base \in Byte /\ n2 = n1 * Base + (n2 % Base)
  BY <1>0, <1>2, Shift DEF Byte
<1>4. n1 < Base
  <2>1. Base * Base * Base \in Nat /\ Base * Base \in Nat
    BY <1>0
  <2>2. n3 < Base * Base * Base
    BY <1>0, <2>1, ShiftLess
  <2>3. n2 < Base * Base
    BY <1>0, <1>1, <2>1, <2>2, ShiftLess
  <2> QED
    BY <1>0, <1>2, <2>3, ShiftLess
<1>5. n1 % Base = n1 /\ n1 \in Byte
  BY <1>0, <1>3, <1>4 DEF Byte
<1>6. BigEndian(n) = <<n1, n2 % Base, n3 % Base, n % Base>>
  BY <1>5 DEF BigEndian
<1> HIDE DEF n1, n2, n3
<1> DEFINE c2 == n2 % Base
           c3 == n3 % Base
           c4 == n % Base
<1>7. BigEndian(n) = <<n1, c2, c3, c4>>
  BY <1>6
<1>8. c2 \in Byte /\ c3 \in Byte /\ c4 \in Byte
      /\ n = n3 * Base + c4 /\ n3 = n2 * Base + c3 /\ n2 = n1 * Base + c2
  BY <1>1, <1>2, <1>3
<1> HIDE DEF c2, c3, c4
<1>9. BigEndian(n) \in Seq(Byte) /\ Len(BigEndian(n)) = 4
  BY <1>5, <1>7, <1>8
<1>10. Length(BigEndian(n), 1) = n
  BY <1>7, <1>8 DEF Length
<1> QED
  BY <1>9, <1>10

-----------------------------------------------------------------------------
\* Segments and signs.

Segment == [type : Byte, value : Seq(Byte)]

\* A value does not begin with a zero and has no two of them in a row.
Sparse(v) == /\ v # <<>> => v[1] # 0
             /\ \A k \in 1..(Len(v) - 1) : v[k] # 0 \/ v[k + 1] # 0

\* Such a value, or one too short to hold what looks like an END.
Plain(v) == Sparse(v) \/ Len(v) <= 4

FourBytes(v) == Len(v) < Base * Base * Base * Base

Answerable(segs) ==
  /\ segs \in Seq(Segment) /\ segs # <<>>
  /\ \A n \in 1..Len(segs) :
       /\ segs[n].type # 0
       /\ segs[n].type = TLV_TYPE["END"] => n = Len(segs)
       /\ Plain(segs[n].value) /\ FourBytes(segs[n].value)
  /\ segs[Len(segs)] = TLV("END", <<>>)

LEMMA Zeros == 0 \in Byte /\ Byte \ {0} \subseteq Byte
  BY ExchangesAssumption DEF Byte

LEMMA Signs ==
  ASSUME NEW item \in Item
  PROVE  /\ create_sign(item) \in Seq(Byte) /\ Sparse(create_sign(item))
         /\ split_sign(create_sign(item)) = item
<1> DEFINE p == item[1]
           d == item[2]
           s == create_sign(item)
<1>1. /\ p \in Seq(Byte \ {0}) /\ d \in Seq(Byte \ {0}) /\ p # <<>>
      /\ item = <<p, d>>
  BY DEF Item, Text
<1>2. p \in Seq(Byte) /\ d \in Seq(Byte) /\ <<0>> \in Seq(Byte)
  BY <1>1, Zeros, SeqMonotonic
<1>3. /\ s \in Seq(Byte) /\ Len(s) = Len(p) + 1 + Len(d)
      /\ Len(p) \in Nat \ {0} /\ Len(d) \in Nat
      /\ \A k \in 1..Len(p) : s[k] = p[k] /\ p[k] # 0
      /\ s[Len(p) + 1] = 0
      /\ \A k \in 1..Len(d) : s[Len(p) + 1 + k] = d[k] /\ d[k] # 0
  BY <1>1, <1>2 DEF create_sign
<1> HIDE DEF s, p, d
<1>4. Sparse(s)
  <2>1. s # <<>> => s[1] # 0
    BY <1>3
  <2>2. ASSUME NEW k \in 1..(Len(s) - 1)
        PROVE  s[k] # 0 \/ s[k + 1] # 0
    <3>1. CASE k <= Len(p)
      BY <1>3, <3>1
    <3>2. CASE k > Len(p)
      <4>1. PICK j \in 1..Len(d) : k + 1 = Len(p) + 1 + j
        <5>1. k - Len(p) \in 1..Len(d) /\ k + 1 = Len(p) + 1 + (k - Len(p))
          BY <1>3, <3>2
        <5> QED
          BY <5>1
      <4> QED
        BY <1>3, <4>1
    <3> QED
      BY <1>3, <3>1, <3>2
  <2> QED
    BY <2>1, <2>2 DEF Sparse
<1>5. split_sign(s) = item
  <2> DEFINE I == {k \in 1..Len(s) : s[k] = 0}
  <2>1. I = {Len(p) + 1}
    <3>1. ASSUME NEW k \in 1..Len(s), s[k] = 0
          PROVE  k = Len(p) + 1
      <4>1. CASE k <= Len(p)
        BY <1>3, <3>1, <4>1
      <4>2. CASE k > Len(p) + 1
        <5>1. /\ k - Len(p) - 1 \in 1..Len(d)
              /\ k = Len(p) + 1 + (k - Len(p) - 1)
          BY <1>3, <4>2
        <5> QED
          BY <1>3, <3>1, <5>1
      <4> QED
        BY <1>3, <3>1, <4>1, <4>2
    <3> QED
      BY <1>3, <3>1
  <2>2. SelectLastInSeq(s, LAMBDA b : b = 0) = Len(p) + 1
    <3>1. SelectLastInSeq(s, LAMBDA b : b = 0) = IF I # {} THEN Max(I) ELSE 0
      BY DEF SelectLastInSeq
    <3>2. \A m : m \in Nat => Max({m}) = m
      BY DEF Max
    <3> QED
      BY <1>3, <2>1, <3>1, <3>2
  <2>3. split_sign(s) = <<SubSeq(s, 1, Len(p) + 1 - 1),
                          SubSeq(s, Len(p) + 1 + 1, Len(s))>>
    BY <2>2 DEF split_sign
  <2>4. SubSeq(s, 1, Len(p) + 1 - 1) = p
    BY <1>2, <1>3
  <2>5. SubSeq(s, Len(p) + 1 + 1, Len(s)) = d
    BY <1>2, <1>3
  <2> QED
    BY <1>1, <2>3, <2>4, <2>5
<1> QED
  BY <1>3, <1>4, <1>5 DEF s

\* Every answer is a sequence of segments of which the last, and no other, is
\* an END.
LEMMA AnswersAreAnswerable ==
  ASSUME NEW x \in Exchanges
  PROVE  Answerable(Segments(x))
<1> DEFINE items == [i \in DOMAIN x.items |->
                       TLV("ITEM", create_sign(x.items[i]))]
           okOrError == IF x.ok THEN TLV("OK", <<>>) ELSE TLV("ERROR", x.code)
           end == TLV("END", <<>>)
           Inner(s) == /\ s \in Segment
                       /\ s.type \in {2, 4, 5}
                       /\ Plain(s.value) /\ FourBytes(s.value)
<1>0. /\ x \in [op : DOMAIN MSG_TYPE, items : Seq(Item), ok : BOOLEAN,
               code : Seq(Byte)]
      /\ \A i \in DOMAIN x.items :
           2 * Len(create_sign(x.items[i])) < Base * Base * Base * Base
      /\ {0, 1, 2, 3, 4, 5} \subseteq Byte
      /\ x.code \in Seq(Byte) /\ Len(x.code) \in Nat /\ Len(x.code) <= 4
  <2>1. /\ x \in [op : DOMAIN MSG_TYPE, items : Seq(Item), ok : BOOLEAN,
                  code : Seq(Byte)]
        /\ \A i \in DOMAIN x.items :
             2 * Len(create_sign(x.items[i])) < Base * Base * Base * Base
        /\ Len(x.code) <= 4
    BY ExchangesAssumption
  <2>2. {0, 1, 2, 3, 4, 5} \subseteq Byte
    BY ExchangesAssumption DEF Byte
  <2>3. x.code \in Seq(Byte) /\ Len(x.code) \in Nat /\ Len(x.code) <= 4
    <3>1. x.code \in Seq(Byte)
      BY <2>1
    <3>2. Len(x.code) \in Nat /\ Len(x.code) <= 4
      BY <2>1, <3>1
    <3> QED
      BY <3>1, <3>2
  <2> QED
    BY <2>1, <2>2, <2>3
<1>1. 4 < Base * Base * Base * Base
  <2>1. Base \in Nat /\ Base > 4
    BY ExchangesAssumption
  <2>2. ASSUME NEW m \in Nat, NEW k \in Nat, m > 4, k > 4
        PROVE  m * k > 4 /\ m * k \in Nat
    <3>1. PICK e \in Nat : m = 1 + e
      BY <2>2
    <3>2. m * k = k + e * k /\ e * k \in Nat
      BY <3>1
    <3> QED
      BY <2>2, <3>2
  <2>3. Base * Base \in Nat /\ Base * Base > 4
    BY <2>1, <2>2
  <2>4. Base * Base * Base \in Nat /\ Base * Base * Base > 4
    BY <2>1, <2>2, <2>3
  <2> QED
    BY <2>1, <2>2, <2>4
<1>2. FourBytes(<<>>) /\ FourBytes(x.code) /\ Plain(<<>>) /\ Plain(x.code)
  <2> DEFINE limit == Base * Base * Base * Base
  <2>1. 4 < limit /\ limit \in Nat
    BY <1>1, ExchangesAssumption
  <2>2. FourBytes(<<>>) <=> Len(<<>>) < limit
    BY DEF FourBytes
  <2>3. FourBytes(x.code) <=> Len(x.code) < limit
    BY DEF FourBytes
  <2>4. Len(<<>>) = 0 /\ Len(x.code) \in Nat /\ Len(x.code) <= 4
    BY <1>0
  <2> HIDE DEF limit, items, okOrError, end
  <2>5. FourBytes(<<>>) /\ FourBytes(x.code)
    <3> DEFINE n == Len(x.code)
    <3>1. n < limit /\ 0 < limit
      <4> HIDE DEF n
      <4>1. n \in Nat /\ n <= 4
        BY <2>4 DEF n
      <4> QED
        BY <2>1, <4>1
    <3> QED
      BY <2>2, <2>3, <2>4, <3>1
  <2>6. Plain(<<>>) /\ Plain(x.code)
    <3>1. Len(<<>>) <= 4 /\ Len(x.code) <= 4
      <4> DEFINE k == Len(<<>>)
      <4>1. k = 0
        BY <2>4
      <4> HIDE DEF k
      <4>2. k <= 4
        BY <4>1
      <4> QED
        BY <2>4, <4>2 DEF k
    <3> QED
      BY <3>1 DEF Plain
  <2> QED
    BY <2>5, <2>6
<1>3. /\ end \in Segment /\ end.type = 3
      /\ Plain(end.value) /\ FourBytes(end.value)
  BY <1>0, <1>2 DEF TLV, TLV_TYPE, Segment
<1>4. Inner(okOrError)
  BY <1>0, <1>2 DEF TLV, TLV_TYPE, Segment
<1>5. /\ items \in Seq(Segment)
      /\ \A i \in 1..Len(items) : Inner(items[i])
  <2>1. DOMAIN x.items = 1..Len(x.items) /\ Len(x.items) \in Nat
    BY <1>0
  <2>2. ASSUME NEW i \in DOMAIN x.items
        PROVE  Inner(items[i])
    <3> DEFINE v == create_sign(x.items[i])
    <3>1. v \in Seq(Byte) /\ Plain(v)
      BY <1>0, Signs DEF Plain
    <3>2. FourBytes(v)
      <4>1. Len(v) \in Nat /\ 2 * Len(v) < Base * Base * Base * Base
            /\ Base * Base * Base * Base \in Nat
        BY <1>0, <3>1, ExchangesAssumption
      <4> HIDE DEF v
      <4> QED
        BY <4>1 DEF FourBytes
    <3> HIDE DEF v
    <3>3. items[i] = [type |-> 2, value |-> v]
      BY DEF TLV, TLV_TYPE, v
    <3> QED
      BY <1>0, <3>1, <3>2, <3>3 DEF Segment
  <2>3. items \in [1..Len(x.items) -> Segment]
    BY <2>1, <2>2
  <2>4. Len(items) = Len(x.items) /\ items \in Seq(Segment)
    <3> HIDE DEF items
    <3> QED
      BY <2>1, <2>3
  <2> QED
    BY <2>1, <2>2, <2>4
<1> DEFINE body == CASE x.op = "SYNC" -> IF x.ok THEN items ELSE <<okOrError>>
                     [] x.op = "AUTH" -> <<okOrError>>
                     [] x.op \in Job  -> items \o <<okOrError>>
<1>6. Segments(x) = body \o <<end>>
  BY DEF Segments
<1> HIDE DEF items, okOrError, end
<1>7. /\ body \in Seq(Segment)
      /\ \A i \in 1..Len(body) : Inner(body[i])
  <2>1. x.op = "SYNC" \/ x.op = "AUTH" \/ x.op \in Job
    BY <1>0 DEF MSG_TYPE, Job
  <2>2. CASE body = items
    BY <1>5, <2>2
  <2>3. CASE body = <<okOrError>>
    <3> HIDE DEF Inner
    <3>1. okOrError \in Segment
      BY <1>4 DEF Inner
    <3> HIDE DEF body
    <3>2. body \in Seq(Segment) /\ Len(body) = 1 /\ body[1] = okOrError
      BY <2>3, <3>1
    <3>3. \A i \in 1..Len(body) : body[i] = okOrError
      BY <3>2
    <3> QED
      BY <1>4, <3>2, <3>3
  <2>4. CASE body = items \o <<okOrError>>
    <3>1. okOrError \in Segment
      BY <1>4
    <3> HIDE DEF Inner, body
    <3>2. /\ body \in Seq(Segment) /\ Len(body) = Len(items) + 1
          /\ \A i \in 1..Len(items) : body[i] = items[i]
          /\ body[Len(items) + 1] = okOrError
      BY <1>5, <2>4, <3>1
    <3> QED
      BY <1>4, <1>5, <3>2
  <2> QED
    BY <2>1, <2>2, <2>3, <2>4 DEF Job
<1> HIDE DEF body
<1>8. /\ Segments(x) \in Seq(Segment) /\ Len(Segments(x)) = Len(body) + 1
      /\ Len(body) \in Nat
      /\ \A i \in 1..Len(body) : Segments(x)[i] = body[i]
      /\ Segments(x)[Len(body) + 1] = end
  BY <1>3, <1>6, <1>7
<1>9. ASSUME NEW n \in 1..Len(Segments(x))
      PROVE  /\ Segments(x)[n].type # 0
             /\ Segments(x)[n].type = 3 => n = Len(Segments(x))
             /\ Plain(Segments(x)[n].value) /\ FourBytes(Segments(x)[n].value)
  <2>1. CASE n = Len(body) + 1
    BY <1>3, <1>8, <2>1
  <2>2. CASE n \in 1..Len(body)
    BY <1>7, <1>8, <2>2
  <2> QED
    BY <1>8, <2>1, <2>2
<1>10. TLV_TYPE["END"] = 3
  BY DEF TLV_TYPE
<1> QED
  BY <1>8, <1>9, <1>10 DEF Answerable, end

-----------------------------------------------------------------------------
\* The bytes of an answer.

\* The recursive function of Stages exists.
LEMMA StagesDefined ==
  ASSUME NEW x, Len(Segments(x)) \in Nat
  PROVE  LET segs == Segments(x)
         IN  Stages(x) = [n \in 0..Len(segs) |->
                            IF n = 0 THEN <<MSG_TYPE[x.op]>>
                            ELSE add_TLV(Stages(x)[n - 1], segs[n])]
<1> DEFINE segs == Segments(x)
           Step(f, n) == IF n = 0 THEN <<MSG_TYPE[x.op]>>
                         ELSE add_TLV(f[n - 1], segs[n])
           S == {m \in Nat : \E f : f = [n \in 0..m |-> Step(f, n)]}
<1>1. 0 \in S
  <2>1. [n \in 0..0 |-> <<MSG_TYPE[x.op]>>]
          = [n \in 0..0 |-> Step([k \in 0..0 |-> <<MSG_TYPE[x.op]>>], n)]
    OBVIOUS
  <2> QED
    BY <2>1
<1>2. ASSUME NEW m \in Nat, m \in S
      PROVE  m + 1 \in S
  <2>1. PICK f : f = [n \in 0..m |-> Step(f, n)]
    BY <1>2
  <2> DEFINE g == [n \in 0..(m + 1) |-> IF n = m + 1 THEN Step(f, n) ELSE f[n]]
  <2>2. \A n \in 0..(m + 1) : g[n] = Step(g, n)
    <3>1. ASSUME NEW n \in 0..(m + 1)
          PROVE  n # 0 => g[n - 1] = f[n - 1]
      OBVIOUS
    <3>2. ASSUME NEW n \in 0..(m + 1)
          PROVE  g[n] = Step(f, n)
      BY <2>1
    <3> QED
      BY <3>1, <3>2
  <2>3. g = [n \in 0..(m + 1) |-> Step(g, n)]
    BY <2>2
  <2>4. \E h : h = [n \in 0..(m + 1) |-> Step(h, n)]
    <3> HIDE DEF g, Step
    <3> QED
      BY <2>3, Zenon
  <2>5. m + 1 \in Nat
    OBVIOUS
  <2> HIDE DEF g, Step
  <2> QED
    BY <2>4, <2>5
<1> HIDE DEF S
<1>3. Len(segs) \in S
  BY <1>1, <1>2, SetInduction
<1> USE DEF S
<1>4. \E h : h = [n \in 0..Len(segs) |-> Step(h, n)]
  BY <1>3
<1>5. Stages(x) = CHOOSE h : h = [n \in 0..Len(segs) |-> Step(h, n)]
  BY DEF Stages
<1>6. Stages(x) = [n \in 0..Len(segs) |-> Step(Stages(x), n)]
  <2> HIDE DEF Step
  <2> QED
    BY <1>4, <1>5, Zenon
<1> QED
  BY <1>6

\* The elements of a concatenation, counted from the beginning of each part.
LEMMA Concatenation ==
  ASSUME NEW S, NEW p \in Seq(S), NEW q \in Seq(S)
  PROVE  /\ p \o q \in Seq(S) /\ Len(p \o q) = Len(p) + Len(q)
         /\ Len(p) \in Nat /\ Len(q) \in Nat
         /\ \A i \in 1..Len(p) : (p \o q)[i] = p[i]
         /\ \A k \in 1..Len(q) : (p \o q)[Len(p) + k] = q[k]
  OBVIOUS

Size(tlv) == Len(tlv.value)

\* Segment tlv stands in s after the first b bytes.
At(s, b, tlv) == /\ b + 5 + Size(tlv) <= Len(s)
                 /\ s[b + 1] = tlv.type
                 /\ Length(s, b + 2) = Size(tlv)
                 /\ \A k \in 1..Size(tlv) : s[b + 5 + k] = tlv.value[k]

\* add_TLV appends a type, four bytes of length and a value.
LEMMA AddTLV ==
  ASSUME NEW r \in Seq(Byte), NEW tlv \in Segment, FourBytes(tlv.value)
  PROVE  /\ add_TLV(r, tlv) \in Seq(Byte)
         /\ Len(add_TLV(r, tlv)) = Len(r) + 5 + Size(tlv)
         /\ \A i \in 1..Len(r) : add_TLV(r, tlv)[i] = r[i]
         /\ At(add_TLV(r, tlv), Len(r), tlv)
<1> DEFINE s == add_TLV(r, tlv)
           b == Len(r)
           v == tlv.value
           four == BigEndian(Len(v))
<1>1. /\ v \in Seq(Byte) /\ Len(v) \in Nat /\ b \in Nat
      /\ <<tlv.type>> \in Seq(Byte) /\ Len(<<tlv.type>>) = 1
      /\ <<tlv.type>>[1] = tlv.type
  BY DEF Segment
<1>2. four \in Seq(Byte) /\ Len(four) = 4 /\ Length(four, 1) = Len(v)
  BY <1>1, LengthOfBigEndian DEF FourBytes
<1>3. s = ((r \o <<tlv.type>>) \o four) \o v
  BY DEF add_TLV
<1> HIDE DEF four, s, v, b
<1> DEFINE r1 == r \o <<tlv.type>>
           r2 == r1 \o four
<1>4. /\ r1 \in Seq(Byte) /\ Len(r1) = b + 1
      /\ \A i \in 1..b : r1[i] = r[i]
      /\ r1[b + 1] = tlv.type
  <2>1. /\ r1 \in Seq(Byte) /\ Len(r1) = Len(r) + Len(<<tlv.type>>)
        /\ \A i \in 1..Len(r) : r1[i] = r[i]
        /\ \A k \in 1..Len(<<tlv.type>>) : r1[Len(r) + k] = <<tlv.type>>[k]
    BY <1>1, Concatenation
  <2> QED
    BY <1>1, <2>1 DEF b
<1> HIDE DEF r1
<1>5. /\ r2 \in Seq(Byte) /\ Len(r2) = b + 5
      /\ \A i \in 1..(b + 1) : r2[i] = r1[i]
      /\ \A i \in 1..4 : r2[b + 1 + i] = four[i]
  <2>1. /\ r2 \in Seq(Byte) /\ Len(r2) = Len(r1) + Len(four)
        /\ \A i \in 1..Len(r1) : r2[i] = r1[i]
        /\ \A k \in 1..Len(four) : r2[Len(r1) + k] = four[k]
    <3>1. r1 \in Seq(Byte) /\ four \in Seq(Byte)
      BY <1>2, <1>4
    <3> QED
      BY <3>1
  <2> QED
    BY <1>1, <1>2, <1>4, <2>1
<1> HIDE DEF r2
<1>6. /\ s \in Seq(Byte) /\ Len(s) = b + 5 + Len(v)
      /\ \A i \in 1..(b + 5) : s[i] = r2[i]
      /\ \A k \in 1..Len(v) : s[b + 5 + k] = v[k]
  <2>1. /\ r2 \o v \in Seq(Byte) /\ Len(r2 \o v) = Len(r2) + Len(v)
        /\ \A i \in 1..Len(r2) : (r2 \o v)[i] = r2[i]
        /\ \A k \in 1..Len(v) : (r2 \o v)[Len(r2) + k] = v[k]
    <3>1. r2 \in Seq(Byte) /\ v \in Seq(Byte)
      BY <1>1, <1>5
    <3> QED
      BY <3>1
  <2>2. s = r2 \o v
    BY <1>3 DEF r2, r1
  <2> QED
    BY <1>1, <1>5, <2>1, <2>2
<1>7. \A i \in 1..(b + 1) : s[i] = r1[i]
  BY <1>1, <1>5, <1>6
<1>8. /\ s[b + 2] = four[1] /\ s[b + 2 + 1] = four[2]
      /\ s[b + 2 + 2] = four[3] /\ s[b + 2 + 3] = four[4]
  BY <1>1, <1>5, <1>6
<1>9. Length(s, b + 2) = Length(four, 1)
  <2>1. 1 + 1 = 2 /\ 1 + 2 = 3 /\ 1 + 3 = 4
    OBVIOUS
  <2> QED
    BY <1>8, <2>1, Zenon DEF Length
<1>10. /\ s \in Seq(Byte) /\ Len(s) = b + 5 + Len(v)
       /\ \A i \in 1..b : s[i] = r[i]
       /\ b + 5 + Len(v) <= Len(s)
       /\ s[b + 1] = tlv.type
       /\ Length(s, b + 2) = Len(v)
       /\ \A k \in 1..Len(v) : s[b + 5 + k] = v[k]
  BY <1>1, <1>2, <1>4, <1>6, <1>7, <1>9
<1> QED
  BY <1>10, Zenon DEF s, v, b, At, Size

\* Where the n-th segment of the answer ends; the first begins after the type.
End(x, n) == Len(Stages(x)[n])

Count(x) == Len(Segments(x))

LEMMA StageSteps ==
  ASSUME NEW x \in Exchanges
  PROVE  /\ Count(x) \in Nat \ {0}
         /\ Stages(x)[0] = <<MSG_TYPE[x.op]>>
         /\ \A n \in 1..Count(x) :
              /\ Stages(x)[n] = add_TLV(Stages(x)[n - 1], Segments(x)[n])
              /\ Segments(x)[n] \in Segment /\ FourBytes(Segments(x)[n].value)
<1>1. /\ Segments(x) \in Seq(Segment) /\ Count(x) \in Nat \ {0}
      /\ \A n \in 1..Count(x) : /\ Segments(x)[n] \in Segment
                                /\ FourBytes(Segments(x)[n].value)
  BY AnswersAreAnswerable DEF Answerable, Count
<1>2. Stages(x) = [n \in 0..Count(x) |->
                     IF n = 0 THEN <<MSG_TYPE[x.op]>>
                     ELSE add_TLV(Stages(x)[n - 1], Segments(x)[n])]
  BY <1>1, StagesDefined DEF Count
<1>3. ASSUME NEW n \in 0..Count(x)
      PROVE  Stages(x)[n] = IF n = 0 THEN <<MSG_TYPE[x.op]>>
                            ELSE add_TLV(Stages(x)[n - 1], Segments(x)[n])
  BY <1>2, Zenon
<1> QED
  BY <1>1, <1>3

LEMMA StageBytes ==
  ASSUME NEW x \in Exchanges
  PROVE  \A n \in 0..Count(x) :
           /\ Stages(x)[n] \in Seq(Byte)
           /\ End(x, n) \in Nat \ {0}
           /\ Stages(x)[n][1] = MSG_TYPE[x.op]
<1> DEFINE P(n) == /\ Stages(x)[n] \in Seq(Byte)
                   /\ End(x, n) \in Nat \ {0}
                   /\ Stages(x)[n][1] = MSG_TYPE[x.op]
           S == {n \in Nat : n <= Count(x) => P(n)}
<1>1. 0 \in S
  <2>1. MSG_TYPE[x.op] \in Byte
    BY ExchangesAssumption DEF MSG_TYPE, Byte
  <2>2. Stages(x)[0] = <<MSG_TYPE[x.op]>>
    BY StageSteps
  <2>3. P(0)
    BY <2>1, <2>2 DEF End
  <2> QED
    BY <2>3
<1>2. ASSUME NEW n \in Nat, n \in S
      PROVE  n + 1 \in S
  <2>1. CASE n + 1 <= Count(x)
    <3> DEFINE r == Stages(x)[n]
               tlv == Segments(x)[n + 1]
    <3>1. P(n) /\ n + 1 \in 1..Count(x) /\ n + 1 - 1 = n
      BY <1>2, <2>1, StageSteps
    <3>2. /\ Stages(x)[n + 1] = add_TLV(r, tlv)
          /\ tlv \in Segment /\ FourBytes(tlv.value) /\ Size(tlv) \in Nat
      BY <3>1, StageSteps DEF Segment, Size
    <3>3. /\ r \in Seq(Byte) /\ Len(r) \in Nat \ {0}
          /\ r[1] = MSG_TYPE[x.op]
      BY <3>1 DEF End
    <3> HIDE DEF r, tlv
    <3>4. /\ add_TLV(r, tlv) \in Seq(Byte)
          /\ Len(add_TLV(r, tlv)) = Len(r) + 5 + Size(tlv)
          /\ \A i \in 1..Len(r) : add_TLV(r, tlv)[i] = r[i]
      BY <3>2, <3>3, AddTLV
    <3> DEFINE s == add_TLV(r, tlv)
    <3>5. s \in Seq(Byte) /\ Len(s) \in Nat \ {0} /\ s[1] = r[1]
      <4>1. /\ s \in Seq(Byte) /\ Len(s) = Len(r) + 5 + Size(tlv)
            /\ \A i \in 1..Len(r) : s[i] = r[i]
        BY <3>4
      <4> HIDE DEF s
      <4>2. 1 \in 1..Len(r) /\ Len(s) \in Nat \ {0}
        BY <3>2, <3>3, <4>1
      <4> QED
        BY <4>1, <4>2
    <3>6. Stages(x)[n + 1] = s
      BY <3>2
    <3> HIDE DEF s
    <3>7. P(n + 1)
      BY <3>3, <3>5, <3>6 DEF End
    <3> QED
      BY <3>7
  <2>2. CASE ~(n + 1 <= Count(x))
    BY <2>2
  <2> QED
    BY <2>1, <2>2
<1>3. Nat \subseteq S
  <2> HIDE DEF S
  <2> QED
    BY <1>1, <1>2, SetInduction
<1>4. \A n \in 0..Count(x) : n \in Nat /\ n <= Count(x)
  BY StageSteps
<1> QED
  BY <1>3, <1>4

\* What has been added stays as it is.
LEMMA StagesAreKept ==
  ASSUME NEW x \in Exchanges, NEW n \in 0..Count(x)
  PROVE  \A m \in n..Count(x) :
           /\ End(x, n) <= End(x, m)
           /\ \A i \in 1..End(x, n) : Stages(x)[m][i] = Stages(x)[n][i]
<1> DEFINE P(m) == /\ End(x, n) <= End(x, m)
                   /\ \A i \in 1..End(x, n) : Stages(x)[m][i] = Stages(x)[n][i]
           S == {m \in Nat : n <= m /\ m <= Count(x) => P(m)}
<1>0. n \in Nat /\ Count(x) \in Nat /\ End(x, n) \in Nat
  BY StageSteps, StageBytes
<1>1. 0 \in S
  BY <1>0
<1>2. ASSUME NEW m \in Nat, m \in S
      PROVE  m + 1 \in S
  <2>1. CASE n = m + 1
    BY <1>0, <2>1
  <2>2. CASE n <= m /\ m + 1 <= Count(x)
    <3> DEFINE r == Stages(x)[m]
               tlv == Segments(x)[m + 1]
    <3>1. /\ P(m) /\ m + 1 \in 1..Count(x) /\ m + 1 - 1 = m
          /\ m \in 0..Count(x)
      BY <1>0, <1>2, <2>2
    <3>2. /\ Stages(x)[m + 1] = add_TLV(r, tlv)
          /\ tlv \in Segment /\ FourBytes(tlv.value) /\ Size(tlv) \in Nat
      BY <3>1, StageSteps DEF Segment, Size
    <3>3. r \in Seq(Byte) /\ Len(r) \in Nat /\ Len(r) = End(x, m)
      BY <3>1, StageBytes DEF End
    <3> HIDE DEF r, tlv
    <3>4. /\ add_TLV(r, tlv) \in Seq(Byte)
          /\ Len(add_TLV(r, tlv)) = Len(r) + 5 + Size(tlv)
          /\ \A i \in 1..Len(r) : add_TLV(r, tlv)[i] = r[i]
      BY <3>2, <3>3, AddTLV
    <3>5. /\ End(x, m + 1) >= End(x, m)
          /\ \A i \in 1..End(x, m) : Stages(x)[m + 1][i] = r[i]
      <4> DEFINE s == add_TLV(r, tlv)
      <4>1. Len(s) >= Len(r) /\ \A i \in 1..Len(r) : s[i] = r[i]
        BY <3>2, <3>3, <3>4
      <4>2. Stages(x)[m + 1] = s /\ End(x, m + 1) = Len(s)
        BY <3>2 DEF End
      <4> HIDE DEF s
      <4> QED
        BY <3>3, <4>1, <4>2
    <3>6. End(x, m + 1) \in Nat /\ End(x, m) \in Nat
      BY <3>1, StageBytes
    <3>7. P(m + 1)
      BY <1>0, <3>1, <3>5, <3>6 DEF r
    <3> QED
      BY <3>7
  <2>3. CASE ~(n <= m + 1 /\ m + 1 <= Count(x))
    BY <2>3
  <2> QED
    BY <1>0, <2>1, <2>2, <2>3
<1>3. Nat \subseteq S
  <2> HIDE DEF S
  <2> QED
    BY <1>1, <1>2, SetInduction
<1>4. \A m \in n..Count(x) : m \in Nat /\ n <= m /\ m <= Count(x)
  BY <1>0
<1> QED
  BY <1>3, <1>4

\* A segment stays where it is when more is added.
LEMMA AtIsKept ==
  ASSUME NEW s, NEW t, NEW b \in Nat, NEW tlv, Size(tlv) \in Nat,
         Len(s) \in Nat, Len(t) \in Nat, Len(s) <= Len(t),
         \A i \in 1..Len(s) : t[i] = s[i],
         At(s, b, tlv)
  PROVE  At(t, b, tlv)
<1>1. b + 5 + Size(tlv) <= Len(s)
  BY DEF At
<1>2. /\ b + 1 \in 1..Len(s) /\ b + 2 \in 1..Len(s)
      /\ b + 2 + 1 \in 1..Len(s) /\ b + 2 + 2 \in 1..Len(s)
      /\ b + 2 + 3 \in 1..Len(s)
      /\ \A k \in 1..Size(tlv) : b + 5 + k \in 1..Len(s)
      /\ b + 5 + Size(tlv) <= Len(t)
  BY <1>1
<1>3. Length(t, b + 2) = Length(s, b + 2)
  BY <1>2, Zenon DEF Length
<1>4. /\ s[b + 1] = tlv.type /\ Length(s, b + 2) = Size(tlv)
      /\ \A k \in 1..Size(tlv) : s[b + 5 + k] = tlv.value[k]
  BY DEF At
<1>5. \A k \in 1..Size(tlv) : t[b + 5 + k] = tlv.value[k]
  BY <1>2, <1>4
<1>6. t[b + 1] = tlv.type /\ Length(t, b + 2) = Size(tlv)
  BY <1>2, <1>3, <1>4, Zenon
<1> QED
  BY <1>2, <1>5, <1>6 DEF At

\* The answer is the type followed by its segments.
LEMMA Layout ==
  ASSUME NEW x \in Exchanges
  PROVE  /\ Encoded(x) \in Seq(Byte) /\ Encoded(x)[1] = MSG_TYPE[x.op]
         /\ Count(x) \in Nat \ {0}
         /\ End(x, 0) = 1 /\ End(x, Count(x)) = Len(Encoded(x))
         /\ \A n \in 0..Count(x) : End(x, n) \in Nat \ {0}
         /\ \A n \in 1..Count(x) :
              /\ Segments(x)[n] \in Segment
              /\ Size(Segments(x)[n]) \in Nat
              /\ End(x, n) = End(x, n - 1) + 5 + Size(Segments(x)[n])
              /\ At(Encoded(x), End(x, n - 1), Segments(x)[n])
<1> DEFINE N == Count(x)
           all == Encoded(x)
<1>1. N \in Nat \ {0} /\ all = Stages(x)[N] /\ Len(all) = End(x, N)
  BY StageSteps DEF Encoded, Count, End
<1>2. \A n \in 0..N : /\ Stages(x)[n] \in Seq(Byte)
                      /\ End(x, n) \in Nat \ {0}
                      /\ Stages(x)[n][1] = MSG_TYPE[x.op]
  BY StageBytes
<1>3. End(x, 0) = 1
  <2>1. Stages(x)[0] = <<MSG_TYPE[x.op]>>
    BY StageSteps
  <2> QED
    BY <2>1 DEF End
<1>4. ASSUME NEW n \in 1..N
      PROVE  /\ Segments(x)[n] \in Segment
             /\ Size(Segments(x)[n]) \in Nat
             /\ End(x, n) = End(x, n - 1) + 5 + Size(Segments(x)[n])
             /\ At(all, End(x, n - 1), Segments(x)[n])
  <2> DEFINE tlv == Segments(x)[n]
             r == Stages(x)[n - 1]
             s == Stages(x)[n]
  <2>1. s = add_TLV(r, tlv) /\ tlv \in Segment /\ FourBytes(tlv.value)
    BY StageSteps
  <2>2. Size(tlv) \in Nat
    BY <2>1 DEF Segment, Size
  <2>3. n - 1 \in 0..N /\ n \in 0..N /\ N \in n..N
    BY <1>1
  <2>4. /\ r \in Seq(Byte) /\ End(x, n - 1) \in Nat /\ End(x, n) \in Nat
        /\ End(x, n - 1) = Len(r) /\ End(x, n) = Len(s)
    BY <1>2, <2>3 DEF End
  <2>5. /\ End(x, n) <= Len(all) /\ Len(all) \in Nat
        /\ \A i \in 1..End(x, n) : all[i] = s[i]
    BY <1>1, <1>2, <2>3, StagesAreKept
  <2> HIDE DEF tlv, r, s, all
  <2>6. /\ Len(add_TLV(r, tlv)) = Len(r) + 5 + Size(tlv)
        /\ At(add_TLV(r, tlv), Len(r), tlv)
    BY <2>1, <2>4, AddTLV
  <2>7. Len(s) = Len(r) + 5 + Size(tlv) /\ At(s, Len(r), tlv)
    BY <2>1, <2>6
  <2>8. At(all, Len(r), tlv)
    <3>1. /\ Len(r) \in Nat /\ Len(s) \in Nat /\ Len(all) \in Nat
          /\ Len(s) <= Len(all) /\ \A i \in 1..Len(s) : all[i] = s[i]
      BY <2>4, <2>5
    <3> QED
      BY <2>2, <2>7, <3>1, AtIsKept
  <2>9. /\ tlv \in Segment /\ Size(tlv) \in Nat
        /\ End(x, n) = End(x, n - 1) + 5 + Size(tlv)
        /\ At(all, End(x, n - 1), tlv)
    BY <2>1, <2>2, <2>4, <2>7, <2>8
  <2> QED
    BY <2>9 DEF tlv
<1>5. all \in Seq(Byte) /\ all[1] = MSG_TYPE[x.op]
  <2>1. N \in 0..N
    BY <1>1
  <2> QED
    BY <1>1, <1>2, <2>1
<1> HIDE DEF all, N
<1>6. /\ all \in Seq(Byte) /\ all[1] = MSG_TYPE[x.op]
      /\ N \in Nat \ {0}
      /\ End(x, 0) = 1 /\ End(x, N) = Len(all)
      /\ \A n \in 0..N : End(x, n) \in Nat \ {0}
      /\ \A n \in 1..N :
           /\ Segments(x)[n] \in Segment
           /\ Size(Segments(x)[n]) \in Nat
           /\ End(x, n) = End(x, n - 1) + 5 + Size(Segments(x)[n])
           /\ At(all, End(x, n - 1), Segments(x)[n])
  BY <1>1, <1>2, <1>3, <1>4, <1>5
<1> QED
  BY <1>6 DEF all, N

\* Every byte but the first stands in a segment.
LEMMA Located ==
  ASSUME NEW x \in Exchanges, NEW i \in 2..Len(Encoded(x))
  PROVE  \E n \in 1..Count(x) : End(x, n - 1) < i /\ i <= End(x, n)
<1> DEFINE S == {n \in 0..Count(x) : i <= End(x, n)}
<1>1. /\ Count(x) \in Nat /\ End(x, 0) = 1 /\ i \in Nat /\ i > 1
      /\ i <= End(x, Count(x))
      /\ \A n \in 0..Count(x) : End(x, n) \in Nat
  BY Layout
<1>2. S \subseteq Nat /\ Count(x) \in S
  BY <1>1
<1>3. PICK n \in S : \A m \in S : n <= m
  <2> HIDE DEF S
  <2> QED
    BY <1>2, Least
<1>4. n # 0 /\ n \in 1..Count(x) /\ n - 1 \in 0..Count(x)
  BY <1>1, <1>3
<1>5. ~(i <= End(x, n - 1))
  BY <1>1, <1>3, <1>4
<1> QED
  BY <1>1, <1>3, <1>4, <1>5

\* A length of at most four has three zeros and that number.
LEMMA SmallLength ==
  ASSUME NEW s \in Seq(Byte), NEW k \in 1..(Len(s) - 3), Length(s, k) <= 4
  PROVE  /\ s[k] = 0 /\ s[k + 1] = 0 /\ s[k + 2] = 0
         /\ s[k + 3] = Length(s, k)
<1>1. /\ s[k] \in Nat /\ s[k + 1] \in Nat /\ s[k + 2] \in Nat
      /\ s[k + 3] \in Nat /\ Base \in Nat /\ Base > 4
  BY ExchangesAssumption DEF Byte
<1>2. ASSUME NEW m \in Nat, NEW c \in Nat, m * Base + c <= 4
      PROVE  m = 0 /\ m * Base + c = c
  <2>1. ASSUME m >= 1
        PROVE  FALSE
    <3>1. PICK e \in Nat : m = 1 + e
      BY <2>1
    <3>2. m * Base = Base + e * Base /\ e * Base \in Nat
      BY <1>1, <3>1
    <3> QED
      BY <1>1, <1>2, <3>2
  <2> QED
    BY <1>1, <2>1
<1> DEFINE h2 == s[k] * Base + s[k + 1]
           h3 == h2 * Base + s[k + 2]
<1>3. Length(s, k) = h3 * Base + s[k + 3] /\ h2 \in Nat /\ h3 \in Nat
  <2>1. Length(s, k) = h3 * Base + s[k + 3]
    BY DEF Length
  <2>2. h2 \in Nat
    BY <1>1
  <2>3. h3 \in Nat
    <3> HIDE DEF h2
    <3> QED
      BY <1>1, <2>2
  <2> QED
    BY <2>1, <2>2, <2>3
<1>4. h3 = 0 /\ Length(s, k) = s[k + 3]
  <2> HIDE DEF h2, h3
  <2> QED
    BY <1>1, <1>2, <1>3
<1>5. h2 = 0 /\ s[k + 2] = 0
  <2> HIDE DEF h2
  <2>1. h2 * Base + s[k + 2] <= 4 /\ h2 * Base + s[k + 2] = 0
    BY <1>4
  <2> QED
    BY <1>1, <1>2, <1>3, <2>1
<1>6. s[k] = 0 /\ s[k + 1] = 0
  <2>1. s[k] * Base + s[k + 1] <= 4 /\ s[k] * Base + s[k + 1] = 0
    BY <1>5
  <2> QED
    BY <1>1, <1>2, <2>1
<1> QED
  BY <1>4, <1>5, <1>6

\* Only at its end an answer looks as if it were complete.
LEMMA NoEarlyEnd ==
  ASSUME NEW x \in Exchanges, NEW i \in 5..Len(Encoded(x)),
         \A k \in 0..3 : Encoded(x)[i - k] = 0,
         Encoded(x)[i - 4] = TLV_TYPE["END"]
  PROVE  i = Len(Encoded(x))
<1> DEFINE all == Encoded(x)
<1>1. PICK n \in 1..Count(x) : End(x, n - 1) < i /\ i <= End(x, n)
  BY Layout, Located
<1> DEFINE b == End(x, n - 1)
           tlv == Segments(x)[n]
           v == tlv.value
<1>2. /\ b \in Nat /\ i \in Nat /\ b < i /\ i <= b + 5 + Size(tlv)
      /\ Size(tlv) \in Nat /\ At(all, b, tlv) /\ tlv \in Segment
      /\ End(x, n) = b + 5 + Size(tlv) /\ End(x, Count(x)) = Len(all)
  BY <1>1, Layout
<1>3. /\ tlv.type # 0
      /\ tlv.type = TLV_TYPE["END"] => n = Count(x)
      /\ Plain(v)
      /\ n = Count(x) => tlv = TLV("END", <<>>)
  BY <1>1, AnswersAreAnswerable DEF Answerable, Count
<1>4. v \in Seq(Byte) /\ Len(v) = Size(tlv)
  BY <1>2 DEF Segment, Size
<1> HIDE DEF all, b, tlv, v
<1>5. /\ all[b + 1] = tlv.type
      /\ \A k \in 1..Size(tlv) : all[b + 5 + k] = v[k]
  BY <1>2 DEF At, v
<1>6. /\ all[i] = 0 /\ all[i - 1] = 0 /\ all[i - 2] = 0 /\ all[i - 3] = 0
      /\ all[i - 4] = TLV_TYPE["END"]
  BY <1>2 DEF all
<1>7. i - b \in Nat /\ i - b >= 1
  BY <1>2
<1>8. CASE i - b = 1 \/ i - b = 2 \/ i - b = 3 \/ i - b = 4
  <2>1. b + 1 = i \/ b + 1 = i - 1 \/ b + 1 = i - 2 \/ b + 1 = i - 3
    BY <1>2, <1>8
  <2>2. all[b + 1] = 0
    BY <1>6, <2>1
  <2> QED
    BY <1>3, <1>5, <2>2, Zenon
<1>9. CASE i - b = 5
  <2>1. b + 1 = i - 4
    BY <1>2, <1>9
  <2>2. n = Count(x)
    <3>1. all[b + 1] = TLV_TYPE["END"]
      BY <1>6, <2>1
    <3> QED
      BY <1>3, <1>5, <3>1, Zenon
  <2>3. Size(tlv) = 0
    BY <1>3, <2>2 DEF Size, TLV
  <2> QED
    BY <1>2, <1>9, <2>2, <2>3 DEF all
<1>10. CASE i - b >= 6 /\ Size(tlv) <= 4
  <2>1. /\ all \in Seq(Byte) /\ b + 2 \in 1..(Len(all) - 3)
        /\ Length(all, b + 2) = Size(tlv)
    BY <1>2, Layout DEF At, all
  <2>2. /\ all[b + 2] = 0 /\ all[b + 3] = 0 /\ all[b + 4] = 0
        /\ all[b + 5] = Size(tlv)
    <3>1. /\ all[b + 2] = 0 /\ all[(b + 2) + 1] = 0 /\ all[(b + 2) + 2] = 0
          /\ all[(b + 2) + 3] = Size(tlv)
      BY <1>10, <2>1, SmallLength
    <3> QED
      BY <1>2, <3>1
  <2>3. all[i - 4] = 3
    BY <1>6 DEF TLV_TYPE
  <2>4. \/ i - 4 = b + 2 \/ i - 4 = b + 3 \/ i - 4 = b + 4
        \/ i - 4 = b + 5 /\ Size(tlv) = 4
    BY <1>2, <1>10
  <2> QED
    BY <2>2, <2>3, <2>4
<1>11. CASE i - b = 6 /\ Size(tlv) > 4
  <2>1. 1 \in 1..Size(tlv) /\ i = b + 5 + 1
    BY <1>2, <1>11
  <2>2. v[1] = 0 /\ v # <<>>
    BY <1>4, <1>5, <1>6, <2>1
  <2> QED
    BY <1>3, <1>4, <1>11, <2>2 DEF Plain, Sparse
<1>12. CASE i - b >= 7 /\ Size(tlv) > 4
  <2>1. PICK k \in 1..(Size(tlv) - 1) :
          i = b + 5 + (k + 1) /\ i - 1 = b + 5 + k
    <3>1. /\ i - b - 6 \in 1..(Size(tlv) - 1)
          /\ i = b + 5 + ((i - b - 6) + 1) /\ i - 1 = b + 5 + (i - b - 6)
      BY <1>2, <1>12
    <3> QED
      BY <3>1
  <2>2. k \in 1..Size(tlv) /\ k + 1 \in 1..Size(tlv)
    BY <1>2, <2>1
  <2>3. v[k] = 0 /\ v[k + 1] = 0
    BY <1>5, <1>6, <2>1, <2>2
  <2> QED
    BY <1>3, <1>4, <1>12, <2>1, <2>3 DEF Plain, Sparse
<1> QED
  BY <1>2, <1>7, <1>8, <1>9, <1>10, <1>11, <1>12

=============================================================================
