------------------------------ MODULE Response ------------------------------
(***************************************************************************)
(* The answer to a request, byte by byte: how it is encoded as TLV         *)
(* segments (communication::message), cut into fragments by the server,    *)
(* put together by connection::read, walked by communication::tlv_view and *)
(* understood by the handlers of the scheduler.  Nothing announces the     *)
(* length of an answer: read() takes it to be complete when the last five  *)
(* bytes look like an END segment.                                         *)
(*                                                                         *)
(* Bytes are the numbers below Base, 256 in the code.  A smaller Base      *)
(* makes lengths carry over to the next byte with short values.            *)
(***************************************************************************)
EXTENDS Naturals, Sequences, SequencesExt

CONSTANTS Base,       \* number of values of a byte
          Exchanges,  \* what is exchanged: [op, items, ok] records, where
                      \* items are <<path, digest>> pairs of byte sequences
          Turns,      \* bound: exchanges, one after the other
          MaxWire     \* bound: fragments in flight

\* Operators named M_... are faulty variants of the definition they precede;
\* the specification does not use them.
M_MSG_TYPE ==
  [CREATE |-> 0, UPDATE |-> 1, ERASE |-> 2, SYNC |-> 3, AUTH |-> 4]

MSG_TYPE == [CREATE |-> 1, UPDATE |-> 2, ERASE |-> 3, SYNC |-> 4, AUTH |-> 5]
TLV_TYPE == [ITEM |-> 2, END |-> 3, OK |-> 4, ERROR |-> 5]

Job == {"CREATE", "UPDATE", "ERASE"}
Byte == 0..(Base - 1)
Text == Seq(Byte \ {0})

-----------------------------------------------------------------------------
\* tools::create_sign and tools::split_sign, at the last NUL: (.*)\x00(.*)
create_sign(item) == item[1] \o <<0>> \o item[2]

\* A relative path has a byte.  Paths and digests have no NUL (a POSIX file
\* name has none, a digest is hexadecimal), paths may have any other byte.
\* The length of a sign leaves the sign bit of tlv_view's int clear.  How the
\* server writes the code of an ERROR (ERR_TYPE, up to 503) is not known here:
\* in digits or as an integer of up to four bytes, of any value.
Item == (Text \ {<<>>}) \X Text

ASSUME ExchangesAssumption ==
  /\ Base \in Nat /\ Base > 6
  /\ Turns \in Nat \ {0}
  /\ Exchanges \subseteq
       [op : DOMAIN MSG_TYPE, items : Seq(Item), ok : BOOLEAN, code : Seq(Byte)]
  /\ \A x \in Exchanges :
       /\ Len(x.code) <= 4
       /\ x.op \in Job => Len(x.items) = 1
       /\ \A i \in DOMAIN x.items :
            2 * Len(create_sign(x.items[i])) < Base * Base * Base * Base

M_split_sign(sign) ==
  LET k == SelectLastInSeq(sign, LAMBDA b : b = 0)
  IN <<SubSeq(sign, 1, k - 1), SubSeq(sign, k, Len(sign))>>

split_sign(sign) ==
  LET k == SelectLastInSeq(sign, LAMBDA b : b = 0)
  IN <<SubSeq(sign, 1, k - 1), SubSeq(sign, k + 1, Len(sign))>>

\* message::add_TLV: the type, the length in four bytes, the value.
BigEndian(n) ==
  LET n3 == n \div Base
      n2 == n3 \div Base
      n1 == n2 \div Base
  IN <<n1 % Base, n2 % Base, n3 % Base, n % Base>>

add_TLV(raw, tlv) ==
  raw \o <<tlv.type>> \o BigEndian(Len(tlv.value)) \o tlv.value

TLV(type, value) == [type |-> TLV_TYPE[type], value |-> value]

\* The segments of the server's answer, as its receivers in scheduler.cpp
\* expect them.  No receiver reads the code of an ERROR, but verify_end does.
Segments(x) ==
  LET items == [i \in DOMAIN x.items |-> TLV("ITEM", create_sign(x.items[i]))]
      okOrError == IF x.ok THEN TLV("OK", <<>>) ELSE TLV("ERROR", x.code)
  IN (CASE x.op = "SYNC" -> IF x.ok THEN items ELSE <<okOrError>>
        [] x.op = "AUTH" -> <<okOrError>>
        [] x.op \in Job  -> items \o <<okOrError>>) \o <<TLV("END", <<>>)>>

\* The message after each of them has been added.
Stages(x) ==
  LET segs == Segments(x)
      stage[n \in 0..Len(segs)] ==
        IF n = 0 THEN <<MSG_TYPE[x.op]>> ELSE add_TLV(stage[n - 1], segs[n])
  IN stage

Encoded(x) == Stages(x)[Len(Segments(x))]

\* The fragment with the bytes a + 1 to b of an answer; all but the first
\* repeat the byte of the message's type.
Fragment(all, a, b) ==
  (IF a = 0 THEN <<>> ELSE <<all[1]>>) \o SubSeq(all, a + 1, b)

-----------------------------------------------------------------------------
VARIABLES
  exch,    \* the exchanges, one after the other
  turn,    \* the one the client is at
  left,    \* how many bytes of its answer the server has still to send
  wire,    \* fragments in flight
  raw,     \* raw_msg_ptr: what read() has put together
  phase,   \* "post", "read", "walk", "take", "end", or "overrun": a read
           \* outside the buffer, after which anything may happen
  view,    \* the tlv_view on raw
  got,     \* the segments the view has shown
  heard    \* what the client has understood of each answer

vars == <<exch, turn, left, wire, raw, phase, view, got, heard>>

\* The constructor of tlv_view, whose iterators are indexes into raw here.
tlv_view == [begin |-> 2, end |-> 2, finished |-> FALSE]

Init == /\ exch \in [1..Turns -> Exchanges]
        /\ turn = 1
        /\ left = 0 /\ wire = <<>> /\ raw = <<>>
        /\ phase = "post"
        /\ view = tlv_view /\ got = <<>>
        /\ heard = <<>>

\* sync_post, async_post: the request is written and the server answers.
Post == /\ phase = "post" /\ left = 0
        /\ left' = Len(Encoded(exch[turn]))
        /\ raw' = <<>>
        /\ phase' = "read"
        /\ UNCHANGED <<exch, turn, wire, view, got, heard>>

\* The server sends n more bytes.
Send == /\ left > 0 /\ Len(wire) < MaxWire
        /\ LET all == Encoded(exch[turn])
               sent == Len(all) - left
           IN \E n \in 1..left :
                /\ wire' = Append(wire, Fragment(all, sent, sent + n))
                /\ left' = left - n
        /\ UNCHANGED <<exch, turn, raw, phase, view, got, heard>>

-----------------------------------------------------------------------------
M_verify_endAnyType(r) == \A i \in 0..3 : r[Len(r) - i] = 0

M_verify_endUnreached(r) == \A i \in 0..4 : r[Len(r) - i] = 0

\* tlv_view::verify_end: four zeros after the type of an END segment.
verify_end(r) == /\ \A i \in 0..3 : r[Len(r) - i] = 0
                 /\ r[Len(r) - 4] = TLV_TYPE["END"]

\* It reads back from the last byte as long as it finds zeros; what it finds
\* in front of the first byte is undefined.
Overruns(r) == Len(r) < 5 /\ \A i \in DOMAIN r : r[i] = 0

M_BodyUnstripped(r, fragment) == fragment

\* What read() keeps of a fragment.
Body(r, fragment) == IF r = <<>> THEN fragment ELSE Tail(fragment)

\* connection::read, one turn of its loop.
Read == /\ phase = "read" /\ wire # <<>>
        /\ raw' = raw \o Body(raw, Head(wire))
        /\ wire' = Tail(wire)
        /\ phase' = CASE Overruns(raw')                       -> "overrun"
                      [] ~Overruns(raw') /\ verify_end(raw')  -> "walk"
                      [] ~Overruns(raw') /\ ~verify_end(raw') -> "read"
        /\ view' = tlv_view /\ got' = <<>>
        /\ UNCHANGED <<exch, turn, left, heard>>

M_LengthLowByte(r, i) == r[i + 3]

\* The length in the four bytes at index i.
Length(r, i) ==
  ((r[i] * Base + r[i + 1]) * Base + r[i + 2]) * Base + r[i + 3]

\* tlv_view::next_tlv, until it returns false.
NextTLV ==
  /\ phase = "walk"
  /\ LET b == view.end
         value == b + 5
         end == value + Length(raw, b + 1)
         fits == value <= Len(raw) + 1 /\ end <= Len(raw) + 1
     IN IF fits
        THEN /\ view' = [view EXCEPT !.begin = value, !.end = end]
             /\ got' = Append(got, [type  |-> raw[b],
                                    value |-> SubSeq(raw, value, end - 1)])
             /\ UNCHANGED phase
        ELSE /\ view' = [view EXCEPT !.begin = b, !.finished = TRUE]
             /\ phase' = IF b = Len(raw) + 1 THEN "take" ELSE "overrun"
             /\ UNCHANGED got
  /\ UNCHANGED <<exch, turn, left, wire, raw, heard>>

-----------------------------------------------------------------------------
\* handle_create, handle_update, handle_erase: is this an OK to the request?
Accepted(op, sign) ==
  /\ raw[1] = MSG_TYPE[op]
  /\ got[1] = [type |-> TLV_TYPE["ITEM"], value |-> sign]
  /\ got[2].type = TLV_TYPE["OK"]

\* scheduler::auth.
Authenticated == got[1].type = TLV_TYPE["OK"]

\* scheduler::sync: the server's directory, or its failure.
Listing ==
  {split_sign(got[i].value) :
     i \in {k \in DOMAIN got : got[k].type = TLV_TYPE["ITEM"]}}
SyncFailed == raw[1] # MSG_TYPE["SYNC"] \/ got[1].type = TLV_TYPE["ERROR"]

\* What the function that waits for the answer makes of it.
Outcome(x) ==
  CASE x.op \in Job -> [ok |-> Accepted(x.op, create_sign(x.items[1])),
                        items |-> {}]
    [] x.op = "AUTH" -> [ok |-> Authenticated, items |-> {}]
    [] x.op = "SYNC" -> [ok |-> ~SyncFailed,
                         items |-> IF SyncFailed THEN {} ELSE Listing]

Take == /\ phase = "take"
        /\ heard' = Append(heard, Outcome(exch[turn]))
        /\ turn' = turn + 1
        /\ phase' = IF turn = Turns THEN "end" ELSE "post"
        /\ UNCHANGED <<exch, left, wire, raw, view, got>>

Next == Post \/ Send \/ Read \/ NextTLV \/ Take

\* The server sends its answer, and a client with bytes to read reads them.
Spec == Init /\ [][Next]_vars /\ WF_vars(Next)

-----------------------------------------------------------------------------
\* Type invariant of the exchange's state.
TypeOK ==
  /\ exch \in [1..Turns -> Exchanges] /\ turn \in 1..(Turns + 1)
  /\ left \in Nat /\ wire \in Seq(Seq(Byte)) /\ raw \in Seq(Byte)
  /\ phase \in {"post", "read", "walk", "take", "end", "overrun"}
  /\ view \in [begin : Nat, end : Nat, finished : BOOLEAN]
  /\ got \in Seq([type : Byte, value : Seq(Byte)])
  /\ heard \in Seq([ok : BOOLEAN, items : SUBSET (Text \X Text)])

\* However the server cuts its answer, read() neither stops before its end
\* (in a value, between two segments, or in a length that is mostly zeros) nor
\* goes on after it into the next one.
ReadIsWhole ==
  phase = "walk" => /\ raw = Encoded(exch[turn])
                    /\ left = 0 /\ wire = <<>>

\* verify_end does not look in front of the first byte, although fragments may
\* be shorter than an END segment, and no segment ends behind the last byte.
WithinBuffer == phase # "overrun"

\* The client understands the server's answer to this request: a handler and
\* auth take it for an OK exactly when it is one, sync lists what the server
\* stores.
Understood ==
  \A i \in DOMAIN heard :
    /\ heard[i].ok = exch[i].ok
    /\ exch[i].op = "SYNC" /\ exch[i].ok =>
         heard[i].items = {exch[i].items[k] : k \in DOMAIN exch[i].items}

\* Every answer is read to its end.
AnswersAreTaken == <>(phase = "end")
=============================================================================
