----------------------------- MODULE ResponseMC -----------------------------
(* Exchanges for TLC: paths of one byte and of seven, which with the NUL and *)
(* a digest need a length of two bytes when Base is 8, and paths that end   *)
(* with the byte of an END segment.                                         *)
EXTENDS ResponseProofs

Short == <<<<3>>, <<3>>>>
Long  == <<<<7, 3, 3, 2, 4, 1, 3>>, <<3, 5>>>>

\* Codes of errors: an integer of four bytes, the byte of an END and zeros,
\* digits.
Integer == <<0, 0, 7, 5>>
Zeros3  == <<3, 0, 0, 0>>
Digits  == <<5, 0, 3>>

Exchange(op, items, ok, code) ==
  [op |-> op, items |-> items, ok |-> ok, code |-> code]

Exchanging ==
  {Exchange("CREATE", <<Long>>, k, Digits) : k \in BOOLEAN}
  \cup {Exchange("ERASE", <<Short>>, k, Digits) : k \in BOOLEAN}
  \cup {Exchange("UPDATE", <<Short>>, TRUE, <<>>)}
  \cup {Exchange("AUTH", <<>>, k, Zeros3) : k \in BOOLEAN}
  \cup {Exchange("SYNC", <<Long, Short>>, TRUE, <<>>),
        Exchange("SYNC", <<>>, TRUE, <<>>),
        Exchange("SYNC", <<>>, FALSE, Integer)}
=============================================================================
