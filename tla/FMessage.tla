------------------------------ MODULE FMessage ------------------------------
(***************************************************************************)
(* communication::f_message: a file is sent as a sequence of messages of   *)
(* at most CHUNK_SIZE bytes, each of them the header (message type and     *)
(* ITEM segment), a CONTENT segment and, in the last one, an END segment.  *)
(* connection::async_post calls next_chunk() until it returns false or     *)
(* throws; meanwhile the user may append to the file or truncate it.       *)
(* Bytes are counted, not represented.                                     *)
(***************************************************************************)
EXTENDS Integers

CONSTANTS CHUNK_SIZE,
          Headers,      \* the values of header_size_; they grow with the path
          SizeT,        \* 2^64: size_t arithmetic wraps around
          MaxSize,      \* bound: length of a file
          MaxEdits      \* bound: changes of its length while it is sent

Segment == 5            \* type and length of a TLV segment

\* No file has anything like 2^64 bytes.
ASSUME SizesAssumption ==
  /\ CHUNK_SIZE \in Nat /\ Headers \subseteq Nat \ {0} /\ MaxSize \in Nat
  /\ SizeT \in Nat /\ MaxEdits \in Nat
  /\ MaxSize + CHUNK_SIZE + 2 * Segment < SizeT

VARIABLES
  header,     \* header_size_
  file,       \* length of the file, -1 (tellg() of a failed stream) if missing
  opened,     \* history: that length when the f_message was constructed
  shortest,   \* history: the least and the greatest length
  longest,    \*          since then
  remaining,  \* remaining_
  completed,  \* completed_
  size,       \* size of the message buffer
  length,     \* length field of the CONTENT segment in the buffer
  sent,       \* bytes of content in all messages so far
  state,      \* "ready", or how the loop over next_chunk() ended
  edits

vars == <<header, file, opened, shortest, longest, remaining, completed, size,
          length, sent, state, edits>>

\* Operators named M_... are faulty variants of the definition they precede;
\* the specification does not use them.
M_WrapNot(d) == d
M_WrapClamped(d) == IF d < 0 THEN 0 ELSE d

\* The difference d of two size_t.
Wrap(d) == IF d < 0 THEN d + SizeT ELSE d

\* The bytes of the buffer behind the type and length of the CONTENT segment,
\* and whether an END segment fits there, too.
Room == CHUNK_SIZE - header - Segment
HeaderFits == header + 2 * Segment <= CHUNK_SIZE

\* The constructor; the CONTENT segment of a header as long as the buffer would
\* begin outside of it, after which anything may happen.
Init ==
  /\ header \in Headers
  /\ file \in -1..MaxSize
  /\ opened = file /\ shortest = file /\ longest = file
  /\ remaining = IF file = -1 THEN SizeT - 1 ELSE file
  /\ completed = FALSE
  /\ size = CHUNK_SIZE
  /\ length = 0 /\ sent = 0 /\ edits = 0
  /\ state = IF header < CHUNK_SIZE THEN "ready" ELSE "overrun"

\* Another program writes to the file or truncates it.
Edit ==
  /\ file # -1 /\ edits < MaxEdits /\ state = "ready"
  /\ file' \in 0..MaxSize \ {file}
  /\ shortest' = IF file' < shortest THEN file' ELSE shortest
  /\ longest' = IF file' > longest THEN file' ELSE longest
  /\ edits' = edits + 1
  /\ UNCHANGED <<header, opened, remaining, completed, size, length, sent,
                 state>>

\* ifstream::read of n bytes: what is past the end of a file that has been
\* truncated may have been buffered before.
CanRead(n) == file # -1 /\ sent + n <= longest
CanFail(n) == file = -1 \/ sent + n > file

M_LastNoEnd == remaining <= Wrap(Room)
M_LastOffByOne == remaining < Wrap(Room - Segment)

\* The test that ends the file: its last bytes and the END segment fit.
Last == remaining <= Wrap(Room - Segment)

M_ToReadWhole == Wrap(Room)

ToRead == IF Last THEN remaining ELSE Wrap(Room)

\* next_chunk() returns true.
Chunk ==
  /\ state = "ready" /\ ~completed
  /\ CanRead(ToRead) /\ ToRead <= Room
  /\ completed' = Last
  /\ length' = ToRead
  /\ size' = IF Last THEN header + Segment + remaining + Segment ELSE size
  /\ remaining' = Wrap(remaining - ToRead)
  /\ sent' = sent + ToRead
  /\ UNCHANGED <<header, file, opened, shortest, longest, state, edits>>

\* next_chunk() throws "Unexpected EOF"; the length and the bytes that are there
\* have been put into the buffer, and fit.
Throw ==
  /\ state = "ready" /\ ~completed
  /\ CanFail(ToRead)
  /\ Room >= 0 /\ CanFail(Room + 1)
  /\ completed' = Last
  /\ length' = ToRead
  /\ state' = "thrown"
  /\ UNCHANGED <<header, file, opened, shortest, longest, remaining, size,
                 sent, edits>>

\* next_chunk() writes the length, or bytes it reads, outside of the buffer,
\* after which anything may happen.
Overrun ==
  /\ state = "ready" /\ ~completed
  /\ Room < 0 \/ (ToRead > Room /\ CanRead(Room + 1))
  /\ state' = "overrun"
  /\ UNCHANGED <<header, file, opened, shortest, longest, remaining, completed,
                 size, length, sent, edits>>

M_FinishRepeats == state = "ready" /\ completed /\ UNCHANGED vars

\* next_chunk() returns false.
Finish ==
  /\ state = "ready" /\ completed
  /\ state' = "done"
  /\ UNCHANGED <<header, file, opened, shortest, longest, remaining, completed,
                 size, length, sent, edits>>

Ended == state # "ready" /\ UNCHANGED vars

next_chunk == Chunk \/ Throw \/ Overrun \/ Finish
Next == Edit \/ next_chunk \/ Ended
Spec == Init /\ [][Next]_vars
FairSpec == Spec /\ WF_vars(next_chunk)

-----------------------------------------------------------------------------
\* Type invariant.
TypeOK ==
  /\ header \in Headers
  /\ file \in -1..MaxSize /\ opened \in -1..MaxSize
  /\ shortest \in -1..MaxSize /\ longest \in -1..MaxSize
  /\ remaining \in 0..(SizeT - 1) /\ completed \in BOOLEAN
  /\ size \in Nat /\ length \in Nat /\ sent \in Nat
  /\ state \in {"ready", "done", "thrown", "overrun"}
  /\ edits \in 0..MaxEdits

\* The buffer of every message handed to connection::write holds exactly its
\* segments, so that the server can parse it, whatever becomes of the file and
\* however long the path, the header with it.
MessageIsWellFormed ==
  (completed \/ sent > 0) /\ state \in {"ready", "done"} =>
    size = header + Segment + length + (IF completed THEN Segment ELSE 0)

\* The buffer never gets longer than CHUNK_SIZE nor is written outside of,
\* whatever the length of the file and whatever becomes of it, as long as the
\* header leaves room for a CONTENT and an END segment.  Nothing in the code
\* makes it do so.
BufferIsKept ==
  HeaderFits => size <= CHUNK_SIZE /\ state # "overrun"

\* next_chunk() reports the end of a file only when as many bytes have been
\* sent as the file had when it was opened, in spite of remaining_ wrapping
\* around when the file grows.
CompletedIsWhole == state = "done" => sent = opened

\* The only existing files that are refused without having been truncated are
\* those whose last chunk would fill the buffer up to the END segment.
ThrowsAtBoundary ==
  state = "thrown" =>
    \/ opened = -1 \/ shortest < opened
    \/ HeaderFits /\ opened % Room > Room - Segment

\* The loop over next_chunk() ends.
SendingEnds == <>(state # "ready")

\* f_message.h: next_chunk() provides a new chunk on each invocation; a file
\* that is not truncated can be sent.
ReadableIsSent == state = "thrown" => opened = -1 \/ shortest < opened
=============================================================================
