--------------------------- MODULE FMessageProofs ---------------------------
(***************************************************************************)
(* Safety of FMessage for every size of the chunk and of the header, every *)
(* length of the file and any changes of it.  Between two calls of         *)
(* next_chunk() the bytes sent and remaining_ add up to the length the     *)
(* file had when it was opened, up to one wrap-around of size_t, and under *)
(* a header that leaves no room for the END segment nothing has been sent  *)
(* before the only message (Accounted).                                    *)
(***************************************************************************)
EXTENDS FMessage, TLAPS

\* remaining_ has wrapped around: the file grew while its last bytes were sent.
Wrapped == sent + remaining = opened + SizeT

\* What the messages sent so far say of remaining_.
Accounted ==
  /\ opened = -1 <=> file = -1
  /\ file # -1 => shortest <= file /\ file <= longest
  /\ opened = -1 => sent = 0 /\ remaining = SizeT - 1
  /\ opened = -1 /\ completed => state = "thrown"
  /\ opened # -1 => sent <= longest
  /\ ~completed /\ opened # -1 => sent + remaining = opened \/ Wrapped
  /\ ~completed => \E k \in 0..sent : sent = k * Room
  /\ ~completed /\ ~HeaderFits => sent = 0
  /\ completed /\ state # "thrown" => sent = opened

\* What the buffer holds.
Buffered ==
  /\ state = "ready" => header < CHUNK_SIZE
  /\ state \in {"ready", "done"} =>
       /\ ~completed => size = CHUNK_SIZE /\ (sent > 0 => length = Room)
       /\ completed => size = header + Segment + length + Segment
  /\ BufferIsKept

\* Why the file was opened with a length next_chunk() cannot handle.
Unlucky == HeaderFits /\ opened % Room > Room - Segment

\* remaining_ wraps around only at that boundary.
Boundary ==
  /\ ~completed /\ opened # -1 /\ Wrapped => Unlucky
  /\ ThrowsAtBoundary

\* The inductive invariant.
IInv ==
  /\ TypeOK /\ Accounted /\ Buffered /\ Boundary
  /\ state = "done" => completed

\* Remainders are unique.
LEMMA ModUnique ==
  ASSUME NEW P \in Nat, NEW k \in Nat, NEW r \in Nat, r < P
  PROVE  (k * P + r) % P = r
  BY Z3

\* What a header leaves of the buffer.
LEMMA RoomType ==
  ASSUME TypeOK
  PROVE  /\ Room \in Int /\ Room < CHUNK_SIZE
         /\ HeaderFits <=> Room >= Segment
         /\ Room + MaxSize + 2 * Segment < SizeT
         /\ Segment = 5 /\ SizeT \in Nat
         /\ MaxSize \in Nat /\ MaxEdits \in Nat /\ CHUNK_SIZE \in Nat
         /\ header \in Nat \ {0} /\ Room + header = CHUNK_SIZE - Segment
         /\ UNCHANGED header => Room' = Room /\ HeaderFits' = HeaderFits
<1>1. header \in Nat \ {0}
  BY SizesAssumption DEF TypeOK
<1> QED
  BY <1>1, SizesAssumption DEF Room, HeaderFits, Segment

\* The tests of next_chunk() for a header that leaves room for END.
LEMMA FittingHeader ==
  ASSUME TypeOK, HeaderFits
  PROVE  /\ Wrap(Room) = Room /\ Wrap(Room - Segment) = Room - Segment
         /\ Room \in Nat /\ Room >= Segment
  BY RoomType DEF Wrap

\* The constructor establishes the invariant.
LEMMA InitIInv == Init => IInv
<1> SUFFICES ASSUME Init PROVE IInv
  OBVIOUS
<1>1. TypeOK
  <2>1. remaining \in 0..(SizeT - 1)
    BY SizesAssumption DEF Init, Segment
  <2>2. completed \in BOOLEAN /\ state \in {"ready", "overrun"}
    BY DEF Init
  <2>3. /\ size \in Nat /\ length \in Nat /\ sent \in Nat
        /\ edits \in 0..MaxEdits
    BY SizesAssumption DEF Init
  <2> QED
    BY <2>1, <2>2, <2>3 DEF Init, TypeOK
<1>2. \E k \in 0..sent : sent = k * Room
  BY <1>1, RoomType DEF Init
<1>3. Accounted
  BY <1>1, <1>2, SizesAssumption DEF Init, TypeOK, Accounted, Wrapped
<1>4. Buffered
  <2>1. HeaderFits => header < CHUNK_SIZE
    BY <1>1, RoomType
  <2> QED
    BY <1>1, <2>1, RoomType DEF Init, Buffered, BufferIsKept
<1>5. opened # -1 => ~Wrapped
  BY <1>1, RoomType DEF Init, Wrapped, TypeOK
<1>6. Boundary
  BY <1>5 DEF Init, Boundary, ThrowsAtBoundary
<1> QED
  BY <1>1, <1>3, <1>4, <1>6 DEF IInv, Init

\* A change of the file preserves it: only longest and shortest follow it.
LEMMA EditStep == IInv /\ Edit => IInv'
<1> SUFFICES ASSUME IInv, Edit PROVE IInv'
  OBVIOUS
<1>1. TypeOK'
  BY SizesAssumption DEF IInv, TypeOK, Edit
<1>2. Room' = Room /\ HeaderFits' = HeaderFits
  BY RoomType DEF IInv, Edit
<1>3. Accounted'
  BY <1>2, SizesAssumption DEF IInv, TypeOK, Accounted, Wrapped, Edit
<1>4. Buffered' /\ Boundary'
  BY <1>2, SizesAssumption
  DEF IInv, TypeOK, Buffered, BufferIsKept, Boundary, Wrapped, Unlucky,
      ThrowsAtBoundary, Edit
<1> QED
  BY <1>1, <1>3, <1>4 DEF IInv, Edit

\* Without room for END the whole file goes into the only message: the
\* comparison with the wrapped difference holds of every length.
LEMMA NarrowIsLast ==
  ASSUME IInv, state = "ready", ~completed, opened # -1, ~HeaderFits
  PROVE  Last /\ remaining = opened
<1>1. /\ sent = 0 /\ remaining \in 0..(SizeT - 1) /\ opened \in 0..MaxSize
      /\ header < CHUNK_SIZE
  BY DEF IInv, Accounted, Buffered, TypeOK
<1>2. remaining = opened
  BY <1>1, RoomType DEF IInv, Accounted, Wrapped
<1>3. Wrap(Room - Segment) \in Int /\ Wrap(Room - Segment) > MaxSize
  <2>1. /\ Room \in Int /\ Room > 0 - Segment /\ Room < Segment
        /\ Segment = 5 /\ SizeT \in Nat /\ MaxSize \in Nat
    BY <1>1, RoomType DEF IInv
  <2>2. MaxSize + 2 * Segment < SizeT
    BY <2>1, SizesAssumption
  <2> QED
    BY <2>1, <2>2 DEF Wrap
<1> QED
  BY <1>1, <1>2, <1>3, RoomType DEF IInv, Last

\* The last chunk is not sent after a wrap-around: no file is that long.
LEMMA LastIsExact ==
  ASSUME IInv, state = "ready", ~completed, opened # -1, Last
  PROVE  sent + remaining = opened
<1>1. sent \in Nat /\ remaining \in Nat /\ opened \in Nat /\ longest \in Int
  BY DEF IInv, TypeOK
<1>2. CASE HeaderFits
  <2>1. sent <= MaxSize
    BY <1>1, RoomType DEF IInv, TypeOK, Accounted
  <2>2. remaining <= Room
    BY <1>1, <1>2, FittingHeader, RoomType DEF Last, IInv
  <2>3. ~Wrapped
    BY <1>1, <2>1, <2>2, RoomType DEF Wrapped, IInv
  <2> QED
    BY <2>3 DEF IInv, Accounted
<1>3. CASE ~HeaderFits
  BY <1>1, <1>3, NarrowIsLast DEF IInv, Accounted
<1> QED
  BY <1>2, <1>3

\* A chunk that is not the last reads past remaining_ only at the boundary.
LEMMA OverreadIsUnlucky ==
  ASSUME IInv, state = "ready", ~completed, opened # -1, ~Last,
         sent + Room > opened
  PROVE  Unlucky
<1> HeaderFits
  BY NarrowIsLast
<1>1. CASE Wrapped
  BY <1>1 DEF IInv, Boundary
<1>2. CASE sent + remaining = opened
  <2>1. PICK k \in Nat : sent = k * Room
    BY DEF IInv, TypeOK, Accounted
  <2>2. /\ remaining \in Nat /\ remaining < Room
        /\ remaining > Room - Segment /\ Room \in Nat
    BY <1>2, RoomType, FittingHeader, SizesAssumption DEF IInv, TypeOK, Last
  <2>3. opened % Room = remaining
    BY <1>2, <2>1, <2>2, ModUnique
  <2> QED
    BY <2>2, <2>3 DEF Unlucky
<1> QED
  BY <1>1, <1>2 DEF IInv, Accounted

\* next_chunk() returning true preserves it; the wrap-around may happen here.
LEMMA ChunkStep == IInv /\ Chunk => IInv'
<1> SUFFICES ASSUME IInv, Chunk PROVE IInv'
  OBVIOUS
<1>1. opened # -1 /\ state = "ready" /\ ~completed /\ file # -1
  BY DEF IInv, Chunk, CanRead, Accounted
<1>2. Room' = Room /\ HeaderFits' = HeaderFits
  BY RoomType DEF IInv, Chunk
<1>3. CASE Last
  <2>1. /\ sent + remaining = opened /\ sent' = opened /\ remaining' = 0
        /\ completed' /\ length' = remaining
        /\ size' = header + Segment + remaining + Segment
    BY <1>1, <1>3, LastIsExact DEF IInv, TypeOK, Chunk, ToRead, Wrap
  <2>2. TypeOK'
    BY <1>1, <2>1, RoomType DEF IInv, TypeOK, Chunk
  <2>3. HeaderFits => size' <= CHUNK_SIZE
    <3>1. HeaderFits => remaining <= Room - Segment
      BY <1>3, FittingHeader DEF IInv, Last
    <3>2. /\ remaining \in Int /\ Room \in Int /\ header \in Int
          /\ Segment \in Int /\ Room + header = CHUNK_SIZE - Segment
          /\ CHUNK_SIZE \in Int
      BY RoomType DEF IInv, TypeOK
    <3> QED
      BY <2>1, <3>1, <3>2
  <2>4. Accounted' /\ Buffered' /\ Boundary'
    BY <1>1, <1>2, <1>3, <2>1, <2>3
    DEF IInv, TypeOK, Accounted, Buffered, BufferIsKept, Boundary,
        ThrowsAtBoundary, Chunk, CanRead, ToRead
  <2> QED
    BY <1>1, <2>2, <2>4 DEF IInv, Chunk
<1>4. CASE ~Last
  <2>1. HeaderFits /\ Room \in Nat /\ Room >= Segment
    BY <1>1, <1>4, NarrowIsLast, FittingHeader DEF IInv
  <2>2. /\ sent' = sent + Room /\ remaining' = Wrap(remaining - Room)
        /\ ~completed' /\ length' = Room /\ size' = size
        /\ sent + Room <= longest
    BY <1>4, <2>1, FittingHeader DEF Chunk, ToRead, CanRead, IInv
  <2>3. TypeOK'
    <3>1. Last \in BOOLEAN
      BY DEF Last
    <3>2. completed' \in BOOLEAN
      BY <3>1 DEF Chunk
    <3>3. Wrap(remaining - Room) \in 0..(SizeT - 1)
      <4>1. /\ remaining \in 0..(SizeT - 1) /\ SizeT \in Nat
            /\ Room \in Nat /\ Room < SizeT
        <5>1. TypeOK /\ remaining \in 0..(SizeT - 1)
          BY DEF IInv, TypeOK
        <5> QED
          BY <2>1, <5>1, RoomType
      <4> QED
        BY <4>1 DEF Wrap
    <3> QED
      BY <2>1, <2>2, <3>2, <3>3 DEF IInv, TypeOK, Chunk
  <2>4. \E k \in 0..sent' : sent' = k * Room
    <3>1. PICK k \in 0..sent : sent = k * Room
      BY <1>1 DEF IInv, Accounted
    <3>2. sent \in Nat
      BY DEF IInv, TypeOK
    <3>3. sent' = (k + 1) * Room /\ k + 1 \in 0..sent'
      BY <2>1, <2>2, <3>1, <3>2, RoomType DEF IInv
    <3> QED
      BY <3>3
  <2>5. \/ sent' + remaining' = opened
        \/ Wrapped' /\ (Wrapped \/ sent + Room > opened)
    BY <1>1, <2>1, <2>2, RoomType, SizesAssumption
    DEF IInv, TypeOK, Accounted, Wrapped, Wrap, Chunk
  <2>6. Accounted'
    BY <1>1, <1>2, <2>1, <2>2, <2>4, <2>5 DEF IInv, Accounted, Chunk
  <2>7. Buffered'
    BY <1>1, <1>2, <2>1, <2>2 DEF IInv, Buffered, BufferIsKept, Chunk
  <2>8. Wrapped' => Unlucky
    BY <1>1, <1>4, <2>3, <2>5, OverreadIsUnlucky, SizesAssumption
    DEF IInv, Boundary, TypeOK, Wrapped, Chunk
  <2>9. Boundary'
    BY <1>1, <1>2, <2>8 DEF Boundary, Unlucky, ThrowsAtBoundary, Chunk
  <2> QED
    BY <1>1, <2>3, <2>6, <2>7, <2>9 DEF IInv, Chunk
<1> QED
  BY <1>3, <1>4

\* next_chunk() throwing preserves it: the file is missing, was truncated, or
\* the read went past its end at the boundary.
LEMMA ThrowStep == IInv /\ Throw => IInv'
<1> SUFFICES ASSUME IInv, Throw PROVE IInv'
  OBVIOUS
<1>1. sent \in Nat /\ remaining \in Nat /\ file \in Int /\ opened \in Int
  BY DEF IInv, TypeOK
<1>2. /\ Room' = Room /\ HeaderFits' = HeaderFits
      /\ state = "ready" /\ ~completed /\ state' = "thrown"
  BY RoomType DEF IInv, Throw
<1>3. TypeOK'
  <2>1. Last \in BOOLEAN
    BY DEF Last
  <2>2. ToRead \in Nat
    BY <1>1, RoomType DEF IInv, ToRead, Wrap, Throw
  <2> QED
    BY <2>1, <2>2 DEF IInv, TypeOK, Throw
<1>4. Accounted' /\ Buffered'
  <2>1. opened = -1 => sent = 0 /\ remaining = SizeT - 1
    BY <1>2 DEF IInv, Accounted
  <2> QED
    BY <1>2, <2>1
    DEF IInv, Accounted, Buffered, BufferIsKept, Wrapped, Throw
<1>5. ASSUME opened # -1, shortest >= opened PROVE Unlucky
  <2>1. file >= opened /\ file # -1
    BY <1>1, <1>5 DEF IInv, TypeOK, Accounted
  <2>2. sent + ToRead > file
    BY <2>1 DEF Throw, CanFail
  <2>3. ~Last
    BY <1>1, <1>5, <2>1, <2>2, LastIsExact DEF Throw, ToRead
  <2>4. HeaderFits
    BY <1>2, <1>5, <2>3, NarrowIsLast
  <2>5. sent + Room > opened
    BY <1>1, <2>1, <2>2, <2>3, <2>4, FittingHeader DEF ToRead, IInv
  <2> QED
    BY <1>2, <1>5, <2>3, <2>5, OverreadIsUnlucky
<1>6. Boundary'
  <2>1. ThrowsAtBoundary'
    BY <1>1, <1>2, <1>5 DEF IInv, TypeOK, ThrowsAtBoundary, Unlucky, Throw
  <2>2. (~completed /\ opened # -1 /\ Wrapped => Unlucky)'
    BY <1>2 DEF IInv, Boundary, Wrapped, Unlucky, Throw
  <2> QED
    BY <2>1, <2>2 DEF Boundary
<1> QED
  BY <1>3, <1>4, <1>6 DEF IInv, Throw

\* next_chunk() writing outside of the buffer preserves it: the header leaves
\* no room for END.
LEMMA OverrunStep == IInv /\ Overrun => IInv'
<1> SUFFICES ASSUME IInv, Overrun PROVE IInv'
  OBVIOUS
<1>1. /\ Room' = Room /\ HeaderFits' = HeaderFits
      /\ state = "ready" /\ ~completed /\ state' = "overrun" /\ ~completed'
  BY RoomType DEF IInv, Overrun
<1>2. ~HeaderFits
  <2> SUFFICES ASSUME HeaderFits PROVE FALSE
    OBVIOUS
  <2>1. Room \in Nat /\ Room >= Segment /\ remaining \in Nat
    BY FittingHeader DEF IInv, TypeOK
  <2>2. ToRead <= Room
    BY <2>1, FittingHeader, RoomType DEF IInv, ToRead, Last
  <2>3. ToRead \in Nat
    BY <2>1, FittingHeader DEF IInv, ToRead
  <2> QED
    BY <2>1, <2>2, <2>3 DEF Overrun
<1>3. TypeOK'
  BY <1>1 DEF IInv, TypeOK, Overrun
<1>4. Accounted' /\ Buffered' /\ Boundary'
  BY <1>1, <1>2
  DEF IInv, Accounted, Wrapped, Buffered, BufferIsKept, Boundary, Unlucky,
      ThrowsAtBoundary, Overrun
<1> QED
  BY <1>1, <1>3, <1>4 DEF IInv

\* next_chunk() returning false changes nothing but the loop.
LEMMA FinishStep == IInv /\ Finish => IInv'
<1> SUFFICES ASSUME IInv, Finish PROVE IInv'
  OBVIOUS
<1>1. Room' = Room /\ HeaderFits' = HeaderFits
  BY RoomType DEF IInv, Finish
<1> QED
  BY <1>1
  DEF IInv, TypeOK, Accounted, Wrapped, Buffered, BufferIsKept, Boundary,
      Unlucky, ThrowsAtBoundary, Finish

\* IInv is inductive.
THEOREM Invariance == Spec => []IInv
<1>1. IInv /\ [Next]_vars => IInv'
  <2> SUFFICES ASSUME IInv, [Next]_vars PROVE IInv'
    OBVIOUS
  <2>1. CASE UNCHANGED vars
    <3>1. Room' = Room /\ HeaderFits' = HeaderFits
      BY <2>1, RoomType DEF vars, IInv
    <3> QED
      BY <2>1, <3>1
      DEF vars, IInv, TypeOK, Accounted, Wrapped, Buffered, BufferIsKept,
          Boundary, Unlucky, ThrowsAtBoundary
  <2> QED
    BY <2>1, EditStep, ChunkStep, ThrowStep, OverrunStep, FinishStep
    DEF Next, next_chunk, Ended
<1> QED
  BY <1>1, InitIInv, PTL DEF Spec

\* Types, remaining_ being a size_t in spite of the subtraction among them.
THEOREM TypeCorrect == Spec => []TypeOK
<1>1. IInv => TypeOK
  BY DEF IInv
<1> QED
  BY <1>1, Invariance, PTL

\* Every message next_chunk() yields holds exactly its segments, whatever
\* becomes of the file meanwhile and however long the header.
THEOREM MessagesAreWellFormed == Spec => []MessageIsWellFormed
<1>1. IInv => MessageIsWellFormed
  <2> SUFFICES ASSUME IInv, completed \/ sent > 0, state \in {"ready", "done"}
               PROVE  size = header + Segment + length
                             + (IF completed THEN Segment ELSE 0)
    BY DEF MessageIsWellFormed
  <2> QED
    BY RoomType DEF IInv, Buffered
<1> QED
  BY <1>1, Invariance, PTL

\* Nothing is written outside of the buffer and it never grows, for every path
\* whose header leaves room for a CONTENT and an END segment.
THEOREM BuffersAreKept == Spec => []BufferIsKept
<1>1. IInv => BufferIsKept
  BY DEF IInv, Buffered
<1> QED
  BY <1>1, Invariance, PTL

\* A file reported as completely sent has been: as many bytes of it as it had
\* when it was opened, although remaining_ may wrap around.
THEOREM CompletedFilesAreWhole == Spec => []CompletedIsWhole
<1>1. IInv => CompletedIsWhole
  BY DEF IInv, Accounted, CompletedIsWhole
<1> QED
  BY <1>1, Invariance, PTL

\* An existing file that is not truncated is refused only when its last chunk
\* would fill the buffer up to the END segment.
THEOREM RefusalsAreAtTheBoundary == Spec => []ThrowsAtBoundary
<1>1. IInv => ThrowsAtBoundary
  BY DEF IInv, Boundary
<1> QED
  BY <1>1, Invariance, PTL
=============================================================================
