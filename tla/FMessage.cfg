\* Chunks of 13 bytes, of 5, and headers that leave room for no END segment (15,
\* 19), no CONTENT segment (20) and nothing (24); every length of the file.
CONSTANTS
  CHUNK_SIZE = 24
  Headers = {6, 14, 15, 19, 20, 24}
  SizeT = 128
  MaxSize = 32
  MaxEdits = 2
SPECIFICATION FairSpec
INVARIANTS TypeOK IInv MessageIsWellFormed BufferIsKept CompletedIsWhole ThrowsAtBoundary
PROPERTY SendingEnds
