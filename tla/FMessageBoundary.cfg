\* A file whose last chunk leaves no room for the END segment.
CONSTANTS
  CHUNK_SIZE = 24
  Headers = {6}
  SizeT = 128
  MaxSize = 32
  MaxEdits = 0
SPECIFICATION Spec
INVARIANT ReadableIsSent
