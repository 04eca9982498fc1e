\* Liveness with a fault, any delay of the pool and a content that cannot be sent.
CONSTANTS
  Path = {p1}
  Digest = {d1, d2}
  None = None
  Unsendable = {d2}
  MaxEdits = 1
  MaxFaults = 1
  MaxPending = 2
  PoolKeepsUp = FALSE
SPECIFICATION FairSpec
PROPERTIES UnchangedIsStored UploadIsSettled
