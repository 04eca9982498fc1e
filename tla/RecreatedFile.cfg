\* No fault: a file removed and created again is never stored.
CONSTANTS
  Path = {p1}
  Digest = {d1, d2}
  None = None
  Unsendable = {}
  MaxEdits = 1
  MaxFaults = 0
  MaxPending = 2
  PoolKeepsUp = TRUE
SPECIFICATION FairSpec
PROPERTY ServerConverges
