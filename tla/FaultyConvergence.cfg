\* One fault: a file that exists all along is never stored as it is.
CONSTANTS
  Path = {p1}
  Digest = {d1, d2}
  None = None
  Unsendable = {}
  MaxEdits = 1
  MaxFaults = 1
  MaxPending = 2
  PoolKeepsUp = TRUE
SPECIFICATION FairSpec
PROPERTY KeptFileConverges
