\* Liveness without faults; one of three contents cannot be sent.
CONSTANTS
  Path = {p1}
  Digest = {d1, d2, d3}
  None = None
  Unsendable = {d3}
  MaxEdits = 2
  MaxFaults = 0
  MaxPending = 2
  PoolKeepsUp = TRUE
SPECIFICATION FairSpec
PROPERTY KeptFileConverges
