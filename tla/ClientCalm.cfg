\* No fault, and closures run before the watcher looks again.
CONSTANTS
  Path = {p1, p2}
  Digest = {d1, d2}
  None = None
  Unsendable = {}
  MaxEdits = 2
  MaxFaults = 0
  MaxPending = 2
  PoolKeepsUp = TRUE
SPECIFICATION Spec
INVARIANTS CalmInv OneRequestPerPath SyncedIsStored ExistOnServerIsAccurate HandlerFindsEntry
SYMMETRY Symmetry
