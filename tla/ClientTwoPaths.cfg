\* Two files on the one strand: a sync caused by one re-posts the other.
CONSTANTS
  Path = {p1, p2}
  Digest = {d1, d2}
  None = None
  Unsendable = {}
  MaxEdits = 1
  MaxFaults = 1
  MaxPending = 1
  PoolKeepsUp = FALSE
SPECIFICATION Spec
INVARIANTS IndeterminateIsAwaited PresentFileIsKept UnchangedSyncedIsStored
SYMMETRY Symmetry
