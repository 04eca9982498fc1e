\* One file changed twice, one fault, any delay of the pool; one of its contents
\* cannot be sent.
CONSTANTS
  Path = {p1}
  Digest = {d1, d2}
  None = None
  Unsendable = {d2}
  MaxEdits = 2
  MaxFaults = 1
  MaxPending = 2
  PoolKeepsUp = FALSE
SPECIFICATION Spec
INVARIANTS TypeOK IInv IndeterminateIsAwaited PresentFileIsKept UnchangedSyncedIsStored
  LostEntryWasRemoved
PROPERTIES PresentBackupIsKept ImplementsMirror
