--------------------------- MODULE BackupClientMC ---------------------------
(* What TLC needs to check BackupClient, and the inductive invariant of its *)
(* proofs, on small instances.                                              *)
EXTENDS CalmProofs, TLC

\* Paths are interchangeable, and so are digests.
Symmetry == Permutations(Path) \cup Permutations(Digest)
=============================================================================
