--------------------------- MODULE MCCleanupLock ---------------------------
(* CleanupLock for TLC.  Replicas and tokens are interchangeable; symmetry   *)
(* is used for the safety run only.                                          *)
EXTENDS CleanupLock, TLC

Symmetry == Permutations(Replicas) \cup Permutations(Tokens)

=============================================================================
