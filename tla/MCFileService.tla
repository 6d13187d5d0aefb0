--------------------------- MODULE MCFileService ---------------------------
(* FileService for TLC.  Ids, keys, requests and cleanup runs are            *)
(* interchangeable; no action or invariant tells two of them apart.          *)
EXTENDS FileService, TLC

Symmetry == Permutations(FileIds) \cup Permutations(Keys)
            \cup Permutations(Requests) \cup Permutations(Cleaners)

=============================================================================
