----------------------------- MODULE MCUploads -----------------------------
(* Small instances of Uploads for TLC.                                     *)
EXTENDS Uploads, TLC

\* Ids, chunks and request handlers are interchangeable.  Not for liveness.
Symmetry == Permutations(Uploads) \cup Permutations(Chunks) \cup Permutations(Requests)
=============================================================================
