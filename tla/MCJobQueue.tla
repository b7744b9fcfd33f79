----------------------------- MODULE MCJobQueue -----------------------------
(* Small instances of JobQueue for TLC.                                    *)
EXTENDS JobQueue, TLC

\* Job ids are interchangeable, and so are workers.  Not for liveness.
Symmetry == Permutations(Jobs) \cup Permutations(Workers)
=============================================================================
