----------------------------- MODULE MCSessions -----------------------------
(* Small instances of Sessions for TLC.                                    *)
EXTENDS Sessions, TLC

\* The handlers are interchangeable.
Symmetry == Permutations(Procs)
=============================================================================
