----------------------------- MODULE MCPodcasts -----------------------------
(* Small instances of Podcasts for TLC.                                    *)
EXTENDS Podcasts, TLC

\* The jobs are interchangeable.
Symmetry == Permutations(Jobs)
=============================================================================
