----------------------------- MODULE MCRestore -----------------------------
(* Small instances of Restore for TLC.                                     *)
EXTENDS Restore, TLC

\* Two requests are interchangeable; the backups are not: one holds books.
Symmetry == Permutations(Requests)
=============================================================================
