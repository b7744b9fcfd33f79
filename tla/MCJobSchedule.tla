--------------------------- MODULE MCJobSchedule ---------------------------
(* Small instances of JobSchedule for TLC.                                 *)
EXTENDS JobSchedule
=============================================================================
