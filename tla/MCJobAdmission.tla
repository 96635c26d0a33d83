--------------------------- MODULE MCJobAdmission ---------------------------
(***************************************************************************)
(* Values of JobAdmission's constants for TLC.                             *)
(***************************************************************************)
EXTENDS JobAdmission

CONSTANTS w1, w2, k1
=============================================================================
