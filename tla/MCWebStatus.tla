------------------------------ MODULE MCWebStatus ------------------------------
(* Constants for TLC.                                                       *)
EXTENDS WebStatus

CONSTANTS c1, c2, c3, q1, q2
=============================================================================
