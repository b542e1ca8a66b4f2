---------------------------- MODULE MCNotifyQueue ----------------------------
(* Constants for TLC.                                                       *)
EXTENDS NotifyQueue

CONSTANTS j1, j2, j3, j4
=============================================================================
