------------------------------ MODULE MCGeoQueue ------------------------------
(* Constants for TLC.                                                       *)
EXTENDS GeoQueue

CONSTANTS c1, c2, c3, r1, r2
=============================================================================
