----------------------------- MODULE MCGeoResolver -----------------------------
(* Constants for TLC.                                                       *)
EXTENDS GeoResolver

CONSTANTS a1, a2, w1, w2
=============================================================================
