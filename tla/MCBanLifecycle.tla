--------------------------- MODULE MCBanLifecycle ---------------------------
(* Constants for TLC.                                                       *)
EXTENDS BanLifecycle, TLC

CONSTANTS ip1, ip2

NoList == {}
AnyList == SUBSET IPs
GrowingList == {{ip1}, {ip1, ip2}}

\* The addresses of a run are interchangeable where no list singles one out.
Symmetry == Permutations(IPs)
=============================================================================
