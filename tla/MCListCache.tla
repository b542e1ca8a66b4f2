----------------------------- MODULE MCListCache -----------------------------
(* Two lists, of an address and of a name; a configuration without the first  *)
(* gives its index to the second.                                             *)
EXTENDS ListCache

CONSTANTS daemon, cli, u1, u2

MCConfs == {<<u1, u2>>, <<u2>>}
=============================================================================
