----------------------------- MODULE MCQueryPoll -----------------------------
(* Two subdomains of one base and another domain, asked for by two clients; the  *)
(* watchlist is empty or has one of the subdomains.                           *)
EXTENDS QueryPoll

CONSTANTS k1, k2, k3, c1, c2, b

MCClient == [k \in {k1, k2, k3} |-> IF k = k3 THEN c2 ELSE c1]
MCBase == [k \in {k1, k2, k3} |-> IF k = k3 THEN NoBase ELSE b]
MCWatchlists == {{}, {k2}}
=============================================================================
