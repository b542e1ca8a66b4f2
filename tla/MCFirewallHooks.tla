---------------------------- MODULE MCFirewallHooks ----------------------------
(* Constants for TLC.                                                       *)
EXTENDS FirewallHooks

CONSTANTS p1, p2

Conf(mode, ports) == [mode |-> mode, ports |-> ports]
MCConfs == {Conf("host", <<p1>>), Conf("hybrid", <<p1, p2>>), Conf("docker-bridge", <<p2>>), Conf("other", <<p1>>)}

Manual(bin, parent) == [bin |-> bin, parent |-> parent, port |-> p1, own |-> FALSE]
MCForeign == {Manual("iptables", "INPUT"), Manual("ip6tables", "FORWARD")}
=============================================================================
