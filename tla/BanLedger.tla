------------------------------ MODULE BanLedger ------------------------------
(***************************************************************************)
(* What the ban lifecycle promises to the host it protects, without locks,  *)
(* threads or SQL: a ledger of bans (table active_bans) and the set of      *)
(* addresses the kernel drops (the ipsets).  An address is recorded before  *)
(* it is dropped, and forgotten only after it is dropped no longer.         *)
(***************************************************************************)
CONSTANT IPs

VARIABLES
    banned,     \* addresses with a row in active_bans
    blocked     \* addresses with an entry in the ipset

ledgerVars == <<banned, blocked>>

Init ==
    /\ banned = {}
    /\ blocked = {}

\* A ban is written down; the kernel does not know of it yet.
Record(ip) ==
    /\ ip \notin banned
    /\ banned' = banned \cup {ip}
    /\ UNCHANGED blocked

\* The kernel is told to drop addresses that are on record.
Enforce(S) ==
    /\ S \subseteq banned
    /\ blocked' = blocked \cup S
    /\ UNCHANGED banned

\* Entries leave the ipset: deleted, timed out, flushed or lost in a reboot.
Release(S) ==
    /\ blocked' = blocked \ S
    /\ UNCHANGED banned

\* A ban is struck off, which only a released address may be.
Forget(ip) ==
    /\ ip \in banned
    /\ ip \notin blocked
    /\ banned' = banned \ {ip}
    /\ UNCHANGED blocked

Next ==
    \/ \E ip \in IPs : Record(ip) \/ Forget(ip)
    \/ \E S \in SUBSET IPs : Enforce(S) \/ Release(S)

Spec == Init /\ [][Next]_ledgerVars
=============================================================================
