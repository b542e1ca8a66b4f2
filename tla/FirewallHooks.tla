----------------------------- MODULE FirewallHooks -----------------------------
(***************************************************************************)
(* Setup, Remove, save and restore of the rules in the kernel, command by    *)
(* command.  Most failures are ignored and the process may be killed between *)
(* two commands; mode and ports change from one call to the next, Docker's   *)
(* chain comes and goes, and an administrator adds rules of his own.  tcp    *)
(* and udp are treated alike, and a rule that is there twice is there once.  *)
(* With DRY_RUN Setup and Remove return at once and issue no command: such a *)
(* call changes nothing, and no call here is one.                            *)
(***************************************************************************)
EXTENDS Integers, Sequences, SequencesExt, FiniteSets

CONSTANTS
    Ports,
    Confs,          \* configurations: FIREWALL_MODE and BLOCKED_PORTS
    Foreign,        \* rules of the administrator that jump to the chain
    MaxCalls,       \* bound: calls of Setup, Remove, save and restore
    MaxFaults       \* bound: failing commands and kills

ASSUME ParameterAssumption ==
    /\ \A conf \in Confs : /\ conf.mode \in {"host", "docker-bridge", "hybrid", "other"}
                           /\ conf.ports \in Seq(Ports)
    /\ Ports # {}
    /\ Foreign \subseteq [bin : {"iptables", "ip6tables"}, parent : {"INPUT", "DOCKER-USER", "FORWARD"},
                         port : Ports, own : {FALSE}]
    /\ {MaxCalls, MaxFaults} \subseteq Nat

VARIABLES
    sets,           \* families whose ipset exists
    chains,         \* families whose chain f.Chain exists
    drops,          \* families whose chain drops what is in the set
    docker,         \* families with a chain DOCKER-USER
    rules,          \* rules that jump to f.Chain
    saved,          \* family -> the file iptables-rules.v4 or .v6
    op,             \* the call in progress, or the last one
    calls, faults

kernelVars == <<sets, chains, drops, docker, rules>>
vars == <<kernelVars, saved, op, calls, faults>>

Bins == {"iptables", "ip6tables"}
hookParents == <<"INPUT", "DOCKER-USER">>
Rule(bin, parent, port) == [bin |-> bin, parent |-> parent, port |-> port, own |-> TRUE]
NoFile == [kind |-> "none", chain |-> FALSE, drop |-> FALSE, docker |-> FALSE, rules |-> {}]

\* A command; what it does not need of the rule is left at any value.
Cmd(c, r) == [c |-> c, rule |-> r]
On(c, bin) == Cmd(c, Rule(bin, "INPUT", CHOOSE p \in Ports : TRUE))
At(c, bin, parent) == Cmd(c, Rule(bin, parent, CHOOSE p \in Ports : TRUE))
Both(c) == <<On(c, "iptables"), On(c, "ip6tables")>>

Cur == Head(op.todo).rule
Is(c) == op.todo # <<>> /\ Head(op.todo).c = c
Rest == [op EXCEPT !.todo = Tail(@)]
Before(cmds) == [op EXCEPT !.todo = cmds \o Tail(@)]
Abort == [op EXCEPT !.todo = <<>>, !.err = TRUE]

-----------------------------------------------------------------------------
(* What a configuration asks for.                                          *)

\* hooks
Hooks(mode) ==
    CASE mode = "host"          -> <<"INPUT">>
      [] mode = "docker-bridge" -> <<"DOCKER-USER">>
      [] mode = "hybrid"        -> hookParents
      [] OTHER                  -> <<>>

OptionalMissing(bin, parent) == bin = "ip6tables" /\ parent = "DOCKER-USER"

Exists(bin, parent) == parent # "DOCKER-USER" \/ bin \in docker

\* wantedHook
WantedHook(conf, r) == r.parent \in Range(Hooks(conf.mode)) /\ r.port \in Range(conf.ports)

\* Faulty variant: a rule of the administrator is not told apart.
KeepWanted(conf, r) == WantedHook(conf, r)

\* keepHook, ownHook
KeepHook(conf, r) == ~r.own \/ WantedHook(conf, r)

OwnHooks == {r \in rules : r.own}

Wanted(conf) ==
    {Rule(w[1], w[2], w[3]) : w \in {v \in Bins \X Range(Hooks(conf.mode)) \X Range(conf.ports) :
                                        Exists(v[1], v[2])}}

-----------------------------------------------------------------------------
(* The calls, as the commands they run.                                    *)

EachParent(c, bin, parents) == [i \in 1 .. Len(parents) |-> At(c, bin, parents[i])]

CleanupHooks == EachParent("list", "iptables", hookParents) \o EachParent("list", "ip6tables", hookParents)

EnsureHooks(conf) ==
    EachParent("parent", "iptables", Hooks(conf.mode)) \o EachParent("parent", "ip6tables", Hooks(conf.mode))

\* Faulty variant: the old hooks go before the new ones are there.
SetupCleansFirst(conf) ==
    Both("create") \o Both("chain") \o Both("drop") \o CleanupHooks \o EnsureHooks(conf)

SetupCmds(conf) ==
    Both("create") \o Both("chain") \o Both("drop") \o EnsureHooks(conf) \o CleanupHooks

PortPlaces == <<[bin |-> "iptables", parent |-> "INPUT"], [bin |-> "ip6tables", parent |-> "INPUT"],
                [bin |-> "iptables", parent |-> "DOCKER-USER"], [bin |-> "ip6tables", parent |-> "DOCKER-USER"]>>

\* Every place of the first port, then of the second...
DeletePorts(conf) ==
    [i \in 1 .. 4 * Len(conf.ports) |->
        LET place == PortPlaces[((i - 1) % 4) + 1]
        IN  Cmd("delete", Rule(place.bin, place.parent, conf.ports[((i - 1) \div 4) + 1]))]

\* Faulty variant: only hooks of the configured ports are removed.
RemoveConfigured(conf) == DeletePorts(conf) \o Both("flush") \o Both("delchain") \o Both("destroy")

RemoveCmds(conf) ==
    DeletePorts(conf) \o CleanupHooks \o Both("flush") \o Both("delchain") \o Both("destroy")

Commands(kind, conf) ==
    CASE kind = "setup"   -> IF Hooks(conf.mode) = <<>> THEN <<>> ELSE SetupCmds(conf)
      [] kind = "remove"  -> RemoveCmds(conf)
      [] kind = "save"    -> Both("save")
      [] kind = "restore" -> Both("restore")

Call(kind, conf) ==
    /\ op.todo = <<>>
    /\ calls < MaxCalls
    /\ calls' = calls + 1
    /\ op' = [kind |-> kind, conf |-> conf, todo |-> Commands(kind, conf), fault |-> FALSE,
              err |-> kind = "setup" /\ Hooks(conf.mode) = <<>>, before |-> OwnHooks]
    /\ UNCHANGED <<kernelVars, saved, faults>>

-----------------------------------------------------------------------------
(* The commands.                                                           *)

CreateSet ==
    /\ Is("create")
    /\ sets' = sets \cup {Cur.bin}
    /\ op' = Rest
    /\ UNCHANGED <<chains, drops, docker, rules, saved, calls, faults>>

NewChain ==
    /\ Is("chain")
    /\ chains' = chains \cup {Cur.bin}
    /\ op' = Rest
    /\ UNCHANGED <<sets, drops, docker, rules, saved, calls, faults>>

\* ensureSetDrop: the rule needs its chain and its set.
EnsureSetDrop ==
    /\ Is("drop")
    /\ IF Cur.bin \in drops \cup (chains \cap sets)
       THEN drops' = drops \cup {Cur.bin} /\ op' = Rest
       ELSE op' = Abort /\ UNCHANGED drops
    /\ UNCHANGED <<sets, chains, docker, rules, saved, calls, faults>>

\* ensureHooks: the parent chain, then a hook for each port.
CheckParent ==
    /\ Is("parent")
    /\ op' = IF Exists(Cur.bin, Cur.parent)
             THEN Before([i \in 1 .. Len(op.conf.ports) |->
                             Cmd("hook", Rule(Cur.bin, Cur.parent, op.conf.ports[i]))])
             ELSE IF OptionalMissing(Cur.bin, Cur.parent) THEN Rest ELSE Abort
    /\ UNCHANGED <<kernelVars, saved, calls, faults>>

\* Faulty variant: only the first port is hooked.
HookedFirst(r) == IF r.bin \in chains /\ r.port = Head(op.conf.ports) THEN {r} ELSE {}

\* The kernel takes no jump to a chain that is not there.
Hooked(r) == IF r.bin \in chains THEN {r} ELSE {}

EnsureHook ==
    /\ Is("hook")
    /\ rules' = rules \cup Hooked(Cur)
    /\ op' = Rest
    /\ UNCHANGED <<sets, chains, drops, docker, saved, calls, faults>>

\* cleanupHooks, hookRules: list the jumps of one parent, then delete them.
ListHooks ==
    /\ Is("list")
    /\ LET gone == {r \in rules : /\ r.bin = Cur.bin /\ r.parent = Cur.parent
                                  /\ op.kind = "setup" => ~KeepHook(op.conf, r)}
       IN  op' = Before([i \in 1 .. Cardinality(gone) |-> Cmd("delete", SetToSeq(gone)[i])])
    /\ UNCHANGED <<kernelVars, saved, calls, faults>>

DeleteRule ==
    /\ Is("delete")
    /\ rules' = rules \ {Cur}
    /\ op' = Rest
    /\ UNCHANGED <<sets, chains, drops, docker, saved, calls, faults>>

FlushChain ==
    /\ Is("flush")
    /\ drops' = drops \ {Cur.bin}
    /\ op' = Rest
    /\ UNCHANGED <<sets, chains, docker, rules, saved, calls, faults>>

\* The kernel keeps a chain that is not empty or that a rule jumps to.
DeleteChain ==
    /\ Is("delchain")
    /\ chains' = IF Cur.bin \in drops \/ \E r \in rules : r.bin = Cur.bin
                 THEN chains ELSE chains \ {Cur.bin}
    /\ op' = Rest
    /\ UNCHANGED <<sets, drops, docker, rules, saved, calls, faults>>

\* And a set that a rule names.
DestroySet ==
    /\ Is("destroy")
    /\ sets' = IF Cur.bin \in drops THEN sets ELSE sets \ {Cur.bin}
    /\ op' = Rest
    /\ UNCHANGED <<chains, drops, docker, rules, saved, calls, faults>>

\* iptables-save into a file.
SaveRules ==
    /\ Is("save")
    /\ saved' = [saved EXCEPT ![Cur.bin] =
                    [kind |-> "whole", chain |-> Cur.bin \in chains, drop |-> Cur.bin \in drops,
                     docker |-> Cur.bin \in docker, rules |-> {r \in rules : r.bin = Cur.bin}]]
    /\ op' = Rest
    /\ UNCHANGED <<kernelVars, calls, faults>>

With(s, bin, b) == IF b THEN s \cup {bin} ELSE s \ {bin}

\* iptables-restore replaces the tables; a torn file, or one that names a set
\* that does not exist, is refused as a whole.
RestoreRules ==
    /\ Is("restore")
    /\ LET f == saved[Cur.bin] IN
       IF f.kind = "torn" \/ (f.drop /\ Cur.bin \notin sets)
       THEN op' = Abort /\ UNCHANGED kernelVars
       ELSE /\ op' = Rest
            /\ IF f.kind = "none" THEN UNCHANGED kernelVars
               ELSE /\ chains' = With(chains, Cur.bin, f.chain)
                    /\ drops' = With(drops, Cur.bin, f.drop)
                    /\ docker' = With(docker, Cur.bin, f.docker)
                    /\ rules' = {r \in rules : r.bin # Cur.bin} \cup f.rules
                    /\ UNCHANGED sets
    /\ UNCHANGED <<saved, calls, faults>>

\* A command fails without having done anything (the xtables lock, memory).
Fails ==
    /\ op.todo # <<>>
    /\ faults < MaxFaults
    /\ faults' = faults + 1
    /\ op' = IF \/ Head(op.todo).c \in {"drop", "save", "restore"}
                \/ Head(op.todo).c = "parent" /\ ~OptionalMissing(Cur.bin, Cur.parent)
             THEN [Abort EXCEPT !.fault = TRUE] ELSE [Rest EXCEPT !.fault = TRUE]
    /\ UNCHANGED <<kernelVars, saved, calls>>

\* The process is killed; a file being written stays torn.
Kill ==
    /\ op.todo # <<>>
    /\ faults < MaxFaults
    /\ faults' = faults + 1
    /\ op' = [Abort EXCEPT !.fault = TRUE]
    /\ saved' = IF Is("save") THEN [saved EXCEPT ![Cur.bin] = [NoFile EXCEPT !.kind = "torn"]] ELSE saved
    /\ UNCHANGED <<kernelVars, calls>>

Idle == [op EXCEPT !.kind = "none"]

\* Docker creates its chain, or takes it away with the rules in it.
DockerChanges ==
    /\ op.todo = <<>> /\ calls < MaxCalls
    /\ \E b \in Bins :
          \/ docker' = docker \cup {b} /\ UNCHANGED rules
          \/ /\ docker' = docker \ {b}
             /\ rules' = {r \in rules : r.bin # b \/ r.parent # "DOCKER-USER"}
    /\ op' = Idle
    /\ UNCHANGED <<sets, chains, drops, saved, calls, faults>>

\* The administrator adds a rule that jumps to the chain.
AdminAdds(r) ==
    /\ op.todo = <<>> /\ calls < MaxCalls
    /\ r.bin \in chains /\ Exists(r.bin, r.parent)
    /\ rules' = rules \cup {r}
    /\ op' = Idle
    /\ UNCHANGED <<sets, chains, drops, docker, saved, calls, faults>>

Init ==
    /\ sets = {} /\ chains = {} /\ drops = {} /\ rules = {}
    /\ docker \in SUBSET Bins
    /\ saved = [b \in Bins |-> NoFile]
    /\ op \in {[kind |-> "none", conf |-> conf, todo |-> <<>>, fault |-> FALSE, err |-> FALSE,
                before |-> {}] : conf \in Confs}
    /\ calls = 0 /\ faults = 0

Command ==
    \/ CreateSet \/ NewChain \/ EnsureSetDrop \/ CheckParent \/ EnsureHook
    \/ ListHooks \/ DeleteRule \/ FlushChain \/ DeleteChain \/ DestroySet
    \/ SaveRules \/ RestoreRules

Next ==
    \/ \E kind \in {"setup", "remove", "save", "restore"}, conf \in Confs : Call(kind, conf)
    \/ Command
    \/ Fails \/ Kill \/ DockerChanges
    \/ \E r \in Foreign : AdminAdds(r)

Spec == Init /\ [][Next]_vars

-----------------------------------------------------------------------------
(* Properties.                                                             *)

\* Every variable has its type.
TypeOK ==
    /\ {sets, chains, drops, docker} \subseteq SUBSET Bins
    /\ rules \subseteq [bin : Bins, parent : {"INPUT", "DOCKER-USER", "FORWARD"}, port : Ports, own : BOOLEAN]
    /\ \A b \in Bins : saved[b].kind \in {"none", "torn", "whole"} /\ \A r \in saved[b].rules : r.bin = b
    /\ op.conf \in Confs /\ op.before \subseteq [bin : Bins, parent : Range(hookParents), port : Ports, own : {TRUE}]

Ended(kind) == op.kind = kind /\ op.todo = <<>> /\ ~op.err /\ ~op.fault

\* A Setup in which no command failed leaves exactly the hooks of its mode and ports,
\* both sets and chains that drop what is in them, whatever earlier calls, other
\* configurations or kills left behind (docs/architektur.md:268).
SetupEstablishes ==
    Ended("setup") => /\ OwnHooks = Wanted(op.conf)
                      /\ sets = Bins /\ chains = Bins /\ drops = Bins

\* Setup never removes a rule of the administrator, nor a hook it wants
\* (docs/architektur.md:268, "Fremde Regeln bleiben unberührt").
ForeignKept ==
    [][op.kind = "setup" /\ op.todo # <<>> =>
           \A r \in rules \ rules' : r.own /\ r \notin Wanted(op.conf)]_vars

\* While Setup changes the hooks, either the old ones or the new ones are all
\* there: a change of mode or ports has no moment without protection.
NoGapOnChange ==
    op.kind = "setup" /\ ~op.fault /\ ~op.err =>
        op.before \subseteq rules \/ Wanted(op.conf) \subseteq rules

\* A Remove in which no command failed leaves no set and no jump in the chains
\* Setup uses, under whatever configuration they were made; the chain itself
\* only stays if a rule elsewhere jumps to it.
RemoveLeavesNothing ==
    Ended("remove") =>
        /\ sets = {} /\ drops = {}
        /\ \A r \in rules : r.parent \notin Range(hookParents)
        /\ \A b \in chains : \E r \in rules : r.bin = b
=============================================================================
