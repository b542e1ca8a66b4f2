-------------------------- MODULE FirewallHooksProofs --------------------------
(***************************************************************************)
(* Proofs about FirewallHooks for any ports, configurations, rules of the    *)
(* administrator and number of calls, failing commands and kills.            *)
(***************************************************************************)
EXTENDS FirewallHooks, FiniteSetTheorems, SequenceTheorems, TLAPS

-----------------------------------------------------------------------------
(* Types, and the order of the commands.                                   *)

Rules == [bin : Bins, parent : {"INPUT", "DOCKER-USER", "FORWARD"}, port : Ports, own : BOOLEAN]

Names == {"create", "chain", "drop", "parent", "hook", "list", "delete",
          "flush", "delchain", "destroy", "save", "restore"}

Cmds == [c : Names, rule : Rules]

\* What a call sends before what.
Stage(x) ==
    CASE x.c = "create"             -> 1
      [] x.c = "chain"              -> 2
      [] x.c = "drop"               -> 3
      [] x.c \in {"parent", "hook"} -> 4
      [] x.c \in {"list", "delete"} -> 5
      [] x.c = "flush"              -> 6
      [] x.c = "delchain"           -> 7
      [] x.c = "destroy"            -> 8
      [] OTHER                      -> 9

Ordered(s) == \A i, j \in 1 .. Len(s) : i < j => Stage(s[i]) <= Stage(s[j])

\* The commands still to come.
Left == Range(op.todo)

-----------------------------------------------------------------------------
(* The invariant.                                                          *)

KernelInv ==
    /\ sets \subseteq Bins /\ chains \subseteq Bins /\ drops \subseteq Bins /\ docker \subseteq Bins
    /\ rules \subseteq Rules /\ IsFiniteSet(rules)
    /\ \A r \in rules : Exists(r.bin, r.parent) /\ (r.own => r.parent \in Range(hookParents))

Files(b) ==
    {f \in [kind : {"none", "torn", "whole"}, chain : BOOLEAN, drop : BOOLEAN, docker : BOOLEAN, rules : SUBSET Rules] :
        /\ IsFiniteSet(f.rules)
        /\ \A r \in f.rules : /\ r.bin = b
                              /\ r.parent = "DOCKER-USER" => f.docker
                              /\ r.own => r.parent \in Range(hookParents)}

SavedInv == DOMAIN saved = Bins /\ \A b \in Bins : saved[b] \in Files(b)

Kinds == {"none", "setup", "remove", "save", "restore"}

OwnRules == {r \in Rules : r.own /\ r.parent \in Range(hookParents)}

Ops == [kind : Kinds, conf : Confs, todo : Seq(Cmds), fault : BOOLEAN, err : BOOLEAN, before : SUBSET OwnRules]

\* The commands each call sends, and what it names in them.
NamesOf(kind) ==
    CASE kind = "setup"   -> {"create", "chain", "drop", "parent", "hook", "list", "delete"}
      [] kind = "remove"  -> {"list", "delete", "flush", "delchain", "destroy"}
      [] kind = "save"    -> {"save"}
      [] kind = "restore" -> {"restore"}
      [] OTHER            -> {}

GoodCmd(x) ==
    /\ x.c \in NamesOf(op.kind)
    /\ x.c = "parent" => x.rule.parent \in Range(Hooks(op.conf.mode))
    /\ x.c = "hook" => x.rule \in Wanted(op.conf)
    /\ x.c = "delete" /\ op.kind = "setup" => ~KeepHook(op.conf, x.rule)

OpInv == op \in Ops /\ Ordered(op.todo) /\ \A x \in Left : GoodCmd(x)

Going(kind) == op.kind = kind /\ ~op.fault /\ ~op.err

\* What Setup has to establish is there, or the command for it is still to come.
ChainComing ==
    \A b \in Bins : /\ b \in sets \/ On("create", b) \in Left
                    /\ b \in chains \/ On("chain", b) \in Left
                    /\ b \in drops \/ On("drop", b) \in Left

WantedComing ==
    \A r \in Wanted(op.conf) :
        r \in rules \/ Cmd("hook", r) \in Left \/ At("parent", r.bin, r.parent) \in Left

OldGoing ==
    \A r \in OwnHooks \ Wanted(op.conf) :
        Cmd("delete", r) \in Left \/ At("list", r.bin, r.parent) \in Left

\* Nothing goes before the last hook is tried.
BeforeStays == (\E x \in Left : Stage(x) < 5) => op.before \subseteq rules

SetupProgress == Going("setup") => ChainComing /\ WantedComing /\ OldGoing /\ BeforeStays

\* What Remove has to take away is gone, or the command for it is still to come;
\* a chain is only kept by a rule none of the commands left will remove.
SetsGoing ==
    /\ \A b \in sets : On("destroy", b) \in Left
    /\ \A b \in drops : On("flush", b) \in Left

ChainsGoing ==
    \A b \in chains : \/ On("delchain", b) \in Left
                      \/ (\A x \in Left : Stage(x) > 5) /\ \E r \in rules : r.bin = b

JumpsGoing ==
    \A r \in rules : r.parent \in Range(hookParents) =>
        Cmd("delete", r) \in Left \/ At("list", r.bin, r.parent) \in Left

RemoveProgress == Going("remove") => SetsGoing /\ ChainsGoing /\ JumpsGoing

HooksInv == KernelInv /\ SavedInv /\ OpInv /\ SetupProgress /\ RemoveProgress

-----------------------------------------------------------------------------
(* Sequences of commands.                                                  *)

LEMMA RangeOfHeadTail ==
    ASSUME NEW s \in Seq(Cmds), s # <<>>
    PROVE  /\ Head(s) \in Cmds /\ Tail(s) \in Seq(Cmds)
           /\ Range(s) = {Head(s)} \cup Range(Tail(s))
<1>1. /\ Head(s) \in Cmds /\ Tail(s) \in Seq(Cmds) /\ Head(s) = s[1]
      /\ Len(s) \in Nat /\ Len(s) > 0 /\ Len(Tail(s)) = Len(s) - 1
      /\ \A i \in 1 .. Len(Tail(s)) : Tail(s)[i] = s[i + 1]
  BY HeadTailProperties
<1>2. Range(s) = {s[i] : i \in 1 .. Len(s)} /\ Range(Tail(s)) = {Tail(s)[i] : i \in 1 .. Len(Tail(s))}
  BY <1>1, RangeEquality
<1>3. ASSUME NEW i \in 1 .. Len(s) PROVE s[i] = Head(s) \/ s[i] \in Range(Tail(s))
  <2>1. CASE i = 1
    BY <2>1, <1>1
  <2>2. CASE i # 1
    <3>1. i - 1 \in 1 .. Len(Tail(s)) /\ s[i] = Tail(s)[i - 1]
      BY <2>2, <1>1
    <3> QED
      BY <3>1, <1>2
  <2> QED
    BY <2>1, <2>2
<1>4. ASSUME NEW i \in 1 .. Len(Tail(s)) PROVE Tail(s)[i] \in Range(s)
  <2>1. i + 1 \in 1 .. Len(s) /\ Tail(s)[i] = s[i + 1]
    BY <1>1
  <2> QED
    BY <2>1, <1>2
<1>5. Head(s) \in Range(s)
  BY <1>1, <1>2
<1> QED
  BY <1>1, <1>2, <1>3, <1>4, <1>5

LEMMA OrderedHead ==
    ASSUME NEW s \in Seq(Cmds), s # <<>>, Ordered(s)
    PROVE  Ordered(Tail(s)) /\ \A x \in Range(s) : Stage(Head(s)) <= Stage(x)
<1>1. /\ Head(s) = s[1] /\ Len(s) \in Nat /\ Len(s) > 0 /\ Len(Tail(s)) = Len(s) - 1
      /\ \A i \in 1 .. Len(Tail(s)) : Tail(s)[i] = s[i + 1]
  BY HeadTailProperties
<1>2. Range(s) = {s[i] : i \in 1 .. Len(s)}
  BY RangeEquality
<1>3. ASSUME NEW i \in 1 .. Len(s) PROVE Stage(s[1]) <= Stage(s[i])
  <2>1. CASE i = 1
    BY <2>1 DEF Stage
  <2>2. CASE i # 1
    BY <2>2, <1>1 DEF Ordered
  <2> QED
    BY <2>1, <2>2
<1>4. ASSUME NEW i \in 1 .. Len(Tail(s)), NEW j \in 1 .. Len(Tail(s)), i < j
      PROVE  Stage(Tail(s)[i]) <= Stage(Tail(s)[j])
  <2>1. i + 1 \in 1 .. Len(s) /\ j + 1 \in 1 .. Len(s) /\ i + 1 < j + 1
    BY <1>1, <1>4
  <2> QED
    BY <2>1, <1>1 DEF Ordered
<1> QED
  BY <1>1, <1>2, <1>3, <1>4 DEF Ordered

LEMMA OrderedConcat ==
    ASSUME NEW s \in Seq(Cmds), NEW t \in Seq(Cmds), Ordered(s), Ordered(t),
           \A x \in Range(s), y \in Range(t) : Stage(x) <= Stage(y)
    PROVE  /\ s \o t \in Seq(Cmds) /\ Ordered(s \o t)
           /\ Range(s \o t) = Range(s) \cup Range(t)
<1>1. /\ s \o t \in Seq(Cmds) /\ Len(s \o t) = Len(s) + Len(t)
      /\ \A i \in 1 .. Len(s) + Len(t) : (s \o t)[i] = IF i <= Len(s) THEN s[i] ELSE t[i - Len(s)]
  BY ConcatProperties
<1>2. Range(s) = {s[i] : i \in 1 .. Len(s)} /\ Range(t) = {t[i] : i \in 1 .. Len(t)}
  BY RangeEquality
<1>3. Len(s) \in Nat /\ Len(t) \in Nat
  OBVIOUS
<1>4. ASSUME NEW i \in 1 .. Len(s) + Len(t), NEW j \in 1 .. Len(s) + Len(t), i < j
      PROVE  Stage((s \o t)[i]) <= Stage((s \o t)[j])
  <2>1. CASE j <= Len(s)
    <3>1. (s \o t)[i] = s[i] /\ (s \o t)[j] = s[j] /\ i \in 1 .. Len(s) /\ j \in 1 .. Len(s)
      BY <2>1, <1>1, <1>3, <1>4
    <3> QED
      BY <3>1, <1>4 DEF Ordered
  <2>2. CASE i <= Len(s) /\ ~(j <= Len(s))
    <3>1. (s \o t)[i] = s[i] /\ (s \o t)[j] = t[j - Len(s)] /\ i \in 1 .. Len(s) /\ j - Len(s) \in 1 .. Len(t)
      BY <2>2, <1>1, <1>3
    <3> QED
      BY <3>1, <1>2
  <2>3. CASE ~(i <= Len(s))
    <3>1. /\ (s \o t)[i] = t[i - Len(s)] /\ (s \o t)[j] = t[j - Len(s)]
          /\ i - Len(s) \in 1 .. Len(t) /\ j - Len(s) \in 1 .. Len(t) /\ i - Len(s) < j - Len(s)
      BY <2>3, <1>1, <1>3, <1>4
    <3> QED
      BY <3>1 DEF Ordered
  <2> QED
    BY <2>1, <2>2, <2>3, <1>3
<1> QED
  BY <1>1, <1>4, RangeConcatenation DEF Ordered

\* A piece of a call: commands of one stage.
Piece(s, k) == s \in Seq(Cmds) /\ \A x \in Range(s) : Stage(x) = k

LEMMA PieceOrdered ==
    ASSUME NEW s, NEW k \in 1 .. 9, Piece(s, k)
    PROVE  Ordered(s)
<1>1. Range(s) = {s[i] : i \in 1 .. Len(s)}
  BY RangeEquality DEF Piece
<1> QED
  BY <1>1 DEF Ordered, Piece

\* Commands that take the place of the next one keep the order.
LEMMA NextCommands ==
    ASSUME NEW s \in Seq(Cmds), s # <<>>, Ordered(s), NEW new, Piece(new, Stage(Head(s)))
    PROVE  LET t == new \o Tail(s)
           IN  t \in Seq(Cmds) /\ Ordered(t) /\ Range(t) = Range(new) \cup Range(Tail(s))
<1>1. Head(s) \in Cmds /\ Tail(s) \in Seq(Cmds) /\ Range(Tail(s)) \subseteq Range(s)
  BY RangeOfHeadTail
<1>2. Stage(Head(s)) \in 1 .. 9
  BY DEF Stage
<1>3. new \in Seq(Cmds) /\ Ordered(new)
  BY <1>2, PieceOrdered DEF Piece
<1>4. Ordered(Tail(s)) /\ \A x \in Range(new), y \in Range(Tail(s)) : Stage(x) <= Stage(y)
  BY <1>1, OrderedHead DEF Piece
<1> QED
  BY <1>1, <1>3, <1>4, OrderedConcat

LEMMA SetToSeqRange ==
    ASSUME NEW S, IsFiniteSet(S)
    PROVE  /\ Cardinality(S) \in Nat
           /\ SetToSeq(S) \in [1 .. Cardinality(S) -> S]
           /\ \A x \in S : \E i \in 1 .. Cardinality(S) : SetToSeq(S)[i] = x
<1> DEFINE n == Cardinality(S)
<1>1. n \in Nat /\ ExistsBijection(1 .. n, S)
  BY FS_CardinalityType
<1>2. PICK f \in Bijection(1 .. n, S) : TRUE
  BY <1>1 DEF ExistsBijection
<1>3. f \in [1 .. n -> S] /\ IsInjective(f)
  BY <1>2 DEF Bijection, Injection, IsInjective
<1>4. SetToSeq(S) \in [1 .. n -> S] /\ IsInjective(SetToSeq(S))
  BY <1>3 DEF SetToSeq
<1>5. SetToSeq(S) \in Injection(1 .. n, S)
  BY <1>4 DEF Injection, IsInjective
<1>6. IsFiniteSet(1 .. n) /\ Cardinality(1 .. n) = n
  BY <1>1, FS_Interval
<1>7. SetToSeq(S) \in Surjection(1 .. n, S)
  BY <1>5, <1>6, FS_Injection
<1> QED
  BY <1>1, <1>4, <1>7 DEF Surjection

-----------------------------------------------------------------------------
(* The commands of a call.                                                 *)

LEMMA CmdTypes ==
    ASSUME NEW c \in Names, NEW b \in Bins
    PROVE  /\ On(c, b) \in Cmds /\ On(c, b).c = c /\ On(c, b).rule.bin = b
           /\ \A p \in {"INPUT", "DOCKER-USER"} :
                 /\ At(c, b, p) \in Cmds
                 /\ At(c, b, p).c = c /\ At(c, b, p).rule.bin = b /\ At(c, b, p).rule.parent = p
<1>1. (CHOOSE p \in Ports : TRUE) \in Ports
  BY ParameterAssumption
<1> QED
  BY <1>1 DEF On, At, Cmd, Cmds, Rule, Rules

LEMMA ConfFacts ==
    ASSUME NEW conf \in Confs
    PROVE  /\ conf.ports \in Seq(Ports) /\ Range(conf.ports) \subseteq Ports
           /\ Hooks(conf.mode) \in Seq({"INPUT", "DOCKER-USER"})
           /\ Range(Hooks(conf.mode)) \subseteq {"INPUT", "DOCKER-USER"}
<1>p. conf.ports \in Seq(Ports) /\ conf.mode \in {"host", "docker-bridge", "hybrid", "other"}
  BY ParameterAssumption
<1>h. Hooks(conf.mode) \in {<<"INPUT">>, <<"DOCKER-USER">>, <<"INPUT", "DOCKER-USER">>, <<>>}
  BY <1>p DEF Hooks, hookParents
<1>1. Hooks(conf.mode) \in Seq({"INPUT", "DOCKER-USER"})
  <2>1. /\ <<"INPUT">> \in Seq({"INPUT", "DOCKER-USER"}) /\ <<"DOCKER-USER">> \in Seq({"INPUT", "DOCKER-USER"})
        /\ <<"INPUT", "DOCKER-USER">> \in Seq({"INPUT", "DOCKER-USER"}) /\ <<>> \in Seq({"INPUT", "DOCKER-USER"})
    OBVIOUS
  <2> QED
    BY <1>h, <2>1
<1> QED
  BY <1>p, <1>1, RangeOfSeq

LEMMA HookParents ==
    /\ hookParents \in Seq({"INPUT", "DOCKER-USER"})
    /\ Range(hookParents) = {"INPUT", "DOCKER-USER"}
<1>1. hookParents \in Seq({"INPUT", "DOCKER-USER"}) /\ Len(hookParents) = 2
      /\ hookParents[1] = "INPUT" /\ hookParents[2] = "DOCKER-USER"
  BY DEF hookParents
<1>2. Range(hookParents) = {hookParents[i] : i \in 1 .. 2}
  BY <1>1, RangeEquality
<1>3. 1 \in 1 .. 2 /\ 2 \in 1 .. 2 /\ \A i \in 1 .. 2 : i = 1 \/ i = 2
  OBVIOUS
<1> QED
  BY <1>1, <1>2, <1>3

LEMMA WantedFacts ==
    ASSUME NEW conf \in Confs
    PROVE  /\ Wanted(conf) \subseteq Rules
           /\ \A r \in Rules : r \in Wanted(conf) <=> r.own /\ WantedHook(conf, r) /\ Exists(r.bin, r.parent)
<1> DEFINE Places == {v \in Bins \X Range(Hooks(conf.mode)) \X Range(conf.ports) : Exists(v[1], v[2])}
<1>1. \A v \in Places : /\ v[1] \in Bins /\ v[2] \in {"INPUT", "DOCKER-USER"} /\ v[3] \in Ports
                        /\ v[2] \in Range(Hooks(conf.mode)) /\ v[3] \in Range(conf.ports) /\ Exists(v[1], v[2])
  BY ConfFacts
<1>2. Wanted(conf) = {Rule(v[1], v[2], v[3]) : v \in Places}
  BY DEF Wanted
<1>3. Wanted(conf) \subseteq Rules
  <2>1. ASSUME NEW v \in Places PROVE Rule(v[1], v[2], v[3]) \in Rules
    BY <1>1 DEF Rule, Rules
  <2> HIDE DEF Places
  <2> QED
    BY <1>2, <2>1
<1>4. ASSUME NEW r \in Wanted(conf) PROVE r.own /\ WantedHook(conf, r) /\ Exists(r.bin, r.parent)
  <2>1. PICK v \in Places : r = Rule(v[1], v[2], v[3])
    BY <1>2
  <2> QED
    BY <1>1, <2>1 DEF Rule, WantedHook
<1>5. ASSUME NEW r \in Rules, r.own, WantedHook(conf, r), Exists(r.bin, r.parent)
      PROVE  r \in Wanted(conf)
  <2> DEFINE v == <<r.bin, r.parent, r.port>>
  <2>1. v \in Places
    BY <1>5 DEF WantedHook, Rules
  <2>2. r = Rule(v[1], v[2], v[3])
    BY <1>5 DEF Rule, Rules
  <2> QED
    BY <1>2, <2>1, <2>2
<1> QED
  BY <1>3, <1>4, <1>5

LEMMA BothPiece ==
    ASSUME NEW c \in Names
    PROVE  /\ Both(c) \in Seq(Cmds)
           /\ Range(Both(c)) = {On(c, b) : b \in Bins}
<1>1. On(c, "iptables") \in Cmds /\ On(c, "ip6tables") \in Cmds
  BY CmdTypes DEF Bins
<1>2. /\ Both(c) \in Seq(Cmds) /\ Len(Both(c)) = 2
      /\ Both(c)[1] = On(c, "iptables") /\ Both(c)[2] = On(c, "ip6tables")
  BY <1>1 DEF Both
<1>3. Range(Both(c)) = {Both(c)[i] : i \in 1 .. 2}
  BY <1>2, RangeEquality
<1>4. 1 \in 1 .. 2 /\ 2 \in 1 .. 2 /\ \A i \in 1 .. 2 : i = 1 \/ i = 2
  OBVIOUS
<1> QED
  BY <1>2, <1>3, <1>4 DEF Bins

LEMMA EachParentPiece ==
    ASSUME NEW c \in Names, NEW b \in Bins, NEW ps \in Seq({"INPUT", "DOCKER-USER"})
    PROVE  /\ EachParent(c, b, ps) \in Seq(Cmds)
           /\ Range(EachParent(c, b, ps)) = {At(c, b, p) : p \in Range(ps)}
<1>1. Len(ps) \in Nat /\ Range(ps) = {ps[i] : i \in 1 .. Len(ps)}
  BY RangeEquality
<1>2. \A i \in 1 .. Len(ps) : ps[i] \in {"INPUT", "DOCKER-USER"}
  OBVIOUS
<1>3. \A i \in 1 .. Len(ps) : At(c, b, ps[i]) \in Cmds
  BY <1>2, CmdTypes
<1>4. EachParent(c, b, ps) \in Seq(Cmds)
  BY <1>1, <1>3 DEF EachParent
<1>5. Range(EachParent(c, b, ps)) = {At(c, b, ps[i]) : i \in 1 .. Len(ps)}
  BY DEF EachParent, Range
<1> QED
  BY <1>1, <1>4, <1>5

\* One command for each parent and family.
LEMMA ParentsPiece ==
    ASSUME NEW c \in Names, NEW ps \in Seq({"INPUT", "DOCKER-USER"})
    PROVE  LET s == EachParent(c, "iptables", ps) \o EachParent(c, "ip6tables", ps)
           IN  /\ s \in Seq(Cmds)
               /\ \A x \in Range(s) : x.c = c /\ x.rule.parent \in Range(ps)
               /\ \A b \in Bins, p \in Range(ps) : At(c, b, p) \in Range(s)
<1> DEFINE s == EachParent(c, "iptables", ps) \o EachParent(c, "ip6tables", ps)
<1>1. "iptables" \in Bins /\ "ip6tables" \in Bins /\ \A b \in Bins : b \in {"iptables", "ip6tables"}
  BY DEF Bins
<1>2. s \in Seq(Cmds) /\ Range(s) = Range(EachParent(c, "iptables", ps)) \cup Range(EachParent(c, "ip6tables", ps))
  BY <1>1, EachParentPiece, ConcatProperties, RangeConcatenation
<1>3. Range(s) = {At(c, "iptables", p) : p \in Range(ps)} \cup {At(c, "ip6tables", p) : p \in Range(ps)}
  BY <1>1, <1>2, EachParentPiece
<1>4. \A b \in Bins, p \in Range(ps) : At(c, b, p).c = c /\ At(c, b, p).rule.parent = p
  BY DEF At, Cmd, Rule
<1> HIDE DEF s
<1>5. /\ \A x \in Range(s) : x.c = c /\ x.rule.parent \in Range(ps)
      /\ \A b \in Bins, p \in Range(ps) : At(c, b, p) \in Range(s)
  BY <1>1, <1>3, <1>4
<1> QED
  BY <1>2, <1>5 DEF s

LEMMA DeletePortsPiece ==
    ASSUME NEW conf \in Confs
    PROVE  DeletePorts(conf) \in Seq(Cmds) /\ \A x \in Range(DeletePorts(conf)) : x.c = "delete"
<1> DEFINE n == Len(conf.ports)
           Place(i) == PortPlaces[((i - 1) % 4) + 1]
           Port(i) == conf.ports[((i - 1) \div 4) + 1]
<1>1. conf.ports \in Seq(Ports) /\ n \in Nat
  BY ConfFacts
<1>2. ASSUME NEW i \in 1 .. 4 * n PROVE Rule(Place(i).bin, Place(i).parent, Port(i)) \in Rules
  <2>1. ((i - 1) % 4) + 1 \in 1 .. 4
    OBVIOUS
  <2>2. ((i - 1) \div 4) + 1 \in 1 .. n
    BY <1>1
  <2>3. Port(i) \in Ports
    BY <1>1, <2>2
  <2>4. Place(i) \in [bin : Bins, parent : {"INPUT", "DOCKER-USER"}]
    BY <2>1 DEF PortPlaces, Bins
  <2> HIDE DEF Place, Port
  <2> QED
    BY <2>3, <2>4 DEF Rule, Rules
<1>3. \A i \in 1 .. 4 * n : Cmd("delete", Rule(Place(i).bin, Place(i).parent, Port(i))) \in Cmds
  BY <1>2 DEF Cmd, Cmds, Names
<1>4. DeletePorts(conf) = [i \in 1 .. 4 * n |-> Cmd("delete", Rule(Place(i).bin, Place(i).parent, Port(i)))]
  BY DEF DeletePorts
<1> HIDE DEF Place, Port
<1>5. 4 * n \in Nat
  BY <1>1
<1>6. \A i \in 1 .. 4 * n : DeletePorts(conf)[i].c = "delete"
  BY <1>4 DEF Cmd
<1>7. DeletePorts(conf) \in Seq(Cmds) /\ Len(DeletePorts(conf)) = 4 * n
  BY <1>3, <1>4, <1>5
<1> QED
  BY <1>6, <1>7, RangeEquality

LEMMA JoinPieces ==
    ASSUME NEW k \in 1 .. 9, NEW s \in Seq(Cmds), Ordered(s), \A x \in Range(s) : Stage(x) < k,
           NEW t, Piece(t, k)
    PROVE  /\ s \o t \in Seq(Cmds) /\ Ordered(s \o t)
           /\ Range(s \o t) = Range(s) \cup Range(t)
           /\ \A x \in Range(s \o t) : Stage(x) <= k
<1>1. t \in Seq(Cmds) /\ Ordered(t) /\ \A x \in Range(t) : Stage(x) = k
  BY PieceOrdered DEF Piece
<1>2. \A x \in Range(s) : Stage(x) \in 1 .. 9
  BY DEF Stage
<1> QED
  BY <1>1, <1>2, OrderedConcat

LEMMA StageOf ==
    ASSUME NEW x
    PROVE  /\ x.c = "create" => Stage(x) = 1
           /\ x.c = "chain" => Stage(x) = 2
           /\ x.c = "drop" => Stage(x) = 3
           /\ x.c \in {"parent", "hook"} => Stage(x) = 4
           /\ x.c \in {"list", "delete"} => Stage(x) = 5
           /\ x.c = "flush" => Stage(x) = 6
           /\ x.c = "delchain" => Stage(x) = 7
           /\ x.c = "destroy" => Stage(x) = 8
           /\ x.c \in {"save", "restore"} => Stage(x) = 9
BY DEF Stage

LEMMA BothStage ==
    ASSUME NEW c \in Names, NEW k, \A x : x.c = c => Stage(x) = k
    PROVE  Piece(Both(c), k) /\ \A x \in Range(Both(c)) : x.c = c
<1>1. \A b \in Bins : On(c, b).c = c
  BY CmdTypes
<1> QED
  BY <1>1, BothPiece DEF Piece

LEMMA CleanupPiece ==
    /\ Piece(CleanupHooks, 5) /\ \A x \in Range(CleanupHooks) : x.c = "list"
    /\ \A b \in Bins, p \in Range(hookParents) : At("list", b, p) \in Range(CleanupHooks)
<1>1. "list" \in Names /\ hookParents \in Seq({"INPUT", "DOCKER-USER"})
  BY HookParents DEF Names
<1>2. /\ CleanupHooks \in Seq(Cmds) /\ \A x \in Range(CleanupHooks) : x.c = "list"
      /\ \A b \in Bins, p \in Range(hookParents) : At("list", b, p) \in Range(CleanupHooks)
  BY <1>1, ParentsPiece DEF CleanupHooks
<1> QED
  BY <1>2, StageOf DEF Piece

LEMMA SetupFacts ==
    ASSUME NEW conf \in Confs
    PROVE  LET s == SetupCmds(conf)
           IN  /\ s \in Seq(Cmds) /\ Ordered(s)
               /\ \A x \in Range(s) : /\ x.c \in {"create", "chain", "drop", "parent", "list"}
                                      /\ x.c = "parent" => x.rule.parent \in Range(Hooks(conf.mode))
               /\ \A b \in Bins : {On("create", b), On("chain", b), On("drop", b)} \subseteq Range(s)
               /\ \A b \in Bins, p \in Range(Hooks(conf.mode)) : At("parent", b, p) \in Range(s)
               /\ \A b \in Bins, p \in Range(hookParents) : At("list", b, p) \in Range(s)
<1> DEFINE s1 == Both("create")
           s2 == s1 \o Both("chain")
           s3 == s2 \o Both("drop")
           s4 == s3 \o EnsureHooks(conf)
           s5 == s4 \o CleanupHooks
<1>n. {"create", "chain", "drop", "parent", "list"} \subseteq Names
  BY DEF Names
<1>k. {1, 2, 3, 4, 5} \subseteq 1 .. 9
  OBVIOUS
<1>1. /\ Piece(s1, 1) /\ \A x \in Range(s1) : x.c = "create"
      /\ Piece(Both("chain"), 2) /\ \A x \in Range(Both("chain")) : x.c = "chain"
      /\ Piece(Both("drop"), 3) /\ \A x \in Range(Both("drop")) : x.c = "drop"
  BY <1>n, BothStage, StageOf
<1>2. /\ Piece(EnsureHooks(conf), 4)
      /\ \A x \in Range(EnsureHooks(conf)) : x.c = "parent" /\ x.rule.parent \in Range(Hooks(conf.mode))
      /\ \A b \in Bins, p \in Range(Hooks(conf.mode)) : At("parent", b, p) \in Range(EnsureHooks(conf))
  <2>1. Hooks(conf.mode) \in Seq({"INPUT", "DOCKER-USER"})
    BY ConfFacts
  <2>2. /\ EnsureHooks(conf) \in Seq(Cmds)
        /\ \A x \in Range(EnsureHooks(conf)) : x.c = "parent" /\ x.rule.parent \in Range(Hooks(conf.mode))
        /\ \A b \in Bins, p \in Range(Hooks(conf.mode)) : At("parent", b, p) \in Range(EnsureHooks(conf))
    BY <1>n, <2>1, ParentsPiece DEF EnsureHooks
  <2> QED
    BY <2>2, StageOf DEF Piece
<1>3. /\ Piece(CleanupHooks, 5) /\ \A x \in Range(CleanupHooks) : x.c = "list"
      /\ \A b \in Bins, p \in Range(hookParents) : At("list", b, p) \in Range(CleanupHooks)
  BY CleanupPiece
<1>4. s1 \in Seq(Cmds) /\ Ordered(s1) /\ \A x \in Range(s1) : Stage(x) <= 1
  BY <1>k, <1>1, PieceOrdered DEF Piece
<1>5. /\ s2 \in Seq(Cmds) /\ Ordered(s2) /\ Range(s2) = Range(s1) \cup Range(Both("chain"))
      /\ \A x \in Range(s2) : Stage(x) <= 2
  <2>1. \A x \in Range(s1) : Stage(x) < 2
    BY <1>1 DEF Piece
  <2> HIDE DEF s1
  <2> QED
    BY <2>1, <1>k, <1>1, <1>4, JoinPieces
<1> HIDE DEF s2
<1>6. /\ s3 \in Seq(Cmds) /\ Ordered(s3) /\ Range(s3) = Range(s2) \cup Range(Both("drop"))
      /\ \A x \in Range(s3) : Stage(x) <= 3
  <2>1. \A x \in Range(s2) : Stage(x) < 3
    BY <1>5 DEF Stage
  <2> QED
    BY <2>1, <1>k, <1>1, <1>5, JoinPieces
<1> HIDE DEF s3
<1>7. /\ s4 \in Seq(Cmds) /\ Ordered(s4) /\ Range(s4) = Range(s3) \cup Range(EnsureHooks(conf))
      /\ \A x \in Range(s4) : Stage(x) <= 4
  <2>1. \A x \in Range(s3) : Stage(x) < 4
    BY <1>6 DEF Stage
  <2> QED
    BY <2>1, <1>k, <1>2, <1>6, JoinPieces
<1> HIDE DEF s4
<1>8. s5 \in Seq(Cmds) /\ Ordered(s5) /\ Range(s5) = Range(s4) \cup Range(CleanupHooks)
  <2>1. \A x \in Range(s4) : Stage(x) < 5
    BY <1>7 DEF Stage
  <2> QED
    BY <2>1, <1>k, <1>3, <1>7, JoinPieces
<1>9. SetupCmds(conf) = s5
  BY DEF SetupCmds, s2, s3, s4
<1>10. \A b \in Bins : /\ On("create", b) \in Range(s1) /\ On("chain", b) \in Range(Both("chain"))
                       /\ On("drop", b) \in Range(Both("drop"))
  BY <1>n, BothPiece
<1> HIDE DEF s1, s5
<1> QED
  BY <1>1, <1>2, <1>3, <1>5, <1>6, <1>7, <1>8, <1>9, <1>10

LEMMA RemoveFacts ==
    ASSUME NEW conf \in Confs
    PROVE  LET s == RemoveCmds(conf)
           IN  /\ s \in Seq(Cmds) /\ Ordered(s)
               /\ \A x \in Range(s) : x.c \in {"list", "delete", "flush", "delchain", "destroy"}
               /\ \A b \in Bins : {On("flush", b), On("delchain", b), On("destroy", b)} \subseteq Range(s)
               /\ \A b \in Bins, p \in Range(hookParents) : At("list", b, p) \in Range(s)
<1> DEFINE s1 == DeletePorts(conf) \o CleanupHooks
           s2 == s1 \o Both("flush")
           s3 == s2 \o Both("delchain")
           s4 == s3 \o Both("destroy")
<1>n. {"list", "delete", "flush", "delchain", "destroy"} \subseteq Names
  BY DEF Names
<1>k. {5, 6, 7, 8} \subseteq 1 .. 9
  OBVIOUS
<1>1. /\ Piece(Both("flush"), 6) /\ \A x \in Range(Both("flush")) : x.c = "flush"
      /\ Piece(Both("delchain"), 7) /\ \A x \in Range(Both("delchain")) : x.c = "delchain"
      /\ Piece(Both("destroy"), 8) /\ \A x \in Range(Both("destroy")) : x.c = "destroy"
  BY <1>n, BothStage, StageOf
<1>2. Piece(DeletePorts(conf), 5) /\ \A x \in Range(DeletePorts(conf)) : x.c = "delete"
  BY DeletePortsPiece, StageOf DEF Piece
<1>3. /\ Piece(CleanupHooks, 5) /\ \A x \in Range(CleanupHooks) : x.c = "list"
      /\ \A b \in Bins, p \in Range(hookParents) : At("list", b, p) \in Range(CleanupHooks)
  BY CleanupPiece
<1>4. /\ s1 \in Seq(Cmds) /\ Ordered(s1) /\ Range(s1) = Range(DeletePorts(conf)) \cup Range(CleanupHooks)
      /\ \A x \in Range(s1) : Stage(x) <= 5
  <2>1. Ordered(DeletePorts(conf)) /\ Ordered(CleanupHooks)
    BY <1>k, <1>2, <1>3, PieceOrdered
  <2> QED
    BY <2>1, <1>2, <1>3, OrderedConcat DEF Piece
<1> HIDE DEF s1
<1>5. /\ s2 \in Seq(Cmds) /\ Ordered(s2) /\ Range(s2) = Range(s1) \cup Range(Both("flush"))
      /\ \A x \in Range(s2) : Stage(x) <= 6
  <2>1. \A x \in Range(s1) : Stage(x) < 6
    BY <1>4 DEF Stage
  <2> QED
    BY <2>1, <1>k, <1>1, <1>4, JoinPieces
<1> HIDE DEF s2
<1>6. /\ s3 \in Seq(Cmds) /\ Ordered(s3) /\ Range(s3) = Range(s2) \cup Range(Both("delchain"))
      /\ \A x \in Range(s3) : Stage(x) <= 7
  <2>1. \A x \in Range(s2) : Stage(x) < 7
    BY <1>5 DEF Stage
  <2> QED
    BY <2>1, <1>k, <1>1, <1>5, JoinPieces
<1> HIDE DEF s3
<1>7. s4 \in Seq(Cmds) /\ Ordered(s4) /\ Range(s4) = Range(s3) \cup Range(Both("destroy"))
  <2>1. \A x \in Range(s3) : Stage(x) < 8
    BY <1>6 DEF Stage
  <2> QED
    BY <2>1, <1>k, <1>1, <1>6, JoinPieces
<1>8. RemoveCmds(conf) = s4
  BY DEF RemoveCmds, s1, s2, s3
<1>9. \A b \in Bins : /\ On("flush", b) \in Range(Both("flush")) /\ On("delchain", b) \in Range(Both("delchain"))
                      /\ On("destroy", b) \in Range(Both("destroy"))
  BY <1>n, BothPiece
<1> HIDE DEF s4
<1> QED
  BY <1>1, <1>2, <1>3, <1>4, <1>5, <1>6, <1>7, <1>8, <1>9

-----------------------------------------------------------------------------
(* One command of a call.                                                  *)

LEMMA NextCmd ==
    ASSUME OpInv, op.todo # <<>>
    PROVE  /\ op.todo \in Seq(Cmds) /\ Head(op.todo) \in Cmds /\ Cur \in Rules
           /\ GoodCmd(Head(op.todo))
           /\ Left = {Head(op.todo)} \cup Range(Tail(op.todo))
           /\ \A x \in Left : Stage(Head(op.todo)) <= Stage(x)
           /\ \A x \in Left : x \in Cmds
<1>1. op.todo \in Seq(Cmds) /\ Ordered(op.todo) /\ \A x \in Left : GoodCmd(x)
  BY DEF OpInv, Ops
<1>2. Head(op.todo) \in Cmds /\ Left = {Head(op.todo)} \cup Range(Tail(op.todo))
  BY <1>1, RangeOfHeadTail DEF Left
<1>3. Cur \in Rules
  BY <1>2 DEF Cur, Cmds
<1>4. \A x \in Left : Stage(Head(op.todo)) <= Stage(x)
  BY <1>1, OrderedHead DEF Left
<1>5. Range(op.todo) \subseteq Cmds
  BY <1>1, RangeOfSeq
<1>6. GoodCmd(Head(op.todo))
  BY <1>1, <1>2
<1> QED
  BY <1>1, <1>2, <1>3, <1>4, <1>5, <1>6 DEF Left

\* What stays when the command is done, whatever commands take its place.
LEMMA TodoStep ==
    ASSUME OpInv, op.todo # <<>>, NEW new, Piece(new, Stage(Head(op.todo))),
           \A x \in Range(new) : GoodCmd(x),
           op' = [op EXCEPT !.todo = new \o Tail(op.todo)],
           op.kind = "setup" => docker' = docker
    PROVE  /\ OpInv'
           /\ Left' = Range(new) \cup Range(Tail(op.todo))
           /\ op'.kind = op.kind /\ op'.conf = op.conf /\ op'.before = op.before
           /\ op'.fault = op.fault /\ op'.err = op.err
<1> DEFINE t == new \o Tail(op.todo)
<1>1. op \in Ops /\ op.todo \in Seq(Cmds) /\ Ordered(op.todo) /\ \A x \in Left : GoodCmd(x)
  BY DEF OpInv, Ops
<1>2. t \in Seq(Cmds) /\ Ordered(t) /\ Range(t) = Range(new) \cup Range(Tail(op.todo))
  BY <1>1, NextCommands
<1> HIDE DEF t
<1>3. /\ op' = [op EXCEPT !.todo = t] /\ op' \in Ops /\ op'.todo = t
      /\ op'.kind = op.kind /\ op'.conf = op.conf /\ op'.before = op.before
      /\ op'.fault = op.fault /\ op'.err = op.err
  BY <1>1, <1>2 DEF Ops, t
<1>4. Left' = Range(t)
  BY <1>3 DEF Left
<1>5. \A x \in Range(t) : GoodCmd(x)
  BY <1>1, <1>2, NextCmd
<1>6. ASSUME NEW x, GoodCmd(x) PROVE GoodCmd(x)'
  <2>1. op.kind # "setup" => x.c # "hook"
    BY <1>6, <1>1 DEF GoodCmd, NamesOf, Ops, Kinds
  <2>2. op.kind = "setup" => Wanted(op.conf)' = Wanted(op.conf)
    BY <1>3 DEF Wanted, Exists
  <2> QED
    BY <1>3, <1>6, <2>1, <2>2 DEF GoodCmd, KeepHook, WantedHook
<1> QED
  BY <1>2, <1>3, <1>4, <1>5, <1>6 DEF OpInv

LEMMA RestStep ==
    ASSUME OpInv, op.todo # <<>>, op' = Rest, op.kind = "setup" => docker' = docker
    PROVE  /\ OpInv' /\ Left' = Range(Tail(op.todo))
           /\ op'.kind = op.kind /\ op'.conf = op.conf /\ op'.before = op.before
           /\ op'.fault = op.fault /\ op'.err = op.err
<1>1. op.todo \in Seq(Cmds) /\ Tail(op.todo) \in Seq(Cmds)
  BY NextCmd, RangeOfHeadTail
<1>2. <<>> \o Tail(op.todo) = Tail(op.todo)
  BY <1>1, ConcatEmptySeq
<1>3. Range(<<>>) = {} /\ <<>> \in Seq(Cmds)
  BY DEF Range
<1>4. Piece(<<>>, Stage(Head(op.todo))) /\ \A x \in Range(<<>>) : GoodCmd(x)
  BY <1>3 DEF Piece
<1>5. op' = [op EXCEPT !.todo = <<>> \o Tail(op.todo)]
  BY <1>2 DEF Rest
<1> QED
  BY <1>3, <1>4, <1>5, TodoStep

LEMMA EmptyLeft == Range(<<>>) = {} /\ Ordered(<<>>) /\ <<>> \in Seq(Cmds)
BY DEF Range, Ordered

\* A call that is cut short promises nothing.
LEMMA AbortStep ==
    ASSUME OpInv, op' \in {Abort, [Abort EXCEPT !.fault = TRUE]}
    PROVE  OpInv' /\ op'.err /\ op'.kind = op.kind /\ op'.todo = <<>>
<1>1. op \in Ops
  BY DEF OpInv
<1>2. op' \in Ops /\ op'.todo = <<>> /\ op'.err /\ op'.kind = op.kind
  BY <1>1, EmptyLeft DEF Abort, Ops
<1> QED
  BY <1>2, EmptyLeft DEF OpInv, Left

LEMMA SkipStep ==
    ASSUME OpInv, op.todo # <<>>, op' = [Rest EXCEPT !.fault = TRUE], docker' = docker
    PROVE  OpInv' /\ op'.fault
<1>1. op \in Ops /\ op.todo \in Seq(Cmds) /\ Ordered(op.todo) /\ \A x \in Left : GoodCmd(x)
  BY DEF OpInv, Ops
<1>2. Tail(op.todo) \in Seq(Cmds) /\ Ordered(Tail(op.todo)) /\ Range(Tail(op.todo)) \subseteq Left
  BY <1>1, RangeOfHeadTail, OrderedHead DEF Left
<1>3. op' \in Ops /\ op'.todo = Tail(op.todo) /\ op'.kind = op.kind /\ op'.conf = op.conf /\ op'.fault
  BY <1>1, <1>2 DEF Rest, Ops
<1>4. ASSUME NEW x, GoodCmd(x) PROVE GoodCmd(x)'
  BY <1>3, <1>4 DEF GoodCmd, KeepHook, WantedHook, Wanted, Exists
<1> QED
  BY <1>1, <1>2, <1>3, <1>4 DEF OpInv, Left

-----------------------------------------------------------------------------
(* Setup, command by command.                                              *)

LEMMA KindOf ==
    ASSUME OpInv, op.todo # <<>>
    PROVE  LET c == Head(op.todo).c
           IN  /\ c \in {"create", "chain", "drop", "parent", "hook"} => op.kind = "setup"
               /\ c \in {"list", "delete"} => op.kind \in {"setup", "remove"}
               /\ c \in {"flush", "delchain", "destroy"} => op.kind = "remove"
               /\ c = "save" => op.kind = "save"
               /\ c = "restore" => op.kind = "restore"
<1>1. Head(op.todo).c \in NamesOf(op.kind) /\ op.kind \in Kinds
  BY NextCmd DEF GoodCmd, OpInv, Ops
<1> QED
  BY <1>1 DEF NamesOf, Kinds

LEMMA SameKernel == ASSUME KernelInv, UNCHANGED <<docker, rules>>,
                           sets' \subseteq Bins, chains' \subseteq Bins, drops' \subseteq Bins
                    PROVE  KernelInv'
BY DEF KernelInv, Exists

LEMMA SameSaved == ASSUME SavedInv, saved' = saved PROVE SavedInv'
BY DEF SavedInv

LEMMA SameWanted == ASSUME docker' = docker, op'.conf = op.conf PROVE Wanted(op.conf)' = Wanted(op.conf)
BY DEF Wanted, Exists

\* A command that leaves the rules alone and is done.
LEMMA RulesStay ==
    ASSUME OpInv, op.todo # <<>>, SetupProgress, Going("setup"), op' = Rest,
           UNCHANGED <<docker, rules>>,
           Head(op.todo).c \notin {"hook", "delete", "parent", "list"}
    PROVE  WantedComing' /\ OldGoing' /\ BeforeStays'
<1>1. Left = {Head(op.todo)} \cup Left' /\ op'.conf = op.conf /\ op'.before = op.before
  BY NextCmd, RestStep
<1>2. Wanted(op.conf)' = Wanted(op.conf) /\ OwnHooks' = OwnHooks
  BY <1>1, SameWanted DEF OwnHooks
<1>3. \A r : Head(op.todo) \notin {Cmd("hook", r), Cmd("delete", r),
                                   At("parent", r.bin, r.parent), At("list", r.bin, r.parent)}
  BY DEF Cmd, At
<1> QED
  BY <1>1, <1>2, <1>3 DEF SetupProgress, WantedComing, OldGoing, BeforeStays

LEMMA CreateSetKeeps == ASSUME HooksInv, CreateSet PROVE HooksInv'
<1>1. /\ OpInv /\ op.todo # <<>> /\ Head(op.todo).c = "create" /\ op' = Rest
      /\ sets' = sets \cup {Cur.bin} /\ UNCHANGED <<chains, drops, docker, rules, saved>>
  BY DEF HooksInv, CreateSet, Is
<1>2. /\ Cur.bin \in Bins /\ op.kind = "setup"
      /\ OpInv' /\ Left = {Head(op.todo)} \cup Left'
      /\ op'.kind = op.kind /\ op'.fault = op.fault /\ op'.err = op.err
  BY <1>1, NextCmd, RestStep, KindOf DEF Rules
<1>3. KernelInv' /\ SavedInv'
  BY <1>1, <1>2, SameKernel, SameSaved DEF HooksInv, KernelInv
<1>4. ASSUME Going("setup") PROVE ChainComing'
  <2>1. ChainComing
    BY <1>4 DEF HooksInv, SetupProgress
  <2>2. \A b \in Bins : /\ On("create", b) = Head(op.todo) => Cur.bin = b
                        /\ Head(op.todo) \notin {On("chain", b), On("drop", b)}
    BY <1>1 DEF On, Cmd, Rule, Cur
  <2> QED
    BY <1>1, <1>2, <2>1, <2>2 DEF ChainComing
<1>5. ASSUME Going("setup") PROVE WantedComing' /\ OldGoing' /\ BeforeStays'
  BY <1>1, <1>5, RulesStay DEF HooksInv
<1>6. SetupProgress'
  BY <1>2, <1>4, <1>5 DEF SetupProgress, Going
<1>7. RemoveProgress'
  BY <1>2 DEF RemoveProgress, Going
<1> QED
  BY <1>2, <1>3, <1>6, <1>7 DEF HooksInv

LEMMA NewChainKeeps == ASSUME HooksInv, NewChain PROVE HooksInv'
<1>1. /\ OpInv /\ op.todo # <<>> /\ Head(op.todo).c = "chain" /\ op' = Rest
      /\ chains' = chains \cup {Cur.bin} /\ UNCHANGED <<sets, drops, docker, rules, saved>>
  BY DEF HooksInv, NewChain, Is
<1>2. /\ Cur.bin \in Bins /\ op.kind = "setup"
      /\ OpInv' /\ Left = {Head(op.todo)} \cup Left'
      /\ op'.kind = op.kind /\ op'.fault = op.fault /\ op'.err = op.err
  BY <1>1, NextCmd, RestStep, KindOf DEF Rules
<1>3. KernelInv' /\ SavedInv'
  BY <1>1, <1>2, SameKernel, SameSaved DEF HooksInv, KernelInv
<1>4. ASSUME Going("setup") PROVE ChainComing'
  <2>1. ChainComing
    BY <1>4 DEF HooksInv, SetupProgress
  <2>2. \A b \in Bins : /\ On("chain", b) = Head(op.todo) => Cur.bin = b
                        /\ Head(op.todo) \notin {On("create", b), On("drop", b)}
    BY <1>1 DEF On, Cmd, Rule, Cur
  <2> QED
    BY <1>1, <1>2, <2>1, <2>2 DEF ChainComing
<1>5. ASSUME Going("setup") PROVE WantedComing' /\ OldGoing' /\ BeforeStays'
  BY <1>1, <1>5, RulesStay DEF HooksInv
<1>6. SetupProgress'
  BY <1>2, <1>4, <1>5 DEF SetupProgress, Going
<1>7. RemoveProgress'
  BY <1>2 DEF RemoveProgress, Going
<1> QED
  BY <1>2, <1>3, <1>6, <1>7 DEF HooksInv

LEMMA EnsureSetDropKeeps == ASSUME HooksInv, EnsureSetDrop PROVE HooksInv'
<1>1. /\ OpInv /\ op.todo # <<>> /\ Head(op.todo).c = "drop"
      /\ UNCHANGED <<sets, chains, docker, rules, saved>>
      /\ \/ drops' = drops \cup {Cur.bin} /\ op' = Rest
         \/ drops' = drops /\ op' = Abort
  BY DEF HooksInv, EnsureSetDrop, Is
<1>2. Cur.bin \in Bins /\ op.kind = "setup"
  BY <1>1, NextCmd, KindOf DEF Rules
<1>3. KernelInv' /\ SavedInv'
  BY <1>1, <1>2, SameKernel, SameSaved DEF HooksInv, KernelInv
<1>4. CASE op' = Abort
  BY <1>1, <1>2, <1>3, <1>4, AbortStep DEF HooksInv, SetupProgress, RemoveProgress, Going
<1>5. CASE drops' = drops \cup {Cur.bin} /\ op' = Rest
  <2>1. /\ OpInv' /\ Left = {Head(op.todo)} \cup Left'
        /\ op'.kind = op.kind /\ op'.fault = op.fault /\ op'.err = op.err
    BY <1>1, <1>5, NextCmd, RestStep
  <2>2. ASSUME Going("setup") PROVE ChainComing'
    <3>1. ChainComing
      BY <2>2 DEF HooksInv, SetupProgress
    <3>2. \A b \in Bins : /\ On("drop", b) = Head(op.todo) => Cur.bin = b
                          /\ Head(op.todo) \notin {On("create", b), On("chain", b)}
      BY <1>1 DEF On, Cmd, Rule, Cur
    <3> QED
      BY <1>1, <1>5, <2>1, <3>1, <3>2 DEF ChainComing
  <2>3. ASSUME Going("setup") PROVE WantedComing' /\ OldGoing' /\ BeforeStays'
    BY <1>1, <1>5, <2>3, RulesStay DEF HooksInv
  <2>4. SetupProgress'
    BY <2>1, <2>2, <2>3 DEF SetupProgress, Going
  <2>5. RemoveProgress'
    BY <1>2, <2>1 DEF RemoveProgress, Going
  <2> QED
    BY <1>3, <2>1, <2>4, <2>5 DEF HooksInv
<1> QED
  BY <1>1, <1>4, <1>5

LEMMA CheckParentKeeps == ASSUME HooksInv, CheckParent PROVE HooksInv'
<1> DEFINE new == [i \in 1 .. Len(op.conf.ports) |-> Cmd("hook", Rule(Cur.bin, Cur.parent, op.conf.ports[i]))]
<1>1. /\ OpInv /\ op.todo # <<>> /\ Head(op.todo).c = "parent"
      /\ UNCHANGED <<sets, chains, drops, docker, rules, saved>>
      /\ \/ Exists(Cur.bin, Cur.parent) /\ op' = Before(new)
         \/ ~Exists(Cur.bin, Cur.parent) /\ op' = Rest
         \/ op' = Abort
  BY DEF HooksInv, CheckParent, Is, kernelVars
<1>2. /\ Cur.bin \in Bins /\ op.kind = "setup" /\ op.conf \in Confs
      /\ Cur.parent \in Range(Hooks(op.conf.mode)) /\ Stage(Head(op.todo)) = 4
      /\ Left = {Head(op.todo)} \cup Range(Tail(op.todo))
  BY <1>1, NextCmd, KindOf, StageOf DEF Rules, GoodCmd, OpInv, Ops, Cur
<1>3. KernelInv' /\ SavedInv'
  BY <1>1, SameKernel, SameSaved DEF HooksInv, KernelInv
<1>w. /\ \A r \in Wanted(op.conf) : r \in Rules /\ r.own /\ WantedHook(op.conf, r) /\ Exists(r.bin, r.parent)
      /\ \A r \in Rules : r.own /\ WantedHook(op.conf, r) /\ Exists(r.bin, r.parent) => r \in Wanted(op.conf)
  BY <1>2, WantedFacts
<1>4. CASE op' = Abort
  BY <1>1, <1>2, <1>3, <1>4, AbortStep DEF HooksInv, SetupProgress, RemoveProgress, Going
<1>5. ASSUME NEW more, Left' = more \cup Range(Tail(op.todo)), OpInv',
             op'.kind = op.kind, op'.conf = op.conf, op'.before = op.before,
             op'.fault = op.fault, op'.err = op.err,
             \A r \in Wanted(op.conf) : At("parent", r.bin, r.parent) = Head(op.todo) => Cmd("hook", r) \in more,
             \A x \in more : Stage(x) = 4
      PROVE  HooksInv'
  <2>1. Wanted(op.conf)' = Wanted(op.conf) /\ OwnHooks' = OwnHooks
    BY <1>1, <1>5, SameWanted DEF OwnHooks
  <2>2. \A r : Head(op.todo) \notin {Cmd("hook", r), Cmd("delete", r), At("list", r.bin, r.parent)}
    BY <1>1 DEF Cmd, At
  <2>3. \A b : Head(op.todo) \notin {On("create", b), On("chain", b), On("drop", b)}
    BY <1>1 DEF On, Cmd
  <2>4. ASSUME Going("setup") PROVE ChainComing' /\ WantedComing' /\ OldGoing' /\ BeforeStays'
    <3>1. ChainComing /\ WantedComing /\ OldGoing /\ BeforeStays
      BY <2>4 DEF HooksInv, SetupProgress
    <3>2. ChainComing'
      BY <1>1, <1>2, <1>5, <2>3, <3>1 DEF ChainComing
    <3>3. WantedComing'
      BY <1>1, <1>2, <1>5, <2>1, <2>2, <3>1 DEF WantedComing
    <3>4. OldGoing'
      BY <1>2, <1>5, <2>1, <2>2, <3>1 DEF OldGoing
    <3>5. op.before \subseteq rules
      BY <1>2, <3>1 DEF BeforeStays
    <3>6. BeforeStays'
      BY <1>1, <1>5, <3>5 DEF BeforeStays
    <3> QED
      BY <3>2, <3>3, <3>4, <3>6
  <2>5. SetupProgress'
    BY <1>5, <2>4 DEF SetupProgress, Going
  <2>6. RemoveProgress'
    BY <1>2, <1>5 DEF RemoveProgress, Going
  <2> QED
    BY <1>3, <1>5, <2>5, <2>6 DEF HooksInv
<1>6. CASE ~Exists(Cur.bin, Cur.parent) /\ op' = Rest
  <2>1. \A r \in Wanted(op.conf) : At("parent", r.bin, r.parent) # Head(op.todo)
    BY <1>6, <1>w DEF Cur, At, Cmd, Rule
  <2> DEFINE none == Range(<<>>)
  <2>2. /\ Left' = none \cup Range(Tail(op.todo)) /\ OpInv'
        /\ op'.kind = op.kind /\ op'.conf = op.conf /\ op'.before = op.before
        /\ op'.fault = op.fault /\ op'.err = op.err
    BY <1>1, <1>6, RestStep, EmptyLeft
  <2>3. \A x \in none : Stage(x) = 4
    BY EmptyLeft
  <2> HIDE DEF none
  <2> QED
    BY <1>5, <2>1, <2>2, <2>3
<1>7. CASE Exists(Cur.bin, Cur.parent) /\ op' = Before(new)
  <2>1. op.conf.ports \in Seq(Ports) /\ Range(op.conf.ports) = {op.conf.ports[i] : i \in 1 .. Len(op.conf.ports)}
    BY <1>2, ConfFacts, RangeEquality
  <2>2. ASSUME NEW i \in 1 .. Len(op.conf.ports)
        PROVE  /\ Rule(Cur.bin, Cur.parent, op.conf.ports[i]) \in Wanted(op.conf)
               /\ Rule(Cur.bin, Cur.parent, op.conf.ports[i]) \in Rules
    <3> DEFINE r == Rule(Cur.bin, Cur.parent, op.conf.ports[i])
    <3>1. op.conf.ports[i] \in Ports /\ op.conf.ports[i] \in Range(op.conf.ports)
      BY <2>1
    <3>2. Cur.parent \in {"INPUT", "DOCKER-USER"}
      BY <1>2, ConfFacts
    <3>3. /\ r \in Rules /\ r.own /\ r.bin = Cur.bin /\ r.parent = Cur.parent
          /\ r.port = op.conf.ports[i]
      BY <1>2, <3>1, <3>2 DEF Rule, Rules
    <3> QED
      BY <1>2, <1>7, <1>w, <3>1, <3>3 DEF WantedHook
  <2>3. /\ new \in Seq(Cmds) /\ Len(new) = Len(op.conf.ports)
        /\ \A i \in 1 .. Len(new) : new[i] = Cmd("hook", Rule(Cur.bin, Cur.parent, op.conf.ports[i]))
    <3>1. \A i \in 1 .. Len(op.conf.ports) : Cmd("hook", Rule(Cur.bin, Cur.parent, op.conf.ports[i])) \in Cmds
      BY <2>2 DEF Cmd, Cmds, Names
    <3> QED
      BY <2>1, <3>1
  <2>4. Range(new) = {new[i] : i \in 1 .. Len(new)}
    BY <2>3, RangeEquality
  <2> HIDE DEF new
  <2>5. \A x \in Range(new) : x.c = "hook" /\ x.rule \in Wanted(op.conf)
    <3>1. ASSUME NEW i \in 1 .. Len(new) PROVE new[i].c = "hook" /\ new[i].rule \in Wanted(op.conf)
      <4>1. i \in 1 .. Len(op.conf.ports)
        BY <2>3
      <4>2. new[i] = Cmd("hook", Rule(Cur.bin, Cur.parent, op.conf.ports[i]))
        BY <2>3
      <4>3. \A r : Cmd("hook", r).c = "hook" /\ Cmd("hook", r).rule = r
        BY DEF Cmd
      <4> QED
        BY <2>2, <4>1, <4>2, <4>3
    <3> QED
      BY <2>4, <3>1
  <2>6. \A x \in Range(new) : Stage(x) = 4 /\ GoodCmd(x)
    BY <1>2, <2>5, StageOf DEF GoodCmd, NamesOf
  <2>7. ASSUME NEW r \in Wanted(op.conf), At("parent", r.bin, r.parent) = Head(op.todo)
        PROVE  Cmd("hook", r) \in Range(new)
    <3>1. r.bin = Cur.bin /\ r.parent = Cur.parent
      BY <2>7 DEF Cur, At, Cmd, Rule
    <3>2. r \in Rules /\ r.own /\ r.port \in Range(op.conf.ports)
      BY <1>w DEF WantedHook
    <3>3. PICK i \in 1 .. Len(new) : r.port = op.conf.ports[i]
      BY <3>2, <2>1, <2>3
    <3>4. r = Rule(Cur.bin, Cur.parent, op.conf.ports[i])
      BY <3>1, <3>2, <3>3 DEF Rule, Rules
    <3> QED
      BY <2>3, <2>4, <3>4
  <2>8. Piece(new, Stage(Head(op.todo)))
    BY <1>2, <2>3, <2>6 DEF Piece
  <2>9. op' = [op EXCEPT !.todo = new \o Tail(op.todo)]
    BY <1>7 DEF Before
  <2> QED
    BY <1>1, <1>5, <2>6, <2>7, <2>8, <2>9, TodoStep
<1> QED
  BY <1>1, <1>4, <1>6, <1>7

LEMMA EnsureHookKeeps == ASSUME HooksInv, EnsureHook PROVE HooksInv'
<1>1. /\ OpInv /\ op.todo # <<>> /\ Head(op.todo).c = "hook" /\ op' = Rest
      /\ rules' = rules \cup Hooked(Cur) /\ UNCHANGED <<sets, chains, drops, docker, saved>>
  BY DEF HooksInv, EnsureHook, Is
<1>2. /\ Cur.bin \in Bins /\ op.kind = "setup" /\ op.conf \in Confs
      /\ Cur \in Wanted(op.conf) /\ Stage(Head(op.todo)) = 4
      /\ OpInv' /\ Left = {Head(op.todo)} \cup Left'
      /\ op'.kind = op.kind /\ op'.fault = op.fault /\ op'.err = op.err
      /\ op'.conf = op.conf /\ op'.before = op.before
  BY <1>1, NextCmd, KindOf, RestStep, StageOf DEF Rules, GoodCmd, OpInv, Ops, Cur
<1>3. Cur \in Rules /\ Cur.own /\ Exists(Cur.bin, Cur.parent) /\ Cur.parent \in Range(hookParents)
  <2>1. Cur \in Rules /\ Cur.own /\ Exists(Cur.bin, Cur.parent) /\ WantedHook(op.conf, Cur)
    BY <1>2, WantedFacts
  <2> QED
    BY <2>1, <1>2, ConfFacts, HookParents DEF WantedHook
<1>4. rules' \in {rules, rules \cup {Cur}}
  BY <1>1 DEF Hooked
<1>5. KernelInv'
  <2>1. IsFiniteSet(rules')
    BY <1>4, FS_AddElement DEF HooksInv, KernelInv
  <2> QED
    BY <1>1, <1>3, <1>4, <2>1 DEF HooksInv, KernelInv, Exists
<1>6. Wanted(op.conf)' = Wanted(op.conf)
  BY <1>1, <1>2, SameWanted
<1>7. \A r : /\ Head(op.todo) \notin {Cmd("delete", r), At("list", r.bin, r.parent), At("parent", r.bin, r.parent)}
             /\ Head(op.todo) = Cmd("hook", r) => r = Cur
  BY <1>1 DEF Cmd, At, Cur
<1>8. \A b : Head(op.todo) \notin {On("create", b), On("chain", b), On("drop", b)}
  BY <1>1 DEF On, Cmd
<1>9. ASSUME Going("setup") PROVE ChainComing' /\ WantedComing' /\ OldGoing' /\ BeforeStays'
  <2>1. ChainComing /\ WantedComing /\ OldGoing /\ BeforeStays
    BY <1>9 DEF HooksInv, SetupProgress
  <2>2. ChainComing'
    BY <1>1, <1>2, <1>8, <2>1 DEF ChainComing
  <2>3. Cur.bin \in chains
    <3>1. On("chain", Cur.bin) \notin Left
      <4>1. Stage(On("chain", Cur.bin)) = 2
        BY StageOf DEF On, Cmd
      <4> QED
        BY <4>1, <1>1, <1>2, NextCmd
    <3> QED
      BY <1>2, <2>1, <3>1 DEF ChainComing
  <2>4. rules' = rules \cup {Cur}
    BY <1>1, <2>3 DEF Hooked
  <2>5. WantedComing'
    BY <1>2, <1>6, <1>7, <2>1, <2>4 DEF WantedComing
  <2>6. OldGoing'
    BY <1>2, <1>6, <1>7, <2>1, <2>4 DEF OldGoing, OwnHooks
  <2>7. BeforeStays'
    BY <1>2, <2>1, <2>4 DEF BeforeStays
  <2> QED
    BY <2>2, <2>5, <2>6, <2>7
<1>10. SetupProgress'
  BY <1>2, <1>9 DEF SetupProgress, Going
<1>11. RemoveProgress'
  BY <1>2 DEF RemoveProgress, Going
<1> QED
  BY <1>1, <1>2, <1>5, <1>10, <1>11, SameSaved DEF HooksInv

-----------------------------------------------------------------------------
(* Listing and deleting, in both calls.                                    *)

LEMMA ListHooksKeeps == ASSUME HooksInv, ListHooks PROVE HooksInv'
<1> DEFINE gone == {r \in rules : /\ r.bin = Cur.bin /\ r.parent = Cur.parent
                                  /\ op.kind = "setup" => ~KeepHook(op.conf, r)}
           new == [i \in 1 .. Cardinality(gone) |-> Cmd("delete", SetToSeq(gone)[i])]
<1>1. /\ OpInv /\ op.todo # <<>> /\ Head(op.todo).c = "list" /\ op' = Before(new)
      /\ UNCHANGED <<sets, chains, drops, docker, rules, saved>>
  BY DEF HooksInv, ListHooks, Is, kernelVars
<1>2. /\ op.kind \in {"setup", "remove"} /\ op.conf \in Confs /\ Stage(Head(op.todo)) = 5
      /\ Left = {Head(op.todo)} \cup Range(Tail(op.todo))
      /\ \A x \in Left : 5 <= Stage(x)
  BY <1>1, NextCmd, KindOf, StageOf DEF OpInv, Ops
<1>3. KernelInv' /\ SavedInv'
  BY <1>1, SameKernel, SameSaved DEF HooksInv, KernelInv
<1>4. gone \subseteq Rules /\ IsFiniteSet(gone)
  BY FS_Subset DEF HooksInv, KernelInv
<1>5. /\ Cardinality(gone) \in Nat /\ SetToSeq(gone) \in [1 .. Cardinality(gone) -> gone]
      /\ \A r \in gone : \E i \in 1 .. Cardinality(gone) : SetToSeq(gone)[i] = r
  BY <1>4, SetToSeqRange
<1>g. \A r : r \in gone <=> /\ r \in rules /\ r.bin = Cur.bin /\ r.parent = Cur.parent
                            /\ op.kind = "setup" => ~KeepHook(op.conf, r)
  OBVIOUS
<1> HIDE DEF gone
<1>6. /\ new \in Seq(Cmds) /\ Len(new) = Cardinality(gone)
      /\ \A i \in 1 .. Len(new) : new[i] = Cmd("delete", SetToSeq(gone)[i])
  <2>1. \A i \in 1 .. Cardinality(gone) : Cmd("delete", SetToSeq(gone)[i]) \in Cmds
    BY <1>4, <1>5 DEF Cmd, Cmds, Names
  <2> QED
    BY <1>5, <2>1
<1>7. Range(new) = {new[i] : i \in 1 .. Len(new)}
  BY <1>6, RangeEquality
<1> HIDE DEF new
<1>8. \A r : Cmd("delete", r).c = "delete" /\ Cmd("delete", r).rule = r
  BY DEF Cmd
<1>9. \A x \in Range(new) : x.c = "delete" /\ x.rule \in gone
  <2>1. ASSUME NEW i \in 1 .. Len(new) PROVE new[i].c = "delete" /\ new[i].rule \in gone
    BY <1>5, <1>6, <1>8
  <2> QED
    BY <1>7, <2>1
<1>10. \A r \in gone : Cmd("delete", r) \in Range(new)
  BY <1>5, <1>6, <1>7
<1>11. \A x \in Range(new) : Stage(x) = 5 /\ GoodCmd(x)
  BY <1>2, <1>9, <1>g, StageOf DEF GoodCmd, NamesOf
<1>12. /\ OpInv' /\ Left' = Range(new) \cup Range(Tail(op.todo))
       /\ op'.kind = op.kind /\ op'.conf = op.conf /\ op'.before = op.before
       /\ op'.fault = op.fault /\ op'.err = op.err
  <2>1. Piece(new, Stage(Head(op.todo)))
    BY <1>2, <1>6, <1>11 DEF Piece
  <2>2. op' = [op EXCEPT !.todo = new \o Tail(op.todo)]
    BY <1>1 DEF Before
  <2> QED
    BY <1>1, <1>11, <2>1, <2>2, TodoStep
<1>13. \A r : /\ Head(op.todo) \notin {Cmd("hook", r), Cmd("delete", r), At("parent", r.bin, r.parent)}
              /\ At("list", r.bin, r.parent) = Head(op.todo) => r.bin = Cur.bin /\ r.parent = Cur.parent
  BY <1>1 DEF Cmd, At, Cur, Rule
<1>14. \A b : Head(op.todo) \notin {On("create", b), On("chain", b), On("drop", b),
                                    On("flush", b), On("delchain", b), On("destroy", b)}
  BY <1>1 DEF On, Cmd
<1>15. ASSUME Going("setup") PROVE ChainComing' /\ WantedComing' /\ OldGoing' /\ BeforeStays'
  <2>1. ChainComing /\ WantedComing /\ OldGoing /\ BeforeStays /\ op.kind = "setup"
    BY <1>15 DEF HooksInv, SetupProgress, Going
  <2>2. Wanted(op.conf)' = Wanted(op.conf) /\ OwnHooks' = OwnHooks
    BY <1>1, <1>12, SameWanted DEF OwnHooks
  <2>3. ChainComing'
    BY <1>1, <1>2, <1>12, <1>14, <2>1 DEF ChainComing
  <2>4. WantedComing'
    BY <1>1, <1>2, <1>12, <1>13, <2>1, <2>2 DEF WantedComing
  <2>5. ASSUME NEW r \in OwnHooks, r \notin Wanted(op.conf), At("list", r.bin, r.parent) = Head(op.todo)
        PROVE  r \in gone
    <3>1. r \in Rules /\ r \in rules /\ r.own /\ Exists(r.bin, r.parent)
      BY DEF OwnHooks, HooksInv, KernelInv
    <3>2. ~KeepHook(op.conf, r)
      BY <1>2, <2>5, <3>1, WantedFacts DEF KeepHook
    <3> QED
      BY <1>13, <1>g, <2>5, <3>1, <3>2
  <2>6. OldGoing'
    BY <1>2, <1>10, <1>12, <1>13, <2>1, <2>2, <2>5 DEF OldGoing
  <2>7. \A x \in Left' : ~(Stage(x) < 5)
    BY <1>2, <1>11, <1>12 DEF Stage
  <2>8. BeforeStays'
    BY <2>7 DEF BeforeStays
  <2> QED
    BY <2>3, <2>4, <2>6, <2>8
<1>16. SetupProgress'
  BY <1>12, <1>15 DEF SetupProgress, Going
<1>17. ASSUME Going("remove") PROVE SetsGoing' /\ ChainsGoing' /\ JumpsGoing'
  <2>1. SetsGoing /\ ChainsGoing /\ JumpsGoing /\ op.kind = "remove"
    BY <1>17 DEF HooksInv, RemoveProgress, Going
  <2>2. SetsGoing'
    BY <1>1, <1>2, <1>12, <1>14, <2>1 DEF SetsGoing
  <2>3. \A b \in chains : On("delchain", b) \in Left'
    <3>1. Head(op.todo) \in Left /\ ~(Stage(Head(op.todo)) > 5)
      BY <1>2
    <3> QED
      BY <1>2, <1>12, <1>14, <2>1, <3>1 DEF ChainsGoing
  <2>4. ChainsGoing'
    BY <1>1, <2>3 DEF ChainsGoing
  <2>5. \A r \in rules : At("list", r.bin, r.parent) = Head(op.todo) => r \in gone
    BY <1>13, <1>g, <2>1
  <2>6. JumpsGoing'
    BY <1>1, <1>2, <1>10, <1>12, <1>13, <2>1, <2>5 DEF JumpsGoing
  <2> QED
    BY <2>2, <2>4, <2>6
<1>18. RemoveProgress'
  BY <1>12, <1>17 DEF RemoveProgress, Going
<1> QED
  BY <1>3, <1>12, <1>16, <1>18 DEF HooksInv

LEMMA DeleteRuleKeeps == ASSUME HooksInv, DeleteRule PROVE HooksInv'
<1>1. /\ OpInv /\ op.todo # <<>> /\ Head(op.todo).c = "delete" /\ op' = Rest
      /\ rules' = rules \ {Cur} /\ UNCHANGED <<sets, chains, drops, docker, saved>>
  BY DEF HooksInv, DeleteRule, Is
<1>2. /\ op.kind \in {"setup", "remove"} /\ op.conf \in Confs /\ Stage(Head(op.todo)) = 5
      /\ op.kind = "setup" => ~KeepHook(op.conf, Cur)
      /\ OpInv' /\ Left = {Head(op.todo)} \cup Left'
      /\ op'.kind = op.kind /\ op'.conf = op.conf /\ op'.before = op.before
      /\ op'.fault = op.fault /\ op'.err = op.err
      /\ \A x \in Left : 5 <= Stage(x)
  BY <1>1, NextCmd, KindOf, RestStep, StageOf DEF GoodCmd, OpInv, Ops, Cur
<1>3. KernelInv' /\ SavedInv'
  <2>1. IsFiniteSet(rules')
    BY <1>1, FS_RemoveElement DEF HooksInv, KernelInv
  <2> QED
    BY <1>1, <2>1, SameSaved DEF HooksInv, KernelInv, Exists
<1>4. \A r : /\ Head(op.todo) \notin {Cmd("hook", r), At("parent", r.bin, r.parent), At("list", r.bin, r.parent)}
             /\ Head(op.todo) = Cmd("delete", r) => r = Cur
  BY <1>1 DEF Cmd, At, Cur
<1>5. \A b : Head(op.todo) \notin {On("create", b), On("chain", b), On("drop", b),
                                   On("flush", b), On("delchain", b), On("destroy", b)}
  BY <1>1 DEF On, Cmd
<1>6. ASSUME Going("setup") PROVE ChainComing' /\ WantedComing' /\ OldGoing' /\ BeforeStays'
  <2>1. ChainComing /\ WantedComing /\ OldGoing /\ op.kind = "setup"
    BY <1>6 DEF HooksInv, SetupProgress, Going
  <2>2. Wanted(op.conf)' = Wanted(op.conf)
    BY <1>1, <1>2, SameWanted
  <2>3. Cur \notin Wanted(op.conf)
    BY <1>2, <2>1, WantedFacts DEF KeepHook
  <2>4. ChainComing'
    BY <1>1, <1>2, <1>5, <2>1 DEF ChainComing
  <2>5. WantedComing'
    BY <1>1, <1>2, <1>4, <2>1, <2>2, <2>3 DEF WantedComing
  <2>6. OldGoing'
    BY <1>1, <1>2, <1>4, <2>1, <2>2 DEF OldGoing, OwnHooks
  <2>7. \A x \in Left' : ~(Stage(x) < 5)
    BY <1>2 DEF Stage
  <2>8. BeforeStays'
    BY <2>7 DEF BeforeStays
  <2> QED
    BY <2>4, <2>5, <2>6, <2>8
<1>7. SetupProgress'
  BY <1>2, <1>6 DEF SetupProgress, Going
<1>8. ASSUME Going("remove") PROVE SetsGoing' /\ ChainsGoing' /\ JumpsGoing'
  <2>1. SetsGoing /\ ChainsGoing /\ JumpsGoing
    BY <1>8 DEF HooksInv, RemoveProgress
  <2>2. SetsGoing'
    BY <1>1, <1>2, <1>5, <2>1 DEF SetsGoing
  <2>3. \A b \in chains : On("delchain", b) \in Left'
    <3>1. Head(op.todo) \in Left /\ ~(Stage(Head(op.todo)) > 5)
      BY <1>2
    <3> QED
      BY <1>2, <1>5, <2>1, <3>1 DEF ChainsGoing
  <2>4. ChainsGoing'
    BY <1>1, <2>3 DEF ChainsGoing
  <2>5. JumpsGoing'
    BY <1>1, <1>2, <1>4, <2>1 DEF JumpsGoing
  <2> QED
    BY <2>2, <2>4, <2>5
<1>9. RemoveProgress'
  BY <1>2, <1>8 DEF RemoveProgress, Going
<1> QED
  BY <1>2, <1>3, <1>7, <1>9 DEF HooksInv

-----------------------------------------------------------------------------
(* Remove, command by command.                                             *)

LEMMA FlushChainKeeps == ASSUME HooksInv, FlushChain PROVE HooksInv'
<1>1. /\ OpInv /\ op.todo # <<>> /\ Head(op.todo).c = "flush" /\ op' = Rest
      /\ drops' = drops \ {Cur.bin} /\ UNCHANGED <<sets, chains, docker, rules, saved>>
  BY DEF HooksInv, FlushChain, Is
<1>2. /\ op.kind = "remove" /\ OpInv' /\ Left = {Head(op.todo)} \cup Left'
      /\ op'.kind = op.kind /\ op'.fault = op.fault /\ op'.err = op.err
  BY <1>1, NextCmd, RestStep, KindOf
<1>3. KernelInv' /\ SavedInv'
  BY <1>1, SameKernel, SameSaved DEF HooksInv, KernelInv
<1>4. \A b : /\ Head(op.todo) \notin {On("delchain", b), On("destroy", b)}
             /\ On("flush", b) = Head(op.todo) => Cur.bin = b
  BY <1>1 DEF On, Cmd, Rule, Cur
<1>5. \A r : Head(op.todo) \notin {Cmd("delete", r), At("list", r.bin, r.parent)}
  BY <1>1 DEF Cmd, At
<1>6. ASSUME Going("remove") PROVE SetsGoing' /\ ChainsGoing' /\ JumpsGoing'
  BY <1>1, <1>2, <1>4, <1>5, <1>6 DEF HooksInv, RemoveProgress, SetsGoing, ChainsGoing, JumpsGoing
<1>7. SetupProgress' /\ RemoveProgress'
  BY <1>2, <1>6 DEF SetupProgress, RemoveProgress, Going
<1> QED
  BY <1>2, <1>3, <1>7 DEF HooksInv

LEMMA DeleteChainKeeps == ASSUME HooksInv, DeleteChain PROVE HooksInv'
<1>1. /\ OpInv /\ op.todo # <<>> /\ Head(op.todo).c = "delchain" /\ op' = Rest
      /\ chains' = (IF Cur.bin \in drops \/ \E r \in rules : r.bin = Cur.bin THEN chains ELSE chains \ {Cur.bin})
      /\ UNCHANGED <<sets, drops, docker, rules, saved>>
  BY DEF HooksInv, DeleteChain, Is
<1>2. /\ op.kind = "remove" /\ OpInv' /\ Left = {Head(op.todo)} \cup Left'
      /\ op'.kind = op.kind /\ op'.fault = op.fault /\ op'.err = op.err
      /\ Stage(Head(op.todo)) = 7 /\ \A x \in Left : 7 <= Stage(x)
  BY <1>1, NextCmd, RestStep, KindOf, StageOf
<1>3. KernelInv' /\ SavedInv'
  <2>1. chains' \subseteq Bins
    BY <1>1 DEF HooksInv, KernelInv
  <2> QED
    BY <1>1, <2>1, SameKernel, SameSaved DEF HooksInv, KernelInv
<1>4. \A b : /\ Head(op.todo) \notin {On("flush", b), On("destroy", b)}
             /\ On("delchain", b) = Head(op.todo) => Cur.bin = b
  BY <1>1 DEF On, Cmd, Rule, Cur
<1>5. \A r : Head(op.todo) \notin {Cmd("delete", r), At("list", r.bin, r.parent)}
  BY <1>1 DEF Cmd, At
<1>6. ASSUME Going("remove") PROVE SetsGoing' /\ ChainsGoing' /\ JumpsGoing'
  <2>1. SetsGoing /\ ChainsGoing /\ JumpsGoing
    BY <1>6 DEF HooksInv, RemoveProgress
  <2>2. Cur.bin \notin drops
    <3>1. \A b : On("flush", b) \notin Left
      <4>1. \A b : Stage(On("flush", b)) = 6
        BY StageOf DEF On, Cmd
      <4> QED
        BY <1>2, <4>1
    <3> QED
      BY <2>1, <3>1 DEF SetsGoing
  <2>3. \A x \in Left' : Stage(x) > 5
    <3>1. \A x \in Left' : 7 <= Stage(x) /\ Stage(x) \in Nat
      BY <1>2 DEF Stage
    <3> QED
      BY <3>1
  <2>4. ASSUME NEW b \in chains', On("delchain", b) \notin Left'
        PROVE  \E r \in rules : r.bin = b
    <3>1. CASE On("delchain", b) \in Left
      <4>1. b = Cur.bin
        BY <1>2, <1>4, <2>4, <3>1
      <4> QED
        BY <1>1, <2>2, <2>4, <4>1
    <3>2. CASE On("delchain", b) \notin Left
      <4>1. b \in chains
        BY <1>1, <2>4
      <4> QED
        BY <2>1, <3>2, <4>1 DEF ChainsGoing
    <3> QED
      BY <3>1, <3>2
  <2>5. ChainsGoing'
    BY <1>1, <2>3, <2>4 DEF ChainsGoing
  <2>6. SetsGoing' /\ JumpsGoing'
    BY <1>1, <1>2, <1>4, <1>5, <2>1 DEF SetsGoing, JumpsGoing
  <2> QED
    BY <2>5, <2>6
<1>7. SetupProgress' /\ RemoveProgress'
  BY <1>2, <1>6 DEF SetupProgress, RemoveProgress, Going
<1> QED
  BY <1>2, <1>3, <1>7 DEF HooksInv

LEMMA DestroySetKeeps == ASSUME HooksInv, DestroySet PROVE HooksInv'
<1>1. /\ OpInv /\ op.todo # <<>> /\ Head(op.todo).c = "destroy" /\ op' = Rest
      /\ sets' = (IF Cur.bin \in drops THEN sets ELSE sets \ {Cur.bin})
      /\ UNCHANGED <<chains, drops, docker, rules, saved>>
  BY DEF HooksInv, DestroySet, Is
<1>2. /\ op.kind = "remove" /\ OpInv' /\ Left = {Head(op.todo)} \cup Left'
      /\ op'.kind = op.kind /\ op'.fault = op.fault /\ op'.err = op.err
      /\ Stage(Head(op.todo)) = 8 /\ \A x \in Left : 8 <= Stage(x)
  BY <1>1, NextCmd, RestStep, KindOf, StageOf
<1>3. KernelInv' /\ SavedInv'
  <2>1. sets' \subseteq Bins
    BY <1>1 DEF HooksInv, KernelInv
  <2> QED
    BY <1>1, <2>1, SameKernel, SameSaved DEF HooksInv, KernelInv
<1>4. \A b : /\ Head(op.todo) \notin {On("flush", b), On("delchain", b)}
             /\ On("destroy", b) = Head(op.todo) => Cur.bin = b
  BY <1>1 DEF On, Cmd, Rule, Cur
<1>5. \A r : Head(op.todo) \notin {Cmd("delete", r), At("list", r.bin, r.parent)}
  BY <1>1 DEF Cmd, At
<1>6. ASSUME Going("remove") PROVE SetsGoing' /\ ChainsGoing' /\ JumpsGoing'
  <2>1. SetsGoing /\ ChainsGoing /\ JumpsGoing
    BY <1>6 DEF HooksInv, RemoveProgress
  <2>2. Cur.bin \notin drops
    <3>1. \A b : On("flush", b) \notin Left
      <4>1. \A b : Stage(On("flush", b)) = 6
        BY StageOf DEF On, Cmd
      <4> QED
        BY <1>2, <4>1
    <3> QED
      BY <2>1, <3>1 DEF SetsGoing
  <2>3. SetsGoing'
    BY <1>1, <1>2, <1>4, <2>1, <2>2 DEF SetsGoing
  <2>4. ChainsGoing' /\ JumpsGoing'
    BY <1>1, <1>2, <1>4, <1>5, <2>1 DEF ChainsGoing, JumpsGoing
  <2> QED
    BY <2>3, <2>4
<1>7. SetupProgress' /\ RemoveProgress'
  BY <1>2, <1>6 DEF SetupProgress, RemoveProgress, Going
<1> QED
  BY <1>2, <1>3, <1>7 DEF HooksInv

-----------------------------------------------------------------------------
(* Save and restore, faults, and what happens between two calls.           *)

LEMMA SaveRulesKeeps == ASSUME HooksInv, SaveRules PROVE HooksInv'
<1>1. /\ OpInv /\ op.todo # <<>> /\ Head(op.todo).c = "save" /\ op' = Rest
      /\ saved' = [saved EXCEPT ![Cur.bin] =
                      [kind |-> "whole", chain |-> Cur.bin \in chains, drop |-> Cur.bin \in drops,
                       docker |-> Cur.bin \in docker, rules |-> {r \in rules : r.bin = Cur.bin}]]
      /\ UNCHANGED <<sets, chains, drops, docker, rules>>
  BY DEF HooksInv, SaveRules, Is, kernelVars
<1>2. /\ op.kind = "save" /\ OpInv' /\ op'.kind = op.kind
  BY <1>1, NextCmd, RestStep, KindOf
<1>3. KernelInv'
  BY <1>1, SameKernel DEF HooksInv, KernelInv
<1>4. [kind |-> "whole", chain |-> Cur.bin \in chains, drop |-> Cur.bin \in drops,
       docker |-> Cur.bin \in docker, rules |-> {r \in rules : r.bin = Cur.bin}] \in Files(Cur.bin)
  <2> DEFINE rs == {r \in rules : r.bin = Cur.bin}
             c == Cur.bin \in chains
             d == Cur.bin \in drops
             k == Cur.bin \in docker
             file == [kind |-> "whole", chain |-> c, drop |-> d, docker |-> k, rules |-> rs]
  <2>1. IsFiniteSet(rs) /\ rs \subseteq Rules
    BY FS_Subset DEF HooksInv, KernelInv
  <2>2. \A r \in rs : /\ r.bin = Cur.bin /\ (r.parent = "DOCKER-USER" => k)
                      /\ r.own => r.parent \in Range(hookParents)
    BY DEF HooksInv, KernelInv, Exists
  <2>3. c \in BOOLEAN /\ d \in BOOLEAN /\ k \in BOOLEAN
    OBVIOUS
  <2> HIDE DEF rs, c, d, k
  <2>4. file \in [kind : {"none", "torn", "whole"}, chain : BOOLEAN, drop : BOOLEAN, docker : BOOLEAN,
                 rules : SUBSET Rules]
    BY <2>1, <2>3
  <2>5. file.rules = rs /\ file.docker = k
    OBVIOUS
  <2> HIDE DEF file
  <2>6. file \in Files(Cur.bin)
    BY <2>1, <2>2, <2>4, <2>5 DEF Files
  <2> QED
    BY <2>6 DEF file, rs, c, d, k
<1>5. SavedInv'
  BY <1>1, <1>4 DEF HooksInv, SavedInv
<1> QED
  BY <1>2, <1>3, <1>5 DEF HooksInv, SetupProgress, RemoveProgress, Going

LEMMA RestoreRulesKeeps == ASSUME HooksInv, RestoreRules PROVE HooksInv'
<1> DEFINE f == saved[Cur.bin]
<1>1. OpInv /\ op.todo # <<>> /\ Head(op.todo).c = "restore" /\ saved' = saved
  BY DEF HooksInv, RestoreRules, Is
<1>2. op.kind = "restore" /\ Cur.bin \in Bins /\ SavedInv'
  BY <1>1, NextCmd, KindOf, SameSaved DEF HooksInv, Rules
<1>3. CASE op' = Abort /\ UNCHANGED kernelVars
  <2>1. KernelInv'
    BY <1>3, SameKernel DEF HooksInv, KernelInv, kernelVars
  <2>2. OpInv' /\ op'.kind = "restore"
    BY <1>1, <1>2, <1>3, AbortStep
  <2> QED
    BY <1>2, <2>1, <2>2 DEF HooksInv, SetupProgress, RemoveProgress, Going
<1>4. CASE op' = Rest /\ (UNCHANGED kernelVars \/
                          /\ chains' = With(chains, Cur.bin, f.chain)
                          /\ drops' = With(drops, Cur.bin, f.drop)
                          /\ docker' = With(docker, Cur.bin, f.docker)
                          /\ rules' = {r \in rules : r.bin # Cur.bin} \cup f.rules
                          /\ UNCHANGED sets)
  <2>1. OpInv' /\ op'.kind = "restore"
    BY <1>1, <1>2, <1>4, RestStep
  <2>2. CASE UNCHANGED kernelVars
    <3>1. KernelInv'
      BY <2>2, SameKernel DEF HooksInv, KernelInv, kernelVars
    <3> QED
      BY <1>2, <2>1, <3>1 DEF HooksInv, SetupProgress, RemoveProgress, Going
  <2>3. CASE /\ chains' = With(chains, Cur.bin, f.chain)
             /\ drops' = With(drops, Cur.bin, f.drop)
             /\ docker' = With(docker, Cur.bin, f.docker)
             /\ rules' = {r \in rules : r.bin # Cur.bin} \cup f.rules
             /\ UNCHANGED sets
    <3>1. f \in Files(Cur.bin)
      BY <1>2 DEF HooksInv, SavedInv
    <3>2. f.rules \subseteq Rules /\ IsFiniteSet(f.rules)
          /\ \A r \in f.rules : /\ r.bin = Cur.bin /\ (r.parent = "DOCKER-USER" => f.docker)
                                /\ r.own => r.parent \in Range(hookParents)
      BY <3>1 DEF Files
    <3> HIDE DEF f
    <3>3. IsFiniteSet({r \in rules : r.bin # Cur.bin})
      BY FS_Subset DEF HooksInv, KernelInv
    <3>4. rules' \subseteq Rules /\ IsFiniteSet(rules')
      BY <2>3, <3>2, <3>3, FS_Union DEF HooksInv, KernelInv
    <3>5. \A r \in rules' : Exists(r.bin, r.parent)' /\ (r.own => r.parent \in Range(hookParents))
      BY <2>3, <3>2 DEF HooksInv, KernelInv, Exists, With
    <3>6. chains' \subseteq Bins /\ drops' \subseteq Bins /\ docker' \subseteq Bins /\ sets' \subseteq Bins
      BY <1>2, <2>3 DEF HooksInv, KernelInv, With
    <3>7. KernelInv'
      BY <3>4, <3>5, <3>6 DEF KernelInv, Exists
    <3> QED
      BY <1>2, <2>1, <3>7 DEF HooksInv, SetupProgress, RemoveProgress, Going
  <2> QED
    BY <1>4, <2>2, <2>3
<1> QED
  BY <1>3, <1>4 DEF RestoreRules, kernelVars

LEMMA FailsKeeps == ASSUME HooksInv, Fails PROVE HooksInv'
<1>1. /\ OpInv /\ op.todo # <<>> /\ UNCHANGED <<sets, chains, drops, docker, rules, saved>>
      /\ op' \in {[Abort EXCEPT !.fault = TRUE], [Rest EXCEPT !.fault = TRUE]}
  BY DEF HooksInv, Fails, kernelVars
<1>2. KernelInv' /\ SavedInv'
  BY <1>1, SameKernel, SameSaved DEF HooksInv, KernelInv
<1>3. OpInv' /\ (op'.err \/ op'.fault)
  BY <1>1, AbortStep, SkipStep
<1> QED
  BY <1>2, <1>3 DEF HooksInv, SetupProgress, RemoveProgress, Going

LEMMA KillKeeps == ASSUME HooksInv, Kill PROVE HooksInv'
<1>1. /\ OpInv /\ op.todo # <<>> /\ UNCHANGED <<sets, chains, drops, docker, rules>>
      /\ op' = [Abort EXCEPT !.fault = TRUE]
      /\ \/ saved' = saved
         \/ saved' = [saved EXCEPT ![Cur.bin] = [NoFile EXCEPT !.kind = "torn"]]
  BY DEF HooksInv, Kill, kernelVars
<1>2. KernelInv'
  BY <1>1, SameKernel DEF HooksInv, KernelInv
<1>3. OpInv' /\ op'.err
  BY <1>1, AbortStep
<1>4. \A b \in Bins : [NoFile EXCEPT !.kind = "torn"] \in Files(b)
  BY FS_EmptySet DEF NoFile, Files
<1>5. SavedInv'
  BY <1>1, <1>4 DEF HooksInv, SavedInv
<1> QED
  BY <1>2, <1>3, <1>5 DEF HooksInv, SetupProgress, RemoveProgress, Going

LEMMA IdleStep ==
    ASSUME OpInv, op.todo = <<>>, op' = Idle
    PROVE  OpInv' /\ SetupProgress' /\ RemoveProgress'
<1>1. op' \in Ops /\ op'.todo = <<>> /\ op'.kind = "none"
  BY DEF Idle, OpInv, Ops, Kinds
<1> QED
  BY <1>1, EmptyLeft DEF OpInv, Left, SetupProgress, RemoveProgress, Going

LEMMA DockerChangesKeeps == ASSUME HooksInv, DockerChanges PROVE HooksInv'
<1>1. OpInv' /\ SetupProgress' /\ RemoveProgress'
  BY IdleStep DEF HooksInv, DockerChanges
<1>2. SavedInv'
  BY SameSaved DEF HooksInv, DockerChanges
<1>3. PICK b \in Bins :
          \/ docker' = docker \cup {b} /\ rules' = rules
          \/ docker' = docker \ {b} /\ rules' = {r \in rules : r.bin # b \/ r.parent # "DOCKER-USER"}
  BY DEF DockerChanges
<1>4. IsFiniteSet(rules') /\ rules' \subseteq rules
  BY <1>3, FS_Subset DEF HooksInv, KernelInv
<1>5. KernelInv'
  BY <1>3, <1>4 DEF HooksInv, KernelInv, DockerChanges, Exists
<1> QED
  BY <1>1, <1>2, <1>5 DEF HooksInv

LEMMA AdminAddsKeeps == ASSUME HooksInv, NEW r \in Foreign, AdminAdds(r) PROVE HooksInv'
<1>1. OpInv' /\ SetupProgress' /\ RemoveProgress'
  BY IdleStep DEF HooksInv, AdminAdds
<1>2. SavedInv'
  BY SameSaved DEF HooksInv, AdminAdds
<1>3. r \in Rules /\ ~r.own
  BY ParameterAssumption DEF Rules, Bins
<1>4. IsFiniteSet(rules')
  BY FS_AddElement DEF HooksInv, KernelInv, AdminAdds
<1>5. KernelInv'
  BY <1>3, <1>4 DEF HooksInv, KernelInv, AdminAdds, Exists
<1> QED
  BY <1>1, <1>2, <1>5 DEF HooksInv

\* What the commands of a call are, for each kind of call.
LEMMA CommandsFacts ==
    ASSUME NEW conf \in Confs, NEW kind \in {"setup", "remove", "save", "restore"}
    PROVE  LET s == Commands(kind, conf)
           IN  /\ s \in Seq(Cmds) /\ Ordered(s)
               /\ \A x \in Range(s) : /\ x.c \in NamesOf(kind) /\ x.c # "hook"
                                      /\ kind = "setup" => x.c # "delete"
                                      /\ x.c = "parent" => x.rule.parent \in Range(Hooks(conf.mode))
<1>1. CASE kind = "setup" /\ Hooks(conf.mode) = <<>>
  BY <1>1, EmptyLeft DEF Commands
<1>2. CASE kind = "setup" /\ Hooks(conf.mode) # <<>>
  <2>1. Commands(kind, conf) = SetupCmds(conf)
    BY <1>2 DEF Commands
  <2>2. /\ SetupCmds(conf) \in Seq(Cmds) /\ Ordered(SetupCmds(conf))
        /\ \A x \in Range(SetupCmds(conf)) : /\ x.c \in {"create", "chain", "drop", "parent", "list"}
                                             /\ x.c = "parent" => x.rule.parent \in Range(Hooks(conf.mode))
    BY SetupFacts
  <2>3. NamesOf(kind) = {"create", "chain", "drop", "parent", "hook", "list", "delete"}
    BY <1>2 DEF NamesOf
  <2> QED
    BY <2>1, <2>2, <2>3
<1>3. CASE kind = "remove"
  <2>1. Commands(kind, conf) = RemoveCmds(conf)
    BY <1>3 DEF Commands
  <2> QED
    BY <1>3, <2>1, RemoveFacts DEF NamesOf
<1>4. CASE kind \in {"save", "restore"}
  <2>1. Commands(kind, conf) = Both(kind) /\ kind \in Names
    BY <1>4 DEF Commands, Names
  <2>2. \A x : x.c = kind => Stage(x) = 9
    BY <1>4, StageOf
  <2>3. Piece(Both(kind), 9) /\ \A x \in Range(Both(kind)) : x.c = kind
    BY <2>1, <2>2, BothStage
  <2>4. Both(kind) \in Seq(Cmds) /\ Ordered(Both(kind))
    BY <2>3, PieceOrdered DEF Piece
  <2> QED
    BY <1>4, <2>1, <2>3, <2>4 DEF NamesOf
<1> QED
  BY <1>1, <1>2, <1>3, <1>4

LEMMA CallKeeps ==
    ASSUME HooksInv, NEW kind \in {"setup", "remove", "save", "restore"}, NEW conf \in Confs, Call(kind, conf)
    PROVE  HooksInv'
<1> DEFINE s == Commands(kind, conf)
           e == kind = "setup" /\ Hooks(conf.mode) = <<>>
<1>1. /\ op' = [kind |-> kind, conf |-> conf, todo |-> s, fault |-> FALSE, err |-> e, before |-> OwnHooks]
      /\ UNCHANGED <<sets, chains, drops, docker, rules, saved>>
  BY DEF Call, kernelVars
<1>2. /\ s \in Seq(Cmds) /\ Ordered(s)
      /\ \A x \in Range(s) : /\ x.c \in NamesOf(kind) /\ x.c # "hook"
                             /\ kind = "setup" => x.c # "delete"
                             /\ x.c = "parent" => x.rule.parent \in Range(Hooks(conf.mode))
  BY CommandsFacts
<1>3. OwnHooks \subseteq OwnRules /\ OwnHooks \subseteq rules
  BY DEF OwnHooks, OwnRules, HooksInv, KernelInv
<1>e. e \in BOOLEAN /\ (~e /\ kind = "setup" => Hooks(conf.mode) # <<>>)
  OBVIOUS
<1>4. KernelInv' /\ SavedInv'
  BY <1>1, SameKernel, SameSaved DEF HooksInv, KernelInv
<1> HIDE DEF s, e
<1>5. /\ op'.kind = kind /\ op'.conf = conf /\ op'.todo = s /\ op'.fault = FALSE /\ op'.err = e
      /\ op'.before = OwnHooks /\ Left' = Range(s)
  BY <1>1 DEF Left
<1>6. op' \in Ops
  BY <1>1, <1>2, <1>3, <1>e DEF Ops, Kinds
<1>7. OpInv'
  BY <1>2, <1>5, <1>6 DEF OpInv, GoodCmd
<1>8. ASSUME kind = "setup", ~e PROVE ChainComing' /\ WantedComing' /\ OldGoing' /\ BeforeStays'
  <2>1. s = SetupCmds(conf)
    BY <1>8, <1>e DEF s, Commands
  <2>2. /\ \A b \in Bins : {On("create", b), On("chain", b), On("drop", b)} \subseteq Left'
        /\ \A b \in Bins, p \in Range(Hooks(conf.mode)) : At("parent", b, p) \in Left'
        /\ \A b \in Bins, p \in Range(hookParents) : At("list", b, p) \in Left'
    BY <1>5, <2>1, SetupFacts
  <2>3. ChainComing'
    BY <2>2 DEF ChainComing
  <2>4. ASSUME NEW r \in Wanted(op.conf)' PROVE At("parent", r.bin, r.parent) \in Left'
    <3>1. r \in Wanted(conf)
      BY <1>1, <1>5, <2>4 DEF Wanted, Exists
    <3>2. r \in Rules /\ r.parent \in Range(Hooks(conf.mode))
      BY <3>1, WantedFacts DEF WantedHook
    <3> QED
      BY <2>2, <3>2 DEF Rules
  <2>5. WantedComing'
    BY <2>4 DEF WantedComing
  <2>6. \A r \in OwnHooks' : r.bin \in Bins /\ r.parent \in Range(hookParents)
    BY <1>1 DEF OwnHooks, HooksInv, KernelInv, Rules
  <2>7. OldGoing'
    BY <2>2, <2>6 DEF OldGoing
  <2>8. BeforeStays'
    BY <1>1, <1>3, <1>5 DEF BeforeStays
  <2> QED
    BY <2>3, <2>5, <2>7, <2>8
<1>9. SetupProgress'
  BY <1>5, <1>8 DEF SetupProgress, Going
<1>10. ASSUME kind = "remove" PROVE SetsGoing' /\ ChainsGoing' /\ JumpsGoing'
  <2>1. s = RemoveCmds(conf)
    BY <1>10 DEF s, Commands
  <2>2. /\ \A b \in Bins : {On("flush", b), On("delchain", b), On("destroy", b)} \subseteq Left'
        /\ \A b \in Bins, p \in Range(hookParents) : At("list", b, p) \in Left'
    BY <1>5, <2>1, RemoveFacts
  <2>3. sets' \subseteq Bins /\ chains' \subseteq Bins /\ drops' \subseteq Bins /\ \A r \in rules' : r.bin \in Bins
    BY <1>4 DEF KernelInv, Rules
  <2> QED
    BY <2>2, <2>3 DEF SetsGoing, ChainsGoing, JumpsGoing
<1>11. RemoveProgress'
  BY <1>5, <1>10 DEF RemoveProgress, Going
<1> QED
  BY <1>4, <1>7, <1>9, <1>11 DEF HooksInv

-----------------------------------------------------------------------------
(* The invariant holds in every state.                                     *)

LEMMA InitHooks == Init => HooksInv
<1> SUFFICES ASSUME Init PROVE HooksInv
  OBVIOUS
<1>1. PICK conf \in Confs : op = [kind |-> "none", conf |-> conf, todo |-> <<>>, fault |-> FALSE,
                                  err |-> FALSE, before |-> {}]
  BY DEF Init
<1>2. op \in Ops /\ op.todo = <<>> /\ op.kind = "none"
  BY <1>1 DEF Ops, Kinds
<1>3. OpInv /\ SetupProgress /\ RemoveProgress
  BY <1>2, EmptyLeft DEF OpInv, Left, SetupProgress, RemoveProgress, Going
<1>4. KernelInv
  BY FS_EmptySet DEF Init, KernelInv
<1>5. \A b \in Bins : NoFile \in Files(b)
  BY FS_EmptySet DEF NoFile, Files
<1>6. SavedInv
  BY <1>5 DEF Init, SavedInv
<1> QED
  BY <1>3, <1>4, <1>6 DEF HooksInv

LEMMA StutterKeeps == ASSUME HooksInv, UNCHANGED vars PROVE HooksInv'
BY DEF HooksInv, vars, kernelVars, KernelInv, Exists, SavedInv, OpInv, Left, GoodCmd, KeepHook, WantedHook, Wanted,
       SetupProgress, RemoveProgress, Going, ChainComing, WantedComing, OldGoing, OwnHooks, BeforeStays,
       SetsGoing, ChainsGoing, JumpsGoing

LEMMA HooksInductive == HooksInv /\ [Next]_vars => HooksInv'
<1> SUFFICES ASSUME HooksInv, [Next]_vars PROVE HooksInv'
  OBVIOUS
<1>1. CASE \E kind \in {"setup", "remove", "save", "restore"}, conf \in Confs : Call(kind, conf)
  BY <1>1, CallKeeps
<1>2. CASE CreateSet \/ NewChain \/ EnsureSetDrop \/ CheckParent \/ EnsureHook
  BY <1>2, CreateSetKeeps, NewChainKeeps, EnsureSetDropKeeps, CheckParentKeeps, EnsureHookKeeps
<1>3. CASE ListHooks \/ DeleteRule \/ FlushChain \/ DeleteChain \/ DestroySet
  BY <1>3, ListHooksKeeps, DeleteRuleKeeps, FlushChainKeeps, DeleteChainKeeps, DestroySetKeeps
<1>4. CASE SaveRules \/ RestoreRules
  BY <1>4, SaveRulesKeeps, RestoreRulesKeeps
<1>5. CASE Fails \/ Kill \/ DockerChanges
  BY <1>5, FailsKeeps, KillKeeps, DockerChangesKeeps
<1>6. CASE \E r \in Foreign : AdminAdds(r)
  BY <1>6, AdminAddsKeeps
<1>7. CASE UNCHANGED vars
  BY <1>7, StutterKeeps
<1> QED
  BY <1>1, <1>2, <1>3, <1>4, <1>5, <1>6, <1>7 DEF Next, Command

LEMMA HooksAlways == Spec => []HooksInv
BY InitHooks, HooksInductive, PTL DEF Spec

\* Every variable keeps its type: rules are rules of the two tables, a saved
\* file holds rules of its own table only, and what a call remembers of the
\* hooks before it are hooks it may have made.
THEOREM TypeCorrect == Spec => []TypeOK
<1>1. HooksInv => TypeOK
  <2> SUFFICES ASSUME HooksInv PROVE TypeOK
    OBVIOUS
  <2>1. {sets, chains, drops, docker} \subseteq SUBSET Bins
    BY DEF HooksInv, KernelInv
  <2>2. \A b \in Bins : saved[b].kind \in {"none", "torn", "whole"} /\ \A r \in saved[b].rules : r.bin = b
    BY DEF HooksInv, SavedInv, Files
  <2>3. op.conf \in Confs /\ op.before \subseteq OwnRules
    BY DEF HooksInv, OpInv, Ops
  <2>4. OwnRules \subseteq [bin : Bins, parent : Range(hookParents), port : Ports, own : {TRUE}]
    BY DEF OwnRules, Rules
  <2> QED
    BY <2>1, <2>2, <2>3, <2>4 DEF TypeOK, HooksInv, KernelInv, Rules
<1> QED
  BY <1>1, HooksAlways, PTL

-----------------------------------------------------------------------------
(* The properties.                                                         *)

LEMMA NothingLeft == ASSUME op.todo = <<>> PROVE Left = {}
BY EmptyLeft DEF Left

\* A Setup in which no command failed leaves exactly the hooks its configuration
\* wants, the sets and a chain that drops, whatever the calls, configurations,
\* failures and kills before it left behind.
THEOREM SetupLeavesItsHooks == Spec => []SetupEstablishes
<1>1. HooksInv => SetupEstablishes
  <2> SUFFICES ASSUME HooksInv, Ended("setup")
               PROVE  OwnHooks = Wanted(op.conf) /\ sets = Bins /\ chains = Bins /\ drops = Bins
    BY DEF SetupEstablishes
  <2>1. Left = {} /\ ChainComing /\ WantedComing /\ OldGoing
    BY NothingLeft DEF HooksInv, SetupProgress, Ended, Going
  <2>2. sets = Bins /\ chains = Bins /\ drops = Bins
    BY <2>1 DEF ChainComing, HooksInv, KernelInv
  <2>3. OwnHooks \subseteq Wanted(op.conf)
    BY <2>1 DEF OldGoing
  <2>4. \A r \in Wanted(op.conf) : r.own
    BY WantedFacts DEF HooksInv, OpInv, Ops
  <2>5. Wanted(op.conf) \subseteq OwnHooks
    BY <2>1, <2>4 DEF WantedComing, OwnHooks
  <2> QED
    BY <2>2, <2>3, <2>5
<1> QED
  BY <1>1, HooksAlways, PTL

\* While Setup changes the hooks and no command has failed, all the hooks there
\* were before it, or all those it wants, are in place.
THEOREM ChangeLeavesNoGap == Spec => []NoGapOnChange
<1>1. HooksInv => NoGapOnChange
  <2> SUFFICES ASSUME HooksInv, Going("setup")
               PROVE  op.before \subseteq rules \/ Wanted(op.conf) \subseteq rules
    BY DEF NoGapOnChange, Going
  <2>1. WantedComing /\ BeforeStays
    BY DEF HooksInv, SetupProgress
  <2>2. CASE \E x \in Left : Stage(x) < 5
    BY <2>1, <2>2 DEF BeforeStays
  <2>3. CASE ~\E x \in Left : Stage(x) < 5
    <3>1. \A r : Stage(Cmd("hook", r)) = 4 /\ Stage(At("parent", r.bin, r.parent)) = 4
      BY StageOf DEF Cmd, At
    <3> QED
      BY <2>1, <2>3, <3>1 DEF WantedComing
  <2> QED
    BY <2>2, <2>3
<1> QED
  BY <1>1, HooksAlways, PTL

\* A Remove in which no command failed leaves no set, no dropping chain and no
\* jump from INPUT or DOCKER-USER, whoever put it there and for whatever port.
THEOREM RemoveLeavesNoTrace == Spec => []RemoveLeavesNothing
<1>1. HooksInv => RemoveLeavesNothing
  BY NothingLeft DEF HooksInv, RemoveProgress, Ended, Going, SetsGoing, ChainsGoing, JumpsGoing, RemoveLeavesNothing
<1> QED
  BY <1>1, HooksAlways, PTL

\* Setup removes no rule of the administrator and no hook it wants, also when
\* commands fail or it is killed.
THEOREM SetupSparesForeign == Spec => ForeignKept
<1> DEFINE Kept == op.kind = "setup" /\ op.todo # <<>> =>
                       \A r \in rules \ rules' : r.own /\ r \notin Wanted(op.conf)
<1>1. HooksInv /\ [Next]_vars => Kept
  <2> SUFFICES ASSUME HooksInv, [Next]_vars, op.kind = "setup", op.todo # <<>>,
                      NEW r \in rules, r \notin rules'
               PROVE  r.own /\ r \notin Wanted(op.conf)
    OBVIOUS
  <2>1. ~Is("restore")
    BY KindOf DEF HooksInv, Is
  <2>2. DeleteRule
    BY <2>1 DEF Next, vars, kernelVars, Call, Command, CreateSet, NewChain, EnsureSetDrop, CheckParent, EnsureHook,
            ListHooks, FlushChain, DeleteChain, DestroySet, SaveRules, RestoreRules, Fails, Kill,
            DockerChanges, AdminAdds
  <2>3. Head(op.todo).c = "delete" /\ r = Cur
    BY <2>2 DEF DeleteRule, Is
  <2>4. ~KeepHook(op.conf, r)
    BY <2>3, NextCmd DEF HooksInv, GoodCmd, Cur
  <2> QED
    BY <2>4, WantedFacts DEF KeepHook, HooksInv, OpInv, Ops
<1>2. HooksInv /\ [Next]_vars => [Kept]_vars
  BY <1>1
<1> QED
  BY <1>2, HooksAlways, PTL DEF Spec, ForeignKept
=============================================================================
