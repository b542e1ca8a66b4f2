----------------------------- MODULE QueueProofs -----------------------------
(***************************************************************************)
(* Proofs about the two bounded queues of the daemon, the notifications of   *)
(* NotifyQueue and the clients of GeoQueue, for any callers, goroutines,     *)
(* sizes and intervals.  The queues share no state; no step below speaks of   *)
(* both.                                                                     *)
(***************************************************************************)
EXTENDS NotifyQueue, GeoQueue, FiniteSetTheorems, SequenceTheorems, TLAPS

-----------------------------------------------------------------------------
(* NotifyQueue: one inductive invariant carries all of its theorems.  Who    *)
(* holds the read lock is about to act on flags that cannot have changed      *)
(* since.                                                                    *)

\* A call holds n.mu.RLock from its decision to the end of the call; a decision
\* to send stands on a running notifier, one to send inline on a CLI process.
LockedDecision ==
    \A j \in Jobs :
        /\ call[j] \in {"send", "refuse", "inline"} <=> j \in readers
        /\ call[j] = "send" => running
        /\ call[j] # "panic"
        /\ call[j] \in {"inline", "ran"} => main = "cli"

\* The flags follow the life of the process.
FlagsFollowMain ==
    /\ main \in {"boot", "cli"} => ~running /\ ~stopped /\ ~closed
    /\ main = "boot" => readers = {}
    /\ main = "up" => running /\ ~closed
    /\ main \in {"draining", "drained", "timeout", "exit"} => ~running /\ stopped /\ closed

\* The worker ends with nothing left to do, and only then the queue is drained.
WorkerDone ==
    /\ worker = "done" => inHand = <<>> /\ queue = <<>> /\ closed
    /\ main = "drained" => worker = "done"

NotifyInv == NotifyTypeOK /\ LockedDecision /\ FlagsFollowMain /\ WorkerDone /\ FifoNoLoss

\* The first states satisfy the invariant.
LEMMA NotifyInitInv == NotifyInit => NotifyInv
<1> SUFFICES ASSUME NotifyInit PROVE NotifyInv
  OBVIOUS
<1> USE SizeAssumption DEF NotifyInit
<1>1. NotifyTypeOK
  <2>1. <<>> \in Seq(Jobs) /\ Len(<<>>) = 0 /\ 0 <= Size
    BY EmptySeq
  <2>2. call \in [Jobs -> {"none", "send", "refuse", "inline", "queued", "dropped", "ran", "panic"}]
    OBVIOUS
  <2>3. queue \in Seq(Jobs) /\ Len(queue) <= Size
    BY <2>1
  <2>4. inHand \in Seq(Jobs) /\ Len(inHand) <= 1
    BY <2>1
  <2> QED
    BY <2>1, <2>2, <2>3, <2>4 DEF NotifyTypeOK
<1>2. LockedDecision /\ FlagsFollowMain /\ WorkerDone
  BY DEF LockedDecision, FlagsFollowMain, WorkerDone
<1>3. FifoNoLoss
  <2>1. <<>> \in Seq(Jobs)
    BY EmptySeq
  <2>2. <<>> \o <<>> = <<>>
    BY <2>1, ConcatEmptySeq
  <2> QED
    BY <2>2 DEF FifoNoLoss
<1> QED
  BY <1>1, <1>2, <1>3 DEF NotifyInv

\* The head of the queue moves into the worker's hand.
LEMMA MoveHead ==
    ASSUME NEW S, NEW d \in Seq(S), NEW q \in Seq(S), q # <<>>
    PROVE  d \o <<>> \o q = d \o <<Head(q)>> \o Tail(q)
<1>1. /\ Head(q) \in S /\ Tail(q) \in Seq(S) /\ <<Head(q)>> \in Seq(S)
  BY HeadTailProperties
<1>2. q = <<Head(q)>> \o Tail(q)
  BY <1>1
<1>3. d \o <<>> = d
  BY ConcatEmptySeq
<1>4. d \o (<<Head(q)>> \o Tail(q)) = (d \o <<Head(q)>>) \o Tail(q)
  BY <1>1, ConcatAssociative
<1> QED
  BY <1>2, <1>3, <1>4

\* What is queued joins the end of everything.
LEMMA AppendLast ==
    ASSUME NEW d \in Seq(Jobs), NEW h \in Seq(Jobs), NEW q \in Seq(Jobs), NEW j \in Jobs
    PROVE  Append(d \o h \o q, j) = d \o h \o Append(q, j)
<1>1. ASSUME NEW a \in Seq(Jobs) PROVE Append(a \o q, j) = a \o Append(q, j)
  <2>1. a \o q \in Seq(Jobs) /\ <<j>> \in Seq(Jobs)
    BY ConcatProperties
  <2>2. Append(a \o q, j) = (a \o q) \o <<j>> /\ Append(q, j) = q \o <<j>>
    BY <2>1, AppendIsConcat
  <2>3. (a \o q) \o <<j>> = a \o (q \o <<j>>)
    BY <2>1, ConcatAssociative
  <2> QED
    BY <2>2, <2>3
<1>2. d \o h \in Seq(Jobs)
  BY ConcatProperties
<1> QED
  BY <1>1, <1>2

\* The invariant is inductive: one step per action.
LEMMA NotifyNextInv == NotifyInv /\ [NotifyNext]_notifyVars => NotifyInv'
<1> SUFFICES ASSUME NotifyInv, [NotifyNext]_notifyVars PROVE NotifyInv'
  OBVIOUS
<1> USE SizeAssumption DEF NotifyInv, state
<1> USE DEF LockedDecision, FlagsFollowMain, WorkerDone
<1>1. ASSUME NEW j \in Jobs, EnqueueLock(j) PROVE NotifyInv'
  <2>1. NotifyTypeOK'
    BY <1>1 DEF EnqueueLock, NotifyTypeOK
  <2>2. FifoNoLoss'
    BY <1>1 DEF EnqueueLock, FifoNoLoss
  <2>3. LockedDecision' /\ FlagsFollowMain' /\ WorkerDone'
    BY <1>1 DEF EnqueueLock, NotifyTypeOK
  <2> QED
    BY <2>1, <2>2, <2>3
<1>2. ASSUME NEW j \in Jobs, EnqueueSend(j) PROVE NotifyInv'
  <2>1. ~closed
    BY <1>2 DEF EnqueueSend, NotifyTypeOK
  <2>2. CASE Len(queue) < Size
    <3>1. /\ queue' = Append(queue, j) /\ accepted' = Append(accepted, j)
          /\ call' = [call EXCEPT ![j] = "queued"] /\ readers' = readers \ {j}
          /\ UNCHANGED <<main, running, stopped, closed, worker, inHand, delivered>>
      BY <1>2, <2>1, <2>2 DEF EnqueueSend, NotifyTypeOK
    <3>2. /\ Append(queue, j) \in Seq(Jobs) /\ Len(Append(queue, j)) = Len(queue) + 1
          /\ Append(accepted, j) \in Seq(Jobs)
      BY AppendProperties DEF NotifyTypeOK
    <3>3. NotifyTypeOK'
      BY <2>2, <3>1, <3>2 DEF NotifyTypeOK
    <3>4. FifoNoLoss'
      <4>1. Append(delivered \o inHand \o queue, j) = delivered \o inHand \o Append(queue, j)
        <5>1. delivered \in Seq(Jobs) /\ inHand \in Seq(Jobs) /\ queue \in Seq(Jobs)
          BY DEF NotifyTypeOK
        <5> HIDE DEF NotifyInv, state, LockedDecision, FlagsFollowMain, WorkerDone
        <5> QED
          BY <5>1, AppendLast, Zenon
      <4> QED
        BY <3>1, <4>1 DEF FifoNoLoss
    <3>5. LockedDecision' /\ FlagsFollowMain' /\ WorkerDone'
      BY <2>1, <3>1 DEF NotifyTypeOK
    <3> QED
      BY <3>3, <3>4, <3>5
  <2>3. CASE Len(queue) >= Size
    <3>1. /\ call' = [call EXCEPT ![j] = "dropped"] /\ readers' = readers \ {j}
          /\ UNCHANGED <<main, running, stopped, closed, queue, worker, inHand, accepted, delivered>>
      BY <1>2, <2>1, <2>3 DEF EnqueueSend, NotifyTypeOK
    <3> QED
      BY <3>1 DEF NotifyTypeOK, FifoNoLoss
  <2> QED
    BY <2>2, <2>3 DEF NotifyTypeOK
<1>3. ASSUME NEW j \in Jobs, EnqueueRefuse(j) \/ EnqueueInline(j) PROVE NotifyInv'
  <2>1. CASE EnqueueRefuse(j)
    BY <2>1 DEF EnqueueRefuse, NotifyTypeOK, FifoNoLoss
  <2>2. CASE EnqueueInline(j)
    BY <2>2 DEF EnqueueInline, NotifyTypeOK, FifoNoLoss
  <2> QED
    BY <1>3, <2>1, <2>2
<1>4. CASE WorkerTake
  <2>1. /\ Head(queue) \in Jobs /\ Tail(queue) \in Seq(Jobs) /\ Len(Tail(queue)) = Len(queue) - 1
    BY <1>4, HeadTailProperties DEF WorkerTake, NotifyTypeOK
  <2>2. NotifyTypeOK'
    BY <1>4, <2>1 DEF WorkerTake, NotifyTypeOK
  <2>3. FifoNoLoss'
    <3>1. delivered \o <<>> \o queue = delivered \o <<Head(queue)>> \o Tail(queue)
      <4>1. delivered \in Seq(Jobs) /\ queue \in Seq(Jobs) /\ queue # <<>>
        BY <1>4 DEF WorkerTake, NotifyTypeOK
      <4> HIDE DEF NotifyInv, state, LockedDecision, FlagsFollowMain, WorkerDone
      <4> QED
        BY <4>1, MoveHead, Zenon
    <3> QED
      BY <1>4, <3>1 DEF WorkerTake, FifoNoLoss
  <2>4. LockedDecision' /\ FlagsFollowMain' /\ WorkerDone'
    BY <1>4 DEF WorkerTake
  <2> QED
    BY <2>2, <2>3, <2>4
<1>5. CASE WorkerFinish
  <2>1. delivered \o inHand \in Seq(Jobs)
    BY ConcatProperties DEF NotifyTypeOK
  <2>2. NotifyTypeOK'
    BY <1>5, <2>1 DEF WorkerFinish, NotifyTypeOK
  <2>3. FifoNoLoss'
    <3>1. (delivered \o inHand) \o <<>> = delivered \o inHand
      BY <2>1, ConcatEmptySeq
    <3> QED
      BY <1>5, <3>1 DEF WorkerFinish, FifoNoLoss
  <2>4. LockedDecision' /\ FlagsFollowMain' /\ WorkerDone'
    BY <1>5 DEF WorkerFinish
  <2> QED
    BY <2>2, <2>3, <2>4
<1>6. CASE WorkerEnd
  BY <1>6 DEF WorkerEnd, NotifyTypeOK, FifoNoLoss
<1>7. CASE StartNotifier
  BY <1>7 DEF StartNotifier, NotifyTypeOK, FifoNoLoss
<1>8. CASE StopNotifier
  BY <1>8 DEF StopNotifier, NotifyTypeOK, FifoNoLoss
<1>9. CASE Shutdown
  <2>1. CASE Drained
    BY <2>1 DEF Drained, NotifyTypeOK, FifoNoLoss
  <2>2. CASE DrainTimeout
    BY <2>2 DEF DrainTimeout, NotifyTypeOK, FifoNoLoss
  <2>3. CASE Exit
    BY <2>3 DEF Exit, NotifyTypeOK, FifoNoLoss
  <2> QED
    BY <1>9, <2>1, <2>2, <2>3 DEF Shutdown
<1>10. CASE UNCHANGED notifyVars
  BY <1>10 DEF notifyVars, NotifyTypeOK, FifoNoLoss
<1> QED
  BY <1>1, <1>2, <1>3, <1>4, <1>5, <1>6, <1>7, <1>8, <1>9, <1>10 DEF NotifyNext, Enqueue, Work

LEMMA NotifyInvHolds == NotifySpec => []NotifyInv
<1> QED
  BY NotifyInitInv, NotifyNextInv, PTL DEF NotifySpec

-----------------------------------------------------------------------------
(* NotifyQueue: the theorems.                                              *)

\* Every variable keeps its type; the channel never holds more than Size jobs.
THEOREM NotifyTypeCorrect == NotifySpec => []NotifyTypeOK
<1>1. NotifyInv => NotifyTypeOK
  BY DEF NotifyInv
<1> QED
  BY NotifyInvHolds, <1>1, PTL

\* No goroutine of the daemon panics in enqueueNotification, however many of
\* them race with stopNotifier.
THEOREM NeverSendsOnClosed == NotifySpec => []NoSendOnClosed
<1>1. NotifyInv => NoSendOnClosed
  BY DEF NotifyInv, LockedDecision, NoSendOnClosed
<1> QED
  BY NotifyInvHolds, <1>1, PTL

\* What enqueueNotification accepted is delivered, in the worker's hand or
\* still queued, in the order it was accepted.
THEOREM DeliversInOrder == NotifySpec => []FifoNoLoss
<1>1. NotifyInv => FifoNoLoss
  BY DEF NotifyInv
<1> QED
  BY NotifyInvHolds, <1>1, PTL

\* When stopNotifier returns true, every accepted notification was delivered.
THEOREM DrainsCompletely == NotifySpec => []CompleteDrain
<1>1. NotifyInv => CompleteDrain
  <2> SUFFICES ASSUME NotifyInv, main = "drained" PROVE delivered = accepted
    BY DEF CompleteDrain
  <2>1. inHand = <<>> /\ queue = <<>> /\ accepted = delivered \o inHand \o queue
    BY DEF NotifyInv, WorkerDone, FifoNoLoss
  <2>2. (delivered \o <<>>) \o <<>> = delivered
    BY ConcatEmptySeq DEF NotifyInv, NotifyTypeOK
  <2> QED
    BY <2>1, <2>2
<1> QED
  BY NotifyInvHolds, <1>1, PTL

\* No goroutine of the daemon sends a message itself.
THEOREM DaemonNeverInline == NotifySpec => []NeverInlineInDaemon
<1>1. NotifyInv => NeverInlineInDaemon
  BY DEF NotifyInv, LockedDecision, NeverInlineInDaemon
<1> QED
  BY NotifyInvHolds, <1>1, PTL

-----------------------------------------------------------------------------
(* GeoQueue: one run at a time.                                            *)

\* The flag, the owed goroutine and the runs, without counting.
OneRun ==
    /\ geoRunning \in BOOLEAN
    /\ poll \in {"idle", "go"}
    /\ run \in [Runs -> {"off", "loop", "feed"}]
    /\ ~geoRunning => poll = "idle"
    /\ (~geoRunning \/ poll = "go") => \A r \in Runs : run[r] = "off"
    /\ geoRunning /\ poll = "idle" =>
         \E r \in Runs : run[r] # "off" /\ \A s \in Runs : run[s] # "off" => s = r

LEMMA OneRunInductive == OneRun /\ [Next]_vars => OneRun'
<1> SUFFICES ASSUME OneRun, [Next]_vars PROVE OneRun'
  OBVIOUS
<1> USE DEF OneRun, queueVars, runVars, checkVars
<1>1. ASSUME NEW ips \in SUBSET Clients, Schedule(ips) PROVE OneRun'
  BY <1>1 DEF Schedule
<1>2. ASSUME NEW r \in Runs, Launch(r) PROVE OneRun'
  BY <1>2 DEF Launch
<1>3. ASSUME NEW r \in Runs, RunEnds(r) PROVE OneRun'
  BY <1>3 DEF RunEnds
<1>4. ASSUME NEW r \in Runs, RunTakes(r) PROVE OneRun'
  BY <1>4 DEF RunTakes
<1>5. ASSUME NEW r \in Runs, FeedCut(r) PROVE OneRun'
  BY <1>5 DEF FeedCut
<1>6. ASSUME NEW r \in Runs, BatchEnds(r) PROVE OneRun'
  BY <1>6 DEF BatchEnds
<1>7. ASSUME NEW r \in Runs, NEW ip \in Clients, Feed(r, ip) \/ Check(r, ip) PROVE OneRun'
  BY <1>7 DEF Feed, Check, CheckSkips, CheckMarks, CheckEnds
<1>8. ASSUME NEW ip \in Clients, Lift(ip) PROVE OneRun'
  BY <1>8 DEF Lift
<1>9. CASE Cancel \/ Tick \/ UNCHANGED vars
  BY <1>9 DEF Cancel, Tick, vars
<1> QED
  BY <1>1, <1>2, <1>3, <1>4, <1>5, <1>6, <1>7, <1>8, <1>9 DEF Next, Step, Runner

LEMMA OneRunIsSingle == OneRun => SingleRun
<1> SUFFICES ASSUME OneRun PROVE SingleRun
  OBVIOUS
<1> DEFINE Active == {r \in Runs : run[r] # "off"}
<1>1. CASE ~geoRunning \/ poll = "go"
  <2>1. Active = {}
    BY <1>1 DEF OneRun
  <2>2. Cardinality(Active) = 0
    BY <2>1, FS_EmptySet
  <2> QED
    BY <1>1, <2>2 DEF SingleRun, OneRun
<1>2. CASE geoRunning /\ poll = "idle"
  <2>1. PICK r \in Runs : run[r] # "off" /\ \A s \in Runs : run[s] # "off" => s = r
    BY <1>2 DEF OneRun
  <2>2. Active = {r}
    BY <2>1
  <2>3. Cardinality(Active) = 1
    BY <2>2, FS_Singleton
  <2> QED
    BY <1>2, <2>3 DEF SingleRun
<1> QED
  BY <1>1, <1>2 DEF OneRun

\* Polls and the end of a run, in any order, neither start a second run nor
\* leave queued clients without one.
THEOREM OneRunAtATime == Spec => []SingleRun
<1>1. Init => OneRun
  BY DEF Init, OneRun
<1> QED
  BY <1>1, OneRunInductive, OneRunIsSingle, PTL DEF Spec

-----------------------------------------------------------------------------
(* GeoQueue: one lookup per interval.                                      *)

\* What geoSeen knows bounds when the last lookup was, and what it no longer
\* knows is long enough ago.
Remembered ==
    /\ clock \in Nat
    /\ geoSeen \in [Clients -> Nat \cup {Never}]
    /\ lastLookup \in [Clients -> Nat \cup {Never}]
    /\ \A ip \in Clients :
         /\ geoSeen[ip] # Never => geoSeen[ip] <= clock /\ lastLookup[ip] <= geoSeen[ip]
         /\ geoSeen[ip] = Never /\ lastLookup[ip] # Never => clock - lastLookup[ip] >= Interval

\* Marking a client keeps the memory sound, pruning included.
LEMMA MarkRemembers ==
    ASSUME Remembered, NEW r \in Runs, NEW ip \in Clients, CheckMarks(r, ip)
    PROVE  Remembered'
<1> USE ParameterAssumption DEF Remembered, Never, queueVars
<1>1. clock' = clock
  BY DEF CheckMarks
<1>2. geoSeen' = [c \in Clients |-> IF c = ip \/ geoSeen[c] = Never \/ geoSeen[c] >= clock - 2 * Interval
                                    THEN IF c = ip THEN clock ELSE geoSeen[c]
                                    ELSE Never]
  <2> DEFINE f == [geoSeen EXCEPT ![ip] = clock]
  <2>1. geoSeen' = [c \in Clients |-> IF f[c] # Never /\ f[c] < clock - 2 * Interval
                                      THEN Never ELSE f[c]]
    BY DEF CheckMarks, Pruned
  <2>2. \A c \in Clients : f[c] = IF c = ip THEN clock ELSE geoSeen[c]
    OBVIOUS
  <2> QED
    BY <2>1, <2>2
<1>3. lastLookup' = lastLookup \/ lastLookup' = [lastLookup EXCEPT ![ip] = clock]
  BY DEF CheckMarks
<1>4. /\ geoSeen' \in [Clients -> Nat \cup {Never}]
      /\ lastLookup' \in [Clients -> Nat \cup {Never}]
  BY <1>2, <1>3
<1>5. ASSUME NEW c \in Clients
      PROVE  /\ geoSeen'[c] # Never => geoSeen'[c] <= clock /\ lastLookup'[c] <= geoSeen'[c]
             /\ geoSeen'[c] = Never /\ lastLookup'[c] # Never => clock - lastLookup'[c] >= Interval
  <2>1. CASE c = ip
    BY <1>2, <1>3, <2>1
  <2>2. CASE c # ip
    <3>1. lastLookup'[c] = lastLookup[c]
      BY <1>3, <2>2
    <3>2. \/ geoSeen'[c] = geoSeen[c]
          \/ geoSeen'[c] = Never /\ geoSeen[c] # Never /\ geoSeen[c] < clock - 2 * Interval
      BY <1>2, <2>2
    <3> QED
      BY <3>1, <3>2
  <2> QED
    BY <2>1, <2>2
<1> QED
  BY <1>1, <1>4, <1>5

LEMMA RememberedInductive == Remembered /\ [Next]_vars => Remembered'
<1> SUFFICES ASSUME Remembered, [Next]_vars PROVE Remembered'
  OBVIOUS
<1>1. ASSUME NEW r \in Runs, NEW ip \in Clients, CheckMarks(r, ip) PROVE Remembered'
  BY <1>1, MarkRemembers
<1>2. CASE Tick
  BY <1>2, ParameterAssumption DEF Tick, Remembered, Never, checkVars
<1>3. CASE UNCHANGED <<clock, geoSeen, lastLookup>>
  BY <1>3 DEF Remembered
<1>4. \/ \E r \in Runs, ip \in Clients : CheckMarks(r, ip)
      \/ Tick
      \/ UNCHANGED <<clock, geoSeen, lastLookup>>
  BY DEF Next, Step, Runner, Check, Schedule, Launch, RunEnds, RunTakes, FeedCut, BatchEnds,
         Feed, CheckSkips, CheckEnds, Lift, Cancel, vars, checkVars
<1> QED
  BY <1>1, <1>2, <1>3, <1>4

\* Between two lookups of a client lies the interval, whichever run and worker
\* made them and whatever was pruned in between.
THEOREM LookupsAreSpaced == Spec => SpacedLookups
<1>1. Init => Remembered
  BY DEF Init, Remembered
<1>2. Remembered /\ [Next]_vars =>
        [\A ip \in Clients :
           lastLookup'[ip] # lastLookup[ip] /\ lastLookup[ip] # Never
             => lastLookup'[ip] - lastLookup[ip] >= Interval]_vars
  <2> SUFFICES ASSUME Remembered, [Next]_vars, NEW c \in Clients,
                      lastLookup'[c] # lastLookup[c], lastLookup[c] # Never
               PROVE  lastLookup'[c] - lastLookup[c] >= Interval
    OBVIOUS
  <2>1. PICK r \in Runs, ip \in Clients : CheckMarks(r, ip)
    BY DEF Next, Step, Runner, Check, Schedule, Launch, RunEnds, RunTakes, FeedCut, BatchEnds,
           Feed, CheckSkips, CheckEnds, Lift, Cancel, Tick, vars, checkVars
  <2>2. c = ip /\ lastLookup'[c] = clock /\ Due(c, clock)
    BY <2>1 DEF CheckMarks, Remembered
  <2> QED
    BY <2>2, ParameterAssumption DEF Due, Remembered, Never
<1> QED
  BY <1>1, <1>2, RememberedInductive, PTL DEF Spec, SpacedLookups

-----------------------------------------------------------------------------
(* GeoQueue: types.                                                        *)

LEMMA LimitTypes == PendingMax \in Nat \ {0} /\ WorkerMax \in Nat \ {0}
BY ParameterAssumption

LEMMA MinOfTwo ==
    ASSUME NEW a \in Int, NEW b \in Int
    PROVE  Min({a, b}) \in {a, b} /\ Min({a, b}) <= a /\ Min({a, b}) <= b
<1>1. \E x \in {a, b} : \A y \in {a, b} : x <= y
  BY SMT
<1> QED
  BY <1>1 DEF Min

\* What a poll adds fits into the queue.
LEMMA ScheduleFits ==
    ASSUME TypeOK, NEW ips \in SUBSET Clients, Schedule(ips)
    PROVE  pending' \in SUBSET Clients /\ Cardinality(pending') <= PendingMax
<1> DEFINE new == ips \ pending
           free == PendingMax - Cardinality(pending)
<1>1. PICK kept \in SUBSET new :
         Cardinality(kept) = Min({Cardinality(new), free}) /\ pending' = pending \cup kept
  BY DEF Schedule
<1>2. IsFiniteSet(new) /\ IsFiniteSet(pending) /\ IsFiniteSet(kept)
  BY FS_Subset, ParameterAssumption, <1>1 DEF TypeOK
<1>3. Cardinality(new) \in Nat /\ Cardinality(pending) \in Nat /\ Cardinality(kept) \in Nat
  BY <1>2, FS_CardinalityType
<1>4. free \in Int
  BY <1>3, ParameterAssumption
<1> HIDE DEF new, free
<1>5. Cardinality(kept) <= free
  BY <1>1, <1>3, <1>4, MinOfTwo
<1>6. Cardinality(pending \cup kept) = Cardinality(pending) + Cardinality(kept) - Cardinality(pending \cap kept)
  BY <1>2, FS_Union
<1>7. pending \cap kept = {}
  BY DEF new
<1>8. Cardinality(pending') = Cardinality(pending) + Cardinality(kept)
  <2>1. Cardinality(pending \cap kept) = 0
    BY <1>7, FS_EmptySet
  <2> QED
    BY <1>1, <1>3, <1>6, <2>1
<1>9. Cardinality(pending') <= PendingMax
  BY <1>3, <1>5, <1>8, ParameterAssumption DEF free
<1> QED
  BY <1>1, <1>9 DEF TypeOK, new

LEMMA TypeInductive == TypeOK /\ [Next]_vars => TypeOK'
<1> SUFFICES ASSUME TypeOK, [Next]_vars PROVE TypeOK'
  OBVIOUS
<1> USE DEF TypeOK, queueVars, runVars, checkVars
<1>1. ASSUME NEW ips \in SUBSET Clients, Schedule(ips) PROVE TypeOK'
  <2>1. pending' \in SUBSET Clients /\ Cardinality(pending') <= PendingMax
    BY <1>1, ScheduleFits
  <2> QED
    BY <1>1, <2>1 DEF Schedule
<1>2. ASSUME NEW r \in Runs, Runner(r) PROVE TypeOK'
  <2>1. Cardinality({}) <= PendingMax
    BY FS_EmptySet, ParameterAssumption
  <2>2. CASE RunEnds(r)
    BY <2>1, <2>2 DEF RunEnds
  <2>3. CASE RunTakes(r)
    BY <2>1, <2>3 DEF RunTakes
  <2>4. CASE FeedCut(r)
    BY <2>4 DEF FeedCut
  <2>5. CASE BatchEnds(r)
    BY <2>5 DEF BatchEnds
  <2> QED
    BY <1>2, <2>2, <2>3, <2>4, <2>5 DEF Runner
<1>3. ASSUME NEW r \in Runs, Launch(r) PROVE TypeOK'
  BY <1>3 DEF Launch
<1>4. ASSUME NEW r \in Runs, NEW ip \in Clients, Feed(r, ip) PROVE TypeOK'
  BY <1>4 DEF Feed
<1>5. ASSUME NEW r \in Runs, NEW ip \in Clients, CheckSkips(r, ip) \/ CheckEnds(r, ip) PROVE TypeOK'
  BY <1>5 DEF CheckSkips, CheckEnds, Leave
<1>6. ASSUME NEW r \in Runs, NEW ip \in Clients, CheckMarks(r, ip) PROVE TypeOK'
  <2>1. geoSeen' \in [Clients -> Nat \cup {Never}]
    BY <1>6 DEF CheckMarks, Pruned
  <2> QED
    <3>1. checking' \in [Runs -> SUBSET Clients]
      BY <1>6 DEF CheckMarks, Leave
    <3>2. looking' \in SUBSET Clients /\ lastLookup' \in [Clients -> Nat \cup {Never}]
      BY <1>6 DEF CheckMarks
    <3> QED
      BY <1>6, <2>1, <3>1, <3>2 DEF CheckMarks
<1>7. ASSUME NEW ip \in Clients, Lift(ip) PROVE TypeOK'
  BY <1>7 DEF Lift
<1>8. CASE Tick
  <2>1. clock' \in Nat
    BY <1>8 DEF Tick
  <2> QED
    BY <1>8, <2>1 DEF Tick
<1>9. CASE Cancel \/ UNCHANGED vars
  BY <1>9 DEF Cancel, vars
<1> QED
  BY <1>1, <1>2, <1>3, <1>4, <1>5, <1>6, <1>7, <1>8, <1>9 DEF Next, Step, Check

LEMMA InitType == Init => TypeOK
<1> SUFFICES ASSUME Init PROVE TypeOK
  OBVIOUS
<1>1. Cardinality({}) <= PendingMax
  BY FS_EmptySet, LimitTypes
<1>2. pending \in SUBSET Clients /\ Cardinality(pending) <= PendingMax
  <2>1. pending = {}
    BY DEF Init
  <2> QED
    BY <1>1, <2>1, Zenon
<1>3. /\ run \in [Runs -> {"off", "loop", "feed"}]
      /\ batch \in [Runs -> SUBSET Clients]
      /\ checking \in [Runs -> SUBSET Clients]
      /\ geoSeen \in [Clients -> Nat \cup {Never}]
      /\ lastLookup \in [Clients -> Nat \cup {Never}]
  BY DEF Init
<1> QED
  BY <1>2, <1>3, Zenon DEF Init, TypeOK

\* Every variable has its type, and the queue never grows beyond its limit.
THEOREM TypeCorrect == Spec => []TypeOK
BY InitType, TypeInductive, PTL DEF Spec

-----------------------------------------------------------------------------
(* GeoQueue: bounded lookups.                                              *)

\* Only the run that feeds has clients in its workers, and not more than workers.
Workers ==
    \A r \in Runs :
       /\ IsFiniteSet(checking[r]) /\ Cardinality(checking[r]) <= WorkerMax
       /\ run[r] # "feed" => checking[r] = {}

LEMMA FeedKeepsWorkers ==
    ASSUME TypeOK, Workers, NEW r \in Runs, NEW ip \in Clients, Feed(r, ip)
    PROVE  Workers'
<1>1. checking' = [checking EXCEPT ![r] = @ \cup {ip}] /\ run' = run /\ run[r] = "feed"
  BY DEF Feed
<1>2. Cardinality(checking[r]) \in Nat /\ Cardinality(checking[r]) < WorkerMax
  BY FS_CardinalityType DEF Workers, Feed
<1>3. IsFiniteSet(checking[r] \cup {ip}) /\ Cardinality(checking[r] \cup {ip}) <= WorkerMax
  <2> DEFINE S == checking[r]
  <2>1. IsFiniteSet(S)
    BY DEF Workers
  <2> HIDE DEF S
  <2>2. IsFiniteSet(S \cup {ip}) /\ Cardinality(S \cup {ip}) <= Cardinality(S) + 1
    <3>1. Cardinality(S) \in Nat
      BY <2>1, FS_CardinalityType
    <3>2. /\ IsFiniteSet(S \cup {ip})
          /\ Cardinality(S \cup {ip}) = IF ip \in S THEN Cardinality(S) ELSE Cardinality(S) + 1
      BY ONLY <2>1, FS_AddElement
    <3> HIDE DEF S
    <3> QED
      BY <3>1, <3>2
  <2>3. Cardinality(S \cup {ip}) \in Nat
    BY <2>2, FS_CardinalityType
  <2>4. Cardinality(S \cup {ip}) <= WorkerMax
    BY <1>2, <2>2, <2>3, LimitTypes DEF S
  <2> QED
    BY <2>2, <2>4 DEF S
<1> QED
  BY <1>1, <1>3 DEF Workers, TypeOK

LEMMA CheckKeepsWorkers ==
    ASSUME TypeOK, Workers, NEW r \in Runs, NEW ip \in Clients, Check(r, ip)
    PROVE  Workers'
<1>1. run' = run
  BY DEF Check, CheckSkips, CheckMarks, CheckEnds
<1>2. checking' = [checking EXCEPT ![r] = @ \ {ip}] \/ checking' = checking
  BY DEF Check, CheckSkips, CheckMarks, CheckEnds, Leave
<1>3. IsFiniteSet(checking[r] \ {ip}) /\ Cardinality(checking[r] \ {ip}) <= WorkerMax
  <2>1. IsFiniteSet(checking[r]) /\ Cardinality(checking[r]) <= WorkerMax
    BY DEF Workers
  <2>2. IsFiniteSet(checking[r] \ {ip}) /\ Cardinality(checking[r] \ {ip}) <= Cardinality(checking[r])
    BY <2>1, FS_Subset
  <2>3. Cardinality(checking[r]) \in Nat /\ Cardinality(checking[r] \ {ip}) \in Nat
    BY <2>1, <2>2, FS_CardinalityType
  <2> QED
    BY <2>1, <2>2, <2>3, LimitTypes
<1>4. run[r] # "feed" => checking[r] \ {ip} = {}
  BY DEF Workers
<1> QED
  BY <1>1, <1>2, <1>3, <1>4 DEF Workers, TypeOK

LEMMA WorkersInductive == TypeOK /\ Workers /\ [Next]_vars => Workers'
<1> SUFFICES ASSUME TypeOK, Workers, [Next]_vars PROVE Workers'
  OBVIOUS
<1>1. ASSUME NEW r \in Runs, NEW ip \in Clients, Feed(r, ip) \/ Check(r, ip) PROVE Workers'
  BY <1>1, FeedKeepsWorkers, CheckKeepsWorkers
<1>2. ASSUME NEW r \in Runs, BatchEnds(r) PROVE Workers'
  BY <1>2 DEF BatchEnds, Workers, TypeOK
<1>3. ASSUME NEW r \in Runs, Launch(r) \/ RunEnds(r) \/ RunTakes(r) PROVE Workers'
  BY <1>3 DEF Launch, RunEnds, RunTakes, Workers, TypeOK
<1>4. CASE UNCHANGED <<run, checking>>
  BY <1>4 DEF Workers
<1>5. \/ \E r \in Runs : BatchEnds(r) \/ Launch(r) \/ RunEnds(r) \/ RunTakes(r)
      \/ \E r \in Runs, ip \in Clients : Feed(r, ip) \/ Check(r, ip)
      \/ UNCHANGED <<run, checking>>
  BY DEF Next, Step, Runner, Schedule, FeedCut, Lift, Cancel, Tick, vars, runVars
<1> QED
  BY <1>1, <1>2, <1>3, <1>4, <1>5

\* With one run at a time, the bound of a run is the bound of the daemon.
LEMMA WorkersAreBounded == OneRun /\ Workers => BoundedLookups
<1> SUFFICES ASSUME OneRun, Workers PROVE BoundedLookups
  OBVIOUS
<1> DEFINE Busy == {w \in Runs \X Clients : w[2] \in checking[w[1]]}
<1>1. CASE \A r \in Runs : run[r] # "feed"
  <2>1. Busy = {}
    BY <1>1 DEF Workers
  <2>2. Cardinality(Busy) = 0
    BY <2>1, FS_EmptySet
  <2> QED
    BY <2>2, LimitTypes DEF BoundedLookups
<1>2. CASE \E r \in Runs : run[r] = "feed"
  <2>1. PICK r \in Runs : run[r] = "feed"
    BY <1>2
  <2>2. \A s \in Runs : s # r => checking[s] = {}
    BY <2>1 DEF OneRun, Workers
  <2> DEFINE f == [w \in Busy |-> w[2]]
  <2>3. f \in Injection(Busy, checking[r])
    <3>1. \A w \in Busy : w = <<r, w[2]>> /\ w[2] \in checking[r]
      BY <2>2
    <3>2. f \in [Busy -> checking[r]]
      BY <3>1
    <3>3. ASSUME NEW v \in Busy, NEW w \in Busy, f[v] = f[w] PROVE v = w
      BY <3>1, <3>3
    <3> QED
      BY <3>2, <3>3 DEF Injection, IsInjective
  <2>4. IsFiniteSet(Busy) /\ Cardinality(Busy) <= Cardinality(checking[r])
    BY <2>3, FS_Injection DEF Workers
  <2>5. Cardinality(Busy) \in Nat /\ Cardinality(checking[r]) \in Nat /\ Cardinality(checking[r]) <= WorkerMax
    BY <2>4, FS_CardinalityType DEF Workers
  <2> QED
    BY <2>4, <2>5, LimitTypes DEF BoundedLookups
<1> QED
  BY <1>1, <1>2

\* Never more clients are looked at in parallel than there are workers, although
\* the workers belong to a run and polls start runs.
THEOREM LookupsAreBounded == Spec => []BoundedLookups
<1>1. Init => OneRun
  BY DEF Init, OneRun
<1>2. Init => Workers
  BY FS_EmptySet, LimitTypes DEF Init, Workers
<1> QED
  BY <1>1, <1>2, InitType, TypeInductive, OneRunInductive, WorkersInductive, WorkersAreBounded, PTL DEF Spec
=============================================================================
