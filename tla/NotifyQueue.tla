----------------------------- MODULE NotifyQueue -----------------------------
(***************************************************************************)
(* The notifier of the daemon: a bounded channel, one worker, callers that   *)
(* must never wait, and a stop that drains the channel for a limited time.   *)
(* The callers are the goroutines that ban, lift and import; without a       *)
(* worker (CLI commands) a caller sends the message itself.  The names of the  *)
(* specification have a prefix because QueueProofs extends GeoQueue as well.  *)
(***************************************************************************)
EXTENDS Integers, Sequences

CONSTANTS
    Jobs,       \* notifications, one call of enqueueNotification each
    Size        \* notifyQueueSize

ASSUME SizeAssumption == Size \in Nat \ {0}

VARIABLES
    main,       \* Daemon.Run as far as the notifier goes, or a CLI process
    running, stopped,   \* notifier.running, notifier.stopped
    closed,     \* close(n.queue) has happened
    queue,      \* n.queue
    readers,    \* calls that hold n.mu.RLock
    call,       \* job -> progress of its call
    worker,     \* the goroutine of startNotifier
    inHand,     \* the job it runs, if any
    accepted, delivered     \* history: jobs queued, jobs run by the worker

state == <<running, stopped, closed>>
notifyVars == <<main, running, stopped, closed, queue, readers, call, worker, inHand, accepted, delivered>>

Alive == main # "exit"

-----------------------------------------------------------------------------
(* enqueueNotification.                                                    *)

\* The read lock is taken and the flags are read.
EnqueueLock(j) ==
    /\ main \notin {"boot", "exit"}
    /\ call[j] = "none"
    /\ readers' = readers \cup {j}
    /\ call' = [call EXCEPT ![j] = IF running THEN "send"
                                   ELSE IF stopped THEN "refuse" ELSE "inline"]
    /\ UNCHANGED <<main, state, queue, worker, inHand, accepted, delivered>>

\* Faulty variant: a full queue makes room by dropping its oldest job.
EnqueueSendEvicts(j) ==
    /\ Alive
    /\ call[j] = "send"
    /\ readers' = readers \ {j}
    /\ call' = [call EXCEPT ![j] = "queued"]
    /\ queue' = Append(IF Len(queue) < Size THEN queue ELSE Tail(queue), j)
    /\ accepted' = Append(accepted, j)
    /\ UNCHANGED <<main, state, worker, inHand, delivered>>

\* Faulty variant: a full queue makes the caller wait.
EnqueueSendWaits(j) ==
    /\ Alive
    /\ call[j] = "send"
    /\ Len(queue) < Size
    /\ readers' = readers \ {j}
    /\ call' = [call EXCEPT ![j] = "queued"]
    /\ queue' = Append(queue, j)
    /\ accepted' = Append(accepted, j)
    /\ UNCHANGED <<main, state, worker, inHand, delivered>>

\* A send that does not wait; on a closed channel it would panic.
EnqueueSend(j) ==
    /\ Alive
    /\ call[j] = "send"
    /\ readers' = readers \ {j}
    /\ \/ /\ closed
          /\ call' = [call EXCEPT ![j] = "panic"]
          /\ UNCHANGED <<queue, accepted>>
       \/ /\ ~closed /\ Len(queue) < Size
          /\ call' = [call EXCEPT ![j] = "queued"]
          /\ queue' = Append(queue, j)
          /\ accepted' = Append(accepted, j)
       \/ /\ ~closed /\ Len(queue) >= Size
          /\ call' = [call EXCEPT ![j] = "dropped"]
          /\ UNCHANGED <<queue, accepted>>
    /\ UNCHANGED <<main, state, worker, inHand, delivered>>

EnqueueRefuse(j) ==
    /\ Alive
    /\ call[j] = "refuse"
    /\ readers' = readers \ {j}
    /\ call' = [call EXCEPT ![j] = "dropped"]
    /\ UNCHANGED <<main, state, queue, worker, inHand, accepted, delivered>>

\* Without a worker the lock is released and the caller runs the job.
EnqueueInline(j) ==
    /\ Alive
    /\ call[j] = "inline"
    /\ readers' = readers \ {j}
    /\ call' = [call EXCEPT ![j] = "ran"]
    /\ UNCHANGED <<main, state, queue, worker, inHand, accepted, delivered>>

-----------------------------------------------------------------------------
(* The worker.                                                             *)

WorkerTake ==
    /\ Alive
    /\ worker = "on" /\ inHand = <<>>
    /\ queue # <<>>
    /\ inHand' = <<Head(queue)>>
    /\ queue' = Tail(queue)
    /\ UNCHANGED <<main, state, readers, call, worker, accepted, delivered>>

\* Each job has a context of notifyJobTimeout, so it ends.
WorkerFinish ==
    /\ Alive
    /\ inHand # <<>>
    /\ delivered' = delivered \o inHand
    /\ inHand' = <<>>
    /\ UNCHANGED <<main, state, queue, readers, call, worker, accepted>>

\* Faulty variant: "done" is announced as soon as the channel is closed.
WorkerEndEarly ==
    /\ Alive
    /\ worker = "on"
    /\ closed
    /\ worker' = "done"
    /\ UNCHANGED <<main, state, queue, readers, call, inHand, accepted, delivered>>

\* The range over the channel ends when it is closed and empty.
WorkerEnd ==
    /\ Alive
    /\ worker = "on" /\ inHand = <<>>
    /\ closed /\ queue = <<>>
    /\ worker' = "done"
    /\ UNCHANGED <<main, state, queue, readers, call, inHand, accepted, delivered>>

-----------------------------------------------------------------------------
(* Daemon.Run: "Service gestartet", startNotifier, at SIGTERM stopNotifier   *)
(* with its timeout, "Service gestoppt", exit.                               *)

StartNotifier ==
    /\ main = "boot"
    /\ main' = "up"
    /\ running' = TRUE
    /\ stopped' = FALSE
    /\ worker' = "on"
    /\ UNCHANGED <<closed, queue, readers, call, inHand, accepted, delivered>>

\* Faulty variant: n.mu is not locked for writing.
StopNotifierUnlocked ==
    /\ main = "up"
    /\ main' = "draining"
    /\ running' = FALSE
    /\ stopped' = TRUE
    /\ closed' = TRUE
    /\ UNCHANGED <<queue, readers, call, worker, inHand, accepted, delivered>>

\* n.mu.Lock waits for the callers that hold the read lock.
StopNotifier ==
    /\ main = "up"
    /\ readers = {}
    /\ main' = "draining"
    /\ running' = FALSE
    /\ stopped' = TRUE
    /\ closed' = TRUE
    /\ UNCHANGED <<queue, readers, call, worker, inHand, accepted, delivered>>

Drained ==
    /\ main = "draining"
    /\ worker = "done"
    /\ main' = "drained"
    /\ UNCHANGED <<state, queue, readers, call, worker, inHand, accepted, delivered>>

\* Faulty variant: no timeout, only the worker ends the wait.
DrainTimeoutNever == FALSE /\ UNCHANGED notifyVars

DrainTimeout ==
    /\ main = "draining"
    /\ main' = "timeout"
    /\ UNCHANGED <<state, queue, readers, call, worker, inHand, accepted, delivered>>

\* "Service gestoppt" is sent and the process ends, whoever is still at work.
Exit ==
    /\ main \in {"drained", "timeout"}
    /\ main' = "exit"
    /\ UNCHANGED <<state, queue, readers, call, worker, inHand, accepted, delivered>>

-----------------------------------------------------------------------------
NotifyInit ==
    /\ main \in {"boot", "cli"}
    /\ running = FALSE
    /\ stopped = FALSE
    /\ closed = FALSE
    /\ queue = <<>>
    /\ readers = {}
    /\ call = [j \in Jobs |-> "none"]
    /\ worker = "off"
    /\ inHand = <<>>
    /\ accepted = <<>>
    /\ delivered = <<>>

Enqueue(j) == EnqueueSend(j) \/ EnqueueRefuse(j) \/ EnqueueInline(j)
Work == WorkerTake \/ WorkerFinish \/ WorkerEnd
Shutdown == Drained \/ DrainTimeout \/ Exit

NotifyNext ==
    \/ \E j \in Jobs : EnqueueLock(j) \/ Enqueue(j)
    \/ Work
    \/ StartNotifier
    \/ StopNotifier
    \/ Shutdown

NotifySpec == NotifyInit /\ [][NotifyNext]_notifyVars

\* The scheduler runs the callers and the timer of stopNotifier fires; nothing
\* is assumed of the worker, whose job may hang in the network.
NotifyFairSpec == NotifySpec /\ (\A j \in Jobs : WF_notifyVars(Enqueue(j))) /\ WF_notifyVars(Shutdown)

\* The worker goes on: each job ends by its timeout.
WorkerLives == WF_notifyVars(Work)

-----------------------------------------------------------------------------
(* Properties.                                                             *)

\* Every variable has its type, and the channel never exceeds its capacity.
NotifyTypeOK ==
    /\ main \in {"boot", "cli", "up", "draining", "drained", "timeout", "exit"}
    /\ running \in BOOLEAN /\ stopped \in BOOLEAN /\ closed \in BOOLEAN
    /\ queue \in Seq(Jobs) /\ Len(queue) <= Size
    /\ readers \in SUBSET Jobs
    /\ call \in [Jobs -> {"none", "send", "refuse", "inline", "queued", "dropped", "ran", "panic"}]
    /\ worker \in {"off", "on", "done"}
    /\ inHand \in Seq(Jobs) /\ Len(inHand) <= 1
    /\ accepted \in Seq(Jobs)
    /\ delivered \in Seq(Jobs)

\* No caller sends on the closed channel, which would crash the daemon in the
\* middle of a ban: the decision to send and the send are under n.mu.RLock.
NoSendOnClosed == \A j \in Jobs : call[j] # "panic"

\* What was queued is delivered in order, once, and none is lost before the
\* process ends.
FifoNoLoss == accepted = delivered \o inHand \o queue

\* stopNotifier returns true only when everything queued has been sent, so
\* "Service gestoppt" is the last message (docs/benachrichtigungen.md).
CompleteDrain == main = "drained" => delivered = accepted

\* In the daemon nobody sends a message in the goroutine that bans, not even
\* while it shuts down: only a CLI process runs a job inline.
NeverInlineInDaemon == main # "cli" => \A j \in Jobs : call[j] \notin {"inline", "ran"}

\* A caller never waits for the notification service: the call returns even if
\* the worker hangs.
CallsReturn ==
    \A j \in Jobs : call[j] \in {"send", "refuse"} ~> call[j] \in {"queued", "dropped"} \/ ~Alive

\* Shutdown ends even if a notification hangs.
ShutdownEnds == main = "draining" ~> main = "exit"

\* With a worker that goes on everything queued is delivered, unless the process
\* ends first.
QueuedIsDelivered ==
    WorkerLives =>
        \A j \in Jobs :
            call[j] = "queued" ~> (\E i \in DOMAIN delivered : delivered[i] = j) \/ ~Alive
=============================================================================
