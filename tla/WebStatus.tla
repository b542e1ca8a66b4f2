------------------------------- MODULE WebStatus -------------------------------
(***************************************************************************)
(* The status page: requests pass the limiter of failed logins and share one *)
(* snapshot of the daemon, made at most once per cacheTTL; the server stops  *)
(* while requests run, and only then the daemon closes its database.  An     *)
(* entry of the limiter without failures is no entry.                        *)
(***************************************************************************)
EXTENDS Integers, FiniteSets, FiniteSetsExt

CONSTANTS
    Clients,        \* keys of the limiter: an IPv4 address, an IPv6 /64
    Requests,       \* goroutines of the HTTP server
    MaxFailures,    \* authMaxFailures
    GlobalMax,      \* authGlobalMaxFailures
    MaxTracked,     \* authMaxTracked
    Window,         \* authWindow
    CacheTTL,       \* cacheTTL
    MaxClock,       \* bound: ticks
    StatusAfterLogin \* bound: whether requests with a login ask for the snapshot

ASSUME ParameterAssumption ==
    /\ Clients # {}
    /\ {MaxFailures, GlobalMax, MaxTracked, Window, CacheTTL} \subseteq Nat \ {0}
    /\ MaxClock \in Nat
    /\ StatusAfterLogin \in BOOLEAN

VARIABLES
    auth,           \* Server.auth is set
    fails,          \* authenticator.fails
    global,         \* authenticator.global
    fullUntil,      \* authenticator.fullUntil
    req,            \* request -> where it is, its client there, when its call began
    cache,          \* Server.cached, cacheErr, cachedAt
    stopping,       \* Server.stopping
    server,         \* Serve and what follows: "serving", "shutdown", "finish", "stopped", "closed"
    late,           \* finish gave up waiting
    clock,
    locked,         \* history: until when a client is locked
    lastCall        \* history: when the last call of the provider began

authVars == <<auth, fails, global, fullUntil, locked>>
serverVars == <<stopping, server, late>>
vars == <<authVars, req, cache, serverVars, clock, lastCall>>

\* No call yet: long enough ago.
Never == -CacheTTL
NoEntry == [start |-> 0, count |-> 0]
NoRequest == [pc |-> "idle", client |-> CHOOSE c \in Clients : TRUE, at |-> 0]
Go(r, pc) == req' = [req EXCEPT ![r] = [NoRequest EXCEPT !.pc = pc]]

-----------------------------------------------------------------------------
(* authenticator.                                                          *)

Expired(f) == clock - f.start >= Window
Tracked(t) == {c \in Clients : t[c].count > 0}
Full(t) == Cardinality(Tracked(t)) >= MaxTracked
Without(t, S) == [c \in Clients |-> IF c \in S THEN NoEntry ELSE t[c]]
GlobalLocked == global.count >= GlobalMax /\ ~Expired(global)

\* Faulty variant: to make room every entry goes.
DropAny(t) == Tracked(t)

\* What is dropped to make room: never a locked client.
Droppable(t) == {c \in Tracked(t) : t[c].count < MaxFailures}

\* pruneLocked
Pruned ==
    LET t == Without(fails, {c \in Tracked(fails) : Expired(fails[c])})
    IN  IF Full(t) THEN Without(t, Droppable(t)) ELSE t

\* Faulty variant: newcomers wait for the last window to end.
LastEnd(t) == Max({t[c].start + Window : c \in Tracked(t)})

FirstEnd(t) == Min({t[c].start + Window : c \in Tracked(t)})

\* spaceLocked: the table, the end of the wait, and whether there is room.
Space ==
    IF clock < fullUntil THEN [table |-> fails, until |-> fullUntil, room |-> FALSE]
    ELSE IF Full(Pruned) THEN [table |-> Pruned, until |-> FirstEnd(Pruned), room |-> FALSE]
    ELSE [table |-> Pruned, until |-> fullUntil, room |-> TRUE]

Admit(r, c) == req' = [req EXCEPT ![r] = [NoRequest EXCEPT !.pc = "match", !.client = c]]

Arriving(r) == server = "serving" /\ req[r].pc = "idle"

\* Without a password there is no limiter.
ArriveOpen(r) ==
    /\ Arriving(r) /\ ~auth
    /\ Go(r, "wait")
    /\ UNCHANGED <<authVars, cache, serverVars, clock, lastCall>>

\* blockedFor, of a client in the table; one that is locked is refused.
ArriveKnown(r, c) ==
    /\ Arriving(r) /\ auth /\ ~GlobalLocked
    /\ c \in Tracked(fails)
    /\ Expired(fails[c]) \/ fails[c].count < MaxFailures
    /\ fails' = IF Expired(fails[c]) THEN Without(fails, {c}) ELSE fails
    /\ Admit(r, c)
    /\ UNCHANGED <<auth, global, fullUntil, locked, cache, serverVars, clock, lastCall>>

\* blockedFor, of a client that is not: a full table may have to make room.
ArriveUnknown(r, c) ==
    /\ Arriving(r) /\ auth /\ ~GlobalLocked
    /\ c \notin Tracked(fails)
    /\ IF Full(fails)
       THEN /\ fails' = Space.table /\ fullUntil' = Space.until
            /\ IF Space.room THEN Admit(r, c) ELSE UNCHANGED req
       ELSE Admit(r, c) /\ UNCHANGED <<fails, fullUntil>>
    /\ UNCHANGED <<auth, global, locked, cache, serverVars, clock, lastCall>>

\* check: the right password for a page or the status, none, or a wrong one.
Match(r) ==
    /\ req[r].pc = "match"
    /\ \/ StatusAfterLogin /\ Go(r, "wait")
       \/ Go(r, "idle")
       \/ req' = [req EXCEPT ![r].pc = "fail"]
    /\ UNCHANGED <<authVars, cache, serverVars, clock, lastCall>>

\* fail: the window of everyone, then that of the client.
Fail(r) ==
    LET c == req[r].client
        fresh == fails[c].count = 0 \/ Expired(fails[c])
        noroom == fails[c].count = 0 /\ Full(fails) /\ ~Space.room
        table == IF fails[c].count = 0 /\ Full(fails) THEN Space.table ELSE fails
        entry == IF fresh THEN [start |-> clock, count |-> 1] ELSE [fails[c] EXCEPT !.count = @ + 1]
    IN  /\ req[r].pc = "fail"
        /\ global' = IF Expired(global) THEN [start |-> clock, count |-> 1]
                                        ELSE [global EXCEPT !.count = @ + 1]
        /\ fullUntil' = IF fails[c].count = 0 /\ Full(fails) THEN Space.until ELSE fullUntil
        /\ fails' = IF noroom THEN table ELSE [table EXCEPT ![c] = entry]
        /\ locked' = IF ~noroom /\ entry.count >= MaxFailures
                     THEN [locked EXCEPT ![c] = entry.start + Window] ELSE locked
        /\ Go(r, "idle")
        /\ UNCHANGED <<auth, cache, serverVars, clock, lastCall>>

-----------------------------------------------------------------------------
(* snapshot, under cacheMu.                                                *)

Calling == {r \in Requests : req[r].pc = "call"}

\* Faulty variant: a failure is not remembered.
RememberedOk == cache.kind = "ok" /\ clock - cache.at < CacheTTL

Remembered == cache.kind # "none" /\ clock - cache.at < CacheTTL

\* Faulty variant: beginCall does not look at stopping.
AlwaysBegin == TRUE

MayBegin == ~stopping

\* An answer from the snapshot, the end of the server, or a call of the provider.
Snapshot(r) ==
    /\ req[r].pc = "wait"
    /\ Calling = {}
    /\ IF Remembered \/ ~MayBegin
       THEN Go(r, "idle") /\ UNCHANGED lastCall
       ELSE /\ req' = [req EXCEPT ![r].pc = "call", ![r].at = clock]
            /\ lastCall' = clock
    /\ UNCHANGED <<authVars, cache, serverVars, clock>>

\* The daemon's Status returns, well or not, in time or not.
CallEnds(r) ==
    /\ req[r].pc = "call"
    /\ \E kind \in {"ok", "err"} : cache' = [kind |-> kind, at |-> req[r].at]
    /\ Go(r, "idle")
    /\ UNCHANGED <<authVars, serverVars, clock, lastCall>>

-----------------------------------------------------------------------------
(* Serve, finish, and the daemon behind them.                              *)

\* The daemon stops.
StopBegins ==
    /\ server = "serving"
    /\ server' = "shutdown"
    /\ UNCHANGED <<authVars, req, cache, stopping, late, clock, lastCall>>

\* srv.Serve fails: finish at once, whatever requests run.
ServeFails ==
    /\ server = "serving"
    /\ server' = "finish" /\ stopping' = TRUE
    /\ UNCHANGED <<authVars, req, cache, late, clock, lastCall>>

\* Shutdown waits for the requests, or its timeout, then Close leaves them.
ShutdownEnds ==
    /\ server = "shutdown"
    /\ server' = "finish" /\ stopping' = TRUE
    /\ UNCHANGED <<authVars, req, cache, late, clock, lastCall>>

FinishEnds ==
    /\ server = "finish"
    /\ Calling = {}
    /\ server' = "stopped"
    /\ UNCHANGED <<authVars, req, cache, stopping, late, clock, lastCall>>

\* Faulty variant: finish waits for its calls without an end.
FinishWaits == FALSE /\ UNCHANGED vars

FinishTimeout ==
    /\ server = "finish"
    /\ Calling # {}
    /\ server' = "stopped" /\ late' = TRUE
    /\ UNCHANGED <<authVars, req, cache, stopping, clock, lastCall>>

\* Daemon.Run returns, Daemon.Close closes the store.
CloseStore ==
    /\ server = "stopped"
    /\ server' = "closed"
    /\ UNCHANGED <<authVars, req, cache, stopping, late, clock, lastCall>>

Tick ==
    /\ clock < MaxClock
    /\ clock' = clock + 1
    /\ UNCHANGED <<authVars, req, cache, serverVars, lastCall>>

Init ==
    /\ fails = [c \in Clients |-> NoEntry] /\ global = NoEntry /\ fullUntil = 0
    /\ auth \in BOOLEAN
    /\ req = [r \in Requests |-> NoRequest]
    /\ cache = [kind |-> "none", at |-> 0]
    /\ stopping = FALSE /\ server = "serving" /\ late = FALSE
    /\ clock = 0
    /\ locked = [c \in Clients |-> 0]
    /\ lastCall = Never

Request(r) ==
    \/ \E c \in Clients : ArriveKnown(r, c) \/ ArriveUnknown(r, c)
    \/ ArriveOpen(r) \/ Match(r) \/ Fail(r) \/ Snapshot(r) \/ CallEnds(r)

Stop == ShutdownEnds \/ FinishEnds \/ FinishTimeout \/ CloseStore

Next ==
    \/ \E r \in Requests : Request(r)
    \/ StopBegins \/ ServeFails \/ Stop
    \/ Tick

Spec == Init /\ [][Next]_vars

\* The goroutine of the server goes on and its timers fire; a call of the
\* provider may never end.
FairSpec == Spec /\ WF_vars(Stop)

-----------------------------------------------------------------------------
(* Properties.                                                             *)

\* Every variable has its type.
TypeOK ==
    /\ auth \in BOOLEAN
    /\ fails \in [Clients -> [start : Nat, count : Nat]]
    /\ global \in [start : Nat, count : Nat]
    /\ fullUntil \in Nat /\ clock \in Nat
    /\ req \in [Requests -> [pc : {"idle", "match", "fail", "wait", "call"}, client : Clients, at : Nat]]
    /\ cache \in [kind : {"none", "ok", "err"}, at : Nat]
    /\ stopping \in BOOLEAN /\ late \in BOOLEAN
    /\ server \in {"serving", "shutdown", "finish", "stopped", "closed"}
    /\ locked \in [Clients -> Nat]
    /\ lastCall \in Nat \cup {Never}

\* Once a client has used up its failures, no request of it gets as far as the
\* password until its window ends, however often others fill the table (auth.go,
\* pruneLocked: "Gesperrte Clients bleiben immer erhalten").
LockedIsRefused ==
    [][\A r \in Requests :
         req'[r].pc = "match" /\ req[r].pc # "match" => clock >= locked[req'[r].client]]_vars

\* Newcomers are turned away only while every entry of a full table is locked:
\* the wait ends with the first window (auth.go, fullUntil: "bis dahin ist die
\* Tabelle voll mit gesperrten Clients").
FullMeansLocked ==
    clock < fullUntil =>
        /\ Full(fails)
        /\ \A c \in Tracked(fails) : fails[c].count >= MaxFailures /\ ~Expired(fails[c])

\* Calls of the provider begin at least cacheTTL apart, whatever number of
\* requests waits and however long or unsuccessful a call was (server.go,
\* snapshot: "höchstens alle cacheTTL neu erzeugt").
SpacedCalls ==
    [][lastCall' # lastCall => lastCall' - lastCall >= CacheTTL]_vars

\* The database is closed with no call of the provider running, unless finish
\* said it did not wait (server.go, finish: "damit der Daemon danach gefahrlos
\* die Datenbank schließt").
NoCallOnClosedStore == server = "closed" /\ ~late => Calling = {}

\* A stop gets through, also when a call of the provider hangs.
ServerStops == server # "serving" ~> server = "closed"
=============================================================================
