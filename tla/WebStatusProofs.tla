---------------------------- MODULE WebStatusProofs ----------------------------
(***************************************************************************)
(* Proofs about WebStatus for any clients, requests, limits and windows.     *)
(***************************************************************************)
EXTENDS WebStatus, FiniteSetTheorems, WellFoundedInduction, TLAPS

-----------------------------------------------------------------------------
(* Types.                                                                  *)

Entries == [start : Nat, count : Nat]
RequestStates == [pc : {"idle", "match", "fail", "wait", "call"}, client : Clients, at : Nat]

\* A set of natural numbers has a least one.
LEMMA LeastNatural == ASSUME NEW S \in SUBSET Nat, S # {} PROVE \E x \in S : \A y \in S : x <= y
<1>1. PICK x \in S : \A y \in S : <<y, x>> \notin OpToRel(<, Nat)
  BY WFMin, NatLessThanWellFounded
<1>2. \A y \in S : ~(y < x)
  BY <1>1 DEF OpToRel
<1> QED
  BY <1>2

LEMMA MinOfNaturals ==
    ASSUME NEW S \in SUBSET Nat, S # {}
    PROVE  Min(S) \in S /\ \A y \in S : Min(S) <= y
BY LeastNatural DEF Min

LEMMA ParameterTypes ==
    /\ MaxFailures \in Nat \ {0} /\ MaxTracked \in Nat \ {0}
    /\ Window \in Nat \ {0} /\ CacheTTL \in Nat \ {0}
BY ParameterAssumption

LEMMA NoRequestType == NoRequest \in RequestStates
<1>1. (CHOOSE c \in Clients : TRUE) \in Clients
  BY ParameterAssumption
<1> QED
  BY <1>1 DEF NoRequest, RequestStates

LEMMA GoType ==
    ASSUME req \in [Requests -> RequestStates], NEW r \in Requests,
           NEW pc \in {"idle", "wait"}, Go(r, pc)
    PROVE  req' \in [Requests -> RequestStates]
<1>1. [NoRequest EXCEPT !.pc = pc] \in RequestStates
  BY NoRequestType DEF RequestStates
<1> QED
  BY <1>1 DEF Go

LEMMA AdmitType ==
    ASSUME req \in [Requests -> RequestStates], NEW r \in Requests, NEW c \in Clients, Admit(r, c)
    PROVE  req' \in [Requests -> RequestStates]
<1>1. [NoRequest EXCEPT !.pc = "match", !.client = c] \in RequestStates
  BY NoRequestType DEF RequestStates
<1> QED
  BY <1>1 DEF Admit

-----------------------------------------------------------------------------
(* The table of the limiter.                                               *)

\* An entry is dropped whole or kept.
LEMMA WithoutKeeps ==
    ASSUME NEW t \in [Clients -> Entries], NEW S
    PROVE  /\ Without(t, S) \in [Clients -> Entries]
           /\ \A c \in Clients : Without(t, S)[c] = IF c \in S THEN NoEntry ELSE t[c]
BY DEF Without, Entries, NoEntry

\* What is dropped to make room has ended, or is not locked.
LEMMA PrunedKeeps ==
    ASSUME fails \in [Clients -> Entries]
    PROVE  /\ Pruned \in [Clients -> Entries]
           /\ \A c \in Clients :
                 \/ Pruned[c] = fails[c]
                 \/ Pruned[c] = NoEntry /\ (Expired(fails[c]) \/ fails[c].count < MaxFailures)
           /\ Full(Pruned) => \A c \in Tracked(Pruned) :
                                 Pruned[c].count >= MaxFailures /\ ~Expired(Pruned[c])
<1> DEFINE X == {c \in Tracked(fails) : Expired(fails[c])}
           t == Without(fails, X)
<1>1. t \in [Clients -> Entries] /\ \A c \in Clients : t[c] = IF c \in X THEN NoEntry ELSE fails[c]
  BY WithoutKeeps
<1>2. Pruned = IF Full(t) THEN Without(t, Droppable(t)) ELSE t
  BY DEF Pruned
<1>3. /\ Without(t, Droppable(t)) \in [Clients -> Entries]
      /\ \A c \in Clients : Without(t, Droppable(t))[c] = IF c \in Droppable(t) THEN NoEntry ELSE t[c]
  BY <1>1, WithoutKeeps
<1> HIDE DEF t
<1>4. Pruned \in [Clients -> Entries]
  BY <1>1, <1>2, <1>3
<1>5. \A c \in Tracked(t) : ~Expired(fails[c]) /\ t[c] = fails[c]
  BY <1>1, ParameterTypes DEF Tracked, NoEntry, Entries
<1>6. ASSUME NEW c \in Clients
      PROVE  \/ Pruned[c] = fails[c]
             \/ Pruned[c] = NoEntry /\ (Expired(fails[c]) \/ fails[c].count < MaxFailures)
  <2>1. CASE Pruned[c] = t[c]
    BY <1>1, <2>1
  <2>2. CASE Full(t) /\ c \in Droppable(t) /\ Pruned[c] = NoEntry
    BY <1>5, <2>2 DEF Droppable
  <2> QED
    BY <1>2, <1>3, <2>1, <2>2
<1>7. ASSUME Full(Pruned), NEW c \in Tracked(Pruned)
      PROVE  Pruned[c].count >= MaxFailures /\ ~Expired(Pruned[c])
  <2>1. Full(t)
    BY <1>2, <1>7
  <2>2. c \in Clients /\ Pruned[c].count > 0
    BY <1>7 DEF Tracked
  <2>3. c \notin Droppable(t) /\ Pruned[c] = t[c]
    BY <1>2, <1>3, <2>1, <2>2 DEF NoEntry
  <2>4. c \in Tracked(t)
    BY <2>2, <2>3 DEF Tracked
  <2> QED
    BY <1>1, <1>5, <2>2, <2>3, <2>4, ParameterTypes DEF Droppable, Entries
<1> QED
  BY <1>4, <1>6, <1>7

\* A full table has an entry.
LEMMA FullIsNotEmpty == ASSUME NEW t, Full(t) PROVE Tracked(t) # {}
BY FS_EmptySet, ParameterTypes DEF Full

\* To wait for the first end is to wait for an end no later than any.
LEMMA FirstEndIsFirst ==
    ASSUME NEW t \in [Clients -> Entries], Full(t)
    PROVE  FirstEnd(t) \in Nat /\ \A c \in Tracked(t) : FirstEnd(t) <= t[c].start + Window
<1> DEFINE Ends == {t[c].start + Window : c \in Tracked(t)}
<1>1. Ends \subseteq Nat
  BY ParameterTypes DEF Tracked, Entries
<1>2. Ends # {}
  BY FullIsNotEmpty
<1>3. Min(Ends) \in Ends /\ \A y \in Ends : Min(Ends) <= y
  BY <1>1, <1>2, MinOfNaturals
<1> QED
  BY <1>1, <1>3 DEF FirstEnd

LEMMA SpaceFacts ==
    ASSUME TypeOK
    PROVE  /\ Space.table \in [Clients -> Entries]
           /\ Space.until \in Nat
           /\ \A c \in Clients :
                 \/ Space.table[c] = fails[c]
                 \/ Space.table[c] = NoEntry /\ (Expired(fails[c]) \/ fails[c].count < MaxFailures)
           /\ \/ Space.until = fullUntil /\ clock < fullUntil /\ Space.table = fails /\ ~Space.room
              \/ Space.until = fullUntil /\ clock >= fullUntil /\ Space.room
              \/ /\ clock >= fullUntil /\ ~Space.room
                 /\ Full(Space.table)
                 /\ \A c \in Tracked(Space.table) :
                       /\ Space.table[c].count >= MaxFailures /\ ~Expired(Space.table[c])
                       /\ Space.until <= Space.table[c].start + Window
<1>1. fails \in [Clients -> Entries] /\ clock \in Nat /\ fullUntil \in Nat
  BY DEF TypeOK, Entries
<1>2. CASE clock < fullUntil
  <2>1. Space = [table |-> fails, until |-> fullUntil, room |-> FALSE]
    BY <1>2 DEF Space
  <2> QED
    BY <1>1, <1>2, <2>1
<1>3. CASE ~(clock < fullUntil) /\ Full(Pruned)
  <2>1. Space = [table |-> Pruned, until |-> FirstEnd(Pruned), room |-> FALSE]
    BY <1>3 DEF Space
  <2> QED
    BY <1>1, <1>3, <2>1, PrunedKeeps, FirstEndIsFirst
<1>4. CASE ~(clock < fullUntil) /\ ~Full(Pruned)
  <2>1. Space = [table |-> Pruned, until |-> fullUntil, room |-> TRUE]
    BY <1>4 DEF Space
  <2> QED
    BY <1>1, <1>4, <2>1, PrunedKeeps
<1> QED
  BY <1>2, <1>3, <1>4

-----------------------------------------------------------------------------
(* Every variable keeps its type.                                          *)

\* What Fail makes of the table, the entry of the client and the wait.
LEMMA FailFacts ==
    ASSUME TypeOK, NEW r \in Requests, Fail(r)
    PROVE  \E c \in Clients, table \in [Clients -> Entries], entry \in Entries :
              /\ entry = IF fails[c].count = 0 \/ Expired(fails[c])
                         THEN [start |-> clock, count |-> 1]
                         ELSE [start |-> fails[c].start, count |-> fails[c].count + 1]
              /\ \/ table = fails /\ fullUntil' = fullUntil /\ (fails[c].count > 0 \/ ~Full(fails))
                 \/ /\ table = Space.table /\ fullUntil' = Space.until
                    /\ fails[c].count = 0 /\ Full(fails)
              /\ \/ /\ fails[c].count = 0 /\ Full(fails) /\ ~Space.room
                    /\ fails' = table /\ locked' = locked
                 \/ /\ fails[c].count > 0 \/ ~Full(fails) \/ Space.room
                    /\ fails' = [table EXCEPT ![c] = entry]
                    /\ locked' = IF entry.count >= MaxFailures
                                 THEN [locked EXCEPT ![c] = entry.start + Window] ELSE locked
<1> DEFINE c == req[r].client
           entry == IF fails[c].count = 0 \/ Expired(fails[c]) THEN [start |-> clock, count |-> 1]
                    ELSE [fails[c] EXCEPT !.count = @ + 1]
           table == IF fails[c].count = 0 /\ Full(fails) THEN Space.table ELSE fails
           noroom == fails[c].count = 0 /\ Full(fails) /\ ~Space.room
<1>1. c \in Clients /\ clock \in Nat /\ fails \in [Clients -> Entries]
  BY DEF TypeOK, Entries
<1>2. fails[c] \in Entries /\ fails[c].count \in Nat
  BY <1>1 DEF Entries
<1>3. table \in [Clients -> Entries]
  BY <1>1, SpaceFacts
<1>4. /\ entry \in Entries
      /\ entry = IF fails[c].count = 0 \/ Expired(fails[c])
                 THEN [start |-> clock, count |-> 1]
                 ELSE [start |-> fails[c].start, count |-> fails[c].count + 1]
  BY <1>1, <1>2 DEF Entries
<1>5. /\ fullUntil' = IF fails[c].count = 0 /\ Full(fails) THEN Space.until ELSE fullUntil
      /\ fails' = IF noroom THEN table ELSE [table EXCEPT ![c] = entry]
      /\ locked' = IF ~noroom /\ entry.count >= MaxFailures
                   THEN [locked EXCEPT ![c] = entry.start + Window] ELSE locked
  BY DEF Fail
<1> HIDE DEF c, entry
<1>6. \/ table = fails /\ fullUntil' = fullUntil /\ (fails[c].count > 0 \/ ~Full(fails))
      \/ table = Space.table /\ fullUntil' = Space.until /\ fails[c].count = 0 /\ Full(fails)
  BY <1>2, <1>5
<1>7. \/ /\ fails[c].count = 0 /\ Full(fails) /\ ~Space.room
         /\ fails' = table /\ locked' = locked
      \/ /\ fails[c].count > 0 \/ ~Full(fails) \/ Space.room
         /\ fails' = [table EXCEPT ![c] = entry]
         /\ locked' = IF entry.count >= MaxFailures
                      THEN [locked EXCEPT ![c] = entry.start + Window] ELSE locked
  BY <1>2, <1>5
<1> QED
  BY <1>1, <1>3, <1>4, <1>6, <1>7

LEMMA FailType ==
    ASSUME TypeOK, NEW r \in Requests, Fail(r)
    PROVE  TypeOK'
<1>1. PICK c \in Clients, table \in [Clients -> Entries], entry \in Entries :
         /\ fullUntil' = fullUntil \/ fullUntil' = Space.until
         /\ fails' = table \/ fails' = [table EXCEPT ![c] = entry]
         /\ locked' = locked \/ locked' = [locked EXCEPT ![c] = entry.start + Window]
  BY FailFacts
<1>2. fails' \in [Clients -> Entries]
  BY <1>1
<1>3. fullUntil' \in Nat
  BY <1>1, SpaceFacts DEF TypeOK
<1>4. entry.start + Window \in Nat
  BY ParameterTypes DEF Entries
<1>5. locked' \in [Clients -> Nat]
  BY <1>1, <1>4 DEF TypeOK
<1>6. global' \in Entries
  BY DEF Fail, TypeOK, Entries
<1>7. req' \in [Requests -> RequestStates]
  BY GoType DEF Fail, TypeOK, RequestStates
<1> QED
  BY <1>2, <1>3, <1>5, <1>6, <1>7 DEF Fail, TypeOK, Entries, RequestStates, serverVars

LEMMA RequestType ==
    ASSUME TypeOK, NEW r \in Requests, Request(r)
    PROVE  TypeOK'
<1> USE DEF authVars, serverVars
<1>t. /\ fails \in [Clients -> Entries] /\ req \in [Requests -> RequestStates]
      /\ req[r] \in RequestStates
  BY DEF TypeOK, Entries, RequestStates
<1>1. ASSUME NEW c \in Clients, ArriveKnown(r, c) PROVE TypeOK'
  <2>1. fails' \in [Clients -> Entries]
    BY <1>1, <1>t, WithoutKeeps DEF ArriveKnown
  <2>2. req' \in [Requests -> RequestStates]
    BY <1>1, <1>t, AdmitType DEF ArriveKnown
  <2> QED
    BY <1>1, <2>1, <2>2 DEF ArriveKnown, TypeOK, Entries, RequestStates
<1>2. ASSUME NEW c \in Clients, ArriveUnknown(r, c) PROVE TypeOK'
  <2>1. fails' \in [Clients -> Entries] /\ fullUntil' \in Nat
    BY <1>2, <1>t, SpaceFacts DEF ArriveUnknown, TypeOK
  <2>2. req' \in [Requests -> RequestStates]
    BY <1>2, <1>t, AdmitType DEF ArriveUnknown
  <2> QED
    BY <1>2, <2>1, <2>2 DEF ArriveUnknown, TypeOK, Entries, RequestStates
<1>3. CASE ArriveOpen(r)
  <2>1. req' \in [Requests -> RequestStates]
    BY <1>3, <1>t, GoType DEF ArriveOpen
  <2> QED
    BY <1>3, <2>1 DEF ArriveOpen, TypeOK, RequestStates
<1>4. CASE Match(r)
  <2>1. [req[r] EXCEPT !.pc = "fail"] \in RequestStates
    BY <1>t DEF RequestStates
  <2>2. req' \in [Requests -> RequestStates]
    BY <1>4, <1>t, <2>1, GoType DEF Match
  <2> QED
    BY <1>4, <2>2 DEF Match, TypeOK, RequestStates
<1>5. CASE Fail(r)
  BY <1>5, FailType
<1>6. CASE Snapshot(r)
  <2>1. [req[r] EXCEPT !.pc = "call", !.at = clock] \in RequestStates
    BY <1>t DEF RequestStates, TypeOK
  <2>2. ASSUME req' = [req EXCEPT ![r].pc = "call", ![r].at = clock]
        PROVE  req' = [req EXCEPT ![r] = [req[r] EXCEPT !.pc = "call", !.at = clock]]
    BY <2>2, <1>t
  <2>3. req' \in [Requests -> RequestStates]
    BY <1>6, <1>t, <2>1, <2>2, GoType DEF Snapshot
  <2> QED
    BY <1>6, <2>3 DEF Snapshot, TypeOK, RequestStates
<1>7. CASE CallEnds(r)
  <2>1. req' \in [Requests -> RequestStates]
    BY <1>7, <1>t, GoType DEF CallEnds
  <2>2. cache' \in [kind : {"none", "ok", "err"}, at : Nat]
    BY <1>7, <1>t DEF CallEnds, RequestStates
  <2> QED
    BY <1>7, <2>1, <2>2 DEF CallEnds, TypeOK, RequestStates
<1> QED
  BY <1>1, <1>2, <1>3, <1>4, <1>5, <1>6, <1>7 DEF Request

LEMMA TypeInductive == ASSUME TypeOK, [Next]_vars PROVE TypeOK'
<1> USE DEF TypeOK, authVars, serverVars
<1>1. CASE StopBegins \/ ServeFails
  BY <1>1 DEF StopBegins, ServeFails
<1>2. CASE Stop
  BY <1>2 DEF Stop, ShutdownEnds, FinishEnds, FinishTimeout, CloseStore
<1>3. CASE Tick
  BY <1>3 DEF Tick
<1>4. CASE UNCHANGED vars
  BY <1>4 DEF vars
<1> QED
  BY <1>1, <1>2, <1>3, <1>4, RequestType DEF Next

LEMMA TypeInitially == Init => TypeOK
<1> SUFFICES ASSUME Init PROVE TypeOK
  OBVIOUS
<1>1. req \in [Requests -> RequestStates]
  BY NoRequestType DEF Init
<1> QED
  BY <1>1 DEF Init, TypeOK, NoEntry, RequestStates

\* Every reachable state has its type (Server, authenticator).
THEOREM TypeCorrect == Spec => []TypeOK
BY TypeInitially, TypeInductive, PTL DEF Spec

-----------------------------------------------------------------------------
(* Calls of the provider.                                                  *)

\* One request at most makes a call; while none does, the snapshot is that of the
\* last call.  Once the server stops no call begins, and if finish did wait for the
\* calls there is none left.
CallInv ==
    /\ \A r, q \in Calling : r = q
    /\ \A r \in Calling : req[r].at = lastCall
    /\ Calling = {} => \/ cache.kind = "none" /\ lastCall = Never
                       \/ cache.kind # "none" /\ cache.at = lastCall
    /\ server \in {"finish", "stopped", "closed"} => stopping
    /\ server \in {"stopped", "closed"} /\ ~late => Calling = {}

LEMMA CallsInductive == ASSUME TypeOK, CallInv, [Next]_vars PROVE CallInv'
<1> USE DEF authVars, serverVars
<1>t. req \in [Requests -> RequestStates]
  BY DEF TypeOK, RequestStates
\* A step of a request that calls nothing before nor after.
<1>s. ASSUME NEW r \in Requests, r \notin Calling, NEW s, s.pc # "call",
             req' = [req EXCEPT ![r] = s], UNCHANGED <<cache, serverVars, lastCall>>
      PROVE  CallInv'
  <2>1. Calling' = Calling /\ \A q \in Calling : req'[q] = req[q]
    BY <1>s, <1>t DEF Calling
  <2> QED
    BY <1>s, <2>1 DEF CallInv
<1>n. \A pc \in {"idle", "wait"} : [NoRequest EXCEPT !.pc = pc].pc = pc
  BY DEF NoRequest
<1>1. ASSUME NEW r \in Requests, NEW c \in Clients, ArriveKnown(r, c) \/ ArriveUnknown(r, c)
      PROVE  CallInv'
  <2>1. CASE Admit(r, c)
    <3>1. [NoRequest EXCEPT !.pc = "match", !.client = c].pc = "match"
      BY DEF NoRequest
    <3> QED
      BY <1>1, <2>1, <3>1, <1>s DEF Admit, ArriveKnown, ArriveUnknown, Arriving, Calling
  <2>2. CASE UNCHANGED req
    BY <1>1, <2>2 DEF ArriveKnown, ArriveUnknown, CallInv, Calling
  <2> QED
    BY <1>1, <2>1, <2>2 DEF ArriveKnown, ArriveUnknown
<1>2. ASSUME NEW r \in Requests, ArriveOpen(r) PROVE CallInv'
  BY <1>2, <1>s, <1>n DEF ArriveOpen, Arriving, Go, Calling
<1>3. ASSUME NEW r \in Requests, Match(r) PROVE CallInv'
  <2>1. [req[r] EXCEPT !.pc = "fail"].pc = "fail"
    BY <1>t DEF RequestStates
  <2> QED
    BY <1>3, <2>1, <1>s, <1>n DEF Match, Go, Calling
<1>4. ASSUME NEW r \in Requests, Fail(r) PROVE CallInv'
  BY <1>4, <1>s, <1>n DEF Fail, Go, Calling
<1>5. ASSUME NEW r \in Requests, Snapshot(r) PROVE CallInv'
  <2>1. CASE Remembered \/ ~MayBegin
    BY <1>5, <2>1, <1>s, <1>n DEF Snapshot, Go, Calling
  <2>2. CASE ~(Remembered \/ ~MayBegin)
    <3>1. Calling' = {r} /\ req'[r].at = lastCall'
      BY <1>5, <2>2, <1>t DEF Snapshot, Calling, RequestStates
    <3>2. ~stopping
      BY <2>2 DEF MayBegin
    <3> QED
      BY <1>5, <3>1, <3>2 DEF Snapshot, CallInv
  <2> QED
    BY <2>1, <2>2
<1>6. ASSUME NEW r \in Requests, CallEnds(r) PROVE CallInv'
  <2>1. r \in Calling /\ Calling' = {}
    BY <1>6, <1>n, <1>t DEF CallEnds, CallInv, Calling, Go
  <2>2. cache'.kind # "none" /\ cache'.at = lastCall'
    BY <1>6, <2>1 DEF CallEnds, CallInv
  <2> QED
    BY <1>6, <2>1, <2>2 DEF CallEnds, CallInv
<1>7. CASE StopBegins \/ ServeFails \/ Stop \/ Tick
  BY <1>7 DEF StopBegins, ServeFails, Stop, ShutdownEnds, FinishEnds, FinishTimeout, CloseStore,
              Tick, CallInv, Calling
<1>8. CASE UNCHANGED vars
  BY <1>8 DEF vars, CallInv, Calling
<1> QED
  BY <1>1, <1>2, <1>3, <1>4, <1>5, <1>6, <1>7, <1>8 DEF Next, Request

LEMMA CallInvHolds == Spec => []CallInv
<1>1. Init => CallInv
  BY DEF Init, CallInv, Calling, NoRequest, Never
<1> QED
  BY <1>1, TypeCorrect, CallsInductive, PTL DEF Spec

\* The store is closed with no call running, unless finish gave up waiting
\* (server.go, beginCall and finish).
THEOREM NoCallAfterClose == Spec => []NoCallOnClosedStore
<1>1. CallInv => NoCallOnClosedStore
  BY DEF CallInv, NoCallOnClosedStore
<1> QED
  BY <1>1, CallInvHolds, PTL

LEMMA OnlySnapshotCalls ==
    ASSUME [Next]_vars, lastCall' # lastCall
    PROVE  \E r \in Requests : Snapshot(r) /\ ~Remembered /\ lastCall' = clock
BY DEF Next, Request, ArriveKnown, ArriveUnknown, ArriveOpen, Match, Fail, Snapshot, CallEnds,
       StopBegins, ServeFails, Stop, ShutdownEnds, FinishEnds, FinishTimeout, CloseStore, Tick, vars

\* Calls begin at least cacheTTL apart (server.go, snapshot).
THEOREM CallsAreSpaced == Spec => SpacedCalls
<1>1. TypeOK /\ CallInv /\ [Next]_vars =>
         [lastCall' # lastCall => lastCall' - lastCall >= CacheTTL]_vars
  <2> SUFFICES ASSUME TypeOK, CallInv, [Next]_vars, lastCall' # lastCall
               PROVE  lastCall' - lastCall >= CacheTTL
    OBVIOUS
  <2>1. PICK r \in Requests : Snapshot(r) /\ ~Remembered /\ lastCall' = clock
    BY OnlySnapshotCalls
  <2>2. Calling = {}
    BY <2>1 DEF Snapshot
  <2>3. CASE cache.kind = "none" /\ lastCall = Never
    BY <2>1, <2>3, ParameterTypes DEF Never, TypeOK
  <2>4. CASE cache.kind # "none" /\ cache.at = lastCall
    BY <2>1, <2>4, ParameterTypes DEF Remembered, TypeOK
  <2> QED
    BY <2>2, <2>3, <2>4 DEF CallInv
<1> QED
  BY <1>1, TypeCorrect, CallInvHolds, PTL DEF Spec, SpacedCalls

-----------------------------------------------------------------------------
(* Locked clients and a full table.                                        *)

\* A client is locked as long as its entry says so, and the entry stays.
LockedInv ==
    \A c \in Clients :
        clock < locked[c] =>
            fails[c].count >= MaxFailures /\ fails[c].start + Window = locked[c]

\* Newcomers wait no longer than until the first entry of a table of locked
\* clients ends.
FullInv ==
    clock < fullUntil =>
        /\ Full(fails)
        /\ \A c \in Tracked(fails) :
              fails[c].count >= MaxFailures /\ fullUntil <= fails[c].start + Window

\* What is dropped or begun anew was not locked.
LEMMA DroppedIsNotLocked ==
    ASSUME TypeOK, LockedInv, NEW c \in Clients, Expired(fails[c]) \/ fails[c].count < MaxFailures
    PROVE  ~(clock < locked[c])
<1>1. fails[c].start \in Nat /\ fails[c].count \in Nat /\ clock \in Nat /\ locked[c] \in Nat
  BY DEF TypeOK
<1> QED
  BY <1>1, ParameterTypes DEF LockedInv, Expired

LEMMA DroppingKeepsLocked ==
    ASSUME TypeOK, LockedInv, locked' = locked, clock' = clock,
           \A c \in Clients :
              fails'[c] = fails[c] \/ Expired(fails[c]) \/ fails[c].count < MaxFailures
    PROVE  LockedInv'
<1> SUFFICES ASSUME NEW c \in Clients, clock < locked[c]
             PROVE  fails'[c].count >= MaxFailures /\ fails'[c].start + Window = locked[c]
  BY DEF LockedInv
<1>1. fails'[c] = fails[c]
  BY DroppedIsNotLocked
<1> QED
  BY <1>1 DEF LockedInv

LEMMA UnlockedCount == ASSUME NEW c, fails[c].count = 0 PROVE fails[c].count < MaxFailures
BY ParameterTypes

LEMMA FailKeepsLocked ==
    ASSUME TypeOK, LockedInv, NEW r \in Requests, Fail(r)
    PROVE  LockedInv'
<1>1. PICK c \in Clients, table \in [Clients -> Entries], entry \in Entries :
              /\ entry = IF fails[c].count = 0 \/ Expired(fails[c])
                         THEN [start |-> clock, count |-> 1]
                         ELSE [start |-> fails[c].start, count |-> fails[c].count + 1]
              /\ \/ table = fails
                 \/ table = Space.table
              /\ \/ fails' = table /\ locked' = locked
                 \/ /\ fails' = [table EXCEPT ![c] = entry]
                    /\ locked' = IF entry.count >= MaxFailures
                                 THEN [locked EXCEPT ![c] = entry.start + Window] ELSE locked
  BY FailFacts
<1>2. \A d \in Clients : table[d] = fails[d] \/ Expired(fails[d]) \/ fails[d].count < MaxFailures
  BY <1>1, SpaceFacts
<1>3. clock' = clock
  BY DEF Fail
<1>4. CASE fails' = table /\ locked' = locked
  BY <1>2, <1>3, <1>4, DroppingKeepsLocked
<1>5. CASE /\ fails' = [table EXCEPT ![c] = entry]
           /\ locked' = IF entry.count >= MaxFailures
                        THEN [locked EXCEPT ![c] = entry.start + Window] ELSE locked
  <2> SUFFICES ASSUME NEW d \in Clients, clock < locked'[d]
               PROVE  fails'[d].count >= MaxFailures /\ fails'[d].start + Window = locked'[d]
    BY <1>3 DEF LockedInv
  <2>t. locked \in [Clients -> Nat] /\ fails[d].count \in Nat /\ fails[d].start \in Nat
    BY DEF TypeOK
  <2>1. CASE d # c
    <3>1. locked'[d] = locked[d] /\ fails'[d] = table[d]
      BY <1>5, <2>1, <2>t
    <3>2. table[d] = fails[d]
      BY <1>2, <3>1, DroppedIsNotLocked
    <3> QED
      BY <3>1, <3>2 DEF LockedInv
  <2>2. CASE d = c /\ entry.count >= MaxFailures
    BY <1>5, <2>2, <2>t
  <2>3. CASE d = c /\ ~(entry.count >= MaxFailures)
    <3>1. locked'[d] = locked[d]
      BY <1>5, <2>3
    <3>2. ~Expired(fails[c]) /\ ~(fails[c].count < MaxFailures)
      BY <2>3, <3>1, DroppedIsNotLocked
    <3>3. entry.count = fails[c].count + 1
      BY <1>1, <3>2, <2>3, UnlockedCount
    <3> QED
      BY <2>3, <2>t, <3>2, <3>3, ParameterTypes
  <2> QED
    BY <2>1, <2>2, <2>3
<1> QED
  BY <1>1, <1>4, <1>5

LEMMA LockedInductive == ASSUME TypeOK, LockedInv, [Next]_vars PROVE LockedInv'
<1> USE DEF authVars, serverVars
<1>t. fails \in [Clients -> Entries]
  BY DEF TypeOK, Entries
<1>1. ASSUME NEW r \in Requests, NEW c \in Clients, ArriveKnown(r, c) PROVE LockedInv'
  <2>1. \A d \in Clients : fails'[d] = fails[d] \/ Expired(fails[d])
    BY <1>1, <1>t, WithoutKeeps DEF ArriveKnown
  <2> QED
    BY <1>1, <2>1, DroppingKeepsLocked DEF ArriveKnown
<1>2. ASSUME NEW r \in Requests, NEW c \in Clients, ArriveUnknown(r, c) PROVE LockedInv'
  <2>1. \A d \in Clients : fails'[d] = fails[d] \/ Expired(fails[d]) \/ fails[d].count < MaxFailures
    BY <1>2, SpaceFacts DEF ArriveUnknown
  <2> QED
    BY <1>2, <2>1, DroppingKeepsLocked DEF ArriveUnknown
<1>3. ASSUME NEW r \in Requests, ArriveOpen(r) \/ Match(r) \/ Snapshot(r) \/ CallEnds(r)
      PROVE  LockedInv'
  BY <1>3 DEF ArriveOpen, Match, Snapshot, CallEnds, LockedInv
<1>4. CASE StopBegins \/ ServeFails \/ Stop \/ UNCHANGED vars
  BY <1>4 DEF StopBegins, ServeFails, Stop, ShutdownEnds, FinishEnds, FinishTimeout, CloseStore,
              vars, LockedInv
<1>5. CASE Tick
  <2>1. \A c \in Clients : clock \in Nat /\ locked[c] \in Nat
    BY DEF TypeOK
  <2> QED
    BY <1>5, <2>1 DEF Tick, LockedInv
<1> QED
  BY <1>1, <1>2, <1>3, <1>4, <1>5, FailKeepsLocked DEF Next, Request

LEMMA LockedInvHolds == Spec => []LockedInv
<1>1. Init => LockedInv
  BY DEF Init, LockedInv
<1> QED
  BY <1>1, TypeCorrect, LockedInductive, PTL DEF Spec

\* Only who arrives gets as far as the password.
LEMMA OnlyArrivalsMatch ==
    ASSUME TypeOK, [Next]_vars, NEW r \in Requests, req'[r].pc = "match", req[r].pc # "match"
    PROVE  \E c \in Clients : /\ ArriveKnown(r, c) \/ ArriveUnknown(r, c)
                              /\ req'[r].client = c
<1>t. req \in [Requests -> RequestStates]
  BY DEF TypeOK, RequestStates
<1>1. \A pc : [NoRequest EXCEPT !.pc = pc].pc = pc
  BY DEF NoRequest
<1>2. ASSUME NEW q \in Requests, NEW pc \in {"idle", "wait"}, Go(q, pc) PROVE FALSE
  BY <1>1, <1>2, <1>t DEF Go
<1>3. PICK q \in Requests : Request(q)
  BY <1>t DEF Next, StopBegins, ServeFails, Stop, ShutdownEnds, FinishEnds, FinishTimeout,
              CloseStore, Tick, vars
<1>4. ~(ArriveOpen(q) \/ Fail(q) \/ CallEnds(q))
  BY <1>2 DEF ArriveOpen, Fail, CallEnds
<1>5. ~Match(q)
  BY <1>2, <1>t DEF Match, RequestStates
<1>6. ~Snapshot(q)
  BY <1>2, <1>t DEF Snapshot, RequestStates
<1>7. PICK c \in Clients : ArriveKnown(q, c) \/ ArriveUnknown(q, c)
  BY <1>3, <1>4, <1>5, <1>6 DEF Request
<1>8. Admit(q, c)
  BY <1>7 DEF ArriveKnown, ArriveUnknown
<1>9. [NoRequest EXCEPT !.pc = "match", !.client = c].client = c
  BY DEF NoRequest
<1> QED
  BY <1>7, <1>8, <1>9, <1>t DEF Admit

\* Until its window ends no request of a locked client is let through, whatever
\* other clients do to the table (auth.go, blockedFor, pruneLocked, fail).
THEOREM LockedClientsAreRefused == Spec => LockedIsRefused
<1>1. TypeOK /\ LockedInv /\ [Next]_vars =>
         [\A r \in Requests :
            req'[r].pc = "match" /\ req[r].pc # "match" => clock >= locked[req'[r].client]]_vars
  <2> SUFFICES ASSUME TypeOK, LockedInv, [Next]_vars, NEW r \in Requests,
                      req'[r].pc = "match", req[r].pc # "match"
               PROVE  clock >= locked[req'[r].client]
    OBVIOUS
  <2>1. PICK c \in Clients : /\ ArriveKnown(r, c) \/ ArriveUnknown(r, c)
                             /\ req'[r].client = c
    BY OnlyArrivalsMatch
  <2>2. fails[c].count \in Nat /\ clock \in Nat /\ locked[c] \in Nat
    BY DEF TypeOK
  <2>3. Expired(fails[c]) \/ fails[c].count < MaxFailures
    BY <2>1, <2>2, ParameterTypes DEF ArriveKnown, ArriveUnknown, Tracked
  <2> QED
    BY <2>1, <2>2, <2>3, DroppedIsNotLocked
<1> QED
  BY <1>1, TypeCorrect, LockedInvHolds, PTL DEF Spec, LockedIsRefused

\* A table of which newcomers wait for the first end holds locked clients only.
LEMMA WaitIsFull ==
    ASSUME TypeOK, FullInv, clock' = clock, fails' = Space.table, fullUntil' = Space.until
    PROVE  FullInv'
<1>1. CASE Space.until = fullUntil /\ Space.table = fails
  BY <1>1 DEF FullInv, Full, Tracked
<1>2. CASE Space.until = fullUntil /\ clock >= fullUntil
  BY <1>2 DEF FullInv, TypeOK
<1>3. CASE /\ Full(Space.table)
           /\ \A c \in Tracked(Space.table) :
                 /\ Space.table[c].count >= MaxFailures
                 /\ Space.until <= Space.table[c].start + Window
  BY <1>3 DEF FullInv, Full, Tracked
<1> QED
  BY <1>1, <1>2, <1>3, SpaceFacts

LEMMA FailKeepsFull ==
    ASSUME TypeOK, FullInv, NEW r \in Requests, Fail(r)
    PROVE  FullInv'
<1>1. PICK c \in Clients, table \in [Clients -> Entries], entry \in Entries :
              /\ entry = IF fails[c].count = 0 \/ Expired(fails[c])
                         THEN [start |-> clock, count |-> 1]
                         ELSE [start |-> fails[c].start, count |-> fails[c].count + 1]
              /\ \/ table = fails /\ fullUntil' = fullUntil /\ (fails[c].count > 0 \/ ~Full(fails))
                 \/ /\ table = Space.table /\ fullUntil' = Space.until
                    /\ fails[c].count = 0 /\ Full(fails)
              /\ \/ /\ fails[c].count = 0 /\ Full(fails) /\ ~Space.room
                    /\ fails' = table
                 \/ /\ fails[c].count > 0 \/ ~Full(fails) \/ Space.room
                    /\ fails' = [table EXCEPT ![c] = entry]
  BY FailFacts
<1>2. clock' = clock
  BY DEF Fail
<1>t. /\ clock \in Nat /\ fullUntil \in Nat /\ fails \in [Clients -> Entries]
      /\ fails[c].start \in Nat /\ fails[c].count \in Nat
  BY DEF TypeOK, Entries
<1> SUFFICES ASSUME clock < fullUntil' PROVE FullInv'
  BY <1>2 DEF FullInv
<1>3. CASE table = Space.table /\ fullUntil' = Space.until /\ fails[c].count = 0 /\ Full(fails)
  <2>1. ~Space.room
    BY <1>3, <1>t, SpaceFacts
  <2>2. fails' = Space.table
    BY <1>1, <1>3, <1>t, <2>1
  <2> QED
    BY <1>2, <1>3, <2>2, WaitIsFull
<1>4. CASE table = fails /\ fullUntil' = fullUntil /\ (fails[c].count > 0 \/ ~Full(fails))
  <2>1. /\ Full(fails)
        /\ \A d \in Tracked(fails) :
              fails[d].count >= MaxFailures /\ fullUntil <= fails[d].start + Window
    BY <1>4 DEF FullInv
  <2>2. c \in Tracked(fails)
    BY <1>4, <2>1 DEF Tracked
  <2>3. ~Expired(fails[c])
    BY <1>4, <2>1, <2>2, <1>t, ParameterTypes DEF Expired
  <2>4. entry = [start |-> fails[c].start, count |-> fails[c].count + 1]
    BY <1>1, <1>t, <2>2, <2>3 DEF Tracked
  <2>5. fails' = [fails EXCEPT ![c] = entry]
    BY <1>1, <1>4, <1>t
  <2>6. Tracked(fails') = Tracked(fails)
    BY <1>t, <2>2, <2>4, <2>5 DEF Tracked
  <2>7. Full(fails')
    BY <2>1, <2>6 DEF Full
  <2>8. ASSUME NEW d \in Tracked(fails')
        PROVE  fails'[d].count >= MaxFailures /\ fullUntil <= fails'[d].start + Window
    <3>1. CASE d = c
      <4>1. fails'[d].start = fails[c].start /\ fails'[d].count = fails[c].count + 1
        BY <1>t, <2>4, <2>5, <3>1
      <4> QED
        BY <1>t, <2>1, <2>2, <4>1, ParameterTypes
    <3>2. CASE d # c
      BY <2>1, <2>5, <2>6, <2>8, <3>2
    <3> QED
      BY <3>1, <3>2
  <2> QED
    BY <1>2, <1>4, <2>7, <2>8 DEF FullInv
<1> QED
  BY <1>1, <1>3, <1>4

LEMMA FullInductive == ASSUME TypeOK, FullInv, [Next]_vars PROVE FullInv'
<1> USE DEF authVars, serverVars
<1>t. clock \in Nat /\ fullUntil \in Nat /\ fails \in [Clients -> Entries]
  BY DEF TypeOK, Entries
<1>1. ASSUME NEW r \in Requests, NEW c \in Clients, ArriveKnown(r, c) PROVE FullInv'
  <2>1. fails[c].count \in Nat /\ fails[c].start \in Nat
    BY <1>t DEF Entries
  <2>2. ~(clock < fullUntil)
    BY <1>1, <1>t, <2>1, ParameterTypes DEF ArriveKnown, FullInv, Expired
  <2> QED
    BY <1>1, <2>2 DEF ArriveKnown, FullInv
<1>2. ASSUME NEW r \in Requests, NEW c \in Clients, ArriveUnknown(r, c) PROVE FullInv'
  <2>1. CASE Full(fails)
    BY <1>2, <2>1, WaitIsFull DEF ArriveUnknown
  <2>2. CASE ~Full(fails)
    BY <1>2, <2>2 DEF ArriveUnknown, FullInv
  <2> QED
    BY <2>1, <2>2
<1>3. ASSUME NEW r \in Requests, ArriveOpen(r) \/ Match(r) \/ Snapshot(r) \/ CallEnds(r)
      PROVE  FullInv'
  BY <1>3 DEF ArriveOpen, Match, Snapshot, CallEnds, FullInv, Full, Tracked
<1>4. CASE StopBegins \/ ServeFails \/ Stop \/ UNCHANGED vars
  BY <1>4 DEF StopBegins, ServeFails, Stop, ShutdownEnds, FinishEnds, FinishTimeout, CloseStore,
              vars, FullInv, Full, Tracked
<1>5. CASE Tick
  BY <1>5, <1>t DEF Tick, FullInv, Full, Tracked
<1> QED
  BY <1>1, <1>2, <1>3, <1>4, <1>5, FailKeepsFull DEF Next, Request

\* While newcomers are turned away the table is full of locked clients, whose
\* windows have not ended (auth.go, spaceLocked and pruneLocked).
THEOREM OnlyLockedFillTheTable == Spec => []FullMeansLocked
<1>1. Init => FullInv
  BY DEF Init, FullInv
<1>2. TypeOK /\ FullInv => FullMeansLocked
  <2> SUFFICES ASSUME TypeOK, FullInv, clock < fullUntil, NEW c \in Tracked(fails)
               PROVE  Full(fails) /\ fails[c].count >= MaxFailures /\ ~Expired(fails[c])
    BY DEF FullMeansLocked, FullInv
  <2>1. fails[c].start \in Nat /\ clock \in Nat /\ fullUntil \in Nat
    BY DEF TypeOK, Tracked
  <2> QED
    BY <2>1, ParameterTypes DEF FullInv, Expired
<1> QED
  BY <1>1, <1>2, TypeCorrect, FullInductive, PTL DEF Spec
=============================================================================
