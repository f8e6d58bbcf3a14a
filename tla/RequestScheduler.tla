-------------------------- MODULE RequestScheduler --------------------------
(***************************************************************************)
(* The queues of tool requests in the extension's background worker:       *)
(* extension/src/lib/request-scheduler.ts, with its callers in             *)
(* background/index.ts (dispatch, tabs.onRemoved) and in                   *)
(* cleanupClosedSession (lib/events.ts).                                   *)
(*                                                                         *)
(* A queue is the entry being executed (`running`) and the entries behind  *)
(* it, a set with the order of arrival (turn): push, shift and filter are  *)
(* all the code applies to the list.  The handler of a request (`work`) may *)
(* outlive the request: an expired request is answered and its signal      *)
(* aborted, but nothing stops what its handler awaits.                     *)
(***************************************************************************)
EXTENDS Naturals, FiniteSets

CONSTANTS
    Requests,         \* tool requests, each dispatched at most once
    Tabs, Sessions,   \* keys of tabQueues and of sessionQueues
    Global,           \* the one key of globalQueues
    Unqueued,         \* queue: 'none'
    NoRequest, NoMeta,
    MaxPendingPerTab, MaxPendingGlobal,
    MaxRestarts       \* bound: how often the worker is restarted

Queues == Tabs \cup Sessions \cup {Global}

ASSUME SchedulerAssumption ==
    /\ Unqueued \notin Queues
    /\ NoRequest \notin Requests
    /\ IsFiniteSet(Requests)
    /\ MaxPendingPerTab \in Nat /\ MaxPendingGlobal \in Nat /\ MaxRestarts \in Nat

VARIABLES
    meta,       \* meta[r]: session and queue, once r has an entry
    fate,       \* fate[r]: how far r has come; its answer once it is settled
    turn, arrivals,  \* r was the turn[r]-th of all requests to be queued
    active,     \* active[q]: the entry whose execute() is under way, if q is running
    entries,    \* entries[q]: the entries queued behind it
    pending,    \* globalPending
    overdue,    \* the requests whose expiresAt is not in the future
    working,    \* the requests whose handler has been invoked and has not settled
    closed,     \* closedSessions: the ids that have a tombstone
    restarts

vars == <<meta, fate, turn, arrivals, active, entries, pending, overdue, working, closed,
          restarts>>

\* "done" is the result of the handler or its error.
Answers == {"done", "REQUEST_EXPIRED", "SESSION_CLOSED", "TAB_CLOSED",
            "QUEUE_OVERLOADED", "EXTENSION_WORKER_RESTARTED"}
Fates == {"idle", "queued", "running"} \cup Answers

QueueOf(r) == meta[r].queue
SessionOf(r) == meta[r].session

\* The entries behind r in its queue; none for a request that is not queued at all.
Behind(r) == IF QueueOf(r) \in Queues THEN entries[QueueOf(r)] ELSE {}

-----------------------------------------------------------------------------
(* execute(): what its `finally` block does with the entries E left behind. *)

Skipped_None(E) == {}

\* Entries at the head that have expired are shifted and answered one after the other,
\* without a handler; the first that has not is the one executed next.
Skipped(E) == {r \in E : \A d \in E : turn[d] <= turn[r] => d \in overdue}

Unexpired(E) == E \ Skipped(E)

Successor_Newest(E) ==
    IF Unexpired(E) = {} THEN NoRequest
    ELSE CHOOSE r \in Unexpired(E) : \A d \in Unexpired(E) : turn[d] <= turn[r]

Successor_Nobody(E) == NoRequest

Successor(E) ==
    IF Unexpired(E) = {} THEN NoRequest
    ELSE CHOOSE r \in Unexpired(E) : \A d \in Unexpired(E) : turn[r] <= turn[d]

LeftOf(E) == Unexpired(E) \ {Successor(E)}

PendingAfter_AlwaysOne(E) == pending - 1

PendingAfter_OnlyTheNext(E) == pending - Cardinality({Successor(E)} \ {NoRequest})

\* globalPending -= 1 for every entry shifted.
PendingAfter(E) == pending - Cardinality(E \ LeftOf(E))

\* r is answered and its queue moves on; handlers is `working` without those that ended.
Settle(r, answer, handlers) ==
    LET E == Behind(r) IN
    /\ active' = [q \in Queues |-> IF q = QueueOf(r) THEN Successor(E) ELSE active[q]]
    /\ entries' = [q \in Queues |-> IF q = QueueOf(r) THEN LeftOf(E) ELSE entries[q]]
    /\ pending' = PendingAfter(E)
    /\ fate' = [d \in Requests |-> IF d = r THEN answer
                                   ELSE IF d \in Skipped(E) THEN "REQUEST_EXPIRED"
                                   ELSE IF d = Successor(E) THEN "running" ELSE fate[d]]
    /\ working' = handlers \cup ({Successor(E)} \ {NoRequest})
    /\ UNCHANGED <<meta, turn, arrivals, overdue, closed, restarts>>

-----------------------------------------------------------------------------
(* enqueue(), runUnqueued()                                                *)

\* Request r of session s, for queue q: a tab's, the session's own, the global one, or none.
Dispatched(r, s, q) ==
    /\ fate[r] = "idle"
    /\ q \in Tabs \cup {s, Global, Unqueued}
    /\ UNCHANGED <<overdue, closed, restarts>>

Refused(r, answer) ==
    /\ fate' = [fate EXCEPT ![r] = answer]
    /\ UNCHANGED <<meta, turn, arrivals, active, entries, pending, working>>

Busy_EntriesBehind(q) == q \in Queues /\ entries[q] # {}

Busy(q) == q \in Queues /\ active[q] # NoRequest

\* Only tab queues have a bound of their own.
Full(q) ==
    \/ q \in Tabs /\ Cardinality(entries[q]) >= MaxPendingPerTab
    \/ pending >= MaxPendingGlobal

Barred(s) == s \in closed

RejectClosed(r, s, q) ==
    /\ Dispatched(r, s, q)
    /\ Barred(s)
    /\ Refused(r, "SESSION_CLOSED")

RejectOverload(r, s, q) ==
    /\ Dispatched(r, s, q)
    /\ ~ Barred(s)
    /\ Busy(q) /\ Full(q)
    /\ Refused(r, "QUEUE_OVERLOADED")

Enqueue(r, s, q) ==
    /\ Dispatched(r, s, q)
    /\ ~ Barred(s)
    /\ Busy(q) /\ ~ Full(q)
    /\ meta' = [meta EXCEPT ![r] = [session |-> s, queue |-> q]]
    /\ turn' = [turn EXCEPT ![r] = arrivals + 1]
    /\ arrivals' = arrivals + 1
    /\ entries' = [entries EXCEPT ![q] = @ \cup {r}]
    /\ pending' = pending + 1
    /\ fate' = [fate EXCEPT ![r] = "queued"]
    /\ UNCHANGED <<active, working>>

\* Nothing to wait for, but the request has expired on its way here.
ExpireAtOnce(r, s, q) ==
    /\ Dispatched(r, s, q)
    /\ ~ Barred(s)
    /\ ~ Busy(q)
    /\ Refused(r, "REQUEST_EXPIRED")

StartAtOnce(r, s, q) ==
    /\ Dispatched(r, s, q)
    /\ ~ Barred(s)
    /\ ~ Busy(q)
    /\ meta' = [meta EXCEPT ![r] = [session |-> s, queue |-> q]]
    /\ active' = [p \in Queues |-> IF p = q THEN r ELSE active[p]]
    /\ fate' = [fate EXCEPT ![r] = "running"]
    /\ working' = working \cup {r}
    /\ UNCHANGED <<turn, arrivals, entries, pending>>

-----------------------------------------------------------------------------
(* runWithDeadline()                                                       *)

\* The handler of r settles.  When r was answered before, nobody listens any more.
WorkEnds(r) ==
    /\ r \in working
    /\ IF fate[r] = "running"
       THEN Settle(r, "done", working \ {r})
       ELSE /\ working' = working \ {r}
            /\ UNCHANGED <<meta, fate, turn, arrivals, active, entries, pending, overdue,
                           closed, restarts>>

\* Time passes expiresAt, while r is queued or executed.
DeadlinePasses(r) ==
    /\ r \notin overdue
    /\ fate[r] \in {"queued", "running"}
    /\ overdue' = overdue \cup {r}
    /\ UNCHANGED <<meta, fate, turn, arrivals, active, entries, pending, working, closed,
                   restarts>>

\* The deadline timer: abort the handler's signal, answer, and let the queue move on.
TimesOut(r) ==
    /\ fate[r] = "running" /\ r \in overdue
    /\ Settle(r, "REQUEST_EXPIRED", working)

-----------------------------------------------------------------------------
(* rejectQueued()                                                          *)

RejectQueued(R, answer) ==
    /\ entries' = [q \in Queues |-> entries[q] \ R]
    /\ pending' = pending - Cardinality(R)
    /\ fate' = [r \in Requests |-> IF r \in R THEN answer ELSE fate[r]]
    /\ UNCHANGED <<meta, turn, arrivals, active, overdue, working, restarts>>

\* chrome.tabs.onRemoved: cancelTab.
TabCloses(t) ==
    /\ entries[t] # {}
    /\ RejectQueued(entries[t], "TAB_CLOSED")
    /\ UNCHANGED closed

InQueue(s, q) == {r \in entries[q] : SessionOf(r) = s}

QueuedFor_OwnQueue(s) == InQueue(s, s)

\* The entries of session s, in whichever queue they are.
QueuedFor(s) == UNION {InQueue(s, q) : q \in Queues}

\* session_closed: cancelSession(s, "SESSION_CLOSED").
SessionCloses(s) ==
    /\ s \notin closed
    /\ closed' = closed \cup {s}
    /\ RejectQueued(QueuedFor(s), "SESSION_CLOSED")

\* SESSION_TOMBSTONE_TTL_MS have passed, or MAX_SESSION_TOMBSTONES newer ones have come.
TombstoneLapses(s) ==
    /\ s \in closed
    /\ closed' = closed \ {s}
    /\ UNCHANGED <<meta, fate, turn, arrivals, active, entries, pending, overdue, working,
                   restarts>>

-----------------------------------------------------------------------------

\* The worker dies, its queues, handlers and tombstones with it; the offscreen document
\* answers what it had forwarded.
WorkerRestarts ==
    /\ restarts < MaxRestarts
    /\ restarts' = restarts + 1
    /\ fate' = [r \in Requests |-> IF fate[r] \in {"queued", "running"}
                                   THEN "EXTENSION_WORKER_RESTARTED" ELSE fate[r]]
    /\ active' = [q \in Queues |-> NoRequest]
    /\ entries' = [q \in Queues |-> {}]
    /\ pending' = 0
    /\ working' = {} /\ closed' = {}
    /\ UNCHANGED <<meta, turn, arrivals, overdue>>

-----------------------------------------------------------------------------

Init ==
    /\ meta = [r \in Requests |-> NoMeta]
    /\ fate = [r \in Requests |-> "idle"]
    /\ turn = [r \in Requests |-> 0]
    /\ arrivals = 0
    /\ active = [q \in Queues |-> NoRequest]
    /\ entries = [q \in Queues |-> {}]
    /\ pending = 0
    /\ overdue = {} /\ working = {} /\ closed = {}
    /\ restarts = 0

Dispatch(r, s, q) ==
    \/ RejectClosed(r, s, q) \/ RejectOverload(r, s, q) \/ Enqueue(r, s, q)
    \/ ExpireAtOnce(r, s, q) \/ StartAtOnce(r, s, q)

Next ==
    \/ \E r \in Requests, s \in Sessions, q \in Queues \cup {Unqueued} : Dispatch(r, s, q)
    \/ \E r \in Requests : WorkEnds(r) \/ DeadlinePasses(r) \/ TimesOut(r)
    \/ \E t \in Tabs : TabCloses(t)
    \/ \E s \in Sessions : SessionCloses(s) \/ TombstoneLapses(s)
    \/ WorkerRestarts

Spec == Init /\ [][Next]_vars

\* Clocks and timers only: no handler is assumed ever to settle.
Timers == \A r \in Requests : WF_vars(DeadlinePasses(r)) /\ WF_vars(TimesOut(r))

FairSpec == Spec /\ Timers

-----------------------------------------------------------------------------
(* Properties                                                              *)

Metas == [session : Sessions, queue : Queues \cup {Unqueued}]

\* Every variable stays in its range.
TypeOK ==
    /\ meta \in [Requests -> Metas \cup {NoMeta}]
    /\ fate \in [Requests -> Fates]
    /\ turn \in [Requests -> Nat] /\ arrivals \in Nat
    /\ active \in [Queues -> Requests \cup {NoRequest}]
    /\ entries \in [Queues -> SUBSET Requests]
    /\ pending \in Nat
    /\ overdue \in SUBSET Requests /\ working \in SUBSET Requests
    /\ closed \in SUBSET Sessions
    /\ restarts \in 0..MaxRestarts

\* globalPending is the number of queued requests, however they leave their queues: by
\* being started, skipped as expired, or rejected for their tab or their session.
PendingIsExact == pending = Cardinality({r \in Requests : fate[r] = "queued"})

\* "At most 100 pending requests per tab; at most 500 pending scheduled requests."
BoundsHold ==
    /\ pending <= MaxPendingGlobal
    /\ \A t \in Tabs : Cardinality(entries[t]) <= MaxPendingPerTab

\* No queue is stuck: behind every queued entry's back something runs whose end will move
\* the queue on, and the queues hold exactly the queued requests.
QueuesAreServed ==
    /\ \A q \in Queues :
          /\ entries[q] # {} => active[q] # NoRequest
          /\ active[q] # NoRequest =>
                fate[active[q]] = "running" /\ QueueOf(active[q]) = q
          /\ \A r \in entries[q] : fate[r] = "queued" /\ QueueOf(r) = q
    /\ \A r \in Requests : fate[r] = "queued" => r \in Behind(r)

\* Two handlers of one queue overlap only when all but one of them belong to requests that
\* have expired: they were told to stop.
OnlyAbortedWorkOverlaps ==
    \A r \in working :
       QueueOf(r) \in Queues =>
          active[QueueOf(r)] = r \/ fate[r] = "REQUEST_EXPIRED"

\* "Closes a session without interrupting running work or starting later work": nothing of
\* a closed session is queued, so nothing of it can start.  It is closed while its tombstone
\* lasts; the queues hold nothing of it when that lapses.
ClosedSessionsDoNotQueue ==
    \A r \in Requests : fate[r] = "queued" => SessionOf(r) \notin closed

Starts(r) == fate[r] # "running" /\ fate'[r] = "running"

\* Requests of one queue start in the order they were dispatched: none is overtaken while
\* it waits.
StartsInOrder ==
    [][\A r, d \in Requests :
          Starts(r) /\ fate[r] = "queued" /\ fate[d] = "queued"
             /\ QueueOf(d) = QueueOf(r) /\ turn[d] < turn[r]
          => fate'[d] # "queued"]_vars

\* "A request that expires before it starts is rejected without invoking its handler", and
\* no handler is invoked for a session that has closed, as long as its tombstone lasts.
NothingStartsLate ==
    [][\A r \in Requests :
          Starts(r) => r \notin overdue /\ meta'[r].session \notin closed]_vars

-----------------------------------------------------------------------------
(* The scheduler implements ServedInTurn                                   *)

IsOpen(r) == fate[r] \in {"queued", "running"}

\* Where a request stands that has not been answered.
PlaceOf == [r \in Requests |-> IF IsOpen(r) THEN QueueOf(r) ELSE Unqueued]

\* A queued request waits for the active entry of its queue and for the entries before it.
AheadOf ==
    [r \in Requests |->
       IF fate[r] = "queued"
       THEN {active[QueueOf(r)]} \cup {d \in Behind(r) : turn[d] < turn[r]}
       ELSE {}]

Promise == INSTANCE ServedInTurn WITH place <- PlaceOf, ahead <- AheadOf

\* Whatever is rejected, skipped or answered late, callers see requests served in turn: one
\* runs at the step in which the last request it found before it is answered, and never
\* earlier; a queue neither loses nor reorders whom it keeps, nor pauses.
ImplementsServedInTurn == Promise!Spec

-----------------------------------------------------------------------------

\* Every request dispatched is answered, even when no handler ever settles.
EveryRequestAnswered ==
    \A r \in Requests : fate[r] \in {"queued", "running"} ~> fate[r] \in Answers
=============================================================================
