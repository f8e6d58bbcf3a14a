-------------------------- MODULE SessionLifecycle --------------------------
(***************************************************************************)
(* Sessions of the hub, from registerSession to finalization: the bindings *)
(* of session-connections.ts, the generations, grace timers and finalizers *)
(* of ws-server.ts, the client that reconnects and rotates its id          *)
(* (connectAsClient, session-incarnation.ts), and the session ids the      *)
(* extension's scheduler refuses (closedSessions in request-scheduler.ts). *)
(*                                                                         *)
(* A WebSocket is two ends that close in either order; each end learns of  *)
(* the other's closing late (close event, heartbeat or liveness sweep).    *)
(* One session request of a client is under way at a time, so a socket     *)
(* carries at most one request and one reply.                              *)
(*                                                                         *)
(* The finalizer waits only for the recordings being persisted; its other  *)
(* awaits are of promises already settled, whose continuations Node runs   *)
(* before the next message or timer.  So what follows the wait is one      *)
(* action, inside which destructiveFinalizerOwners is set and cleared.     *)
(***************************************************************************)
EXTENDS Naturals, FiniteSets

CONSTANTS
    Clients,      \* MCP processes in client mode
    Ids,          \* session ids (UUIDs) the clients can draw
    OwnId,        \* the id of the hub process's own session, bound to no socket
    Sockets,
    NoId, NoSocket,
    MaxDrops,     \* bound: connections lost without either process asking for it
    MaxPersists,  \* bound: recordings of a session being persisted at a time
    MaxRestarts,  \* bound: restarts of the hub process after an orderly shutdown
    MaxCrashes    \* bound: restarts of the hub process after a crash

ASSUME LifecycleAssumption ==
    /\ OwnId \notin Ids
    /\ NoId \notin Ids \cup {OwnId}
    /\ NoSocket \notin Sockets
    /\ MaxDrops \in Nat /\ MaxPersists \in Nat
    /\ MaxRestarts \in Nat /\ MaxCrashes \in Nat

VARIABLES
    \* The clients and the sockets.
    phase,        \* phase[c]: where the client's connection loop is
    identity,     \* identity[c]: SessionIncarnation.currentSessionId
    drawn,        \* the ids drawn so far by randomUUID
    socketOf,     \* socketOf[c]: the client's `ws`
    clientEnd, hubEnd,  \* whether an end of a socket is still open
    request, reply,     \* the message on its way to the hub, and to the client
    drops, restarts, crashes,  \* how often each fault has happened
    \* The hub.
    bound,        \* bound[k]: the session bound to socket k (SessionConnectionRegistry)
    generation,   \* sessionGenerations; 0 where the map has no entry
    graceTimers,  \* pendingSessionCleanup: <<id, expected generation>>
    finalizers,   \* finalizers waiting for persists (sessionFinalizations)
    persisting,   \* persisting[s]: recordings queued or being written for s
    sessions,     \* the state manager's sessions
    holdings,     \* sessions that own a tab, a lock or an event handler
    finalized,    \* finalizedSessions: the tombstones
    closings,     \* closings[s]: how many session_closed were broadcast for s
    shutdown,     \* "no", "begun" (messages refused), "draining" (close()), "done"
    \* The extension.
    barred        \* closedSessions: the ids whose requests it refuses

clientVars == <<phase, identity, drawn, socketOf>>
socketVars == <<clientEnd, hubEnd, request, reply>>
faultVars == <<drops, restarts, crashes>>
sessionVars == <<generation, sessions, holdings, finalized, closings, barred>>
hubVars == <<bound, sessionVars, graceTimers, finalizers, persisting, shutdown>>
vars == <<clientVars, socketVars, faultVars, hubVars>>

AllIds == Ids \cup {OwnId}

Phases == {"down", "registering", "registered", "leaving", "gone"}
Quiet == [kind |-> "none", id |-> NoId]
Register(s) == [kind |-> "register", id |-> s]
Remove == [kind |-> "remove", id |-> NoId]
Removing == [kind |-> "removing", id |-> NoId]
Requests == {Quiet, Remove, Removing} \cup {Register(s) : s \in Ids}
Replies == {"none", "ok", "finalized", "mismatch", "removed", "refused"}

Live(s) == \E k \in Sockets : bound[k] = s

-----------------------------------------------------------------------------
(* The finalizer                                                           *)

Owns_Unchecked(s, g, allowConnected) == TRUE

\* ownsGeneration: nobody has registered the session again since.
Owns(s, g, allowConnected) == generation[s] = g /\ (allowConnected \/ ~ Live(s))

Tombstones_Forgotten(s) == finalized

Tombstones(s) == finalized \cup {s}

HoldingsLeft_All(s) == holdings

\* releaseAllTabs, releaseLocksForSession, clearEventHandlersForSession.
HoldingsLeft(s) == holdings \ {s}

\* The destructive steps, the tombstone, then removeSession and its session_closed, on
\* which the extension closes the session too (cleanupClosedSession).
TearDown(s) ==
    /\ generation' = [generation EXCEPT ![s] = 0]
    /\ finalized' = Tombstones(s)
    /\ sessions' = sessions \ {s}
    /\ holdings' = HoldingsLeft(s)
    /\ closings' = [closings EXCEPT ![s] = IF s \in sessions THEN @ + 1 ELSE @]
    /\ barred' = IF s \in sessions THEN barred \cup {s} ELSE barred

WithoutTimer_NotCancelled(s) == graceTimers

\* cancelSessionCleanup.
WithoutTimer(s) == {t \in graceTimers : t[1] # s}

\* The requests in R have their answer: the RPC removeSession of those in Torn found its
\* session finalized and unbinds the socket, the others only report the refusal.
AnswerRemovals(R, Torn) ==
    /\ bound' = [k \in Sockets |-> IF k \in Torn THEN NoId ELSE bound[k]]
    /\ request' = [k \in Sockets |-> IF k \in R THEN Quiet ELSE request[k]]
    /\ reply' = [k \in Sockets |-> IF k \in Torn THEN "removed"
                                   ELSE IF k \in R THEN "refused" ELSE reply[k]]

\* Awaited by the requests on the sockets R: the finalizer answers them when it settles.
Await(R) == request' = [k \in Sockets |-> IF k \in R THEN Removing ELSE request[k]]

\* finalizeSession returns the finalization of this generation already under way.
Finalizing(s, g) == \E f \in finalizers : f.id = s /\ f.generation = g

JoinFinalizer(s, g, R) ==
    /\ Finalizing(s, g)
    /\ finalizers' = {IF f.id = s /\ f.generation = g
                      THEN [f EXCEPT !.sockets = @ \cup R] ELSE f : f \in finalizers}
    /\ Await(R)
    /\ UNCHANGED <<bound, reply, sessionVars>>

PersistsAhead_OneMore(s) == persisting[s] + 1

\* drainRecordingPersists waits for the tail the queue has now.
PersistsAhead(s) == persisting[s]

\* A finalizer cancels the session's timer, then waits for the persists queued by now.
StartFinalizer(s, g, allowConnected, R) ==
    /\ ~ Finalizing(s, g)
    /\ s \notin finalized /\ persisting[s] > 0
    /\ finalizers' = finalizers \cup
         {[id |-> s, generation |-> g, allowConnected |-> allowConnected, sockets |-> R,
           behind |-> PersistsAhead(s)]}
    /\ Await(R)
    /\ UNCHANGED <<bound, reply, sessionVars>>

FinalizeNow(s, g, allowConnected, R) ==
    /\ ~ Finalizing(s, g)
    /\ s \notin finalized /\ persisting[s] = 0
    /\ IF Owns(s, g, allowConnected)
       THEN TearDown(s) /\ AnswerRemovals(R, R)
       ELSE UNCHANGED sessionVars /\ AnswerRemovals(R, {})
    /\ UNCHANGED finalizers

AlreadyFinalized(s, g, R) ==
    /\ ~ Finalizing(s, g)
    /\ s \in finalized
    /\ AnswerRemovals(R, {})
    /\ UNCHANGED <<finalizers, sessionVars>>

\* finalizeSession for generation g of s, asked for on the sockets R (none or one).
Finalize(s, g, allowConnected, R) ==
    \/ JoinFinalizer(s, g, R)
    \/ StartFinalizer(s, g, allowConnected, R)
    \/ FinalizeNow(s, g, allowConnected, R)
    \/ AlreadyFinalized(s, g, R)

-----------------------------------------------------------------------------
(* The clients                                                             *)

Free(k) == ~ clientEnd[k] /\ ~ hubEnd[k] /\ request[k] # Removing

\* A connection is made and authenticated; the client asks for its session again.
Connect(c, k) ==
    /\ phase[c] = "down"
    /\ shutdown = "no"
    /\ Free(k)
    /\ phase' = [phase EXCEPT ![c] = "registering"]
    /\ socketOf' = [socketOf EXCEPT ![c] = k]
    /\ clientEnd' = [clientEnd EXCEPT ![k] = TRUE]
    /\ hubEnd' = [hubEnd EXCEPT ![k] = TRUE]
    /\ request' = [request EXCEPT ![k] = Register(identity[c])]
    /\ reply' = [reply EXCEPT ![k] = "none"]
    /\ UNCHANGED <<identity, drawn, faultVars, hubVars>>

\* The client's close handler, or its own terminate(): retry later, unless it is leaving.
LoseSocket(c) ==
    /\ phase' = [phase EXCEPT ![c] = IF @ = "leaving" THEN "gone" ELSE "down"]
    /\ socketOf' = [socketOf EXCEPT ![c] = NoSocket]
    /\ clientEnd' = [clientEnd EXCEPT ![socketOf[c]] = FALSE]

\* The client learns that the hub's end is closed.
ClientSeesClose(c) ==
    /\ socketOf[c] # NoSocket /\ ~ hubEnd[socketOf[c]]
    /\ LoseSocket(c)
    /\ UNCHANGED <<identity, drawn, hubEnd, request, reply, faultVars, hubVars>>

\* A missed heartbeat: the client gives up a socket the hub still thinks is open.
ClientDrops(c) ==
    /\ drops < MaxDrops
    /\ socketOf[c] # NoSocket /\ hubEnd[socketOf[c]]
    /\ LoseSocket(c)
    /\ drops' = drops + 1
    /\ UNCHANGED <<identity, drawn, hubEnd, request, reply, restarts, crashes, hubVars>>

ClientRegistered(c) ==
    /\ phase[c] = "registering" /\ reply[socketOf[c]] = "ok"
    /\ phase' = [phase EXCEPT ![c] = "registered"]
    /\ reply' = [reply EXCEPT ![socketOf[c]] = "none"]
    /\ UNCHANGED <<identity, drawn, socketOf, clientEnd, hubEnd, request, faultVars,
                   hubVars>>

\* SESSION_FINALIZED: draw a fresh id and register that one on the same socket.
ClientRotates(c, s) ==
    /\ phase[c] = "registering" /\ reply[socketOf[c]] = "finalized"
    /\ s \in Ids \ drawn
    /\ identity' = [identity EXCEPT ![c] = s]
    /\ drawn' = drawn \cup {s}
    /\ request' = [request EXCEPT ![socketOf[c]] = Register(s)]
    /\ reply' = [reply EXCEPT ![socketOf[c]] = "none"]
    /\ UNCHANGED <<phase, socketOf, clientEnd, hubEnd, faultVars, hubVars>>

\* Registration refused for another reason (reconnectCb rejects): terminate and retry.
\* A client that is leaving closes its socket whatever the answer.
ClientRefused(c) ==
    /\ \/ phase[c] = "registering" /\ reply[socketOf[c]] \in {"mismatch", "refused"}
       \/ phase[c] = "leaving" /\ reply[socketOf[c]] # "none"
    /\ LoseSocket(c)
    /\ UNCHANGED <<identity, drawn, hubEnd, request, reply, faultVars, hubVars>>

\* close(): removeSessionForShutdown on the registered session, then close the socket.
ClientLeaves(c) ==
    /\ phase[c] = "registered"
    /\ phase' = [phase EXCEPT ![c] = "leaving"]
    /\ request' = [request EXCEPT ![socketOf[c]] = Remove]
    /\ UNCHANGED <<identity, drawn, socketOf, clientEnd, hubEnd, reply, faultVars,
                   hubVars>>

\* The process ends: by a crash, or by close() with no connection to send removeSession on.
ClientEnds(c) ==
    /\ phase[c] # "gone"
    /\ phase' = [phase EXCEPT ![c] = "gone"]
    /\ socketOf' = [socketOf EXCEPT ![c] = NoSocket]
    /\ clientEnd' = [k \in Sockets |-> clientEnd[k] /\ k # socketOf[c]]
    /\ UNCHANGED <<identity, drawn, hubEnd, request, reply, faultVars, hubVars>>

-----------------------------------------------------------------------------
(* The hub's handlers                                                      *)

Accepting_Always == TRUE

\* Messages are handled until beginShutdown (rejectMessageDuringShutdown).
Accepting == shutdown = "no"

Tombstoned(s) == s \in finalized

\* registerSession for a tombstoned id.
RefuseFinalized(k) ==
    /\ hubEnd[k] /\ Accepting
    /\ request[k].kind = "register" /\ Tombstoned(request[k].id)
    /\ request' = [request EXCEPT ![k] = Quiet]
    /\ reply' = [reply EXCEPT ![k] = "finalized"]
    /\ UNCHANGED <<clientVars, clientEnd, hubEnd, faultVars, hubVars>>

\* SessionConnectionRegistry.bind refuses a session bound to another socket, and a socket
\* bound to another session.
CanBind(k, s) ==
    /\ bound[k] \in {NoId, s}
    /\ \A j \in Sockets \ {k} : bound[j] # s

RefuseMismatch(k) ==
    /\ hubEnd[k] /\ Accepting
    /\ request[k].kind = "register" /\ ~ Tombstoned(request[k].id)
    /\ ~ CanBind(k, request[k].id)
    /\ request' = [request EXCEPT ![k] = Quiet]
    /\ reply' = [reply EXCEPT ![k] = "mismatch"]
    /\ UNCHANGED <<clientVars, clientEnd, hubEnd, faultVars, hubVars>>

\* registerSession: bind, count a new generation unless it was bound here already, cancel
\* the grace timer, and enter the session.
RegisterSession(k) ==
    LET s == request[k].id IN
    /\ hubEnd[k] /\ Accepting
    /\ request[k].kind = "register" /\ ~ Tombstoned(s)
    /\ CanBind(k, s)
    /\ bound' = [bound EXCEPT ![k] = s]
    /\ generation' = [generation EXCEPT ![s] = IF bound[k] = s THEN @ ELSE @ + 1]
    /\ graceTimers' = WithoutTimer(s)
    /\ sessions' = sessions \cup {s}
    /\ request' = [request EXCEPT ![k] = Quiet]
    /\ reply' = [reply EXCEPT ![k] = "ok"]
    /\ UNCHANGED <<clientVars, clientEnd, hubEnd, faultVars, holdings, finalized,
                   closings, barred, finalizers, persisting, shutdown>>

\* removeSession, for the session the socket is bound to, connected as it is.
RemoveSession(k) ==
    /\ hubEnd[k] /\ Accepting
    /\ request[k] = Remove /\ bound[k] # NoId
    /\ Finalize(bound[k], generation[bound[k]], TRUE, {k})
    /\ graceTimers' = WithoutTimer(bound[k])
    /\ UNCHANGED <<clientVars, clientEnd, hubEnd, faultVars, persisting, shutdown>>

\* SESSION_NOT_REGISTERED, or SERVER_SHUTTING_DOWN for any request once shutdown has begun.
RefuseRequest(k) ==
    /\ hubEnd[k]
    /\ \/ Accepting /\ request[k] = Remove /\ bound[k] = NoId
       \/ ~ Accepting /\ request[k].kind \in {"register", "remove"}
    /\ request' = [request EXCEPT ![k] = Quiet]
    /\ reply' = [reply EXCEPT ![k] = "refused"]
    /\ UNCHANGED <<clientVars, clientEnd, hubEnd, faultVars, hubVars>>

\* Any RPC of a registered socket that leaves its session owning something in the hub.
UseHub(k) ==
    /\ hubEnd[k] /\ Accepting
    /\ bound[k] # NoId /\ bound[k] \notin holdings
    /\ holdings' = holdings \cup {bound[k]}
    /\ UNCHANGED <<clientVars, socketVars, faultVars, bound, generation, sessions,
                   finalized, closings, barred, graceTimers, finalizers, persisting, shutdown>>

Unbound_Never(k) == bound

Unbound(k) == [bound EXCEPT ![k] = NoId]

Scheduled_Never(s) == graceTimers

\* scheduleSessionCleanup.
Scheduled(s) == WithoutTimer(s) \cup {<<s, generation[s]>>}

\* The close handler, or the liveness sweep when it comes first: unbind, and give the
\* session the grace period to come back.
CloseHubEnd(k) ==
    LET s == bound[k] IN
    /\ hubEnd' = [hubEnd EXCEPT ![k] = FALSE]
    /\ bound' = Unbound(k)
    /\ request' = [request EXCEPT ![k] = IF @ = Removing THEN @ ELSE Quiet]
    /\ graceTimers' = IF s # NoId /\ shutdown = "no"
                      THEN Scheduled(s) ELSE graceTimers
    /\ UNCHANGED <<clientVars, clientEnd, reply, restarts, crashes, sessionVars, finalizers,
                   persisting, shutdown>>

HubSeesClose(k) ==
    /\ hubEnd[k] /\ ~ clientEnd[k]
    /\ CloseHubEnd(k)
    /\ UNCHANGED drops

\* No pong or no activity in time: the hub gives up a socket its client thinks is open.
HubDrops(k) ==
    /\ drops < MaxDrops
    /\ hubEnd[k] /\ clientEnd[k]
    /\ CloseHubEnd(k)
    /\ drops' = drops + 1

\* The grace timer: finalize the generation it was set for, unless the session is back.
GraceExpires(s, g) ==
    /\ <<s, g>> \in graceTimers
    /\ IF Live(s) THEN UNCHANGED <<bound, request, reply, finalizers, sessionVars>>
                  ELSE Finalize(s, g, FALSE, {})
    /\ graceTimers' = WithoutTimer(s)
    /\ UNCHANGED <<clientVars, clientEnd, hubEnd, faultVars, persisting, shutdown>>

-----------------------------------------------------------------------------
(* Recordings being persisted                                              *)

\* persistRecording from the extension, accepted only while the session is connected.
PersistStarts(s) ==
    /\ Accepting /\ Live(s)
    /\ persisting[s] < MaxPersists
    /\ persisting' = [persisting EXCEPT ![s] = @ + 1]
    /\ UNCHANGED <<clientVars, socketVars, faultVars, bound, sessionVars, graceTimers,
                   finalizers, shutdown>>

Ripe(s) == {f \in finalizers : f.id = s /\ f.behind = 1}

OwnerAmong(F) == {f \in F : Owns(f.id, f.generation, f.allowConnected)}

\* The oldest persist of s ends, and with it the wait of the finalizers queued behind it:
\* the one of the current generation tears down, the others find they no longer own s.
PersistEnds(s) ==
    LET owners == OwnerAmong(Ripe(s)) IN
    /\ persisting[s] > 0
    /\ persisting' = [persisting EXCEPT ![s] = @ - 1]
    /\ finalizers' = {IF f.id = s THEN [f EXCEPT !.behind = @ - 1] ELSE f :
                         f \in finalizers \ Ripe(s)}
    /\ IF owners # {} /\ s \notin finalized THEN TearDown(s) ELSE UNCHANGED sessionVars
    /\ AnswerRemovals(UNION {f.sockets : f \in Ripe(s)}, UNION {f.sockets : f \in owners})
    /\ UNCHANGED <<clientVars, clientEnd, hubEnd, faultVars, graceTimers, shutdown>>

-----------------------------------------------------------------------------
(* The hub process                                                         *)

\* The hub's own session works through the state manager, without a socket.
UseOwn ==
    /\ shutdown = "no" /\ OwnId \notin holdings
    /\ holdings' = holdings \cup {OwnId}
    /\ UNCHANGED <<clientVars, socketVars, faultVars, bound, generation, sessions,
                   finalized, closings, barred, graceTimers, finalizers, persisting, shutdown>>

BeginShutdown ==
    /\ shutdown = "no"
    /\ shutdown' = "begun"
    /\ UNCHANGED <<clientVars, socketVars, faultVars, bound, sessionVars, graceTimers,
                   finalizers, persisting>>

\* close(): no grace timer survives, the sweep stops.
CloseHub ==
    /\ shutdown = "begun"
    /\ shutdown' = "draining"
    /\ graceTimers' = {}
    /\ UNCHANGED <<clientVars, socketVars, faultVars, bound, sessionVars, finalizers,
                   persisting>>

Drained == finalizers = {} /\ \A s \in Ids : persisting[s] = 0

\* Once handlers and finalizations have settled, every session left is finalized, connected
\* or not, at whatever generation it is.
FinalizeAtShutdown(s) ==
    /\ shutdown = "draining" /\ Drained
    /\ s \in sessions \ finalized
    /\ TearDown(s)
    /\ UNCHANGED <<clientVars, socketVars, faultVars, bound, graceTimers, finalizers,
                   persisting, shutdown>>

\* The sockets are closed last.
HubCloses ==
    /\ shutdown = "draining" /\ Drained /\ sessions \subseteq finalized
    /\ shutdown' = "done"
    /\ hubEnd' = [k \in Sockets |-> FALSE]
    /\ bound' = [k \in Sockets |-> NoId]
    /\ request' = [k \in Sockets |-> Quiet]
    /\ UNCHANGED <<clientVars, clientEnd, reply, faultVars, sessionVars, graceTimers,
                   finalizers, persisting>>

\* A hub process knows nothing of the one before it; the extension's worker lives on.
FreshHub ==
    /\ hubEnd' = [k \in Sockets |-> FALSE]
    /\ request' = [k \in Sockets |-> Quiet]
    /\ bound' = [k \in Sockets |-> NoId]
    /\ generation' = [s \in AllIds |-> 0]
    /\ graceTimers' = {} /\ finalizers' = {}
    /\ persisting' = [s \in Ids |-> 0]
    /\ sessions' = {OwnId} /\ holdings' = {} /\ finalized' = {}
    /\ closings' = [s \in AllIds |-> 0]
    /\ shutdown' = "no"
    /\ UNCHANGED <<clientVars, clientEnd, reply, barred>>

\* A supervisor, or --ensure-hub, starts the hub again after close().
HubRestarts ==
    /\ shutdown = "done" /\ restarts < MaxRestarts
    /\ restarts' = restarts + 1
    /\ FreshHub
    /\ UNCHANGED <<drops, crashes>>

\* The hub process dies without close(), and is started again.
HubCrashes ==
    /\ shutdown # "done" /\ crashes < MaxCrashes
    /\ crashes' = crashes + 1
    /\ FreshHub
    /\ UNCHANGED <<drops, restarts>>

-----------------------------------------------------------------------------

Init ==
    /\ phase = [c \in Clients |-> "down"]
    /\ identity \in [Clients -> Ids]
    /\ \A c, d \in Clients : identity[c] = identity[d] => c = d
    /\ drawn = {identity[c] : c \in Clients}
    /\ socketOf = [c \in Clients |-> NoSocket]
    /\ clientEnd = [k \in Sockets |-> FALSE]
    /\ hubEnd = [k \in Sockets |-> FALSE]
    /\ request = [k \in Sockets |-> Quiet]
    /\ reply = [k \in Sockets |-> "none"]
    /\ drops = 0 /\ restarts = 0 /\ crashes = 0
    /\ bound = [k \in Sockets |-> NoId]
    /\ generation = [s \in AllIds |-> 0]
    /\ graceTimers = {} /\ finalizers = {}
    /\ persisting = [s \in Ids |-> 0]
    /\ sessions = {OwnId} /\ holdings = {} /\ finalized = {}
    /\ closings = [s \in AllIds |-> 0]
    /\ shutdown = "no"
    /\ barred = {}

ClientStep(c) ==
    \/ \E k \in Sockets : Connect(c, k)
    \/ ClientSeesClose(c) \/ ClientRegistered(c) \/ ClientRefused(c)
    \/ \E s \in Ids : ClientRotates(c, s)

HubStep(k) ==
    \/ RefuseFinalized(k) \/ RefuseMismatch(k) \/ RegisterSession(k)
    \/ RemoveSession(k) \/ RefuseRequest(k) \/ HubSeesClose(k)

Expiry(s) == \E t \in graceTimers : t[1] = s /\ GraceExpires(s, t[2])

ShutdownStep == CloseHub \/ HubCloses \/ \E s \in AllIds : FinalizeAtShutdown(s)

Next ==
    \/ \E c \in Clients : ClientStep(c) \/ ClientDrops(c) \/ ClientLeaves(c) \/ ClientEnds(c)
    \/ \E k \in Sockets : HubStep(k) \/ HubDrops(k) \/ UseHub(k)
    \/ \E s \in Ids : Expiry(s) \/ PersistStarts(s) \/ PersistEnds(s)
    \/ UseOwn \/ BeginShutdown \/ ShutdownStep
    \/ HubRestarts \/ HubCrashes

Spec == Init /\ [][Next]_vars

\* Both processes run their handlers and their timers, a persist ends, and a closed end is
\* noticed at the other.  Nothing makes a client leave, a connection break or a hub stop.
Progress ==
    /\ \A c \in Clients : WF_vars(ClientStep(c))
    /\ \A k \in Sockets : WF_vars(HubStep(k))
    /\ \A s \in Ids : WF_vars(Expiry(s)) /\ WF_vars(PersistEnds(s))
    /\ WF_vars(ShutdownStep)

FairSpec == Spec /\ Progress

-----------------------------------------------------------------------------
(* Properties                                                              *)

Finalizers == [id : Ids, generation : Nat, allowConnected : BOOLEAN,
               sockets : SUBSET Sockets, behind : Nat]

\* Every variable stays in its range; a session has at most one grace timer, and a
\* generation at most one finalizer.
TypeOK ==
    /\ phase \in [Clients -> Phases]
    /\ identity \in [Clients -> Ids] /\ drawn \in SUBSET Ids
    /\ socketOf \in [Clients -> Sockets \cup {NoSocket}]
    /\ clientEnd \in [Sockets -> BOOLEAN] /\ hubEnd \in [Sockets -> BOOLEAN]
    /\ request \in [Sockets -> Requests] /\ reply \in [Sockets -> Replies]
    /\ drops \in 0..MaxDrops /\ restarts \in 0..MaxRestarts /\ crashes \in 0..MaxCrashes
    /\ bound \in [Sockets -> Ids \cup {NoId}]
    /\ generation \in [AllIds -> Nat]
    /\ graceTimers \in SUBSET (Ids \X Nat)
    /\ finalizers \in SUBSET Finalizers
    /\ persisting \in [Ids -> 0..MaxPersists]
    /\ sessions \in SUBSET AllIds /\ holdings \in SUBSET AllIds
    /\ finalized \in SUBSET AllIds /\ barred \in SUBSET AllIds
    /\ closings \in [AllIds -> Nat]
    /\ shutdown \in {"no", "begun", "draining", "done"}
    /\ \A t, u \in graceTimers : t[1] = u[1] => t = u
    /\ \A f, h \in finalizers : f.id = h.id /\ f.generation = h.generation => f = h

\* A client that was told its registration is in, on a connection both ends still have, has
\* its session, bound to that connection: no grace timer and no finalizer of an earlier
\* connection ever takes a reconnected session down.
RegisteredSessionLives ==
    \A c \in Clients :
       phase[c] = "registered" /\ hubEnd[socketOf[c]] /\ shutdown \in {"no", "begun"} =>
          /\ bound[socketOf[c]] = identity[c]
          /\ identity[c] \in sessions \ finalized

\* A finalized session does not come back: it is not listed again, owns nothing others could
\* wait for, and no socket is bound to it, except that a closing hub finalizes sessions
\* before it closes their sockets.
FinalizedStaysFinalized ==
    \A s \in finalized :
       s \notin sessions \cup holdings /\ (Live(s) => shutdown = "draining")

\* "removeSession is the single extension notification point": one session_closed per
\* finalized session, none before.
ClosedExactlyOnce == \A s \in AllIds : closings[s] = IF s \in finalized THEN 1 ELSE 0

\* A session without a connection is on its way out: its grace timer runs, or a finalizer
\* is waiting, and for the generation the session is at.  Otherwise it would never end.
NoOrphanedSession ==
    shutdown = "no" =>
       \A s \in sessions \ {OwnId} :
          \/ Live(s)
          \/ <<s, generation[s]>> \in graceTimers
          \/ Finalizing(s, generation[s])

\* "Final `session_closed` cleanup" (extension/src/lib/events.ts): the extension serves every
\* client the hub has registered.
RegisteredIsServed ==
    \A c \in Clients :
       phase[c] = "registered" /\ hubEnd[socketOf[c]] /\ shutdown = "no" =>
          identity[c] \notin barred

\* An orderly shutdown leaves no session and no holding, whatever handlers and finalizers are
\* under way when it begins.
ShutdownLeavesNothing ==
    shutdown = "done" => sessions = {} /\ holdings = {}

\* A client that lost its connection gets a session again, the old or a new one, however its
\* old socket, the grace timer and the finalizers interleave.
ClientsGetBackIn ==
    \A c \in Clients :
       phase[c] = "down" ~> phase[c] \in {"registered", "leaving", "gone"} \/ shutdown # "no"

\* The session of a client that is gone ends.
GoneSessionsEnd ==
    \A c \in Clients :
       phase[c] = "gone" ~> identity[c] \notin sessions

\* Shutdown terminates.
ShutdownEnds == shutdown # "no" ~> shutdown \in {"done", "no"}
=============================================================================
