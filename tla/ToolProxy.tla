------------------------------ MODULE ToolProxy ------------------------------
(***************************************************************************)
(* A tool request on its way from an MCP client through the hub to the     *)
(* extension, and what it brings back: the proxy of server/src/ws-server.ts*)
(* with the transfer registry, and the far end of it in the extension: the *)
(* offscreen document, which holds the socket and sends the chunks of a    *)
(* file (entrypoints/offscreen/main.ts, lib/offscreen-pending.ts), and the *)
(* worker that answers (runFetchFileTransfer of background/index.ts).      *)
(*                                                                         *)
(* Messages on one socket arrive in order.  The two ends learn at          *)
(* different times that a socket is dead: the extension may be back on a   *)
(* new one, as another browser, before the hub has closed the old one or   *)
(* read what still came over it.                                           *)
(***************************************************************************)
EXTENDS TransferRegistry

CONSTANTS
    Window,        \* ACK_WINDOW
    MaxSockets,    \* bound: sockets the extension ever has
    MaxFaults      \* bound: dead sockets, clients that leave, failures of storage and worker

Sockets == 1..MaxSockets
NoSocket == 0

ASSUME ProxyAssumption == Window \in Nat \ {0} /\ MaxSockets \in Nat \ {0} /\ MaxFaults \in Nat

VARIABLES
    phase,           \* phase[r]: where the hub is with r; "pending" has the listeners, the
                     \* timer and the place in pendingProxyCancellations; "unheard" was
                     \* refused in a message its client cannot read
    via,             \* via[r]: the socket r was forwarded to (browserWs, meta.socket)
    told,            \* told[r]: the answers sent to the client while its socket was there
    gone,            \* requests whose client has closed its socket
    shuttingDown,
    socket, sockets, \* the extension's socket; how many it has had
    stale,           \* sockets that are dead and that the hub still takes for open
    late,            \* late[k]: what the hub has still to read from socket k, which is dead
    toExtension, toHub,   \* messages under way on the extension's socket
    job,             \* job[r]: what the extension is doing for r
    sent, acked,     \* of a file: chunks sent, chunks acknowledged
    owed,            \* requests the offscreen document waits to see answered
    restarting,      \* the worker has stopped, and is not back
    faults

hubVars == <<phase, via, told, gone, shuttingDown>>
linkVars == <<socket, sockets, stale, late>>
extensionVars == <<job, sent, acked, owed, restarting>>
vars == <<registryVars, hubVars, linkVars, toExtension, toHub, extensionVars, faults>>

RequestMsg(r) == [kind |-> "request", of |-> r, seq |-> 0, ok |-> TRUE]
ChunkMsg(r, seq) == [kind |-> "chunk", of |-> r, seq |-> seq, ok |-> TRUE]
AckMsg(r, seq, ok) == [kind |-> "ack", of |-> r, seq |-> seq, ok |-> ok]
ResponseMsg(r, ok) == [kind |-> "response", of |-> r, seq |-> 0, ok |-> ok]

Fault == faults < MaxFaults /\ faults' = faults + 1

-----------------------------------------------------------------------------
(* The hub: answers                                                        *)

Pending == {r \in Requests : phase[r] = "pending"}

\* The sockets the hub could forward a request to.
OpenSockets == ({socket} \ {NoSocket}) \cup stale

Concluded_Lingering(R) == phase

\* cleanup, for the requests R: the listeners, the timer and the cancellation go.
Concluded(R) == [r \in Requests |-> IF r \in R THEN "over" ELSE phase[r]]

\* A message to a client that has closed its socket is lost.
Told(R, answer) ==
    [r \in Requests |-> IF r \in R \ gone THEN Append(told[r], answer) ELSE told[r]]

Conclude(R, answer) ==
    /\ phase' = Concluded(R)
    /\ told' = Told(R, answer)

\* The settlement callback: it cleans up, and answers whatever has been answered before.
FailTransfers(T) == Drop(T) /\ Conclude(T, "failed")

-----------------------------------------------------------------------------
(* The hub: from the client to the extension                               *)

\* The request arrives, and the hub looks for the session's browser.
Ask(r) ==
    /\ phase[r] = "unasked"
    /\ IF shuttingDown
       THEN Conclude({r}, "shutting_down")
       ELSE phase' = [phase EXCEPT ![r] = "resolving"] /\ UNCHANGED told
    /\ UNCHANGED <<registryVars, via, gone, shuttingDown, linkVars, toExtension, toHub,
                   extensionVars, faults>>

\* No browser, or more than one and none selected.
NoTarget(r) ==
    /\ phase[r] = "resolving"
    /\ Cardinality(OpenSockets) # 1
    /\ Conclude({r}, "no_target")
    /\ UNCHANGED <<registryVars, via, gone, shuttingDown, linkVars, toExtension, toHub,
                   extensionVars, faults>>

RefusedNow_Unchecked == FALSE

\* The shutdown may have begun while the browser was being looked up.
RefusedNow == shuttingDown

RefuseForShutdown(r) ==
    /\ phase[r] = "resolving"
    /\ OpenSockets # {}
    /\ RefusedNow
    /\ Conclude({r}, "shutting_down")
    /\ UNCHANGED <<registryVars, via, gone, shuttingDown, linkVars, toExtension, toHub,
                   extensionVars, faults>>

\* The transfer cannot be expected.  The refusal goes into JSON twice, here and in safeSend, so
\* the client takes it for no message, and the hub returns before the request has a timer.
RefuseTransfer(t) ==
    /\ phase[t] = "resolving"
    /\ OpenSockets # {}
    /\ ~ RefusedNow
    /\ ~ Accepts(t)
    /\ phase' = [phase EXCEPT ![t] = "unheard"]
    /\ UNCHANGED <<registryVars, via, told, gone, shuttingDown, linkVars, toExtension, toHub,
                   extensionVars, faults>>

\* The transfer is expected before the request is sent.  A client that has closed its socket
\* meanwhile is not noticed.
Forward(r, k) ==
    /\ phase[r] = "resolving"
    /\ k \in OpenSockets
    /\ ~ RefusedNow
    /\ IF r \in Fetches THEN Accepts(r) /\ Expect(r) ELSE UNCHANGED registryVars
    /\ phase' = [phase EXCEPT ![r] = "pending"]
    /\ via' = [via EXCEPT ![r] = k]
    /\ toExtension' = IF k = socket THEN Append(toExtension, RequestMsg(r)) ELSE toExtension
    /\ UNCHANGED <<told, gone, shuttingDown, linkVars, toHub, extensionVars, faults>>

-----------------------------------------------------------------------------
(* The hub: from the extension to the client                               *)

\* What the hub has to read from socket k, and that it reads the next message of it.
Unread(k) == IF k = socket THEN toHub ELSE late[k]

Reads(k, kind) ==
    /\ k \in OpenSockets
    /\ Unread(k) # <<>> /\ Head(Unread(k)).kind = kind
    /\ IF k = socket
       THEN toHub' = Tail(toHub) /\ UNCHANGED late
       ELSE late' = [late EXCEPT ![k] = Tail(@)] /\ UNCHANGED toHub

\* responseHandler.  For a transfer an error aborts it, and its settlement answers; anything
\* else is held until the transfer settles.
ReceiveResponse(k) ==
    LET r == Head(Unread(k)).of IN
    /\ Reads(k, "response")
    /\ IF r \notin Pending \/ via[r] # k
       THEN UNCHANGED <<registryVars, phase, told>>
       ELSE IF r \notin Fetches
       THEN Conclude({r}, "answered") /\ UNCHANGED registryVars
       ELSE IF Head(Unread(k)).ok
       THEN /\ phase' = IF r \in expected THEN phase ELSE Concluded({r})
            /\ UNCHANGED <<registryVars, told>>
       ELSE /\ IF r \in expected THEN FailTransfers({r})
               ELSE phase' = Concluded({r}) /\ UNCHANGED <<expected, staged, nextSeq, landed, told>>
            /\ UNCHANGED disposed
    /\ UNCHANGED <<via, gone, shuttingDown, socket, sockets, stale, toExtension, extensionVars,
                   faults>>

\* handleDownloadChunkFromExtension; while the hub shuts down no chunk is handled.  The
\* acknowledgement goes back over the socket of the chunk.
ReceiveChunk(k) ==
    LET t == Head(Unread(k)).of
        seq == Head(Unread(k)).seq
        verdict == Verdict(t, seq, via[t] = k)
        Ack(ok) == toExtension' = IF k = socket THEN Append(toExtension, AckMsg(t, seq, ok))
                                  ELSE toExtension IN
    /\ Reads(k, "chunk")
    /\ \/ /\ shuttingDown
          /\ UNCHANGED <<registryVars, phase, told, toExtension, faults>>
       \/ /\ ~ shuttingDown /\ verdict = "unknown"
          /\ Ack(FALSE)
          /\ UNCHANGED <<registryVars, phase, told, faults>>
       \/ /\ ~ shuttingDown /\ verdict = "violation"
          /\ Ack(FALSE)
          /\ FailTransfers({t})
          /\ UNCHANGED <<disposed, faults>>
       \/ /\ ~ shuttingDown /\ verdict = "next"
          /\ Ack(TRUE)
          /\ WriteChunk(t)
          /\ UNCHANGED <<phase, told, faults>>
       \/ /\ ~ shuttingDown /\ verdict = "last"
          /\ Ack(TRUE)
          /\ Land(t)
          /\ Conclude({t}, "landed")
          /\ UNCHANGED faults
       \/ \* TRANSFER_STORAGE_FAILED, or the chunk is bad (size, name)
          /\ ~ shuttingDown /\ verdict \in {"next", "last"}
          /\ Fault
          /\ Ack(FALSE)
          /\ FailTransfers({t})
          /\ UNCHANGED disposed
       \/ \* TRANSFER_HASH_MISMATCH, or a file that cannot be moved: the sender hears yes
          /\ ~ shuttingDown /\ verdict = "last"
          /\ Fault
          /\ Ack(TRUE)
          /\ DropWhole(t)
          /\ Conclude({t}, "failed")
    /\ UNCHANGED <<via, gone, shuttingDown, socket, sockets, stale, extensionVars>>

-----------------------------------------------------------------------------
(* The hub: timers, closed sockets, shutdown                               *)

HasTimer_HeldExcepted(r) == phase[r] = "pending" /\ r \notin expected

HasTimer(r) == phase[r] = "pending"

ProxyTimeout(r) ==
    /\ HasTimer(r)
    /\ Conclude({r}, "timeout")
    /\ UNCHANGED <<registryVars, via, gone, shuttingDown, linkVars, toExtension, toHub,
                   extensionVars, faults>>

TransferTimeout(t) ==
    /\ t \in expected
    /\ FailTransfers({t})
    /\ UNCHANGED <<disposed, via, gone, shuttingDown, linkVars, toExtension, toHub,
                   extensionVars, faults>>

\* The hub, which has read what came over it, finds a socket closed (closeHandler).
BrowserCloses(k) ==
    /\ k \in stale /\ late[k] = <<>>
    /\ stale' = stale \ {k}
    /\ Conclude({r \in Pending : via[r] = k}, "disconnected")
    /\ UNCHANGED <<registryVars, via, gone, shuttingDown, socket, sockets, late, toExtension,
                   toHub, extensionVars, faults>>

\* A client's socket closes (clientCloseHandler); it comes back on another one.
ClientCloses(s) ==
    LET Cut == {r \in Requests : SessionOf[r] = s /\ phase[r] # "unasked"} IN
    /\ ~ Cut \subseteq gone
    /\ Fault
    /\ gone' = gone \cup Cut
    /\ phase' = Concluded(Cut \cap Pending)
    /\ UNCHANGED <<registryVars, via, told, shuttingDown, linkVars, toExtension, toHub,
                   extensionVars>>

BeginShutdown ==
    /\ ~ shuttingDown
    /\ shuttingDown' = TRUE
    /\ Conclude(Pending, "shutting_down")
    /\ UNCHANGED <<registryVars, via, gone, linkVars, toExtension, toHub, extensionVars, faults>>

\* close() disposes of the registry: every transfer is aborted.
Dispose ==
    /\ shuttingDown /\ ~ disposed
    /\ disposed' = TRUE
    /\ FailTransfers(expected)
    /\ UNCHANGED <<via, gone, shuttingDown, linkVars, toExtension, toHub, extensionVars, faults>>

-----------------------------------------------------------------------------
(* The extension                                                           *)

\* What the extension sends is lost when it has no socket.
Send(msg) == toHub' = IF socket = NoSocket THEN toHub ELSE Append(toHub, msg)

\* A request starts its work; an acknowledgement reaches the sender, if it is still there.
ExtensionReceives ==
    LET m == Head(toExtension)
        r == m.of IN
    /\ toExtension # <<>>
    /\ toExtension' = Tail(toExtension)
    /\ \/ /\ m.kind = "request" /\ ~ restarting
          /\ job' = [job EXCEPT ![r] = IF r \in Fetches THEN "sending" ELSE "working"]
          /\ owed' = owed \cup {r}
          /\ UNCHANGED acked
       \/ /\ m.kind = "ack"
          /\ acked' = IF job[r] = "sending" /\ m.ok THEN [acked EXCEPT ![r] = @ + 1] ELSE acked
          /\ job' = IF job[r] = "sending" /\ ~ m.ok THEN [job EXCEPT ![r] = "failed"] ELSE job
          /\ UNCHANGED owed
    /\ UNCHANGED <<registryVars, hubVars, linkVars, toHub, sent, restarting, faults>>

\* The tool has run; what it returns or throws is the answer.
FinishWork(r) ==
    /\ job[r] = "working"
    /\ job' = [job EXCEPT ![r] = "done"]
    /\ owed' = owed \ {r}
    /\ Send(ResponseMsg(r, TRUE))
    /\ UNCHANGED <<registryVars, hubVars, linkVars, toExtension, sent, acked, restarting, faults>>

HasWindow_PastTheEnd(t) == sent[t] - acked[t] < Window

HasWindow(t) == sent[t] < TotalChunks /\ sent[t] - acked[t] < Window

SendCursor_Acked(t) == acked[t]

SendCursor(t) == sent[t]

\* Once it has read the whole file the sender goes by the acknowledgements (sendChunksWithAcks);
\* without a socket it fails.
SendChunk(t) ==
    /\ job[t] = "sending"
    /\ HasWindow(t)
    /\ IF socket = NoSocket
       THEN job' = [job EXCEPT ![t] = "failed"] /\ UNCHANGED sent
       ELSE sent' = [sent EXCEPT ![t] = @ + 1] /\ UNCHANGED job
    /\ Send(ChunkMsg(t, SendCursor(t)))
    /\ UNCHANGED <<registryVars, hubVars, linkVars, toExtension, acked, owed, restarting, faults>>

\* The page cannot be read, or the deadline has passed.
FetchFails(t) ==
    /\ job[t] = "sending"
    /\ acked[t] < TotalChunks
    /\ job' = [job EXCEPT ![t] = "failed"]
    /\ UNCHANGED <<registryVars, hubVars, linkVars, toExtension, toHub, sent, acked, owed,
                   restarting, faults>>

\* transfer_fetch_done reaches the worker, which answers if it still has the request.
FetchDone(t) ==
    LET complete == job[t] = "sending" /\ acked[t] = TotalChunks IN
    /\ complete \/ job[t] = "failed"
    /\ job' = [job EXCEPT ![t] = "done"]
    /\ owed' = owed \ {t}
    /\ IF t \in owed THEN Send(ResponseMsg(t, complete)) ELSE UNCHANGED toHub
    /\ UNCHANGED <<registryVars, hubVars, linkVars, toExtension, sent, acked, restarting, faults>>

\* The worker stops, and its work with it; the offscreen document answers what is owed, if it
\* is connected, and goes on with the files.
WorkerStops ==
    /\ ~ restarting
    /\ Fault
    /\ restarting' = TRUE
    /\ job' = [r \in Requests |-> IF job[r] = "working" THEN "done" ELSE job[r]]
    /\ IF socket = NoSocket
       THEN UNCHANGED <<owed, toHub>>
       ELSE /\ owed' = {}
            /\ \E errors \in {e \in [1..Cardinality(owed) -> owed] :
                                 \A i, j \in DOMAIN e : e[i] = e[j] => i = j} :
                  toHub' = toHub \o [i \in DOMAIN errors |-> ResponseMsg(errors[i], FALSE)]
    /\ UNCHANGED <<registryVars, hubVars, linkVars, toExtension, sent, acked>>

\* What is under way to the extension is lost, and so is the end of what is under way to the hub.
CutSocket ==
    /\ stale' = stale \cup ({socket} \ {NoSocket})
    /\ IF socket = NoSocket
       THEN UNCHANGED late
       ELSE \E arrived \in 0..Len(toHub) : late' = [late EXCEPT ![socket] = SubSeq(toHub, 1, arrived)]
    /\ socket' = NoSocket
    /\ toExtension' = <<>> /\ toHub' = <<>>

\* The worker is back: the offscreen document takes a new socket (forceReconnect).
WorkerReturns ==
    /\ restarting
    /\ restarting' = FALSE
    /\ CutSocket
    /\ UNCHANGED <<registryVars, hubVars, sockets, job, sent, acked, owed, faults>>

SocketDies ==
    /\ socket # NoSocket
    /\ Fault
    /\ CutSocket
    /\ UNCHANGED <<registryVars, hubVars, sockets, extensionVars>>

\* A new browser for the hub, which takes no connection once it shuts down.
Connect ==
    /\ socket = NoSocket /\ ~ shuttingDown
    /\ sockets < MaxSockets
    /\ socket' = sockets + 1 /\ sockets' = sockets + 1
    /\ UNCHANGED <<registryVars, hubVars, stale, late, toExtension, toHub, extensionVars, faults>>

-----------------------------------------------------------------------------

Init ==
    /\ RegistryInit
    /\ phase = [r \in Requests |-> "unasked"]
    /\ via = [r \in Requests |-> NoSocket]
    /\ told = [r \in Requests |-> <<>>]
    /\ gone = {} /\ shuttingDown = FALSE
    /\ socket = 1 /\ sockets = 1 /\ stale = {} /\ late = [k \in Sockets |-> <<>>]
    /\ toExtension = <<>> /\ toHub = <<>>
    /\ job = [r \in Requests |-> "none"]
    /\ sent = [t \in Fetches |-> 0] /\ acked = [t \in Fetches |-> 0]
    /\ owed = {} /\ restarting = FALSE
    /\ faults = 0

Next ==
    \/ \E r \in Requests : \/ Ask(r) \/ NoTarget(r) \/ RefuseForShutdown(r)
                         \/ ProxyTimeout(r) \/ FinishWork(r)
    \/ \E r \in Requests, k \in Sockets : Forward(r, k)
    \/ \E t \in Fetches : RefuseTransfer(t) \/ TransferTimeout(t)
    \/ \E k \in Sockets : ReceiveResponse(k) \/ ReceiveChunk(k) \/ BrowserCloses(k)
    \/ BeginShutdown \/ Dispose
    \/ \E t \in Fetches : SendChunk(t) \/ FetchFails(t) \/ FetchDone(t)
    \/ \E r \in Requests : ClientCloses(SessionOf[r])
    \/ ExtensionReceives \/ WorkerStops \/ WorkerReturns \/ SocketDies \/ Connect

Spec == Init /\ [][Next]_vars

\* The hub finds a browser for a request or that there is none, and its timers fire.
Fairness ==
    \A r \in Requests :
       /\ WF_vars(\/ NoTarget(r) \/ RefuseForShutdown(r) \/ (r \in Fetches /\ RefuseTransfer(r))
                  \/ \E k \in Sockets : Forward(r, k))
       /\ WF_vars(ProxyTimeout(r))

FairSpec == Spec /\ Fairness

-----------------------------------------------------------------------------
(* Properties                                                              *)

Phases == {"unasked", "resolving", "pending", "over", "unheard"}
Jobs == {"none", "working", "sending", "failed", "done"}
Answers == {"answered", "landed", "failed", "no_target", "timeout", "disconnected",
            "shutting_down"}
Messages == [kind : {"request", "chunk", "ack", "response"}, of : Requests,
             seq : 0..TotalChunks, ok : BOOLEAN]

\* Every variable stays in its range.
TypeOK ==
    /\ RegistryTypeOK
    /\ phase \in [Requests -> Phases]
    /\ via \in [Requests -> Sockets \cup {NoSocket}]
    /\ told \in [Requests -> Seq(Answers)]
    /\ gone \in SUBSET Requests /\ shuttingDown \in BOOLEAN
    /\ sockets \in 0..MaxSockets /\ socket \in {NoSocket, sockets} /\ stale \in SUBSET Sockets
    /\ toExtension \in Seq(Messages) /\ toHub \in Seq(Messages)
    /\ late \in [Sockets -> Seq(Messages)]
    /\ job \in [Requests -> Jobs]
    /\ sent \in [Fetches -> 0..TotalChunks]
    /\ acked \in [Fetches -> 0..TotalChunks] /\ \A t \in Fetches : acked[t] <= sent[t]
    /\ owed \in SUBSET Requests /\ restarting \in BOOLEAN
    /\ faults \in 0..MaxFaults

\* Response, settlement, timeout, closed sockets and shutdown race to answer a request, and one
\* of them does.  Only a fetch that was given up while its file was on the way gets a second
\* answer, when the transfer settles; its client has stopped listening by then.
AnsweredOnce ==
    \A r \in Requests :
       \/ Len(told[r]) <= 1
       \/ /\ r \in Fetches /\ Len(told[r]) = 2
          /\ told[r][1] \in {"timeout", "disconnected", "shutting_down"}

\* No file lands behind the back of its caller: the landing is the first thing the client is
\* told, unless it has closed its socket or the proxy's timeout came first.
NothingLandsUnreported ==
    \A t \in landed \ gone : told[t] # <<>> /\ told[t][1] \in {"landed", "timeout"}

\* A response that is held is released: while a fetch is pending the registry still expects
\* its file, and will settle it.
HeldAnswersAreReleased == Pending \cap Fetches \subseteq expected

ChunksUnderWay(t) == {i \in DOMAIN toHub : toHub[i].kind = "chunk" /\ toHub[i].of = t}

\* An intact connection never breaks a transfer: over the socket the request took, under way are
\* the chunks that were sent and are not written, in their order, and no other.
StreamsContinue ==
    \A t \in expected :
       via[t] = socket /\ ~ shuttingDown =>
          /\ {toHub[i].seq : i \in ChunksUnderWay(t)} = nextSeq[t]..(sent[t] - 1)
          /\ \A i, j \in ChunksUnderWay(t) : i < j => toHub[i].seq < toHub[j].seq

\* Once the hub shuts down it waits for no answer and takes up no request, and what it told a
\* client of a file stands: no transfer outlives the registry.
ShutdownCancelsRequests ==
    /\ shuttingDown => Pending = {}
    /\ disposed => expected = {} /\ staged = {}

\* A response that says a file was delivered is never held: the hub has acknowledged every
\* chunk by then, and has settled the transfer, though the file may have failed its hash.
SuccessComesSettled ==
    \A k \in Sockets : \A i \in DOMAIN Unread(k) :
       LET m == Unread(k)[i] IN
       m.kind = "response" /\ m.ok /\ m.of \in Fetches =>
          nextSeq[m.of] = TotalChunks /\ m.of \notin expected \cup Pending

\* ACK_WINDOW bounds what waits in a socket, also of a file whose transfer has been given up.
WindowIsKept == \A t \in Fetches : Cardinality(ChunksUnderWay(t)) <= Window

\* MAX_ACTIVE_TRANSFERS_PER_SESSION is kept, whenever the lookup of the browser takes its time.
PlacesAreKept == \A s \in {SessionOf[r] : r \in Requests} : Cardinality(ExpectedOf(s)) <= MaxActive

\* Nobody is forgotten: the hub is done with a request only when its client was told or has left
\* ("so the hub can return a clear proxy error instead of letting the client hit its generic
\* WebSocket response timeout", ws-server.ts).  A fetch beyond the places of its session is.
DoneMeansTold ==
    \A r \in Requests : phase[r] \in {"over", "unheard"} => told[r] # <<>> \/ r \in gone

\* ... and nobody else is: of all the ways a request ends only the refused transfer is silent
\* towards a client that is there, and that one leaves nothing behind.
OnlyTheRefusedAreForgotten ==
    \A r \in Requests :
       /\ phase[r] = "over" => told[r] # <<>> \/ r \in gone
       /\ phase[r] = "unheard" =>
             r \in Fetches /\ told[r] = <<>> /\ r \notin expected \cup staged \cup landed

-----------------------------------------------------------------------------
(* The proxy implements ToolCalls                                          *)

CallOf ==
    [r \in Requests |-> IF phase[r] \in {"resolving", "pending"} THEN "open" ELSE phase[r]]

\* A file the registry expects is doomed once its client has heard that the browser or the hub
\* has gone.
Doomed(t) == told[t] # <<>> /\ told[t][1] \in {"disconnected", "shutting_down"}

FileOf ==
    [r \in Requests |-> IF r \in landed THEN "saved"
                        ELSE IF r \notin expected THEN "none"
                        ELSE IF Doomed(r) THEN "doomed" ELSE "coming"]

Calls == INSTANCE ToolCalls WITH call <- CallOf, file <- FileOf

\* Whatever sockets, timers, chunks and shutdowns do to each other, a client sees calls that are
\* answered once, and files that are saved when it is told and never after it was told that the
\* browser or the hub has gone.  No session gets more than its places, and a call is dropped
\* without a word only while they are all taken.
ImplementsToolCalls == Calls!Spec

-----------------------------------------------------------------------------

\* Every request is answered, whatever fails, unless its client leaves or the transfer is
\* refused: nothing but the timer of its client ends a call the hub has dropped unheard.
EveryRequestAnswered ==
    \A r \in Requests :
       phase[r] = "resolving" ~> (told[r] # <<>> \/ r \in gone \/ phase[r] = "unheard")

\* "On mismatch/abort/timeout: reject the pending request with a clear error and delete the
\* partial file" (TRANSFER-SPEC.md).
RejectedFetchLeavesNothing ==
    \A t \in Fetches : told[t] # <<>> /\ told[t][1] # "landed" => t \notin staged \cup landed
=============================================================================
