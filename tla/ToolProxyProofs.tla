--------------------------- MODULE ToolProxyProofs ---------------------------
(***************************************************************************)
(* Proofs about ToolProxy, for any requests, sessions, sockets and bounds. *)
(*                                                                         *)
(* They are about the hub: nothing is assumed of the messages under way or *)
(* of the extension.  The inductive invariant says, for every phase of a   *)
(* request, what its client has been told and whether its transfer is still*)
(* expected.  What makes it inductive is about sockets: a request answered *)
(* because its socket closed was sent over one the hub will never read     *)
(* again, so its file cannot land any more.                                *)
(***************************************************************************)
EXTENDS ToolProxy, SequenceTheorems, FiniteSetTheorems, TLAPS

HubTypeOK ==
    /\ phase \in [Requests -> Phases]
    /\ via \in [Requests -> Nat]
    /\ told \in [Requests -> Seq(Answers)]
    /\ gone \in SUBSET Requests /\ shuttingDown \in BOOLEAN
    /\ expected \in SUBSET Fetches /\ staged \in SUBSET expected /\ landed \in SUBSET Fetches
    /\ disposed \in BOOLEAN

\* The socket the extension has is its latest; the hub's dead ones are earlier.
SocketsAreOrdered ==
    /\ sockets \in Nat \ {0} /\ socket \in {NoSocket, sockets}
    /\ stale \in SUBSET (1..sockets) /\ socket \notin stale
    /\ \A r \in Requests : via[r] <= sockets
    /\ \A t \in expected : via[t] # NoSocket

\* Until it is forwarded a request has left no trace; one whose transfer is refused never does.
NoTraceBefore ==
    \A r \in Requests : phase[r] \in {"unasked", "resolving", "unheard"} =>
       told[r] = <<>> /\ r \notin expected /\ r \notin landed

PendingUntold ==
    \A r \in Requests : phase[r] = "pending" => told[r] = <<>> /\ r \notin landed

\* A transfer that is expected after its request was answered was given up: in the proxy's
\* timeout, with a socket that has gone, or in the shutdown.
GivenUpOnly ==
    \A t \in expected :
       /\ t \notin landed
       /\ phase[t] = "over" /\ t \notin gone => told[t] # <<>>
       /\ told[t] # <<>> =>
             \/ told[t] = <<"timeout">>
             \/ told[t] = <<"disconnected">> /\ via[t] \notin OpenSockets
             \/ told[t] = <<"shutting_down">> /\ shuttingDown

\* The registry is disposed of in the shutdown: before, it refuses only for want of places.
DisposedLast == disposed => shuttingDown

IInv ==
    /\ HubTypeOK
    /\ SocketsAreOrdered
    /\ NoTraceBefore
    /\ PendingUntold
    /\ GivenUpOnly
    /\ DisposedLast
    /\ AnsweredOnce
    /\ NothingLandsUnreported
    /\ HeldAnswersAreReleased
    /\ ShutdownCancelsRequests
-----------------------------------------------------------------------------

LEMMA Init_IInv == Init => IInv
<1>1. ASSUME Init
      PROVE  HubTypeOK /\ SocketsAreOrdered /\ NoTraceBefore /\ PendingUntold
  <2>1. told \in [Requests -> Seq(Answers)] /\ via \in [Requests -> Nat]
    BY <1>1 DEF Init, NoSocket
  <2>2. HubTypeOK
    BY <1>1, <2>1 DEF Init, RegistryInit, HubTypeOK, Phases
  <2>3. SocketsAreOrdered
    BY <1>1 DEF Init, RegistryInit, SocketsAreOrdered, NoSocket
  <2>4. NoTraceBefore /\ PendingUntold
    BY <1>1 DEF Init, RegistryInit, NoTraceBefore, PendingUntold
  <2>5. QED
    BY <2>2, <2>3, <2>4
<1>2. ASSUME Init
      PROVE  /\ GivenUpOnly /\ DisposedLast /\ AnsweredOnce /\ NothingLandsUnreported
             /\ HeldAnswersAreReleased /\ ShutdownCancelsRequests
  BY <1>2, RegistryAssumption
     DEF Init, RegistryInit, GivenUpOnly, DisposedLast, AnsweredOnce, NothingLandsUnreported,
         HeldAnswersAreReleased, ShutdownCancelsRequests, Pending
<1>3. QED
  BY <1>1, <1>2 DEF IInv

\* An answer is appended to what the clients of R that are still there have been told.
LEMMA ToldByOne ==
    ASSUME told \in [Requests -> Seq(Answers)], NEW R, NEW a \in Answers
    PROVE  /\ Told(R, a) \in [Requests -> Seq(Answers)]
           /\ \A r \in Requests :
                 /\ r \notin R \/ r \in gone => Told(R, a)[r] = told[r]
                 /\ r \in R \ gone /\ told[r] = <<>> =>
                    Told(R, a)[r] = <<a>> /\ Len(Told(R, a)[r]) = 1
                 /\ \A x \in Answers : r \in R \ gone /\ told[r] = <<x>> =>
                    Len(Told(R, a)[r]) = 2 /\ Told(R, a)[r][1] = x
<1>1. \A r \in Requests : Append(told[r], a) \in Seq(Answers)
  OBVIOUS
<1>2. Told(R, a) \in [Requests -> Seq(Answers)]
  BY <1>1 DEF Told
<1>3. Append(<<>>, a) = <<a>> /\ Len(<<a>>) = 1
  OBVIOUS
<1>4. ASSUME NEW x \in Answers
      PROVE  Len(Append(<<x>>, a)) = 2 /\ Append(<<x>>, a)[1] = x
  <2>1. <<x>> \in Seq(Answers) /\ Len(<<x>>) = 1 /\ <<x>>[1] = x
    OBVIOUS
  <2>2. QED
    BY <2>1, AppendProperties
<1>5. QED
  BY <1>2, <1>3, <1>4 DEF Told

\* Answering the requests R, each of them open or given up, while the transfers in T settle.
LEMMA ConcludeKeeps ==
    ASSUME IInv, NEW R \in SUBSET Requests, NEW T \in SUBSET R, NEW a \in Answers,
           Conclude(R, a), expected' = expected \ T,
           UNCHANGED <<via, gone>>, OpenSockets' \subseteq OpenSockets,
           shuttingDown' \in {shuttingDown, TRUE},
           \A r \in R : phase[r] # "over" \/ r \in T,
           \A r \in R \ T : r \in expected =>
              a = "timeout" \/ (a = "disconnected" /\ via[r] \notin OpenSockets')
                \/ (a = "shutting_down" /\ shuttingDown'),
           T \subseteq expected,
           landed' = landed \/ (a = "landed" /\ landed' = landed \cup T /\ ~ shuttingDown
                                /\ \A t \in T : via[t] \in OpenSockets)
    PROVE  /\ phase' \in [Requests -> Phases] /\ told' \in [Requests -> Seq(Answers)]
           /\ NoTraceBefore' /\ PendingUntold' /\ GivenUpOnly'
           /\ AnsweredOnce' /\ NothingLandsUnreported' /\ HeldAnswersAreReleased'
<1>1. /\ phase' = [r \in Requests |-> IF r \in R THEN "over" ELSE phase[r]]
      /\ told' = Told(R, a)
  BY DEF Conclude, Concluded
<1>2. phase' \in [Requests -> Phases]
  BY <1>1 DEF IInv, HubTypeOK, Phases
<1>3. /\ told' \in [Requests -> Seq(Answers)]
      /\ \A r \in Requests :
            /\ r \notin R \/ r \in gone => told'[r] = told[r]
            /\ r \in R \ gone /\ told[r] = <<>> => told'[r] = <<a>> /\ Len(told'[r]) = 1
            /\ \A x \in Answers : r \in R \ gone /\ told[r] = <<x>> => Len(told'[r]) = 2 /\ told'[r][1] = x
  BY <1>1, ToldByOne DEF IInv, HubTypeOK
<1>4. \A r \in R \ gone :
        \/ told[r] = <<>>
        \/ /\ r \in T /\ r \notin landed /\ phase[r] = "over"
           /\ \/ told[r] = <<"timeout">>
              \/ told[r] = <<"disconnected">> /\ via[r] \notin OpenSockets
              \/ told[r] = <<"shutting_down">> /\ shuttingDown
  BY DEF IInv, HubTypeOK, Phases, NoTraceBefore, PendingUntold, GivenUpOnly
<1>5. NoTraceBefore' /\ PendingUntold'
  <2>1. ASSUME NEW r \in Requests, phase'[r] \in {"unasked", "resolving", "unheard", "pending"}
        PROVE  r \notin R /\ phase'[r] = phase[r] /\ told'[r] = told[r]
    BY <1>1, <1>3, <2>1
  <2>2. ASSUME NEW r \in Requests, r \notin R
        PROVE  (r \in expected' => r \in expected) /\ (r \in landed' => r \in landed)
    BY <2>2
  <2>3. QED
    BY <2>1, <2>2 DEF IInv, NoTraceBefore, PendingUntold
<1>6. GivenUpOnly'
  <2>1. ASSUME NEW t \in expected' PROVE t \in expected /\ t \notin T /\ t \in Requests /\ t \notin landed'
    BY <2>1, RegistryAssumption DEF IInv, HubTypeOK, GivenUpOnly
  <2>2. ASSUME NEW t \in expected', t \in R, t \notin gone
        PROVE  told'[t] = <<a>>
    BY <1>3, <1>4, <2>1, <2>2
  <2>3. ASSUME NEW t \in expected', t \notin R
        PROVE  phase'[t] = phase[t] /\ told'[t] = told[t]
    BY <1>1, <1>3, <2>1, <2>3
  <2>4. ASSUME NEW t \in expected', t \in R, told'[t] # <<>>
        PROVE  \/ told'[t] = <<"timeout">>
               \/ told'[t] = <<"disconnected">> /\ via'[t] \notin OpenSockets'
               \/ told'[t] = <<"shutting_down">> /\ shuttingDown'
    <3>1. told[t] = <<>>
      BY <2>1, <2>4 DEF IInv, HubTypeOK, Phases, NoTraceBefore, PendingUntold
    <3>2. t \notin gone
      BY <1>3, <2>1, <2>4, <3>1
    <3>3. QED
      BY <2>1, <2>2, <2>4, <3>2
  <2>5. ASSUME NEW t \in expected', t \notin R, told'[t] # <<>>
        PROVE  \/ told'[t] = <<"timeout">>
               \/ told'[t] = <<"disconnected">> /\ via'[t] \notin OpenSockets'
               \/ told'[t] = <<"shutting_down">> /\ shuttingDown'
    <3>1. told'[t] = told[t] /\ told[t] # <<>> /\ via' = via /\ OpenSockets' \subseteq OpenSockets
            /\ (shuttingDown => shuttingDown')
      BY <2>3, <2>5 DEF IInv, HubTypeOK
    <3>2. \/ told[t] = <<"timeout">>
          \/ told[t] = <<"disconnected">> /\ via[t] \notin OpenSockets
          \/ told[t] = <<"shutting_down">> /\ shuttingDown
      BY <2>1, <2>5, <3>1, Zenon DEF IInv, GivenUpOnly
    <3>3. QED
      BY <3>1, <3>2, Zenon
  <2>6. ASSUME NEW t \in expected', phase'[t] = "over", t \notin gone
        PROVE  told'[t] # <<>>
    <3>1. CASE t \in R
      BY <2>2, <2>6, <3>1
    <3>2. CASE t \notin R
      BY <2>1, <2>3, <2>6, <3>2 DEF IInv, GivenUpOnly
    <3>3. QED
      BY <3>1, <3>2
  <2>7. QED
    BY <2>1, <2>4, <2>5, <2>6 DEF GivenUpOnly
<1>7. AnsweredOnce'
  <2>1. ASSUME NEW r \in Requests, r \in R \ gone, told[r] = <<>>
        PROVE  Len(told'[r]) <= 1
    <3>1. Len(told'[r]) = 1
      BY <1>3, <2>1, Zenon
    <3>2. QED
      BY <3>1
  <2>2. ASSUME NEW r \in Requests, r \in R \ gone, told[r] # <<>>
        PROVE  /\ r \in Fetches /\ Len(told'[r]) = 2
               /\ told'[r][1] \in {"timeout", "disconnected", "shutting_down"}
    <3>1. PICK x \in {"timeout", "disconnected", "shutting_down"} : told[r] = <<x>>
      BY <1>4, <2>2
    <3>2. Len(told'[r]) = 2 /\ told'[r][1] = x
      BY <1>3, <2>2, <3>1 DEF Answers
    <3>3. r \in Fetches
      BY <1>4, <2>2 DEF IInv, HubTypeOK
    <3>4. QED
      BY <3>1, <3>2, <3>3
  <2>3. ASSUME NEW r \in Requests, r \notin R \ gone
        PROVE  told'[r] = told[r]
    BY <1>3, <2>3
  <2>4. QED
    BY <2>1, <2>2, <2>3 DEF IInv, AnsweredOnce
<1>8. NothingLandsUnreported'
  <2>1. ASSUME NEW t \in landed', t \notin gone, t \notin landed
        PROVE  told'[t] # <<>> /\ told'[t][1] \in {"landed", "timeout"}
    <3>1. a = "landed" /\ ~ shuttingDown /\ via[t] \in OpenSockets /\ t \in R /\ t \in Requests
      BY <2>1
    <3>2. CASE told[t] = <<>>
      BY <1>3, <2>1, <3>1, <3>2
    <3>3. CASE told[t] = <<"timeout">>
      BY <1>3, <2>1, <3>1, <3>3 DEF Answers
    <3>4. QED
      BY <1>4, <2>1, <3>1, <3>2, <3>3
  <2>2. ASSUME NEW t \in landed, t \notin gone
        PROVE  told'[t] # <<>> /\ told'[t][1] \in {"landed", "timeout"}
    <3>1. t \in Requests /\ told[t] # <<>> /\ told[t][1] \in {"landed", "timeout"}
      BY <2>2, RegistryAssumption DEF IInv, HubTypeOK, NothingLandsUnreported
    <3>2. t \notin R
      BY <1>4, <2>2, <3>1
    <3>3. QED
      BY <1>3, <3>1, <3>2
  <2>3. QED
    BY <2>1, <2>2 DEF NothingLandsUnreported
<1>9. HeldAnswersAreReleased'
  BY <1>1, RegistryAssumption DEF IInv, HubTypeOK, HeldAnswersAreReleased, Pending
<1>10. QED
  BY <1>2, <1>3, <1>5, <1>6, <1>7, <1>8, <1>9

\* ... with the registry as it was.
LEMMA AnswerKeeps ==
    ASSUME IInv, NEW R \in SUBSET Requests, NEW a \in Answers, Conclude(R, a),
           UNCHANGED <<expected, staged, landed, disposed, via, gone, socket, sockets>>,
           stale' \in SUBSET stale,
           \/ shuttingDown' = shuttingDown
           \/ shuttingDown' = TRUE /\ Pending \subseteq R,
           \A r \in R : phase[r] # "over",
           \A r \in R : r \in expected =>
              a = "timeout" \/ (a = "disconnected" /\ via[r] \notin OpenSockets')
                \/ (a = "shutting_down" /\ shuttingDown')
    PROVE  IInv'
<1>1. /\ expected' = expected \ {} /\ {} \in SUBSET R /\ landed' = landed
      /\ OpenSockets' \subseteq OpenSockets
  BY DEF OpenSockets
<1>2. /\ phase' \in [Requests -> Phases] /\ told' \in [Requests -> Seq(Answers)]
      /\ NoTraceBefore' /\ PendingUntold' /\ GivenUpOnly'
      /\ AnsweredOnce' /\ NothingLandsUnreported' /\ HeldAnswersAreReleased'
  BY <1>1, ConcludeKeeps
<1>3. HubTypeOK' /\ SocketsAreOrdered'
  BY <1>2 DEF IInv, HubTypeOK, SocketsAreOrdered
<1>4. ShutdownCancelsRequests' /\ DisposedLast'
  BY DEF IInv, HubTypeOK, ShutdownCancelsRequests, DisposedLast, Pending, Conclude, Concluded
<1>5. QED
  BY <1>2, <1>3, <1>4 DEF IInv

\* The settlement of transfers that failed.
LEMMA SettlingKeeps ==
    ASSUME IInv, NEW T \in SUBSET expected, Conclude(T, "failed"),
           expected' = Remaining(T), staged' = staged \ T, landed' = landed,
           UNCHANGED <<via, gone, shuttingDown, socket, sockets, stale>>,
           disposed' = disposed \/ (disposed' = TRUE /\ shuttingDown /\ T = expected)
    PROVE  IInv'
<1>1. /\ T \in SUBSET Requests /\ T \in SUBSET T /\ "failed" \in Answers
      /\ expected' = expected \ T /\ OpenSockets' \subseteq OpenSockets
  BY RegistryAssumption DEF IInv, HubTypeOK, Remaining, Answers, OpenSockets
<1>2. /\ phase' \in [Requests -> Phases] /\ told' \in [Requests -> Seq(Answers)]
      /\ NoTraceBefore' /\ PendingUntold' /\ GivenUpOnly'
      /\ AnsweredOnce' /\ NothingLandsUnreported' /\ HeldAnswersAreReleased'
  <2>1. \A r \in T \ T : FALSE
    OBVIOUS
  <2>2. QED
    BY <1>1, <2>1, ConcludeKeeps
<1>3. HubTypeOK' /\ SocketsAreOrdered'
  BY <1>1, <1>2 DEF IInv, HubTypeOK, SocketsAreOrdered
<1>4. ShutdownCancelsRequests' /\ DisposedLast'
  BY <1>1 DEF IInv, HubTypeOK, ShutdownCancelsRequests, DisposedLast, Pending, Conclude, Concluded
<1>5. QED
  BY <1>2, <1>3, <1>4 DEF IInv

LEMMA FailKeeps ==
    ASSUME IInv, NEW T \in SUBSET expected, FailTransfers(T),
           UNCHANGED <<via, gone, shuttingDown, socket, sockets, stale>>,
           disposed' = disposed \/ (disposed' = TRUE /\ shuttingDown /\ T = expected)
    PROVE  IInv'
  BY SettlingKeeps DEF FailTransfers, Drop

\* A step that touches nothing the invariant speaks of.
LEMMA FrameKeeps ==
    ASSUME IInv,
           UNCHANGED <<phase, told, via, gone, shuttingDown, expected, staged, landed, disposed,
                       socket, sockets, stale>>
    PROVE  IInv'
BY DEF IInv, HubTypeOK, SocketsAreOrdered, NoTraceBefore, PendingUntold, GivenUpOnly, AnsweredOnce,
   NothingLandsUnreported, HeldAnswersAreReleased, ShutdownCancelsRequests, Pending, DisposedLast,
   OpenSockets

-----------------------------------------------------------------------------
(* The steps of the hub                                                    *)

LEMMA AskKeeps ==
    ASSUME IInv, NEW r \in Requests, Ask(r)
    PROVE  IInv'
<1>1. CASE shuttingDown
  <2>1. /\ Conclude({r}, "shutting_down") /\ {r} \in SUBSET Requests
        /\ "shutting_down" \in Answers /\ phase[r] = "unasked"
    BY <1>1 DEF Ask, Answers
  <2>2. UNCHANGED <<expected, staged, landed, disposed, via, gone, socket, sockets, stale, shuttingDown>>
    BY DEF Ask, registryVars, linkVars
  <2>3. stale' \in SUBSET stale /\ phase[r] # "over" /\ r \notin expected
    BY <2>1, <2>2 DEF IInv, NoTraceBefore
  <2>4. QED
    BY <2>1, <2>2, <2>3, AnswerKeeps
<1>2. CASE ~ shuttingDown
  <2>1. /\ phase[r] = "unasked" /\ phase' = [phase EXCEPT ![r] = "resolving"]
        /\ UNCHANGED <<told, via, gone, shuttingDown, expected, staged, landed, disposed,
                       socket, sockets, stale>>
    BY <1>2 DEF Ask, registryVars, linkVars
  <2>2. HubTypeOK' /\ SocketsAreOrdered'
    BY <2>1 DEF IInv, HubTypeOK, SocketsAreOrdered, Phases
  <2>3. NoTraceBefore' /\ PendingUntold' /\ GivenUpOnly' /\ DisposedLast'
    BY <2>1, RegistryAssumption
       DEF IInv, HubTypeOK, NoTraceBefore, PendingUntold, GivenUpOnly, DisposedLast, OpenSockets
  <2>4. AnsweredOnce' /\ NothingLandsUnreported'
    BY <2>1 DEF IInv, AnsweredOnce, NothingLandsUnreported
  <2>5. HeldAnswersAreReleased' /\ ShutdownCancelsRequests'
    BY <2>1 DEF IInv, HubTypeOK, HeldAnswersAreReleased, ShutdownCancelsRequests, Pending
  <2>6. QED
    BY <2>2, <2>3, <2>4, <2>5 DEF IInv
<1>3. QED
  BY <1>1, <1>2

LEMMA RefusalKeeps ==
    ASSUME IInv, NEW r \in Requests, NoTarget(r) \/ RefuseForShutdown(r)
    PROVE  IInv'
<1>1. PICK a \in {"no_target", "shutting_down"} : Conclude({r}, a)
  BY DEF NoTarget, RefuseForShutdown
<1>2. a \in Answers /\ {r} \in SUBSET Requests /\ phase[r] = "resolving"
  BY <1>1 DEF NoTarget, RefuseForShutdown, Answers
<1>3. UNCHANGED <<expected, staged, landed, disposed, via, gone, socket, sockets, stale, shuttingDown>>
  BY DEF NoTarget, RefuseForShutdown, registryVars, linkVars
<1>4. stale' \in SUBSET stale /\ r \notin expected
  BY <1>2, <1>3 DEF IInv, NoTraceBefore
<1>5. QED
  BY <1>1, <1>2, <1>3, <1>4, AnswerKeeps

\* A refused transfer leaves the request without a trace, as it was.
LEMMA RefuseTransferKeeps ==
    ASSUME IInv, NEW t \in Fetches, RefuseTransfer(t)
    PROVE  IInv'
<1>1. /\ phase[t] = "resolving" /\ phase' = [phase EXCEPT ![t] = "unheard"]
      /\ UNCHANGED <<told, via, gone, shuttingDown, expected, staged, landed, disposed,
                     socket, sockets, stale>>
  BY DEF RefuseTransfer, registryVars, linkVars
<1>2. HubTypeOK' /\ SocketsAreOrdered'
  BY <1>1 DEF IInv, HubTypeOK, SocketsAreOrdered, Phases
<1>3. NoTraceBefore' /\ PendingUntold' /\ GivenUpOnly' /\ DisposedLast'
  BY <1>1, RegistryAssumption
     DEF IInv, HubTypeOK, NoTraceBefore, PendingUntold, GivenUpOnly, DisposedLast, OpenSockets
<1>4. AnsweredOnce' /\ NothingLandsUnreported'
  BY <1>1 DEF IInv, AnsweredOnce, NothingLandsUnreported
<1>5. HeldAnswersAreReleased' /\ ShutdownCancelsRequests'
  BY <1>1 DEF IInv, HubTypeOK, HeldAnswersAreReleased, ShutdownCancelsRequests, Pending
<1>6. QED
  BY <1>2, <1>3, <1>4, <1>5 DEF IInv

LEMMA ForwardKeeps ==
    ASSUME IInv, NEW r \in Requests, NEW k \in Sockets, Forward(r, k)
    PROVE  IInv'
<1>1. /\ phase[r] = "resolving" /\ k \in OpenSockets /\ ~ shuttingDown
      /\ phase' = [phase EXCEPT ![r] = "pending"] /\ via' = [via EXCEPT ![r] = k]
      /\ UNCHANGED <<told, gone, shuttingDown, staged, landed, disposed, socket, sockets, stale>>
  BY DEF Forward, RefusedNow, Expect, registryVars, linkVars
<1>2. \/ r \in Fetches /\ ~ disposed /\ expected' = expected \cup {r}
      \/ r \notin Fetches /\ expected' = expected
  BY DEF Forward, Accepts, Expect, registryVars
<1>3. told[r] = <<>> /\ r \notin expected /\ r \notin landed
  BY <1>1 DEF IInv, NoTraceBefore
<1>4. k \in Nat /\ k # NoSocket /\ k <= sockets
  BY <1>1, ProxyAssumption DEF OpenSockets, Sockets, NoSocket, IInv, SocketsAreOrdered
<1>5. HubTypeOK'
  BY <1>1, <1>2, <1>4 DEF IInv, HubTypeOK, Phases
<1>6. SocketsAreOrdered'
  BY <1>1, <1>2, <1>4, RegistryAssumption DEF IInv, HubTypeOK, SocketsAreOrdered
<1>7. NoTraceBefore' /\ PendingUntold'
  BY <1>1, <1>2, <1>3 DEF IInv, HubTypeOK, NoTraceBefore, PendingUntold
<1>8. GivenUpOnly'
  <2>1. ASSUME NEW t \in expected', t # r
        PROVE  t \in expected /\ t \in Requests /\ phase'[t] = phase[t] /\ via'[t] = via[t]
    BY <1>1, <1>2, <2>1, RegistryAssumption DEF IInv, HubTypeOK
  <2>2. r \notin landed' /\ phase'[r] # "over" /\ told'[r] = <<>>
    BY <1>1, <1>3 DEF IInv, HubTypeOK
  <2>3. OpenSockets' = OpenSockets
    BY <1>1 DEF OpenSockets
  <2>4. QED
    BY <1>1, <2>1, <2>2, <2>3 DEF IInv, GivenUpOnly
<1>9. AnsweredOnce' /\ NothingLandsUnreported'
  BY <1>1 DEF IInv, AnsweredOnce, NothingLandsUnreported
<1>10. HeldAnswersAreReleased' /\ ShutdownCancelsRequests' /\ DisposedLast'
  BY <1>1, <1>2
     DEF IInv, HubTypeOK, HeldAnswersAreReleased, ShutdownCancelsRequests, DisposedLast, Pending
<1>11. QED
  BY <1>5, <1>6, <1>7, <1>8, <1>9, <1>10 DEF IInv

LEMMA ReceiveResponseKeeps ==
    ASSUME IInv, NEW k \in Sockets, ReceiveResponse(k)
    PROVE  IInv'
<1> DEFINE r == Head(Unread(k)).of
<1>1. UNCHANGED <<via, gone, shuttingDown, socket, sockets, stale>>
  BY DEF ReceiveResponse
<1>2. CASE UNCHANGED <<registryVars, phase, told>>
  BY <1>1, <1>2, FrameKeeps DEF registryVars
<1>3. ASSUME r \in Pending, r \notin Fetches, Conclude({r}, "answered"), UNCHANGED registryVars
      PROVE  IInv'
  <2>1. /\ "answered" \in Answers /\ {r} \in SUBSET Requests /\ phase[r] = "pending"
        /\ r \notin expected /\ stale' \in SUBSET stale
        /\ UNCHANGED <<expected, staged, landed, disposed>>
    BY <1>1, <1>3 DEF Answers, Pending, registryVars, IInv, HubTypeOK
  <2>2. QED
    BY <1>1, <1>3, <2>1, AnswerKeeps
<1>4. ASSUME r \in Pending, r \in Fetches
      PROVE  r \in expected
  BY <1>4 DEF IInv, HeldAnswersAreReleased
<1>5. ASSUME r \in expected, FailTransfers({r}), UNCHANGED disposed
      PROVE  IInv'
  <2>1. {r} \in SUBSET expected
    BY <1>5
  <2>2. QED
    BY <1>1, <1>5, <2>1, FailKeeps
<1>6. QED
  BY <1>2, <1>3, <1>4, <1>5 DEF ReceiveResponse, registryVars

LEMMA LandKeeps ==
    ASSUME IInv, NEW t \in expected, via[t] \in OpenSockets, ~ shuttingDown,
           Land(t), Conclude({t}, "landed"),
           UNCHANGED <<via, gone, shuttingDown, socket, sockets, stale>>
    PROVE  IInv'
<1>1. /\ {t} \in SUBSET Requests /\ {t} \in SUBSET {t} /\ "landed" \in Answers
      /\ expected' = expected \ {t} /\ staged' = staged \ {t} /\ landed' = landed \cup {t}
      /\ disposed' = disposed /\ t \in Fetches /\ OpenSockets' \subseteq OpenSockets
  BY RegistryAssumption DEF IInv, HubTypeOK, Land, Remaining, Answers, OpenSockets
<1>2. /\ phase' \in [Requests -> Phases] /\ told' \in [Requests -> Seq(Answers)]
      /\ NoTraceBefore' /\ PendingUntold' /\ GivenUpOnly'
      /\ AnsweredOnce' /\ NothingLandsUnreported' /\ HeldAnswersAreReleased'
  <2>1. \A r \in {t} \ {t} : FALSE
    OBVIOUS
  <2>2. {t} \subseteq expected /\ \A r \in {t} : via[r] \in OpenSockets /\ r \in {t}
    OBVIOUS
  <2>3. QED
    BY <1>1, <2>1, <2>2, ConcludeKeeps
<1>3. HubTypeOK' /\ SocketsAreOrdered'
  BY <1>1, <1>2 DEF IInv, HubTypeOK, SocketsAreOrdered
<1>4. ShutdownCancelsRequests' /\ DisposedLast'
  BY <1>1 DEF IInv, HubTypeOK, ShutdownCancelsRequests, DisposedLast
<1>5. QED
  BY <1>2, <1>3, <1>4 DEF IInv

LEMMA ReceiveChunkKeeps ==
    ASSUME IInv, NEW k \in Sockets, ReceiveChunk(k)
    PROVE  IInv'
<1> DEFINE t == Head(Unread(k)).of
           verdict == Verdict(t, Head(Unread(k)).seq, via[t] = k)
<1>1. k \in OpenSockets /\ UNCHANGED <<via, gone, shuttingDown, socket, sockets, stale>>
  BY DEF ReceiveChunk, Reads
<1>2. CASE UNCHANGED <<registryVars, phase, told>>
  BY <1>1, <1>2, FrameKeeps DEF registryVars
<1>3. ASSUME verdict \in {"violation", "next", "last"}
      PROVE  t \in expected
  BY <1>3 DEF Verdict
<1>4. ASSUME verdict = "last"
      PROVE  via[t] \in OpenSockets
  BY <1>1, <1>4 DEF Verdict
<1>5. ASSUME t \in expected, FailTransfers({t}), UNCHANGED disposed
      PROVE  IInv'
  <2>1. {t} \in SUBSET expected
    BY <1>5
  <2>2. QED
    BY <1>1, <1>5, <2>1, FailKeeps
<1>6. ASSUME t \in expected, WriteChunk(t), UNCHANGED <<phase, told>>
      PROVE  IInv'
  <2>1. UNCHANGED <<expected, landed, disposed>> /\ staged' = staged \cup {t}
    BY <1>6 DEF WriteChunk
  <2>2. HubTypeOK' /\ SocketsAreOrdered' /\ NoTraceBefore' /\ PendingUntold' /\ GivenUpOnly'
    BY <1>1, <1>6, <2>1
       DEF IInv, HubTypeOK, SocketsAreOrdered, NoTraceBefore, PendingUntold, GivenUpOnly, OpenSockets
  <2>3. AnsweredOnce' /\ NothingLandsUnreported' /\ HeldAnswersAreReleased'
    BY <1>1, <1>6, <2>1
       DEF IInv, AnsweredOnce, NothingLandsUnreported, HeldAnswersAreReleased, Pending
  <2>4. ShutdownCancelsRequests' /\ DisposedLast'
    BY <1>1, <1>6, <2>1 DEF IInv, ShutdownCancelsRequests, DisposedLast, Pending
  <2>5. QED
    BY <2>2, <2>3, <2>4 DEF IInv
<1>7. ASSUME ~ shuttingDown, verdict = "last", Land(t), Conclude({t}, "landed")
      PROVE  IInv'
  BY <1>1, <1>3, <1>4, <1>7, LandKeeps
<1>8. ASSUME t \in expected, DropWhole(t), Conclude({t}, "failed")
      PROVE  IInv'
  <2>1. /\ {t} \in SUBSET expected
        /\ expected' = Remaining({t}) /\ staged' = staged \ {t} /\ UNCHANGED <<landed, disposed>>
    BY <1>8 DEF DropWhole
  <2>2. QED
    BY <1>1, <1>8, <2>1, SettlingKeeps
<1>9. QED
  BY <1>2, <1>3, <1>5, <1>6, <1>7, <1>8 DEF ReceiveChunk

LEMMA TimersKeep ==
    ASSUME IInv,
           \/ \E r \in Requests : ProxyTimeout(r)
           \/ \E t \in Fetches : TransferTimeout(t)
    PROVE  IInv'
<1>1. ASSUME NEW r \in Requests, ProxyTimeout(r)
      PROVE  IInv'
  <2>1. /\ Conclude({r}, "timeout") /\ phase[r] = "pending" /\ "timeout" \in Answers
        /\ {r} \in SUBSET Requests
        /\ UNCHANGED <<expected, staged, landed, disposed, via, gone, socket, sockets, stale,
                       shuttingDown>>
    BY <1>1 DEF ProxyTimeout, HasTimer, Answers, registryVars, linkVars
  <2>2. stale' \in SUBSET stale
    BY <2>1
  <2>3. QED
    BY <2>1, <2>2, AnswerKeeps
<1>2. ASSUME NEW t \in Fetches, TransferTimeout(t)
      PROVE  IInv'
  <2>1. /\ {t} \in SUBSET expected /\ FailTransfers({t})
        /\ UNCHANGED <<disposed, via, gone, shuttingDown, socket, sockets, stale>>
    BY <1>2 DEF TransferTimeout, linkVars
  <2>2. QED
    BY <2>1, FailKeeps
<1>3. QED
  BY <1>1, <1>2

LEMMA BrowserClosesKeeps ==
    ASSUME IInv, NEW k \in Sockets, BrowserCloses(k)
    PROVE  IInv'
<1> DEFINE R == {r \in Pending : via[r] = k}
<1>1. /\ Conclude(R, "disconnected") /\ "disconnected" \in Answers /\ R \in SUBSET Requests
      /\ stale' = stale \ {k} /\ k \in stale
      /\ UNCHANGED <<expected, staged, landed, disposed, via, gone, socket, sockets, shuttingDown>>
  BY DEF BrowserCloses, Answers, Pending, registryVars
<1>2. \A r \in R : phase[r] # "over" /\ via[r] \notin OpenSockets'
  BY <1>1 DEF Pending, OpenSockets, IInv, SocketsAreOrdered
<1>3. stale' \in SUBSET stale
  BY <1>1
<1>4. QED
  BY <1>1, <1>2, <1>3, AnswerKeeps

LEMMA ClientClosesKeeps ==
    ASSUME IInv, NEW s, ClientCloses(s)
    PROVE  IInv'
<1>1. PICK C \in SUBSET Requests :
        /\ \A r \in C : phase[r] # "unasked"
        /\ gone' = gone \cup C /\ phase' = Concluded(C \cap Pending)
  BY DEF ClientCloses
<1>2. UNCHANGED <<told, via, shuttingDown, expected, staged, landed, disposed, socket, sockets, stale>>
  BY DEF ClientCloses, registryVars, linkVars
<1>3. \A r \in Requests :
        IF r \in C /\ phase[r] = "pending" THEN phase'[r] = "over" ELSE phase'[r] = phase[r]
  BY <1>1 DEF Concluded, Pending
<1>4. HubTypeOK' /\ SocketsAreOrdered'
  BY <1>1, <1>2 DEF IInv, HubTypeOK, SocketsAreOrdered, Phases, Concluded
<1>5. NoTraceBefore' /\ PendingUntold'
  BY <1>2, <1>3 DEF IInv, NoTraceBefore, PendingUntold
<1>6. GivenUpOnly' /\ DisposedLast'
  BY <1>1, <1>2, <1>3, RegistryAssumption DEF IInv, HubTypeOK, GivenUpOnly, DisposedLast, OpenSockets
<1>7. AnsweredOnce' /\ NothingLandsUnreported'
  BY <1>1, <1>2 DEF IInv, AnsweredOnce, NothingLandsUnreported
<1>8. HeldAnswersAreReleased' /\ ShutdownCancelsRequests'
  BY <1>2, <1>3 DEF IInv, HeldAnswersAreReleased, ShutdownCancelsRequests, Pending
<1>9. QED
  BY <1>4, <1>5, <1>6, <1>7, <1>8 DEF IInv

LEMMA ShutdownKeeps ==
    ASSUME IInv, BeginShutdown \/ Dispose
    PROVE  IInv'
<1>1. CASE BeginShutdown
  <2>1. /\ Conclude(Pending, "shutting_down") /\ "shutting_down" \in Answers
        /\ Pending \in SUBSET Requests /\ shuttingDown' = TRUE
        /\ \A r \in Pending : phase[r] # "over"
        /\ UNCHANGED <<expected, staged, landed, disposed, via, gone, socket, sockets, stale>>
    BY <1>1 DEF BeginShutdown, Answers, Pending, registryVars, linkVars
  <2>2. stale' \in SUBSET stale
    BY <2>1
  <2>3. QED
    BY <2>1, <2>2, AnswerKeeps
<1>2. CASE Dispose
  <2>1. /\ FailTransfers(expected) /\ expected \in SUBSET expected
        /\ disposed' = TRUE /\ shuttingDown
        /\ UNCHANGED <<via, gone, shuttingDown, socket, sockets, stale>>
    BY <1>2 DEF Dispose, linkVars
  <2>2. QED
    BY <2>1, FailKeeps
<1>3. QED
  BY <1>1, <1>2

-----------------------------------------------------------------------------
(* The steps of the extension                                              *)

\* The extension takes sockets and leaves them; none is taken twice.
LEMMA LinkKeeps ==
    ASSUME IInv, WorkerReturns \/ SocketDies \/ Connect
    PROVE  IInv'
<1>1. UNCHANGED <<phase, told, via, gone, shuttingDown, expected, staged, landed, disposed>>
  BY DEF WorkerReturns, SocketDies, Connect, registryVars, hubVars
<1>2. \/ socket' = NoSocket /\ sockets' = sockets /\ stale' = stale \cup ({socket} \ {NoSocket})
      \/ socket' = sockets + 1 /\ sockets' = sockets + 1 /\ stale' = stale
  BY DEF WorkerReturns, SocketDies, Connect, CutSocket
<1>3. SocketsAreOrdered'
  <2>1. CASE socket' = NoSocket /\ sockets' = sockets /\ stale' = stale \cup ({socket} \ {NoSocket})
    <3>1. socket \in {NoSocket} \cup (1..sockets)
      BY DEF IInv, SocketsAreOrdered
    <3>2. stale' \in SUBSET (1..sockets') /\ socket' \notin stale'
      BY <2>1, <3>1 DEF IInv, SocketsAreOrdered, NoSocket
    <3>3. QED
      BY <1>1, <2>1, <3>2 DEF IInv, SocketsAreOrdered
  <2>2. CASE socket' = sockets + 1 /\ sockets' = sockets + 1 /\ stale' = stale
    <3>1. stale \in SUBSET (1..sockets) /\ sockets \in Nat \ {0}
      BY DEF IInv, SocketsAreOrdered
    <3>2. /\ sockets' \in Nat \ {0} /\ socket' \in {NoSocket, sockets'}
          /\ stale' \in SUBSET (1..sockets') /\ socket' \notin stale'
      BY <2>2, <3>1
    <3>3. \A r \in Requests : via'[r] <= sockets'
      BY <1>1, <2>2, <3>1 DEF IInv, HubTypeOK, SocketsAreOrdered
    <3>4. QED
      BY <1>1, <3>2, <3>3 DEF IInv, SocketsAreOrdered
  <2>3. QED
    BY <1>2, <2>1, <2>2
<1>4. \A t \in expected : via[t] \notin OpenSockets => via[t] \notin OpenSockets'
  BY <1>2, RegistryAssumption DEF OpenSockets, IInv, HubTypeOK, SocketsAreOrdered, NoSocket
<1>5. HubTypeOK' /\ NoTraceBefore' /\ PendingUntold' /\ AnsweredOnce' /\ NothingLandsUnreported'
  BY <1>1 DEF IInv, HubTypeOK, NoTraceBefore, PendingUntold, AnsweredOnce, NothingLandsUnreported
<1>6. GivenUpOnly' /\ DisposedLast'
  BY <1>1, <1>4 DEF IInv, GivenUpOnly, DisposedLast
<1>7. HeldAnswersAreReleased' /\ ShutdownCancelsRequests'
  BY <1>1 DEF IInv, HeldAnswersAreReleased, ShutdownCancelsRequests, Pending
<1>8. QED
  BY <1>3, <1>5, <1>6, <1>7 DEF IInv

LEMMA ExtensionKeeps ==
    ASSUME IInv,
           \/ ExtensionReceives \/ WorkerStops
           \/ \E r \in Requests : FinishWork(r)
           \/ \E t \in Fetches : SendChunk(t) \/ FetchFails(t) \/ FetchDone(t)
    PROVE  IInv'
<1>1. UNCHANGED <<registryVars, hubVars, linkVars>>
  BY DEF ExtensionReceives, WorkerStops, FinishWork, SendChunk, FetchFails, FetchDone
<1>2. QED
  BY <1>1, FrameKeeps DEF registryVars, hubVars, linkVars

-----------------------------------------------------------------------------

LEMMA Next_IInv == IInv /\ [Next]_vars => IInv'
<1> SUFFICES ASSUME IInv, [Next]_vars PROVE IInv'
  OBVIOUS
<1>1. CASE \/ \E r \in Requests : Ask(r) \/ NoTarget(r) \/ RefuseForShutdown(r)
           \/ \E t \in Fetches : RefuseTransfer(t)
  BY <1>1, AskKeeps, RefusalKeeps, RefuseTransferKeeps
<1>2. CASE \E r \in Requests, k \in Sockets : Forward(r, k)
  BY <1>2, ForwardKeeps
<1>3. CASE \E k \in Sockets : ReceiveResponse(k) \/ ReceiveChunk(k)
  BY <1>3, ReceiveResponseKeeps, ReceiveChunkKeeps
<1>4. CASE (\E r \in Requests : ProxyTimeout(r)) \/ (\E t \in Fetches : TransferTimeout(t))
  BY <1>4, TimersKeep
<1>5. CASE \E k \in Sockets : BrowserCloses(k)
  BY <1>5, BrowserClosesKeeps
<1>6. CASE \E r \in Requests : ClientCloses(SessionOf[r])
  BY <1>6, ClientClosesKeeps
<1>7. CASE BeginShutdown \/ Dispose
  BY <1>7, ShutdownKeeps
<1>8. CASE WorkerReturns \/ SocketDies \/ Connect
  BY <1>8, LinkKeeps
<1>9. CASE \/ ExtensionReceives \/ WorkerStops
           \/ \E r \in Requests : FinishWork(r)
           \/ \E t \in Fetches : SendChunk(t) \/ FetchFails(t) \/ FetchDone(t)
  BY <1>9, ExtensionKeeps
<1>10. CASE UNCHANGED vars
  BY <1>10, FrameKeeps DEF vars, registryVars, hubVars, linkVars
<1>11. QED
  BY <1>1, <1>2, <1>3, <1>4, <1>5, <1>6, <1>7, <1>8, <1>9, <1>10 DEF Next

LEMMA IInvHolds == Spec => []IInv
BY Init_IInv, Next_IInv, PTL DEF Spec

\* What the hub keeps has the type it should have, whatever the extension sends.
THEOREM HubTypeCorrect == Spec => []HubTypeOK
<1>1. IInv => HubTypeOK
  BY DEF IInv
<1>2. QED
  BY <1>1, IInvHolds, PTL

\* Response, settlement, timeout, closed sockets and shutdown answer a request once.
THEOREM RequestsAnsweredOnce == Spec => []AnsweredOnce
<1>1. IInv => AnsweredOnce
  BY DEF IInv
<1>2. QED
  BY <1>1, IInvHolds, PTL

\* No file lands whose caller was told something else first.
THEOREM LandingsAreReported == Spec => []NothingLandsUnreported
<1>1. IInv => NothingLandsUnreported
  BY DEF IInv
<1>2. QED
  BY <1>1, IInvHolds, PTL

\* The response to a fetch that is held has a transfer that will release it.
THEOREM HeldAreReleased == Spec => []HeldAnswersAreReleased
<1>1. IInv => HeldAnswersAreReleased
  BY DEF IInv
<1>2. QED
  BY <1>1, IInvHolds, PTL

\* Shutdown leaves no request pending, and no transfer once the registry is disposed of.
THEOREM ShutdownCancels == Spec => []ShutdownCancelsRequests
<1>1. IInv => ShutdownCancelsRequests
  BY DEF IInv
<1>2. QED
  BY <1>1, IInvHolds, PTL

-----------------------------------------------------------------------------
(* Who is forgotten, and that nobody takes more than its places.           *)

\* The clients of requests that are done with have heard of it, and none but a fetch is refused
\* unheard.
AllButRefusedAreTold ==
    \A r \in Requests :
       /\ phase[r] = "over" => told[r] # <<>> \/ r \in gone
       /\ phase[r] = "unheard" => r \in Fetches

\* Whoever is told something, or has left, is not forgotten.
LEMMA TellingIsEnough ==
    ASSUME IInv, AllButRefusedAreTold, NEW R, NEW a \in Answers, Conclude(R, a), gone \subseteq gone'
    PROVE  AllButRefusedAreTold'
<1>1. \A r \in Requests : r \in R \ gone => told'[r] = Append(told[r], a) /\ told[r] \in Seq(Answers)
  BY DEF Conclude, Told, IInv, HubTypeOK
<1>2. \A q \in Seq(Answers) : Append(q, a) # <<>>
  OBVIOUS
<1>3. \A r \in Requests :
         r \notin R \/ r \in gone => told'[r] = told[r] /\ (phase'[r] = phase[r] \/ r \in gone)
  BY DEF Conclude, Told, Concluded
<1>4. \A r \in Requests : phase'[r] = phase[r] \/ phase'[r] = "over"
  BY DEF Conclude, Concluded
<1> QED
  BY <1>1, <1>2, <1>3, <1>4 DEF AllButRefusedAreTold

LEMMA NextTells ==
    ASSUME IInv, AllButRefusedAreTold, [Next]_vars
    PROVE  AllButRefusedAreTold'
<1>1. ASSUME NEW R, NEW a \in Answers, Conclude(R, a), UNCHANGED gone
      PROVE  AllButRefusedAreTold'
  BY <1>1, TellingIsEnough
<1>2. {"answered", "landed", "failed", "no_target", "timeout", "disconnected", "shutting_down"}
         = Answers
  BY DEF Answers
<1>3. ASSUME UNCHANGED <<phase, told, gone>> PROVE AllButRefusedAreTold'
  BY <1>3 DEF AllButRefusedAreTold
<1>4. ASSUME NEW r \in Requests,
             \/ Ask(r) \/ NoTarget(r) \/ RefuseForShutdown(r) \/ ProxyTimeout(r)
             \/ \E k \in Sockets : Forward(r, k)
             \/ r \in Fetches /\ RefuseTransfer(r)
      PROVE  AllButRefusedAreTold'
  <2>1. UNCHANGED gone
    BY <1>4 DEF Ask, NoTarget, RefuseForShutdown, ProxyTimeout, Forward, RefuseTransfer
  <2>2. \/ \E a \in Answers : Conclude({r}, a)
        \/ \E b \in {"resolving", "pending", "unheard"} :
              /\ phase' = [phase EXCEPT ![r] = b] /\ UNCHANGED told
              /\ b = "unheard" => r \in Fetches
    BY <1>2, <1>4 DEF Ask, NoTarget, RefuseForShutdown, ProxyTimeout, Forward, RefuseTransfer
  <2>3. ASSUME NEW b \in {"resolving", "pending", "unheard"}, phase' = [phase EXCEPT ![r] = b],
               UNCHANGED told, b = "unheard" => r \in Fetches
        PROVE  AllButRefusedAreTold'
    BY <2>1, <2>3 DEF AllButRefusedAreTold, IInv, HubTypeOK
  <2> QED
    BY <1>1, <2>1, <2>2, <2>3
\* A response to a fetch concludes it silently only when its transfer is gone, and a pending
\* fetch has one.
<1>5. ASSUME NEW k \in Sockets, ReceiveResponse(k) PROVE AllButRefusedAreTold'
  <2>1. UNCHANGED gone
    BY <1>5 DEF ReceiveResponse
  <2>2. \/ UNCHANGED <<phase, told>>
        \/ \E r : \E a \in Answers : Conclude({r}, a)
    BY <1>2, <1>5 DEF ReceiveResponse, FailTransfers, IInv, HeldAnswersAreReleased
  <2> QED
    BY <1>1, <1>3, <2>1, <2>2
<1>6. ASSUME NEW k \in Sockets, ReceiveChunk(k) PROVE AllButRefusedAreTold'
  <2>1. UNCHANGED gone
    BY <1>6 DEF ReceiveChunk
  <2>2. \/ UNCHANGED <<phase, told>>
        \/ \E r : \E a \in Answers : Conclude({r}, a)
    BY <1>2, <1>6 DEF ReceiveChunk, FailTransfers
  <2> QED
    BY <1>1, <1>3, <2>1, <2>2
<1>7. CASE \/ BeginShutdown \/ Dispose \/ \E t \in Fetches : TransferTimeout(t)
           \/ \E k \in Sockets : BrowserCloses(k)
  <2>1. UNCHANGED gone
    BY <1>7 DEF BeginShutdown, Dispose, TransferTimeout, BrowserCloses
  <2>2. \E R : \E a \in Answers : Conclude(R, a)
    BY <1>2, <1>7 DEF BeginShutdown, Dispose, TransferTimeout, BrowserCloses, FailTransfers
  <2> QED
    BY <1>1, <2>1, <2>2
<1>8. ASSUME NEW s, ClientCloses(s) PROVE AllButRefusedAreTold'
  <2>1. PICK C : phase' = Concluded(C \cap Pending) /\ gone' = gone \cup C /\ told' = told
    BY <1>8 DEF ClientCloses
  <2> QED
    BY <2>1 DEF AllButRefusedAreTold, Concluded
<1>9. CASE \/ ExtensionReceives \/ WorkerStops \/ WorkerReturns \/ SocketDies \/ Connect
           \/ \E r \in Requests : FinishWork(r)
           \/ \E t \in Fetches : SendChunk(t) \/ FetchFails(t) \/ FetchDone(t)
           \/ UNCHANGED vars
  BY <1>3, <1>9 DEF ExtensionReceives, WorkerStops, WorkerReturns, SocketDies, Connect, FinishWork,
                    SendChunk, FetchFails, FetchDone, vars, hubVars
<1>10. Fetches \subseteq Requests
  BY RegistryAssumption
<1> QED
  BY <1>4, <1>5, <1>6, <1>7, <1>8, <1>9, <1>10 DEF Next

\* Of all the ways a request ends only one is silent towards a client that waits: that of a fetch
\* whose transfer is refused, and it leaves no transfer and no file.  With a timer for every
\* pending request, and a browser or none for the others, every other request is answered.
THEOREM OnlyRefusedAreForgotten == Spec => []OnlyTheRefusedAreForgotten
<1>1. Init => AllButRefusedAreTold
  BY DEF Init, AllButRefusedAreTold
<1>2. IInv /\ AllButRefusedAreTold => OnlyTheRefusedAreForgotten
  BY DEF IInv, HubTypeOK, NoTraceBefore, AllButRefusedAreTold, OnlyTheRefusedAreForgotten
<1> QED
  BY <1>1, <1>2, IInvHolds, NextTells, PTL DEF Spec

\* Only a request that is forwarded takes a place of its session.
LEMMA WhoIsExpected ==
    ASSUME [Next]_vars
    PROVE  \/ expected' \subseteq expected
           \/ \E r \in Requests : Accepts(r) /\ expected' = expected \cup {r}
<1>1. \A T : Drop(T) => expected' \subseteq expected
  BY DEF Drop, Remaining
<1>2. \A t : Land(t) \/ DropWhole(t) => expected' \subseteq expected
  BY DEF Land, DropWhole, Remaining
<1>3. \A t : WriteChunk(t) => expected' = expected
  BY DEF WriteChunk
<1>4. (\E k \in Sockets : ReceiveResponse(k) \/ ReceiveChunk(k)) \/ Dispose
         \/ (\E t \in Fetches : TransferTimeout(t))
         => expected' \subseteq expected
  BY <1>1, <1>2, <1>3 DEF ReceiveResponse, ReceiveChunk, Dispose, TransferTimeout, FailTransfers, registryVars
<1>5. \A r \in Requests, k \in Sockets : Forward(r, k) =>
         expected' = expected \/ (Accepts(r) /\ expected' = expected \cup {r})
  BY DEF Forward, Expect, registryVars
<1>6. \/ BeginShutdown \/ ExtensionReceives \/ WorkerStops \/ WorkerReturns \/ SocketDies \/ Connect
      \/ UNCHANGED vars
      \/ \E r \in Requests : Ask(r) \/ NoTarget(r) \/ RefuseForShutdown(r) \/ ProxyTimeout(r)
                                \/ FinishWork(r) \/ ClientCloses(SessionOf[r])
      \/ \E t \in Fetches : RefuseTransfer(t) \/ SendChunk(t) \/ FetchFails(t) \/ FetchDone(t)
      \/ \E k \in Sockets : BrowserCloses(k)
      => expected' = expected
  BY DEF BeginShutdown, ExtensionReceives, WorkerStops, WorkerReturns, SocketDies, Connect, vars,
         Ask, NoTarget, RefuseForShutdown, RefuseTransfer, ProxyTimeout, FinishWork, ClientCloses,
         SendChunk, FetchFails, FetchDone, BrowserCloses, registryVars
<1> QED
  BY <1>4, <1>5, <1>6 DEF Next

\* No session has more transfers under way than the registry allows, though the browser of a
\* request is looked up, and its place taken, at different times.
THEOREM PlacesAreBounded == Spec => []PlacesAreKept
<1>1. Init => PlacesAreKept
  BY FS_EmptySet, RegistryAssumption DEF Init, RegistryInit, PlacesAreKept, ExpectedOf
<1>2. ASSUME IInv, PlacesAreKept, [Next]_vars
      PROVE  PlacesAreKept'
  <2> SUFFICES ASSUME NEW s \in {SessionOf[r] : r \in Requests}
               PROVE  Cardinality(ExpectedOf(s)') <= MaxActive
    BY DEF PlacesAreKept
  <2>1. IsFiniteSet(ExpectedOf(s)) /\ Cardinality(ExpectedOf(s)) \in Nat
    <3>1. ExpectedOf(s) \in SUBSET Requests
      BY <1>2, RegistryAssumption DEF ExpectedOf, IInv, HubTypeOK
    <3> QED
      BY <3>1, RegistryAssumption, FS_Subset, FS_CardinalityType
  <2>2. Cardinality(ExpectedOf(s)) <= MaxActive /\ MaxActive \in Nat
    BY <1>2, RegistryAssumption DEF PlacesAreKept
  <2>3. CASE expected' \subseteq expected
    <3>1. ExpectedOf(s)' \in SUBSET ExpectedOf(s)
      BY <2>3 DEF ExpectedOf
    <3>2. IsFiniteSet(ExpectedOf(s)') /\ Cardinality(ExpectedOf(s)') <= Cardinality(ExpectedOf(s))
      BY <2>1, <3>1, FS_Subset
    <3> QED
      BY <2>1, <2>2, <3>2, FS_CardinalityType
  <2>4. ASSUME NEW r \in Requests, Accepts(r), expected' = expected \cup {r}
        PROVE  Cardinality(ExpectedOf(s)') <= MaxActive
    <3>1. CASE SessionOf[r] = s
      <4>1. ExpectedOf(s)' = ExpectedOf(s) \cup {r}
        BY <2>4, <3>1 DEF ExpectedOf
      <4>2. Cardinality(ExpectedOf(s)) < MaxActive
        BY <2>4, <3>1 DEF Accepts
      <4>3. Cardinality(ExpectedOf(s) \cup {r}) =
               IF r \in ExpectedOf(s) THEN Cardinality(ExpectedOf(s)) ELSE Cardinality(ExpectedOf(s)) + 1
        BY <2>1, FS_AddElement, Zenon
      <4> QED
        BY <2>1, <2>2, <4>1, <4>2, <4>3
    <3>2. CASE SessionOf[r] # s
      <4>1. ExpectedOf(s)' = ExpectedOf(s)
        BY <2>4, <3>2 DEF ExpectedOf
      <4> QED
        BY <2>2, <4>1
    <3> QED
      BY <3>1, <3>2
  <2> QED
    BY <1>2, <2>3, <2>4, WhoIsExpected
<1> QED
  BY <1>1, <1>2, IInvHolds, PTL DEF Spec

-----------------------------------------------------------------------------
(* The proxy implements ToolCalls                                          *)

\* Where the file of a transfer that is expected, or of a call that is open, stands.
LEMMA FilesAreKnown ==
    ASSUME IInv, NEW r \in Requests
    PROVE  /\ r \in expected => r \notin landed
           /\ r \in expected /\ Doomed(r) => via[r] \notin OpenSockets \/ shuttingDown
           /\ phase[r] # "over" => told[r] = <<>> /\ r \notin landed /\ ~ Doomed(r)
           /\ phase[r] \in {"unasked", "resolving"} => r \notin expected
<1>1. /\ phase[r] \in Phases
      /\ phase[r] # "over" => told[r] = <<>> /\ r \notin landed
      /\ phase[r] \in {"unasked", "resolving"} => r \notin expected
  BY DEF IInv, HubTypeOK, Phases, NoTraceBefore, PendingUntold
<1>2. ASSUME r \in expected
      PROVE  r \notin landed /\ (Doomed(r) => via[r] \notin OpenSockets \/ shuttingDown)
  <2>1. CASE told[r] = <<>>
    BY <1>2, <2>1 DEF IInv, GivenUpOnly, Doomed
  <2>2. CASE told[r] = <<"timeout">>
    BY <1>2, <2>2 DEF IInv, GivenUpOnly, Doomed
  <2>3. QED
    BY <1>2, <2>1, <2>2 DEF IInv, GivenUpOnly
<1>3. QED
  BY <1>1, <1>2 DEF Doomed

\* What the hub does to answer the requests R is what ToolCalls calls their end.
LEMMA ConcludeEnds ==
    ASSUME NEW R \in SUBSET Requests, NEW a, Conclude(R, a), gone' = gone
    PROVE  Calls!End(R, a)
<1>1. CallOf' = [r \in Requests |-> IF r \in R THEN "over" ELSE CallOf[r]]
  BY DEF Conclude, Concluded, CallOf
<1>2. QED
  BY <1>1 DEF Conclude, Told, Calls!End

LEMMA RefuseRefines ==
    ASSUME IInv, NEW r \in Requests, phase[r] \in {"unasked", "resolving"},
           NEW a \in {"shutting_down", "no_target"}, Conclude({r}, a),
           UNCHANGED <<expected, landed, gone>>
    PROVE  Calls!Next
<1>1. FileOf[r] = "none" /\ CallOf[r] \in {"unasked", "open"}
  BY FilesAreKnown DEF FileOf, CallOf
<1>2. Calls!End({r}, a)
  BY ConcludeEnds
<1>3. \A d \in Requests : d # r => told'[d] = told[d]
  BY DEF Conclude, Told
<1>4. r \notin expected /\ r \notin landed
  BY FilesAreKnown
<1>5. FileOf' = FileOf
  BY <1>3, <1>4 DEF FileOf, Doomed
<1>6. Calls!Refuse(r)
  BY <1>1, <1>2, <1>5 DEF Calls!Refuse
<1>7. QED
  BY <1>6 DEF Calls!Next

\* Open requests are answered while the registry stays as it is.
LEMMA GiveUpRefines ==
    ASSUME IInv, NEW R \in SUBSET Pending,
           NEW a \in {"timeout", "disconnected", "shutting_down"}, Conclude(R, a),
           UNCHANGED <<expected, landed, gone>>
    PROVE  Calls!Next
<1>1. R \in SUBSET Requests /\ \A r \in R : phase[r] = "pending"
  BY DEF Pending
<1>2. Calls!End(R, a)
  BY <1>1, ConcludeEnds
<1>3. \A r \in Requests : told'[r] = IF r \in R \ gone THEN Append(told[r], a) ELSE told[r]
  BY DEF Conclude, Told
<1>4. \A r \in R : told[r] = <<>> /\ r \notin landed /\ ~ Doomed(r)
  BY <1>1, FilesAreKnown
<1>5. \A r \in R \ gone : told'[r] = <<a>>
  <2>1. \A x : Append(<<>>, x) = <<x>>
    OBVIOUS
  <2>2. QED
    BY <1>1, <1>3, <1>4, <2>1, Zenon
<1>6. ASSUME NEW r \in Requests
      PROVE  FileOf'[r] = IF r \in R \ gone /\ FileOf[r] = "coming" /\ a # "timeout"
                          THEN "doomed" ELSE FileOf[r]
  <2>1. CASE r \in R \ gone
    <3>1. Doomed(r)' <=> a # "timeout"
      BY <1>5, <2>1 DEF Doomed
    <3>2. QED
      BY <1>4, <2>1, <3>1 DEF FileOf
  <2>2. CASE r \notin R \ gone
    <3>1. Doomed(r)' <=> Doomed(r)
      BY <1>3, <2>2 DEF Doomed
    <3>2. QED
      BY <2>2, <3>1 DEF FileOf
  <2>3. QED
    BY <2>1, <2>2
<1>7. FileOf' = [r \in Requests |->
                   IF r \in R \ gone /\ FileOf[r] = "coming" /\ a # "timeout"
                   THEN "doomed" ELSE FileOf[r]]
  <2>1. FileOf' = [r \in Requests |-> FileOf'[r]]
    BY DEF FileOf
  <2>2. QED
    BY <1>6, <2>1, Zenon
<1>8. Calls!GiveUp(R, a)
  BY <1>2, <1>7 DEF Calls!GiveUp
<1>9. R \in SUBSET Calls!Open
  BY <1>1 DEF Calls!Open, CallOf
<1>10. QED
  BY <1>8, <1>9 DEF Calls!Next

\* The places that are taken are those of the files on their way.
LEMMA PlacesAreThose ==
    ASSUME IInv, NEW t \in Fetches
    PROVE  Calls!HasPlace(t) <=> Cardinality(ExpectedOf(SessionOf[t])) < MaxActive
<1>1. expected \subseteq Requests
  BY RegistryAssumption DEF IInv, HubTypeOK
<1>2. \A r \in expected : r \notin landed
  BY DEF IInv, GivenUpOnly
<1>3. Calls!OnTheWay = expected
  BY <1>1, <1>2 DEF Calls!OnTheWay, FileOf
<1>4. QED
  BY <1>3 DEF Calls!HasPlace, ExpectedOf, Calls!Cardinality, Cardinality

\* A transfer that is refused before the shutdown has no place.
LEMMA RefuseTransferRefines ==
    ASSUME IInv, NEW t \in Fetches, RefuseTransfer(t)
    PROVE  Calls!Next
<1>1. /\ t \in Requests /\ phase[t] = "resolving" /\ phase' = [phase EXCEPT ![t] = "unheard"]
      /\ phase \in [Requests -> Phases]
      /\ UNCHANGED <<told, gone, expected, landed>>
  BY RegistryAssumption DEF RefuseTransfer, registryVars, IInv, HubTypeOK
<1>2. ~ Calls!HasPlace(t)
  BY PlacesAreThose DEF RefuseTransfer, RefusedNow, Accepts, IInv, DisposedLast
<1>3. CallOf[t] = "open" /\ CallOf' = [CallOf EXCEPT ![t] = "unheard"]
  BY <1>1 DEF CallOf
<1>4. FileOf[t] = "none" /\ FileOf' = FileOf
  BY <1>1, FilesAreKnown DEF FileOf, Doomed
<1>5. Calls!Lose(t)
  BY <1>1, <1>2, <1>3, <1>4 DEF Calls!Lose
<1>6. QED
  BY <1>5 DEF Calls!Next

LEMMA ForwardRefines ==
    ASSUME IInv, NEW r \in Requests, NEW k \in Sockets, Forward(r, k)
    PROVE  [Calls!Next]_<<CallOf, told, gone, FileOf>>
<1>1. /\ phase[r] = "resolving" /\ phase' = [phase EXCEPT ![r] = "pending"]
      /\ UNCHANGED <<told, gone, landed>>
  BY DEF Forward, Expect, registryVars
<1>2. \/ r \in Fetches /\ expected' = expected \cup {r}
      \/ r \notin Fetches /\ expected' = expected
  BY DEF Forward, Expect, registryVars
<1>3. phase \in [Requests -> Phases]
  BY DEF IInv, HubTypeOK
<1>4. CallOf' = CallOf /\ CallOf[r] = "open"
  BY <1>1, <1>3 DEF CallOf
<1>5. r \notin expected /\ r \notin landed /\ ~ Doomed(r)
  BY <1>1, FilesAreKnown
<1>6. CASE r \in Fetches
  <2>1. FileOf[r] = "none"
    BY <1>5 DEF FileOf
  <2>2. FileOf' = [FileOf EXCEPT ![r] = "coming"]
    BY <1>1, <1>2, <1>5, <1>6 DEF FileOf, Doomed
  <2>3. Calls!HasPlace(r)
    BY <1>6, PlacesAreThose DEF Forward, Accepts
  <2>4. Calls!Begin(r)
    BY <1>1, <1>4, <2>1, <2>2, <2>3 DEF Calls!Begin
  <2>5. QED
    BY <1>6, <2>4 DEF Calls!Next
<1>7. CASE r \notin Fetches
  <2>1. FileOf' = FileOf
    BY <1>1, <1>2, <1>7 DEF FileOf, Doomed
  <2>2. QED
    BY <1>1, <1>4, <2>1
<1>8. QED
  BY <1>6, <1>7

\* Transfers fail: the registry drops them and their callers hear it.
LEMMA FailRefines ==
    ASSUME IInv, NEW T \in SUBSET expected, Conclude(T, "failed"), expected' = Remaining(T),
           UNCHANGED <<landed, gone>>
    PROVE  Calls!Next
<1>1. T \in SUBSET Requests /\ expected' = expected \ T
  BY RegistryAssumption DEF IInv, HubTypeOK, Remaining
<1>2. Calls!End(T, "failed")
  BY <1>1, ConcludeEnds
<1>3. \A r \in T : r \in expected /\ r \notin landed
  BY <1>1, FilesAreKnown
<1>4. \A r \in Requests \ T : told'[r] = told[r]
  BY DEF Conclude, Told
<1>5. FileOf' = [r \in Requests |-> IF r \in T THEN "none" ELSE FileOf[r]]
  BY <1>1, <1>3, <1>4 DEF FileOf, Doomed
<1>6. T \in SUBSET Calls!OnTheWay
  BY <1>1, <1>3 DEF Calls!OnTheWay, FileOf
<1>7. Calls!Fail(T)
  BY <1>2, <1>5 DEF Calls!Fail
<1>8. QED
  BY <1>6, <1>7 DEF Calls!Next

\* A file lands over the socket its request took, which is open for the hub, and before the shutdown:
\* it is not doomed.
LEMMA LandRefines ==
    ASSUME IInv, NEW t \in expected, via[t] \in OpenSockets, ~ shuttingDown,
           Land(t), Conclude({t}, "landed"), gone' = gone
    PROVE  Calls!Next
<1>1. /\ t \in Requests /\ t \in Fetches
      /\ expected' = expected \ {t} /\ landed' = landed \cup {t}
  BY RegistryAssumption DEF IInv, HubTypeOK, Land, Remaining
<1>2. FileOf[t] = "coming"
  BY <1>1, FilesAreKnown DEF FileOf
<1>3. Calls!End({t}, "landed")
  BY <1>1, ConcludeEnds
<1>4. \A r \in Requests \ {t} : told'[r] = told[r]
  BY DEF Conclude, Told
<1>5. FileOf' = [FileOf EXCEPT ![t] = "saved"]
  BY <1>1, <1>4 DEF FileOf, Doomed
<1>6. Calls!Save(t)
  BY <1>2, <1>3, <1>5 DEF Calls!Save
<1>7. QED
  BY <1>1, <1>6 DEF Calls!Next

\* What the hub does with chunks, acknowledgements and sockets is not seen.
LEMMA UnseenRefines ==
    ASSUME UNCHANGED <<phase, told, gone, expected, landed>>
    PROVE  UNCHANGED <<CallOf, told, gone, FileOf>>
  BY DEF CallOf, FileOf, Doomed

LEMMA AskRefines ==
    ASSUME IInv, NEW r \in Requests, Ask(r)
    PROVE  Calls!Next
<1>1. phase[r] = "unasked" /\ UNCHANGED <<expected, landed, gone>>
  BY DEF Ask, registryVars
<1>2. CASE shuttingDown
  BY <1>1, <1>2, RefuseRefines DEF Ask
<1>3. CASE ~ shuttingDown
  <2>1. phase' = [phase EXCEPT ![r] = "resolving"] /\ told' = told
    BY <1>3 DEF Ask
  <2>2. phase \in [Requests -> Phases]
    BY DEF IInv, HubTypeOK
  <2>3. CallOf[r] = "unasked" /\ CallOf' = [CallOf EXCEPT ![r] = "open"]
    BY <1>1, <2>1, <2>2 DEF CallOf
  <2>4. FileOf' = FileOf
    BY <1>1, <2>1 DEF FileOf, Doomed
  <2>5. Calls!Ask(r)
    BY <1>1, <2>1, <2>3, <2>4 DEF Calls!Ask
  <2>6. QED
    BY <2>5 DEF Calls!Next
<1>4. QED
  BY <1>2, <1>3

LEMMA ReceiveResponseRefines ==
    ASSUME IInv, NEW k \in Sockets, ReceiveResponse(k)
    PROVE  [Calls!Next]_<<CallOf, told, gone, FileOf>>
<1> DEFINE r == Head(Unread(k)).of
<1>1. gone' = gone
  BY DEF ReceiveResponse
<1>2. CASE UNCHANGED <<registryVars, phase, told>>
  BY <1>1, <1>2, UnseenRefines DEF registryVars
<1>3. ASSUME r \in Pending, r \notin Fetches, Conclude({r}, "answered"), UNCHANGED registryVars
      PROVE  Calls!Next
  <2>1. r \in Requests /\ CallOf[r] = "open" /\ {r} \in SUBSET Requests
    BY <1>3 DEF Pending, CallOf
  <2>2. Calls!End({r}, "answered")
    BY <1>1, <1>3, <2>1, ConcludeEnds
  <2>3. r \notin expected /\ r \notin landed
    BY <1>3 DEF IInv, HubTypeOK
  <2>4. \A d \in Requests : d # r => told'[d] = told[d]
    BY <1>3 DEF Conclude, Told
  <2>5. FileOf' = FileOf
    BY <1>3, <2>3, <2>4 DEF FileOf, Doomed, registryVars
  <2>6. Calls!Answer(r)
    BY <1>3, <2>1, <2>2, <2>5 DEF Calls!Answer
  <2>7. QED
    BY <2>1, <2>6 DEF Calls!Next
<1>4. ASSUME r \in Pending, r \in Fetches
      PROVE  r \in expected
  BY <1>4 DEF IInv, HeldAnswersAreReleased
<1>5. ASSUME r \in expected, FailTransfers({r})
      PROVE  Calls!Next
  <2>1. {r} \in SUBSET expected
    BY <1>5
  <2>2. QED
    BY <1>1, <1>5, <2>1, FailRefines DEF FailTransfers, Drop
<1>6. QED
  BY <1>2, <1>3, <1>4, <1>5 DEF ReceiveResponse, registryVars

LEMMA ReceiveChunkRefines ==
    ASSUME IInv, NEW k \in Sockets, ReceiveChunk(k)
    PROVE  [Calls!Next]_<<CallOf, told, gone, FileOf>>
<1> DEFINE t == Head(Unread(k)).of
           verdict == Verdict(t, Head(Unread(k)).seq, via[t] = k)
<1>1. gone' = gone /\ k \in OpenSockets
  BY DEF ReceiveChunk, Reads
<1>2. CASE UNCHANGED <<registryVars, phase, told>>
  BY <1>1, <1>2, UnseenRefines DEF registryVars
<1>3. ASSUME verdict \in {"violation", "next", "last"}
      PROVE  t \in expected
  BY <1>3 DEF Verdict
<1>4. ASSUME verdict = "last"
      PROVE  via[t] \in OpenSockets
  BY <1>1, <1>4 DEF Verdict
<1>5. ASSUME t \in expected, FailTransfers({t})
      PROVE  Calls!Next
  <2>1. {t} \in SUBSET expected
    BY <1>5
  <2>2. QED
    BY <1>1, <1>5, <2>1, FailRefines DEF FailTransfers, Drop
<1>6. ASSUME WriteChunk(t), UNCHANGED <<phase, told>>
      PROVE  UNCHANGED <<CallOf, told, gone, FileOf>>
  BY <1>1, <1>6, UnseenRefines DEF WriteChunk
<1>7. ASSUME ~ shuttingDown, verdict = "last", Land(t), Conclude({t}, "landed")
      PROVE  Calls!Next
  BY <1>1, <1>3, <1>4, <1>7, LandRefines
<1>8. ASSUME t \in expected, DropWhole(t), Conclude({t}, "failed")
      PROVE  Calls!Next
  <2>1. {t} \in SUBSET expected /\ expected' = Remaining({t}) /\ landed' = landed
    BY <1>8 DEF DropWhole
  <2>2. QED
    BY <1>1, <1>8, <2>1, FailRefines
<1>9. QED
  BY <1>2, <1>3, <1>5, <1>6, <1>7, <1>8 DEF ReceiveChunk

LEMMA ClientClosesRefines ==
    ASSUME IInv, NEW s, ClientCloses(s)
    PROVE  Calls!Next
<1>1. PICK C \in SUBSET Requests :
        /\ \A r \in C : phase[r] # "unasked"
        /\ gone' = gone \cup C /\ phase' = Concluded(C \cap Pending)
  BY DEF ClientCloses
<1>2. UNCHANGED <<told, expected, landed>>
  BY DEF ClientCloses, registryVars
<1> DEFINE D == C \cap Pending
<1>3. CallOf' = [r \in Requests |-> IF r \in D THEN "over" ELSE CallOf[r]]
  BY <1>1 DEF Concluded, CallOf
<1>4. FileOf' = FileOf
  BY <1>2 DEF FileOf, Doomed
<1>5. Calls!Leave(C, D)
  BY <1>1, <1>2, <1>3, <1>4 DEF Calls!Leave
<1>6. C \in SUBSET {r \in Requests : CallOf[r] # "unasked"}
  BY <1>1 DEF CallOf
<1>7. D \in SUBSET (C \cap Calls!Open)
  BY DEF Calls!Open, CallOf, Pending
<1>8. QED
  BY <1>5, <1>6, <1>7 DEF Calls!Next

LEMMA StepRefines ==
    ASSUME IInv, [Next]_vars
    PROVE  [Calls!Next]_<<CallOf, told, gone, FileOf>>
<1>1. ASSUME NEW r \in Requests, NoTarget(r) \/ RefuseForShutdown(r)
      PROVE  Calls!Next
  <2>1. PICK a \in {"no_target", "shutting_down"} : Conclude({r}, a)
    BY <1>1 DEF NoTarget, RefuseForShutdown
  <2>2. phase[r] = "resolving" /\ UNCHANGED <<expected, landed, gone>>
    BY <1>1 DEF NoTarget, RefuseForShutdown, registryVars
  <2>3. QED
    BY <2>1, <2>2, RefuseRefines
<1>2. ASSUME NEW r \in Requests, ProxyTimeout(r)
      PROVE  Calls!Next
  <2>1. /\ {r} \in SUBSET Pending /\ Conclude({r}, "timeout")
        /\ UNCHANGED <<expected, landed, gone>>
    BY <1>2 DEF ProxyTimeout, HasTimer, Pending, registryVars
  <2>2. QED
    BY <2>1, GiveUpRefines
<1>3. ASSUME NEW t \in Fetches, TransferTimeout(t)
      PROVE  Calls!Next
  <2>1. /\ {t} \in SUBSET expected /\ Conclude({t}, "failed") /\ expected' = Remaining({t})
        /\ UNCHANGED <<landed, gone>>
    BY <1>3 DEF TransferTimeout, FailTransfers, Drop
  <2>2. QED
    BY <2>1, FailRefines
<1>4. ASSUME NEW k \in Sockets, BrowserCloses(k)
      PROVE  Calls!Next
  <2>1. /\ {r \in Pending : via[r] = k} \in SUBSET Pending
        /\ Conclude({r \in Pending : via[r] = k}, "disconnected")
        /\ UNCHANGED <<expected, landed, gone>>
    BY <1>4 DEF BrowserCloses, registryVars
  <2>2. QED
    BY <2>1, GiveUpRefines
<1>5. ASSUME BeginShutdown
      PROVE  Calls!Next
  <2>1. /\ Pending \in SUBSET Pending /\ Conclude(Pending, "shutting_down")
        /\ UNCHANGED <<expected, landed, gone>>
    BY <1>5 DEF BeginShutdown, registryVars
  <2>2. QED
    BY <2>1, GiveUpRefines
<1>6. ASSUME Dispose
      PROVE  Calls!Next
  <2>1. /\ expected \in SUBSET expected /\ Conclude(expected, "failed")
        /\ expected' = Remaining(expected) /\ UNCHANGED <<landed, gone>>
    BY <1>6 DEF Dispose, FailTransfers, Drop
  <2>2. QED
    BY <2>1, FailRefines
<1>7. ASSUME \/ ExtensionReceives \/ WorkerStops \/ WorkerReturns \/ SocketDies \/ Connect
             \/ \E r \in Requests : FinishWork(r)
             \/ \E t \in Fetches : SendChunk(t) \/ FetchFails(t) \/ FetchDone(t)
             \/ UNCHANGED vars
      PROVE  UNCHANGED <<CallOf, told, gone, FileOf>>
  <2>1. UNCHANGED <<registryVars, hubVars>>
    BY <1>7 DEF ExtensionReceives, WorkerStops, WorkerReturns, SocketDies, Connect, FinishWork,
       SendChunk, FetchFails, FetchDone, vars
  <2>2. QED
    BY <2>1, UnseenRefines DEF registryVars, hubVars
<1>8. CASE \E r \in Requests : \/ Ask(r) \/ NoTarget(r) \/ RefuseForShutdown(r) \/ ProxyTimeout(r)
                               \/ FinishWork(r)
  BY <1>1, <1>2, <1>7, <1>8, AskRefines
<1>9. CASE \E r \in Requests, k \in Sockets : Forward(r, k)
  BY <1>9, ForwardRefines
<1>10. CASE \/ \E k \in Sockets : ReceiveResponse(k) \/ ReceiveChunk(k)
            \/ BeginShutdown \/ Dispose
  BY <1>5, <1>6, <1>10, ReceiveResponseRefines, ReceiveChunkRefines
<1>11. CASE \E t \in Fetches : \/ RefuseTransfer(t) \/ TransferTimeout(t)
                               \/ SendChunk(t) \/ FetchFails(t) \/ FetchDone(t)
  BY <1>3, <1>7, <1>11, RefuseTransferRefines
<1>12. CASE (\E k \in Sockets : BrowserCloses(k)) \/ (\E r \in Requests : ClientCloses(SessionOf[r]))
  BY <1>4, <1>12, ClientClosesRefines
<1>13. QED
  BY <1>7, <1>8, <1>9, <1>10, <1>11, <1>12 DEF Next

LEMMA InitRefines == Init => Calls!Init
  BY DEF Init, RegistryInit, Calls!Init, CallOf, FileOf

\* Sockets, timers, the registry and the shutdown implement calls that are answered once, with
\* files that are saved when the client is told, and never after it was told that the browser
\* or the hub has gone; a call is dropped unanswered only while its session has no place.
THEOREM CallsAreImplemented == Spec => ImplementsToolCalls
<1>1. IInv /\ [Next]_vars => [Calls!Next]_<<CallOf, told, gone, FileOf>>
  BY StepRefines
<1>2. Spec => Calls!Init /\ [][Calls!Next]_<<CallOf, told, gone, FileOf>>
  BY <1>1, IInvHolds, InitRefines, PTL DEF Spec
<1>3. QED
  BY <1>2 DEF ImplementsToolCalls, Calls!Spec, Calls!callVars
=============================================================================
