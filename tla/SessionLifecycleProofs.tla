------------------------ MODULE SessionLifecycleProofs ------------------------
(***************************************************************************)
(* Proofs about SessionLifecycle, for any clients, ids, sockets and bounds.*)
(*                                                                         *)
(* The inductive invariant ties the hub's maps to each other.  Its centre  *)
(* is FinalizersOK: a finalizer of the generation its session is at is     *)
(* either one whose session has no connection, or the one asked for over   *)
(* the only connection the session has, which waits for the answer.  So a  *)
(* session that is torn down is never left bound to a socket, and no other *)
(* session is unbound.                                                     *)
(***************************************************************************)
EXTENDS SessionLifecycle, TLAPS

\* A client has a socket, an end of its own, exactly while it is connected.
ClientsOK ==
    /\ \A c \in Clients :
          /\ phase[c] \in {"registering", "registered", "leaving"} <=> socketOf[c] # NoSocket
          /\ socketOf[c] # NoSocket => clientEnd[socketOf[c]]
    /\ \A c, d \in Clients : socketOf[c] = socketOf[d] /\ socketOf[c] # NoSocket => c = d

\* The client has been told, or has the message on its way, that its registration is in.
ToldIn(c) == phase[c] = "registered" \/ (phase[c] = "registering" /\ reply[socketOf[c]] = "ok")

\* A request is answered before the next one is sent, and a client knows which it sent.
MessagesOK ==
    /\ \A k \in Sockets : request[k] # Quiet => reply[k] = "none"
    /\ \A c \in Clients :
          /\ phase[c] = "registering" =>
                request[socketOf[c]] \in {Quiet, Register(identity[c])}
          /\ phase[c] = "registered" =>
                request[socketOf[c]] = Quiet /\ reply[socketOf[c]] = "none"
          /\ phase[c] = "leaving" => request[socketOf[c]] \in {Quiet, Remove, Removing}
          /\ ToldIn(c) /\ hubEnd[socketOf[c]] /\ shutdown \in {"no", "begun"} =>
                bound[socketOf[c]] = identity[c]

\* A socket the hub has open is bound to a session it lists, and no other socket is.
BindingsOK ==
    /\ \A k \in Sockets : bound[k] # NoId =>
          hubEnd[k] /\ (shutdown # "draining" => bound[k] \in sessions)
    /\ \A j, k \in Sockets : bound[j] = bound[k] /\ bound[j] # NoId => j = k

\* A grace timer is for the generation its session is at, or for one that is over.
TimersOK ==
    \A t \in graceTimers :
       (t[1] \in sessions /\ t[2] = generation[t[1]]) \/ t[1] \in finalized

\* A finalizer f waits for persists that are queued, and for its session alone; no request
\* waits for two finalizers.
FinalizersOK ==
    /\ \A f, h \in finalizers : f.sockets \cap h.sockets # {} => f = h
    /\ \A f \in finalizers :
          /\ f.behind \in 1..persisting[f.id]
          /\ (f.id \in sessions /\ f.generation <= generation[f.id]) \/ f.id \in finalized
          /\ \A k \in f.sockets : request[k] = Removing /\ bound[k] \in {NoId, f.id}
          /\ f.generation = generation[f.id] =>
                \A k \in Sockets : bound[k] = f.id => f.allowConnected /\ k \in f.sockets

\* What is held is held by a session that is listed; the hub's own ends in a shutdown only.
HoldersOK ==
    /\ holdings \subseteq sessions
    /\ OwnId \in sessions \cup finalized
    /\ shutdown \in {"no", "begun"} => OwnId \notin finalized

SessionsOK ==
    /\ FinalizedStaysFinalized
    /\ ClosedExactlyOnce
    /\ HoldersOK
    /\ ShutdownLeavesNothing
    /\ NoOrphanedSession

IInv ==
    /\ TypeOK
    /\ ClientsOK
    /\ MessagesOK
    /\ BindingsOK
    /\ TimersOK
    /\ FinalizersOK
    /\ SessionsOK
-----------------------------------------------------------------------------

\* The messages are told apart by their kinds.
LEMMA Kinds ==
    /\ Quiet \in Requests /\ Remove \in Requests /\ Removing \in Requests
    /\ Quiet.kind = "none" /\ Remove.kind = "remove" /\ Removing.kind = "removing"
    /\ \A s \in Ids : Register(s) \in Requests /\ Register(s).kind = "register"
                         /\ Register(s).id = s
    /\ \A m \in Requests : m.kind = "register" => m.id \in Ids /\ m = Register(m.id)
<1> USE DEF Quiet, Remove, Removing, Register, Requests
<1>1. Quiet \in Requests /\ Remove \in Requests /\ Removing \in Requests
  OBVIOUS
<1>2. Quiet.kind = "none" /\ Remove.kind = "remove" /\ Removing.kind = "removing"
  OBVIOUS
<1>3. ASSUME NEW s \in Ids
      PROVE  Register(s) \in Requests /\ Register(s).kind = "register" /\ Register(s).id = s
  OBVIOUS
<1>4. ASSUME NEW m \in Requests, m.kind = "register"
      PROVE  m.id \in Ids /\ m = Register(m.id)
  <2>1. m \notin {Quiet, Remove, Removing}
    BY <1>4, <1>2
  <2>2. PICK s \in Ids : m = Register(s)
    BY <1>4, <2>1
  <2>3. QED
    BY <2>2
<1>5. QED
  BY <1>1, <1>2, <1>3, <1>4

LEMMA Init_IInv == Init => IInv
<1> SUFFICES ASSUME Init PROVE IInv
  OBVIOUS
<1> USE LifecycleAssumption
<1>1. TypeOK
  BY Kinds DEF Init, TypeOK, AllIds, Phases, Replies, Finalizers
<1>2. ClientsOK /\ MessagesOK
  BY Kinds DEF Init, ClientsOK, MessagesOK, ToldIn
<1>3. BindingsOK /\ TimersOK /\ FinalizersOK
  BY DEF Init, BindingsOK, TimersOK, FinalizersOK
<1>4. SessionsOK
  BY DEF Init, SessionsOK, FinalizedStaysFinalized, ClosedExactlyOnce, HoldersOK,
         ShutdownLeavesNothing, NoOrphanedSession
<1>5. QED
  BY <1>1, <1>2, <1>3, <1>4 DEF IInv

-----------------------------------------------------------------------------
(* The clients                                                             *)

\* What a client does is no business of the hub's, unless it touched a removal under way.
LEMMA ClientStepKeeps ==
    ASSUME IInv, TypeOK', ClientsOK', MessagesOK', UNCHANGED hubVars,
           \A k \in Sockets : hubEnd[k] => hubEnd'[k],
           \A k \in Sockets : request[k] = Removing => request'[k] = Removing
    PROVE  IInv'
<1> USE DEF hubVars, sessionVars
<1>1. BindingsOK' /\ TimersOK'
  BY DEF IInv, BindingsOK, TimersOK
<1>2. FinalizersOK'
  <2>1. \A f \in finalizers : f.sockets \subseteq Sockets
    BY DEF IInv, TypeOK, Finalizers
  <2>2. QED
    BY <2>1 DEF IInv, FinalizersOK
<1>3. SessionsOK'
  BY DEF IInv, SessionsOK, FinalizedStaysFinalized, ClosedExactlyOnce, HoldersOK,
         ShutdownLeavesNothing, NoOrphanedSession, Live, Finalizing
<1>4. QED
  BY <1>1, <1>2, <1>3 DEF IInv

LEMMA ConnectKeeps ==
    ASSUME IInv, NEW c \in Clients, NEW k \in Sockets, Connect(c, k)
    PROVE  IInv'
<1> USE LifecycleAssumption DEF hubVars, sessionVars, faultVars
<1>1. TypeOK'
  BY Kinds DEF IInv, TypeOK, Connect, Phases, Replies
<1>2. \A d \in Clients : socketOf[d] # k
  BY DEF IInv, ClientsOK, Connect, Free
<1>3. ClientsOK'
  BY <1>2 DEF IInv, TypeOK, ClientsOK, Connect
<1>4. MessagesOK'
  <2>1. reply'[k] = "none" /\ \A j \in Sockets \ {k} : reply'[j] = reply[j] /\ request'[j] = request[j]
    BY DEF IInv, TypeOK, Connect
  <2>2. phase'[c] = "registering" /\ socketOf'[c] = k /\ request'[k] = Register(identity[c])
    BY DEF IInv, TypeOK, Connect
  <2>3. ASSUME NEW d \in Clients \ {c}
        PROVE  /\ phase'[d] = phase[d] /\ socketOf'[d] = socketOf[d] /\ socketOf[d] # k
               /\ identity'[d] = identity[d]
               /\ phase[d] \in {"registering", "registered", "leaving"} => socketOf[d] \in Sockets
    BY <1>2, <2>3 DEF IInv, TypeOK, Connect, ClientsOK
  <2>4. hubEnd' = [hubEnd EXCEPT ![k] = TRUE] /\ UNCHANGED <<bound, shutdown, identity>>
    BY DEF Connect
  <2>5. \A j \in Sockets \ {k} : hubEnd'[j] = hubEnd[j]
    BY <2>4 DEF IInv, TypeOK
  <2>6. QED
    BY <2>1, <2>2, <2>3, <2>4, <2>5 DEF IInv, MessagesOK, ToldIn
<1>5. \A j \in Sockets : request[j] = Removing => request'[j] = Removing
  BY DEF IInv, TypeOK, Connect, Free
<1>6. UNCHANGED hubVars /\ \A j \in Sockets : hubEnd[j] => hubEnd'[j]
  BY DEF IInv, TypeOK, Connect
<1>7. QED
  BY <1>1, <1>3, <1>4, <1>5, <1>6, ClientStepKeeps

\* A client that lets go of its socket says nothing more on it.
LEMMA LetGoKeeps ==
    ASSUME IInv, NEW c \in Clients,
           phase' = [phase EXCEPT ![c] = phase'[c]], phase'[c] \in {"down", "gone"},
           socketOf' = [socketOf EXCEPT ![c] = NoSocket],
           clientEnd' = [k \in Sockets |-> clientEnd[k] /\ k # socketOf[c]],
           UNCHANGED <<identity, drawn, hubEnd, request, reply, restarts, crashes, hubVars>>,
           drops' \in 0..MaxDrops
    PROVE  IInv'
<1> USE LifecycleAssumption DEF hubVars, sessionVars
<1>1. TypeOK'
  BY DEF IInv, TypeOK, Phases
<1>2. ClientsOK'
  <2>1. ASSUME NEW d \in Clients
        PROVE  socketOf'[d] # NoSocket => d # c /\ socketOf'[d] = socketOf[d] /\ socketOf[d] # socketOf[c]
    BY DEF IInv, TypeOK, ClientsOK
  <2>2. \A d \in Clients \ {c} : phase'[d] = phase[d] /\ socketOf'[d] = socketOf[d]
    BY DEF IInv, TypeOK
  <2>3. socketOf'[c] = NoSocket
    BY DEF IInv, TypeOK
  <2>4. QED
    BY <2>1, <2>2, <2>3 DEF IInv, TypeOK, ClientsOK
<1>3. MessagesOK'
  <2>1. \A d \in Clients : phase'[d] \in {"registering", "registered", "leaving"} =>
           phase'[d] = phase[d] /\ socketOf'[d] = socketOf[d]
    BY DEF IInv, TypeOK
  <2>2. QED
    BY <2>1 DEF IInv, MessagesOK, ToldIn
<1>4. QED
  BY <1>1, <1>2, <1>3, ClientStepKeeps

LEMMA ClientLeavesSocketKeeps ==
    ASSUME IInv, NEW c \in Clients,
           ClientSeesClose(c) \/ ClientDrops(c) \/ ClientRefused(c) \/ ClientEnds(c)
    PROVE  IInv'
<1> USE LifecycleAssumption DEF faultVars
<1>1. CASE ClientEnds(c)
  <2>1. phase'[c] = "gone"
    BY <1>1 DEF ClientEnds, IInv, TypeOK
  <2>2. QED
    BY <1>1, <2>1, LetGoKeeps DEF ClientEnds, IInv, TypeOK
<1>2. ASSUME LoseSocket(c), socketOf[c] # NoSocket
      PROVE  /\ phase' = [phase EXCEPT ![c] = phase'[c]] /\ phase'[c] \in {"down", "gone"}
             /\ socketOf' = [socketOf EXCEPT ![c] = NoSocket]
             /\ clientEnd' = [k \in Sockets |-> clientEnd[k] /\ k # socketOf[c]]
  BY <1>2 DEF LoseSocket, IInv, TypeOK
<1>3. CASE ClientSeesClose(c)
  BY <1>2, <1>3, LetGoKeeps DEF ClientSeesClose, IInv, TypeOK
<1>4. CASE ClientDrops(c)
  <2>1. drops' \in 0..MaxDrops
    BY <1>4 DEF ClientDrops, IInv, TypeOK
  <2>2. QED
    BY <1>2, <1>4, <2>1, LetGoKeeps DEF ClientDrops
<1>5. CASE ClientRefused(c)
  <2>1. socketOf[c] # NoSocket
    BY <1>5 DEF ClientRefused, IInv, ClientsOK
  <2>2. QED
    BY <1>2, <1>5, <2>1, LetGoKeeps DEF ClientRefused, IInv, TypeOK
<1>6. QED
  BY <1>1, <1>3, <1>4, <1>5

LEMMA ClientTalksKeeps ==
    ASSUME IInv, NEW c \in Clients,
           \/ ClientRegistered(c) \/ ClientLeaves(c)
           \/ \E s \in Ids : ClientRotates(c, s)
    PROVE  IInv'
<1> USE LifecycleAssumption DEF hubVars, sessionVars, faultVars
<1> DEFINE k == socketOf[c]
<1>1. phase[c] \in {"registering", "registered"} /\ k \in Sockets
  BY DEF IInv, TypeOK, ClientsOK, ClientRegistered, ClientLeaves, ClientRotates
<1>2. TypeOK'
  BY <1>1, Kinds DEF IInv, TypeOK, Phases, Replies, ClientRegistered, ClientLeaves, ClientRotates
<1>3. ClientsOK'
  BY <1>1 DEF IInv, TypeOK, ClientsOK, ClientRegistered, ClientLeaves, ClientRotates
<1>4. /\ \A d \in Clients \ {c} :
            /\ phase'[d] = phase[d] /\ identity'[d] = identity[d]
            /\ phase[d] \in {"registering", "registered", "leaving"} =>
                  socketOf[d] \in Sockets \ {k}
      /\ \A j \in Sockets \ {k} : request'[j] = request[j] /\ reply'[j] = reply[j]
      /\ UNCHANGED <<socketOf, hubEnd, bound, shutdown>>
  BY <1>1 DEF IInv, TypeOK, ClientsOK, ClientRegistered, ClientLeaves, ClientRotates
<1>5. MessagesOK'
  <2>1. CASE ClientRegistered(c)
    <3>1. /\ phase'[c] = "registered" /\ reply'[k] = "none" /\ request'[k] = request[k]
          /\ reply[k] = "ok" /\ phase[c] = "registering" /\ identity' = identity
      BY <1>1, <2>1 DEF IInv, TypeOK, ClientRegistered
    <3>2. request[k] = Quiet /\ ToldIn(c)
      BY <1>1, <3>1 DEF IInv, MessagesOK, ToldIn
    <3>3. QED
      BY <1>1, <1>4, <3>1, <3>2 DEF IInv, MessagesOK, ToldIn
  <2>2. CASE ClientLeaves(c)
    <3>1. /\ phase'[c] = "leaving" /\ request'[k] = Remove /\ reply'[k] = reply[k]
          /\ phase[c] = "registered"
      BY <1>1, <2>2 DEF IInv, TypeOK, ClientLeaves
    <3>2. reply[k] = "none"
      BY <1>1, <3>1 DEF IInv, MessagesOK
    <3>3. QED
      BY <1>1, <1>4, <3>1, <3>2 DEF IInv, MessagesOK, ToldIn
  <2>3. ASSUME NEW s \in Ids, ClientRotates(c, s)
        PROVE  MessagesOK'
    <3>1. /\ phase'[c] = "registering" /\ request'[k] = Register(s) /\ reply'[k] = "none"
          /\ identity'[c] = s
      BY <1>1, <2>3 DEF IInv, TypeOK, ClientRotates
    <3>2. QED
      BY <1>1, <1>4, <3>1 DEF IInv, MessagesOK, ToldIn
  <2>4. QED
    BY <2>1, <2>2, <2>3
<1>6. request[k] # Removing
  BY <1>1, Kinds DEF IInv, TypeOK, MessagesOK
<1>7. UNCHANGED hubVars
  BY DEF ClientRegistered, ClientLeaves, ClientRotates
<1>8. QED
  BY <1>2, <1>3, <1>4, <1>5, <1>6, <1>7, ClientStepKeeps

-----------------------------------------------------------------------------
(* The hub: the parts of its steps                                         *)

LEMMA ToldInIsQuiet ==
    ASSUME IInv, NEW c \in Clients, ToldIn(c)
    PROVE  socketOf[c] \in Sockets /\ request[socketOf[c]] = Quiet
BY DEF IInv, TypeOK, ClientsOK, MessagesOK, ToldIn

\* Answers to removals, and the unbinding that comes with them.
LEMMA AnswersKeepMessages ==
    ASSUME IInv, NEW R \in SUBSET Sockets, NEW T \in SUBSET R, AnswerRemovals(R, T),
           \A k \in R : request[k] \in {Remove, Removing},
           UNCHANGED <<clientVars, hubEnd, shutdown>>
    PROVE  MessagesOK'
<1>1. \A k \in R : request[k] # Quiet
  BY Kinds
<1>2. \A k \in Sockets \ R :
         bound'[k] = bound[k] /\ request'[k] = request[k] /\ reply'[k] = reply[k]
  BY DEF AnswerRemovals
<1>3. \A k \in R : request'[k] = Quiet /\ reply'[k] \in {"removed", "refused"}
  BY DEF AnswerRemovals
<1>4. ASSUME NEW c \in Clients, phase[c] \in {"registering", "registered", "leaving"}
      PROVE  socketOf[c] \in Sockets
  BY <1>4 DEF IInv, TypeOK, ClientsOK
<1>5. UNCHANGED <<phase, identity, socketOf>>
  BY DEF clientVars
<1>6. ASSUME NEW c \in Clients, ToldIn(c)'
      PROVE  ToldIn(c) /\ socketOf[c] \in Sockets \ R
  <2>1. socketOf[c] \in Sockets
    BY <1>4, <1>5, <1>6 DEF ToldIn
  <2>2. ToldIn(c)
    BY <1>2, <1>3, <1>5, <1>6, <2>1 DEF ToldIn
  <2>3. QED
    BY <1>1, <2>1, <2>2, ToldInIsQuiet
<1>7. QED
  BY <1>1, <1>2, <1>3, <1>4, <1>5, <1>6 DEF IInv, MessagesOK

\* A removal that has been received is waited for.
LEMMA AwaitKeepsMessages ==
    ASSUME IInv, NEW R \in SUBSET Sockets, Await(R), \A k \in R : request[k] = Remove,
           UNCHANGED <<clientVars, hubEnd, shutdown, bound, reply>>
    PROVE  MessagesOK'
<1>1. \A k \in R : request[k] # Quiet
  BY Kinds
<1>2. \A k \in Sockets : request'[k] = IF k \in R THEN Removing ELSE request[k]
  BY DEF Await
<1>3. ASSUME NEW c \in Clients, phase[c] \in {"registering", "registered", "leaving"}
      PROVE  socketOf[c] \in Sockets
  BY <1>3 DEF IInv, TypeOK, ClientsOK
<1>4. UNCHANGED <<phase, identity, socketOf>> /\ identity \in [Clients -> Ids]
  BY DEF clientVars, IInv, TypeOK
<1>5. ASSUME NEW c \in Clients, phase[c] = "registering" \/ phase[c] = "registered"
      PROVE  socketOf[c] \notin R
  <2>1. request[socketOf[c]] \in {Quiet, Register(identity[c])}
    BY <1>5 DEF IInv, MessagesOK
  <2>2. identity[c] \in Ids
    BY <1>4
  <2>3. QED
    BY <2>1, <2>2, Kinds
<1>6. QED
  BY <1>1, <1>2, <1>3, <1>4, <1>5 DEF IInv, MessagesOK, ToldIn

LEMMA ClientsUntouched ==
    ASSUME IInv, UNCHANGED <<clientVars, clientEnd>>
    PROVE  ClientsOK'
BY DEF IInv, ClientsOK, clientVars

\* The end of a session, its sockets T unbound, while finalizers of others go on.
LEMMA TearDownKeeps ==
    ASSUME IInv, NEW s \in sessions \ finalized, TearDown(s),
           NEW T \in SUBSET Sockets,
           bound' = [k \in Sockets |-> IF k \in T THEN NoId ELSE bound[k]],
           \A k \in T : bound[k] \in {NoId, s},
           (\A k \in Sockets : bound[k] = s => k \in T) \/ shutdown = "draining",
           \A t \in graceTimers : t[1] # s => t \in graceTimers',
           graceTimers' \subseteq graceTimers,
           \A x \in AllIds, g \in Nat :
              x # s /\ Finalizing(x, g) => Finalizing(x, g)',
           s = OwnId => shutdown = "draining",
           UNCHANGED <<hubEnd, shutdown>>
    PROVE  BindingsOK' /\ TimersOK' /\ SessionsOK'
<1> USE LifecycleAssumption
<1>1. /\ generation' = [generation EXCEPT ![s] = 0]
      /\ finalized' = finalized \cup {s} /\ sessions' = sessions \ {s}
      /\ holdings' = holdings \ {s}
      /\ closings' = [closings EXCEPT ![s] = @ + 1]
  BY DEF TearDown, Tombstones, HoldingsLeft
<1>2. s \in AllIds /\ generation \in [AllIds -> Nat] /\ closings \in [AllIds -> Nat]
      /\ sessions \subseteq AllIds
  BY DEF IInv, TypeOK
<1>3. \A k \in Sockets :
         bound'[k] \in {NoId, bound[k]} /\ (bound'[k] = s => shutdown = "draining")
  BY <1>2 DEF AllIds
<1>4. BindingsOK'
  BY <1>1, <1>3 DEF IInv, BindingsOK
<1>5. TimersOK'
  BY <1>1, <1>2 DEF IInv, TimersOK
<1>6. ASSUME NEW x \in AllIds, x # s
      PROVE  Live(x)' <=> Live(x)
  BY <1>2, <1>3, <1>6 DEF Live, AllIds
<1>7. FinalizedStaysFinalized'
  <2>1. ASSUME NEW x \in finalized'
        PROVE  x \notin sessions' \cup holdings' /\ (Live(x)' => shutdown' = "draining")
    <3>1. CASE x = s
      BY <1>1, <1>3, <3>1 DEF Live
    <3>2. CASE x # s
      <4>1. x \in finalized /\ x \in AllIds
        BY <1>1, <2>1, <3>2 DEF IInv, TypeOK
      <4>2. x \notin sessions \cup holdings /\ (Live(x) => shutdown = "draining")
        BY <4>1 DEF IInv, SessionsOK, FinalizedStaysFinalized
      <4>3. QED
        BY <1>1, <1>6, <3>2, <4>1, <4>2
    <3>3. QED
      BY <3>1, <3>2
  <2>2. QED
    BY <2>1 DEF FinalizedStaysFinalized
<1>8. ClosedExactlyOnce'
  BY <1>1, <1>2 DEF IInv, SessionsOK, ClosedExactlyOnce
<1>9. HoldersOK' /\ ShutdownLeavesNothing'
  BY <1>1 DEF IInv, SessionsOK, HoldersOK, ShutdownLeavesNothing
<1>10. NoOrphanedSession'
  <2>1. ASSUME shutdown' = "no", NEW x \in sessions' \ {OwnId}
        PROVE  Live(x)' \/ <<x, generation'[x]>> \in graceTimers' \/ Finalizing(x, generation[x])'
    <3>1. x # s /\ x \in sessions \ {OwnId} /\ x \in AllIds /\ generation'[x] = generation[x]
          /\ generation[x] \in Nat
      BY <1>1, <1>2, <2>1
    <3>2. Live(x) \/ <<x, generation[x]>> \in graceTimers \/ Finalizing(x, generation[x])
      BY <2>1, <3>1 DEF IInv, SessionsOK, NoOrphanedSession
    <3>3. Finalizing(x, generation[x]) => Finalizing(x, generation[x])'
      <4> DEFINE g == generation[x]
      <4>1. g \in Nat /\ g' = g
        BY <3>1
      <4>2. Finalizing(x, g) => \E f \in finalizers' : f.id = x /\ f.generation = g
        BY <3>1, <4>1 DEF Finalizing
      <4>3. QED
        BY <4>1, <4>2 DEF Finalizing
    <3>4. <<x, generation[x]>> \in graceTimers => <<x, generation[x]>> \in graceTimers'
      BY <3>1
    <3>5. QED
      BY <1>6, <3>1, <3>2, <3>3, <3>4
  <2>2. QED
    BY <2>1 DEF NoOrphanedSession
<1>11. QED
  BY <1>4, <1>5, <1>7, <1>8, <1>9, <1>10 DEF SessionsOK

-----------------------------------------------------------------------------
(* The hub: its handlers                                                   *)

LEMMA RefusalKeeps ==
    ASSUME IInv, NEW k \in Sockets,
           RefuseFinalized(k) \/ RefuseMismatch(k) \/ RefuseRequest(k)
    PROVE  IInv'
<1> USE LifecycleAssumption DEF hubVars, sessionVars, faultVars, clientVars
<1>1. /\ request[k].kind \in {"register", "remove"}
      /\ request' = [request EXCEPT ![k] = Quiet]
      /\ reply' = [reply EXCEPT ![k] = reply'[k]]
      /\ reply'[k] \in {"finalized", "mismatch", "refused"}
      /\ UNCHANGED <<clientVars, clientEnd, hubEnd, faultVars, hubVars>>
  BY Kinds DEF RefuseFinalized, RefuseMismatch, RefuseRequest, IInv, TypeOK
<1>2. TypeOK'
  BY <1>1, Kinds DEF IInv, TypeOK, Replies
<1>3. ClientsOK'
  BY <1>1, ClientsUntouched
<1>4. request[k] # Quiet /\ request[k] # Removing
  BY <1>1, Kinds
<1>5. MessagesOK'
  <2>1. request'[k] = Quiet /\ \A j \in Sockets \ {k} : request'[j] = request[j] /\ reply'[j] = reply[j]
    BY <1>1 DEF IInv, TypeOK
  <2>2. ASSUME NEW c \in Clients, phase[c] \in {"registering", "registered", "leaving"}
        PROVE  socketOf[c] \in Sockets
    BY <2>2 DEF IInv, TypeOK, ClientsOK
  <2>3. QED
    BY <1>1, <1>4, <2>1, <2>2 DEF IInv, MessagesOK, ToldIn
<1>6. QED
  BY <1>1, <1>2, <1>3, <1>4, <1>5, ClientStepKeeps DEF IInv, TypeOK

LEMMA RegisterSessionKeeps ==
    ASSUME IInv, NEW k \in Sockets, RegisterSession(k)
    PROVE  IInv'
<1> USE LifecycleAssumption DEF sessionVars, faultVars, clientVars
<1>1. PICK s \in Ids :
      /\ s \notin finalized /\ shutdown = "no" /\ hubEnd[k]
      /\ request[k] = Register(s) /\ request[k] # Removing
      /\ bound[k] \in {NoId, s} /\ \A j \in Sockets \ {k} : bound[j] # s
      /\ bound' = [bound EXCEPT ![k] = s]
      /\ generation' = [generation EXCEPT ![s] = IF bound[k] = s THEN @ ELSE @ + 1]
      /\ graceTimers' = {t \in graceTimers : t[1] # s}
      /\ sessions' = sessions \cup {s}
      /\ request' = [request EXCEPT ![k] = Quiet]
      /\ reply' = [reply EXCEPT ![k] = "ok"]
      /\ UNCHANGED <<clientVars, clientEnd, hubEnd, faultVars, holdings, finalized,
                     closings, barred, finalizers, persisting, shutdown>>
  <2>1. request[k].id \in Ids /\ request[k] = Register(request[k].id) /\ request[k] # Removing
    BY Kinds DEF RegisterSession, IInv, TypeOK
  <2>2. QED
    BY <2>1 DEF RegisterSession, CanBind, Tombstoned, Accepting, WithoutTimer
<1>2. TypeOK'
  BY <1>1, Kinds DEF IInv, TypeOK, Replies, AllIds
<1>3. ClientsOK'
  BY <1>1, ClientsUntouched
<1>4. /\ \A j \in Sockets \ {k} : /\ bound'[j] = bound[j] /\ request'[j] = request[j]
                                  /\ reply'[j] = reply[j]
      /\ bound'[k] = s /\ request'[k] = Quiet /\ reply'[k] = "ok"
  BY <1>1 DEF IInv, TypeOK
<1>5. MessagesOK'
  <2>1. ASSUME NEW c \in Clients, phase[c] \in {"registering", "registered", "leaving"}
        PROVE  /\ socketOf[c] \in Sockets
               /\ socketOf[c] = k => phase[c] = "registering" /\ identity[c] = s
    <3>1. socketOf[c] \in Sockets /\ identity[c] \in Ids
      BY <2>1 DEF IInv, TypeOK, ClientsOK
    <3>2. request[k] # Quiet /\ request[k] # Remove
      BY <1>1, Kinds
    <3>3. CASE socketOf[c] = k
      <4>1. phase[c] = "registering" /\ request[k] = Register(identity[c])
        BY <1>1, <2>1, <3>2, <3>3 DEF IInv, MessagesOK
      <4>2. Register(identity[c]).id = identity[c] /\ Register(s).id = s
        BY <3>1, Kinds
      <4>3. QED
        BY <1>1, <3>1, <4>1, <4>2
    <3>4. QED
      BY <3>1, <3>3
  <2>2. QED
    BY <1>1, <1>4, <2>1 DEF IInv, MessagesOK, ToldIn
<1>6. BindingsOK'
  BY <1>1, <1>4 DEF IInv, BindingsOK
<1>7. generation \in [AllIds -> Nat] /\ s \in AllIds
  BY <1>1 DEF IInv, TypeOK, AllIds
<1>8. TimersOK'
  <2>1. \A t \in graceTimers' : t \in graceTimers /\ t[1] # s
    BY <1>1
  <2>2. \A t \in graceTimers : t[1] \in AllIds
    BY DEF IInv, TypeOK, AllIds
  <2>3. QED
    BY <1>1, <1>7, <2>1, <2>2 DEF IInv, TimersOK
<1>9. FinalizersOK'
  <2>1. ASSUME NEW f \in finalizers
        PROVE  /\ f.id \in AllIds /\ f.generation \in Nat /\ f.sockets \subseteq Sockets
               /\ k \notin f.sockets
    BY <1>1, <2>1 DEF IInv, TypeOK, Finalizers, FinalizersOK, AllIds
  <2>2. ASSUME NEW f \in finalizers
        PROVE  (f.id \in sessions' /\ f.generation <= generation'[f.id]) \/ f.id \in finalized'
    <3>1. (f.id \in sessions /\ f.generation <= generation[f.id]) \/ f.id \in finalized
      BY <2>2 DEF IInv, FinalizersOK
    <3>2. generation'[f.id] = generation[f.id] \/ generation'[f.id] = generation[f.id] + 1
      BY <1>1, <1>7, <2>1
    <3>3. QED
      BY <1>1, <1>7, <2>1, <3>1, <3>2
  <2>3. ASSUME NEW f \in finalizers, f.generation = generation'[f.id],
               NEW j \in Sockets, bound'[j] = f.id
        PROVE  f.allowConnected /\ j \in f.sockets
    <3>1. (f.id \in sessions /\ f.generation <= generation[f.id]) \/ f.id \in finalized
      BY DEF IInv, FinalizersOK
    <3>2. generation'[f.id] = generation[f.id]
      BY <1>1, <1>7, <2>1, <2>3, <3>1
    <3>3. bound[j] = f.id
      BY <1>1, <1>4, <1>7, <2>3, <3>2
    <3>4. QED
      BY <2>3, <3>2, <3>3 DEF IInv, FinalizersOK
  <2>4. ASSUME NEW f \in finalizers, NEW j \in f.sockets
        PROVE  request'[j] = Removing /\ bound'[j] \in {NoId, f.id}
    BY <1>4, <2>1 DEF IInv, FinalizersOK
  <2>5. QED
    BY <1>1, <2>2, <2>3, <2>4 DEF IInv, FinalizersOK
<1>10. SessionsOK'
  <2>1. ASSUME NEW x \in AllIds, x # s
        PROVE  Live(x)' <=> Live(x)
    BY <1>1, <1>4, <2>1 DEF Live, AllIds
  <2>2. Live(s)'
    BY <1>4 DEF Live
  <2>3. finalized \subseteq AllIds /\ sessions \subseteq AllIds
    BY DEF IInv, TypeOK
  <2>4. FinalizedStaysFinalized'
    BY <1>1, <2>1, <2>3 DEF IInv, SessionsOK, FinalizedStaysFinalized
  <2>5. ClosedExactlyOnce' /\ HoldersOK' /\ ShutdownLeavesNothing'
    BY <1>1 DEF IInv, SessionsOK, ClosedExactlyOnce, HoldersOK, ShutdownLeavesNothing
  <2>6. ASSUME NEW x \in sessions' \ {OwnId}
        PROVE  Live(x)' \/ <<x, generation'[x]>> \in graceTimers' \/ Finalizing(x, generation[x])'
    <3>1. CASE x = s
      BY <2>2, <3>1
    <3>2. CASE x # s
      <4>1. x \in sessions \ {OwnId} /\ x \in AllIds /\ generation'[x] = generation[x]
        BY <1>1, <1>7, <2>3, <2>6, <3>2
      <4>2. Live(x) \/ <<x, generation[x]>> \in graceTimers \/ Finalizing(x, generation[x])
        BY <1>1, <4>1 DEF IInv, SessionsOK, NoOrphanedSession
      <4>3. QED
        BY <1>1, <2>1, <3>2, <4>1, <4>2 DEF Finalizing
    <3>3. QED
      BY <3>1, <3>2
  <2>7. QED
    BY <2>4, <2>5, <2>6 DEF SessionsOK, NoOrphanedSession
<1>11. QED
  BY <1>2, <1>3, <1>5, <1>6, <1>8, <1>9, <1>10 DEF IInv

\* A session takes something of the hub's; a persist is queued.
LEMMA UseKeeps ==
    ASSUME IInv, (\E k \in Sockets : UseHub(k)) \/ UseOwn
                    \/ (\E s \in Ids : PersistStarts(s))
    PROVE  IInv'
<1> USE LifecycleAssumption DEF sessionVars, faultVars, clientVars, socketVars
<1>1. /\ shutdown = "no" /\ shutdown' = "no"
      /\ \A x \in holdings' : x \in holdings \/ (x \in sessions \ finalized /\ x \in AllIds)
      /\ UNCHANGED <<clientVars, socketVars, faultVars, bound, generation, sessions, finalized,
                     closings, barred, graceTimers, finalizers>>
  <2>1. ASSUME NEW k \in Sockets, UseHub(k)
        PROVE  bound[k] \in sessions \ finalized /\ bound[k] \in AllIds
    <3>1. bound[k] \in sessions /\ bound[k] \in Ids /\ Live(bound[k])
      BY <2>1 DEF IInv, BindingsOK, TypeOK, UseHub, Accepting, Live
    <3>2. QED
      BY <2>1, <3>1 DEF IInv, SessionsOK, FinalizedStaysFinalized, UseHub, Accepting, AllIds
  <2>2. OwnId \in AllIds /\ (shutdown = "no" => OwnId \in sessions \ finalized)
    BY DEF AllIds, IInv, SessionsOK, HoldersOK
  <2>3. QED
    BY <2>1, <2>2 DEF UseHub, UseOwn, PersistStarts, Accepting
<1>2. holdings' \in SUBSET AllIds
  BY <1>1 DEF IInv, TypeOK
<1>3. persisting' \in [Ids -> 0..MaxPersists] /\ \A x \in Ids : persisting[x] <= persisting'[x]
  BY DEF IInv, TypeOK, UseHub, UseOwn, PersistStarts
<1>4. TypeOK'
  BY <1>1, <1>2, <1>3 DEF IInv, TypeOK
<1>5. ClientsOK' /\ MessagesOK' /\ BindingsOK' /\ TimersOK'
  BY <1>1 DEF IInv, ClientsOK, MessagesOK, ToldIn, BindingsOK, TimersOK
<1>6. FinalizersOK'
  <2>1. \A f \in finalizers : f.behind \in 1..persisting'[f.id]
    <3>1. \A f \in finalizers : f.id \in Ids /\ f.behind \in 1..persisting[f.id]
      BY DEF IInv, TypeOK, Finalizers, FinalizersOK
    <3>2. persisting \in [Ids -> 0..MaxPersists]
      BY DEF IInv, TypeOK
    <3>3. QED
      BY <1>3, <3>1, <3>2
  <2>2. QED
    BY <1>1, <2>1 DEF IInv, FinalizersOK
<1>7. SessionsOK'
  BY <1>1 DEF IInv, SessionsOK, FinalizedStaysFinalized, ClosedExactlyOnce, HoldersOK,
              ShutdownLeavesNothing, NoOrphanedSession, Live, Finalizing
<1>8. QED
  BY <1>4, <1>5, <1>6, <1>7 DEF IInv

\* A hub that closes its end of a socket gives the session bound to it the grace period.
LEMMA CloseHubEndKeeps ==
    ASSUME IInv, NEW k \in Sockets, CloseHubEnd(k), drops' \in 0..MaxDrops
    PROVE  IInv'
<1> USE LifecycleAssumption DEF sessionVars, clientVars
<1>1. /\ hubEnd' = [hubEnd EXCEPT ![k] = FALSE]
      /\ bound' = [bound EXCEPT ![k] = NoId]
      /\ request' = [request EXCEPT ![k] = IF @ = Removing THEN @ ELSE Quiet]
      /\ graceTimers' = IF bound[k] # NoId /\ shutdown = "no"
                        THEN {t \in graceTimers : t[1] # bound[k]}
                                \cup {<<bound[k], generation[bound[k]]>>}
                        ELSE graceTimers
      /\ UNCHANGED <<clientVars, clientEnd, reply, restarts, crashes, sessionVars, finalizers,
                     persisting, shutdown>>
  BY DEF CloseHubEnd, Unbound, Scheduled, WithoutTimer
<1>2. bound[k] \in Ids \cup {NoId} /\ generation \in [AllIds -> Nat]
  BY DEF IInv, TypeOK
<1>3. TypeOK'
  <2>1. /\ hubEnd' \in [Sockets -> BOOLEAN] /\ bound' \in [Sockets -> Ids \cup {NoId}]
        /\ request' \in [Sockets -> Requests]
    BY <1>1, Kinds DEF IInv, TypeOK
  <2>2. graceTimers' \in SUBSET (Ids \X Nat)
    BY <1>1, <1>2 DEF IInv, TypeOK, AllIds
  <2>3. \A t, u \in graceTimers' : t[1] = u[1] => t = u
    BY <1>1 DEF IInv, TypeOK
  <2>4. QED
    BY <1>1, <2>1, <2>2, <2>3 DEF IInv, TypeOK
<1>4. ClientsOK'
  BY <1>1, ClientsUntouched
<1>5. /\ \A j \in Sockets \ {k} : /\ bound'[j] = bound[j] /\ request'[j] = request[j]
                                  /\ hubEnd'[j] = hubEnd[j]
      /\ bound'[k] = NoId /\ request'[k] \in {request[k], Quiet} /\ ~ hubEnd'[k]
      /\ (request[k] = Removing => request'[k] = Removing)
      /\ (request[k] # Removing => request'[k] = Quiet)
  BY <1>1 DEF IInv, TypeOK
<1>6. MessagesOK'
  <2>1. ASSUME NEW c \in Clients, phase[c] \in {"registering", "registered", "leaving"}
        PROVE  socketOf[c] \in Sockets
    BY <2>1 DEF IInv, TypeOK, ClientsOK
  <2>2. QED
    BY <1>1, <1>5, <2>1 DEF IInv, MessagesOK, ToldIn
<1>7. BindingsOK'
  BY <1>1, <1>5 DEF IInv, BindingsOK
<1>8. TimersOK'
  <2>1. bound[k] # NoId /\ shutdown = "no" => bound[k] \in sessions
    BY DEF IInv, BindingsOK
  <2>2. \A t \in graceTimers' :
           t \in graceTimers \/ (t[1] \in sessions /\ t[2] = generation[t[1]])
    BY <1>1, <2>1
  <2>3. QED
    BY <1>1, <2>2 DEF IInv, TimersOK
<1>9. FinalizersOK'
  <2>1. ASSUME NEW f \in finalizers
        PROVE  f.id \in Ids /\ f.sockets \subseteq Sockets
    BY <2>1 DEF IInv, TypeOK, Finalizers
  <2>2. ASSUME NEW f \in finalizers, NEW j \in f.sockets
        PROVE  request'[j] = Removing /\ bound'[j] \in {NoId, f.id}
    BY <1>5, <2>1 DEF IInv, FinalizersOK
  <2>3. ASSUME NEW f \in finalizers, NEW j \in Sockets, bound'[j] = f.id
        PROVE  bound[j] = f.id
    BY <1>5, <2>1, <2>3
  <2>4. QED
    BY <1>1, <2>2, <2>3 DEF IInv, FinalizersOK
<1>10. SessionsOK'
  <2>1. ASSUME NEW x \in AllIds
        PROVE  /\ Live(x)' => Live(x)
               /\ Live(x) /\ x # bound[k] => Live(x)'
    BY <1>5 DEF Live, AllIds
  <2>2. finalized \subseteq AllIds /\ sessions \subseteq AllIds
    BY DEF IInv, TypeOK
  <2>3. FinalizedStaysFinalized'
    BY <1>1, <2>1, <2>2 DEF IInv, SessionsOK, FinalizedStaysFinalized
  <2>4. ClosedExactlyOnce' /\ HoldersOK' /\ ShutdownLeavesNothing'
    BY <1>1 DEF IInv, SessionsOK, ClosedExactlyOnce, HoldersOK, ShutdownLeavesNothing
  <2>5. ASSUME shutdown = "no", NEW x \in sessions \ {OwnId}
        PROVE  Live(x)' \/ <<x, generation[x]>> \in graceTimers' \/ Finalizing(x, generation[x])
    <3>1. x \in AllIds /\ x # NoId
      BY <2>2, <2>5 DEF AllIds
    <3>2. CASE x = bound[k]
      BY <1>1, <2>5, <3>1, <3>2
    <3>3. CASE x # bound[k]
      <4>1. Live(x) \/ <<x, generation[x]>> \in graceTimers \/ Finalizing(x, generation[x])
        BY <2>5 DEF IInv, SessionsOK, NoOrphanedSession
      <4>2. <<x, generation[x]>> \in graceTimers => <<x, generation[x]>> \in graceTimers'
        BY <1>1, <3>3
      <4>3. QED
        BY <2>1, <3>1, <3>3, <4>1, <4>2
    <3>4. QED
      BY <3>2, <3>3
  <2>6. NoOrphanedSession'
    BY <1>1, <2>5 DEF NoOrphanedSession, Finalizing
  <2>7. QED
    BY <2>3, <2>4, <2>6 DEF SessionsOK
<1>11. QED
  BY <1>3, <1>4, <1>6, <1>7, <1>8, <1>9, <1>10 DEF IInv

\* finalizeSession, for the generation the session is at: the removal of a session over the
\* one socket it is bound to, or the expiry of the grace period of one without a socket.
LEMMA FinalizeKeeps ==
    ASSUME IInv, NEW s \in Ids, NEW g \in Nat, NEW a \in BOOLEAN, NEW R \in SUBSET Sockets,
           Finalize(s, g, a, R), graceTimers' = {t \in graceTimers : t[1] # s},
           UNCHANGED <<clientVars, clientEnd, hubEnd, faultVars, persisting, shutdown>>,
           s \in finalized \/ (s \in sessions /\ g = generation[s]),
           \A k \in R : request[k] = Remove /\ bound[k] = s,
           \A k \in Sockets : bound[k] = s => k \in R /\ a
    PROVE  IInv'
<1> USE LifecycleAssumption DEF sessionVars, faultVars
<1>1. ClientsOK'
  BY ClientsUntouched
<1>2. \A k \in R : request[k] \in {Remove, Removing} /\ request[k] # Removing
  BY Kinds
<1>3. \A f \in finalizers : f \in Finalizers /\ f.id \in Ids /\ f.sockets \subseteq Sockets
                               /\ \A k \in f.sockets : k \notin R
  BY <1>2 DEF IInv, TypeOK, Finalizers, FinalizersOK
<1>4. \A t \in graceTimers : t[1] # s => t \in graceTimers'
  OBVIOUS
<1>5. graceTimers' \in SUBSET (Ids \X Nat) /\ \A t, u \in graceTimers' : t[1] = u[1] => t = u
  BY DEF IInv, TypeOK
<1>6. CASE JoinFinalizer(s, g, R) \/ StartFinalizer(s, g, a, R)
  <2>1. Await(R) /\ UNCHANGED <<bound, reply, sessionVars>>
    BY <1>6 DEF JoinFinalizer, StartFinalizer
  <2>2. MessagesOK'
    BY <2>1, AwaitKeepsMessages DEF clientVars
  <2>3. request' \in [Sockets -> Requests]
        /\ \A k \in Sockets : request'[k] = IF k \in R THEN Removing ELSE request[k]
    BY <2>1, Kinds DEF Await, IInv, TypeOK
  <2>4. BindingsOK' /\ TimersOK'
    BY <2>1 DEF IInv, BindingsOK, TimersOK
  <2>5. /\ finalizers' \in SUBSET Finalizers
        /\ \A f, h \in finalizers' : f.id = h.id /\ f.generation = h.generation => f = h
        /\ FinalizersOK'
        /\ Finalizing(s, g)'
        /\ \A x \in AllIds, i \in Nat : Finalizing(x, i) => Finalizing(x, i)'
    <3>1. CASE JoinFinalizer(s, g, R)
      <4> DEFINE Joined(f) == IF f.id = s /\ f.generation = g
                              THEN [f EXCEPT !.sockets = @ \cup R] ELSE f
      <4>1. finalizers' = {Joined(f) : f \in finalizers} /\ Finalizing(s, g)
        BY <3>1 DEF JoinFinalizer
      <4>2. ASSUME NEW f \in finalizers
            PROVE  /\ Joined(f) \in Finalizers /\ Joined(f).id = f.id
                   /\ Joined(f).generation = f.generation /\ Joined(f).behind = f.behind
                   /\ Joined(f).allowConnected = f.allowConnected
                   /\ Joined(f).sockets = IF f.id = s /\ f.generation = g
                                          THEN f.sockets \cup R ELSE f.sockets
        BY <1>3 DEF Finalizers
      <4> HIDE DEF Joined
      <4>3. finalizers' \in SUBSET Finalizers
        BY <4>1, <4>2
      <4>4. ASSUME NEW f \in finalizers, NEW h \in finalizers,
                   f.id = h.id, f.generation = h.generation
            PROVE  f = h
        BY <4>4 DEF IInv, TypeOK
      <4>5. ASSUME NEW f \in finalizers', NEW h \in finalizers',
                   f.id = h.id, f.generation = h.generation
            PROVE  f = h
        <5>1. PICK x \in finalizers : f = Joined(x)
          BY <4>1
        <5>2. PICK y \in finalizers : h = Joined(y)
          BY <4>1
        <5>3. x.id = y.id /\ x.generation = y.generation
          BY <4>2, <4>5, <5>1, <5>2
        <5>4. QED
          BY <4>4, <5>1, <5>2, <5>3
      <4>6. ASSUME NEW x \in AllIds, NEW i \in Nat, Finalizing(x, i)
            PROVE  Finalizing(x, i)'
        <5>1. PICK f \in finalizers : f.id = x /\ f.generation = i
          BY <4>6 DEF Finalizing
        <5>2. Joined(f) \in finalizers' /\ Joined(f).id = x /\ Joined(f).generation = i
          BY <4>1, <4>2, <5>1
        <5>3. QED
          BY <5>2 DEF Finalizing
      <4>7. ASSUME NEW f \in finalizers, NEW h \in finalizers,
                   Joined(f).sockets \cap Joined(h).sockets # {}
            PROVE  Joined(f) = Joined(h)
        <5>1. PICK k \in Joined(f).sockets : k \in Joined(h).sockets
          BY <4>7
        <5>2. CASE k \in R
          <6>1. f.id = s /\ f.generation = g /\ h.id = s /\ h.generation = g
            BY <1>3, <4>2, <5>1, <5>2
          <6>2. QED
            BY <4>4, <6>1
        <5>3. CASE k \notin R
          <6>1. k \in f.sockets /\ k \in h.sockets
            BY <4>2, <5>1, <5>3
          <6>2. QED
            BY <6>1 DEF IInv, FinalizersOK
        <5>4. QED
          BY <5>2, <5>3
      <4>8. ASSUME NEW f \in finalizers
            PROVE  /\ Joined(f).behind \in 1..persisting[Joined(f).id]
                   /\ \/ /\ Joined(f).id \in sessions
                         /\ Joined(f).generation <= generation[Joined(f).id]
                      \/ Joined(f).id \in finalized
                   /\ \A k \in Joined(f).sockets :
                         request'[k] = Removing /\ bound[k] \in {NoId, Joined(f).id}
                   /\ Joined(f).generation = generation[Joined(f).id] =>
                         \A k \in Sockets : bound[k] = Joined(f).id =>
                            Joined(f).allowConnected /\ k \in Joined(f).sockets
        <5>1. \A k \in f.sockets : request'[k] = Removing /\ bound[k] \in {NoId, f.id}
          BY <1>3, <2>3 DEF IInv, FinalizersOK
        <5>2. \A k \in R : request'[k] = Removing /\ bound[k] = s
          BY <2>3
        <5>3. /\ f.behind \in 1..persisting[f.id]
              /\ (f.id \in sessions /\ f.generation <= generation[f.id]) \/ f.id \in finalized
              /\ f.generation = generation[f.id] =>
                    \A k \in Sockets : bound[k] = f.id => f.allowConnected /\ k \in f.sockets
          BY DEF IInv, FinalizersOK
        <5>4. /\ Joined(f).behind \in 1..persisting[Joined(f).id]
              /\ \/ /\ Joined(f).id \in sessions
                    /\ Joined(f).generation <= generation[Joined(f).id]
                 \/ Joined(f).id \in finalized
          BY <4>2, <5>3
        <5>5. ASSUME NEW k \in Joined(f).sockets
              PROVE  request'[k] = Removing /\ bound[k] \in {NoId, Joined(f).id}
          BY <4>2, <5>1, <5>2
        <5>6. ASSUME Joined(f).generation = generation[Joined(f).id],
                     NEW k \in Sockets, bound[k] = Joined(f).id
              PROVE  Joined(f).allowConnected /\ k \in Joined(f).sockets
          <6>1. f.generation = generation[f.id] /\ bound[k] = f.id
            BY <4>2, <5>6
          <6>2. f.allowConnected /\ k \in f.sockets
            BY <5>3, <5>6, <6>1
          <6>3. Joined(f).allowConnected
            BY <4>2, <6>2, Zenon
          <6>4. QED
            BY <4>2, <6>2, <6>3
        <5>7. QED
          BY <5>4, <5>5, <5>6
      <4>9. FinalizersOK'
        BY <2>1, <4>1, <4>7, <4>8 DEF FinalizersOK
      <4>10. QED
        BY <4>1, <4>3, <4>5, <4>6, <4>9 DEF AllIds
    <3>2. CASE StartFinalizer(s, g, a, R)
      <4> DEFINE n == [id |-> s, generation |-> g, allowConnected |-> a, sockets |-> R,
                       behind |-> persisting[s]]
      <4>1. finalizers' = finalizers \cup {n} /\ ~ Finalizing(s, g) /\ s \notin finalized
            /\ persisting[s] > 0
        BY <3>2 DEF StartFinalizer, PersistsAhead
      <4>2. persisting[s] \in Nat
        BY DEF IInv, TypeOK
      <4>3. n \in Finalizers /\ n.id = s /\ n.generation = g /\ n.sockets = R
            /\ n.behind = persisting[s] /\ n.allowConnected = a
        BY <4>2 DEF Finalizers
      <4> HIDE DEF n
      <4>4. finalizers' \in SUBSET Finalizers
        BY <1>3, <4>1, <4>3
      <4>5. \A f, h \in finalizers' : f.id = h.id /\ f.generation = h.generation => f = h
        BY <4>1, <4>3 DEF Finalizing, IInv, TypeOK
      <4>6. \A x \in AllIds, i \in Nat : Finalizing(x, i) => Finalizing(x, i)'
        BY <4>1 DEF Finalizing
      <4>7. Finalizing(s, g)'
        BY <4>1, <4>3 DEF Finalizing
      <4>8. \A f, h \in finalizers' : f.sockets \cap h.sockets # {} => f = h
        BY <1>3, <4>1, <4>3 DEF IInv, FinalizersOK
      <4>9. ASSUME NEW f \in finalizers
            PROVE  \A k \in f.sockets : request'[k] = Removing
        BY <1>3, <2>3 DEF IInv, FinalizersOK
      <4>10. g <= g
        OBVIOUS
      <4>11. FinalizersOK'
        BY <2>1, <2>3, <4>1, <4>2, <4>3, <4>8, <4>9, <4>10 DEF IInv, FinalizersOK
      <4>12. QED
        BY <4>4, <4>5, <4>6, <4>7, <4>11
    <3>3. QED
      BY <1>6, <3>1, <3>2
  <2>6. TypeOK'
    BY <1>5, <2>1, <2>3, <2>5 DEF IInv, TypeOK, clientVars
  <2>7. SessionsOK'
    <3>1. FinalizedStaysFinalized' /\ ClosedExactlyOnce' /\ HoldersOK' /\ ShutdownLeavesNothing'
      BY <2>1 DEF IInv, SessionsOK, FinalizedStaysFinalized, ClosedExactlyOnce, HoldersOK,
                  ShutdownLeavesNothing, Live
    <3>2. ASSUME shutdown = "no", NEW x \in sessions \ {OwnId}
          PROVE  Live(x) \/ <<x, generation[x]>> \in graceTimers' \/ Finalizing(x, generation[x])'
      <4>1. x \in AllIds /\ generation[x] \in Nat
        BY <3>2 DEF IInv, TypeOK
      <4>2. Live(x) \/ <<x, generation[x]>> \in graceTimers \/ Finalizing(x, generation[x])
        BY <3>2 DEF IInv, SessionsOK, NoOrphanedSession
      <4>3. CASE x = s
        <5>1. g = generation[x]
          BY <3>2, <4>3 DEF IInv, SessionsOK, FinalizedStaysFinalized
        <5>2. \E f \in finalizers' : f.id = x /\ f.generation = generation[x]
          BY <2>5, <4>3, <5>1 DEF Finalizing
        <5>3. QED
          BY <2>1, <5>2 DEF Finalizing
      <4>4. CASE x # s
        <5> DEFINE i == generation[x]
        <5>1. Finalizing(x, i) => \E f \in finalizers' : f.id = x /\ f.generation = i
          BY <2>5, <4>1 DEF Finalizing
        <5>2. QED
          BY <2>1, <4>2, <4>4, <5>1 DEF Finalizing
      <4>5. QED
        BY <4>3, <4>4
    <3>3. NoOrphanedSession'
      BY <2>1, <3>2 DEF NoOrphanedSession, Live
    <3>4. QED
      BY <3>1, <3>3 DEF SessionsOK
  <2>8. QED
    BY <1>1, <2>2, <2>4, <2>5, <2>6, <2>7 DEF IInv
<1>7. CASE FinalizeNow(s, g, a, R)
  <2>1. UNCHANGED finalizers /\ s \notin finalized /\ ~ Finalizing(s, g) /\ persisting[s] = 0
    BY <1>7 DEF FinalizeNow
  <2>2. s \in sessions /\ g = generation[s]
    BY <2>1
  <2>3. Owns(s, g, a)
    BY <2>2 DEF Owns, Live
  <2>4. TearDown(s) /\ AnswerRemovals(R, R)
    BY <1>7, <2>3 DEF FinalizeNow
  <2>5. MessagesOK'
    BY <1>2, <2>4, AnswersKeepMessages
  <2>6. bound' = [k \in Sockets |-> IF k \in R THEN NoId ELSE bound[k]]
    BY <2>4 DEF AnswerRemovals
  <2>7. \A x \in AllIds, i \in Nat : x # s /\ Finalizing(x, i) => Finalizing(x, i)'
    BY <2>1 DEF Finalizing
  <2>8. BindingsOK' /\ TimersOK' /\ SessionsOK'
    BY <1>4, <2>1, <2>2, <2>4, <2>6, <2>7, TearDownKeeps
  <2>9. /\ generation' = [generation EXCEPT ![s] = 0]
        /\ finalized' = finalized \cup {s} /\ sessions' = sessions \ {s}
        /\ holdings' = holdings \ {s} /\ barred' = barred \cup {s}
        /\ closings' = [closings EXCEPT ![s] = @ + 1]
    BY <2>2, <2>4 DEF TearDown, Tombstones, HoldingsLeft
  <2>10. TypeOK'
    BY <1>5, <2>1, <2>4, <2>9, Kinds
       DEF IInv, TypeOK, AnswerRemovals, Replies, AllIds, clientVars
  <2>11. FinalizersOK'
    <3>1. ASSUME NEW f \in finalizers
          PROVE  f.id # s
      <4>1. f.behind \in 1..persisting[f.id]
        BY DEF IInv, FinalizersOK
      <4>2. QED
        BY <2>1, <4>1
    <3>2. ASSUME NEW f \in finalizers
          PROVE  /\ generation'[f.id] = generation[f.id]
                 /\ f.id \in sessions => f.id \in sessions'
                 /\ f.id \in finalized => f.id \in finalized'
      BY <1>3, <2>9, <3>1 DEF IInv, TypeOK
    <3>3. ASSUME NEW f \in finalizers, NEW k \in f.sockets
          PROVE  request'[k] = request[k] /\ bound'[k] = bound[k]
      BY <1>3, <2>4 DEF AnswerRemovals
    <3>4. ASSUME NEW f \in finalizers, NEW k \in Sockets, bound'[k] = f.id
          PROVE  bound[k] = f.id
      BY <1>3, <2>6, <3>4
    <3>5. QED
      BY <2>1, <3>2, <3>3, <3>4 DEF IInv, FinalizersOK
  <2>12. QED
    BY <1>1, <2>5, <2>8, <2>10, <2>11 DEF IInv
<1>8. CASE AlreadyFinalized(s, g, R)
  <2>1. AnswerRemovals(R, {}) /\ UNCHANGED <<finalizers, sessionVars>> /\ s \in finalized
    BY <1>8 DEF AlreadyFinalized
  <2>2. MessagesOK'
    BY <1>2, <2>1, AnswersKeepMessages
  <2>3. bound' = bound
    BY <2>1 DEF AnswerRemovals, IInv, TypeOK
  <2>4. TypeOK'
    BY <1>5, <2>1, <2>3, Kinds DEF IInv, TypeOK, AnswerRemovals, Replies, clientVars
  <2>5. BindingsOK' /\ TimersOK'
    BY <2>1, <2>3 DEF IInv, BindingsOK, TimersOK
  <2>6. FinalizersOK'
    <3>1. ASSUME NEW f \in finalizers, NEW k \in f.sockets
          PROVE  request'[k] = request[k]
      BY <1>3, <2>1 DEF AnswerRemovals
    <3>2. QED
      BY <2>1, <2>3, <3>1 DEF IInv, FinalizersOK
  <2>7. SessionsOK'
    <3>1. FinalizedStaysFinalized' /\ ClosedExactlyOnce' /\ HoldersOK' /\ ShutdownLeavesNothing'
      BY <2>1, <2>3 DEF IInv, SessionsOK, FinalizedStaysFinalized, ClosedExactlyOnce, HoldersOK,
                  ShutdownLeavesNothing, Live
    <3>2. s \notin sessions
      BY <2>1 DEF IInv, SessionsOK, FinalizedStaysFinalized
    <3>3. NoOrphanedSession'
      BY <2>1, <2>3, <3>2 DEF IInv, SessionsOK, NoOrphanedSession, Live, Finalizing
    <3>4. QED
      BY <3>1, <3>3 DEF SessionsOK
  <2>8. QED
    BY <1>1, <2>2, <2>4, <2>5, <2>6, <2>7 DEF IInv
<1>9. QED
  BY <1>6, <1>7, <1>8 DEF Finalize

LEMMA RemoveSessionKeeps ==
    ASSUME IInv, NEW k \in Sockets, RemoveSession(k)
    PROVE  IInv'
<1>1. bound[k] \in Ids /\ bound[k] \in sessions /\ generation[bound[k]] \in Nat
  BY DEF RemoveSession, Accepting, IInv, TypeOK, BindingsOK, AllIds
<1>2. \A j \in Sockets : bound[j] = bound[k] => j \in {k}
  BY DEF RemoveSession, IInv, BindingsOK
<1>3. Finalize(bound[k], generation[bound[k]], TRUE, {k})
      /\ graceTimers' = {t \in graceTimers : t[1] # bound[k]}
      /\ UNCHANGED <<clientVars, clientEnd, hubEnd, faultVars, persisting, shutdown>>
      /\ request[k] = Remove
  BY DEF RemoveSession, WithoutTimer
<1>4. QED
  BY <1>1, <1>2, <1>3, FinalizeKeeps

LEMMA GraceExpiresKeeps ==
    ASSUME IInv, NEW s \in Ids, Expiry(s)
    PROVE  IInv'
<1>1. PICK g : <<s, g>> \in graceTimers /\ GraceExpires(s, g)
  BY DEF Expiry, IInv, TypeOK
<1>2. g \in Nat /\ (s \in finalized \/ (s \in sessions /\ g = generation[s]))
  BY <1>1 DEF IInv, TypeOK, TimersOK
<1>3. graceTimers' = {t \in graceTimers : t[1] # s}
      /\ UNCHANGED <<clientVars, clientEnd, hubEnd, faultVars, persisting, shutdown>>
  BY <1>1 DEF GraceExpires, WithoutTimer
<1>4. CASE ~ Live(s)
  <2>1. Finalize(s, g, FALSE, {})
    BY <1>1, <1>4 DEF GraceExpires
  <2>2. \A k \in Sockets : bound[k] # s
    BY <1>4 DEF Live
  <2>3. QED
    BY <1>2, <1>3, <2>1, <2>2, {} \in SUBSET Sockets, FALSE \in BOOLEAN, FinalizeKeeps
<1>5. CASE Live(s)
  <2> USE DEF sessionVars, faultVars, clientVars
  <2>1. UNCHANGED <<bound, request, reply, finalizers, sessionVars>>
    BY <1>1, <1>5 DEF GraceExpires
  <2>2. TypeOK'
    BY <1>3, <2>1 DEF IInv, TypeOK
  <2>3. ClientsOK' /\ MessagesOK' /\ BindingsOK' /\ TimersOK' /\ FinalizersOK'
    BY <1>3, <2>1 DEF IInv, ClientsOK, MessagesOK, ToldIn, BindingsOK, TimersOK, FinalizersOK
  <2>4. FinalizedStaysFinalized' /\ ClosedExactlyOnce' /\ HoldersOK' /\ ShutdownLeavesNothing'
    BY <1>3, <2>1 DEF IInv, SessionsOK, FinalizedStaysFinalized, ClosedExactlyOnce, HoldersOK,
                      ShutdownLeavesNothing, Live
  <2>5. NoOrphanedSession'
    BY <1>3, <1>5, <2>1 DEF IInv, SessionsOK, NoOrphanedSession, Live, Finalizing
  <2>6. QED
    BY <2>2, <2>3, <2>4, <2>5 DEF IInv, SessionsOK
<1>6. QED
  BY <1>4, <1>5

\* The oldest persist of s ends: of the finalizers that waited for it, one of the current
\* generation ends the session.
LEMMA PersistEndsKeeps ==
    ASSUME IInv, NEW s \in Ids, PersistEnds(s)
    PROVE  IInv'
<1> USE LifecycleAssumption DEF sessionVars, faultVars
<1> DEFINE ripe == Ripe(s)
           owners == OwnerAmong(ripe)
           P == UNION {f.sockets : f \in ripe}
           T == UNION {f.sockets : f \in owners}
           Nearer(f) == IF f.id = s THEN [f EXCEPT !.behind = @ - 1] ELSE f
<1>1. /\ persisting[s] > 0 /\ persisting' = [persisting EXCEPT ![s] = @ - 1]
      /\ finalizers' = {Nearer(f) : f \in finalizers \ ripe}
      /\ IF owners # {} /\ s \notin finalized THEN TearDown(s) ELSE UNCHANGED sessionVars
      /\ AnswerRemovals(P, T)
      /\ UNCHANGED <<clientVars, clientEnd, hubEnd, faultVars, graceTimers, shutdown>>
  BY DEF PersistEnds
<1>2. \A f \in finalizers :
         /\ f \in Finalizers /\ f.id \in Ids /\ f.sockets \subseteq Sockets
         /\ f.behind \in Nat /\ f.generation \in Nat
         /\ f \in ripe <=> f.id = s /\ f.behind = 1
  BY DEF IInv, TypeOK, Finalizers, Ripe
<1>3. /\ ripe \subseteq finalizers
      /\ \A f : f \in owners <=> f \in ripe /\ Owns(s, f.generation, f.allowConnected)
  BY DEF Ripe, OwnerAmong
<1>4. /\ P \in SUBSET Sockets /\ T \in SUBSET P
      /\ \A k \in P : \E f \in ripe : k \in f.sockets
      /\ \A f \in owners : f.sockets \subseteq T
      /\ owners = {} => T = {}
  BY <1>2, <1>3
<1>5. ASSUME NEW k \in P
      PROVE  request[k] = Removing /\ bound[k] \in {NoId, s}
  <2>1. PICK f \in ripe : k \in f.sockets
    BY <1>4, <1>5
  <2>2. QED
    BY <1>2, <1>3, <2>1 DEF IInv, FinalizersOK
<1>6. ASSUME NEW f \in finalizers, f \notin ripe
      PROVE  \A k \in f.sockets : k \notin P
  BY <1>3, <1>4, <1>6 DEF IInv, FinalizersOK
<1>7. ASSUME NEW f \in owners
      PROVE  /\ f.generation = generation[s]
             /\ s \in sessions \/ s \in finalized
             /\ \A k \in Sockets : bound[k] = s => k \in T
  <2>1. f.generation = generation[s] /\ f \in finalizers /\ f.id = s
    BY <1>2, <1>3, <1>7 DEF Owns
  <2>2. QED
    BY <1>4, <2>1 DEF IInv, FinalizersOK
<1>8. ASSUME NEW f \in finalizers
      PROVE  /\ Nearer(f) \in Finalizers
             /\ Nearer(f).id = f.id /\ Nearer(f).generation = f.generation
             /\ Nearer(f).sockets = f.sockets
             /\ Nearer(f).allowConnected = f.allowConnected
             /\ Nearer(f).behind = IF f.id = s THEN f.behind - 1 ELSE f.behind
             /\ f \notin ripe => Nearer(f).behind \in 1..persisting'[f.id]
  <2>1. f.behind \in 1..persisting[f.id] /\ persisting \in [Ids -> Nat]
    BY DEF IInv, TypeOK, FinalizersOK
  <2>2. /\ Nearer(f) \in Finalizers
        /\ Nearer(f).id = f.id /\ Nearer(f).generation = f.generation
        /\ Nearer(f).sockets = f.sockets /\ Nearer(f).allowConnected = f.allowConnected
        /\ Nearer(f).behind = IF f.id = s THEN f.behind - 1 ELSE f.behind
    <3>1. f.behind - 1 \in Nat
      BY <1>2, <2>1
    <3>2. QED
      BY <1>2, <3>1 DEF Finalizers
  <2>3. ASSUME f \notin ripe
        PROVE  Nearer(f).behind \in 1..persisting'[f.id]
    <3> HIDE DEF Nearer
    <3>1. CASE f.id = s
      <4>1. persisting'[s] = persisting[s] - 1 /\ f.behind # 1
        BY <1>1, <1>2, <2>1, <2>3, <3>1
      <4>2. QED
        BY <1>2, <2>1, <2>2, <3>1, <4>1
    <3>2. CASE f.id # s
      BY <1>1, <1>2, <2>1, <2>2, <3>2
    <3>3. QED
      BY <3>1, <3>2
  <2>4. QED
    BY <2>2, <2>3
<1> HIDE DEF Nearer
<1>9. /\ \A k \in Sockets \ P : request'[k] = request[k]
      /\ \A k \in Sockets : bound'[k] = IF k \in T THEN NoId ELSE bound[k]
      /\ bound' = [k \in Sockets |-> IF k \in T THEN NoId ELSE bound[k]]
  BY <1>1 DEF AnswerRemovals
<1> HIDE DEF ripe, owners, P, T
<1>10. MessagesOK'
  <2>1. \A k \in P : request[k] \in {Remove, Removing}
    BY <1>5
  <2>2. QED
    BY <1>1, <1>4, <2>1, AnswersKeepMessages
<1>11. ASSUME NEW x \in AllIds, NEW i \in Nat, x # s, Finalizing(x, i)
       PROVE  Finalizing(x, i)'
  <2>1. PICK f \in finalizers : f.id = x /\ f.generation = i
    BY <1>11 DEF Finalizing
  <2>2. f \notin ripe
    BY <1>2, <1>11, <2>1
  <2>3. Nearer(f) \in finalizers' /\ Nearer(f).id = x /\ Nearer(f).generation = i
    BY <1>1, <1>8, <2>1, <2>2
  <2>4. QED
    BY <2>3 DEF Finalizing
<1>12. /\ finalizers' \in SUBSET Finalizers
       /\ \A f, h \in finalizers' : f.id = h.id /\ f.generation = h.generation => f = h
       /\ \A f, h \in finalizers' : f.sockets \cap h.sockets # {} => f = h
  <2>1. ASSUME NEW f \in finalizers'
        PROVE  \E x \in finalizers \ ripe : f = Nearer(x)
    BY <1>1
  <2>2. finalizers' \in SUBSET Finalizers
    BY <1>8, <2>1
  <2>3. ASSUME NEW f \in finalizers', NEW h \in finalizers',
               \/ f.id = h.id /\ f.generation = h.generation
               \/ f.sockets \cap h.sockets # {}
        PROVE  f = h
    <3>1. PICK x \in finalizers \ ripe : f = Nearer(x)
      BY <2>1
    <3>2. PICK y \in finalizers \ ripe : h = Nearer(y)
      BY <2>1
    <3>3. \/ x.id = y.id /\ x.generation = y.generation
          \/ x.sockets \cap y.sockets # {}
      BY <1>8, <2>3, <3>1, <3>2
    <3>4. x = y
      BY <3>3 DEF IInv, TypeOK, FinalizersOK
    <3>5. QED
      BY <3>1, <3>2, <3>4
  <2>4. QED
    BY <2>2, <2>3
<1>13. /\ bound' \in [Sockets -> Ids \cup {NoId}] /\ request' \in [Sockets -> Requests]
       /\ reply' \in [Sockets -> Replies] /\ persisting' \in [Ids -> 0..MaxPersists]
  <2>1. bound' \in [Sockets -> Ids \cup {NoId}]
    BY <1>9 DEF IInv, TypeOK
  <2>2. request' \in [Sockets -> Requests] /\ reply' \in [Sockets -> Replies]
    BY <1>1, Kinds DEF AnswerRemovals, IInv, TypeOK, Replies
  <2>3. persisting' \in [Ids -> 0..MaxPersists]
    BY <1>1 DEF IInv, TypeOK
  <2>4. QED
    BY <2>1, <2>2, <2>3
<1>14. ClientsOK'
  BY <1>1, ClientsUntouched
<1>15. CASE owners # {} /\ s \notin finalized
  <2>1. PICK f \in owners : TRUE
    BY <1>15
  <2>2. s \in sessions \ finalized /\ TearDown(s)
        /\ \A k \in Sockets : bound[k] = s => k \in T
    BY <1>1, <1>7, <1>15
  <2>3. T \in SUBSET Sockets /\ \A k \in T : bound[k] \in {NoId, s}
    BY <1>4, <1>5
  <2>4. BindingsOK' /\ TimersOK' /\ SessionsOK'
    BY <1>1, <1>9, <1>11, <2>2, <2>3, TearDownKeeps
  <2>5. /\ generation' = [generation EXCEPT ![s] = 0]
        /\ finalized' = finalized \cup {s} /\ sessions' = sessions \ {s}
        /\ holdings' = holdings \ {s} /\ barred' = barred \cup {s}
        /\ closings' = [closings EXCEPT ![s] = @ + 1]
    BY <2>2 DEF TearDown, Tombstones, HoldingsLeft
  <2>6. TypeOK'
    BY <1>1, <1>12, <1>13, <2>5 DEF IInv, TypeOK, AllIds, clientVars
  <2>7. ASSUME NEW h \in finalizers, h \notin ripe
        PROVE  /\ (h.id \in sessions' /\ h.generation <= generation'[h.id]) \/ h.id \in finalized'
               /\ \A k \in h.sockets : request'[k] = Removing /\ bound'[k] \in {NoId, h.id}
               /\ h.generation = generation'[h.id] =>
                     \A k \in Sockets : bound'[k] = h.id => h.allowConnected /\ k \in h.sockets
    <3>1. /\ (h.id \in sessions /\ h.generation <= generation[h.id]) \/ h.id \in finalized
          /\ \A k \in h.sockets : request[k] = Removing /\ bound[k] \in {NoId, h.id}
          /\ h.generation = generation[h.id] =>
                \A k \in Sockets : bound[k] = h.id => h.allowConnected /\ k \in h.sockets
      BY DEF IInv, FinalizersOK
    <3>2. h.id \in Ids /\ generation \in [AllIds -> Nat] /\ Ids \subseteq AllIds
      BY <1>2 DEF IInv, TypeOK, AllIds
    <3>3. \A k \in Sockets : bound'[k] # s
      BY <1>9, <2>2
    <3>4. \A k \in h.sockets : request'[k] = Removing /\ bound'[k] \in {NoId, h.id}
      BY <1>2, <1>6, <1>9, <2>7, <3>1
    <3>5. CASE h.id = s
      BY <2>5, <3>3, <3>4, <3>5
    <3>6. CASE h.id # s
      <4>1. generation'[h.id] = generation[h.id]
            /\ (h.id \in sessions => h.id \in sessions')
            /\ (h.id \in finalized => h.id \in finalized')
        BY <2>5, <3>2, <3>6
      <4>2. \A k \in Sockets : bound'[k] = h.id => bound[k] = h.id
        BY <1>9, <3>2
      <4>3. QED
        BY <3>1, <3>4, <4>1, <4>2
    <3>7. QED
      BY <3>5, <3>6
  <2>8. QED
    BY <1>1, <1>8, <1>10, <1>12, <1>14, <2>4, <2>6, <2>7 DEF IInv, FinalizersOK
<1>16. CASE ~ (owners # {} /\ s \notin finalized)
  <2>1. UNCHANGED sessionVars
    BY <1>1, <1>16
  <2>2. TypeOK'
    BY <1>1, <1>12, <1>13, <2>1 DEF IInv, TypeOK, clientVars
  <2>3. BindingsOK' /\ TimersOK'
    BY <1>1, <1>9, <2>1 DEF IInv, BindingsOK, TimersOK
  <2>4. ASSUME NEW h \in finalizers, h \notin ripe
        PROVE  /\ \A k \in h.sockets : request'[k] = Removing /\ bound'[k] \in {NoId, h.id}
               /\ \A k \in Sockets : bound'[k] = h.id => bound[k] = h.id
    <3>1. \A k \in h.sockets : request[k] = Removing /\ bound[k] \in {NoId, h.id}
      BY DEF IInv, FinalizersOK
    <3>2. \A k \in h.sockets : k \in Sockets \ P
      BY <1>2, <1>6, <2>4
    <3>3. h.id # NoId
      BY <1>2
    <3>4. QED
      BY <1>4, <1>9, <3>1, <3>2, <3>3
  <2>5. FinalizersOK'
    <3>1. ASSUME NEW h \in finalizers, h \notin ripe
          PROVE  /\ (h.id \in sessions /\ h.generation <= generation[h.id]) \/ h.id \in finalized
                 /\ h.generation = generation[h.id] =>
                       \A k \in Sockets : bound'[k] = h.id => h.allowConnected /\ k \in h.sockets
      BY <2>4, <3>1 DEF IInv, FinalizersOK
    <3>2. QED
      BY <1>1, <1>8, <1>12, <2>1, <2>4, <3>1 DEF FinalizersOK
  <2>6. ASSUME NEW x \in AllIds
        PROVE  /\ Live(x)' => Live(x)
               /\ Live(x) /\ x # s => Live(x)'
    <3>1. x # NoId
      BY DEF AllIds
    <3>2. \A k \in T : bound[k] \in {NoId, s}
      BY <1>4, <1>5
    <3>3. QED
      BY <1>9, <3>1, <3>2 DEF Live
  <2>7. FinalizedStaysFinalized' /\ ClosedExactlyOnce' /\ HoldersOK' /\ ShutdownLeavesNothing'
    <3>1. finalized \subseteq AllIds
      BY DEF IInv, TypeOK
    <3>2. QED
      BY <1>1, <2>1, <2>6, <3>1
         DEF IInv, SessionsOK, FinalizedStaysFinalized, ClosedExactlyOnce, HoldersOK,
             ShutdownLeavesNothing
  <2>8. ASSUME shutdown = "no", NEW x \in sessions \ {OwnId}
        PROVE  Live(x)' \/ <<x, generation[x]>> \in graceTimers \/ Finalizing(x, generation[x])'
    <3>1. x \in AllIds /\ generation[x] \in Nat
      BY <2>8 DEF IInv, TypeOK
    <3>2. Live(x) \/ <<x, generation[x]>> \in graceTimers \/ Finalizing(x, generation[x])
      BY <2>8 DEF IInv, SessionsOK, NoOrphanedSession
    <3> DEFINE i == generation[x]
    <3>3. Finalizing(x, i) => \E f \in finalizers' : f.id = x /\ f.generation = i
      <4>1. CASE x # s
        BY <1>11, <3>1, <4>1 DEF Finalizing
      <4>2. CASE x = s
        <5>1. owners = {}
          BY <1>16, <2>8, <4>2 DEF IInv, SessionsOK, FinalizedStaysFinalized
        <5>2. ASSUME NEW f \in finalizers, f.id = x, f.generation = i
              PROVE  f \notin ripe
          <6>1. \A k \in Sockets : bound[k] = s => f.allowConnected
            BY <4>2, <5>2 DEF IInv, FinalizersOK
          <6>2. Owns(s, f.generation, f.allowConnected)
            BY <4>2, <5>2, <6>1 DEF Owns, Live
          <6>3. QED
            BY <1>3, <5>1, <6>2
        <5>3. ASSUME NEW f \in finalizers, f.id = x, f.generation = i
              PROVE  Nearer(f) \in finalizers' /\ Nearer(f).id = x /\ Nearer(f).generation = i
          BY <1>1, <1>8, <5>2, <5>3
        <5>4. QED
          BY <5>3 DEF Finalizing
      <4>3. QED
        BY <4>1, <4>2
    <3>4. Live(x) => Live(x)'
      <4>1. CASE x # s
        BY <2>6, <3>1, <4>1
      <4>2. CASE x = s
        <5>1. T = {}
          BY <1>4, <1>16, <2>8, <4>2 DEF IInv, SessionsOK, FinalizedStaysFinalized
        <5>2. QED
          BY <1>9, <5>1 DEF Live
      <4>3. QED
        BY <4>1, <4>2
    <3>5. i' = i
      BY <2>1
    <3>6. QED
      BY <3>2, <3>3, <3>4, <3>5 DEF Finalizing
  <2>9. NoOrphanedSession'
    BY <1>1, <2>1, <2>8 DEF NoOrphanedSession
  <2>10. QED
    BY <1>10, <1>14, <2>2, <2>3, <2>5, <2>7, <2>9 DEF IInv, SessionsOK
<1>17. QED
  BY <1>15, <1>16

-----------------------------------------------------------------------------
(* The hub process                                                         *)

LEMMA ShutdownBeginsKeeps ==
    ASSUME IInv, BeginShutdown \/ CloseHub
    PROVE  IInv'
<1> USE DEF sessionVars, faultVars, clientVars, socketVars
<1>1. /\ shutdown \in {"no", "begun"} /\ shutdown' \in {"begun", "draining"}
      /\ graceTimers' \subseteq graceTimers
      /\ UNCHANGED <<clientVars, socketVars, faultVars, bound, sessionVars, finalizers,
                     persisting>>
  BY DEF BeginShutdown, CloseHub
<1>2. TypeOK'
  BY <1>1 DEF IInv, TypeOK
<1>3. ClientsOK' /\ MessagesOK' /\ BindingsOK' /\ TimersOK' /\ FinalizersOK'
  BY <1>1 DEF IInv, ClientsOK, MessagesOK, ToldIn, BindingsOK, TimersOK, FinalizersOK
<1>4. SessionsOK'
  BY <1>1 DEF IInv, SessionsOK, FinalizedStaysFinalized, ClosedExactlyOnce, HoldersOK,
              ShutdownLeavesNothing, NoOrphanedSession, Live
<1>5. QED
  BY <1>2, <1>3, <1>4 DEF IInv

LEMMA FinalizeAtShutdownKeeps ==
    ASSUME IInv, NEW s \in AllIds, FinalizeAtShutdown(s)
    PROVE  IInv'
<1> USE DEF sessionVars, faultVars, clientVars, socketVars
<1>1. /\ shutdown = "draining" /\ finalizers = {} /\ s \in sessions \ finalized /\ TearDown(s)
      /\ UNCHANGED <<clientVars, socketVars, faultVars, bound, graceTimers, finalizers,
                     persisting, shutdown>>
  BY DEF FinalizeAtShutdown, Drained
<1>2. /\ generation' = [generation EXCEPT ![s] = 0]
      /\ finalized' = finalized \cup {s} /\ sessions' = sessions \ {s}
      /\ holdings' = holdings \ {s} /\ barred' = barred \cup {s}
      /\ closings' = [closings EXCEPT ![s] = @ + 1]
  BY <1>1 DEF TearDown, Tombstones, HoldingsLeft
<1>3. TypeOK'
  BY <1>1, <1>2 DEF IInv, TypeOK, AllIds
<1>4. bound' = [k \in Sockets |-> IF k \in {} THEN NoId ELSE bound[k]]
  BY <1>1 DEF IInv, TypeOK
<1>5. BindingsOK' /\ TimersOK' /\ SessionsOK'
  BY <1>1, <1>4, {} \in SUBSET Sockets, TearDownKeeps DEF Finalizing
<1>6. ClientsOK' /\ MessagesOK' /\ FinalizersOK'
  BY <1>1 DEF IInv, ClientsOK, MessagesOK, ToldIn, FinalizersOK
<1>7. QED
  BY <1>3, <1>5, <1>6 DEF IInv

\* The hub's ends are closed and nothing is under way: at the end of a shutdown, and after a
\* start, when a hub process knows nothing of the one before it.
LEMMA HubGoneKeeps ==
    ASSUME IInv, HubCloses \/ HubRestarts \/ HubCrashes
    PROVE  IInv'
<1> USE LifecycleAssumption DEF sessionVars, faultVars, clientVars
<1>1. /\ hubEnd' = [k \in Sockets |-> FALSE] /\ bound' = [k \in Sockets |-> NoId]
      /\ request' = [k \in Sockets |-> Quiet] /\ finalizers' = {}
      /\ UNCHANGED <<clientVars, clientEnd, reply>>
  BY DEF HubCloses, Drained, HubRestarts, HubCrashes, FreshHub
<1>2. ClientsOK'
  BY <1>1, ClientsUntouched
<1>3. MessagesOK'
  <2>1. ASSUME NEW c \in Clients, phase[c] \in {"registering", "registered", "leaving"}
        PROVE  socketOf[c] \in Sockets
    BY <2>1 DEF IInv, TypeOK, ClientsOK
  <2>2. QED
    BY <1>1, <2>1 DEF IInv, MessagesOK, ToldIn
<1>4. BindingsOK' /\ FinalizersOK'
  BY <1>1 DEF BindingsOK, FinalizersOK
<1>5. \A x \in AllIds : ~ Live(x)'
  BY <1>1 DEF Live, AllIds
<1>6. CASE HubCloses
  <2>1. /\ sessions \subseteq finalized /\ shutdown' = "done"
        /\ UNCHANGED <<faultVars, sessionVars, graceTimers, persisting>>
    BY <1>6 DEF HubCloses
  <2>2. TypeOK'
    BY <1>1, <2>1, Kinds DEF IInv, TypeOK
  <2>3. TimersOK'
    BY <2>1 DEF IInv, TimersOK
  <2>4. sessions = {} /\ holdings = {}
    BY <2>1 DEF IInv, SessionsOK, FinalizedStaysFinalized, HoldersOK
  <2>5. finalized \subseteq AllIds
    BY DEF IInv, TypeOK
  <2>6. SessionsOK'
    BY <1>5, <2>1, <2>4, <2>5
       DEF IInv, SessionsOK, FinalizedStaysFinalized, ClosedExactlyOnce, HoldersOK,
           ShutdownLeavesNothing, NoOrphanedSession
  <2>7. QED
    BY <1>2, <1>3, <1>4, <2>2, <2>3, <2>6 DEF IInv
<1>7. CASE HubRestarts \/ HubCrashes
  <2>1. /\ generation' = [s \in AllIds |-> 0] /\ graceTimers' = {}
        /\ persisting' = [s \in Ids |-> 0]
        /\ sessions' = {OwnId} /\ holdings' = {} /\ finalized' = {}
        /\ closings' = [s \in AllIds |-> 0] /\ shutdown' = "no" /\ barred' = barred
        /\ drops' = drops /\ restarts' \in 0..MaxRestarts /\ crashes' \in 0..MaxCrashes
    BY <1>7 DEF HubRestarts, HubCrashes, FreshHub, IInv, TypeOK
  <2>2. TypeOK'
    BY <1>1, <2>1, Kinds DEF IInv, TypeOK, AllIds
  <2>3. TimersOK'
    BY <2>1 DEF TimersOK
  <2>4. SessionsOK'
    BY <2>1 DEF SessionsOK, FinalizedStaysFinalized, ClosedExactlyOnce, HoldersOK,
                ShutdownLeavesNothing, NoOrphanedSession
  <2>5. QED
    BY <1>2, <1>3, <1>4, <2>2, <2>3, <2>4 DEF IInv
<1>8. QED
  BY <1>6, <1>7

-----------------------------------------------------------------------------

LEMMA Next_IInv == IInv /\ [Next]_vars => IInv'
<1>1. ASSUME IInv, NEW c \in Clients,
             ClientStep(c) \/ ClientDrops(c) \/ ClientLeaves(c) \/ ClientEnds(c)
      PROVE  IInv'
  BY <1>1, ConnectKeeps, ClientLeavesSocketKeeps, ClientTalksKeeps DEF ClientStep
<1>2. ASSUME IInv, NEW k \in Sockets, HubStep(k) \/ HubDrops(k) \/ UseHub(k)
      PROVE  IInv'
  <2>1. CASE HubSeesClose(k) \/ HubDrops(k)
    <3>1. CloseHubEnd(k) /\ drops' \in 0..MaxDrops
      BY <1>2, <2>1, LifecycleAssumption DEF HubSeesClose, HubDrops, IInv, TypeOK
    <3>2. QED
      BY <1>2, <3>1, CloseHubEndKeeps
  <2>2. CASE ~ (HubSeesClose(k) \/ HubDrops(k))
    BY <1>2, <2>2, RefusalKeeps, RegisterSessionKeeps, RemoveSessionKeeps, UseKeeps DEF HubStep
  <2>3. QED
    BY <2>1, <2>2
<1>3. ASSUME IInv, NEW s \in Ids, Expiry(s) \/ PersistStarts(s) \/ PersistEnds(s)
      PROVE  IInv'
  BY <1>3, GraceExpiresKeeps, UseKeeps, PersistEndsKeeps
<1>4. ASSUME IInv, UseOwn \/ BeginShutdown \/ ShutdownStep \/ HubRestarts \/ HubCrashes
      PROVE  IInv'
  BY <1>4, UseKeeps, ShutdownBeginsKeeps, FinalizeAtShutdownKeeps, HubGoneKeeps DEF ShutdownStep
<1>5. ASSUME IInv, UNCHANGED vars
      PROVE  IInv'
  <2> USE DEF vars, clientVars, socketVars, faultVars, hubVars, sessionVars
  <2>1. TypeOK'
    BY <1>5 DEF IInv, TypeOK
  <2>2. ClientsOK' /\ MessagesOK'
    BY <1>5 DEF IInv, ClientsOK, MessagesOK, ToldIn
  <2>3. QED
    BY <1>5, <2>1, <2>2, ClientStepKeeps
<1>6. QED
  BY <1>1, <1>2, <1>3, <1>4, <1>5 DEF Next

LEMMA IInvHolds == Spec => []IInv
BY Init_IInv, Next_IInv, PTL DEF Spec

\* Every map of the hub and every message keeps its type, a session has one grace timer at
\* most and a generation one finalizer.
THEOREM LifecycleTypeCorrect == Spec => []TypeOK
<1>1. IInv => TypeOK
  BY DEF IInv
<1>2. QED
  BY <1>1, IInvHolds, PTL

\* A registered client keeps its session: no timer and no finalizer left over from an earlier
\* connection (scheduleSessionCleanup, runSessionFinalizer) takes it down.
THEOREM ReconnectedLive == Spec => []RegisteredSessionLives
<1>1. IInv => RegisteredSessionLives
  <2>1. ASSUME IInv, NEW c \in Clients, phase[c] = "registered", hubEnd[socketOf[c]],
               shutdown \in {"no", "begun"}
        PROVE  bound[socketOf[c]] = identity[c] /\ identity[c] \in sessions \ finalized
    <3>1. socketOf[c] \in Sockets /\ identity[c] \in Ids /\ bound[socketOf[c]] = identity[c]
      BY <2>1 DEF IInv, TypeOK, ClientsOK, MessagesOK, ToldIn
    <3>2. identity[c] \in sessions
      BY <2>1, <3>1, LifecycleAssumption DEF IInv, BindingsOK
    <3>3. QED
      BY <2>1, <3>1, <3>2 DEF IInv, SessionsOK, FinalizedStaysFinalized
  <2>2. QED
    BY <2>1 DEF RegisteredSessionLives
<1>2. QED
  BY <1>1, IInvHolds, PTL

\* A finalized id is not registered again by the hub that finalized it, and owns nothing
\* (finalizedSessions, registerSession).
THEOREM FinalizedForGood == Spec => []FinalizedStaysFinalized
<1>1. IInv => FinalizedStaysFinalized
  BY DEF IInv, SessionsOK
<1>2. QED
  BY <1>1, IInvHolds, PTL

\* session_closed is broadcast once for a finalized session and never for another, whichever
\* of removal, grace timer, late persist and shutdown finalizes it.
THEOREM OneNotification == Spec => []ClosedExactlyOnce
<1>1. IInv => ClosedExactlyOnce
  BY DEF IInv, SessionsOK
<1>2. QED
  BY <1>1, IInvHolds, PTL

\* A session without a connection has a timer or a finalizer for the generation it is at.
THEOREM NoOrphans == Spec => []NoOrphanedSession
<1>1. IInv => NoOrphanedSession
  BY DEF IInv, SessionsOK
<1>2. QED
  BY <1>1, IInvHolds, PTL

\* After close() no session is left, and nothing is held (finalizeAllSessions).
THEOREM NothingAfterShutdown == Spec => []ShutdownLeavesNothing
<1>1. IInv => ShutdownLeavesNothing
  BY DEF IInv, SessionsOK
<1>2. QED
  BY <1>1, IInvHolds, PTL
=============================================================================
