------------------------ MODULE ToolProxyStreamProofs ------------------------
(***************************************************************************)
(* Proofs about the messages of ToolProxy: the chunks of a file on their   *)
(* way to the hub, and the acknowledgements on their way back.             *)
(*                                                                         *)
(* The invariant counts nothing.  It bounds the numbers of the chunks and  *)
(* acknowledgements under way by what has been sent, written and           *)
(* acknowledged, and says that they are in order; a chunk that is written, *)
(* or an acknowledgement that arrives, then takes the lowest number away.  *)
(* What the hub has still to read from a socket that is dead comes before  *)
(* all that is under way on the socket the extension has now.              *)
(***************************************************************************)
EXTENDS ToolProxyProofs

Chunks(q, t) == {i \in DOMAIN q : q[i].kind = "chunk" /\ q[i].of = t}
Acks(q, t) == {i \in DOMAIN q : q[i].kind = "ack" /\ q[i].of = t /\ q[i].ok = TRUE}

InOrder(q, I) == \A i, j \in I : i < j => q[i].seq < q[j].seq
Between(q, I, low, high) == \A i \in I : low <= q[i].seq /\ q[i].seq < high
Complete(q, I, low, high) == \A n \in low..(high - 1) : \E i \in I : q[i].seq = n

\* In q are the chunks of t from low to high, without high, in order.
Stream(q, t, low, high) ==
    /\ InOrder(q, Chunks(q, t))
    /\ Between(q, Chunks(q, t), low, high)
    /\ Complete(q, Chunks(q, t), low, high)

\* In q are acknowledgements of t, in order, of chunks from low to high, without high.
Acknowledges(q, t, low, high) ==
    /\ InOrder(q, Acks(q, t))
    /\ Between(q, Acks(q, t), low, high)

\* Every request is sent to the extension once.
SentOnce(q) ==
    \A i, j \in DOMAIN q : q[i].kind = "request" /\ q[j].kind = "request" /\ i < j => q[i].of # q[j].of

ExtensionTypeOK ==
    /\ nextSeq \in [Fetches -> Nat] /\ sockets <= MaxSockets
    /\ toExtension \in Seq(Messages) /\ toHub \in Seq(Messages)
    /\ job \in [Requests -> Jobs]
    /\ sent \in [Fetches -> 0..TotalChunks] /\ acked \in [Fetches -> Nat]
    /\ owed \in SUBSET Requests /\ restarting \in BOOLEAN
    /\ faults \in 0..MaxFaults

\* The sender does not get ahead of itself, nor the hub of the sender.
InStep ==
    \A t \in Fetches :
       /\ acked[t] <= nextSeq[t] /\ nextSeq[t] <= sent[t]
       /\ Between(toHub, Chunks(toHub, t), 0, sent[t])
       /\ Acknowledges(toExtension, t, acked[t], nextSeq[t])

\* Nothing is done for a request before the extension has it, and it gets it once.
BegunOnce ==
    /\ \A t \in Fetches : job[t] = "none" => sent[t] = 0
    /\ \A r \in Requests : phase[r] \in {"unasked", "resolving"} => job[r] = "none"
    /\ \A i \in DOMAIN toExtension : toExtension[i].kind = "request" =>
          /\ job[toExtension[i].of] = "none"
          /\ phase[toExtension[i].of] \notin {"unasked", "resolving"}
    /\ SentOnce(toExtension)

Streams ==
    \A t \in expected : via[t] = socket /\ ~ shuttingDown => Stream(toHub, t, nextSeq[t], sent[t])

MInv == ExtensionTypeOK /\ InStep /\ BegunOnce /\ Streams

\* The chunks that a dead socket still has for the hub were sent.
LateSent ==
    /\ late \in [Sockets -> Seq(Messages)]
    /\ \A k \in Sockets : \A t \in Fetches : Between(late[k], Chunks(late[k], t), 0, sent[t])

-----------------------------------------------------------------------------
(* Sequences of messages *)

LEMMA MessageAt ==
    ASSUME NEW q \in Seq(Messages)
    PROVE  /\ DOMAIN q = 1..Len(q) /\ Len(q) \in Nat
           /\ \A i \in DOMAIN q : i \in Nat /\ q[i] \in Messages /\ q[i].seq \in Nat /\ q[i].of \in Requests
<1>1. \A m \in Messages : m.seq \in Nat /\ m.of \in Requests
  BY DEF Messages
<1>2. \A i \in DOMAIN q : i \in Nat /\ q[i] \in Messages
  OBVIOUS
<1> QED
  BY <1>1, <1>2

LEMMA AppendAt ==
    ASSUME NEW q \in Seq(Messages), NEW m \in Messages, NEW p, p = Append(q, m)
    PROVE  /\ p \in Seq(Messages)
           /\ DOMAIN q = 1..Len(q) /\ DOMAIN p = 1..(Len(q) + 1) /\ Len(q) \in Nat
           /\ \A i \in DOMAIN q : i \in DOMAIN p /\ p[i] = q[i]
           /\ p[Len(q) + 1] = m
  OBVIOUS

LEMMA TailAt ==
    ASSUME NEW q \in Seq(Messages), q # <<>>, NEW p, p = Tail(q)
    PROVE  /\ p \in Seq(Messages)
           /\ 1 \in DOMAIN q /\ q[1] = Head(q) /\ q[1] \in Messages
           /\ \A i \in DOMAIN p : i \in Nat \ {0} /\ i + 1 \in DOMAIN q /\ p[i] = q[i + 1]
           /\ \A i \in DOMAIN q : i \in Nat /\ (i # 1 => i - 1 \in DOMAIN p /\ p[i - 1] = q[i])
  OBVIOUS

\* A message at the end of q.
LEMMA ChunksAppended ==
    ASSUME NEW q \in Seq(Messages), NEW m \in Messages, NEW t
    PROVE  Chunks(Append(q, m), t) =
             IF m.kind = "chunk" /\ m.of = t THEN Chunks(q, t) \cup {Len(q) + 1} ELSE Chunks(q, t)
<1>1. PICK p : p = Append(q, m)
  OBVIOUS
<1> QED
  BY <1>1, AppendAt DEF Chunks

LEMMA AcksAppended ==
    ASSUME NEW q \in Seq(Messages), NEW m \in Messages, NEW t
    PROVE  Acks(Append(q, m), t) =
             IF m.kind = "ack" /\ m.of = t /\ m.ok = TRUE THEN Acks(q, t) \cup {Len(q) + 1} ELSE Acks(q, t)
<1>1. PICK p : p = Append(q, m)
  OBVIOUS
<1> QED
  BY <1>1, AppendAt DEF Acks

LEMMA BetweenAppended ==
    ASSUME NEW q, NEW p, NEW C \in SUBSET Nat, NEW l \in Nat, NEW low \in Nat, NEW high \in Nat,
           low <= high, Between(q, C, low, high), p[l].seq = high,
           \A i \in C : p[i] = q[i] /\ q[i].seq \in Nat
    PROVE  Between(p, C \cup {l}, low, high + 1)
  BY DEF Between

LEMMA NumbersAppended ==
    ASSUME NEW q, NEW p, NEW C \in SUBSET Nat, NEW l \in Nat, NEW low \in Nat, NEW high \in Nat,
           low <= high, InOrder(q, C), Between(q, C, low, high), p[l].seq = high,
           \A i \in C : i < l /\ p[i] = q[i] /\ q[i].seq \in Nat
    PROVE  InOrder(p, C \cup {l}) /\ Between(p, C \cup {l}, low, high + 1)
<1>1. ASSUME NEW i \in C \cup {l}, NEW j \in C \cup {l}, i < j
      PROVE  p[i].seq < p[j].seq
  <2>1. i \in C
    BY <1>1
  <2>2. CASE j = l
    BY <2>1, <2>2 DEF Between
  <2>3. CASE j \in C
    BY <1>1, <2>1, <2>3 DEF InOrder
  <2> QED
    BY <2>2, <2>3
<1>2. Between(p, C \cup {l}, low, high + 1)
  BY BetweenAppended
<1> QED
  BY <1>1, <1>2 DEF InOrder

LEMMA StreamAppended ==
    ASSUME NEW q \in Seq(Messages), NEW m \in Messages, NEW p, p = Append(q, m),
           NEW t, NEW low \in Nat, NEW high \in Nat, low <= high, Stream(q, t, low, high)
    PROVE  /\ ~(m.kind = "chunk" /\ m.of = t) => Stream(p, t, low, high)
           /\ m.kind = "chunk" /\ m.of = t /\ m.seq = high => Stream(p, t, low, high + 1)
<1>1. PICK C, l : C = Chunks(q, t) /\ l = Len(q) + 1
  OBVIOUS
<1>2. /\ C \in SUBSET Nat /\ l \in Nat /\ p[l] = m
      /\ \A i \in C : i < l /\ p[i] = q[i] /\ q[i].seq \in Nat
  BY <1>1, AppendAt, MessageAt DEF Chunks
<1>3. InOrder(q, C) /\ Between(q, C, low, high) /\ Complete(q, C, low, high)
  BY <1>1 DEF Stream
<1>4. ASSUME ~(m.kind = "chunk" /\ m.of = t)
      PROVE  Stream(p, t, low, high)
  <2>1. Chunks(p, t) = C
    BY <1>1, <1>4, ChunksAppended
  <2>2. InOrder(p, C) /\ Between(p, C, low, high) /\ Complete(p, C, low, high)
    BY <1>2, <1>3 DEF InOrder, Between, Complete
  <2> QED
    BY <2>1, <2>2 DEF Stream
<1>5. ASSUME m.kind = "chunk" /\ m.of = t /\ m.seq = high
      PROVE  Stream(p, t, low, high + 1)
  <2>1. Chunks(p, t) = C \cup {l}
    BY <1>1, <1>5, ChunksAppended
  <2>2. InOrder(p, C \cup {l}) /\ Between(p, C \cup {l}, low, high + 1)
    BY <1>2, <1>3, <1>5, NumbersAppended
  <2>3. ASSUME NEW n \in low..high
        PROVE  \E i \in C \cup {l} : p[i].seq = n
    <3>1. CASE n = high
      BY <1>2, <1>5, <3>1
    <3>2. CASE n < high
      <4>1. n \in low..(high - 1)
        BY <3>2
      <4>2. PICK i \in C : q[i].seq = n
        BY <1>3, <4>1 DEF Complete
      <4> QED
        BY <1>2, <4>2
    <3>3. n = high \/ n < high
      OBVIOUS
    <3> QED
      BY <3>1, <3>2, <3>3
  <2>4. low..((high + 1) - 1) = low..high
    OBVIOUS
  <2>5. Complete(p, C \cup {l}, low, high + 1)
    BY <2>3, <2>4 DEF Complete
  <2> QED
    BY <2>1, <2>2, <2>5 DEF Stream
<1> QED
  BY <1>4, <1>5

LEMMA AcknowledgesAppended ==
    ASSUME NEW q \in Seq(Messages), NEW m \in Messages, NEW p, p = Append(q, m),
           NEW t, NEW low \in Nat, NEW high \in Nat, low <= high, Acknowledges(q, t, low, high)
    PROVE  /\ ~(m.kind = "ack" /\ m.of = t /\ m.ok = TRUE) => Acknowledges(p, t, low, high)
           /\ m.kind = "ack" /\ m.of = t /\ m.ok = TRUE /\ m.seq = high => Acknowledges(p, t, low, high + 1)
<1>1. PICK C, l : C = Acks(q, t) /\ l = Len(q) + 1
  OBVIOUS
<1>2. /\ C \in SUBSET Nat /\ l \in Nat /\ p[l] = m
      /\ \A i \in C : i < l /\ p[i] = q[i] /\ q[i].seq \in Nat
  BY <1>1, AppendAt, MessageAt DEF Acks
<1>3. InOrder(q, C) /\ Between(q, C, low, high)
  BY <1>1 DEF Acknowledges
<1>4. ASSUME ~(m.kind = "ack" /\ m.of = t /\ m.ok = TRUE)
      PROVE  Acknowledges(p, t, low, high)
  <2>1. Acks(p, t) = C
    BY <1>1, <1>4, AcksAppended
  <2>2. InOrder(p, C) /\ Between(p, C, low, high)
    BY <1>2, <1>3 DEF InOrder, Between
  <2> QED
    BY <2>1, <2>2 DEF Acknowledges
<1>5. ASSUME m.kind = "ack" /\ m.of = t /\ m.ok = TRUE /\ m.seq = high
      PROVE  Acknowledges(p, t, low, high + 1)
  <2>1. Acks(p, t) = C \cup {l}
    BY <1>1, <1>5, AcksAppended
  <2>2. InOrder(p, C \cup {l}) /\ Between(p, C \cup {l}, low, high + 1)
    BY <1>2, <1>3, <1>5, NumbersAppended
  <2> QED
    BY <2>1, <2>2 DEF Acknowledges
<1> QED
  BY <1>4, <1>5

\* The first message of q is taken.
LEMMA NumbersTaken ==
    ASSUME NEW q, NEW p, NEW C \in SUBSET Nat, NEW D \in SUBSET (Nat \ {0}),
           NEW low \in Nat, NEW high \in Nat, InOrder(q, C), Between(q, C, low, high),
           \A i \in C : q[i].seq \in Nat,
           \A i \in D : i + 1 \in C /\ p[i] = q[i + 1]
    PROVE  /\ InOrder(p, D) /\ Between(p, D, low, high)
           /\ 1 \in C => low <= q[1].seq /\ q[1].seq < high /\ Between(p, D, q[1].seq + 1, high)
<1>1. ASSUME NEW i \in D, NEW j \in D, i < j
      PROVE  p[i].seq < p[j].seq
  <2>1. i + 1 \in C /\ j + 1 \in C /\ i + 1 < j + 1
    BY <1>1
  <2>2. q[i + 1].seq < q[j + 1].seq
    BY <2>1 DEF InOrder
  <2> QED
    BY <2>2
<1>2. Between(p, D, low, high)
  BY DEF Between
<1>3. ASSUME 1 \in C
      PROVE  low <= q[1].seq /\ q[1].seq < high /\ Between(p, D, q[1].seq + 1, high)
  <2>1. low <= q[1].seq /\ q[1].seq < high
    BY <1>3 DEF Between
  <2>2. ASSUME NEW i \in D
        PROVE  q[1].seq + 1 <= p[i].seq /\ p[i].seq < high
    <3>1. i + 1 \in C /\ 1 < i + 1 /\ p[i].seq \in Nat /\ q[1].seq \in Nat
      BY <1>3
    <3>2. q[1].seq < q[i + 1].seq
      BY <1>3, <3>1 DEF InOrder
    <3> QED
      BY <1>2, <3>1, <3>2 DEF Between
  <2> QED
    BY <2>1, <2>2 DEF Between
<1> QED
  BY <1>1, <1>2, <1>3 DEF InOrder

LEMMA StreamTaken ==
    ASSUME NEW q \in Seq(Messages), q # <<>>,
           NEW t, NEW low \in Nat, NEW high \in Nat, Stream(q, t, low, high)
    PROVE  /\ ~(Head(q).kind = "chunk" /\ Head(q).of = t) => Stream(Tail(q), t, low, high)
           /\ Head(q).kind = "chunk" /\ Head(q).of = t /\ Head(q).seq = low
                => Stream(Tail(q), t, low + 1, high)
<1>1. PICK p, C, D : p = Tail(q) /\ C = Chunks(q, t) /\ D = Chunks(p, t)
  OBVIOUS
<1>2. /\ C \in SUBSET Nat /\ D \in SUBSET (Nat \ {0})
      /\ \A i \in C : q[i].seq \in Nat
      /\ \A i \in D : i + 1 \in C /\ p[i] = q[i + 1]
      /\ \A i \in C : i # 1 => i - 1 \in D /\ p[i - 1] = q[i]
      /\ 1 \in C <=> Head(q).kind = "chunk" /\ Head(q).of = t
  BY <1>1, TailAt, MessageAt DEF Chunks
<1>3. q[1] = Head(q)
  OBVIOUS
<1>4. InOrder(q, C) /\ Between(q, C, low, high) /\ Complete(q, C, low, high)
  BY <1>1 DEF Stream
<1>5. /\ InOrder(p, D) /\ Between(p, D, low, high)
      /\ 1 \in C => Between(p, D, q[1].seq + 1, high)
  BY <1>2, <1>4, NumbersTaken
\* Whoever was in q is in p, but for the first.
<1>6. ASSUME NEW n \in low..(high - 1), 1 \in C => n # q[1].seq
      PROVE  \E i \in D : p[i].seq = n
  <2>1. PICK i \in C : q[i].seq = n
    BY <1>4, <1>6 DEF Complete
  <2>2. i # 1
    BY <1>6, <2>1
  <2> QED
    BY <1>2, <2>1, <2>2
<1>7. CASE 1 \notin C
  <2>1. Complete(p, D, low, high)
    BY <1>6, <1>7 DEF Complete
  <2> QED
    BY <1>1, <1>2, <1>5, <1>7, <2>1 DEF Stream
<1>8. ASSUME 1 \in C, Head(q).seq = low
      PROVE  Stream(p, t, low + 1, high)
  <2>1. ASSUME NEW n \in (low + 1)..(high - 1)
        PROVE  \E i \in D : p[i].seq = n
    <3>1. n \in low..(high - 1) /\ n # q[1].seq
      BY <1>3, <1>8
    <3> QED
      BY <1>6, <3>1
  <2>2. Complete(p, D, low + 1, high)
    BY <2>1 DEF Complete
  <2>3. Between(p, D, low + 1, high)
    BY <1>3, <1>5, <1>8
  <2> QED
    BY <1>1, <1>5, <2>2, <2>3 DEF Stream
<1> QED
  BY <1>1, <1>2, <1>7, <1>8

LEMMA AcknowledgesTaken ==
    ASSUME NEW q \in Seq(Messages), q # <<>>,
           NEW t, NEW low \in Nat, NEW high \in Nat, Acknowledges(q, t, low, high)
    PROVE  /\ Acknowledges(Tail(q), t, low, high)
           /\ Head(q).kind = "ack" /\ Head(q).of = t /\ Head(q).ok = TRUE
                => low < high /\ Acknowledges(Tail(q), t, low + 1, high)
<1>1. PICK p, C, D : p = Tail(q) /\ C = Acks(q, t) /\ D = Acks(p, t)
  OBVIOUS
<1>2. /\ C \in SUBSET Nat /\ D \in SUBSET (Nat \ {0})
      /\ \A i \in C : q[i].seq \in Nat
      /\ \A i \in D : i + 1 \in C /\ p[i] = q[i + 1]
      /\ 1 \in C <=> Head(q).kind = "ack" /\ Head(q).of = t /\ Head(q).ok = TRUE
  BY <1>1, TailAt, MessageAt DEF Acks
<1>3. InOrder(q, C) /\ Between(q, C, low, high)
  BY <1>1 DEF Acknowledges
<1>4. /\ InOrder(p, D) /\ Between(p, D, low, high)
      /\ 1 \in C => low <= q[1].seq /\ q[1].seq < high /\ Between(p, D, q[1].seq + 1, high)
  BY <1>2, <1>3, NumbersTaken
<1>5. ASSUME 1 \in C
      PROVE  low < high /\ Between(p, D, low + 1, high)
  <2>1. \A i \in D : p[i].seq \in Nat
    BY <1>2
  <2> QED
    BY <1>2, <1>4, <1>5, <2>1 DEF Between
<1> QED
  BY <1>1, <1>2, <1>4, <1>5 DEF Acknowledges

LEMMA SentOnceKept ==
    ASSUME NEW q \in Seq(Messages), SentOnce(q)
    PROVE  /\ q # <<>> => SentOnce(Tail(q))
           /\ \A m \in Messages :
                 m.kind # "request" \/ (\A i \in DOMAIN q : q[i].kind = "request" => q[i].of # m.of)
                 => SentOnce(Append(q, m))
<1>1. ASSUME q # <<>> PROVE SentOnce(Tail(q))
  <2>1. PICK p : p = Tail(q)
    OBVIOUS
  <2>2. /\ \A i \in DOMAIN p : i \in Nat \ {0} /\ i + 1 \in DOMAIN q /\ p[i] = q[i + 1]
    BY <1>1, <2>1, TailAt
  <2>3. ASSUME NEW i \in DOMAIN p, NEW j \in DOMAIN p, i < j,
               p[i].kind = "request", p[j].kind = "request"
        PROVE  p[i].of # p[j].of
    <3>1. i + 1 \in DOMAIN q /\ j + 1 \in DOMAIN q /\ i + 1 < j + 1
      BY <2>2, <2>3
    <3>2. q[i + 1].kind = "request" /\ q[j + 1].kind = "request"
      BY <2>2, <2>3
    <3>3. q[i + 1].of # q[j + 1].of
      BY <3>1, <3>2 DEF SentOnce
    <3> QED
      BY <2>2, <3>3
  <2> QED
    BY <2>1, <2>3 DEF SentOnce
<1>2. ASSUME NEW m \in Messages,
             m.kind # "request" \/ (\A i \in DOMAIN q : q[i].kind = "request" => q[i].of # m.of)
      PROVE  SentOnce(Append(q, m))
  <2>1. PICK p : p = Append(q, m)
    OBVIOUS
  <2> QED
    BY <1>2, <2>1, AppendAt DEF SentOnce
<1> QED
  BY <1>1, <1>2

-----------------------------------------------------------------------------
(* The steps *)

LEMMA NoMessages ==
    /\ <<>> \in Seq(Messages) /\ DOMAIN <<>> = {} /\ SentOnce(<<>>)
    /\ \A t : Chunks(<<>>, t) = {} /\ Acks(<<>>, t) = {}
    /\ \A t : \A n : Acknowledges(<<>>, t, n, n)
<1>1. <<>> \in Seq(Messages) /\ DOMAIN <<>> = {}
  OBVIOUS
<1>2. \A t : Chunks(<<>>, t) = {} /\ Acks(<<>>, t) = {}
  BY <1>1 DEF Chunks, Acks
<1> QED
  BY <1>1, <1>2 DEF SentOnce, Acknowledges, InOrder, Between

LEMMA Init_MInv == Init => MInv
<1> SUFFICES ASSUME Init PROVE MInv
  OBVIOUS
<1>1. ExtensionTypeOK
  <2>1. 0 \in 0..TotalChunks /\ 0 \in 0..MaxFaults /\ 1 <= MaxSockets
    BY RegistryAssumption, ProxyAssumption
  <2>2. toExtension \in Seq(Messages) /\ toHub \in Seq(Messages)
    BY NoMessages DEF Init
  <2>3. job \in [Requests -> Jobs]
    BY DEF Init, Jobs
  <2> QED
    BY <2>1, <2>2, <2>3 DEF Init, RegistryInit, ExtensionTypeOK
<1>2. InStep
  BY NoMessages DEF Init, RegistryInit, InStep, Between
<1>3. BegunOnce
  BY NoMessages, RegistryAssumption DEF Init, BegunOnce
<1>4. Streams
  BY DEF Init, RegistryInit, Streams
<1> QED
  BY <1>1, <1>2, <1>3, <1>4 DEF MInv

\* The far end and the messages do not change, and no request becomes open again.
LEMMA QuietKeeps ==
    ASSUME MInv, UNCHANGED <<nextSeq, via, socket, sockets, toExtension, toHub, extensionVars>>,
           expected' \subseteq expected, shuttingDown => shuttingDown',
           faults' \in 0..MaxFaults,
           \A r \in Requests : phase'[r] \in {"unasked", "resolving"} => phase[r] \in {"unasked", "resolving"}
    PROVE  MInv'
<1>1. ExtensionTypeOK'
  BY DEF MInv, ExtensionTypeOK, extensionVars
<1>2. InStep'
  BY DEF MInv, InStep, extensionVars
<1>3. BegunOnce'
  <2>1. \A i \in DOMAIN toExtension : toExtension[i].of \in Requests
    BY MessageAt DEF MInv, ExtensionTypeOK
  <2> QED
    BY <2>1, RegistryAssumption DEF MInv, BegunOnce, extensionVars
<1>4. Streams'
  BY DEF MInv, Streams, extensionVars
<1> QED
  BY <1>1, <1>2, <1>3, <1>4 DEF MInv

LEMMA ConcludedOpensNothing ==
    ASSUME NEW R, phase' = Concluded(R)
    PROVE  \A r \in Requests :
              phase'[r] \in {"unasked", "resolving"} => phase[r] \in {"unasked", "resolving"}
  BY DEF Concluded

\* The request is answered, or waits for its browser; the client or its browser goes; timers
\* fire; the hub shuts down.
LEMMA HubKeeps ==
    ASSUME IInv, MInv, NEW r,
           \/ (r \in Requests /\ (Ask(r) \/ NoTarget(r) \/ RefuseForShutdown(r) \/ ProxyTimeout(r)))
           \/ (r \in Fetches /\ (RefuseTransfer(r) \/ TransferTimeout(r)))
           \/ (\E k \in Sockets : BrowserCloses(k)) \/ ClientCloses(SessionOf[r])
           \/ BeginShutdown \/ Dispose
    PROVE  MInv'
<1>1. /\ UNCHANGED <<nextSeq, via, socket, sockets, toExtension, toHub, extensionVars>>
      /\ expected' \subseteq expected
  BY DEF Ask, NoTarget, RefuseForShutdown, RefuseTransfer, ProxyTimeout, TransferTimeout, BrowserCloses, ClientCloses,
         BeginShutdown, Dispose, FailTransfers, Drop, Remaining, linkVars, registryVars
<1>2. shuttingDown => shuttingDown'
  BY DEF Ask, NoTarget, RefuseForShutdown, RefuseTransfer, ProxyTimeout, TransferTimeout, BrowserCloses, ClientCloses,
         BeginShutdown, Dispose
<1>3. faults' \in 0..MaxFaults
  <2>1. faults \in 0..MaxFaults
    BY DEF MInv, ExtensionTypeOK
  <2>2. CASE ClientCloses(SessionOf[r])
    BY <2>1, <2>2, ProxyAssumption DEF ClientCloses, Fault
  <2>3. CASE ~ ClientCloses(SessionOf[r])
    BY <2>1, <2>3 DEF Ask, NoTarget, RefuseForShutdown, RefuseTransfer, ProxyTimeout, TransferTimeout, BrowserCloses,
                      BeginShutdown, Dispose
  <2> QED
    BY <2>2, <2>3
<1>4. \A x \in Requests :
         phase'[x] \in {"unasked", "resolving"} => phase[x] \in {"unasked", "resolving"}
  <2>1. CASE \E R : phase' = Concluded(R)
    BY <2>1, ConcludedOpensNothing
  <2>2. CASE phase[r] = "unasked" /\ phase' = [phase EXCEPT ![r] = "resolving"]
    BY <2>2 DEF IInv, HubTypeOK
  <2>3. CASE phase' = [phase EXCEPT ![r] = "unheard"]
    BY <2>3 DEF IInv, HubTypeOK
  <2> QED
    BY <2>1, <2>2, <2>3 DEF Ask, NoTarget, RefuseForShutdown, RefuseTransfer, ProxyTimeout, TransferTimeout, BrowserCloses,
                      ClientCloses, BeginShutdown, Dispose, FailTransfers, Conclude
<1> QED
  BY <1>1, <1>2, <1>3, <1>4, QuietKeeps

LEMMA ForwardKeepsStreams ==
    ASSUME IInv, MInv, NEW r \in Requests, NEW k \in Sockets, Forward(r, k)
    PROVE  MInv'
<1>1. /\ UNCHANGED <<nextSeq, socket, sockets, shuttingDown, toHub, extensionVars, faults>>
      /\ expected' \subseteq expected \cup ({r} \cap Fetches)
      /\ phase' = [phase EXCEPT ![r] = "pending"] /\ via' = [via EXCEPT ![r] = k]
      /\ phase[r] = "resolving" /\ job[r] = "none"
  BY DEF Forward, Expect, registryVars, linkVars, MInv, BegunOnce
<1>2. toExtension' = toExtension \/ toExtension' = Append(toExtension, RequestMsg(r))
  BY DEF Forward
<1>3. RequestMsg(r) \in Messages /\ RequestMsg(r).kind = "request" /\ RequestMsg(r).of = r
  BY RegistryAssumption DEF RequestMsg, Messages
<1>4. ExtensionTypeOK'
  <2>1. toExtension' \in Seq(Messages)
    BY <1>2, <1>3, AppendAt DEF MInv, ExtensionTypeOK
  <2> QED
    BY <1>1, <2>1 DEF MInv, ExtensionTypeOK, extensionVars
<1>5. InStep'
  <2>1. ASSUME NEW t \in Fetches
        PROVE  Acknowledges(toExtension', t, acked[t], nextSeq[t])
    <3>1. acked[t] \in Nat /\ nextSeq[t] \in Nat /\ acked[t] <= nextSeq[t]
      BY DEF MInv, ExtensionTypeOK, InStep
    <3>2. Acknowledges(toExtension, t, acked[t], nextSeq[t]) /\ toExtension \in Seq(Messages)
      BY DEF MInv, ExtensionTypeOK, InStep
    <3>3. CASE toExtension' = Append(toExtension, RequestMsg(r))
      <4>1. PICK q, p, m, low, high :
               /\ q = toExtension /\ p = toExtension' /\ m = RequestMsg(r)
               /\ low = acked[t] /\ high = nextSeq[t]
        OBVIOUS
      <4>2. m \in Messages /\ m.kind # "ack" /\ p = Append(q, m)
        BY <1>3, <3>3, <4>1
      <4>3. Acknowledges(p, t, low, high)
        BY <3>1, <3>2, <4>1, <4>2, AcknowledgesAppended
      <4> QED
        BY <4>1, <4>3
    <3> QED
      BY <1>2, <3>2, <3>3
  <2> QED
    BY <1>1, <2>1 DEF MInv, InStep, extensionVars
<1>6. BegunOnce'
  <2>1. toExtension \in Seq(Messages)
    BY DEF MInv, ExtensionTypeOK
  <2>2. \A i \in DOMAIN toExtension : toExtension[i].kind = "request" => toExtension[i].of # r
    BY <1>1 DEF MInv, BegunOnce
  <2>3. SentOnce(toExtension')
    <3>1. SentOnce(toExtension)
      BY DEF MInv, BegunOnce
    <3>2. SentOnce(Append(toExtension, RequestMsg(r)))
      BY <1>3, <2>1, <2>2, <3>1, SentOnceKept
    <3> QED
      BY <1>2, <3>1, <3>2
  <2>4. ASSUME NEW i \in DOMAIN toExtension', toExtension'[i].kind = "request"
        PROVE  job[toExtension'[i].of] = "none" /\ phase'[toExtension'[i].of] \notin {"unasked", "resolving"}
    <3>1. CASE i \in DOMAIN toExtension /\ toExtension'[i] = toExtension[i]
      <4>1. toExtension[i].of \in Requests
        BY <2>1, <3>1, MessageAt
      <4> QED
        BY <1>1, <2>4, <3>1, <4>1 DEF MInv, BegunOnce, IInv, HubTypeOK
    <3>2. CASE toExtension'[i] = RequestMsg(r)
      BY <1>1, <3>2 DEF RequestMsg, IInv, HubTypeOK
    <3>3. CASE toExtension' = Append(toExtension, RequestMsg(r))
      <4>1. /\ DOMAIN toExtension = 1..Len(toExtension) /\ Len(toExtension) \in Nat
            /\ DOMAIN toExtension' = 1..(Len(toExtension) + 1)
            /\ \A j \in DOMAIN toExtension : toExtension'[j] = toExtension[j]
            /\ toExtension'[Len(toExtension) + 1] = RequestMsg(r)
        BY <1>3, <2>1, <3>3, AppendAt
      <4>2. i \in DOMAIN toExtension \/ i = Len(toExtension) + 1
        BY <4>1
      <4> QED
        BY <3>1, <3>2, <4>1, <4>2
    <3> QED
      BY <1>2, <3>1, <3>3
  <2>5. \A x \in Requests : phase'[x] \in {"unasked", "resolving"} => phase[x] \in {"unasked", "resolving"}
    BY <1>1 DEF IInv, HubTypeOK
  <2> QED
    BY <1>1, <2>3, <2>4, <2>5 DEF MInv, BegunOnce, extensionVars
<1>7. Streams'
  <2>1. ASSUME r \in Fetches
        PROVE  Stream(toHub, r, nextSeq[r], sent[r])
    <3>1. sent[r] = 0 /\ nextSeq[r] = 0
      BY <1>1, <2>1 DEF MInv, BegunOnce, InStep, ExtensionTypeOK
    <3>2. Between(toHub, Chunks(toHub, r), 0, 0)
      BY <2>1, <3>1 DEF MInv, InStep
    <3>3. Chunks(toHub, r) = {}
      <4>1. \A i \in Chunks(toHub, r) : toHub[i].seq \in Nat
        BY MessageAt DEF Chunks, MInv, ExtensionTypeOK
      <4> QED
        BY <3>2, <4>1 DEF Between
    <3> QED
      BY <3>1, <3>3 DEF Stream, InOrder, Between, Complete
  <2>2. ASSUME NEW t \in expected, t # r, via'[t] = socket, ~ shuttingDown
        PROVE  Stream(toHub, t, nextSeq[t], sent[t])
    BY <1>1, <2>2 DEF MInv, Streams, IInv, HubTypeOK
  <2>3. shuttingDown => shuttingDown'
    BY <1>1
  <2>4. ASSUME NEW t \in expected', via'[t] = socket, ~ shuttingDown'
        PROVE  Stream(toHub, t, nextSeq[t], sent[t])
    <3>1. t \in expected \/ (t = r /\ r \in Fetches)
      BY <1>1
    <3>2. CASE t # r
      BY <2>2, <2>3, <2>4, <3>1, <3>2
    <3>3. CASE t = r
      BY <2>1, <3>1, <3>3, RegistryAssumption DEF IInv, HubTypeOK
    <3> QED
      BY <3>2, <3>3
  <2>5. UNCHANGED <<nextSeq, socket, toHub, sent>>
    BY <1>1 DEF extensionVars
  <2> QED
    BY <2>4, <2>5 DEF Streams
<1> QED
  BY <1>4, <1>5, <1>6, <1>7 DEF MInv

\* The numbers of the chunks in q stay below what has been sent.
LEMMA BoundTaken ==
    ASSUME NEW q \in Seq(Messages), q # <<>>, NEW t, NEW high, Between(q, Chunks(q, t), 0, high)
    PROVE  /\ Between(Tail(q), Chunks(Tail(q), t), 0, high)
           /\ Head(q).kind = "chunk" /\ Head(q).of = t => Head(q).seq < high
<1>1. PICK p : p = Tail(q)
  OBVIOUS
<1>2. /\ \A i \in Chunks(p, t) : i + 1 \in Chunks(q, t) /\ p[i] = q[i + 1]
      /\ Head(q).kind = "chunk" /\ Head(q).of = t => 1 \in Chunks(q, t)
      /\ q[1] = Head(q)
  BY <1>1, TailAt, MessageAt DEF Chunks
<1> QED
  BY <1>1, <1>2 DEF Between

LEMMA BoundAppended ==
    ASSUME NEW q \in Seq(Messages), NEW m \in Messages, NEW p, p = Append(q, m),
           NEW t, NEW high \in Nat, Between(q, Chunks(q, t), 0, high)
    PROVE  /\ ~(m.kind = "chunk" /\ m.of = t) => Between(p, Chunks(p, t), 0, high)
           /\ m.kind = "chunk" /\ m.of = t /\ m.seq = high => Between(p, Chunks(p, t), 0, high + 1)
<1>1. PICK C, l : C = Chunks(q, t) /\ l = Len(q) + 1
  OBVIOUS
<1>2. /\ C \in SUBSET Nat /\ l \in Nat /\ p[l] = m
      /\ \A i \in C : p[i] = q[i] /\ q[i].seq \in Nat
  BY <1>1, AppendAt, MessageAt DEF Chunks
<1>3. Between(q, C, 0, high)
  BY <1>1
<1>4. ASSUME ~(m.kind = "chunk" /\ m.of = t)
      PROVE  Between(p, Chunks(p, t), 0, high)
  <2>1. Chunks(p, t) = C
    BY <1>1, <1>4, ChunksAppended
  <2> QED
    BY <1>2, <1>3, <2>1 DEF Between
<1>5. ASSUME m.kind = "chunk" /\ m.of = t /\ m.seq = high
      PROVE  Between(p, Chunks(p, t), 0, high + 1)
  <2>1. Chunks(p, t) = C \cup {l}
    BY <1>1, <1>5, ChunksAppended
  <2>2. Between(p, C \cup {l}, 0, high + 1)
    <3>1. 0 <= high /\ p[l].seq = high
      BY <1>2, <1>5
    <3>2. \A i \in C : p[i] = q[i] /\ q[i].seq \in Nat
      BY <1>2
    <3> QED
      BY <1>2, <1>3, <3>1, <3>2, BetweenAppended
  <2> QED
    BY <2>1, <2>2
<1> QED
  BY <1>4, <1>5

\* The hub reads from the socket the extension has, or from one that is dead.
LEMMA ReadsOne ==
    ASSUME NEW k, NEW kind, Reads(k, kind)
    PROVE  \/ /\ k = socket /\ Unread(k) = toHub /\ toHub # <<>> /\ Head(toHub).kind = kind
              /\ toHub' = Tail(toHub) /\ late' = late
           \/ /\ k # socket /\ Unread(k) = late[k] /\ late[k] # <<>> /\ Head(late[k]).kind = kind
              /\ late' = [late EXCEPT ![k] = Tail(@)] /\ toHub' = toHub
  BY DEF Reads, Unread

LEMMA ReceiveResponseKeepsStreams ==
    ASSUME IInv, MInv, NEW k \in Sockets, ReceiveResponse(k)
    PROVE  MInv'
<1>1. /\ UNCHANGED <<nextSeq, via, socket, sockets, shuttingDown, toExtension, extensionVars, faults>>
      /\ expected' \subseteq expected
      /\ \/ toHub # <<>> /\ Head(toHub).kind = "response" /\ toHub' = Tail(toHub)
         \/ toHub' = toHub
  BY ReadsOne DEF ReceiveResponse, FailTransfers, Drop, Remaining, registryVars
<1>2. \A x \in Requests :
         phase'[x] \in {"unasked", "resolving"} => phase[x] \in {"unasked", "resolving"}
  <2>1. CASE phase' = phase
    BY <2>1
  <2>2. CASE \E R : phase' = Concluded(R)
    BY <2>2, ConcludedOpensNothing
  <2> QED
    BY <2>1, <2>2 DEF ReceiveResponse, FailTransfers, Conclude
<1>3. CASE toHub' = toHub
  <2>1. faults' \in 0..MaxFaults
    BY <1>1 DEF MInv, ExtensionTypeOK
  <2> QED
    BY <1>1, <1>2, <1>3, <2>1, QuietKeeps
<1>4. CASE toHub # <<>> /\ Head(toHub).kind = "response" /\ toHub' = Tail(toHub)
  <2>1. toHub \in Seq(Messages)
    BY DEF MInv, ExtensionTypeOK
  <2>2. toHub' \in Seq(Messages)
    BY <1>4, <2>1, TailAt
  <2>3. ExtensionTypeOK'
    BY <1>1, <2>2 DEF MInv, ExtensionTypeOK, extensionVars
  <2>4. InStep'
    <3>1. \A t \in Fetches : Between(toHub', Chunks(toHub', t), 0, sent[t])
      BY <1>4, <2>1, BoundTaken DEF MInv, InStep
    <3> QED
      BY <1>1, <3>1 DEF MInv, InStep, extensionVars
  <2>5. BegunOnce'
    <3>1. \A i \in DOMAIN toExtension : toExtension[i].of \in Requests
      BY MessageAt DEF MInv, ExtensionTypeOK
    <3> QED
      BY <1>1, <1>2, <3>1, RegistryAssumption DEF MInv, BegunOnce, extensionVars
  <2>6. Streams'
    <3>1. shuttingDown => shuttingDown'
      BY <1>1
    <3>2. ASSUME NEW t \in expected, via[t] = socket, ~ shuttingDown
          PROVE  Stream(toHub', t, nextSeq[t], sent[t])
      <4>1. nextSeq[t] \in Nat /\ sent[t] \in Nat /\ Stream(toHub, t, nextSeq[t], sent[t])
        BY <3>2, RegistryAssumption DEF MInv, ExtensionTypeOK, Streams, IInv, HubTypeOK
      <4> QED
        BY <1>4, <2>1, <4>1, StreamTaken
    <3>3. UNCHANGED <<nextSeq, via, socket, sent>>
      BY <1>1 DEF extensionVars
    <3> QED
      BY <1>1, <3>1, <3>2, <3>3 DEF Streams
  <2> QED
    BY <2>3, <2>4, <2>5, <2>6 DEF MInv
<1> QED
  BY <1>1, <1>3, <1>4

\* An acknowledgement of t on its way: the next in the order, or one that says no.
LEMMA AckSent ==
    ASSUME NEW q \in Seq(Messages), NEW m \in Messages, m.kind = "ack", NEW p, p = Append(q, m),
           NEW t, NEW low \in Nat, NEW high \in Nat, low <= high, Acknowledges(q, t, low, high)
    PROVE  /\ m.of # t \/ m.ok = FALSE => Acknowledges(p, t, low, high)
           /\ m.of = t /\ m.ok = TRUE /\ m.seq = high => Acknowledges(p, t, low, high + 1)
  BY AcknowledgesAppended

LEMMA ReceiveChunkKeepsStreams ==
    ASSUME IInv, MInv, ReceiveChunk(socket)
    PROVE  MInv'
<1>1. PICK t, seq : t = Head(toHub).of /\ seq = Head(toHub).seq
  OBVIOUS
<1>2. /\ UNCHANGED <<via, socket, sockets, shuttingDown, extensionVars>>
      /\ toHub # <<>> /\ Head(toHub).kind = "chunk" /\ toHub' = Tail(toHub)
  BY ReadsOne DEF ReceiveChunk
<1>3. /\ expected' \subseteq expected /\ faults' \in 0..MaxFaults
      /\ phase' = phase \/ \E R : phase' = Concluded(R)
  <2>1. faults \in 0..MaxFaults
    BY DEF MInv, ExtensionTypeOK
  <2>2. faults' = faults \/ Fault
    BY DEF ReceiveChunk
  <2>3. faults' \in 0..MaxFaults
    BY <2>1, <2>2, ProxyAssumption DEF Fault
  <2> QED
    BY <2>3 DEF ReceiveChunk, FailTransfers, Drop, DropWhole, Land, WriteChunk, Remaining, Conclude,
                registryVars
\* The chunk is not handled, turned down, or written.
<1>4. \/ shuttingDown /\ UNCHANGED <<nextSeq, toExtension>>
      \/ /\ toExtension' = Append(toExtension, AckMsg(t, seq, FALSE))
         /\ t \notin expected' /\ UNCHANGED nextSeq
      \/ /\ toExtension' = Append(toExtension, AckMsg(t, seq, TRUE))
         /\ t \in expected /\ via[t] = socket /\ ~ shuttingDown /\ seq = nextSeq[t]
         /\ nextSeq' = [nextSeq EXCEPT ![t] = @ + 1]
  BY <1>1 DEF ReceiveChunk, Unread, Verdict, FailTransfers, Drop, DropWhole, Ingest, Land, WriteChunk,
              Remaining, registryVars
<1>5. /\ toHub \in Seq(Messages) /\ toExtension \in Seq(Messages)
      /\ toHub' \in Seq(Messages)
      /\ t \in Requests /\ seq \in 0..TotalChunks
  <2>1. toHub \in Seq(Messages) /\ toExtension \in Seq(Messages)
    BY DEF MInv, ExtensionTypeOK
  <2>2. toHub' \in Seq(Messages) /\ Head(toHub) \in Messages
    BY <1>2, <2>1, TailAt
  <2> QED
    BY <1>1, <2>1, <2>2 DEF Messages
<1>6. \A ok \in BOOLEAN :
         /\ AckMsg(t, seq, ok) \in Messages
         /\ AckMsg(t, seq, ok).kind = "ack" /\ AckMsg(t, seq, ok).of = t
         /\ AckMsg(t, seq, ok).seq = seq /\ AckMsg(t, seq, ok).ok = ok
  BY <1>5 DEF AckMsg, Messages
<1>7. toExtension' \in Seq(Messages)
  <2>1. AckMsg(t, seq, TRUE) \in Messages /\ AckMsg(t, seq, FALSE) \in Messages
    BY <1>6
  <2>2. toExtension' = toExtension \/ \E m \in Messages : toExtension' = Append(toExtension, m)
    BY <1>4, <2>1
  <2> QED
    BY <1>5, <2>2, AppendAt
<1>8. ExtensionTypeOK'
  <2>1. nextSeq' \in [Fetches -> Nat]
    <3>1. nextSeq \in [Fetches -> Nat]
      BY DEF MInv, ExtensionTypeOK
    <3>2. nextSeq' = nextSeq \/ nextSeq' = [nextSeq EXCEPT ![t] = @ + 1]
      BY <1>4
    <3> QED
      BY <3>1, <3>2
  <2> QED
    BY <1>2, <1>3, <1>5, <1>7, <2>1 DEF MInv, ExtensionTypeOK, extensionVars
<1>9. InStep'
  <2>1. \A x \in Fetches : Between(toHub', Chunks(toHub', x), 0, sent[x])
    BY <1>2, <1>5, BoundTaken DEF MInv, InStep
  <2>2. t \in Fetches => seq < sent[t]
    BY <1>1, <1>2, <1>5, BoundTaken DEF MInv, InStep
  <2>3. ASSUME NEW x \in Fetches
        PROVE  /\ acked[x] <= nextSeq'[x] /\ nextSeq'[x] <= sent[x]
               /\ Acknowledges(toExtension', x, acked[x], nextSeq'[x])
    <3>1. /\ acked[x] \in Nat /\ nextSeq[x] \in Nat /\ sent[x] \in Nat
          /\ acked[x] <= nextSeq[x] /\ nextSeq[x] <= sent[x]
          /\ Acknowledges(toExtension, x, acked[x], nextSeq[x])
      BY DEF MInv, ExtensionTypeOK, InStep
    <3>2. PICK q, p, low, high :
             q = toExtension /\ p = toExtension' /\ low = acked[x] /\ high = nextSeq[x]
      OBVIOUS
    <3>3. q \in Seq(Messages) /\ low \in Nat /\ high \in Nat /\ low <= high /\ Acknowledges(q, x, low, high)
      BY <1>5, <3>1, <3>2
    <3>4. CASE UNCHANGED <<nextSeq, toExtension>>
      BY <3>1, <3>4
    <3>5. CASE toExtension' = Append(toExtension, AckMsg(t, seq, FALSE)) /\ UNCHANGED nextSeq
      <4>1. PICK m : m = AckMsg(t, seq, FALSE)
        OBVIOUS
      <4>2. m \in Messages /\ m.kind = "ack" /\ m.ok = FALSE /\ p = Append(q, m)
        BY <1>6, <3>2, <3>5, <4>1
      <4>3. Acknowledges(p, x, low, high)
        BY <3>3, <4>2, AckSent
      <4> QED
        BY <3>1, <3>2, <3>5, <4>3
    <3>6. CASE /\ toExtension' = Append(toExtension, AckMsg(t, seq, TRUE))
               /\ t \in expected /\ seq = nextSeq[t]
               /\ nextSeq' = [nextSeq EXCEPT ![t] = @ + 1]
      <4>1. PICK m : m = AckMsg(t, seq, TRUE)
        OBVIOUS
      <4>2. m \in Messages /\ m.kind = "ack" /\ m.of = t /\ m.ok = TRUE /\ m.seq = seq /\ p = Append(q, m)
        BY <1>6, <3>2, <3>6, <4>1
      <4>3. nextSeq \in [Fetches -> Nat]
        BY DEF MInv, ExtensionTypeOK
      <4>4. CASE x = t
        <5>1. m.seq = high /\ nextSeq'[x] = high + 1 /\ nextSeq[x] < sent[x]
          BY <2>2, <3>2, <3>6, <4>2, <4>3, <4>4
        <5>2. Acknowledges(p, x, low, high + 1)
          BY <3>3, <4>2, <4>4, <5>1, AckSent
        <5> QED
          BY <3>1, <3>2, <5>1, <5>2
      <4>5. CASE x # t
        <5>1. nextSeq'[x] = nextSeq[x]
          BY <3>6, <4>3, <4>5
        <5>2. Acknowledges(p, x, low, high)
          BY <3>3, <4>2, <4>5, AckSent
        <5> QED
          BY <3>1, <3>2, <5>1, <5>2
      <4> QED
        BY <4>4, <4>5
    <3> QED
      BY <1>4, <3>4, <3>5, <3>6
  <2> QED
    BY <1>2, <2>1, <2>3 DEF InStep, extensionVars
<1>10. BegunOnce'
  <2>1. \A x \in Requests :
           phase'[x] \in {"unasked", "resolving"} => phase[x] \in {"unasked", "resolving"}
    <3>1. CASE phase' = phase
      BY <3>1
    <3>2. CASE \E R : phase' = Concluded(R)
      BY <3>2, ConcludedOpensNothing
    <3> QED
      BY <1>3, <3>1, <3>2
  <2>2. CASE toExtension' = toExtension
    <3>1. \A i \in DOMAIN toExtension : toExtension[i].of \in Requests
      BY <1>5, MessageAt
    <3> QED
      BY <1>2, <2>1, <2>2, <3>1, RegistryAssumption DEF MInv, BegunOnce, extensionVars
  <2>3. ASSUME NEW m \in Messages, m.kind = "ack", toExtension' = Append(toExtension, m)
        PROVE  BegunOnce'
    <3>1. SentOnce(toExtension')
      BY <1>5, <2>3, SentOnceKept DEF MInv, BegunOnce
    <3>2. ASSUME NEW i \in DOMAIN toExtension', toExtension'[i].kind = "request"
          PROVE  /\ i \in DOMAIN toExtension /\ toExtension'[i] = toExtension[i]
                 /\ toExtension[i].of \in Requests
      <4>1. /\ DOMAIN toExtension = 1..Len(toExtension) /\ Len(toExtension) \in Nat
            /\ DOMAIN toExtension' = 1..(Len(toExtension) + 1)
            /\ \A j \in DOMAIN toExtension : toExtension'[j] = toExtension[j]
            /\ toExtension'[Len(toExtension) + 1] = m
        BY <1>5, <2>3, AppendAt
      <4>2. i # Len(toExtension) + 1
        BY <2>3, <3>2, <4>1
      <4>3. i \in DOMAIN toExtension
        BY <4>1, <4>2
      <4> QED
        BY <1>5, <4>1, <4>3, MessageAt
    <3> QED
      BY <1>2, <2>1, <3>1, <3>2, RegistryAssumption DEF MInv, BegunOnce, extensionVars
  <2> QED
    BY <1>4, <1>6, <2>2, <2>3
<1>11. Streams'
  <2>1. ASSUME NEW x \in expected', via[x] = socket, ~ shuttingDown
        PROVE  Stream(toHub', x, nextSeq'[x], sent[x])
    <3>1. x \in expected /\ x \in Fetches
      BY <1>3 DEF IInv, HubTypeOK
    <3>2. /\ nextSeq[x] \in Nat /\ sent[x] \in Nat /\ nextSeq \in [Fetches -> Nat]
          /\ Stream(toHub, x, nextSeq[x], sent[x])
      BY <2>1, <3>1 DEF MInv, ExtensionTypeOK, Streams
    <3>3. CASE t = x
      <4>1. seq = nextSeq[x] /\ nextSeq'[x] = nextSeq[x] + 1
        BY <1>4, <2>1, <3>1, <3>2, <3>3
      <4> QED
        BY <1>1, <1>2, <1>5, <3>2, <3>3, <4>1, StreamTaken
    <3>4. CASE t # x
      <4>1. nextSeq'[x] = nextSeq[x]
        BY <1>4, <3>1, <3>2, <3>4
      <4> QED
        BY <1>1, <1>2, <1>5, <3>2, <3>4, <4>1, StreamTaken
    <3> QED
      BY <3>3, <3>4
  <2>2. UNCHANGED <<via, socket, sent>> /\ (shuttingDown => shuttingDown')
    BY <1>2 DEF extensionVars
  <2> QED
    BY <2>1, <2>2 DEF Streams
<1> QED
  BY <1>8, <1>9, <1>10, <1>11 DEF MInv

\* A chunk that a dead socket still had: nothing is acknowledged, and no other file is touched.
LEMMA LateChunkKeepsStreams ==
    ASSUME IInv, MInv, LateSent, NEW k \in Sockets, k # socket, ReceiveChunk(k)
    PROVE  MInv'
<1>1. PICK t, seq : t = Head(late[k]).of /\ seq = Head(late[k]).seq
  OBVIOUS
<1>2. /\ UNCHANGED <<via, socket, sockets, shuttingDown, extensionVars, toHub, toExtension>>
      /\ late[k] # <<>> /\ Head(late[k]).kind = "chunk"
  <2>1. toHub' = toHub /\ late[k] # <<>> /\ Head(late[k]).kind = "chunk"
    BY ReadsOne DEF ReceiveChunk
  <2> QED
    BY <2>1 DEF ReceiveChunk
<1>3. /\ expected' \subseteq expected /\ faults' \in 0..MaxFaults
      /\ phase' = phase \/ \E R : phase' = Concluded(R)
  <2>1. faults \in 0..MaxFaults
    BY DEF MInv, ExtensionTypeOK
  <2>2. faults' = faults \/ Fault
    BY DEF ReceiveChunk
  <2>3. faults' \in 0..MaxFaults
    BY <2>1, <2>2, ProxyAssumption DEF Fault
  <2> QED
    BY <2>3 DEF ReceiveChunk, FailTransfers, Drop, DropWhole, Land, WriteChunk, Remaining, Conclude,
                registryVars
<1>4. \/ nextSeq' = nextSeq
      \/ /\ t \in expected /\ via[t] = k /\ seq = nextSeq[t]
         /\ nextSeq' = [nextSeq EXCEPT ![t] = @ + 1]
  BY <1>1 DEF ReceiveChunk, Unread, Verdict, FailTransfers, Drop, DropWhole, Ingest, Land, WriteChunk,
              Remaining, registryVars
<1>5. \A x \in Requests :
         phase'[x] \in {"unasked", "resolving"} => phase[x] \in {"unasked", "resolving"}
  BY <1>3, ConcludedOpensNothing
<1>6. CASE nextSeq' = nextSeq
  BY <1>2, <1>3, <1>5, <1>6, QuietKeeps
<1>7. CASE /\ t \in expected /\ via[t] = k /\ seq = nextSeq[t]
           /\ nextSeq' = [nextSeq EXCEPT ![t] = @ + 1]
  <2>1. /\ t \in Fetches /\ nextSeq \in [Fetches -> Nat] /\ sent \in [Fetches -> 0..TotalChunks]
        /\ nextSeq'[t] = nextSeq[t] + 1 /\ \A x \in Fetches : x # t => nextSeq'[x] = nextSeq[x]
    BY <1>7 DEF MInv, ExtensionTypeOK, IInv, HubTypeOK
  <2>2. nextSeq[t] < sent[t]
    BY <1>1, <1>2, <1>7, <2>1, BoundTaken DEF LateSent
  <2>3. ExtensionTypeOK'
    BY <1>2, <1>3, <1>7, <2>1 DEF MInv, ExtensionTypeOK, extensionVars
  <2>4. ASSUME NEW x \in Fetches
        PROVE  /\ acked[x] <= nextSeq'[x] /\ nextSeq'[x] <= sent[x]
               /\ Acknowledges(toExtension, x, acked[x], nextSeq'[x])
    <3>1. /\ acked[x] \in Nat /\ nextSeq[x] \in Nat /\ sent[x] \in Nat
          /\ acked[x] <= nextSeq[x] /\ nextSeq[x] <= sent[x]
          /\ Acknowledges(toExtension, x, acked[x], nextSeq[x])
      BY <2>1 DEF MInv, ExtensionTypeOK, InStep
    <3>2. \A i \in Acks(toExtension, x) : toExtension[i].seq \in Nat
      BY MessageAt DEF Acks, MInv, ExtensionTypeOK
    <3>3. Acknowledges(toExtension, x, acked[x], nextSeq[x] + 1)
      BY <3>1, <3>2 DEF Acknowledges, Between
    <3> QED
      BY <2>1, <2>2, <3>1, <3>3
  <2>5. InStep'
    BY <1>2, <2>4 DEF MInv, InStep, extensionVars
  <2>6. BegunOnce'
    <3>1. \A i \in DOMAIN toExtension : toExtension[i].of \in Requests
      BY MessageAt DEF MInv, ExtensionTypeOK
    <3> QED
      BY <1>2, <1>5, <3>1, RegistryAssumption DEF MInv, BegunOnce, extensionVars
  <2>7. Streams'
    <3>1. ASSUME NEW x \in expected', via[x] = socket, ~ shuttingDown
          PROVE  Stream(toHub, x, nextSeq'[x], sent[x])
      <4>1. x \in expected /\ x \in Fetches /\ x # t
        BY <1>3, <1>7, <3>1 DEF IInv, HubTypeOK
      <4> QED
        BY <2>1, <3>1, <4>1 DEF MInv, Streams
    <3>2. UNCHANGED <<via, socket, sent, toHub>> /\ (shuttingDown => shuttingDown')
      BY <1>2 DEF extensionVars
    <3> QED
      BY <3>1, <3>2 DEF Streams
  <2> QED
    BY <2>3, <2>5, <2>6, <2>7 DEF MInv
<1> QED
  BY <1>4, <1>6, <1>7

-----------------------------------------------------------------------------
(* The steps of the extension *)

\* The extension gets on with its work, and sends at most answers.
LEMMA WorkKeeps ==
    ASSUME MInv, UNCHANGED <<expected, nextSeq, phase, via, shuttingDown, socket, sockets,
                             toExtension, sent, acked>>,
           toHub' \in Seq(Messages),
           \A t \in Fetches : /\ Chunks(toHub', t) = Chunks(toHub, t)
                              /\ \A i \in Chunks(toHub, t) : toHub'[i] = toHub[i],
           job' \in [Requests -> Jobs],
           \A r \in Requests : job'[r] = "none" <=> job[r] = "none",
           owed' \in SUBSET Requests, restarting' \in BOOLEAN, faults' \in 0..MaxFaults,
           expected \subseteq Fetches
    PROVE  MInv'
<1>1. ExtensionTypeOK'
  BY DEF MInv, ExtensionTypeOK
<1>2. InStep'
  <2>1. \A t \in Fetches : Between(toHub', Chunks(toHub', t), 0, sent[t])
    BY DEF MInv, InStep, Between
  <2> QED
    BY <2>1 DEF MInv, InStep
<1>3. BegunOnce'
  <2>1. \A i \in DOMAIN toExtension : toExtension[i].of \in Requests
    BY MessageAt DEF MInv, ExtensionTypeOK
  <2> QED
    BY <2>1, RegistryAssumption DEF MInv, BegunOnce
<1>4. Streams'
  <2>1. ASSUME NEW t \in expected, via[t] = socket, ~ shuttingDown
        PROVE  Stream(toHub', t, nextSeq[t], sent[t])
    <3>1. Stream(toHub, t, nextSeq[t], sent[t])
      BY <2>1 DEF MInv, Streams
    <3> QED
      BY <3>1 DEF Stream, InOrder, Between, Complete
  <2>2. shuttingDown => shuttingDown'
    OBVIOUS
  <2> QED
    BY <2>1, <2>2 DEF Streams
<1> QED
  BY <1>1, <1>2, <1>3, <1>4 DEF MInv

\* An answer on its way to the hub leaves the chunks where they are.
LEMMA AnswerSent ==
    ASSUME NEW q \in Seq(Messages), NEW m \in Messages, m.kind # "chunk"
    PROVE  /\ Append(q, m) \in Seq(Messages)
           /\ \A t : Chunks(Append(q, m), t) = Chunks(q, t)
           /\ \A t : \A i \in Chunks(q, t) : Append(q, m)[i] = q[i]
<1>1. PICK p : p = Append(q, m)
  OBVIOUS
<1>2. p \in Seq(Messages) /\ \A i \in DOMAIN q : p[i] = q[i]
  BY <1>1, AppendAt
<1>3. \A t : Chunks(p, t) = Chunks(q, t)
  BY <1>1, ChunksAppended
<1>4. \A t : \A i \in Chunks(q, t) : p[i] = q[i]
  BY <1>2 DEF Chunks
<1> QED
  BY <1>1, <1>2, <1>3, <1>4

LEMMA AnswersSent ==
    ASSUME NEW q \in Seq(Messages), NEW e \in Seq(Messages),
           \A i \in DOMAIN e : e[i].kind # "chunk"
    PROVE  /\ q \o e \in Seq(Messages)
           /\ \A t : Chunks(q \o e, t) = Chunks(q, t)
           /\ \A t : \A i \in Chunks(q, t) : (q \o e)[i] = q[i]
<1>1. PICK p : p = q \o e
  OBVIOUS
<1>2. /\ p \in Seq(Messages) /\ Len(q) \in Nat /\ Len(e) \in Nat
      /\ DOMAIN q = 1..Len(q) /\ DOMAIN e = 1..Len(e) /\ DOMAIN p = 1..(Len(q) + Len(e))
      /\ \A i \in DOMAIN q : p[i] = q[i]
      /\ \A i \in DOMAIN p : i > Len(q) => p[i] = e[i - Len(q)]
  BY <1>1
<1>3. ASSUME NEW i \in DOMAIN p, i \notin DOMAIN q
      PROVE  p[i].kind # "chunk"
  <2>1. i > Len(q) /\ i - Len(q) \in DOMAIN e
    BY <1>2, <1>3
  <2> QED
    BY <1>2, <2>1
<1>4. DOMAIN q \subseteq DOMAIN p
  BY <1>2
<1>5. \A t : Chunks(p, t) = Chunks(q, t)
  BY <1>2, <1>3, <1>4 DEF Chunks
<1>6. \A t : \A i \in Chunks(q, t) : p[i] = q[i]
  BY <1>2 DEF Chunks
<1> QED
  BY <1>1, <1>2, <1>5, <1>6

LEMMA ResponseIsMessage ==
    ASSUME NEW r \in Requests, NEW ok \in BOOLEAN
    PROVE  ResponseMsg(r, ok) \in Messages /\ ResponseMsg(r, ok).kind = "response"
  BY RegistryAssumption DEF ResponseMsg, Messages

LEMMA AnsweringKeeps ==
    ASSUME IInv, MInv, NEW r \in Requests,
           FinishWork(r) \/ (r \in Fetches /\ (FetchFails(r) \/ FetchDone(r)))
    PROVE  MInv'
<1>1. /\ UNCHANGED <<expected, nextSeq, phase, via, shuttingDown, socket, sockets, toExtension,
                     sent, acked, restarting, faults>>
      /\ \E b \in {"done", "failed"} : job' = [job EXCEPT ![r] = b]
      /\ job[r] # "none"
      /\ owed' \subseteq owed
  BY DEF FinishWork, FetchFails, FetchDone, registryVars, hubVars, linkVars
<1>2. toHub' = toHub \/ \E ok \in BOOLEAN : toHub' = Append(toHub, ResponseMsg(r, ok))
  <2>1. CASE FinishWork(r)
    BY <2>1 DEF FinishWork, Send
  <2>2. CASE FetchFails(r)
    BY <2>2 DEF FetchFails
  <2>3. CASE FetchDone(r)
    <3>1. \A c : c \in BOOLEAN /\ Send(ResponseMsg(r, c)) =>
                    toHub' = toHub \/ toHub' = Append(toHub, ResponseMsg(r, c))
      BY DEF Send
    <3>2. toHub' = toHub \/ Send(ResponseMsg(r, job[r] = "sending" /\ acked[r] = TotalChunks))
      BY <2>3 DEF FetchDone
    <3>3. (job[r] = "sending" /\ acked[r] = TotalChunks) \in BOOLEAN
      OBVIOUS
    <3> QED
      BY <3>1, <3>2, <3>3
  <2> QED
    BY <2>1, <2>2, <2>3
<1>3. /\ toHub' \in Seq(Messages)
      /\ \A t \in Fetches : /\ Chunks(toHub', t) = Chunks(toHub, t)
                            /\ \A i \in Chunks(toHub, t) : toHub'[i] = toHub[i]
  <2>1. toHub \in Seq(Messages)
    BY DEF MInv, ExtensionTypeOK
  <2>2. ASSUME NEW m \in Messages, m.kind # "chunk", toHub' = Append(toHub, m)
        PROVE  /\ toHub' \in Seq(Messages)
               /\ \A t \in Fetches : /\ Chunks(toHub', t) = Chunks(toHub, t)
                                     /\ \A i \in Chunks(toHub, t) : toHub'[i] = toHub[i]
    BY <2>1, <2>2, AnswerSent
  <2>3. CASE toHub' = toHub
    BY <2>1, <2>3
  <2>4. CASE \E ok \in BOOLEAN : toHub' = Append(toHub, ResponseMsg(r, ok))
    <3>1. PICK ok \in BOOLEAN : toHub' = Append(toHub, ResponseMsg(r, ok))
      BY <2>4
    <3>2. ResponseMsg(r, ok) \in Messages /\ ResponseMsg(r, ok).kind # "chunk"
      BY ResponseIsMessage
    <3> QED
      BY <2>2, <3>1, <3>2
  <2> QED
    BY <1>2, <2>3, <2>4
<1>4. /\ job' \in [Requests -> Jobs]
      /\ \A x \in Requests : job'[x] = "none" <=> job[x] = "none"
  BY <1>1 DEF MInv, ExtensionTypeOK, Jobs
<1>5. /\ owed' \in SUBSET Requests /\ restarting' \in BOOLEAN /\ faults' \in 0..MaxFaults
  BY <1>1 DEF MInv, ExtensionTypeOK
<1>6. expected \subseteq Fetches
  BY DEF IInv, HubTypeOK
<1> QED
  BY <1>1, <1>3, <1>4, <1>5, <1>6, WorkKeeps

\* The worker's work ends in errors, which are no chunks.
LEMMA ErrorsAreAnswers ==
    ASSUME MInv, WorkerStops
    PROVE  /\ toHub' \in Seq(Messages) /\ owed' \in SUBSET Requests
           /\ \A t \in Fetches : /\ Chunks(toHub', t) = Chunks(toHub, t)
                                 /\ \A i \in Chunks(toHub, t) : toHub'[i] = toHub[i]
<1>0. toHub \in Seq(Messages) /\ owed \in SUBSET Requests
  BY DEF MInv, ExtensionTypeOK
<1>1. CASE UNCHANGED <<owed, toHub>>
  BY <1>0, <1>1
<1>2. CASE socket # NoSocket
  <2>1. PICK errors \in [1..Cardinality(owed) -> owed] :
           toHub' = toHub \o [i \in DOMAIN errors |-> ResponseMsg(errors[i], FALSE)]
    BY <1>2 DEF WorkerStops
  <2>2. PICK e : e = [i \in DOMAIN errors |-> ResponseMsg(errors[i], FALSE)]
    OBVIOUS
  <2>3. Cardinality(owed) \in Nat
    BY <1>0, RegistryAssumption, FS_Subset, FS_CardinalityType
  <2>4. \A i \in 1..Cardinality(owed) : e[i] \in Messages /\ e[i].kind = "response"
    <3>1. \A i \in 1..Cardinality(owed) : errors[i] \in Requests /\ e[i] = ResponseMsg(errors[i], FALSE)
      BY <1>0, <2>1, <2>2
    <3> QED
      BY <3>1, ResponseIsMessage
  <2>5. DOMAIN e = 1..Cardinality(owed) /\ e = [i \in 1..Cardinality(owed) |-> e[i]]
    BY <2>1, <2>2
  <2>6. e \in Seq(Messages)
    BY <2>3, <2>4, <2>5
  <2>7. toHub' = toHub \o e /\ \A i \in DOMAIN e : e[i].kind # "chunk"
    BY <2>1, <2>2, <2>4, <2>5
  <2>8. owed' \in SUBSET Requests
    BY <1>2 DEF WorkerStops
  <2>9. /\ toHub \o e \in Seq(Messages)
        /\ \A t : Chunks(toHub \o e, t) = Chunks(toHub, t)
        /\ \A t : \A i \in Chunks(toHub, t) : (toHub \o e)[i] = toHub[i]
    BY <1>0, <2>6, <2>7, AnswersSent, Zenon
  <2> QED
    BY <2>7, <2>8, <2>9, Zenon
<1> QED
  BY <1>1, <1>2 DEF WorkerStops

LEMMA WorkerStopsKeeps ==
    ASSUME IInv, MInv, WorkerStops
    PROVE  MInv'
<1>1. /\ UNCHANGED <<expected, nextSeq, phase, via, shuttingDown, socket, sockets, toExtension,
                     sent, acked>>
      /\ restarting' \in BOOLEAN /\ Fault
      /\ job' = [r \in Requests |-> IF job[r] = "working" THEN "done" ELSE job[r]]
  BY DEF WorkerStops, registryVars, hubVars, linkVars
<1>2. toHub \in Seq(Messages) /\ owed \in SUBSET Requests /\ faults \in 0..MaxFaults
      /\ job \in [Requests -> Jobs]
  BY DEF MInv, ExtensionTypeOK
<1>3. /\ toHub' \in Seq(Messages) /\ owed' \in SUBSET Requests
      /\ \A t \in Fetches : /\ Chunks(toHub', t) = Chunks(toHub, t)
                            /\ \A i \in Chunks(toHub, t) : toHub'[i] = toHub[i]
  BY ErrorsAreAnswers
<1>4. faults' \in 0..MaxFaults
  BY <1>1, <1>2, ProxyAssumption DEF Fault
<1>5. /\ job' \in [Requests -> Jobs]
      /\ \A r \in Requests : job'[r] = "none" <=> job[r] = "none"
  BY <1>1, <1>2 DEF Jobs
<1>6. expected \subseteq Fetches
  BY DEF IInv, HubTypeOK
<1> QED
  BY <1>1, <1>3, <1>4, <1>5, <1>6, WorkKeeps

LEMMA SendChunkKeeps ==
    ASSUME IInv, MInv, NEW t \in Fetches, SendChunk(t)
    PROVE  MInv'
<1>1. /\ UNCHANGED <<expected, nextSeq, phase, via, shuttingDown, socket, sockets, toExtension,
                     acked, owed, restarting, faults>>
      /\ job[t] = "sending" /\ sent[t] < TotalChunks
  BY DEF SendChunk, HasWindow, registryVars, hubVars, linkVars
<1>2. /\ toHub \in Seq(Messages) /\ sent \in [Fetches -> 0..TotalChunks]
      /\ job \in [Requests -> Jobs] /\ expected \subseteq Fetches
  BY DEF MInv, ExtensionTypeOK, IInv, HubTypeOK
<1>3. CASE socket = NoSocket
  <2>1. toHub' = toHub /\ sent' = sent /\ job' = [job EXCEPT ![t] = "failed"]
    BY <1>3 DEF SendChunk, Send
  <2>2. /\ job' \in [Requests -> Jobs]
        /\ \A r \in Requests : job'[r] = "none" <=> job[r] = "none"
    BY <1>1, <1>2, <2>1 DEF Jobs
  <2>3. /\ owed' \in SUBSET Requests /\ restarting' \in BOOLEAN /\ faults' \in 0..MaxFaults
    BY <1>1 DEF MInv, ExtensionTypeOK
  <2> QED
    BY <1>1, <1>2, <2>1, <2>2, <2>3, WorkKeeps
<1>4. CASE socket # NoSocket
  <2>1. PICK m : m = ChunkMsg(t, sent[t])
    OBVIOUS
  <2>2. /\ toHub' = Append(toHub, m) /\ sent' = [sent EXCEPT ![t] = @ + 1] /\ job' = job
    BY <1>4, <2>1 DEF SendChunk, Send, SendCursor
  <2>3. m \in Messages /\ m.kind = "chunk" /\ m.of = t /\ m.seq = sent[t]
    <3>1. sent[t] \in 0..TotalChunks /\ t \in Requests
      BY <1>2, RegistryAssumption
    <3> QED
      BY <2>1, <3>1 DEF ChunkMsg, Messages
  <2>4. toHub' \in Seq(Messages)
    BY <1>2, <2>2, <2>3, AppendAt
  <2>5. /\ sent' \in [Fetches -> 0..TotalChunks] /\ sent'[t] = sent[t] + 1
        /\ \A x \in Fetches : x # t => sent'[x] = sent[x]
    BY <1>1, <1>2, <2>2, RegistryAssumption
  <2>6. ExtensionTypeOK'
    BY <1>1, <2>2, <2>4, <2>5 DEF MInv, ExtensionTypeOK
  <2>7. InStep'
    <3>1. ASSUME NEW x \in Fetches
          PROVE  /\ Between(toHub', Chunks(toHub', x), 0, sent'[x])
                 /\ nextSeq[x] <= sent'[x]
      <4>1. /\ sent[x] \in Nat /\ Between(toHub, Chunks(toHub, x), 0, sent[x])
            /\ nextSeq[x] \in Nat /\ nextSeq[x] <= sent[x]
        BY DEF MInv, InStep, ExtensionTypeOK
      <4>2. PICK q, p, high : q = toHub /\ p = toHub' /\ high = sent[x]
        OBVIOUS
      <4>3. q \in Seq(Messages) /\ p = Append(q, m) /\ high \in Nat /\ Between(q, Chunks(q, x), 0, high)
        BY <1>2, <2>2, <4>1, <4>2
      <4>4. CASE x = t
        <5>1. Between(p, Chunks(p, x), 0, high + 1)
          BY <2>3, <4>2, <4>3, <4>4, BoundAppended
        <5> QED
          BY <2>5, <4>1, <4>2, <4>4, <5>1
      <4>5. CASE x # t
        <5>1. Between(p, Chunks(p, x), 0, high)
          BY <2>3, <4>3, <4>5, BoundAppended
        <5> QED
          BY <2>5, <4>1, <4>2, <4>5, <5>1
      <4> QED
        BY <4>4, <4>5
    <3> QED
      BY <1>1, <3>1 DEF MInv, InStep
  <2>8. BegunOnce'
    <3>1. \A i \in DOMAIN toExtension : toExtension[i].of \in Requests
      BY MessageAt DEF MInv, ExtensionTypeOK
    <3> QED
      BY <1>1, <2>2, <2>5, <3>1, RegistryAssumption DEF MInv, BegunOnce
  <2>9. Streams'
    <3>1. ASSUME NEW x \in expected, via[x] = socket, ~ shuttingDown
          PROVE  Stream(toHub', x, nextSeq[x], sent'[x])
      <4>1. /\ x \in Fetches /\ sent[x] \in Nat /\ nextSeq[x] \in Nat /\ nextSeq[x] <= sent[x]
            /\ Stream(toHub, x, nextSeq[x], sent[x])
        BY <1>2, <3>1 DEF MInv, InStep, ExtensionTypeOK, Streams
      <4>2. PICK q, p, low, high : q = toHub /\ p = toHub' /\ low = nextSeq[x] /\ high = sent[x]
        OBVIOUS
      <4>3. /\ q \in Seq(Messages) /\ p = Append(q, m) /\ low \in Nat /\ high \in Nat /\ low <= high
            /\ Stream(q, x, low, high)
        BY <1>2, <2>2, <4>1, <4>2
      <4>4. CASE x = t
        <5>1. Stream(p, x, low, high + 1)
          BY <2>3, <4>2, <4>3, <4>4, StreamAppended
        <5> QED
          BY <2>5, <4>2, <4>4, <5>1
      <4>5. CASE x # t
        <5>1. Stream(p, x, low, high)
          BY <2>3, <4>3, <4>5, StreamAppended
        <5> QED
          BY <2>5, <4>1, <4>2, <4>5, <5>1
      <4> QED
        BY <4>4, <4>5
    <3>2. UNCHANGED <<expected, nextSeq, via, socket>> /\ (shuttingDown => shuttingDown')
      BY <1>1
    <3> QED
      BY <3>1, <3>2 DEF Streams
  <2> QED
    BY <2>6, <2>7, <2>8, <2>9 DEF MInv
<1> QED
  BY <1>3, <1>4

LEMMA ExtensionReceivesKeeps ==
    ASSUME IInv, MInv, ExtensionReceives
    PROVE  MInv'
<1>1. PICK m, r, q : m = Head(toExtension) /\ r = m.of /\ q = toExtension
  OBVIOUS
<1>2. /\ UNCHANGED <<expected, nextSeq, phase, via, shuttingDown, socket, sockets, toHub, sent,
                     restarting, faults>>
      /\ toExtension # <<>> /\ toExtension' = Tail(toExtension)
  BY DEF ExtensionReceives, registryVars, hubVars, linkVars
<1>3. \/ /\ m.kind = "request" /\ owed' = owed \cup {r} /\ acked' = acked
         /\ job' = [job EXCEPT ![r] = IF r \in Fetches THEN "sending" ELSE "working"]
      \/ /\ m.kind = "ack" /\ owed' = owed
         /\ acked' = acked \/ (m.ok = TRUE /\ acked' = [acked EXCEPT ![r] = @ + 1])
         /\ job' = job \/ (job[r] = "sending" /\ job' = [job EXCEPT ![r] = "failed"])
  BY <1>1 DEF ExtensionReceives
<1>4. /\ q \in Seq(Messages) /\ q # <<>> /\ m = Head(q) /\ m \in Messages
      /\ r \in Requests /\ Tail(q) \in Seq(Messages)
  <2>1. q \in Seq(Messages) /\ q # <<>>
    BY <1>1, <1>2 DEF MInv, ExtensionTypeOK
  <2>2. Tail(q) \in Seq(Messages) /\ Head(q) \in Messages
    BY <2>1, TailAt
  <2> QED
    BY <1>1, <2>1, <2>2 DEF Messages
<1>5. toExtension' = Tail(q)
  BY <1>1, <1>2
<1>6. ExtensionTypeOK'
  <2>1. /\ job \in [Requests -> Jobs] /\ acked \in [Fetches -> Nat] /\ owed \in SUBSET Requests
    BY DEF MInv, ExtensionTypeOK
  <2>2. job' \in [Requests -> Jobs]
    BY <1>3, <2>1 DEF Jobs
  <2>3. acked' \in [Fetches -> Nat]
    <3>1. acked' = acked \/ acked' = [acked EXCEPT ![r] = @ + 1]
      BY <1>3
    <3> QED
      BY <2>1, <3>1
  <2>4. owed' \in SUBSET Requests
    BY <1>3, <1>4, <2>1
  <2> QED
    BY <1>2, <1>4, <1>5, <2>2, <2>3, <2>4 DEF MInv, ExtensionTypeOK
<1>7. InStep'
  <2>1. ASSUME NEW t \in Fetches
        PROVE  acked'[t] <= nextSeq[t] /\ Acknowledges(Tail(q), t, acked'[t], nextSeq[t])
    <3>1. /\ acked[t] \in Nat /\ nextSeq[t] \in Nat /\ acked \in [Fetches -> Nat]
          /\ acked[t] <= nextSeq[t] /\ Acknowledges(q, t, acked[t], nextSeq[t])
      BY <1>1 DEF MInv, ExtensionTypeOK, InStep
    <3>2. /\ Acknowledges(Tail(q), t, acked[t], nextSeq[t])
          /\ m.kind = "ack" /\ m.of = t /\ m.ok = TRUE =>
                acked[t] < nextSeq[t] /\ Acknowledges(Tail(q), t, acked[t] + 1, nextSeq[t])
      BY <1>4, <3>1, AcknowledgesTaken
    <3>3. CASE acked'[t] = acked[t]
      BY <3>1, <3>2, <3>3
    <3>4. CASE /\ m.kind = "ack" /\ m.ok = TRUE /\ r = t /\ acked'[t] = acked[t] + 1
      BY <1>1, <3>1, <3>2, <3>4
    <3>5. \/ acked'[t] = acked[t]
          \/ m.kind = "ack" /\ m.ok = TRUE /\ r = t /\ acked'[t] = acked[t] + 1
      BY <1>3, <3>1
    <3> QED
      BY <3>3, <3>4, <3>5
  <2> QED
    BY <1>2, <1>5, <2>1 DEF MInv, InStep
<1>8. BegunOnce'
  <2>1. /\ job \in [Requests -> Jobs] /\ SentOnce(q)
        /\ \A i \in DOMAIN q : q[i].kind = "request" =>
              job[q[i].of] = "none" /\ phase[q[i].of] \notin {"unasked", "resolving"}
    BY <1>1 DEF MInv, BegunOnce, ExtensionTypeOK
  <2>2. /\ 1 \in DOMAIN q /\ q[1] = m
        /\ \A i \in DOMAIN Tail(q) : i \in Nat \ {0} /\ i + 1 \in DOMAIN q /\ Tail(q)[i] = q[i + 1]
    <3>1. PICK p : p = Tail(q)
      OBVIOUS
    <3>2. /\ 1 \in DOMAIN q /\ q[1] = m
          /\ \A i \in DOMAIN p : i \in Nat \ {0} /\ i + 1 \in DOMAIN q /\ p[i] = q[i + 1]
      BY <1>4, <3>1, TailAt
    <3> QED
      BY <3>1, <3>2
  <2>3. SentOnce(Tail(q))
    BY <1>4, <2>1, SentOnceKept
  <2>4. \A x \in Requests : job'[x] = job[x] \/ (x = r /\ job'[x] # "none")
    BY <1>3, <2>1
  \* A request that starts its work is pending or over.
  <2>5. job'[r] # job[r] => phase[r] \notin {"unasked", "resolving"}
    <3>1. CASE m.kind = "request"
      BY <1>1, <2>1, <2>2, <3>1
    <3>2. CASE m.kind = "ack"
      BY <1>3, <1>4, <3>2 DEF MInv, BegunOnce
    <3> QED
      BY <1>3, <3>1, <3>2
  <2>6. ASSUME NEW i \in DOMAIN Tail(q), Tail(q)[i].kind = "request"
        PROVE  job'[Tail(q)[i].of] = "none" /\ phase[Tail(q)[i].of] \notin {"unasked", "resolving"}
    <3>1. /\ i + 1 \in DOMAIN q /\ 1 < i + 1 /\ Tail(q)[i] = q[i + 1] /\ q[i + 1].kind = "request"
      BY <2>2, <2>6
    <3>2. q[i + 1].of \in Requests /\ job[q[i + 1].of] = "none"
          /\ phase[q[i + 1].of] \notin {"unasked", "resolving"}
      BY <1>4, <2>1, <3>1, MessageAt
    <3>3. CASE m.kind = "request"
      <4>1. q[i + 1].of # r
        BY <1>1, <2>1, <2>2, <3>1, <3>3 DEF SentOnce
      <4> QED
        BY <2>4, <3>1, <3>2, <4>1
    <3>4. CASE m.kind = "ack"
      <4>1. job'[q[i + 1].of] = "none"
        BY <1>3, <2>1, <3>2, <3>4
      <4> QED
        BY <3>1, <3>2, <4>1
    <3> QED
      BY <1>3, <3>3, <3>4
  <2>7. \A t \in Fetches : job'[t] = "none" => sent[t] = 0
    BY <2>4, RegistryAssumption DEF MInv, BegunOnce
  <2>8. \A x \in Requests : phase[x] \in {"unasked", "resolving"} => job'[x] = "none"
    BY <2>4, <2>5 DEF MInv, BegunOnce
  <2> QED
    BY <1>2, <1>5, <2>3, <2>6, <2>7, <2>8 DEF BegunOnce
<1>9. Streams'
  <2>1. shuttingDown => shuttingDown'
    BY <1>2
  <2> QED
    BY <1>2, <2>1 DEF MInv, Streams
<1> QED
  BY <1>6, <1>7, <1>8, <1>9 DEF MInv

\* The socket dies, or is replaced: what was under way is lost, and nothing expected took the
\* socket the extension has now.
LEMMA SocketKeeps ==
    ASSUME IInv, MInv, WorkerReturns \/ SocketDies \/ Connect
    PROVE  MInv'
<1>1. /\ UNCHANGED <<expected, nextSeq, phase, via, shuttingDown, job, sent, acked, owed>>
      /\ restarting' \in BOOLEAN /\ faults' \in 0..MaxFaults
  <2>1. faults \in 0..MaxFaults /\ restarting \in BOOLEAN
    BY DEF MInv, ExtensionTypeOK
  <2>2. faults' = faults \/ Fault
    BY DEF WorkerReturns, SocketDies, Connect
  <2>3. faults' \in 0..MaxFaults
    BY <2>1, <2>2, ProxyAssumption DEF Fault
  <2> QED
    BY <2>1, <2>3 DEF WorkerReturns, SocketDies, Connect, registryVars, hubVars, extensionVars
<1>2. /\ sockets' <= MaxSockets
      /\ \/ UNCHANGED <<toExtension, toHub>>
         \/ toExtension' = <<>> /\ toHub' = <<>>
  BY ProxyAssumption DEF WorkerReturns, SocketDies, Connect, CutSocket, MInv, ExtensionTypeOK,
                         IInv, SocketsAreOrdered
<1>3. ExtensionTypeOK'
  <2>1. toExtension' \in Seq(Messages) /\ toHub' \in Seq(Messages)
    BY <1>2, NoMessages DEF MInv, ExtensionTypeOK
  <2> QED
    BY <1>1, <1>2, <2>1 DEF MInv, ExtensionTypeOK
<1>4. InStep'
  <2>1. CASE UNCHANGED <<toExtension, toHub>>
    BY <1>1, <2>1 DEF MInv, InStep
  <2>2. CASE toExtension' = <<>> /\ toHub' = <<>>
    BY <1>1, <2>2, NoMessages DEF MInv, InStep, Acknowledges, InOrder, Between
  <2> QED
    BY <1>2, <2>1, <2>2
<1>5. BegunOnce'
  <2>1. CASE UNCHANGED <<toExtension, toHub>>
    BY <1>1, <2>1 DEF MInv, BegunOnce
  <2>2. CASE toExtension' = <<>> /\ toHub' = <<>>
    BY <1>1, <2>2, NoMessages DEF MInv, BegunOnce
  <2> QED
    BY <1>2, <2>1, <2>2
<1>6. Streams'
  <2>1. socket' = NoSocket \/ socket' > sockets
    BY DEF WorkerReturns, SocketDies, Connect, CutSocket, IInv, SocketsAreOrdered
  <2>2. \A t \in expected : via[t] # socket'
    BY <2>1, RegistryAssumption DEF IInv, HubTypeOK, SocketsAreOrdered
  <2> QED
    BY <1>1, <2>2 DEF Streams
<1> QED
  BY <1>3, <1>4, <1>5, <1>6 DEF MInv

LEMMA Next_MInv == IInv /\ MInv /\ LateSent /\ [Next]_vars => MInv'
<1> SUFFICES ASSUME IInv, MInv, LateSent, [Next]_vars PROVE MInv'
  OBVIOUS
<1>1. CASE \E r \in Requests : Ask(r) \/ NoTarget(r) \/ RefuseForShutdown(r) \/ ProxyTimeout(r)
  BY <1>1, HubKeeps
<1>2. CASE \E t \in Fetches : RefuseTransfer(t) \/ TransferTimeout(t)
  BY <1>2, RegistryAssumption, HubKeeps
<1>3. CASE \E r \in Requests : ClientCloses(SessionOf[r])
  BY <1>3, HubKeeps
<1>4. CASE (\E k \in Sockets : BrowserCloses(k)) \/ BeginShutdown \/ Dispose
  BY <1>4, HubKeeps
<1>5. CASE \E r \in Requests, k \in Sockets : Forward(r, k)
  BY <1>5, ForwardKeepsStreams
<1>6. CASE \E r \in Requests : FinishWork(r)
  BY <1>6, AnsweringKeeps
<1>7. CASE \E t \in Fetches : FetchFails(t) \/ FetchDone(t)
  BY <1>7, RegistryAssumption, AnsweringKeeps
<1>8. CASE \E t \in Fetches : SendChunk(t)
  BY <1>8, SendChunkKeeps
<1>9. CASE vars' = vars
  <2>1. UNCHANGED <<expected, nextSeq, phase, via, shuttingDown, socket, sockets, toExtension,
                    toHub, sent, acked, job, owed, restarting, faults>>
    BY <1>9 DEF vars, registryVars, hubVars, linkVars, extensionVars
  <2>2. job \in [Requests -> Jobs] /\ expected \subseteq Fetches
    BY DEF MInv, ExtensionTypeOK, IInv, HubTypeOK
  <2>3. ExtensionTypeOK
    BY DEF MInv
  <2> QED
    BY <2>1, <2>2, <2>3, WorkKeeps DEF ExtensionTypeOK
<1> QED
  BY <1>1, <1>2, <1>3, <1>4, <1>5, <1>6, <1>7, <1>8, <1>9, ReceiveResponseKeepsStreams,
     ReceiveChunkKeepsStreams, LateChunkKeepsStreams, ExtensionReceivesKeeps, WorkerStopsKeeps,
     SocketKeeps
     DEF Next

-----------------------------------------------------------------------------
(* What dead sockets still have for the hub                                *)

\* Every message of p is one of q.
From(p, q) == \A i \in DOMAIN p : \E j \in DOMAIN q : p[i] = q[j]

LEMMA FromItself == \A q : From(q, q)
  BY DEF From

LEMMA FromTail ==
    ASSUME NEW q \in Seq(Messages), q # <<>>
    PROVE  Tail(q) \in Seq(Messages) /\ From(Tail(q), q)
<1>1. PICK p : p = Tail(q)
  OBVIOUS
<1> QED
  BY <1>1, TailAt DEF From

LEMMA FromPrefix ==
    ASSUME NEW q \in Seq(Messages), NEW n \in 0..Len(q)
    PROVE  SubSeq(q, 1, n) \in Seq(Messages) /\ From(SubSeq(q, 1, n), q)
<1>1. PICK p : p = SubSeq(q, 1, n)
  OBVIOUS
<1>2. /\ p \in Seq(Messages) /\ Len(p) = n /\ \A i \in 1..n : p[i] = q[i]
      /\ DOMAIN p = 1..n /\ DOMAIN q = 1..Len(q)
  BY <1>1
<1> QED
  BY <1>1, <1>2 DEF From

LEMMA FromKeepsBetween ==
    ASSUME NEW p, NEW q, From(p, q), NEW t, NEW low, NEW high, Between(q, Chunks(q, t), low, high)
    PROVE  Between(p, Chunks(p, t), low, high)
  BY DEF From, Between, Chunks

\* What dead sockets have was there, or was under way when the socket died.
LEMMA LateComesFrom ==
    ASSUME MInv, LateSent, [Next]_vars
    PROVE  /\ late' \in [Sockets -> Seq(Messages)]
           /\ \A k \in Sockets :
                 From(late'[k], late[k]) \/ (From(late'[k], toHub) /\ toHub' = <<>>)
<1>1. late \in [Sockets -> Seq(Messages)] /\ toHub \in Seq(Messages)
  BY DEF LateSent, MInv, ExtensionTypeOK
<1>2. CASE late' = late
  BY <1>1, <1>2, FromItself
<1>3. ASSUME NEW k \in Sockets, ReceiveResponse(k) \/ ReceiveChunk(k), late' # late
      PROVE  /\ late' \in [Sockets -> Seq(Messages)]
             /\ \A x \in Sockets : From(late'[x], late[x])
  <2>1. late[k] # <<>> /\ late' = [late EXCEPT ![k] = Tail(@)]
    BY <1>3, ReadsOne DEF ReceiveResponse, ReceiveChunk
  <2>2. Tail(late[k]) \in Seq(Messages) /\ From(Tail(late[k]), late[k])
    BY <1>1, <2>1, FromTail
  <2> QED
    BY <1>1, <2>1, <2>2, FromItself
<1>4. ASSUME CutSocket
      PROVE  /\ late' \in [Sockets -> Seq(Messages)]
             /\ \A x \in Sockets :
                   From(late'[x], late[x]) \/ (From(late'[x], toHub) /\ toHub' = <<>>)
  <2>1. CASE late' = late
    BY <1>1, <2>1, FromItself
  <2>2. CASE \E arrived \in 0..Len(toHub) :
                late' = [late EXCEPT ![socket] = SubSeq(toHub, 1, arrived)]
    <3>1. PICK arrived \in 0..Len(toHub) :
             late' = [late EXCEPT ![socket] = SubSeq(toHub, 1, arrived)]
      BY <2>2
    <3>2. PICK p : p = SubSeq(toHub, 1, arrived)
      OBVIOUS
    <3>3. p \in Seq(Messages) /\ From(p, toHub) /\ toHub' = <<>>
      BY <1>1, <1>4, <3>2, FromPrefix DEF CutSocket
    <3> QED
      BY <1>1, <3>1, <3>2, <3>3, FromItself
  <2> QED
    BY <1>4, <2>1, <2>2 DEF CutSocket
<1>5. CASE \E k \in Sockets : ReceiveResponse(k) \/ ReceiveChunk(k)
  BY <1>2, <1>3, <1>5
<1>6. CASE WorkerReturns \/ SocketDies
  BY <1>4, <1>6 DEF WorkerReturns, SocketDies
<1>7. \/ late' = late \/ WorkerReturns \/ SocketDies
      \/ \E k \in Sockets : ReceiveResponse(k) \/ ReceiveChunk(k)
  <2>1. \A r \in Requests : Ask(r) \/ NoTarget(r) \/ RefuseForShutdown(r) \/ ProxyTimeout(r)
           \/ FinishWork(r) \/ ClientCloses(SessionOf[r]) => late' = late
    BY DEF Ask, NoTarget, RefuseForShutdown, ProxyTimeout, FinishWork, ClientCloses, linkVars
  <2>2. \A t \in Fetches : RefuseTransfer(t) \/ TransferTimeout(t) \/ SendChunk(t) \/ FetchFails(t)
           \/ FetchDone(t) => late' = late
    BY DEF RefuseTransfer, TransferTimeout, SendChunk, FetchFails, FetchDone, linkVars
  <2>3. \A k \in Sockets : BrowserCloses(k) \/ (\E r \in Requests : Forward(r, k)) => late' = late
    BY DEF BrowserCloses, Forward, linkVars
  <2>4. BeginShutdown \/ Dispose \/ ExtensionReceives \/ WorkerStops \/ Connect \/ UNCHANGED vars
           => late' = late
    BY DEF BeginShutdown, Dispose, ExtensionReceives, WorkerStops, Connect, vars, linkVars
  <2> QED
    BY <2>1, <2>2, <2>3, <2>4 DEF Next
<1> QED
  BY <1>2, <1>5, <1>6, <1>7

\* No chunk is taken back.
LEMMA SentGrows ==
    ASSUME MInv, [Next]_vars
    PROVE  \A t \in Fetches : sent[t] \in Nat /\ sent'[t] \in Nat /\ sent[t] <= sent'[t]
<1>1. sent \in [Fetches -> 0..TotalChunks]
  BY DEF MInv, ExtensionTypeOK
<1>2. sent' = sent \/ \E t \in Fetches : sent' = [sent EXCEPT ![t] = @ + 1]
  <2>1. \A r \in Requests : Ask(r) \/ NoTarget(r) \/ RefuseForShutdown(r) \/ ProxyTimeout(r)
           \/ FinishWork(r) \/ ClientCloses(SessionOf[r]) => sent' = sent
    BY DEF Ask, NoTarget, RefuseForShutdown, ProxyTimeout, FinishWork, ClientCloses, extensionVars
  <2>2. \A t \in Fetches : RefuseTransfer(t) \/ TransferTimeout(t) \/ FetchFails(t) \/ FetchDone(t)
           => sent' = sent
    BY DEF RefuseTransfer, TransferTimeout, FetchFails, FetchDone, extensionVars
  <2>3. \A k \in Sockets : BrowserCloses(k) \/ (\E r \in Requests : Forward(r, k))
                            \/ ReceiveResponse(k) \/ ReceiveChunk(k) => sent' = sent
    BY DEF BrowserCloses, Forward, ReceiveResponse, ReceiveChunk, extensionVars
  <2>4. BeginShutdown \/ Dispose \/ ExtensionReceives \/ WorkerStops \/ WorkerReturns
           \/ SocketDies \/ Connect \/ UNCHANGED vars => sent' = sent
    BY DEF BeginShutdown, Dispose, ExtensionReceives, WorkerStops, WorkerReturns, SocketDies,
           Connect, vars, extensionVars
  <2>5. \A t \in Fetches : SendChunk(t) => sent' = sent \/ sent' = [sent EXCEPT ![t] = @ + 1]
    BY DEF SendChunk
  <2> QED
    BY <2>1, <2>2, <2>3, <2>4, <2>5 DEF Next
<1> QED
  BY <1>1, <1>2

LEMMA Next_LateSent == MInv /\ LateSent /\ [Next]_vars => LateSent'
<1> SUFFICES ASSUME MInv, LateSent, [Next]_vars PROVE LateSent'
  OBVIOUS
<1>1. ASSUME NEW k \in Sockets, NEW t \in Fetches
      PROVE  Between(late'[k], Chunks(late'[k], t), 0, sent'[t])
  <2>1. \A q : From(late'[k], q) /\ Between(q, Chunks(q, t), 0, sent[t])
                  => Between(late'[k], Chunks(late'[k], t), 0, sent[t])
    BY FromKeepsBetween
  <2>2. Between(late'[k], Chunks(late'[k], t), 0, sent[t])
    BY <2>1, LateComesFrom DEF LateSent, MInv, InStep
  <2>3. late'[k] \in Seq(Messages)
    BY LateComesFrom
  <2>4. \A i \in Chunks(late'[k], t) : late'[k][i].seq \in Nat
    BY <2>3, MessageAt DEF Chunks
  <2> QED
    BY <2>2, <2>4, SentGrows DEF Between
<1> QED
  BY <1>1, LateComesFrom DEF LateSent

LEMMA MInvHolds == Spec => [](IInv /\ MInv /\ LateSent)
<1>1. Init => IInv /\ MInv /\ LateSent
  <2>1. Init => LateSent
    BY NoMessages DEF Init, LateSent, Between
  <2> QED
    BY <2>1, Init_IInv, Init_MInv
<1>2. IInv /\ MInv /\ LateSent /\ [Next]_vars => (IInv /\ MInv /\ LateSent)'
  BY Next_IInv, Next_MInv, Next_LateSent
<1> QED
  BY <1>1, <1>2, PTL DEF Spec

-----------------------------------------------------------------------------

\* Every variable of the hub, of the wire and of the extension stays in its range; in particular
\* the extension acknowledges no chunk twice, and the registry counts no chunk that was not sent.
THEOREM ToolProxyTypeCorrect == Spec => []TypeOK
<1>1. IInv /\ MInv /\ LateSent => TypeOK
  <2> SUFFICES ASSUME IInv, MInv, LateSent PROVE TypeOK
    OBVIOUS
  <2>1. RegistryTypeOK
    <3>1. ASSUME NEW t \in Fetches
          PROVE  nextSeq[t] \in 0..TotalChunks
      BY RegistryAssumption DEF MInv, ExtensionTypeOK, InStep
    <3>2. nextSeq \in [Fetches -> Nat]
      BY DEF MInv, ExtensionTypeOK
    <3> QED
      BY <3>1, <3>2 DEF RegistryTypeOK, IInv, HubTypeOK
  <2>2. \A t \in Fetches : acked[t] \in 0..TotalChunks /\ acked[t] <= sent[t]
    BY RegistryAssumption DEF MInv, ExtensionTypeOK, InStep
  <2>3. acked \in [Fetches -> 0..TotalChunks]
    BY <2>2 DEF MInv, ExtensionTypeOK
  <2>4. /\ via \in [Requests -> Sockets \cup {NoSocket}]
        /\ sockets \in 0..MaxSockets /\ socket \in {NoSocket, sockets} /\ stale \in SUBSET Sockets
    <3>1. /\ sockets \in Nat \ {0} /\ sockets <= MaxSockets /\ socket \in {NoSocket, sockets}
          /\ stale \in SUBSET (1..sockets) /\ via \in [Requests -> Nat]
          /\ \A r \in Requests : via[r] <= sockets
      BY DEF MInv, ExtensionTypeOK, IInv, HubTypeOK, SocketsAreOrdered
    <3>2. \A r \in Requests : via[r] \in Sockets \cup {NoSocket}
      BY <3>1, ProxyAssumption DEF Sockets, NoSocket
    <3>3. stale \in SUBSET Sockets /\ sockets \in 0..MaxSockets
      BY <3>1, ProxyAssumption DEF Sockets
    <3> QED
      BY <3>1, <3>2, <3>3
  <2> QED
    BY <2>1, <2>2, <2>3, <2>4 DEF TypeOK, MInv, ExtensionTypeOK, LateSent, IInv, HubTypeOK
<1> QED
  BY <1>1, MInvHolds, PTL

\* An intact connection never breaks a transfer: while the hub expects a file over the socket
\* that the extension still has, the chunks under way are those that were sent and are not
\* written, each once and in order, so the next to arrive is the one ingestChunk asks for.
THEOREM StreamsKeepStep == Spec => []StreamsContinue
<1>1. IInv /\ MInv => StreamsContinue
  <2> SUFFICES ASSUME IInv, MInv, NEW t \in expected, via[t] = socket, ~ shuttingDown
               PROVE  /\ {toHub[i].seq : i \in ChunksUnderWay(t)} = nextSeq[t]..(sent[t] - 1)
                      /\ \A i, j \in ChunksUnderWay(t) : i < j => toHub[i].seq < toHub[j].seq
    BY DEF StreamsContinue
  <2>1. Stream(toHub, t, nextSeq[t], sent[t])
    BY DEF MInv, Streams
  <2>2. PICK C, low, high : C = Chunks(toHub, t) /\ low = nextSeq[t] /\ high = sent[t]
    OBVIOUS
  <2>3. ChunksUnderWay(t) = C
    BY <2>2 DEF ChunksUnderWay, Chunks
  <2>4. low \in Nat /\ high \in Nat
    BY <2>2 DEF MInv, ExtensionTypeOK, IInv, HubTypeOK
  <2>5. \A i \in C : toHub[i].seq \in Nat
    BY <2>2, MessageAt DEF Chunks, MInv, ExtensionTypeOK
  <2>6. InOrder(toHub, C) /\ Between(toHub, C, low, high) /\ Complete(toHub, C, low, high)
    BY <2>1, <2>2 DEF Stream
  <2>7. \A i \in C : toHub[i].seq \in low..(high - 1)
    BY <2>4, <2>5, <2>6 DEF Between
  <2>8. {toHub[i].seq : i \in C} = low..(high - 1)
    BY <2>6, <2>7 DEF Complete
  <2> QED
    BY <2>2, <2>3, <2>6, <2>8 DEF InOrder
<1> QED
  BY <1>1, MInvHolds, PTL

-----------------------------------------------------------------------------
(* How far the two ends get apart, also when a transfer has been given up  *)

\* The chunks of t in q are in order and from low to high, without high.
Backlog(q, t, low, high) == InOrder(q, Chunks(q, t)) /\ Between(q, Chunks(q, t), low, high)

Delivers(m) == m.kind = "response" /\ m.ok = TRUE /\ m.of \in Fetches

\* A response in q that says a file was delivered is about one of which n counts every chunk.
DeliversAll(q, n) == \A i \in DOMAIN q : Delivers(q[i]) => n[q[i].of] = TotalChunks

\* What is under way has not been written, and a whole file is no longer expected.
EInv ==
    /\ \A t \in Fetches :
          /\ Backlog(toHub, t, nextSeq[t], sent[t])
          /\ sent[t] <= acked[t] + Window
          /\ job[t] # "working"
    /\ \A t \in expected : nextSeq[t] < TotalChunks
    /\ DeliversAll(toHub, nextSeq)

\* The chunks of t in q come before those in p.
Behind(q, p, t) == \A i \in Chunks(q, t) : \A j \in Chunks(p, t) : q[i].seq < p[j].seq

\* The same of what dead sockets have, and it was sent before what is under way.
LateFirst ==
    \A k \in Sockets : /\ DeliversAll(late[k], nextSeq)
                       /\ \A t \in Fetches : Behind(late[k], toHub, t)

LEMMA BacklogAppended ==
    ASSUME NEW q \in Seq(Messages), NEW m \in Messages, NEW t,
           NEW low \in Nat, NEW high \in Nat, low <= high, Backlog(q, t, low, high)
    PROVE  /\ ~(m.kind = "chunk" /\ m.of = t) => Backlog(Append(q, m), t, low, high)
           /\ m.kind = "chunk" /\ m.of = t /\ m.seq = high => Backlog(Append(q, m), t, low, high + 1)
<1>1. PICK p, C, l : p = Append(q, m) /\ C = Chunks(q, t) /\ l = Len(q) + 1
  OBVIOUS
<1>2. /\ C \in SUBSET Nat /\ l \in Nat /\ p[l] = m
      /\ \A i \in C : i < l /\ p[i] = q[i] /\ q[i].seq \in Nat
  BY <1>1, AppendAt, MessageAt DEF Chunks
<1>3. InOrder(q, C) /\ Between(q, C, low, high)
  BY <1>1 DEF Backlog
<1>4. ASSUME ~(m.kind = "chunk" /\ m.of = t)
      PROVE  Backlog(p, t, low, high)
  <2>1. Chunks(p, t) = C
    BY <1>1, <1>4, ChunksAppended
  <2>2. InOrder(p, C) /\ Between(p, C, low, high)
    BY <1>2, <1>3 DEF InOrder, Between
  <2> QED
    BY <2>1, <2>2 DEF Backlog
<1>5. ASSUME m.kind = "chunk" /\ m.of = t /\ m.seq = high
      PROVE  Backlog(p, t, low, high + 1)
  <2>1. Chunks(p, t) = C \cup {l}
    BY <1>1, <1>5, ChunksAppended
  <2>2. InOrder(p, C \cup {l}) /\ Between(p, C \cup {l}, low, high + 1)
    BY <1>2, <1>3, <1>5, NumbersAppended
  <2> QED
    BY <2>1, <2>2 DEF Backlog
<1> QED
  BY <1>1, <1>4, <1>5

LEMMA BacklogTaken ==
    ASSUME NEW q \in Seq(Messages), q # <<>>, NEW t,
           NEW low \in Nat, NEW high \in Nat, Backlog(q, t, low, high)
    PROVE  /\ Backlog(Tail(q), t, low, high)
           /\ Head(q).kind = "chunk" /\ Head(q).of = t => Backlog(Tail(q), t, Head(q).seq + 1, high)
<1>1. PICK p, C, D : p = Tail(q) /\ C = Chunks(q, t) /\ D = Chunks(p, t)
  OBVIOUS
<1>2. /\ C \in SUBSET Nat /\ D \in SUBSET (Nat \ {0})
      /\ \A i \in C : q[i].seq \in Nat
      /\ \A i \in D : i + 1 \in C /\ p[i] = q[i + 1]
      /\ Head(q).kind = "chunk" /\ Head(q).of = t => 1 \in C
      /\ q[1] = Head(q)
  BY <1>1, TailAt, MessageAt DEF Chunks
<1>3. InOrder(q, C) /\ Between(q, C, low, high)
  BY <1>1 DEF Backlog
<1>4. /\ InOrder(p, D) /\ Between(p, D, low, high)
      /\ 1 \in C => Between(p, D, q[1].seq + 1, high)
  BY <1>2, <1>3, NumbersTaken
<1> QED
  BY <1>1, <1>2, <1>4 DEF Backlog

LEMMA DeliversAllTaken ==
    ASSUME NEW q \in Seq(Messages), q # <<>>, NEW n, DeliversAll(q, n)
    PROVE  DeliversAll(Tail(q), n)
<1>1. PICK p : p = Tail(q)
  OBVIOUS
<1>2. \A i \in DOMAIN p : i + 1 \in DOMAIN q /\ p[i] = q[i + 1]
  BY <1>1, TailAt
<1> QED
  BY <1>1, <1>2 DEF DeliversAll

LEMMA DeliversAllAppended ==
    ASSUME NEW q \in Seq(Messages), NEW m \in Messages, NEW n, DeliversAll(q, n),
           Delivers(m) => n[m.of] = TotalChunks
    PROVE  DeliversAll(Append(q, m), n)
<1>1. PICK p : p = Append(q, m)
  OBVIOUS
<1>2. /\ DOMAIN q = 1..Len(q) /\ DOMAIN p = 1..(Len(q) + 1) /\ Len(q) \in Nat
      /\ \A i \in DOMAIN q : p[i] = q[i]
      /\ p[Len(q) + 1] = m
  BY <1>1, AppendAt
<1>3. \A i \in DOMAIN p : (i \in DOMAIN q /\ p[i] = q[i]) \/ p[i] = m
  BY <1>2
<1> QED
  BY <1>1, <1>3 DEF DeliversAll

LEMMA DeliversAllAfterErrors ==
    ASSUME NEW q \in Seq(Messages), NEW e \in Seq(Messages), NEW n, DeliversAll(q, n),
           \A i \in DOMAIN e : e[i].ok = FALSE
    PROVE  DeliversAll(q \o e, n)
<1>1. PICK p : p = q \o e
  OBVIOUS
<1>2. /\ Len(q) \in Nat /\ Len(e) \in Nat
      /\ DOMAIN q = 1..Len(q) /\ DOMAIN e = 1..Len(e) /\ DOMAIN p = 1..(Len(q) + Len(e))
      /\ \A i \in DOMAIN q : p[i] = q[i]
      /\ \A i \in DOMAIN p : i > Len(q) => p[i] = e[i - Len(q)]
  BY <1>1
<1>3. ASSUME NEW i \in DOMAIN p, Delivers(p[i])
      PROVE  i \in DOMAIN q
  <2>1. i > Len(q) => i - Len(q) \in DOMAIN e /\ p[i].ok = FALSE
    BY <1>2
  <2>2. ~ (i > Len(q))
    BY <1>3, <2>1 DEF Delivers
  <2> QED
    BY <1>2, <2>2
<1> QED
  BY <1>1, <1>2, <1>3 DEF DeliversAll

LEMMA Init_EInv == Init => EInv
<1> SUFFICES ASSUME Init PROVE EInv
  OBVIOUS
<1>1. \A t \in Fetches : Backlog(toHub, t, nextSeq[t], sent[t]) /\ sent[t] <= acked[t] + Window
  BY NoMessages, ProxyAssumption DEF Init, Backlog, InOrder, Between
<1>2. \A t \in Fetches : job[t] # "working"
  BY RegistryAssumption DEF Init
<1>3. DeliversAll(toHub, nextSeq)
  BY NoMessages DEF Init, DeliversAll
<1> QED
  BY <1>1, <1>2, <1>3 DEF Init, RegistryInit, EInv

\* The hub expects no more than before, counts no chunk, and takes at most a response.
LEMMA HearingKeepsBacklog ==
    ASSUME MInv, EInv, UNCHANGED <<nextSeq, extensionVars>>, expected' \subseteq expected,
           toHub' = toHub \/ (toHub # <<>> /\ toHub' = Tail(toHub))
    PROVE  EInv'
<1>1. toHub \in Seq(Messages)
  BY DEF MInv, ExtensionTypeOK
<1>2. DeliversAll(toHub', nextSeq)
  BY <1>1, DeliversAllTaken DEF EInv
<1>3. ASSUME NEW t \in Fetches
      PROVE  Backlog(toHub', t, nextSeq[t], sent[t])
  <2>1. nextSeq[t] \in Nat /\ sent[t] \in Nat /\ Backlog(toHub, t, nextSeq[t], sent[t])
    BY DEF MInv, ExtensionTypeOK, EInv
  <2> QED
    BY <1>1, <2>1, BacklogTaken
<1> QED
  BY <1>2, <1>3 DEF EInv, extensionVars

LEMMA HubKeepsBacklog ==
    ASSUME MInv, EInv, NEW r,
           \/ (r \in Requests /\ (Ask(r) \/ NoTarget(r) \/ RefuseForShutdown(r) \/ ProxyTimeout(r)))
           \/ (r \in Fetches /\ (RefuseTransfer(r) \/ TransferTimeout(r)))
           \/ (\E k \in Sockets : BrowserCloses(k) \/ ReceiveResponse(k)) \/ ClientCloses(SessionOf[r])
           \/ BeginShutdown \/ Dispose
    PROVE  EInv'
<1>1. UNCHANGED <<nextSeq, extensionVars>> /\ expected' \subseteq expected
  BY DEF Ask, NoTarget, RefuseForShutdown, RefuseTransfer, ProxyTimeout, TransferTimeout, BrowserCloses, ClientCloses,
         BeginShutdown, Dispose, ReceiveResponse, FailTransfers, Drop, Remaining, registryVars
<1>2. toHub' = toHub \/ (toHub # <<>> /\ toHub' = Tail(toHub))
  <2>1. ASSUME NEW k \in Sockets, ReceiveResponse(k)
        PROVE  toHub' = toHub \/ (toHub # <<>> /\ toHub' = Tail(toHub))
    BY <2>1, ReadsOne DEF ReceiveResponse
  <2>2. \/ \E k \in Sockets : ReceiveResponse(k)
        \/ toHub' = toHub
    BY DEF Ask, NoTarget, RefuseForShutdown, RefuseTransfer, ProxyTimeout, TransferTimeout,
           BrowserCloses, ClientCloses, BeginShutdown, Dispose
  <2> QED
    BY <2>1, <2>2
<1> QED
  BY <1>1, <1>2, HearingKeepsBacklog

\* The extension has not begun with a file that is asked for.
LEMMA ForwardKeepsBacklog ==
    ASSUME IInv, MInv, EInv, NEW r \in Requests, NEW k \in Sockets, Forward(r, k)
    PROVE  EInv'
<1>1. /\ UNCHANGED <<nextSeq, toHub, extensionVars>>
      /\ expected' \subseteq expected \cup ({r} \cap Fetches)
      /\ job[r] = "none"
  BY DEF Forward, Expect, registryVars, MInv, BegunOnce
<1>2. r \in Fetches => nextSeq[r] < TotalChunks
  BY <1>1, RegistryAssumption DEF MInv, BegunOnce, InStep, ExtensionTypeOK
<1> QED
  BY <1>1, <1>2 DEF EInv, extensionVars

LEMMA ReceiveChunkKeepsBacklog ==
    ASSUME IInv, MInv, EInv, ReceiveChunk(socket)
    PROVE  EInv'
<1>1. PICK t, seq : t = Head(toHub).of /\ seq = Head(toHub).seq
  OBVIOUS
<1>2. /\ UNCHANGED extensionVars
      /\ toHub # <<>> /\ Head(toHub).kind = "chunk" /\ toHub' = Tail(toHub)
  BY ReadsOne DEF ReceiveChunk
<1>3. /\ expected' \subseteq expected
      /\ \/ nextSeq' = nextSeq
         \/ /\ t \in expected /\ seq = nextSeq[t] /\ nextSeq' = [nextSeq EXCEPT ![t] = @ + 1]
            /\ t \in expected' => seq + 1 # TotalChunks
  BY <1>1 DEF ReceiveChunk, Unread, Verdict, FailTransfers, Drop, DropWhole, Ingest, Land, WriteChunk,
              Remaining, registryVars
<1>4. /\ toHub \in Seq(Messages) /\ nextSeq \in [Fetches -> Nat] /\ expected \subseteq Fetches
      /\ sent \in [Fetches -> Nat]
  BY DEF MInv, ExtensionTypeOK, IInv, HubTypeOK
<1>5. CASE nextSeq' = nextSeq
  BY <1>2, <1>3, <1>5, HearingKeepsBacklog
<1>6. CASE /\ t \in expected /\ seq = nextSeq[t] /\ nextSeq' = [nextSeq EXCEPT ![t] = @ + 1]
           /\ t \in expected' => seq + 1 # TotalChunks
  <2>1. nextSeq'[t] = seq + 1 /\ \A x \in Fetches : x # t => nextSeq'[x] = nextSeq[x]
    BY <1>4, <1>6
  <2>2. ASSUME NEW x \in Fetches
        PROVE  Backlog(toHub', x, nextSeq'[x], sent[x])
    <3>1. Backlog(toHub, x, nextSeq[x], sent[x]) /\ nextSeq[x] \in Nat /\ sent[x] \in Nat
      BY <1>4 DEF EInv
    <3>2. CASE x = t
      BY <1>1, <1>2, <1>4, <2>1, <3>1, <3>2, BacklogTaken
    <3>3. CASE x # t
      BY <1>2, <1>4, <2>1, <3>1, <3>3, BacklogTaken
    <3> QED
      BY <3>2, <3>3
  <2>3. nextSeq[t] < TotalChunks /\ nextSeq[t] \in Nat
    BY <1>4, <1>6 DEF EInv
  <2>4. ASSUME NEW x \in expected' PROVE nextSeq'[x] < TotalChunks
    <3>1. x \in Fetches /\ nextSeq[x] < TotalChunks
      BY <1>3, <1>4 DEF EInv
    <3>2. CASE x = t
      BY <1>6, <2>1, <2>3, <2>4, <3>2, RegistryAssumption
    <3> QED
      BY <2>1, <3>1, <3>2
  \* No response speaks of t yet.
  <2>5. DeliversAll(toHub', nextSeq')
    <3>1. DeliversAll(toHub', nextSeq)
      BY <1>2, <1>4, DeliversAllTaken DEF EInv
    <3>2. \A x \in Fetches : nextSeq[x] = TotalChunks => nextSeq'[x] = TotalChunks
      BY <2>1, <2>3
    <3> QED
      BY <3>1, <3>2 DEF DeliversAll, Delivers
  <2> QED
    BY <1>2, <2>2, <2>4, <2>5 DEF EInv, extensionVars
<1> QED
  BY <1>3, <1>5, <1>6

\* A chunk that a dead socket still had is written: what is under way comes later.
LEMMA LateChunkKeepsBacklog ==
    ASSUME IInv, MInv, LateSent, EInv, LateFirst, NEW k \in Sockets, k # socket, ReceiveChunk(k)
    PROVE  EInv'
<1>1. PICK t, seq : t = Head(late[k]).of /\ seq = Head(late[k]).seq
  OBVIOUS
<1>2. /\ UNCHANGED extensionVars
      /\ late[k] # <<>> /\ Head(late[k]).kind = "chunk" /\ toHub' = toHub
  BY ReadsOne DEF ReceiveChunk
<1>3. /\ expected' \subseteq expected
      /\ \/ nextSeq' = nextSeq
         \/ /\ t \in expected /\ seq = nextSeq[t] /\ nextSeq' = [nextSeq EXCEPT ![t] = @ + 1]
            /\ t \in expected' => seq + 1 # TotalChunks
  BY <1>1 DEF ReceiveChunk, Unread, Verdict, FailTransfers, Drop, DropWhole, Ingest, Land, WriteChunk,
              Remaining, registryVars
<1>4. /\ toHub \in Seq(Messages) /\ nextSeq \in [Fetches -> Nat] /\ expected \subseteq Fetches
      /\ sent \in [Fetches -> Nat] /\ late[k] \in Seq(Messages)
  BY DEF MInv, ExtensionTypeOK, IInv, HubTypeOK, LateSent
<1>5. CASE nextSeq' = nextSeq
  BY <1>2, <1>3, <1>5, HearingKeepsBacklog
<1>6. CASE /\ t \in expected /\ seq = nextSeq[t] /\ nextSeq' = [nextSeq EXCEPT ![t] = @ + 1]
           /\ t \in expected' => seq + 1 # TotalChunks
  <2>1. nextSeq'[t] = seq + 1 /\ \A x \in Fetches : x # t => nextSeq'[x] = nextSeq[x]
    BY <1>4, <1>6
  <2>2. Backlog(toHub, t, nextSeq'[t], sent[t])
    <3>1. Backlog(toHub, t, nextSeq[t], sent[t]) /\ nextSeq[t] \in Nat
      BY <1>4, <1>6 DEF EInv
    <3>2. 1 \in Chunks(late[k], t) /\ late[k][1].seq = seq
      BY <1>1, <1>2, <1>4, TailAt DEF Chunks
    <3>3. \A j \in Chunks(toHub, t) : seq < toHub[j].seq
      BY <1>4, <1>6, <3>2 DEF LateFirst, Behind
    <3>4. \A j \in Chunks(toHub, t) : toHub[j].seq \in Nat
      BY <1>4, MessageAt DEF Chunks
    <3> QED
      BY <1>6, <2>1, <3>1, <3>3, <3>4 DEF Backlog, Between
  <2>3. \A x \in Fetches : Backlog(toHub, x, nextSeq'[x], sent[x])
    BY <2>1, <2>2 DEF EInv
  <2>4. nextSeq[t] < TotalChunks /\ nextSeq[t] \in Nat
    BY <1>4, <1>6 DEF EInv
  <2>5. ASSUME NEW x \in expected' PROVE nextSeq'[x] < TotalChunks
    <3>1. x \in Fetches /\ nextSeq[x] < TotalChunks
      BY <1>3, <1>4 DEF EInv
    <3>2. CASE x = t
      BY <1>6, <2>1, <2>4, <2>5, <3>2, RegistryAssumption
    <3> QED
      BY <2>1, <3>1, <3>2
  <2>6. DeliversAll(toHub, nextSeq')
    <3>1. \A x \in Fetches : nextSeq[x] = TotalChunks => nextSeq'[x] = TotalChunks
      BY <2>1, <2>4
    <3> QED
      BY <3>1 DEF EInv, DeliversAll, Delivers
  <2> QED
    BY <1>2, <2>3, <2>5, <2>6 DEF EInv, extensionVars
<1> QED
  BY <1>3, <1>5, <1>6

\* The extension begins, ends or fails; what it sends is an answer, and says that a file was
\* delivered only when every chunk of it has been acknowledged.
LEMMA AnsweringKeepsBacklog ==
    ASSUME IInv, MInv, EInv, NEW r \in Requests,
           FinishWork(r) \/ (r \in Fetches /\ (FetchFails(r) \/ FetchDone(r)))
    PROVE  EInv'
<1>1. /\ UNCHANGED <<expected, nextSeq, sent, acked>>
      /\ \E b \in {"done", "failed"} : job' = [job EXCEPT ![r] = b]
  BY DEF FinishWork, FetchFails, FetchDone, registryVars
<1>2. \/ toHub' = toHub
      \/ \E ok \in BOOLEAN : /\ toHub' = Append(toHub, ResponseMsg(r, ok))
                             /\ ok = TRUE /\ r \in Fetches => acked[r] = TotalChunks
  <2>1. CASE FinishWork(r)
    BY <2>1 DEF FinishWork, Send, EInv
  <2>2. CASE FetchFails(r)
    BY <2>2 DEF FetchFails
  <2>3. CASE FetchDone(r)
    <3>1. PICK c \in BOOLEAN : c = (job[r] = "sending" /\ acked[r] = TotalChunks)
      OBVIOUS
    <3>2. toHub' = toHub \/ Send(ResponseMsg(r, c))
      BY <2>3, <3>1 DEF FetchDone
    <3>3. toHub' = toHub \/ toHub' = Append(toHub, ResponseMsg(r, c))
      BY <3>2 DEF Send
    <3> QED
      BY <3>1, <3>3
  <2> QED
    BY <2>1, <2>2, <2>3
<1>3. toHub \in Seq(Messages) /\ job \in [Requests -> Jobs]
  BY DEF MInv, ExtensionTypeOK
<1>4. \A t \in Fetches : job'[t] # "working"
  BY <1>1, <1>3, RegistryAssumption DEF EInv
<1>5. CASE toHub' = toHub
  BY <1>1, <1>4, <1>5 DEF EInv
<1>6. ASSUME NEW ok \in BOOLEAN, toHub' = Append(toHub, ResponseMsg(r, ok)),
             ok = TRUE /\ r \in Fetches => acked[r] = TotalChunks
      PROVE  EInv'
  <2>1. PICK m : m = ResponseMsg(r, ok)
    OBVIOUS
  <2>2. m \in Messages /\ m.kind = "response" /\ m.of = r /\ m.ok = ok
    BY <2>1, ResponseIsMessage DEF ResponseMsg
  <2>3. r \in Fetches /\ acked[r] = TotalChunks => nextSeq[r] = TotalChunks
    BY RegistryAssumption DEF MInv, ExtensionTypeOK, InStep
  <2>4. DeliversAll(Append(toHub, m), nextSeq)
    <3>1. Delivers(m) => nextSeq[m.of] = TotalChunks
      BY <1>6, <2>2, <2>3 DEF Delivers
    <3>2. DeliversAll(toHub, nextSeq)
      BY DEF EInv
    <3> QED
      BY <1>3, <2>2, <3>1, <3>2, DeliversAllAppended
  <2>5. ASSUME NEW t \in Fetches
        PROVE  Backlog(Append(toHub, m), t, nextSeq[t], sent[t])
    <3>1. /\ nextSeq[t] \in Nat /\ sent[t] \in Nat /\ nextSeq[t] <= sent[t]
          /\ Backlog(toHub, t, nextSeq[t], sent[t])
      BY DEF MInv, ExtensionTypeOK, InStep, EInv
    <3>2. m.kind # "chunk"
      BY <2>2
    <3> QED
      BY <1>3, <2>2, <3>1, <3>2, BacklogAppended
  <2> QED
    BY <1>1, <1>4, <1>6, <2>1, <2>4, <2>5 DEF EInv
<1>7. CASE toHub' # toHub
  <2>1. PICK ok \in BOOLEAN : /\ toHub' = Append(toHub, ResponseMsg(r, ok))
                              /\ ok = TRUE /\ r \in Fetches => acked[r] = TotalChunks
    BY <1>2, <1>7
  <2> QED
    BY <1>6, <2>1
<1> QED
  BY <1>5, <1>7

LEMMA WorkerStopsKeepsBacklog ==
    ASSUME MInv, EInv, WorkerStops
    PROVE  EInv'
<1>1. /\ UNCHANGED <<expected, nextSeq, sent, acked>>
      /\ job' = [r \in Requests |-> IF job[r] = "working" THEN "done" ELSE job[r]]
  BY DEF WorkerStops, registryVars
<1>2. toHub \in Seq(Messages) /\ owed \in SUBSET Requests
  BY DEF MInv, ExtensionTypeOK
<1>3. \A t \in Fetches : job'[t] # "working"
  BY <1>1, RegistryAssumption DEF EInv
<1>4. CASE UNCHANGED <<owed, toHub>>
  BY <1>1, <1>3, <1>4 DEF EInv
<1>5. CASE socket # NoSocket
  <2>1. PICK errors \in [1..Cardinality(owed) -> owed] :
           toHub' = toHub \o [i \in DOMAIN errors |-> ResponseMsg(errors[i], FALSE)]
    BY <1>5 DEF WorkerStops
  <2>2. PICK e : e = [i \in DOMAIN errors |-> ResponseMsg(errors[i], FALSE)]
    OBVIOUS
  <2>3. Cardinality(owed) \in Nat
    BY <1>2, RegistryAssumption, FS_Subset, FS_CardinalityType
  <2>4. \A i \in 1..Cardinality(owed) : e[i] \in Messages /\ e[i].kind = "response" /\ e[i].ok = FALSE
    <3>1. \A i \in 1..Cardinality(owed) : errors[i] \in Requests /\ e[i] = ResponseMsg(errors[i], FALSE)
      BY <1>2, <2>1, <2>2
    <3>2. \A r \in Requests : ResponseMsg(r, FALSE).ok = FALSE
      BY DEF ResponseMsg
    <3> QED
      BY <3>1, <3>2, ResponseIsMessage
  <2>5. DOMAIN e = 1..Cardinality(owed) /\ e = [i \in 1..Cardinality(owed) |-> e[i]]
    BY <2>1, <2>2
  <2>6. e \in Seq(Messages)
    BY <2>3, <2>4, <2>5
  <2>7. /\ toHub' = toHub \o e
        /\ \A i \in DOMAIN e : e[i].kind # "chunk" /\ e[i].ok = FALSE
    BY <2>1, <2>2, <2>4, <2>5
  <2>8. /\ \A t : Chunks(toHub', t) = Chunks(toHub, t)
        /\ \A t : \A i \in Chunks(toHub, t) : toHub'[i] = toHub[i]
    <3>1. \A i \in DOMAIN e : e[i].kind # "chunk"
      BY <2>7
    <3>2. /\ \A t : Chunks(toHub \o e, t) = Chunks(toHub, t)
          /\ \A t : \A i \in Chunks(toHub, t) : (toHub \o e)[i] = toHub[i]
      BY <1>2, <2>6, <3>1, AnswersSent, Zenon
    <3> QED
      BY <2>7, <3>2, Zenon
  <2>9. DeliversAll(toHub', nextSeq)
    <3>1. DeliversAll(toHub, nextSeq)
      BY DEF EInv
    <3>2. \A i \in DOMAIN e : e[i].ok = FALSE
      BY <2>7
    <3> QED
      BY <1>2, <2>6, <2>7, <3>1, <3>2, DeliversAllAfterErrors
  <2>10. \A t \in Fetches : Backlog(toHub', t, nextSeq[t], sent[t])
    BY <2>8 DEF EInv, Backlog, InOrder, Between
  <2> QED
    BY <1>1, <1>3, <2>9, <2>10 DEF EInv
<1> QED
  BY <1>4, <1>5 DEF WorkerStops

\* A chunk is sent when the window is open, and takes the next number.
LEMMA SendChunkKeepsBacklog ==
    ASSUME IInv, MInv, EInv, NEW t \in Fetches, SendChunk(t)
    PROVE  EInv'
<1>1. /\ UNCHANGED <<expected, nextSeq, acked>>
      /\ job[t] = "sending" /\ sent[t] < TotalChunks /\ sent[t] - acked[t] < Window
  BY DEF SendChunk, HasWindow, registryVars
<1>2. /\ toHub \in Seq(Messages) /\ sent \in [Fetches -> 0..TotalChunks]
      /\ job \in [Requests -> Jobs] /\ acked \in [Fetches -> Nat]
  BY DEF MInv, ExtensionTypeOK
<1>3. CASE socket = NoSocket
  <2>1. toHub' = toHub /\ sent' = sent /\ job' = [job EXCEPT ![t] = "failed"]
    BY <1>3 DEF SendChunk, Send
  <2>2. \A x \in Fetches : job'[x] # "working"
    BY <1>2, <2>1, RegistryAssumption DEF EInv
  <2> QED
    BY <1>1, <2>1, <2>2 DEF EInv
<1>4. CASE socket # NoSocket
  <2>1. PICK m : m = ChunkMsg(t, sent[t])
    OBVIOUS
  <2>2. /\ toHub' = Append(toHub, m) /\ sent' = [sent EXCEPT ![t] = @ + 1] /\ job' = job
    BY <1>4, <2>1 DEF SendChunk, Send, SendCursor
  <2>3. m \in Messages /\ m.kind = "chunk" /\ m.of = t /\ m.seq = sent[t]
    <3>1. sent[t] \in 0..TotalChunks /\ t \in Requests
      BY <1>2, RegistryAssumption
    <3> QED
      BY <2>1, <3>1 DEF ChunkMsg, Messages
  <2>4. sent'[t] = sent[t] + 1 /\ \A x \in Fetches : x # t => sent'[x] = sent[x]
    BY <1>2, <2>2
  <2>5. DeliversAll(toHub', nextSeq)
    <3>1. DeliversAll(toHub, nextSeq) /\ ~ Delivers(m)
      BY <2>3 DEF EInv, Delivers
    <3> QED
      BY <1>2, <2>2, <2>3, <3>1, DeliversAllAppended
  <2>6. ASSUME NEW x \in Fetches
        PROVE  Backlog(toHub', x, nextSeq[x], sent'[x])
    <3>1. /\ nextSeq[x] \in Nat /\ sent[x] \in Nat /\ nextSeq[x] <= sent[x]
          /\ Backlog(toHub, x, nextSeq[x], sent[x])
      BY DEF MInv, ExtensionTypeOK, InStep, EInv
    <3>2. PICK q, low, high : q = toHub /\ low = nextSeq[x] /\ high = sent[x]
      OBVIOUS
    <3>3. /\ x # t => Backlog(Append(q, m), x, low, high)
          /\ x = t => Backlog(Append(q, m), x, low, high + 1)
      BY <1>2, <2>3, <3>1, <3>2, BacklogAppended
    <3> QED
      BY <2>2, <2>4, <3>2, <3>3
  <2>7. \A x \in Fetches : sent'[x] <= acked[x] + Window
    <3>1. \A x \in Fetches : sent[x] <= acked[x] + Window
      BY DEF EInv
    <3>2. sent[t] + 1 <= acked[t] + Window
      BY <1>1, <1>2, ProxyAssumption
    <3> QED
      BY <2>4, <3>1, <3>2
  <2> QED
    BY <1>1, <2>2, <2>5, <2>6, <2>7 DEF EInv
<1> QED
  BY <1>3, <1>4

LEMMA ExtensionReceivesKeepsBacklog ==
    ASSUME MInv, EInv, ExtensionReceives
    PROVE  EInv'
<1>1. PICK m, r : m = Head(toExtension) /\ r = m.of
  OBVIOUS
<1>2. UNCHANGED <<expected, nextSeq, toHub, sent>>
  BY DEF ExtensionReceives, registryVars
<1>3. \/ /\ acked' = acked
         /\ job' = [job EXCEPT ![r] = IF r \in Fetches THEN "sending" ELSE "working"]
      \/ /\ acked' = acked \/ acked' = [acked EXCEPT ![r] = @ + 1]
         /\ job' = job \/ job' = [job EXCEPT ![r] = "failed"]
  BY <1>1 DEF ExtensionReceives
<1>4. /\ acked \in [Fetches -> Nat] /\ job \in [Requests -> Jobs] /\ sent \in [Fetches -> 0..TotalChunks]
  BY DEF MInv, ExtensionTypeOK
<1>5. \A t \in Fetches : job'[t] # "working"
  BY <1>3, <1>4, RegistryAssumption DEF EInv
<1>6. \A t \in Fetches : acked'[t] = acked[t] \/ acked'[t] = acked[t] + 1
  BY <1>3, <1>4
<1>7. \A t \in Fetches : sent[t] <= acked'[t] + Window
  <2>1. \A t \in Fetches : sent[t] <= acked[t] + Window /\ sent[t] \in Nat /\ acked[t] \in Nat
    BY <1>4, RegistryAssumption DEF EInv
  <2> QED
    BY <1>6, <2>1, ProxyAssumption
<1> QED
  BY <1>2, <1>5, <1>7 DEF EInv

LEMMA SocketKeepsBacklog ==
    ASSUME MInv, EInv, WorkerReturns \/ SocketDies \/ Connect
    PROVE  EInv'
<1>1. /\ UNCHANGED <<expected, nextSeq, job, sent, acked>>
      /\ toHub' = toHub \/ toHub' = <<>>
  BY DEF WorkerReturns, SocketDies, Connect, CutSocket, registryVars, extensionVars
<1>2. CASE toHub' = toHub
  BY <1>1, <1>2 DEF EInv
<1>3. CASE toHub' = <<>>
  <2>1. \A t \in Fetches : Backlog(toHub', t, nextSeq[t], sent[t])
    BY <1>3, NoMessages DEF Backlog, InOrder, Between
  <2>2. DeliversAll(toHub', nextSeq)
    BY <1>3, NoMessages DEF DeliversAll
  <2> QED
    BY <1>1, <2>1, <2>2 DEF EInv
<1> QED
  BY <1>1, <1>2, <1>3

LEMMA Next_EInv == IInv /\ MInv /\ LateSent /\ EInv /\ LateFirst /\ [Next]_vars => EInv'
<1> SUFFICES ASSUME IInv, MInv, LateSent, EInv, LateFirst, [Next]_vars PROVE EInv'
  OBVIOUS
<1>1. CASE \E r \in Requests : Ask(r) \/ NoTarget(r) \/ RefuseForShutdown(r) \/ ProxyTimeout(r)
  BY <1>1, HubKeepsBacklog
<1>2. CASE \E t \in Fetches : RefuseTransfer(t) \/ TransferTimeout(t)
  BY <1>2, HubKeepsBacklog
<1>3. CASE \E r \in Requests : ClientCloses(SessionOf[r])
  BY <1>3, HubKeepsBacklog
<1>4. CASE (\E k \in Sockets : BrowserCloses(k) \/ ReceiveResponse(k)) \/ BeginShutdown \/ Dispose
  BY <1>4, HubKeepsBacklog
<1>5. CASE \E r \in Requests, k \in Sockets : Forward(r, k)
  BY <1>5, ForwardKeepsBacklog
<1>6. CASE \E r \in Requests : FinishWork(r)
  BY <1>6, AnsweringKeepsBacklog
<1>7. CASE \E t \in Fetches : FetchFails(t) \/ FetchDone(t)
  BY <1>7, RegistryAssumption, AnsweringKeepsBacklog
<1>8. CASE \E t \in Fetches : SendChunk(t)
  BY <1>8, SendChunkKeepsBacklog
<1>9. CASE vars' = vars
  <2>1. UNCHANGED <<expected, nextSeq, toHub, job, sent, acked>>
    BY <1>9 DEF vars, registryVars, extensionVars
  <2> QED
    BY <2>1 DEF EInv
<1> QED
  BY <1>1, <1>2, <1>3, <1>4, <1>5, <1>6, <1>7, <1>8, <1>9, ReceiveChunkKeepsBacklog,
     LateChunkKeepsBacklog, ExtensionReceivesKeepsBacklog, WorkerStopsKeepsBacklog,
     SocketKeepsBacklog DEF Next

\* A chunk under way was so before, or is the next to be sent.
LEMMA ChunksComeFrom ==
    ASSUME MInv, [Next]_vars
    PROVE  \A t \in Fetches : \A j \in Chunks(toHub', t) :
              \/ \E i \in Chunks(toHub, t) : toHub[i] = toHub'[j]
              \/ toHub'[j].seq = sent[t]
<1>1. toHub \in Seq(Messages) /\ owed \in SUBSET Requests /\ sent \in [Fetches -> 0..TotalChunks]
  BY DEF MInv, ExtensionTypeOK
<1>2. ASSUME From(toHub', toHub)
      PROVE  \A t \in Fetches : \A j \in Chunks(toHub', t) :
                \E i \in Chunks(toHub, t) : toHub[i] = toHub'[j]
  BY <1>2 DEF From, Chunks
<1>3. ASSUME NEW m \in Messages, toHub' = Append(toHub, m),
             m.kind # "chunk" \/ (m.of \in Fetches /\ m.seq = sent[m.of])
      PROVE  \A t \in Fetches : \A j \in Chunks(toHub', t) :
                (\E i \in Chunks(toHub, t) : toHub[i] = toHub'[j]) \/ toHub'[j].seq = sent[t]
  <2>1. PICK p : p = toHub'
    OBVIOUS
  <2>2. /\ DOMAIN toHub = 1..Len(toHub) /\ DOMAIN p = 1..(Len(toHub) + 1) /\ Len(toHub) \in Nat
        /\ \A i \in DOMAIN toHub : p[i] = toHub[i]
        /\ p[Len(toHub) + 1] = m
    BY <1>1, <1>3, <2>1, AppendAt
  <2>3. \A j \in DOMAIN p : (j \in DOMAIN toHub /\ p[j] = toHub[j]) \/ p[j] = m
    BY <2>2
  <2> QED
    BY <1>3, <2>1, <2>3 DEF Chunks
<1>4. ASSUME NEW t \in Fetches, SendChunk(t), toHub' # toHub
      PROVE  \E m \in Messages :
                /\ toHub' = Append(toHub, m)
                /\ m.kind # "chunk" \/ (m.of \in Fetches /\ m.seq = sent[m.of])
  <2>1. PICK m : m = ChunkMsg(t, sent[t])
    OBVIOUS
  <2>2. toHub' = Append(toHub, m)
    BY <1>4, <2>1 DEF SendChunk, Send, SendCursor
  <2>3. m \in Messages /\ m.of = t /\ m.seq = sent[t]
    <3>1. sent[t] \in 0..TotalChunks /\ t \in Requests
      BY <1>1, RegistryAssumption
    <3> QED
      BY <2>1, <3>1 DEF ChunkMsg, Messages
  <2> QED
    BY <2>2, <2>3
<1>5. ASSUME NEW r \in Requests, FinishWork(r) \/ (r \in Fetches /\ FetchDone(r)), toHub' # toHub
      PROVE  \E m \in Messages : toHub' = Append(toHub, m) /\ m.kind # "chunk"
  <2>1. \E c \in BOOLEAN : toHub' = Append(toHub, ResponseMsg(r, c))
    <3>1. CASE FinishWork(r)
      BY <1>5, <3>1 DEF FinishWork, Send
    <3>2. CASE FetchDone(r)
      <4>1. PICK c \in BOOLEAN : c = (job[r] = "sending" /\ acked[r] = TotalChunks)
        OBVIOUS
      <4>2. Send(ResponseMsg(r, c))
        BY <1>5, <3>2, <4>1 DEF FetchDone
      <4> QED
        BY <1>5, <4>2 DEF Send
    <3> QED
      BY <1>5, <3>1, <3>2
  <2> QED
    BY <2>1, ResponseIsMessage
<1>6. ASSUME WorkerStops
      PROVE  \A t \in Fetches : \A j \in Chunks(toHub', t) :
                \E i \in Chunks(toHub, t) : toHub[i] = toHub'[j]
  <2>1. \A t \in Fetches : /\ Chunks(toHub', t) = Chunks(toHub, t)
                           /\ \A i \in Chunks(toHub, t) : toHub'[i] = toHub[i]
    BY <1>6, ErrorsAreAnswers
  <2> QED
    BY <2>1
<1>7. CASE From(toHub', toHub)
  BY <1>2, <1>7
<1>8. CASE \E t \in Fetches : SendChunk(t)
  BY <1>3, <1>4, <1>7, <1>8, FromItself
<1>9. CASE \E r \in Requests : FinishWork(r) \/ (r \in Fetches /\ FetchDone(r))
  BY <1>3, <1>5, <1>7, <1>9, FromItself
<1>10. From(<<>>, toHub)
  BY NoMessages DEF From
<1>11. ASSUME NEW k \in Sockets, ReceiveResponse(k) \/ ReceiveChunk(k)
       PROVE  From(toHub', toHub)
  <2>1. toHub' = toHub \/ (toHub # <<>> /\ toHub' = Tail(toHub))
    <3>1. CASE ReceiveResponse(k)
      BY <3>1, ReadsOne DEF ReceiveResponse
    <3>2. CASE ReceiveChunk(k)
      BY <3>2, ReadsOne DEF ReceiveChunk
    <3> QED
      BY <1>11, <3>1, <3>2
  <2> QED
    BY <1>1, <2>1, FromItself, FromTail
<1>12. WorkerReturns \/ SocketDies => toHub' = <<>>
  BY DEF WorkerReturns, SocketDies, CutSocket
<1>13. \/ toHub' = toHub \/ WorkerReturns \/ SocketDies \/ WorkerStops
       \/ \E k \in Sockets : ReceiveResponse(k) \/ ReceiveChunk(k)
       \/ \E t \in Fetches : SendChunk(t)
       \/ \E r \in Requests : FinishWork(r) \/ (r \in Fetches /\ FetchDone(r))
  <2>1. \A r \in Requests : Ask(r) \/ NoTarget(r) \/ RefuseForShutdown(r) \/ ProxyTimeout(r)
           \/ ClientCloses(SessionOf[r]) => toHub' = toHub
    BY DEF Ask, NoTarget, RefuseForShutdown, ProxyTimeout, ClientCloses
  <2>2. \A t \in Fetches : RefuseTransfer(t) \/ TransferTimeout(t) \/ FetchFails(t) => toHub' = toHub
    BY DEF RefuseTransfer, TransferTimeout, FetchFails
  <2>3. \A k \in Sockets : BrowserCloses(k) \/ (\E r \in Requests : Forward(r, k)) => toHub' = toHub
    BY DEF BrowserCloses, Forward
  <2>4. BeginShutdown \/ Dispose \/ ExtensionReceives \/ Connect \/ UNCHANGED vars => toHub' = toHub
    BY DEF BeginShutdown, Dispose, ExtensionReceives, Connect, vars
  <2>5. Fetches \subseteq Requests
    BY RegistryAssumption
  <2> QED
    BY <2>1, <2>2, <2>3, <2>4, <2>5 DEF Next
<1> QED
  BY <1>6, <1>7, <1>8, <1>9, <1>10, <1>11, <1>12, <1>13, FromItself

\* A file of which every chunk is written stays so.
LEMMA WholeStaysWhole ==
    ASSUME IInv, MInv, EInv, [Next]_vars
    PROVE  \A t \in Fetches : nextSeq[t] = TotalChunks => nextSeq'[t] = TotalChunks
<1>1. nextSeq \in [Fetches -> Nat] /\ \A t \in expected : nextSeq[t] # TotalChunks
  BY RegistryAssumption DEF MInv, ExtensionTypeOK, EInv, IInv, HubTypeOK
<1>2. nextSeq' = nextSeq \/ \E t \in expected : nextSeq' = [nextSeq EXCEPT ![t] = @ + 1]
  <2>1. \A r \in Requests : Ask(r) \/ NoTarget(r) \/ RefuseForShutdown(r) \/ ProxyTimeout(r)
           \/ FinishWork(r) \/ ClientCloses(SessionOf[r]) => nextSeq' = nextSeq
    BY DEF Ask, NoTarget, RefuseForShutdown, ProxyTimeout, FinishWork, ClientCloses, registryVars
  <2>2. \A t \in Fetches : RefuseTransfer(t) \/ TransferTimeout(t) \/ SendChunk(t) \/ FetchFails(t)
           \/ FetchDone(t) => nextSeq' = nextSeq
    BY DEF RefuseTransfer, TransferTimeout, SendChunk, FetchFails, FetchDone, FailTransfers, Drop,
           registryVars
  <2>3. \A k \in Sockets : BrowserCloses(k) \/ (\E r \in Requests : Forward(r, k))
                            \/ ReceiveResponse(k) => nextSeq' = nextSeq
    BY DEF BrowserCloses, Forward, ReceiveResponse, Expect, FailTransfers, Drop, registryVars
  <2>4. BeginShutdown \/ Dispose \/ ExtensionReceives \/ WorkerStops \/ WorkerReturns
           \/ SocketDies \/ Connect \/ UNCHANGED vars => nextSeq' = nextSeq
    BY DEF BeginShutdown, Dispose, ExtensionReceives, WorkerStops, WorkerReturns, SocketDies,
           Connect, FailTransfers, Drop, vars, registryVars
  <2>5. \A k \in Sockets : ReceiveChunk(k) =>
           nextSeq' = nextSeq \/ \E t \in expected : nextSeq' = [nextSeq EXCEPT ![t] = @ + 1]
    BY DEF ReceiveChunk, Verdict, FailTransfers, Drop, DropWhole, Ingest, Land, WriteChunk,
           registryVars
  <2> QED
    BY <2>1, <2>2, <2>3, <2>4, <2>5 DEF Next
<1> QED
  BY <1>1, <1>2

LEMMA Next_LateFirst == IInv /\ MInv /\ LateSent /\ EInv /\ LateFirst /\ [Next]_vars => LateFirst'
<1> SUFFICES ASSUME IInv, MInv, LateSent, EInv, LateFirst, [Next]_vars, NEW k \in Sockets
             PROVE  /\ DeliversAll(late'[k], nextSeq')
                    /\ \A t \in Fetches : Behind(late'[k], toHub', t)
  BY DEF LateFirst
<1>1. From(late'[k], late[k]) \/ (From(late'[k], toHub) /\ toHub' = <<>>)
  BY LateComesFrom
<1>2. DeliversAll(late'[k], nextSeq')
  <2>1. DeliversAll(late[k], nextSeq) /\ DeliversAll(toHub, nextSeq)
    BY DEF LateFirst, EInv
  <2>2. DeliversAll(late'[k], nextSeq)
    BY <1>1, <2>1 DEF From, DeliversAll
  <2> QED
    BY <2>2, WholeStaysWhole DEF DeliversAll, Delivers
<1>3. CASE toHub' = <<>>
  BY <1>2, <1>3, NoMessages DEF Behind
<1>4. ASSUME From(late'[k], late[k]), NEW t \in Fetches
      PROVE  Behind(late'[k], toHub', t)
  <2>1. /\ Behind(late[k], toHub, t) /\ Between(late[k], Chunks(late[k], t), 0, sent[t])
    BY DEF LateFirst, LateSent
  <2>2. \A i \in Chunks(late'[k], t) : \E n \in Chunks(late[k], t) : late'[k][i] = late[k][n]
    BY <1>4 DEF From, Chunks
  <2>3. \A j \in Chunks(toHub', t) : \/ \E i \in Chunks(toHub, t) : toHub[i] = toHub'[j]
                                     \/ toHub'[j].seq = sent[t]
    BY ChunksComeFrom
  <2> SUFFICES ASSUME NEW i \in Chunks(late'[k], t), NEW j \in Chunks(toHub', t)
               PROVE  late'[k][i].seq < toHub'[j].seq
    BY DEF Behind
  <2>4. PICK n \in Chunks(late[k], t) : late'[k][i] = late[k][n]
    BY <2>2
  <2>5. CASE \E m \in Chunks(toHub, t) : toHub[m] = toHub'[j]
    BY <2>1, <2>4, <2>5 DEF Behind
  <2>6. CASE toHub'[j].seq = sent[t]
    BY <2>1, <2>4, <2>6 DEF Between
  <2> QED
    BY <2>3, <2>5, <2>6
<1> QED
  BY <1>1, <1>2, <1>3, <1>4

LEMMA EInvHolds == Spec => [](IInv /\ MInv /\ LateSent /\ EInv /\ LateFirst)
<1>1. Init => EInv /\ LateFirst
  <2>1. Init => LateFirst
    BY NoMessages DEF Init, LateFirst, DeliversAll, Behind
  <2> QED
    BY <2>1, Init_EInv
<1>2. IInv /\ MInv /\ LateSent /\ EInv /\ LateFirst /\ [Next]_vars => EInv' /\ LateFirst'
  BY Next_EInv, Next_LateFirst
<1> QED
  BY <1>1, <1>2, MInvHolds, PTL DEF Spec

\* A response that says a file was delivered finds its transfer settled: the hub writes every
\* chunk before it acknowledges the last, and settles in that step, with its hash right or wrong.
THEOREM SuccessIsSettled == Spec => []SuccessComesSettled
<1>1. ASSUME IInv, MInv, LateSent, EInv, LateFirst
      PROVE  SuccessComesSettled
  <2> SUFFICES ASSUME NEW k \in Sockets, NEW i \in DOMAIN Unread(k), NEW m, m = Unread(k)[i],
                      m.kind = "response", m.ok, m.of \in Fetches
               PROVE  nextSeq[m.of] = TotalChunks /\ m.of \notin expected \cup Pending
    BY DEF SuccessComesSettled
  <2>1. PICK q : q = Unread(k)
    OBVIOUS
  <2>2. q \in Seq(Messages) /\ DeliversAll(q, nextSeq)
    BY <1>1, <2>1 DEF Unread, MInv, ExtensionTypeOK, LateSent, EInv, LateFirst
  <2>3. m.ok = TRUE
    BY <2>1, <2>2, MessageAt DEF Messages
  <2>4. nextSeq[m.of] = TotalChunks
    BY <2>1, <2>2, <2>3 DEF DeliversAll, Delivers
  <2>5. m.of \notin expected
    BY <1>1, <2>4, RegistryAssumption DEF EInv
  <2> QED
    BY <1>1, <2>4, <2>5 DEF IInv, HeldAnswersAreReleased
<1> QED
  BY <1>1, EInvHolds, PTL

\* ACK_WINDOW bounds the chunks of a file that wait in the socket, whatever became of its transfer.
THEOREM WindowBoundsTheWire == Spec => []WindowIsKept
<1>1. ASSUME IInv, MInv, EInv
      PROVE  WindowIsKept
  <2> SUFFICES ASSUME NEW t \in Fetches
               PROVE  Cardinality(ChunksUnderWay(t)) <= Window
    BY DEF WindowIsKept
  <2>1. PICK C, low, high : C = Chunks(toHub, t) /\ low = nextSeq[t] /\ high = sent[t]
    OBVIOUS
  <2>2. ChunksUnderWay(t) = C
    BY <2>1 DEF ChunksUnderWay, Chunks
  <2>3. /\ low \in Nat /\ high \in Nat /\ low <= high /\ high <= low + Window
        /\ InOrder(toHub, C) /\ Between(toHub, C, low, high)
    <3>1. /\ nextSeq[t] \in Nat /\ sent[t] \in Nat /\ acked[t] \in Nat /\ acked[t] <= nextSeq[t]
          /\ nextSeq[t] <= sent[t] /\ sent[t] <= acked[t] + Window
      BY <1>1 DEF MInv, ExtensionTypeOK, InStep, EInv
    <3>2. Backlog(toHub, t, nextSeq[t], sent[t])
      BY <1>1 DEF EInv
    <3> QED
      BY <2>1, <3>1, <3>2, ProxyAssumption DEF Backlog
  <2>4. C \in SUBSET Nat /\ \A i \in C : toHub[i].seq \in Nat
    BY <1>1, <2>1, MessageAt DEF Chunks, MInv, ExtensionTypeOK
  <2>5. PICK number : number = [i \in C |-> toHub[i].seq]
    OBVIOUS
  <2>6. number \in Injection(C, low..(high - 1))
    <3>1. \A i \in C : toHub[i].seq \in low..(high - 1)
      BY <2>3, <2>4 DEF Between
    <3>2. number \in [C -> low..(high - 1)]
      BY <2>5, <3>1
    <3>3. ASSUME NEW i \in C, NEW j \in C, number[i] = number[j]
          PROVE  i = j
      <4>1. ~ (i < j) /\ ~ (j < i)
        BY <2>3, <2>4, <2>5, <3>3 DEF InOrder
      <4> QED
        BY <2>4, <4>1
    <3> QED
      BY <3>2, <3>3 DEF Injection, IsInjective
  <2>7. /\ IsFiniteSet(low..(high - 1))
        /\ Cardinality(low..(high - 1)) <= Window /\ Cardinality(low..(high - 1)) \in Nat
    <3>1. low \in Int /\ high - 1 \in Int
      BY <2>3
    <3>2. /\ IsFiniteSet(low..(high - 1))
          /\ Cardinality(low..(high - 1)) = IF low > high - 1 THEN 0 ELSE (high - 1) - low + 1
      BY <3>1, FS_Interval
    <3> QED
      BY <2>3, <3>2, ProxyAssumption
  <2>8. Cardinality(C) <= Cardinality(low..(high - 1)) /\ IsFiniteSet(C)
    BY <2>6, <2>7, FS_Injection
  <2> QED
    BY <2>2, <2>7, <2>8, FS_CardinalityType, ProxyAssumption
<1> QED
  BY <1>1, EInvHolds, PTL
==============================================================================
