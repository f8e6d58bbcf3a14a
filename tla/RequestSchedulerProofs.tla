----------------------- MODULE RequestSchedulerProofs -----------------------
(***************************************************************************)
(* Proofs about RequestScheduler, for any requests, tabs, sessions and      *)
(* bounds.                                                                 *)
(*                                                                         *)
(* The inductive invariant adds to the properties the runs check that a    *)
(* request being executed is the active entry of its queue, that a handler *)
(* belongs to a request being executed or expired, and that no two queued  *)
(* requests share a turn: the execute() of an entry hands its queue to     *)
(* exactly one other, the first whose deadline has not passed.             *)
(* The refinement of ServedInTurn at the end needs no more than that.      *)
(***************************************************************************)
EXTENDS RequestScheduler, FiniteSetTheorems, WellFoundedInduction, TLAPS

QueuedRequests == {r \in Requests : fate[r] = "queued"}

\* The queue of an entry is known as long as the entry or its handler is around.
EntriesHaveMeta ==
    \A r \in Requests :
       fate[r] \in {"queued", "running"} \/ r \in working => meta[r] \in Metas

RunningIsActive ==
    \A r \in Requests :
       fate[r] = "running" /\ QueueOf(r) \in Queues => active[QueueOf(r)] = r

HandlersAreKnown ==
    \A r \in working : fate[r] \in {"running", "REQUEST_EXPIRED"}

TurnsDiffer ==
    /\ \A r \in Requests : turn[r] <= arrivals
    /\ \A r, d \in QueuedRequests : turn[r] = turn[d] => r = d

IdleIsNotOverdue == \A r \in overdue : fate[r] # "idle"

IInv ==
    /\ TypeOK
    /\ QueuesAreServed
    /\ EntriesHaveMeta
    /\ RunningIsActive
    /\ HandlersAreKnown
    /\ TurnsDiffer
    /\ IdleIsNotOverdue
    /\ PendingIsExact
    /\ BoundsHold
    /\ ClosedSessionsDoNotQueue

-----------------------------------------------------------------------------
(* What execute() finds behind an entry                                    *)

\* A nonempty set of requests has one that was queued first.
LEMMA SomeoneIsFirst ==
    ASSUME NEW W \in SUBSET Requests, W # {}, turn \in [Requests -> Nat]
    PROVE  \E c \in W : \A d \in W : turn[c] <= turn[d]
<1> DEFINE T == {turn[c] : c \in W}
<1>1. T \subseteq Nat /\ T # {}
  OBVIOUS
<1>2. PICK x \in T : \A y \in T : ~ (<<y, x>> \in OpToRel(<, Nat))
  BY <1>1, NatLessThanWellFounded, WFMin, Zenon
<1>3. \A y \in T : ~ (y < x)
  BY <1>1, <1>2 DEF OpToRel
<1>4. PICK c \in W : turn[c] = x
  OBVIOUS
<1>5. \A d \in W : turn[c] <= turn[d]
  BY <1>1, <1>3, <1>4
<1>6. QED
  BY <1>5

\* The successor is the first of the entries left once the expired ones at the head are gone.
LEMMA SuccessorIsFirst ==
    ASSUME NEW E \in SUBSET Requests, turn \in [Requests -> Nat]
    PROVE  /\ Unexpired(E) = {} => Successor(E) = NoRequest
           /\ Unexpired(E) # {} =>
                 /\ Successor(E) \in Unexpired(E)
                 /\ \A d \in Unexpired(E) : turn[Successor(E)] <= turn[d]
           /\ Skipped(E) \subseteq E
           /\ Unexpired(E) \subseteq E
           /\ LeftOf(E) \subseteq Unexpired(E)
<1>1. Unexpired(E) \subseteq E /\ Skipped(E) \subseteq E /\ LeftOf(E) \subseteq Unexpired(E)
  BY DEF Unexpired, Skipped, LeftOf
<1>2. CASE Unexpired(E) = {}
  BY <1>1, <1>2 DEF Successor
<1>3. CASE Unexpired(E) # {}
  <2>1. \E c \in Unexpired(E) : \A d \in Unexpired(E) : turn[c] <= turn[d]
    BY <1>1, <1>3, SomeoneIsFirst
  <2>2. QED
    BY <1>1, <1>3, <2>1 DEF Successor
<1>4. QED
  BY <1>2, <1>3

\* Everything behind an entry is queued, for the queue of that entry.
LEMMA BehindIsQueued ==
    ASSUME IInv, NEW r \in Requests
    PROVE  /\ Behind(r) \in SUBSET Requests
           /\ \A d \in Behind(r) : fate[d] = "queued" /\ QueueOf(d) = QueueOf(r)
           /\ Behind(r) # {} => QueueOf(r) \in Queues
           /\ QueueOf(r) \in Queues => Behind(r) = entries[QueueOf(r)]
           /\ \A d \in QueuedRequests : QueueOf(d) = QueueOf(r) => d \in Behind(r)
  BY DEF IInv, TypeOK, QueuesAreServed, Behind, QueuedRequests

-----------------------------------------------------------------------------
(* One entry is answered and its queue moves on                            *)

\* The entry a queue moves on to is queued in it, has not expired, and comes before every
\* entry that stays.
LEMMA SuccessorIsFit ==
    ASSUME IInv, NEW r \in Requests, fate[r] = "running", Successor(Behind(r)) # NoRequest
    PROVE  LET s == Successor(Behind(r)) IN
           /\ s \in Behind(r) \ Skipped(Behind(r))
           /\ s \in Requests /\ s # r
           /\ fate[s] = "queued" /\ QueueOf(s) = QueueOf(r)
           /\ s \notin overdue
           /\ \A d \in LeftOf(Behind(r)) : turn[s] < turn[d]
<1> DEFINE E == Behind(r)
           s == Successor(E)
<1>1. E \in SUBSET Requests /\ \A d \in E : fate[d] = "queued" /\ QueueOf(d) = QueueOf(r)
  BY BehindIsQueued
<1>2. turn \in [Requests -> Nat]
  BY DEF IInv, TypeOK
<1> HIDE DEF E
<1>3. s \in Unexpired(E) /\ \A d \in Unexpired(E) : turn[s] <= turn[d]
  BY <1>1, <1>2, SuccessorIsFirst DEF E
<1> HIDE DEF s
<1>4. s \in E \ Skipped(E) /\ s \in Requests /\ fate[s] = "queued" /\ QueueOf(s) = QueueOf(r)
  BY <1>1, <1>3 DEF Unexpired
<1>5. \A d \in E : turn[d] = turn[s] => d = s
  BY <1>1, <1>4 DEF IInv, TurnsDiffer, QueuedRequests
<1>6. s \notin overdue
  <2>1. PICK d \in E : turn[d] <= turn[s] /\ d \notin overdue
    BY <1>4 DEF Skipped
  <2>2. d \notin Skipped(E)
    BY <1>1, <1>2, <2>1 DEF Skipped
  <2>3. turn[s] <= turn[d]
    BY <1>3, <2>1, <2>2 DEF Unexpired
  <2>4. d = s
    BY <1>1, <1>2, <1>4, <1>5, <2>1, <2>3
  <2>5. QED
    BY <2>1, <2>4
<1>7. \A d \in LeftOf(E) : turn[s] < turn[d]
  <2> SUFFICES ASSUME NEW d \in LeftOf(E) PROVE turn[s] < turn[d]
    OBVIOUS
  <2>1. d \in Unexpired(E) /\ d # s
    BY DEF LeftOf, s
  <2>2. d \in E /\ d \in Requests
    BY <1>1, <2>1 DEF Unexpired
  <2>3. QED
    BY <1>2, <1>3, <1>4, <1>5, <2>1, <2>2
<1>8. s # r
  BY <1>4
<1>9. QED
  BY <1>4, <1>6, <1>7, <1>8 DEF E, s

\* The end of an entry, by its handler or by its deadline, keeps the invariant.
LEMMA SettleStep ==
    ASSUME IInv, NEW r \in Requests, NEW answer \in Answers, NEW handlers \in SUBSET working,
           fate[r] = "running", r \in handlers => answer = "REQUEST_EXPIRED",
           Settle(r, answer, handlers)
    PROVE  IInv'
<1> DEFINE E == Behind(r)
           s == Successor(E)
           K == Skipped(E)
           L == LeftOf(E)
           p == QueueOf(r)
<1>1. /\ active' = [q \in Queues |-> IF q = p THEN s ELSE active[q]]
      /\ entries' = [q \in Queues |-> IF q = p THEN L ELSE entries[q]]
      /\ pending' = PendingAfter(E)
      /\ fate' = [d \in Requests |-> IF d = r THEN answer
                                     ELSE IF d \in K THEN "REQUEST_EXPIRED"
                                     ELSE IF d = s THEN "running" ELSE fate[d]]
      /\ working' = handlers \cup ({s} \ {NoRequest})
      /\ UNCHANGED <<meta, turn, arrivals, overdue, closed, restarts>>
  BY DEF Settle
<1>2. /\ E \in SUBSET Requests
      /\ \A d \in E : fate[d] = "queued" /\ QueueOf(d) = p
      /\ E # {} => p \in Queues
      /\ p \in Queues => E = entries[p]
      /\ \A d \in QueuedRequests : QueueOf(d) = p => d \in E
  BY BehindIsQueued
<1>3. turn \in [Requests -> Nat]
  BY DEF IInv, TypeOK
<1>4. /\ K \subseteq E /\ L = (E \ K) \ {s} /\ L \subseteq E
      /\ L # {} => s # NoRequest
      /\ s # NoRequest => s \in E \ K /\ s \in Requests /\ s # r /\ fate[s] = "queued"
                          /\ QueueOf(s) = p
  <2>1. K \subseteq E /\ L = (E \ K) \ {s}
    BY DEF Skipped, LeftOf, Unexpired
  <2>2. L # {} => s # NoRequest
    <3>1. Unexpired(E) \subseteq E /\ (Unexpired(E) # {} => s \in Unexpired(E))
      BY <1>2, <1>3, SuccessorIsFirst
    <3>2. L # {} => Unexpired(E) # {}
      BY DEF LeftOf
    <3>3. QED
      BY <1>2, <3>1, <3>2, SchedulerAssumption
  <2>3. QED
    BY <2>1, <2>2, SuccessorIsFit
<1>5. NoRequest \notin Requests /\ Unqueued \notin Queues
  BY SchedulerAssumption
<1>6. r \notin E /\ r \notin K /\ r \notin L
  BY <1>2, <1>4
<1> HIDE DEF E, s, K, L, p
<1>7. \A d \in Requests :
         fate'[d] = "queued" <=> fate[d] = "queued" /\ d \notin E \ L
  <2> SUFFICES ASSUME NEW d \in Requests
               PROVE  fate'[d] = "queued" <=> fate[d] = "queued" /\ d \notin E \ L
    OBVIOUS
  <2>1. CASE d = r
    BY <1>1, <2>1 DEF Answers
  <2>2. CASE d # r /\ d \in K
    BY <1>1, <1>4, <2>2
  <2>3. CASE d # r /\ d \notin K /\ d = s
    BY <1>1, <1>4, <1>5, <2>3
  <2>4. CASE d # r /\ d \notin K /\ d # s
    BY <1>1, <1>4, <2>4
  <2>5. QED
    BY <2>1, <2>2, <2>3, <2>4
<1>8. IsFiniteSet(QueuedRequests) /\ QueuedRequests \subseteq Requests
  BY FS_Subset, SchedulerAssumption DEF QueuedRequests
<1>9. pending' = Cardinality(QueuedRequests') /\ pending' \in Nat /\ pending' <= pending
  <2>1. QueuedRequests' = QueuedRequests \ (E \ L)
    BY <1>7 DEF QueuedRequests
  <2>2. QueuedRequests \cap (E \ L) = E \ L
    BY <1>2 DEF QueuedRequests
  <2>3. pending = Cardinality(QueuedRequests)
    BY DEF IInv, PendingIsExact, QueuedRequests
  <2>4. /\ IsFiniteSet(QueuedRequests')
        /\ Cardinality(QueuedRequests') = Cardinality(QueuedRequests) - Cardinality(E \ L)
    <3>1. /\ IsFiniteSet(QueuedRequests \ (E \ L))
          /\ Cardinality(QueuedRequests \ (E \ L))
                = Cardinality(QueuedRequests) - Cardinality(QueuedRequests \cap (E \ L))
      BY <1>8, FS_Difference
    <3>2. QED
      BY <2>1, <2>2, <3>1
  <2>5. IsFiniteSet(E \ L)
    BY <1>8, <2>2, FS_Intersection
  <2>6. pending' = pending - Cardinality(E \ L)
    BY <1>1 DEF PendingAfter, L
  <2>7. Cardinality(QueuedRequests') \in Nat /\ Cardinality(E \ L) \in Nat
        /\ Cardinality(QueuedRequests) \in Nat
    BY <1>8, <2>4, <2>5, FS_CardinalityType
  <2>8. QED
    BY <2>3, <2>4, <2>6, <2>7
<1>10. TypeOK'
  BY <1>1, <1>2, <1>4, <1>9 DEF IInv, TypeOK, Fates, Answers
<1>11. QueuesAreServed'
  <2>1. \A q \in Queues : entries'[q] # {} => active'[q] # NoRequest
    <3> SUFFICES ASSUME NEW q \in Queues, entries'[q] # {} PROVE active'[q] # NoRequest
      OBVIOUS
    <3>1. CASE q = p
      BY <1>1, <1>4, <3>1
    <3>2. CASE q # p
      BY <1>1, <3>2 DEF IInv, QueuesAreServed
    <3>3. QED
      BY <3>1, <3>2
  <2>2. \A q \in Queues : active'[q] # NoRequest =>
           fate'[active'[q]] = "running" /\ meta'[active'[q]].queue = q
    <3> SUFFICES ASSUME NEW q \in Queues, active'[q] # NoRequest
                 PROVE  fate'[active'[q]] = "running" /\ meta[active'[q]].queue = q
      BY <1>1
    <3>1. CASE q = p
      BY <1>1, <1>4, <3>1 DEF QueueOf
    <3>2. CASE q # p
      <4>1. active'[q] = active[q] /\ active[q] \in Requests
        BY <1>1, <3>2 DEF IInv, TypeOK
      <4>2. fate[active[q]] = "running" /\ QueueOf(active[q]) = q
        BY <4>1 DEF IInv, QueuesAreServed
      <4>3. active[q] # r /\ active[q] \notin K /\ active[q] # s
        BY <1>2, <1>4, <3>2, <4>1, <4>2, <1>5 DEF p
      <4>4. QED
        BY <1>1, <4>1, <4>2, <4>3 DEF QueueOf
    <3>3. QED
      BY <3>1, <3>2
  <2>3. \A q \in Queues : \A d \in entries'[q] : fate'[d] = "queued" /\ meta'[d].queue = q
    <3> SUFFICES ASSUME NEW q \in Queues, NEW d \in entries'[q]
                 PROVE  fate'[d] = "queued" /\ meta[d].queue = q
      BY <1>1
    <3>1. CASE q = p
      BY <1>1, <1>2, <1>4, <1>7, <3>1 DEF QueueOf
    <3>2. CASE q # p
      <4>1. d \in entries[q] /\ d \in Requests
        BY <1>1, <3>2 DEF IInv, TypeOK
      <4>2. fate[d] = "queued" /\ QueueOf(d) = q
        BY <4>1 DEF IInv, QueuesAreServed
      <4>3. d \notin E
        BY <1>2, <3>2, <4>2
      <4>4. QED
        BY <1>7, <4>1, <4>2, <4>3 DEF QueueOf
    <3>3. QED
      BY <3>1, <3>2
  <2>4. \A d \in Requests : fate'[d] = "queued" => d \in Behind(d)'
    <3> SUFFICES ASSUME NEW d \in Requests, fate'[d] = "queued"
                 PROVE  d \in Behind(d)'
      OBVIOUS
    <3>1. fate[d] = "queued" /\ d \notin E \ L
      BY <1>7
    <3>2. d \in Behind(d)
      BY <3>1 DEF IInv, QueuesAreServed
    <3>3. QueueOf(d) \in Queues /\ d \in entries[QueueOf(d)] /\ QueueOf(d)' = QueueOf(d)
      BY <1>1, <3>2 DEF Behind, QueueOf
    <3>4. QED
      BY <1>1, <1>2, <3>1, <3>3 DEF Behind
  <2>5. QED
    BY <2>1, <2>2, <2>3, <2>4 DEF QueuesAreServed, QueueOf
<1>12. EntriesHaveMeta'
  <2> SUFFICES ASSUME NEW d \in Requests,
                      fate'[d] \in {"queued", "running"} \/ d \in working'
               PROVE  meta[d] \in Metas
    BY <1>1 DEF EntriesHaveMeta
  <2>1. fate[d] \in {"queued", "running"} \/ d \in working
    <3>1. CASE d = r \/ d = s
      BY <1>4, <1>5, <3>1
    <3>2. CASE d # r /\ d # s /\ d \in working'
      BY <1>1, <3>2
    <3>3. CASE d # r /\ d # s /\ fate'[d] \in {"queued", "running"}
      BY <1>1, <3>3
    <3>4. QED
      BY <3>1, <3>2, <3>3
  <2>2. QED
    BY <2>1 DEF IInv, EntriesHaveMeta
<1>13. RunningIsActive'
  <2> SUFFICES ASSUME NEW d \in Requests, fate'[d] = "running", QueueOf(d) \in Queues
               PROVE  active'[QueueOf(d)] = d
    BY <1>1 DEF RunningIsActive, QueueOf
  <2>1. d # r /\ d \notin K
    BY <1>1 DEF Answers
  <2>2. CASE d = s
    BY <1>1, <1>4, <1>5, <2>2
  <2>3. CASE d # s
    <3>1. fate[d] = "running"
      BY <1>1, <2>1, <2>3
    <3>2. active[QueueOf(d)] = d
      BY <3>1 DEF IInv, RunningIsActive
    <3>3. QueueOf(d) # p
      BY <2>1, <3>2 DEF IInv, RunningIsActive, p
    <3>4. QED
      BY <1>1, <3>2, <3>3
  <2>4. QED
    BY <2>2, <2>3
<1>14. HandlersAreKnown'
  <2> SUFFICES ASSUME NEW d \in working'
               PROVE  fate'[d] \in {"running", "REQUEST_EXPIRED"}
    BY DEF HandlersAreKnown
  <2>1. CASE d = s /\ s # NoRequest
    BY <1>1, <1>4, <2>1
  <2>2. CASE d \in handlers
    BY <1>1, <2>2 DEF IInv, HandlersAreKnown, TypeOK
  <2>3. QED
    BY <1>1, <2>1, <2>2
<1>15. TurnsDiffer'
  <2>1. QueuedRequests' \subseteq QueuedRequests
    BY <1>7 DEF QueuedRequests
  <2>2. QED
    BY <1>1, <2>1 DEF IInv, TurnsDiffer
<1>16. IdleIsNotOverdue'
  BY <1>1 DEF IInv, IdleIsNotOverdue, TypeOK, Answers
<1>17. PendingIsExact'
  BY <1>9 DEF PendingIsExact, QueuedRequests
<1>18. BoundsHold'
  <2>1. pending' <= MaxPendingGlobal
    <3>1. pending <= MaxPendingGlobal /\ pending \in Nat
      BY DEF IInv, TypeOK, BoundsHold
    <3>2. QED
      BY <1>9, <3>1, SchedulerAssumption
  <2>2. ASSUME NEW t \in Tabs PROVE Cardinality(entries'[t]) <= MaxPendingPerTab
    <3>1. entries[t] \in SUBSET Requests /\ entries'[t] \in SUBSET entries[t] /\ t \in Queues
      BY <1>1, <1>2, <1>4 DEF IInv, TypeOK, Queues
    <3>2. IsFiniteSet(entries[t])
      BY <3>1, FS_Subset, SchedulerAssumption
    <3>3. /\ Cardinality(entries'[t]) <= Cardinality(entries[t])
          /\ IsFiniteSet(entries'[t])
      BY <3>1, <3>2, FS_Subset
    <3>4. Cardinality(entries'[t]) \in Nat /\ Cardinality(entries[t]) \in Nat
      BY <3>2, <3>3, FS_CardinalityType
    <3>5. Cardinality(entries[t]) <= MaxPendingPerTab
      BY DEF IInv, BoundsHold
    <3>6. QED
      BY <3>3, <3>4, <3>5, SchedulerAssumption
  <2>3. QED
    BY <2>1, <2>2 DEF BoundsHold
<1>19. ClosedSessionsDoNotQueue'
  BY <1>1, <1>7 DEF IInv, ClosedSessionsDoNotQueue, SessionOf
<1>20. QED
  BY <1>10, <1>11, <1>12, <1>13, <1>14, <1>15, <1>16, <1>17, <1>18, <1>19 DEF IInv

-----------------------------------------------------------------------------
(* A request is dispatched                                                 *)

\* An idle request is in no queue and has no handler.
LEMMA IdleIsNowhere ==
    ASSUME IInv, NEW r \in Requests, fate[r] = "idle"
    PROVE  /\ r \notin working /\ r \notin overdue /\ r \notin QueuedRequests
           /\ \A q \in Queues : r # active[q] /\ r \notin entries[q]
  BY SchedulerAssumption
     DEF IInv, TypeOK, HandlersAreKnown, IdleIsNotOverdue, QueuesAreServed, QueuedRequests

LEMMA QueuedIsFinite == IsFiniteSet(QueuedRequests) /\ Cardinality(QueuedRequests) \in Nat
  BY FS_Subset, FS_CardinalityType, SchedulerAssumption DEF QueuedRequests

\* A request answered without an entry.
LEMMA RefusedStep ==
    ASSUME IInv, NEW r \in Requests, NEW answer \in Answers, fate[r] = "idle",
           UNCHANGED <<overdue, closed, restarts>>, Refused(r, answer)
    PROVE  IInv'
<1>1. /\ fate' = [fate EXCEPT ![r] = answer]
      /\ UNCHANGED <<meta, turn, arrivals, active, entries, pending, working, overdue, closed,
                     restarts>>
  BY DEF Refused
<1>2. /\ fate \in [Requests -> Fates]
      /\ \A d \in Requests : fate'[d] = IF d = r THEN answer ELSE fate[d]
  BY <1>1 DEF IInv, TypeOK
<1>3. /\ r \notin working /\ r \notin overdue /\ r \notin QueuedRequests
      /\ \A q \in Queues : r # active[q] /\ r \notin entries[q]
  BY IdleIsNowhere
<1>4. answer \notin {"idle", "queued", "running"}
  BY DEF Answers
<1>5. QueuedRequests' = QueuedRequests
  BY <1>2, <1>3, <1>4 DEF QueuedRequests
<1>6. TypeOK'
  BY <1>1 DEF IInv, TypeOK, Fates
<1>7. QueuesAreServed'
  <2>1. \A q \in Queues : active[q] # NoRequest => active[q] \in Requests
    BY DEF IInv, TypeOK
  <2>2. \A q \in Queues : entries[q] \subseteq Requests
    BY DEF IInv, TypeOK
  <2>3. \A d \in Requests : Behind(d)' = Behind(d) /\ QueueOf(d)' = QueueOf(d)
    BY <1>1 DEF Behind, QueueOf
  <2>4. \A q \in Queues :
          /\ entries'[q] # {} => active'[q] # NoRequest
          /\ active'[q] # NoRequest =>
                fate'[active'[q]] = "running" /\ meta'[active'[q]].queue = q
          /\ \A d \in entries'[q] : fate'[d] = "queued" /\ meta'[d].queue = q
    BY <1>1, <1>2, <1>3, <2>1, <2>2 DEF IInv, QueuesAreServed, QueueOf
  <2>5. \A d \in Requests : fate'[d] = "queued" => d \in Behind(d)'
    BY <1>2, <1>4, <2>3 DEF IInv, QueuesAreServed
  <2>6. QED
    BY <2>4, <2>5 DEF QueuesAreServed, QueueOf
<1>8. EntriesHaveMeta'
  BY <1>1, <1>2, <1>4 DEF IInv, EntriesHaveMeta
<1>9. RunningIsActive'
  BY <1>1, <1>2, <1>4 DEF IInv, RunningIsActive, QueueOf
<1>10. HandlersAreKnown'
  BY <1>1, <1>2, <1>3 DEF IInv, HandlersAreKnown, TypeOK
<1>11. TurnsDiffer'
  BY <1>1, <1>5 DEF IInv, TurnsDiffer
<1>12. IdleIsNotOverdue'
  BY <1>1, <1>2, <1>3 DEF IInv, IdleIsNotOverdue, TypeOK
<1>13. PendingIsExact' /\ BoundsHold'
  BY <1>1, <1>5 DEF IInv, PendingIsExact, BoundsHold, QueuedRequests
<1>14. ClosedSessionsDoNotQueue'
  BY <1>1, <1>2, <1>4 DEF IInv, ClosedSessionsDoNotQueue, SessionOf
<1>15. QED
  BY <1>6, <1>7, <1>8, <1>9, <1>10, <1>11, <1>12, <1>13, <1>14 DEF IInv

LEMMA EnqueueStep ==
    ASSUME IInv, NEW r \in Requests, NEW s \in Sessions, NEW q \in Queues \cup {Unqueued},
           Enqueue(r, s, q)
    PROVE  IInv'
<1> DEFINE m == [session |-> s, queue |-> q]
<1>1. /\ fate[r] = "idle" /\ s \notin closed
      /\ q \in Queues /\ active[q] # NoRequest
      /\ q \in Tabs => ~ (Cardinality(entries[q]) >= MaxPendingPerTab)
      /\ ~ (pending >= MaxPendingGlobal)
      /\ meta' = [meta EXCEPT ![r] = m]
      /\ turn' = [turn EXCEPT ![r] = arrivals + 1]
      /\ arrivals' = arrivals + 1
      /\ entries' = [entries EXCEPT ![q] = @ \cup {r}]
      /\ pending' = pending + 1
      /\ fate' = [fate EXCEPT ![r] = "queued"]
      /\ UNCHANGED <<active, working, overdue, closed, restarts>>
  BY DEF Enqueue, Dispatched, Barred, Busy, Full
<1>2. TypeOK
  BY DEF IInv
<1>3. /\ \A d \in Requests : fate'[d] = IF d = r THEN "queued" ELSE fate[d]
      /\ \A d \in Requests : meta'[d] = IF d = r THEN m ELSE meta[d]
      /\ \A d \in Requests : turn'[d] = IF d = r THEN arrivals + 1 ELSE turn[d]
      /\ \A p \in Queues : entries'[p] = IF p = q THEN entries[q] \cup {r} ELSE entries[p]
  BY <1>1, <1>2 DEF TypeOK
<1>4. /\ r \notin working /\ r \notin overdue /\ r \notin QueuedRequests
      /\ \A p \in Queues : r # active[p] /\ r \notin entries[p]
  BY <1>1, IdleIsNowhere
<1>5. m \in Metas /\ m.queue = q /\ m.session = s
  BY DEF Metas
<1> HIDE DEF m
<1>6. QueuedRequests' = QueuedRequests \cup {r}
  BY <1>3 DEF QueuedRequests
<1>7. TypeOK'
  BY <1>1, <1>2, <1>5 DEF TypeOK, Fates
<1>8. QueuesAreServed'
  <2>1. \A p \in Queues : active[p] # NoRequest => active[p] \in Requests
    BY <1>2 DEF TypeOK
  <2>2. \A p \in Queues : entries[p] \subseteq Requests
    BY <1>2 DEF TypeOK
  <2>3. \A p \in Queues :
          /\ entries'[p] # {} => active'[p] # NoRequest
          /\ active'[p] # NoRequest =>
                fate'[active'[p]] = "running" /\ meta'[active'[p]].queue = p
    BY <1>1, <1>3, <1>4, <2>1 DEF IInv, QueuesAreServed, QueueOf
  <2>4. \A p \in Queues : \A d \in entries'[p] : fate'[d] = "queued" /\ meta'[d].queue = p
    BY <1>3, <1>4, <1>5, <2>2 DEF IInv, QueuesAreServed, QueueOf
  <2>5. ASSUME NEW d \in Requests, fate'[d] = "queued"
        PROVE  d \in IF meta'[d].queue \in Queues THEN entries'[meta'[d].queue] ELSE {}
    <3>1. CASE d = r
      BY <1>1, <1>3, <1>5, <3>1
    <3>2. CASE d # r
      <4>1. fate[d] = "queued" /\ meta'[d] = meta[d]
        BY <1>3, <2>5, <3>2
      <4>2. QueueOf(d) \in Queues /\ d \in entries[QueueOf(d)]
        BY <4>1 DEF IInv, QueuesAreServed, Behind
      <4>3. QED
        BY <1>3, <4>1, <4>2 DEF QueueOf
    <3>3. QED
      BY <3>1, <3>2
  <2>6. QED
    BY <2>3, <2>4, <2>5 DEF QueuesAreServed, QueueOf, Behind
<1>9. EntriesHaveMeta'
  BY <1>1, <1>3, <1>5 DEF IInv, EntriesHaveMeta
<1>10. RunningIsActive'
  <2> SUFFICES ASSUME NEW d \in Requests, fate'[d] = "running", meta'[d].queue \in Queues
               PROVE  active'[meta'[d].queue] = d
    BY DEF RunningIsActive, QueueOf
  <2>1. d # r
    BY <1>3
  <2>2. QED
    BY <1>1, <1>3, <2>1 DEF IInv, RunningIsActive, QueueOf
<1>11. HandlersAreKnown'
  BY <1>1, <1>2, <1>3, <1>4 DEF IInv, HandlersAreKnown, TypeOK
<1>12. TurnsDiffer'
  <2>1. \A d \in Requests : turn[d] <= arrivals /\ turn[d] \in Nat /\ arrivals \in Nat
    BY <1>2 DEF IInv, TurnsDiffer, TypeOK
  <2>2. \A d \in Requests : turn'[d] <= arrivals'
    BY <1>1, <1>3, <2>1
  <2>3. \A d, e \in QueuedRequests' : turn'[d] = turn'[e] => d = e
    <3>1. \A d, e \in QueuedRequests : turn[d] = turn[e] => d = e
      BY DEF IInv, TurnsDiffer
    <3>2. \A d \in QueuedRequests : d \in Requests /\ d # r
      BY <1>4 DEF QueuedRequests
    <3>3. QED
      BY <1>3, <1>6, <2>1, <3>1, <3>2
  <2>4. QED
    BY <2>2, <2>3 DEF TurnsDiffer
<1>13. IdleIsNotOverdue'
  BY <1>1, <1>2, <1>3, <1>4 DEF IInv, IdleIsNotOverdue, TypeOK
<1>14. PendingIsExact'
  <2>1. Cardinality(QueuedRequests') = Cardinality(QueuedRequests) + 1
    BY <1>4, <1>6, QueuedIsFinite, FS_AddElement
  <2>2. pending = Cardinality(QueuedRequests)
    BY DEF IInv, PendingIsExact, QueuedRequests
  <2>3. pending' = Cardinality(QueuedRequests')
    BY <1>1, <2>1, <2>2
  <2>4. QED
    BY <2>3 DEF PendingIsExact, QueuedRequests
<1>15. BoundsHold'
  <2>1. pending' <= MaxPendingGlobal
    BY <1>1, <1>2, SchedulerAssumption DEF TypeOK
  <2>2. ASSUME NEW t \in Tabs PROVE Cardinality(entries'[t]) <= MaxPendingPerTab
    <3>1. t \in Queues /\ Cardinality(entries[t]) <= MaxPendingPerTab
      BY DEF IInv, BoundsHold, Queues
    <3>2. CASE t = q
      <4>1. IsFiniteSet(entries[q])
        BY <1>1, <1>2, FS_Subset, SchedulerAssumption DEF TypeOK
      <4>2. Cardinality(entries[q]) \in Nat
            /\ Cardinality(entries[q] \cup {r}) = Cardinality(entries[q]) + 1
        BY <1>1, <1>4, <4>1, FS_AddElement, FS_CardinalityType
      <4>3. entries'[t] = entries[q] \cup {r}
        BY <1>3, <3>1, <3>2
      <4>4. ~ (Cardinality(entries[q]) >= MaxPendingPerTab) /\ MaxPendingPerTab \in Nat
        BY <1>1, <3>2, SchedulerAssumption
      <4>5. Cardinality(entries[q]) + 1 <= MaxPendingPerTab
        BY <4>2, <4>4
      <4>6. QED
        BY <4>2, <4>3, <4>5
    <3>3. CASE t # q
      BY <1>3, <3>1, <3>3
    <3>4. QED
      BY <3>2, <3>3
  <2>3. QED
    BY <2>1, <2>2 DEF BoundsHold
<1>16. ClosedSessionsDoNotQueue'
  BY <1>1, <1>3, <1>5 DEF IInv, ClosedSessionsDoNotQueue, SessionOf
<1>17. QED
  BY <1>7, <1>8, <1>9, <1>10, <1>11, <1>12, <1>13, <1>14, <1>15, <1>16 DEF IInv

LEMMA StartAtOnceStep ==
    ASSUME IInv, NEW r \in Requests, NEW s \in Sessions, NEW q \in Queues \cup {Unqueued},
           StartAtOnce(r, s, q)
    PROVE  IInv'
<1> DEFINE m == [session |-> s, queue |-> q]
<1>1. /\ fate[r] = "idle" /\ s \notin closed
      /\ q \in Queues => active[q] = NoRequest
      /\ meta' = [meta EXCEPT ![r] = m]
      /\ active' = [p \in Queues |-> IF p = q THEN r ELSE active[p]]
      /\ fate' = [fate EXCEPT ![r] = "running"]
      /\ working' = working \cup {r}
      /\ UNCHANGED <<turn, arrivals, entries, pending, overdue, closed, restarts>>
  BY DEF StartAtOnce, Dispatched, Barred, Busy
<1>2. TypeOK
  BY DEF IInv
<1>3. /\ \A d \in Requests : fate'[d] = IF d = r THEN "running" ELSE fate[d]
      /\ \A d \in Requests : meta'[d] = IF d = r THEN m ELSE meta[d]
  BY <1>1, <1>2 DEF TypeOK
<1>4. /\ r \notin working /\ r \notin overdue /\ r \notin QueuedRequests
      /\ \A p \in Queues : r # active[p] /\ r \notin entries[p]
  BY <1>1, IdleIsNowhere
<1>5. m \in Metas /\ m.queue = q /\ m.session = s
  BY DEF Metas
<1> HIDE DEF m
<1>6. QueuedRequests' = QueuedRequests
  BY <1>3, <1>4 DEF QueuedRequests
<1>7. TypeOK'
  BY <1>1, <1>2, <1>5 DEF TypeOK, Fates
<1>8. QueuesAreServed'
  <2>1. \A p \in Queues : active[p] # NoRequest => active[p] \in Requests
    BY <1>2 DEF TypeOK
  <2>2. \A p \in Queues : entries[p] \subseteq Requests
    BY <1>2 DEF TypeOK
  <2>3. r # NoRequest
    BY SchedulerAssumption
  <2>4. \A p \in Queues :
          /\ entries'[p] # {} => active'[p] # NoRequest
          /\ active'[p] # NoRequest =>
                fate'[active'[p]] = "running" /\ meta'[active'[p]].queue = p
    <3> SUFFICES ASSUME NEW p \in Queues
                 PROVE  /\ entries'[p] # {} => active'[p] # NoRequest
                        /\ active'[p] # NoRequest =>
                             fate'[active'[p]] = "running" /\ meta'[active'[p]].queue = p
      OBVIOUS
    <3>1. CASE p = q
      BY <1>1, <1>3, <1>5, <2>3, <3>1
    <3>2. CASE p # q
      BY <1>1, <1>3, <1>4, <2>1, <3>2 DEF IInv, QueuesAreServed, QueueOf
    <3>3. QED
      BY <3>1, <3>2
  <2>5. \A p \in Queues : \A d \in entries'[p] : fate'[d] = "queued" /\ meta'[d].queue = p
    BY <1>1, <1>3, <1>4, <2>2 DEF IInv, QueuesAreServed, QueueOf
  <2>6. \A d \in Requests : fate'[d] = "queued" =>
           d \in IF meta'[d].queue \in Queues THEN entries'[meta'[d].queue] ELSE {}
    BY <1>1, <1>3 DEF IInv, QueuesAreServed, QueueOf, Behind
  <2>7. QED
    BY <2>4, <2>5, <2>6 DEF QueuesAreServed, QueueOf, Behind
<1>9. EntriesHaveMeta'
  BY <1>1, <1>3, <1>5 DEF IInv, EntriesHaveMeta
<1>10. RunningIsActive'
  <2> SUFFICES ASSUME NEW d \in Requests, fate'[d] = "running", meta'[d].queue \in Queues
               PROVE  active'[meta'[d].queue] = d
    BY DEF RunningIsActive, QueueOf
  <2>1. CASE d = r
    BY <1>1, <1>3, <1>5, <2>1
  <2>2. CASE d # r
    <3>1. meta'[d] = meta[d] /\ active[meta[d].queue] = d
      BY <1>3, <2>2 DEF IInv, RunningIsActive, QueueOf
    <3>2. d # NoRequest
      BY SchedulerAssumption
    <3>3. QED
      BY <1>1, <3>1, <3>2
  <2>3. QED
    BY <2>1, <2>2
<1>11. HandlersAreKnown'
  BY <1>1, <1>2, <1>3 DEF IInv, HandlersAreKnown, TypeOK
<1>12. TurnsDiffer'
  BY <1>1, <1>6 DEF IInv, TurnsDiffer
<1>13. IdleIsNotOverdue'
  BY <1>1, <1>2, <1>3 DEF IInv, IdleIsNotOverdue, TypeOK
<1>14. PendingIsExact' /\ BoundsHold'
  BY <1>1, <1>6 DEF IInv, PendingIsExact, BoundsHold, QueuedRequests
<1>15. ClosedSessionsDoNotQueue'
  BY <1>1, <1>3 DEF IInv, ClosedSessionsDoNotQueue, SessionOf
<1>16. QED
  BY <1>7, <1>8, <1>9, <1>10, <1>11, <1>12, <1>13, <1>14, <1>15 DEF IInv

-----------------------------------------------------------------------------
(* The other steps                                                         *)

\* Steps that leave every entry and every answer alone: a handler nobody listens to
\* settles, or time passes a deadline.
LEMMA AnsweredWorkEndsStep ==
    ASSUME IInv, NEW r \in Requests, WorkEnds(r), fate[r] # "running"
    PROVE  IInv'
<1>1. /\ working' = working \ {r}
      /\ UNCHANGED <<meta, fate, turn, arrivals, active, entries, pending, overdue, closed,
                     restarts>>
  BY DEF WorkEnds
<1>2. QED
  BY <1>1 DEF IInv, TypeOK, QueuesAreServed, EntriesHaveMeta, RunningIsActive, HandlersAreKnown,
     TurnsDiffer, IdleIsNotOverdue, PendingIsExact, BoundsHold, ClosedSessionsDoNotQueue,
     QueuedRequests, QueueOf, SessionOf, Behind

LEMMA DeadlineStep ==
    ASSUME IInv, NEW r \in Requests, DeadlinePasses(r)
    PROVE  IInv'
<1>1. /\ overdue' = overdue \cup {r} /\ fate[r] # "idle"
      /\ UNCHANGED <<meta, fate, turn, arrivals, active, entries, pending, working, closed,
                     restarts>>
  BY DEF DeadlinePasses
<1>2. QED
  BY <1>1 DEF IInv, TypeOK, QueuesAreServed, EntriesHaveMeta, RunningIsActive, HandlersAreKnown,
     TurnsDiffer, IdleIsNotOverdue, PendingIsExact, BoundsHold, ClosedSessionsDoNotQueue,
     QueuedRequests, QueueOf, SessionOf, Behind

LEMMA LapseStep ==
    ASSUME IInv, NEW s \in Sessions, TombstoneLapses(s)
    PROVE  IInv'
<1>1. /\ closed' \subseteq closed
      /\ UNCHANGED <<meta, fate, turn, arrivals, active, entries, pending, overdue, working,
                     restarts>>
  BY DEF TombstoneLapses
<1>2. QED
  BY <1>1 DEF IInv, TypeOK, QueuesAreServed, EntriesHaveMeta, RunningIsActive, HandlersAreKnown,
     TurnsDiffer, IdleIsNotOverdue, PendingIsExact, BoundsHold, ClosedSessionsDoNotQueue,
     QueuedRequests, QueueOf, SessionOf, Behind

\* Queued entries are taken out of their queues and answered.
LEMMA RejectStep ==
    ASSUME IInv, NEW R \in SUBSET QueuedRequests, NEW answer \in Answers,
           RejectQueued(R, answer), closed' \in SUBSET Sessions,
           \A d \in QueuedRequests \ R : SessionOf(d) \notin closed'
    PROVE  IInv'
<1>1. /\ entries' = [q \in Queues |-> entries[q] \ R]
      /\ pending' = pending - Cardinality(R)
      /\ fate' = [r \in Requests |-> IF r \in R THEN answer ELSE fate[r]]
      /\ UNCHANGED <<meta, turn, arrivals, active, overdue, working, restarts>>
  BY DEF RejectQueued
<1>2. /\ TypeOK
      /\ \A d \in R : d \in Requests /\ fate[d] = "queued"
  BY DEF IInv, QueuedRequests
<1>3. answer \notin {"idle", "queued", "running"}
  BY DEF Answers
<1>4. QueuedRequests' = QueuedRequests \ R
  BY <1>1, <1>3 DEF QueuedRequests
<1>5. pending' = Cardinality(QueuedRequests') /\ pending' \in Nat /\ pending' <= pending
  <2>1. QueuedRequests \cap R = R /\ IsFiniteSet(R) /\ Cardinality(R) \in Nat
    BY QueuedIsFinite, FS_Subset, FS_CardinalityType
  <2>2. /\ IsFiniteSet(QueuedRequests \ R)
        /\ Cardinality(QueuedRequests \ R)
              = Cardinality(QueuedRequests) - Cardinality(QueuedRequests \cap R)
    BY QueuedIsFinite, FS_Difference
  <2>3. pending = Cardinality(QueuedRequests)
    BY DEF IInv, PendingIsExact, QueuedRequests
  <2>4. Cardinality(QueuedRequests \ R) \in Nat /\ Cardinality(QueuedRequests) \in Nat
    BY <2>2, QueuedIsFinite, FS_CardinalityType
  <2>5. Cardinality(QueuedRequests') = Cardinality(QueuedRequests) - Cardinality(R)
    BY <1>4, <2>1, <2>2
  <2>6. Cardinality(QueuedRequests') \in Nat
    BY <1>4, <2>4
  <2>7. QED
    BY <1>1, <2>1, <2>3, <2>4, <2>5, <2>6
<1>6. TypeOK'
  BY <1>1, <1>2, <1>5 DEF TypeOK, Fates
<1>7. QueuesAreServed'
  <2>1. \A q \in Queues : active[q] # NoRequest =>
           /\ active[q] \in Requests /\ active[q] \notin R
           /\ fate[active[q]] = "running" /\ QueueOf(active[q]) = q
    BY <1>2 DEF IInv, TypeOK, QueuesAreServed
  <2>2. \A q \in Queues :
          /\ entries'[q] # {} => active'[q] # NoRequest
          /\ active'[q] # NoRequest =>
                fate'[active'[q]] = "running" /\ meta'[active'[q]].queue = q
    BY <1>1, <2>1 DEF IInv, QueuesAreServed, QueueOf
  <2>3. \A q \in Queues : \A d \in entries'[q] : fate'[d] = "queued" /\ meta'[d].queue = q
    BY <1>1, <1>2 DEF IInv, QueuesAreServed, QueueOf, TypeOK
  <2>4. \A d \in Requests : fate'[d] = "queued" =>
           d \in IF meta'[d].queue \in Queues THEN entries'[meta'[d].queue] ELSE {}
    BY <1>1, <1>3 DEF IInv, QueuesAreServed, QueueOf, Behind
  <2>5. QED
    BY <2>2, <2>3, <2>4 DEF QueuesAreServed, QueueOf, Behind
<1>8. EntriesHaveMeta'
  BY <1>1, <1>3 DEF IInv, EntriesHaveMeta
<1>9. RunningIsActive'
  BY <1>1, <1>3 DEF IInv, RunningIsActive, QueueOf
<1>10. HandlersAreKnown'
  BY <1>1, <1>2 DEF IInv, HandlersAreKnown, TypeOK
<1>11. TurnsDiffer'
  BY <1>1, <1>4 DEF IInv, TurnsDiffer
<1>12. IdleIsNotOverdue'
  BY <1>1, <1>2, <1>3 DEF IInv, IdleIsNotOverdue, TypeOK
<1>13. PendingIsExact'
  BY <1>5 DEF PendingIsExact, QueuedRequests
<1>14. BoundsHold'
  <2>1. pending' <= MaxPendingGlobal
    BY <1>2, <1>5, SchedulerAssumption DEF IInv, BoundsHold, TypeOK
  <2>2. ASSUME NEW t \in Tabs PROVE Cardinality(entries'[t]) <= MaxPendingPerTab
    <3>1. t \in Queues /\ entries[t] \in SUBSET Requests /\ entries'[t] \in SUBSET entries[t]
      BY <1>1, <1>2 DEF TypeOK, Queues
    <3>2. IsFiniteSet(entries[t])
      BY <3>1, FS_Subset, SchedulerAssumption
    <3>3. Cardinality(entries'[t]) <= Cardinality(entries[t]) /\ IsFiniteSet(entries'[t])
      BY <3>1, <3>2, FS_Subset
    <3>4. Cardinality(entries'[t]) \in Nat /\ Cardinality(entries[t]) \in Nat
      BY <3>2, <3>3, FS_CardinalityType
    <3>5. Cardinality(entries[t]) <= MaxPendingPerTab
      BY DEF IInv, BoundsHold
    <3>6. QED
      BY <3>3, <3>4, <3>5, SchedulerAssumption
  <2>3. QED
    BY <2>1, <2>2 DEF BoundsHold
<1>15. ClosedSessionsDoNotQueue'
  <2>1. \A d \in QueuedRequests' : meta'[d].session \notin closed'
    BY <1>1, <1>4 DEF SessionOf
  <2>2. QED
    BY <2>1 DEF ClosedSessionsDoNotQueue, QueuedRequests, SessionOf
<1>16. QED
  BY <1>6, <1>7, <1>8, <1>9, <1>10, <1>11, <1>12, <1>13, <1>14, <1>15 DEF IInv

\* cancelSession() finds every queued entry of the session.
LEMMA SessionEntriesAreFound ==
    ASSUME IInv, NEW s \in Sessions
    PROVE  /\ QueuedFor(s) \in SUBSET QueuedRequests
           /\ \A d \in QueuedRequests : SessionOf(d) = s => d \in QueuedFor(s)
<1>1. \A q \in Queues : \A d \in entries[q] : d \in Requests /\ fate[d] = "queued"
  BY DEF IInv, TypeOK, QueuesAreServed
<1>2. \A d \in QueuedRequests : QueueOf(d) \in Queues /\ d \in entries[QueueOf(d)]
  BY DEF IInv, QueuesAreServed, Behind, QueuedRequests
<1>3. QED
  BY <1>1, <1>2 DEF QueuedFor, InQueue, QueuedRequests

LEMMA RestartStep ==
    ASSUME IInv, WorkerRestarts
    PROVE  IInv'
<1>1. /\ restarts < MaxRestarts /\ restarts' = restarts + 1
      /\ fate' = [r \in Requests |-> IF fate[r] \in {"queued", "running"}
                                     THEN "EXTENSION_WORKER_RESTARTED" ELSE fate[r]]
      /\ active' = [q \in Queues |-> NoRequest]
      /\ entries' = [q \in Queues |-> {}]
      /\ pending' = 0 /\ working' = {} /\ closed' = {}
      /\ UNCHANGED <<meta, turn, arrivals, overdue>>
  BY DEF WorkerRestarts
<1>2. TypeOK
  BY DEF IInv
<1>3. \A r \in Requests : fate'[r] \notin {"queued", "running"} /\ (fate'[r] = "idle" => fate[r] = "idle")
  BY <1>1
<1>4. QueuedRequests' = {} /\ Cardinality({}) = 0
  BY <1>3, FS_EmptySet DEF QueuedRequests
<1>5. TypeOK'
  BY <1>1, <1>2, SchedulerAssumption DEF TypeOK, Fates, Answers
<1>6. QueuesAreServed' /\ EntriesHaveMeta' /\ RunningIsActive' /\ HandlersAreKnown'
  BY <1>1, <1>3 DEF QueuesAreServed, EntriesHaveMeta, RunningIsActive, HandlersAreKnown
<1>7. TurnsDiffer'
  BY <1>1, <1>4 DEF IInv, TurnsDiffer
<1>8. IdleIsNotOverdue'
  BY <1>1, <1>2, <1>3 DEF IInv, IdleIsNotOverdue, TypeOK
<1>9. PendingIsExact'
  BY <1>1, <1>4 DEF PendingIsExact, QueuedRequests
<1>10. BoundsHold'
  BY <1>1, <1>4, SchedulerAssumption DEF BoundsHold, Queues
<1>11. ClosedSessionsDoNotQueue'
  BY <1>3 DEF ClosedSessionsDoNotQueue
<1>12. QED
  BY <1>5, <1>6, <1>7, <1>8, <1>9, <1>10, <1>11 DEF IInv

-----------------------------------------------------------------------------
(* The invariant holds                                                     *)

LEMMA InitEstablishesIInv == Init => IInv
<1> SUFFICES ASSUME Init PROVE IInv
  OBVIOUS
<1>1. TypeOK
  BY SchedulerAssumption DEF Init, TypeOK, Fates
<1>2. \A r \in Requests : fate[r] = "idle"
  BY DEF Init
<1>3. QueuedRequests = {} /\ Cardinality({}) = 0
  BY <1>2, FS_EmptySet DEF QueuedRequests
<1>4. QueuesAreServed /\ EntriesHaveMeta /\ RunningIsActive /\ HandlersAreKnown
      /\ IdleIsNotOverdue /\ ClosedSessionsDoNotQueue
  BY <1>2 DEF Init, QueuesAreServed, EntriesHaveMeta, RunningIsActive, HandlersAreKnown,
     IdleIsNotOverdue, ClosedSessionsDoNotQueue
<1>5. TurnsDiffer
  BY <1>3 DEF Init, TurnsDiffer
<1>6. PendingIsExact /\ BoundsHold
  BY <1>3, SchedulerAssumption DEF Init, PendingIsExact, BoundsHold, QueuedRequests, Queues
<1>7. QED
  BY <1>1, <1>4, <1>5, <1>6 DEF IInv

LEMMA NextKeepsIInv ==
    ASSUME IInv, [Next]_vars
    PROVE  IInv'
<1>1. ASSUME NEW r \in Requests, NEW s \in Sessions, NEW q \in Queues \cup {Unqueued},
             Dispatch(r, s, q)
      PROVE  IInv'
  <2>1. CASE RejectClosed(r, s, q)
    BY <2>1, RefusedStep DEF RejectClosed, Dispatched, Answers
  <2>2. CASE RejectOverload(r, s, q)
    BY <2>2, RefusedStep DEF RejectOverload, Dispatched, Answers
  <2>3. CASE ExpireAtOnce(r, s, q)
    BY <2>3, RefusedStep DEF ExpireAtOnce, Dispatched, Answers
  <2>4. QED
    BY <1>1, <2>1, <2>2, <2>3, EnqueueStep, StartAtOnceStep DEF Dispatch
<1>2. ASSUME NEW r \in Requests, WorkEnds(r) PROVE IInv'
  <2>1. CASE fate[r] = "running"
    <3>1. Settle(r, "done", working \ {r})
      BY <1>2, <2>1 DEF WorkEnds
    <3>2. QED
      BY <2>1, <3>1, SettleStep DEF Answers
  <2>2. QED
    BY <1>2, <2>1, AnsweredWorkEndsStep
<1>3. ASSUME NEW r \in Requests, TimesOut(r) PROVE IInv'
  BY <1>3, SettleStep DEF TimesOut, Answers
<1>4. ASSUME NEW t \in Tabs, TabCloses(t) PROVE IInv'
  <2>1. entries[t] \in SUBSET QueuedRequests
    BY DEF IInv, TypeOK, QueuesAreServed, QueuedRequests, Queues
  <2>2. RejectQueued(entries[t], "TAB_CLOSED") /\ closed' = closed
    BY <1>4 DEF TabCloses
  <2>3. closed' \in SUBSET Sessions /\ \A d \in QueuedRequests : SessionOf(d) \notin closed'
    BY <2>2 DEF IInv, TypeOK, ClosedSessionsDoNotQueue, QueuedRequests
  <2>4. QED
    BY <2>1, <2>2, <2>3, RejectStep DEF Answers
<1>5. ASSUME NEW s \in Sessions, SessionCloses(s) PROVE IInv'
  <2>1. RejectQueued(QueuedFor(s), "SESSION_CLOSED") /\ closed' = closed \cup {s}
    BY <1>5 DEF SessionCloses
  <2>2. closed' \in SUBSET Sessions
    BY <2>1 DEF IInv, TypeOK
  <2>3. \A d \in QueuedRequests \ QueuedFor(s) : SessionOf(d) \notin closed'
    BY <2>1, SessionEntriesAreFound DEF IInv, ClosedSessionsDoNotQueue, QueuedRequests
  <2>4. QED
    BY <2>1, <2>2, <2>3, SessionEntriesAreFound, RejectStep DEF Answers
<1>6. CASE UNCHANGED vars
  BY <1>6 DEF vars, IInv, TypeOK, QueuesAreServed, EntriesHaveMeta, RunningIsActive,
     HandlersAreKnown, TurnsDiffer, IdleIsNotOverdue, PendingIsExact, BoundsHold,
     ClosedSessionsDoNotQueue, QueuedRequests, QueueOf, SessionOf, Behind
<1>7. QED
  BY <1>1, <1>2, <1>3, <1>4, <1>5, <1>6, DeadlineStep, LapseStep, RestartStep DEF Next

THEOREM IInvHolds == Spec => []IInv
  BY InitEstablishesIInv, NextKeepsIInv, PTL DEF Spec

\* Every variable keeps its type; globalPending never goes below zero.
THEOREM TypeCorrect == Spec => []TypeOK
<1>1. IInv => TypeOK
  BY DEF IInv
<1>2. QED
  BY <1>1, IInvHolds, PTL

\* globalPending counts the queued requests, however they leave their queues.
THEOREM PendingCorrect == Spec => []PendingIsExact
<1>1. IInv => PendingIsExact
  BY DEF IInv
<1>2. QED
  BY <1>1, IInvHolds, PTL

\* Neither the bound of a tab nor the global one is ever exceeded.
THEOREM BoundsAreKept == Spec => []BoundsHold
<1>1. IInv => BoundsHold
  BY DEF IInv
<1>2. QED
  BY <1>1, IInvHolds, PTL

\* A queue with entries always has one under way, whose end moves it on.
THEOREM QueuesNeverStall == Spec => []QueuesAreServed
<1>1. IInv => QueuesAreServed
  BY DEF IInv
<1>2. QED
  BY <1>1, IInvHolds, PTL

\* Only a handler whose signal was aborted runs beside the active entry of its queue.
THEOREM OverlapIsAborted == Spec => []OnlyAbortedWorkOverlaps
<1>1. IInv => OnlyAbortedWorkOverlaps
  BY DEF IInv, TypeOK, RunningIsActive, HandlersAreKnown, OnlyAbortedWorkOverlaps
<1>2. QED
  BY <1>1, IInvHolds, PTL

\* After cancelSession nothing of the session is or gets queued.
THEOREM ClosedDoNotQueue == Spec => []ClosedSessionsDoNotQueue
<1>1. IInv => ClosedSessionsDoNotQueue
  BY DEF IInv
<1>2. QED
  BY <1>1, IInvHolds, PTL

-----------------------------------------------------------------------------
(* Which requests a step can start                                         *)

\* A queued request is started only as the successor of an entry that ends.
LEMMA SettleStartsSuccessor ==
    ASSUME IInv, NEW r \in Requests, NEW answer \in Answers, NEW handlers \in SUBSET working,
           fate[r] = "running", Settle(r, answer, handlers),
           NEW a \in Requests, Starts(a)
    PROVE  /\ fate[a] = "queued" /\ a \notin overdue
           /\ UNCHANGED <<meta, closed>>
           /\ \A d \in Requests :
                 fate[d] = "queued" /\ fate'[d] = "queued" /\ QueueOf(d) = QueueOf(a)
                 => ~ (turn[d] < turn[a])
<1> DEFINE E == Behind(r)
           s == Successor(E)
<1>1. /\ \A d \in Requests : fate'[d] = IF d = r THEN answer
                                       ELSE IF d \in Skipped(E) THEN "REQUEST_EXPIRED"
                                       ELSE IF d = s THEN "running" ELSE fate[d]
      /\ UNCHANGED <<meta, closed>>
  BY DEF Settle
<1>2. answer # "running"
  BY DEF Answers
<1>3. a = s /\ s # NoRequest
  BY <1>1, <1>2, SchedulerAssumption DEF Starts
<1>4. /\ s \in E \ Skipped(E) /\ fate[s] = "queued" /\ QueueOf(s) = QueueOf(r)
      /\ s \notin overdue
      /\ \A d \in LeftOf(E) : turn[s] < turn[d]
  BY <1>3, SuccessorIsFit
<1>5. ASSUME NEW d \in Requests, fate[d] = "queued", fate'[d] = "queued",
             QueueOf(d) = QueueOf(a)
      PROVE  ~ (turn[d] < turn[a])
  <2>1. d \in E
    BY <1>3, <1>4, <1>5, BehindIsQueued DEF QueuedRequests
  <2>2. d # s /\ d \notin Skipped(E)
    BY <1>1, <1>3, <1>5 DEF Starts
  <2>3. d \in LeftOf(E)
    BY <2>1, <2>2 DEF LeftOf, Unexpired
  <2>4. turn[a] < turn[d] /\ turn[a] \in Nat /\ turn[d] \in Nat
    BY <1>3, <1>4, <2>3 DEF IInv, TypeOK
  <2>5. QED
    BY <2>4
<1>6. QED
  BY <1>1, <1>3, <1>4, <1>5

\* A request starts at once, from idle, or as a successor.
LEMMA WhoStarts ==
    ASSUME IInv, [Next]_vars, NEW a \in Requests, Starts(a)
    PROVE  /\ a \notin overdue
           /\ meta'[a].session \notin closed
           /\ fate[a] = "queued" =>
                 \A d \in Requests :
                    fate[d] = "queued" /\ fate'[d] = "queued" /\ QueueOf(d) = QueueOf(a)
                    => ~ (turn[d] < turn[a])
<1> DEFINE Goal == /\ a \notin overdue
                   /\ meta'[a].session \notin closed
                   /\ fate[a] = "queued" =>
                         \A d \in Requests :
                            fate[d] = "queued" /\ fate'[d] = "queued" /\ QueueOf(d) = QueueOf(a)
                            => ~ (turn[d] < turn[a])
<1>1. fate \in [Requests -> Fates] /\ meta \in [Requests -> Metas \cup {NoMeta}]
  BY DEF IInv, TypeOK
<1>2. ASSUME NEW r \in Requests, NEW answer \in Answers, NEW handlers \in SUBSET working,
             fate[r] = "running", Settle(r, answer, handlers)
      PROVE  Goal
  <2>1. fate[a] = "queued" /\ a \notin overdue /\ meta' = meta
    BY <1>2, SettleStartsSuccessor
  <2>2. meta[a].session \notin closed
    BY <2>1 DEF IInv, ClosedSessionsDoNotQueue, SessionOf
  <2>3. QED
    BY <1>2, <2>1, <2>2, SettleStartsSuccessor
<1>3. ASSUME NEW r \in Requests, NEW s \in Sessions, NEW q \in Queues \cup {Unqueued},
             StartAtOnce(r, s, q)
      PROVE  Goal
  <2>1. /\ fate[r] = "idle" /\ s \notin closed /\ fate' = [fate EXCEPT ![r] = "running"]
        /\ meta' = [meta EXCEPT ![r] = [session |-> s, queue |-> q]]
    BY <1>3 DEF StartAtOnce, Dispatched, Barred
  <2>2. a = r
    BY <1>1, <2>1 DEF Starts
  <2>3. QED
    BY <1>1, <2>1, <2>2 DEF IInv, IdleIsNotOverdue
<1>4. ASSUME NEW r \in Requests, NEW answer \in Answers \cup {"queued"},
             fate' = [fate EXCEPT ![r] = answer]
      PROVE  FALSE
  BY <1>1, <1>4 DEF Starts, Answers
<1>5. ASSUME NEW r \in Requests, NEW s \in Sessions, NEW q \in Queues \cup {Unqueued},
             Dispatch(r, s, q)
      PROVE  Goal
  <2>1. CASE RejectClosed(r, s, q) \/ RejectOverload(r, s, q) \/ ExpireAtOnce(r, s, q)
    BY <1>4, <2>1 DEF RejectClosed, RejectOverload, ExpireAtOnce, Refused, Answers
  <2>2. CASE Enqueue(r, s, q)
    BY <1>4, <2>2 DEF Enqueue
  <2>3. QED
    BY <1>3, <1>5, <2>1, <2>2 DEF Dispatch
<1>6. ASSUME NEW r \in Requests, WorkEnds(r) \/ TimesOut(r)
      PROVE  Goal
  <2>1. CASE WorkEnds(r) /\ fate[r] = "running"
    BY <1>2, <2>1 DEF WorkEnds, Answers
  <2>2. CASE WorkEnds(r) /\ fate[r] # "running"
    BY <2>2 DEF WorkEnds, Starts
  <2>3. CASE TimesOut(r)
    BY <1>2, <2>3 DEF TimesOut, Answers
  <2>4. QED
    BY <1>6, <2>1, <2>2, <2>3
<1>7. ASSUME NEW R, NEW answer \in Answers, RejectQueued(R, answer)
      PROVE  FALSE
  BY <1>7 DEF RejectQueued, Starts, Answers
<1>8. ASSUME (\E r \in Requests : DeadlinePasses(r)) \/ (\E t \in Tabs : TabCloses(t))
               \/ (\E s \in Sessions : SessionCloses(s) \/ TombstoneLapses(s))
               \/ WorkerRestarts \/ UNCHANGED vars
      PROVE  FALSE
  BY <1>7, <1>8 DEF DeadlinePasses, TabCloses, SessionCloses, TombstoneLapses, WorkerRestarts,
     vars, Starts, Answers
<1>9. QED
  BY <1>5, <1>6, <1>8 DEF Next

\* No request is overtaken by a later one of its queue.
THEOREM StartsAreInOrder == Spec => StartsInOrder
<1>1. IInv /\ [Next]_vars =>
        [\A r, d \in Requests :
           Starts(r) /\ fate[r] = "queued" /\ fate[d] = "queued"
             /\ QueueOf(d) = QueueOf(r) /\ turn[d] < turn[r]
           => fate'[d] # "queued"]_vars
  BY WhoStarts
<1>2. QED
  BY <1>1, IInvHolds, PTL DEF Spec, StartsInOrder

\* No handler is invoked for an expired request or for a session that has a tombstone.
THEOREM NothingLateStarts == Spec => NothingStartsLate
<1>1. IInv /\ [Next]_vars =>
        [\A r \in Requests :
           Starts(r) => r \notin overdue /\ meta'[r].session \notin closed]_vars
  BY WhoStarts
<1>2. QED
  BY <1>1, IInvHolds, PTL DEF Spec, NothingStartsLate

-----------------------------------------------------------------------------
(* The scheduler implements ServedInTurn                                   *)

\* Whom a queued request waits for: the active entry of its queue and the entries before it.
LEMMA AheadIsKnown ==
    ASSUME IInv, NEW r \in Requests, fate[r] = "queued"
    PROVE  LET q == QueueOf(r) IN
           /\ q \in Queues /\ r \in entries[q] /\ Behind(r) = entries[q]
           /\ active[q] \in Requests /\ fate[active[q]] = "running"
           /\ QueueOf(active[q]) = q
           /\ \A d \in entries[q] : d \in Requests /\ fate[d] = "queued" /\ QueueOf(d) = q
           /\ AheadOf[r] = {active[q]} \cup {d \in entries[q] : turn[d] < turn[r]}
<1> DEFINE q == QueueOf(r)
<1>1. q \in Queues /\ r \in entries[q] /\ Behind(r) = entries[q]
  BY DEF IInv, QueuesAreServed, Behind
<1>2. active[q] \in Requests /\ fate[active[q]] = "running" /\ QueueOf(active[q]) = q
  BY <1>1 DEF IInv, TypeOK, QueuesAreServed
<1>3. \A d \in entries[q] : d \in Requests /\ fate[d] = "queued" /\ QueueOf(d) = q
  BY <1>1 DEF IInv, TypeOK, QueuesAreServed
<1>4. AheadOf[r] = {active[q]} \cup {d \in entries[q] : turn[d] < turn[r]}
  BY <1>1 DEF AheadOf
<1>5. QED
  BY <1>1, <1>2, <1>3, <1>4

LEMMA AheadOfOthers ==
    ASSUME NEW r \in Requests, fate[r] # "queued"
    PROVE  AheadOf[r] = {}
  BY DEF AheadOf

\* A request is answered on its arrival.
LEMMA RefusedRefines ==
    ASSUME IInv, NEW r \in Requests, NEW answer \in Promise!Refusals, fate[r] = "idle",
           Refused(r, answer)
    PROVE  Promise!Next
<1>1. /\ fate' = [fate EXCEPT ![r] = answer]
      /\ UNCHANGED <<meta, turn, active, entries>>
  BY DEF Refused
<1>2. fate \in [Requests -> Fates]
  BY DEF IInv, TypeOK
<1>3. answer \notin {"idle", "queued", "running"}
  BY DEF Promise!Refusals
<1>4. PlaceOf' = PlaceOf
  BY <1>1, <1>2, <1>3 DEF PlaceOf, IsOpen, QueueOf
<1>5. AheadOf' = AheadOf
  BY <1>1, <1>2, <1>3 DEF AheadOf, Behind, QueueOf
<1>6. Promise!Refuse(r)
  BY <1>1, <1>4, <1>5 DEF Promise!Refuse
<1>7. QED
  BY <1>6 DEF Promise!Next

\* Who is present in a queue: its active entry and the entries behind it.
LEMMA PresentIsQueue ==
    ASSUME IInv, NEW q \in Queues
    PROVE  Promise!Present(q) = entries[q] \cup ({active[q]} \ {NoRequest})
<1>1. \A r \in Requests : IsOpen(r) /\ QueueOf(r) = q => r \in entries[q] \/ r = active[q]
  BY DEF IInv, QueuesAreServed, RunningIsActive, IsOpen, Behind
<1>2. \A r \in entries[q] : r \in Requests /\ IsOpen(r) /\ QueueOf(r) = q
  BY DEF IInv, TypeOK, QueuesAreServed, IsOpen
<1>3. active[q] # NoRequest => active[q] \in Requests /\ IsOpen(active[q]) /\ QueueOf(active[q]) = q
  BY DEF IInv, TypeOK, QueuesAreServed, IsOpen
<1>4. Promise!Present(q) = {r \in Requests : IsOpen(r) /\ QueueOf(r) = q}
  BY DEF Promise!Present, Promise!Open, PlaceOf, IsOpen
<1>5. \A r \in Requests : r # NoRequest
  BY SchedulerAssumption
<1>6. QED
  BY <1>1, <1>2, <1>3, <1>4, <1>5

LEMMA EnqueueRefines ==
    ASSUME IInv, NEW r \in Requests, NEW s \in Sessions, NEW q \in Queues \cup {Unqueued},
           Enqueue(r, s, q)
    PROVE  Promise!Next
<1>1. /\ fate[r] = "idle" /\ q \in Queues /\ active[q] # NoRequest
      /\ meta' = [meta EXCEPT ![r] = [session |-> s, queue |-> q]]
      /\ turn' = [turn EXCEPT ![r] = arrivals + 1]
      /\ entries' = [entries EXCEPT ![q] = @ \cup {r}]
      /\ fate' = [fate EXCEPT ![r] = "queued"]
      /\ active' = active
  BY DEF Enqueue, Dispatched, Busy
<1>2. /\ fate \in [Requests -> Fates] /\ meta \in [Requests -> Metas \cup {NoMeta}]
      /\ turn \in [Requests -> Nat] /\ entries \in [Queues -> SUBSET Requests]
      /\ arrivals \in Nat
  BY DEF IInv, TypeOK
<1>3. \A d \in Requests : turn[d] <= arrivals
  BY DEF IInv, TurnsDiffer
<1>4. r \notin entries[q]
  BY <1>1, IdleIsNowhere
<1>5. Promise!Present(q) = entries[q] \cup {active[q]}
  BY <1>1, PresentIsQueue
<1>6. fate' = [fate EXCEPT ![r] = IF Promise!Present(q) = {} THEN "running" ELSE "queued"]
  BY <1>1, <1>5
<1>7. PlaceOf' = [PlaceOf EXCEPT ![r] = q]
  BY <1>1, <1>2 DEF PlaceOf, IsOpen, QueueOf
<1>8. AheadOf' = [AheadOf EXCEPT ![r] = Promise!Present(q)]
  <2>1. QueueOf(r)' = q /\ \A d \in Requests \ {r} : QueueOf(d)' = QueueOf(d)
    BY <1>1, <1>2 DEF QueueOf
  <2>2. AheadOf'[r] = entries[q] \cup {active[q]}
    <3>1. AheadOf'[r] = {active[q]} \cup {d \in entries[q] \cup {r} : turn'[d] < turn'[r]}
      BY <1>1, <1>2, <2>1 DEF AheadOf, Behind
    <3>2. \A d \in entries[q] : turn'[d] < turn'[r]
      BY <1>1, <1>2, <1>3, <1>4
    <3>3. ~ (turn'[r] < turn'[r])
      BY <1>1, <1>2
    <3>4. QED
      BY <3>1, <3>2, <3>3
  <2>3. ASSUME NEW d \in Requests, d # r, fate[d] = "queued"
        PROVE  AheadOf'[d] = AheadOf[d]
    <3>1. /\ QueueOf(d) \in Queues
          /\ AheadOf[d] = {active[QueueOf(d)]} \cup {e \in entries[QueueOf(d)] : turn[e] < turn[d]}
      BY <2>3, AheadIsKnown
    <3>2. AheadOf'[d] = {active[QueueOf(d)]}
                          \cup {e \in entries'[QueueOf(d)] : turn'[e] < turn'[d]}
      BY <1>1, <1>2, <2>1, <2>3, <3>1 DEF AheadOf, Behind
    <3>3. /\ turn'[d] = turn[d] /\ turn[d] < turn'[r]
          /\ r \notin entries[QueueOf(d)]
      BY <1>1, <1>2, <1>3, <2>3, <3>1, IdleIsNowhere
    <3>4. \A e \in entries[QueueOf(d)] : turn'[e] = turn[e]
      BY <1>1, <1>2, <3>1, <3>3
    <3>5. entries'[QueueOf(d)] \in {entries[QueueOf(d)], entries[QueueOf(d)] \cup {r}}
      BY <1>1, <1>2, <3>1
    <3>6. ~ (turn'[r] < turn'[d])
      BY <1>1, <1>2, <3>3
    <3>7. QED
      BY <3>1, <3>2, <3>3, <3>4, <3>5, <3>6
  <2>4. ASSUME NEW d \in Requests, d # r, fate[d] # "queued"
        PROVE  AheadOf'[d] = AheadOf[d]
    BY <1>1, <1>2, <2>4 DEF AheadOf
  <2>5. AheadOf = [d \in Requests |-> AheadOf[d]] /\ AheadOf' = [d \in Requests |-> AheadOf'[d]]
    BY DEF AheadOf
  <2>6. QED
    BY <1>5, <2>2, <2>3, <2>4, <2>5
<1>9. Promise!Join(r, q)
  BY <1>1, <1>6, <1>7, <1>8 DEF Promise!Join
<1>10. QED
  BY <1>1, <1>9 DEF Promise!Next

LEMMA StartAtOnceRefines ==
    ASSUME IInv, NEW r \in Requests, NEW s \in Sessions, NEW q \in Queues \cup {Unqueued},
           StartAtOnce(r, s, q)
    PROVE  Promise!Next
<1>1. /\ fate[r] = "idle" /\ (q \in Queues => active[q] = NoRequest)
      /\ meta' = [meta EXCEPT ![r] = [session |-> s, queue |-> q]]
      /\ active' = [p \in Queues |-> IF p = q THEN r ELSE active[p]]
      /\ fate' = [fate EXCEPT ![r] = "running"]
      /\ UNCHANGED <<turn, entries>>
  BY DEF StartAtOnce, Dispatched, Busy
<1>2. fate \in [Requests -> Fates] /\ meta \in [Requests -> Metas \cup {NoMeta}]
  BY DEF IInv, TypeOK
<1>3. q \in Queues => entries[q] = {}
  BY <1>1 DEF IInv, QueuesAreServed
<1>4. Promise!Present(q) = {}
  <2>1. CASE q \in Queues
    BY <1>1, <1>3, <2>1, PresentIsQueue
  <2>2. CASE q \notin Queues
    BY <2>2 DEF Promise!Present
  <2>3. QED
    BY <2>1, <2>2
<1>5. PlaceOf' = [PlaceOf EXCEPT ![r] = q]
  BY <1>1, <1>2 DEF PlaceOf, IsOpen, QueueOf
<1>6. AheadOf' = [AheadOf EXCEPT ![r] = {}]
  <2>1. AheadOf'[r] = {} /\ AheadOf[r] = {}
    BY <1>1, <1>2 DEF AheadOf
  <2>2. ASSUME NEW d \in Requests, d # r, fate[d] = "queued"
        PROVE  AheadOf'[d] = AheadOf[d]
    <3>1. QueueOf(d)' = QueueOf(d) /\ fate'[d] = "queued"
      BY <1>1, <1>2, <2>2 DEF QueueOf
    <3>2. QueueOf(d) \in Queues /\ d \in entries[QueueOf(d)]
      BY <2>2, AheadIsKnown
    <3>3. active'[QueueOf(d)] = active[QueueOf(d)]
      BY <1>1, <1>3, <3>2
    <3>4. QED
      BY <1>1, <2>2, <3>1, <3>3 DEF AheadOf, Behind
  <2>3. ASSUME NEW d \in Requests, d # r, fate[d] # "queued"
        PROVE  AheadOf'[d] = AheadOf[d]
    BY <1>1, <1>2, <2>3 DEF AheadOf
  <2>4. AheadOf = [d \in Requests |-> AheadOf[d]] /\ AheadOf' = [d \in Requests |-> AheadOf'[d]]
    BY DEF AheadOf
  <2>5. QED
    BY <2>1, <2>2, <2>3, <2>4
<1>7. Promise!Join(r, q)
  BY <1>1, <1>4, <1>5, <1>6 DEF Promise!Join
<1>8. QED
  BY <1>7 DEF Promise!Next

\* An entry is answered: the expired entries behind it leave with it, and the one that
\* nobody is left before starts.
LEMMA SettleRefines ==
    ASSUME IInv, NEW r \in Requests, fate[r] = "running",
           NEW answer \in {"done", "REQUEST_EXPIRED"}, NEW handlers,
           Settle(r, answer, handlers)
    PROVE  Promise!Next
<1> DEFINE E == Behind(r)
           s == Successor(E)
           R == {r} \cup Skipped(E)
<1>1. /\ active' = [q \in Queues |-> IF q = QueueOf(r) THEN s ELSE active[q]]
      /\ entries' = [q \in Queues |-> IF q = QueueOf(r) THEN LeftOf(E) ELSE entries[q]]
      /\ fate' = [d \in Requests |-> IF d = r THEN answer
                                     ELSE IF d \in Skipped(E) THEN "REQUEST_EXPIRED"
                                     ELSE IF d = s THEN "running" ELSE fate[d]]
      /\ UNCHANGED <<meta, turn>>
  BY DEF Settle
<1>2. fate \in [Requests -> Fates] /\ turn \in [Requests -> Nat]
  BY DEF IInv, TypeOK
<1>3. /\ E \in SUBSET Requests /\ r \notin E
      /\ \A d \in E : fate[d] = "queued" /\ QueueOf(d) = QueueOf(r)
      /\ E # {} => QueueOf(r) \in Queues
      /\ QueueOf(r) \in Queues => E = entries[QueueOf(r)] /\ active[QueueOf(r)] = r
      /\ \A d \in Requests : fate[d] = "queued" /\ QueueOf(d) = QueueOf(r) => d \in E
  BY BehindIsQueued DEF IInv, RunningIsActive, QueuedRequests
<1>4. /\ Skipped(E) \subseteq E /\ Unexpired(E) = E \ Skipped(E)
      /\ LeftOf(E) = Unexpired(E) \ {s}
      /\ Unexpired(E) # {} => s \in Unexpired(E) /\ s # NoRequest
      /\ Unexpired(E) = {} => s = NoRequest
  <2>1. NoRequest \notin Unexpired(E)
    BY <1>3, SchedulerAssumption DEF Unexpired
  <2>2. Skipped(E) \subseteq E /\ Unexpired(E) = E \ Skipped(E) /\ LeftOf(E) = Unexpired(E) \ {s}
    BY DEF Skipped, Unexpired, LeftOf
  <2>3. /\ Unexpired(E) # {} => s \in Unexpired(E)
        /\ Unexpired(E) = {} => s = NoRequest
    BY <1>2, <1>3, SuccessorIsFirst
  <2>4. QED
    BY <2>1, <2>2, <2>3
<1>5. s # NoRequest =>
        /\ s \in E \ Skipped(E) /\ s \in Requests /\ s # r
        /\ \A d \in LeftOf(E) : turn[s] < turn[d]
  BY SuccessorIsFit
<1> HIDE DEF E, s
<1>6. R \subseteq Promise!Open /\ R # {}
  BY <1>3, <1>4 DEF Promise!Open
<1>7. \A d \in Requests : fate[d] = "queued" /\ QueueOf(d) # QueueOf(r) =>
         ~ (AheadOf[d] \subseteq R) /\ AheadOf[d] \cap R = {}
  <2> SUFFICES ASSUME NEW d \in Requests, fate[d] = "queued", QueueOf(d) # QueueOf(r)
               PROVE  AheadOf[d] # {} /\ \A e \in AheadOf[d] : e \notin R
    OBVIOUS
  <2>1. AheadOf[d] # {} /\ \A e \in AheadOf[d] : QueueOf(e) = QueueOf(d)
    BY AheadIsKnown
  <2>2. \A e \in R : QueueOf(e) = QueueOf(r)
    BY <1>3, <1>4
  <2>3. QED
    BY <2>1, <2>2
<1>8. \A d \in E : AheadOf[d] = {r} \cup {e \in E : turn[e] < turn[d]}
  BY <1>3, AheadIsKnown
<1>9. \A d \in E \ Skipped(E) : AheadOf[d] \subseteq R <=> d = s
  <2> SUFFICES ASSUME NEW d \in E \ Skipped(E) PROVE AheadOf[d] \subseteq R <=> d = s
    OBVIOUS
  <2>1. s # NoRequest
    BY <1>4
  <2>2. CASE d = s
    <3>1. \A e \in E : turn[e] < turn[s] => e \in Skipped(E)
      <4> SUFFICES ASSUME NEW e \in E, turn[e] < turn[s], e \notin Skipped(E) PROVE FALSE
        OBVIOUS
      <4>1. e \in LeftOf(E) \/ e = s
        BY <1>4
      <4>2. turn[e] \in Nat /\ turn[s] \in Nat
        BY <1>2, <1>3, <1>5, <2>1
      <4>3. QED
        BY <1>5, <2>1, <4>1, <4>2
    <3>2. QED
      BY <1>8, <2>2, <3>1
  <2>3. CASE d # s
    <3>1. d \in LeftOf(E) /\ turn[s] < turn[d]
      BY <1>4, <1>5, <2>1, <2>3
    <3>2. s \in AheadOf[d] /\ s \notin R
      BY <1>5, <1>8, <2>1, <3>1
    <3>3. QED
      BY <2>3, <3>2
  <2>4. QED
    BY <2>2, <2>3
<1>10. Promise!Freed(R) = {s} \ {NoRequest}
  <2>1. ASSUME NEW d \in Promise!Freed(R)
        PROVE  d = s /\ d # NoRequest
    <3>1. d \in Requests /\ d \notin R /\ fate[d] = "queued" /\ AheadOf[d] \subseteq R
      BY <2>1 DEF Promise!Freed, Promise!Open
    <3>2. d \in E \ Skipped(E)
      BY <1>3, <1>7, <3>1
    <3>3. QED
      BY <1>9, <3>1, <3>2, SchedulerAssumption
  <2>2. ASSUME s # NoRequest
        PROVE  s \in Promise!Freed(R)
    <3>1. s \in E \ Skipped(E) /\ s \in Requests /\ s # r
      BY <1>5, <2>2
    <3>2. fate[s] = "queued" /\ s \notin R
      BY <1>3, <3>1
    <3>3. AheadOf[s] \subseteq R
      BY <1>9, <3>1
    <3>4. QED
      BY <3>1, <3>2, <3>3 DEF Promise!Freed, Promise!Open
  <2>3. QED
    BY <2>1, <2>2
<1>11. \A d \in Requests : IF d \in R THEN fate'[d] \in Promise!AnswersTo(d)
                           ELSE fate'[d] = IF d \in Promise!Freed(R) THEN "running" ELSE fate[d]
  <2> SUFFICES ASSUME NEW d \in Requests
               PROVE  IF d \in R THEN fate'[d] \in Promise!AnswersTo(d)
                      ELSE fate'[d] = IF d \in Promise!Freed(R) THEN "running" ELSE fate[d]
    OBVIOUS
  <2>1. CASE d = r
    BY <1>1, <2>1 DEF Promise!AnswersTo
  <2>2. CASE d \in Skipped(E)
    BY <1>1, <1>3, <1>4, <2>2 DEF Promise!AnswersTo
  <2>3. CASE d \notin R
    BY <1>1, <1>10, <2>3, SchedulerAssumption
  <2>4. QED
    BY <2>1, <2>2, <2>3
<1>12. PlaceOf' = [d \in Requests |-> IF d \in R THEN Unqueued ELSE PlaceOf[d]]
  <2>1. \A d \in R : fate'[d] \notin {"queued", "running"}
    BY <1>1, <1>3, <1>4
  <2>2. ASSUME NEW d \in Requests \ R
        PROVE  fate'[d] \in {"queued", "running"} <=> fate[d] \in {"queued", "running"}
    <3>1. CASE d = s
      BY <1>1, <1>3, <1>4, <3>1, SchedulerAssumption
    <3>2. CASE d # s
      BY <1>1, <3>2
    <3>3. QED
      BY <3>1, <3>2
  <2>3. \A d \in Requests : QueueOf(d)' = QueueOf(d)
    BY <1>1 DEF QueueOf
  <2>4. QED
    BY <2>1, <2>2, <2>3 DEF PlaceOf, IsOpen
<1>13. ASSUME NEW d \in Requests
       PROVE  AheadOf'[d] = IF d \in R THEN {} ELSE AheadOf[d] \ R
  <2>1. CASE fate'[d] # "queued"
    <3>1. AheadOf'[d] = {}
      BY <2>1 DEF AheadOf
    <3>2. CASE d \in R
      BY <3>1, <3>2
    <3>3. CASE d \notin R /\ d = s
      BY <1>4, <1>5, <1>9, <3>1, <3>3, SchedulerAssumption
    <3>4. CASE d \notin R /\ d # s
      BY <1>1, <2>1, <3>1, <3>4, AheadOfOthers
    <3>5. QED
      BY <3>2, <3>3, <3>4
  <2>2. CASE fate'[d] = "queued"
    <3>1. d \notin R /\ d # s /\ fate[d] = "queued"
      BY <1>1, <1>3, <1>4, <2>2
    <3>2. QueueOf(d)' = QueueOf(d) /\ QueueOf(d) \in Queues
      BY <1>1, <3>1, AheadIsKnown DEF QueueOf
    <3>3. AheadOf'[d] = {active'[QueueOf(d)]} \cup {e \in entries'[QueueOf(d)] : turn[e] < turn[d]}
      BY <1>1, <2>2, <3>2 DEF AheadOf, Behind
    <3>4. CASE QueueOf(d) # QueueOf(r)
      BY <1>1, <1>7, <3>1, <3>2, <3>3, <3>4, AheadIsKnown
    <3>5. CASE QueueOf(d) = QueueOf(r)
      <4>1. d \in LeftOf(E) /\ s # NoRequest
        BY <1>3, <1>4, <3>1, <3>5
      <4>2. AheadOf'[d] = {s} \cup {e \in LeftOf(E) : turn[e] < turn[d]}
        BY <1>1, <3>2, <3>3, <3>5
      <4>3. AheadOf[d] \ R = {e \in E \ Skipped(E) : turn[e] < turn[d]}
        BY <1>3, <1>4, <1>8, <4>1
      <4>4. turn[s] < turn[d]
        BY <1>5, <4>1
      <4>5. QED
        BY <1>4, <1>5, <3>1, <4>1, <4>2, <4>3, <4>4
    <3>6. QED
      BY <3>4, <3>5
  <2>3. QED
    BY <2>1, <2>2
<1>14. AheadOf' = [d \in Requests |-> IF d \in R THEN {} ELSE AheadOf[d] \ R]
  <2>1. AheadOf' = [d \in Requests |-> AheadOf'[d]]
    BY DEF AheadOf
  <2>2. QED
    BY <1>13, <2>1, Zenon
<1>15. Promise!Leave(R)
  BY <1>6, <1>11, <1>12, <1>14 DEF Promise!Leave
<1>16. QED
  BY <1>6, <1>15 DEF Promise!Next

\* Queued requests are rejected: the active entries stay, so nobody starts.
LEMMA RejectRefines ==
    ASSUME IInv, NEW R \in SUBSET QueuedRequests,
           NEW answer \in {"TAB_CLOSED", "SESSION_CLOSED"}, RejectQueued(R, answer)
    PROVE  [Promise!Next]_<<fate, PlaceOf, AheadOf>>
<1>1. /\ entries' = [q \in Queues |-> entries[q] \ R]
      /\ fate' = [r \in Requests |-> IF r \in R THEN answer ELSE fate[r]]
      /\ UNCHANGED <<meta, turn, active>>
  BY DEF RejectQueued
<1>2. fate \in [Requests -> Fates]
  BY DEF IInv, TypeOK
<1>3. \A d \in Requests : QueueOf(d)' = QueueOf(d)
  BY <1>1 DEF QueueOf
<1>4. \A r \in R : r \in Requests /\ fate[r] = "queued"
  BY DEF QueuedRequests
<1>5. PlaceOf' = [d \in Requests |-> IF d \in R THEN Unqueued ELSE PlaceOf[d]]
  BY <1>1, <1>3 DEF PlaceOf, IsOpen
<1>6. ASSUME NEW d \in Requests
      PROVE  AheadOf'[d] = IF d \in R THEN {} ELSE AheadOf[d] \ R
  <2>1. CASE fate'[d] # "queued"
    BY <1>1, <2>1 DEF AheadOf
  <2>2. CASE fate'[d] = "queued"
    <3>1. d \notin R /\ fate[d] = "queued"
      BY <1>1, <2>2
    <3>2. /\ QueueOf(d) \in Queues
          /\ active[QueueOf(d)] \notin R
          /\ AheadOf[d] = {active[QueueOf(d)]} \cup {e \in entries[QueueOf(d)] : turn[e] < turn[d]}
      BY <1>4, <3>1, AheadIsKnown
    <3>3. AheadOf'[d] = {active[QueueOf(d)]}
                          \cup {e \in entries[QueueOf(d)] \ R : turn[e] < turn[d]}
      BY <1>1, <1>3, <2>2, <3>2 DEF AheadOf, Behind
    <3>4. QED
      BY <3>1, <3>2, <3>3
  <2>3. QED
    BY <2>1, <2>2
<1>7. AheadOf' = [d \in Requests |-> IF d \in R THEN {} ELSE AheadOf[d] \ R]
  <2>1. AheadOf' = [d \in Requests |-> AheadOf'[d]]
    BY DEF AheadOf
  <2>2. QED
    BY <1>6, <2>1, Zenon
<1>8. CASE R = {}
  <2>1. fate' = fate
    BY <1>1, <1>2, <1>8
  <2>2. PlaceOf' = PlaceOf
    BY <1>5, <1>8 DEF PlaceOf
  <2>3. AheadOf' = AheadOf
    BY <1>7, <1>8 DEF AheadOf
  <2>4. QED
    BY <2>1, <2>2, <2>3
<1>9. CASE R # {}
  <2>1. Promise!Freed(R) = {}
    <3> SUFFICES ASSUME NEW d \in Requests, fate[d] = "queued" PROVE ~ (AheadOf[d] \subseteq R)
      BY DEF Promise!Freed, Promise!Open
    <3>1. active[QueueOf(d)] \in AheadOf[d] /\ fate[active[QueueOf(d)]] = "running"
      BY AheadIsKnown
    <3>2. QED
      BY <1>4, <3>1
  <2>2. \A d \in Requests : IF d \in R THEN fate'[d] \in Promise!AnswersTo(d)
                            ELSE fate'[d] = IF d \in Promise!Freed(R) THEN "running" ELSE fate[d]
    BY <1>1, <1>4, <2>1 DEF Promise!AnswersTo
  <2>3. Promise!Leave(R)
    BY <1>5, <1>7, <1>9, <2>2 DEF Promise!Leave
  <2>4. R \in SUBSET Promise!Open
    BY <1>4 DEF Promise!Open
  <2>5. QED
    BY <2>3, <2>4 DEF Promise!Next
<1>10. QED
  BY <1>8, <1>9

\* The worker dies: everybody leaves at once.
LEMMA RestartRefines ==
    ASSUME IInv, WorkerRestarts
    PROVE  [Promise!Next]_<<fate, PlaceOf, AheadOf>>
<1> DEFINE R == Promise!Open
<1>1. /\ fate' = [r \in Requests |-> IF fate[r] \in {"queued", "running"}
                                     THEN "EXTENSION_WORKER_RESTARTED" ELSE fate[r]]
      /\ meta' = meta
  BY DEF WorkerRestarts
<1>2. fate \in [Requests -> Fates]
  BY DEF IInv, TypeOK
<1>3. \A r \in Requests : fate'[r] \notin {"queued", "running"}
  BY <1>1
<1>4. PlaceOf' = [r \in Requests |-> Unqueued] /\ AheadOf' = [r \in Requests |-> {}]
  BY <1>3 DEF PlaceOf, AheadOf, IsOpen
<1>5. \A r \in Requests \ R : PlaceOf[r] = Unqueued /\ AheadOf[r] = {}
  BY DEF PlaceOf, AheadOf, IsOpen, Promise!Open
<1>6. CASE R = {}
  <2>1. fate' = fate
    BY <1>1, <1>2, <1>6 DEF Promise!Open
  <2>2. PlaceOf' = PlaceOf /\ AheadOf' = AheadOf
    BY <1>4, <1>5, <1>6 DEF PlaceOf, AheadOf
  <2>3. QED
    BY <2>1, <2>2
<1>7. CASE R # {}
  <2>1. /\ PlaceOf' = [r \in Requests |-> IF r \in R THEN Unqueued ELSE PlaceOf[r]]
        /\ AheadOf' = [r \in Requests |-> IF r \in R THEN {} ELSE AheadOf[r] \ R]
    BY <1>4, <1>5
  <2>2. \A r \in Requests : IF r \in R THEN fate'[r] \in Promise!AnswersTo(r)
                            ELSE fate'[r] = IF r \in Promise!Freed(R) THEN "running" ELSE fate[r]
    BY <1>1 DEF Promise!AnswersTo, Promise!Open, Promise!Freed
  <2>3. Promise!Leave(R)
    BY <1>7, <2>1, <2>2 DEF Promise!Leave
  <2>4. QED
    BY <2>3 DEF Promise!Next
<1>8. QED
  BY <1>6, <1>7

\* Deadlines that pass, handlers of answered requests and old tombstones are nobody's concern.
LEMMA UnseenRefines ==
    ASSUME UNCHANGED <<meta, fate, turn, active, entries>>
    PROVE  UNCHANGED <<fate, PlaceOf, AheadOf>>
  BY DEF PlaceOf, AheadOf, IsOpen, QueueOf, Behind

LEMMA StepRefines ==
    ASSUME IInv, [Next]_vars
    PROVE  [Promise!Next]_<<fate, PlaceOf, AheadOf>>
<1>1. ASSUME NEW r \in Requests, NEW s \in Sessions, NEW q \in Queues \cup {Unqueued},
             Dispatch(r, s, q)
      PROVE  Promise!Next
  <2>1. CASE RejectClosed(r, s, q)
    BY <2>1, RefusedRefines DEF RejectClosed, Dispatched, Promise!Refusals
  <2>2. CASE RejectOverload(r, s, q)
    BY <2>2, RefusedRefines DEF RejectOverload, Dispatched, Promise!Refusals
  <2>3. CASE ExpireAtOnce(r, s, q)
    BY <2>3, RefusedRefines DEF ExpireAtOnce, Dispatched, Promise!Refusals
  <2>4. QED
    BY <1>1, <2>1, <2>2, <2>3, EnqueueRefines, StartAtOnceRefines DEF Dispatch
<1>2. ASSUME NEW r \in Requests, WorkEnds(r)
      PROVE  [Promise!Next]_<<fate, PlaceOf, AheadOf>>
  <2>1. CASE fate[r] = "running"
    BY <1>2, <2>1, SettleRefines DEF WorkEnds
  <2>2. CASE fate[r] # "running"
    BY <1>2, <2>2, UnseenRefines DEF WorkEnds
  <2>3. QED
    BY <2>1, <2>2
<1>3. ASSUME NEW r \in Requests, TimesOut(r)
      PROVE  Promise!Next
  BY <1>3, SettleRefines DEF TimesOut
<1>4. ASSUME NEW r \in Requests, DeadlinePasses(r)
      PROVE  UNCHANGED <<fate, PlaceOf, AheadOf>>
  BY <1>4, UnseenRefines DEF DeadlinePasses
<1>5. ASSUME NEW t \in Tabs, TabCloses(t)
      PROVE  [Promise!Next]_<<fate, PlaceOf, AheadOf>>
  <2>1. entries[t] \in SUBSET QueuedRequests
    BY DEF IInv, TypeOK, QueuesAreServed, QueuedRequests, Queues
  <2>2. QED
    BY <1>5, <2>1, RejectRefines DEF TabCloses
<1>6. ASSUME NEW s \in Sessions, SessionCloses(s)
      PROVE  [Promise!Next]_<<fate, PlaceOf, AheadOf>>
  BY <1>6, SessionEntriesAreFound, RejectRefines DEF SessionCloses
<1>7. ASSUME UNCHANGED vars \/ \E s \in Sessions : TombstoneLapses(s)
      PROVE  UNCHANGED <<fate, PlaceOf, AheadOf>>
  BY <1>7, UnseenRefines DEF vars, TombstoneLapses
<1>8. QED
  BY <1>1, <1>2, <1>3, <1>4, <1>5, <1>6, <1>7, RestartRefines DEF Next

LEMMA InitRefines == Init => Promise!Init
  BY DEF Init, Promise!Init, PlaceOf, AheadOf, IsOpen

\* Queues, turns, tombstones and timers implement requests served in turn: each runs at the
\* step in which the last request it found before it is answered, and never earlier.
THEOREM RequestsAreServedInTurn == Spec => ImplementsServedInTurn
<1>1. IInv /\ [Next]_vars => [Promise!Next]_<<fate, PlaceOf, AheadOf>>
  BY StepRefines
<1>2. Spec => Promise!Init /\ [][Promise!Next]_<<fate, PlaceOf, AheadOf>>
  BY <1>1, IInvHolds, InitRefines, PTL DEF Spec
<1>3. QED
  BY <1>2 DEF ImplementsServedInTurn, Promise!Spec, Promise!promiseVars
=============================================================================
