------------------------- MODULE HubLocksRefinement -------------------------
(***************************************************************************)
(* Proof that HubLocks implements LockService, for any sets of sessions,   *)
(* names and calls.                                                        *)
(*                                                                         *)
(* Every step of the hub makes some calls leave their lines and at most    *)
(* one join: passing the Locks of the names N on is to let their holders   *)
(* leave (PassedLines).  What is left to see is that whoever is first in   *)
(* line then is the one the maps and the promises say (KnownIsTold), for   *)
(* which the holder of a name must be ahead of all who wait for it.        *)
(***************************************************************************)
EXTENDS HubLocksProofs

\* The refinement mapping, of lists w, Locks h and promises f.
LineOf(w, h) == [n \in Names |-> w[n] \cup ({h[n]} \ {NoCall})]

ToldOf(f) == [c \in Calls |-> IF f[c] \in {"idle", "waiting", "held"} THEN f[c] ELSE "over"]

Ahead(w, h, p) == \A n \in Names : \A c \in w[n] : p[h[n]] < p[c]

\* Only a Lock with a TTL has an expiresAt.
LapsedHaveTtl == \A c \in lapsed : fate[c] # "idle" /\ request[c].ttl

RInv == IInv /\ Turns /\ Ahead(waiters, holder, turn) /\ LapsedHaveTtl

\* Maps, promises and order agree: what Agree and Ahead say, whatever the names asked for.
Consistent(f, w, h, p) ==
    /\ f \in [Calls -> Fates]
    /\ w \in [Names -> SUBSET Calls]
    /\ h \in [Names -> Calls \cup {NoCall}]
    /\ p \in [Calls -> Nat]
    /\ \A c \in Calls : /\ f[c] = "waiting" <=> \E n \in Names : c \in w[n]
                        /\ f[c] = "held" <=> \E n \in Names : c = h[n]
    /\ NoneStranded(w, h)
    /\ Ahead(w, h, p)

-----------------------------------------------------------------------------
\* The first in line is the holder of a Lock.
LEMMA FirstIsHolder ==
    ASSUME NEW f, NEW w, NEW h, NEW p, Consistent(f, w, h, p), NEW c \in Calls
    PROVE  /\ Service!IsFirst(c, LineOf(w, h), p) <=> \E n \in Names : c = h[n]
           /\ Service!InLine(c, LineOf(w, h)) <=> \E n \in Names : c \in w[n] \/ c = h[n]
<1>0. NoCall \notin Calls
  BY NoCallAssumption
<1>1. \A n \in Names : \A d : d \in LineOf(w, h)[n] <=> d \in w[n] \/ (d = h[n] /\ d # NoCall)
  BY DEF LineOf
<1>2. \A n \in Names : \A d \in w[n] :
         d \in Calls /\ h[n] \in Calls /\ p[h[n]] < p[d] /\ p[d] \in Nat /\ p[h[n]] \in Nat
  BY DEF Consistent, NoneStranded, Ahead
<1>3. ASSUME NEW n \in Names, c = h[n]
      PROVE  c \in LineOf(w, h)[n] /\ \A d \in LineOf(w, h)[n] : p[c] <= p[d]
  <2>1. p[c] \in Nat
    BY DEF Consistent
  <2>2. QED
    BY <1>0, <1>1, <1>2, <1>3, <2>1
<1>4. ASSUME NEW n \in Names, c \in LineOf(w, h)[n], \A d \in LineOf(w, h)[n] : p[c] <= p[d]
      PROVE  c = h[n]
  <2>1. SUFFICES ASSUME c \in w[n]
                 PROVE  FALSE
    BY <1>1, <1>4
  <2>2. h[n] \in LineOf(w, h)[n]
    BY <1>0, <1>1, <1>2, <2>1
  <2>3. QED
    BY <1>2, <1>4, <2>1, <2>2
<1>5. Service!IsFirst(c, LineOf(w, h), p) <=> \E n \in Names : c = h[n]
  BY <1>3, <1>4 DEF Service!IsFirst
<1>6. Service!InLine(c, LineOf(w, h)) <=> \E n \in Names : c \in w[n] \/ c = h[n]
  BY <1>0, <1>1 DEF Service!InLine
<1>7. QED
  BY <1>5, <1>6

\* What callers know of the lines is what their promises say.
LEMMA KnownIsTold ==
    ASSUME NEW f, NEW w, NEW h, NEW p, Consistent(f, w, h, p), NEW asked \in SUBSET Calls,
           \A c \in Calls : f[c] = "idle" <=> fate[c] = "idle" /\ c \notin asked
    PROVE  ToldOf(f) = Service!Known(LineOf(w, h), p, asked)
<1> SUFFICES ASSUME NEW c \in Calls
             PROVE  ToldOf(f)[c] = Service!Known(LineOf(w, h), p, asked)[c]
  BY DEF ToldOf, Service!Known
<1>1. ToldOf(f)[c] = IF f[c] \in {"idle", "waiting", "held"} THEN f[c] ELSE "over"
  BY DEF ToldOf
<1>2. Told[c] = "idle" <=> fate[c] = "idle"
  BY DEF Told
<1>3. Service!Known(LineOf(w, h), p, asked)[c] =
         IF \E n \in Names : c = h[n] THEN "held"
         ELSE IF \E n \in Names : c \in w[n] \/ c = h[n] THEN "waiting"
         ELSE IF fate[c] = "idle" /\ c \notin asked THEN "idle"
         ELSE "over"
  BY <1>2, FirstIsHolder DEF Service!Known
<1>4. QED
  BY <1>1, <1>3 DEF Consistent

\* The mapping of HubLocks is the mapping of its variables.
LEMMA MappingOf ==
    /\ Line = LineOf(waiters, holder) /\ Told = ToldOf(fate)
    /\ Line' = LineOf(waiters', holder') /\ Told' = ToldOf(fate')
BY DEF Line, Told, LineOf, ToldOf

\* Passing the Locks of the names N on lets their holders leave their lines.
LEMMA PassedLines ==
    ASSUME IInv, NEW N \in SUBSET Names
    PROVE  LineOf(WaitersAfter(N), HolderAfter(N))
             = Service!Without({holder[n] : n \in N} \ {NoCall})
<1> DEFINE C == {holder[n] : n \in N} \ {NoCall}
           W == WaitersAfter(N)
           H == HolderAfter(N)
<1>0. NoCall \notin Calls
  BY NoCallAssumption
<1>1. \A m, n \in Names : holder[n] # NoCall => holder[n] \notin waiters[m]
                                                /\ (holder[m] = holder[n] => m = n)
  <2>1. \A n \in Names : holder[n] # NoCall => holder[n] \in Calls /\ fate[holder[n]] = "held"
                                               /\ NameOf(holder[n]) = n
    BY DEF IInv, TypeOK, PromisesMatchMaps
  <2>2. \A n \in Names : \A c \in waiters[n] : c \in Calls /\ fate[c] = "waiting"
    BY DEF IInv, TypeOK, PromisesMatchMaps
  <2>3. QED
    BY <2>1, <2>2
<1>2. ASSUME NEW m \in Names
      PROVE  W[m] \cup ({H[m]} \ {NoCall})
               = (waiters[m] \cup ({holder[m]} \ {NoCall})) \ C
  <2>1. CASE m \in N
    <3>1. W[m] = waiters[m] \ {NextInLine(m)} /\ H[m] = NextInLine(m)
      BY <2>1 DEF WaitersAfter, HolderAfter
    <3>2. /\ waiters[m] = {} => NextInLine(m) = NoCall
          /\ waiters[m] # {} => NextInLine(m) \in waiters[m] /\ NextInLine(m) \in Calls
      BY NextInLineIsFirst DEF IInv
    <3>3. W[m] \cup ({H[m]} \ {NoCall}) = waiters[m]
      BY <1>0, <3>1, <3>2
    <3>4. waiters[m] \cap C = {} /\ {holder[m]} \ {NoCall} \subseteq C
      BY <1>1, <2>1
    <3>5. QED
      BY <3>3, <3>4
  <2>2. CASE m \notin N
    <3>1. W[m] = waiters[m] /\ H[m] = holder[m]
      BY <2>2 DEF WaitersAfter, HolderAfter
    <3>2. waiters[m] \cap C = {} /\ holder[m] \notin C
      BY <1>1, <2>2
    <3>3. QED
      BY <3>1, <3>2
  <2>3. QED
    BY <2>1, <2>2
<1>3. Service!Without(C) = [m \in Names |-> (waiters[m] \cup ({holder[m]} \ {NoCall})) \ C]
  BY DEF Service!Without, Line
<1> HIDE DEF C, W, H
<1>4. LineOf(W, H) = Service!Without(C)
  BY <1>2, <1>3 DEF LineOf
<1>5. QED
  BY <1>4 DEF C, W, H

\* Whoever gets a Lock when some are passed on is ahead of those who go on waiting.
LEMMA PassedAhead ==
    ASSUME RInv, NEW N \in SUBSET Names, NEW how \in HowsLockEnds
    PROVE  Consistent(FateAfter(N, how), WaitersAfter(N), HolderAfter(N), turn)
<1>1. /\ Typed(FateAfter(N, how), WaitersAfter(N), HolderAfter(N), TimerAfter(N))
      /\ Agree(FateAfter(N, how), WaitersAfter(N), HolderAfter(N))
      /\ NoneStranded(WaitersAfter(N), HolderAfter(N))
  BY PassingKeepsAgreement DEF RInv
<1>2. Ahead(WaitersAfter(N), HolderAfter(N), turn)
  <2> SUFFICES ASSUME NEW n \in Names, NEW c \in WaitersAfter(N)[n]
               PROVE  turn[HolderAfter(N)[n]] < turn[c]
    BY DEF Ahead
  <2>1. CASE n \in N
    <3>1. HolderAfter(N)[n] = NextInLine(n) /\ c \in waiters[n] /\ c # NextInLine(n)
      BY <2>1 DEF HolderAfter, WaitersAfter
    <3>2. /\ NextInLine(n) \in waiters[n] /\ NextInLine(n) \in Calls /\ c \in Calls
          /\ turn[NextInLine(n)] <= turn[c]
      BY <3>1, NextInLineIsFirst DEF RInv, IInv, TypeOK
    <3>3. fate[c] = "waiting" /\ fate[NextInLine(n)] = "waiting"
      BY <3>1, <3>2 DEF RInv, IInv, PromisesMatchMaps
    <3>4. turn[NextInLine(n)] # turn[c] /\ turn[c] \in Nat /\ turn[NextInLine(n)] \in Nat
      BY <3>1, <3>2, <3>3 DEF RInv, Turns, IInv, TypeOK
    <3>5. QED
      BY <3>1, <3>2, <3>4
  <2>2. CASE n \notin N
    <3>1. HolderAfter(N)[n] = holder[n] /\ c \in waiters[n]
      BY <2>2 DEF HolderAfter, WaitersAfter
    <3>2. QED
      BY <3>1 DEF RInv, Ahead
  <2>3. QED
    BY <2>1, <2>2
<1>3. turn \in [Calls -> Nat]
  BY DEF RInv, IInv, TypeOK
<1>4. QED
  BY <1>1, <1>2, <1>3 DEF Consistent, Typed, Agree

-----------------------------------------------------------------------------
(* The invariant of the refinement                                         *)

LEMMA InitEstablishesRInv == Init => RInv
<1>1. Init => IInv /\ Turns
  BY InitEstablishesIInv, InitEstablishesTurns
<1>2. Init => Ahead(waiters, holder, turn) /\ LapsedHaveTtl
  BY DEF Init, Ahead, LapsedHaveTtl
<1>3. QED
  BY <1>1, <1>2 DEF RInv

\* A call that is made stands behind all the others.
LEMMA AcquireKeepsAhead ==
    ASSUME RInv, NEW c \in Calls, NEW s \in Sessions, NEW n \in Names,
           NEW ttl \in BOOLEAN,
           AcquireFree(c, s, n, ttl) \/ AcquireReentrant(c, s, n, ttl)
             \/ AcquireBusy(c, s, n, ttl)
    PROVE  Ahead(waiters', holder', turn')
<1> DEFINE N == ToPassFirst(n)
           W == WaitersAfter(N)
           H == HolderAfter(N)
           F == FateAfter(N, "expired")
<1>0. NoCall \notin Calls
  BY NoCallAssumption
<1>1. N \in SUBSET Names /\ "expired" \in HowsLockEnds
  BY DEF ToPassFirst, HowsLockEnds
<1>2. Consistent(F, W, H, turn) /\ Typed(F, W, H, TimerAfter(N))
      /\ \A d \in Calls : F[d] = "idle" <=> fate[d] = "idle"
  BY <1>1, PassedAhead, PassingKeepsAgreement DEF RInv
<1>3. NewCall(c, s, n, ttl)
  BY DEF AcquireFree, AcquireReentrant, AcquireBusy
<1>4. /\ fate[c] = "idle"
      /\ \A d \in Calls \ {c} : turn'[d] = turn[d]
      /\ \A d \in Calls : fate[d] # "idle" => turn'[d] < turn'[c]
  BY <1>3, NewCallIsLast DEF RInv
<1>5. \A m \in Names : \A d \in W[m] :
         /\ d \in Calls /\ d # c /\ fate[d] # "idle"
         /\ H[m] \in Calls /\ H[m] # c /\ fate[H[m]] # "idle" /\ turn[H[m]] < turn[d]
  <2>1. \A m \in Names : \A d \in W[m] : d \in Calls /\ F[d] = "waiting"
            /\ H[m] \in Calls /\ F[H[m]] = "held" /\ turn[H[m]] < turn[d]
    BY <1>0, <1>2 DEF Consistent, NoneStranded, Ahead
  <2>2. QED
    BY <1>2, <1>4, <2>1
<1>6. \/ waiters' = W /\ holder' = H
      \/ waiters' = W /\ holder' = [H EXCEPT ![n] = c] /\ H[n] = NoCall
      \/ waiters' = [W EXCEPT ![n] = @ \cup {c}] /\ holder' = H /\ H[n] # NoCall
  BY DEF AcquireFree, AcquireReentrant, AcquireBusy
<1>7. \A m \in Names : H[m] # NoCall => H[m] \in Calls /\ F[H[m]] = "held"
  BY <1>2 DEF Consistent
<1>8. W \in [Names -> SUBSET Calls] /\ H \in [Names -> Calls \cup {NoCall}]
  BY <1>2 DEF Consistent
<1> HIDE DEF N, W, H, F
<1>9. CASE waiters' = W /\ holder' = H
  BY <1>4, <1>5, <1>9 DEF Ahead
<1>10. CASE waiters' = W /\ holder' = [H EXCEPT ![n] = c] /\ H[n] = NoCall
  BY <1>0, <1>4, <1>5, <1>8, <1>10 DEF Ahead
<1>11. CASE waiters' = [W EXCEPT ![n] = @ \cup {c}] /\ holder' = H /\ H[n] # NoCall
  BY <1>2, <1>4, <1>5, <1>7, <1>8, <1>11 DEF Ahead
<1>12. QED
  BY <1>6, <1>9, <1>10, <1>11

\* A Lock keeps its TTL, and what has lapsed has been made.
LEMMA NextKeepsLapsed == IInv /\ LapsedHaveTtl /\ [Next]_vars => LapsedHaveTtl'
<1> SUFFICES ASSUME IInv, LapsedHaveTtl, [Next]_vars
             PROVE  LapsedHaveTtl'
  OBVIOUS
<1>1. ASSUME NEW c \in Calls, NEW s \in Sessions, NEW n \in Names, NEW ttl \in BOOLEAN,
             AcquireFree(c, s, n, ttl) \/ AcquireReentrant(c, s, n, ttl)
               \/ AcquireBusy(c, s, n, ttl)
      PROVE  LapsedHaveTtl'
  <2>1. ToPassFirst(n) \in SUBSET Names /\ "expired" \in HowsLockEnds
    BY DEF ToPassFirst, HowsLockEnds
  <2>2. \A d \in Calls : FateAfter(ToPassFirst(n), "expired")[d] = "idle" <=> fate[d] = "idle"
    BY <2>1, PassingKeepsAgreement
  <2>3. \A d \in Calls \ {c} : fate'[d] = FateAfter(ToPassFirst(n), "expired")[d]
    BY <1>1 DEF AcquireFree, AcquireReentrant, AcquireBusy, FateAfter
  <2>4. /\ fate[c] = "idle" /\ lapsed' = lapsed
        /\ \A d \in Calls \ {c} : request'[d] = request[d]
    BY <1>1 DEF AcquireFree, AcquireReentrant, AcquireBusy, NewCall, IInv, TypeOK
  <2>5. lapsed \subseteq Calls
    BY DEF IInv, TypeOK
  <2>6. QED
    BY <2>2, <2>3, <2>4, <2>5 DEF LapsedHaveTtl
<1>2. ASSUME UNCHANGED <<request, lapsed>>, \A d \in Calls : fate'[d] = "idle" => fate[d] = "idle"
      PROVE  LapsedHaveTtl'
  BY <1>2 DEF LapsedHaveTtl, IInv, TypeOK
<1>3. ASSUME NEW N \in SUBSET Names, NEW how \in HowsLockEnds, PassLocks(N, how),
             UNCHANGED <<request, lapsed>>
      PROVE  LapsedHaveTtl'
  BY <1>2, <1>3, PassingKeepsAgreement DEF PassLocks
<1>4. ASSUME NEW c \in Calls, TtlLapses(c)
      PROVE  LapsedHaveTtl'
  <2>1. c # NoCall /\ fate[c] # "idle" /\ request[c].ttl
    BY <1>4 DEF TtlLapses, HasTtl, IInv, TypeOK, PromisesMatchMaps
  <2>2. QED
    BY <1>4, <2>1 DEF TtlLapses, LapsedHaveTtl
<1>5. ASSUME NEW c \in Calls, WaiterTimeout(c)
      PROVE  LapsedHaveTtl'
  BY <1>2, <1>5 DEF WaiterTimeout, IInv, TypeOK
<1>6. ASSUME NEW s \in Sessions, NEW n \in Names, Release(s, n)
      PROVE  LapsedHaveTtl'
  BY <1>3, <1>6 DEF Release, HowsLockEnds
<1>7. ASSUME NEW n \in Names, TtlTimerFires(n)
      PROVE  LapsedHaveTtl'
  BY <1>3, <1>7 DEF TtlTimerFires, HowsLockEnds
<1>8. ASSUME ListLocks
      PROVE  LapsedHaveTtl'
  BY <1>3, <1>8 DEF ListLocks, HowsLockEnds
<1>9. ASSUME NEW s \in Sessions, DropSession(s)
      PROVE  LapsedHaveTtl'
  <2>1. LocksOf(s) \in SUBSET Names /\ "dropped" \in HowsLockEnds
    BY DEF LocksOf, HowsLockEnds
  <2>2. \A d \in Calls : FateAfter(LocksOf(s), "dropped")[d] = "idle" <=> fate[d] = "idle"
    BY <2>1, PassingKeepsAgreement
  <2>3. QED
    BY <1>2, <1>9, <2>2 DEF DropSession
<1>10. ASSUME CancelPendingForShutdown
       PROVE  LapsedHaveTtl'
  BY <1>2, <1>10 DEF CancelPendingForShutdown
<1>11. CASE UNCHANGED vars
  BY <1>2, <1>11 DEF vars
<1>12. QED
  BY <1>1, <1>4, <1>5, <1>6, <1>7, <1>8, <1>9, <1>10, <1>11 DEF Next, EndSession,
     ReleaseLocksForSession

\* The holder of a name stays ahead of its waiters.
LEMMA NextKeepsAhead == RInv /\ [Next]_vars => Ahead(waiters', holder', turn')
<1> SUFFICES ASSUME RInv, [Next]_vars
             PROVE  Ahead(waiters', holder', turn')
  OBVIOUS
<1>1. ASSUME NEW c \in Calls, NEW s \in Sessions, NEW n \in Names, NEW ttl \in BOOLEAN,
             AcquireFree(c, s, n, ttl) \/ AcquireReentrant(c, s, n, ttl)
               \/ AcquireBusy(c, s, n, ttl)
      PROVE  Ahead(waiters', holder', turn')
  BY <1>1, AcquireKeepsAhead
<1>2. ASSUME UNCHANGED <<holder, turn>>, \A n \in Names : waiters'[n] \subseteq waiters[n]
      PROVE  Ahead(waiters', holder', turn')
  BY <1>2 DEF RInv, Ahead
<1>3. ASSUME NEW N \in SUBSET Names, NEW how \in HowsLockEnds, holder' = HolderAfter(N),
             turn' = turn, \A n \in Names : waiters'[n] \subseteq WaitersAfter(N)[n]
      PROVE  Ahead(waiters', holder', turn')
  BY <1>3, PassedAhead DEF Consistent, Ahead
<1>4. ASSUME NEW N \in SUBSET Names, NEW how \in HowsLockEnds, PassLocks(N, how), turn' = turn
      PROVE  Ahead(waiters', holder', turn')
  BY <1>3, <1>4 DEF PassLocks
<1>5. ASSUME NEW c \in Calls, WaiterTimeout(c) \/ TtlLapses(c)
      PROVE  Ahead(waiters', holder', turn')
  BY <1>2, <1>5 DEF WaiterTimeout, TtlLapses
<1>6. ASSUME NEW s \in Sessions, NEW n \in Names, Release(s, n)
      PROVE  Ahead(waiters', holder', turn')
  BY <1>4, <1>6 DEF Release, HowsLockEnds
<1>7. ASSUME NEW n \in Names, TtlTimerFires(n)
      PROVE  Ahead(waiters', holder', turn')
  BY <1>4, <1>7 DEF TtlTimerFires, HowsLockEnds
<1>8. ASSUME ListLocks
      PROVE  Ahead(waiters', holder', turn')
  BY <1>4, <1>8 DEF ListLocks, HowsLockEnds
<1>9. ASSUME NEW s \in Sessions, DropSession(s)
      PROVE  Ahead(waiters', holder', turn')
  <2>1. LocksOf(s) \in SUBSET Names /\ "dropped" \in HowsLockEnds
    BY DEF LocksOf, HowsLockEnds
  <2>2. /\ holder' = HolderAfter(LocksOf(s)) /\ turn' = turn
        /\ \A n \in Names : waiters'[n] \subseteq WaitersAfter(LocksOf(s))[n]
    BY <1>9 DEF DropSession
  <2>3. QED
    BY <1>3, <2>1, <2>2
<1>10. ASSUME CancelPendingForShutdown
       PROVE  Ahead(waiters', holder', turn')
  BY <1>2, <1>10 DEF CancelPendingForShutdown
<1>11. CASE UNCHANGED vars
  BY <1>2, <1>11 DEF vars
<1>12. QED
  BY <1>1, <1>5, <1>6, <1>7, <1>8, <1>9, <1>10, <1>11 DEF Next, EndSession,
     ReleaseLocksForSession

LEMMA NextKeepsRInv == RInv /\ [Next]_vars => RInv'
<1>1. RInv /\ [Next]_vars => IInv' /\ Turns' /\ LapsedHaveTtl'
  BY NextKeepsIInv, NextKeepsTurns, NextKeepsLapsed DEF RInv
<1>2. RInv /\ [Next]_vars => Ahead(waiters, holder, turn)'
  BY NextKeepsAhead DEF Ahead
<1>3. QED
  BY <1>1, <1>2 DEF RInv

-----------------------------------------------------------------------------
(* Every step of the hub is a step of the service                          *)

LEMMA NextIsConsistent ==
    ASSUME RInv'
    PROVE  Consistent(fate', waiters', holder', turn')
BY DEF RInv, IInv, TypeOK, PromisesMatchMaps, NoStrandedWaiters, Consistent, NoneStranded, Ahead

\* What it takes to see a step as calls leaving their lines.
LEMMA LeaveStep ==
    ASSUME RInv', UNCHANGED <<request, turn>>, NEW C,
           LineOf(waiters', holder') = Service!Without(C),
           \A c \in Calls : fate'[c] = "idle" <=> fate[c] = "idle"
    PROVE  Service!Leave(C)
<1>1. Line' = Service!Without(C)
  BY MappingOf
<1>2. \A c \in Calls : fate'[c] = "idle" <=> fate[c] = "idle" /\ c \notin {}
  OBVIOUS
<1>3. ToldOf(fate') = Service!Known(LineOf(waiters', holder'), turn', {})
  BY <1>2, NextIsConsistent, KnownIsTold
<1>4. Told' = Service!Known(Service!Without(C), turn, {})
  BY <1>3, MappingOf
<1>5. QED
  BY <1>1, <1>4 DEF Service!Leave

\* The calls that hold or wait for a Lock, as the callers know them.
LEMMA WhatIsTold ==
    ASSUME RInv
    PROVE  /\ \A c \in Calls : Told[c] = "held" <=> fate[c] = "held"
           /\ \A c \in Calls : Told[c] = "waiting" <=> fate[c] = "waiting"
           /\ \A c \in Calls : Told[c] = "idle" <=> fate[c] = "idle"
           /\ \A n \in Names : holder[n] # NoCall => holder[n] \in Calls /\ fate[holder[n]] = "held"
           /\ \A n \in Names : \A c \in waiters[n] : c \in Calls /\ fate[c] = "waiting"
BY DEF Told, RInv, IInv, TypeOK, PromisesMatchMaps, Fates

LEMMA PassLocksLeaves ==
    ASSUME RInv, RInv', NEW N \in SUBSET Names, NEW how \in HowsLockEnds, PassLocks(N, how),
           UNCHANGED <<request, turn>>
    PROVE  Service!Leave({holder[n] : n \in N} \ {NoCall})
<1>1. LineOf(waiters', holder') = Service!Without({holder[n] : n \in N} \ {NoCall})
  BY PassedLines DEF PassLocks, RInv
<1>2. \A c \in Calls : fate'[c] = "idle" <=> fate[c] = "idle"
  BY PassingKeepsAgreement DEF PassLocks, RInv
<1>3. QED
  BY <1>1, <1>2, LeaveStep

LEMMA ReleaseRefines ==
    ASSUME RInv, RInv', NEW s \in Sessions, NEW n \in Names, Release(s, n)
    PROVE  Service!Depart(s)
<1>1. Service!Leave({holder[m] : m \in {n}} \ {NoCall})
  BY PassLocksLeaves DEF Release, HowsLockEnds
<1>2. {holder[m] : m \in {n}} \ {NoCall}
         \in SUBSET {c \in Calls : Told[c] \in {"held", "waiting"} /\ request[c].session = s}
  BY WhatIsTold DEF Release, OwnedBy, SessionOf
<1>3. QED
  BY <1>1, <1>2 DEF Service!Depart

\* A holder that is in `lapsed` had asked for a TTL.
LEMMA ExpiredMayLapse ==
    ASSUME RInv, NEW N \in SUBSET Names, \A n \in N : holder[n] = NoCall \/ Expired(n)
    PROVE  {holder[n] : n \in N} \ {NoCall} \in SUBSET Service!MayLapse
BY WhatIsTold DEF Expired, Service!MayLapse, RInv, LapsedHaveTtl

LEMMA TtlTimerFiresRefines ==
    ASSUME RInv, RInv', NEW n \in Names, TtlTimerFires(n)
    PROVE  Service!Lapse
<1>1. Service!Leave({holder[m] : m \in {n}} \ {NoCall})
  BY PassLocksLeaves DEF TtlTimerFires, HowsLockEnds
<1>2. {holder[m] : m \in {n}} \ {NoCall} \in SUBSET Service!MayLapse
  BY ExpiredMayLapse DEF TtlTimerFires, Expired
<1>3. QED
  BY <1>1, <1>2 DEF Service!Lapse

LEMMA ListLocksRefines ==
    ASSUME RInv, RInv', ListLocks
    PROVE  Service!Lapse
<1> DEFINE N == {n \in Names : Expired(n)}
<1>1. Service!Leave({holder[m] : m \in N} \ {NoCall})
  BY PassLocksLeaves DEF ListLocks, HowsLockEnds
<1>2. {holder[m] : m \in N} \ {NoCall} \in SUBSET Service!MayLapse
  BY ExpiredMayLapse
<1>3. QED
  BY <1>1, <1>2 DEF Service!Lapse

LEMMA WaiterTimeoutRefines ==
    ASSUME RInv, RInv', NEW c \in Calls, WaiterTimeout(c)
    PROVE  Service!GiveUp
<1>1. fate[c] = "waiting" /\ \A n \in Names : holder[n] # c
  BY NoCallAssumption DEF WaiterTimeout, RInv, IInv, TypeOK, PromisesMatchMaps
<1>2. LineOf(waiters', holder') = Service!Without({c})
  BY <1>1 DEF WaiterTimeout, LineOf, Line, Service!Without
<1>3. \A d \in Calls : fate'[d] = "idle" <=> fate[d] = "idle"
  BY <1>1 DEF WaiterTimeout, RInv, IInv, TypeOK
<1>4. Service!Leave({c})
  BY <1>2, <1>3, LeaveStep DEF WaiterTimeout
<1>5. {c} \in SUBSET {d \in Calls : Told[d] = "waiting"}
  BY <1>1, WhatIsTold
<1>6. QED
  BY <1>4, <1>5 DEF Service!GiveUp

LEMMA CancelPendingRefines ==
    ASSUME RInv, RInv', CancelPendingForShutdown
    PROVE  Service!GiveUp
<1> DEFINE C == {c \in Calls : fate[c] = "waiting"}
<1>1. \A n \in Names : waiters[n] \subseteq C /\ holder[n] \notin C
  BY NoCallAssumption, WhatIsTold
<1>2. LineOf(waiters', holder') = Service!Without(C)
  BY <1>1 DEF CancelPendingForShutdown, LineOf, Line, Service!Without
<1>3. \A d \in Calls : fate'[d] = "idle" <=> fate[d] = "idle"
  BY DEF CancelPendingForShutdown, RInv, IInv, PromisesMatchMaps
<1>4. Service!Leave(C)
  BY <1>2, <1>3, LeaveStep DEF CancelPendingForShutdown
<1>5. C \in SUBSET {d \in Calls : Told[d] = "waiting"}
  BY WhatIsTold
<1>6. QED
  BY <1>4, <1>5 DEF Service!GiveUp

\* The holders of a session leave, and then those of its waiters that were not promoted.
LEMMA DropSessionRefines ==
    ASSUME RInv, RInv', NEW s \in Sessions, DropSession(s)
    PROVE  Service!Depart(s)
<1> DEFINE N == LocksOf(s)
           P == {holder[n] : n \in N} \ {NoCall}
           D == DroppedWaiters(s)
           W == WaitersAfter(N)
           H == HolderAfter(N)
<1>1. N \in SUBSET Names /\ "dropped" \in HowsLockEnds
  BY DEF LocksOf, HowsLockEnds
<1>2. LineOf(W, H) = Service!Without(P)
  BY <1>1, PassedLines DEF RInv
<1>3. /\ holder' = H /\ turn' = turn /\ request' = request
      /\ waiters' = [n \in Names |-> W[n] \ D]
      /\ \A c \in Calls : fate'[c] = IF c \in D THEN "dropped" ELSE FateAfter(N, "dropped")[c]
  BY DEF DropSession
<1>4. /\ Consistent(FateAfter(N, "dropped"), W, H, turn)
      /\ \A c \in Calls : FateAfter(N, "dropped")[c] = "idle" <=> fate[c] = "idle"
  BY <1>1, PassedAhead, PassingKeepsAgreement DEF RInv
<1>5. /\ D \subseteq Calls
      /\ \A c \in D : SessionOf(c) = s /\ \E n \in Names : c \in W[n]
  BY DEF DroppedWaiters, CallsOf
<1>6. \A n \in Names : W[n] \subseteq waiters[n]
  BY DEF WaitersAfter
<1>7. \A c \in D : FateAfter(N, "dropped")[c] = "waiting"
  BY <1>4, <1>5 DEF Consistent
<1>8. \A n \in Names : H[n] \notin D
  BY <1>4, <1>5, <1>7 DEF Consistent
<1> HIDE DEF N, P, D, W, H
<1>9. LineOf(waiters', holder') = Service!Without(P \cup D)
  <2>1. \A n \in Names : LineOf(W, H)[n] = Line[n] \ P
    BY <1>2 DEF Service!Without
  <2>2. \A n \in Names : (W[n] \ D) \cup ({H[n]} \ {NoCall}) = LineOf(W, H)[n] \ D
    BY <1>8 DEF LineOf
  <2>3. \A n \in Names : (W[n] \ D) \cup ({H[n]} \ {NoCall}) = Line[n] \ (P \cup D)
    BY <2>1, <2>2
  <2>4. QED
    BY <1>3, <2>3 DEF LineOf, Service!Without
<1>10. \A c \in Calls : fate'[c] = "idle" <=> fate[c] = "idle"
  BY <1>3, <1>4, <1>7
<1>11. Service!Leave(P \cup D)
  BY <1>3, <1>9, <1>10, LeaveStep
<1>12. \A c \in P : c \in Calls /\ Told[c] = "held" /\ request[c].session = s
  BY WhatIsTold DEF P, N, LocksOf, OwnedBy, SessionOf
<1>13. \A c \in D : c \in Calls /\ Told[c] = "waiting" /\ request[c].session = s
  BY <1>5, <1>6, WhatIsTold DEF SessionOf
<1>14. P \cup D
          \in SUBSET {c \in Calls : Told[c] \in {"held", "waiting"} /\ request[c].session = s}
  BY <1>12, <1>13
<1>15. QED
  BY <1>11, <1>14 DEF Service!Depart

\* The three outcomes of acquireLock are the two of Ask.
LEMMA AcquireRefines ==
    ASSUME RInv, RInv', NEW c \in Calls, NEW s \in Sessions, NEW n \in Names,
           NEW ttl \in BOOLEAN,
           AcquireFree(c, s, n, ttl) \/ AcquireReentrant(c, s, n, ttl)
             \/ AcquireBusy(c, s, n, ttl)
    PROVE  Service!Ask(c, s, n, ttl)
<1> DEFINE N == ToPassFirst(n)
           C == {holder[m] : m \in N} \ {NoCall}
           W == WaitersAfter(N)
           H == HolderAfter(N)
           F == FateAfter(N, "expired")
           L == LineOf(W, H)
           Refused == \E d \in L[n] : Service!IsFirst(d, L, turn) /\ request[d].session = s
           J == IF Refused THEN L ELSE [L EXCEPT ![n] = @ \cup {c}]
<1>0. NoCall \notin Calls
  BY NoCallAssumption
<1>1. N \in SUBSET Names /\ "expired" \in HowsLockEnds
  BY DEF ToPassFirst, HowsLockEnds
<1>2. NewCall(c, s, n, ttl)
  BY DEF AcquireFree, AcquireReentrant, AcquireBusy
<1>3. Consistent(F, W, H, turn) /\ Agree(F, W, H)
      /\ \A d \in Calls : F[d] = "idle" <=> fate[d] = "idle"
  BY <1>1, PassedAhead, PassingKeepsAgreement DEF RInv
<1>4. /\ fate[c] = "idle"
      /\ \A d \in Calls \ {c} : turn'[d] = turn[d] /\ request'[d] = request[d]
      /\ \A d \in Calls : fate[d] # "idle" => turn'[d] < turn'[c]
  BY <1>2, NewCallIsLast DEF RInv
<1>5. L = Service!Without(C)
  BY <1>1, PassedLines DEF RInv
<1>6. C \in SUBSET Service!MayLapse
  <2>1. \A m \in N : holder[m] = NoCall \/ Expired(m)
    BY DEF ToPassFirst, Stranded
  <2>2. QED
    BY <1>1, <2>1, ExpiredMayLapse
<1>7. Service!TakesPlace(c)
  <2>1. turn' \in [Calls -> Nat]
    BY DEF RInv, IInv, TypeOK
  <2>2. \A d \in Calls : Service!InLine(d, Line) => fate[d] # "idle"
    BY WhatIsTold DEF Service!InLine, Line
  <2>3. QED
    BY <1>4, <2>1, <2>2 DEF Service!TakesPlace
<1>8. Told[c] = "idle"
      /\ request' = [request EXCEPT ![c] = [session |-> s, name |-> n, ttl |-> ttl]]
  BY <1>2, <1>4, WhatIsTold DEF NewCall
<1>9. \A m \in Names : c \notin W[m] /\ c # H[m]
  BY <1>3, <1>4 DEF Consistent
<1>10. Refused <=> OwnedBy(s, H[n])
  <2>1. \A d : d \in L[n] <=> d \in W[n] \/ (d = H[n] /\ d # NoCall)
    BY DEF LineOf
  <2>2. L[n] \subseteq Calls
    BY <2>1, <1>3 DEF Consistent
  <2>3. \A d \in Calls : Service!IsFirst(d, L, turn) <=> \E m \in Names : d = H[m]
    BY <1>3, FirstIsHolder
  <2>4. \A d \in L[n] : \A m \in Names : d = H[m] => m = n
    BY <1>3, <2>1, <2>2 DEF Agree
  <2>5. QED
    BY <1>0, <2>1, <2>2, <2>3, <2>4 DEF OwnedBy, SessionOf
<1>11. \/ /\ ~ Refused /\ waiters' = W /\ holder' = [H EXCEPT ![n] = c] /\ H[n] = NoCall
          /\ fate' = [F EXCEPT ![c] = "held"]
       \/ /\ Refused /\ waiters' = W /\ holder' = H
          /\ fate' = [F EXCEPT ![c] = "refused"]
       \/ /\ ~ Refused /\ waiters' = [W EXCEPT ![n] = @ \cup {c}] /\ holder' = H
          /\ fate' = [F EXCEPT ![c] = "waiting"]
  BY <1>10 DEF AcquireFree, AcquireReentrant, AcquireBusy, OwnedBy
<1>12. /\ W \in [Names -> SUBSET Calls] /\ H \in [Names -> Calls \cup {NoCall}]
       /\ F \in [Calls -> Fates]
  BY <1>3 DEF Consistent
<1> HIDE DEF N, C, W, H, F, Refused
<1>13. LineOf(waiters', holder') = J
  <2>1. CASE Refused
    BY <1>11, <2>1
  <2>2. CASE ~ Refused
    <3>1. \A m \in Names : waiters'[m] \cup ({holder'[m]} \ {NoCall})
                             = IF m = n THEN L[m] \cup {c} ELSE L[m]
      BY <1>0, <1>11, <1>12, <2>2 DEF LineOf
    <3>2. J = [m \in Names |-> IF m = n THEN L[m] \cup {c} ELSE L[m]]
      BY <2>2 DEF LineOf
    <3>3. QED
      BY <3>1, <3>2 DEF LineOf
  <2>3. QED
    BY <2>1, <2>2
<1>14. \A d \in Calls : fate'[d] = "idle" <=> fate[d] = "idle" /\ d \notin {c}
  BY <1>3, <1>11, <1>12
<1>15. ToldOf(fate') = Service!Known(LineOf(waiters', holder'), turn', {c})
  BY <1>14, NextIsConsistent, KnownIsTold
<1>16. Line' = J /\ Told' = Service!Known(J, turn', {c})
  BY <1>13, <1>15, MappingOf
<1>17. QED
  BY <1>5, <1>6, <1>7, <1>8, <1>16 DEF Service!Ask, Refused

LEMMA StepRefines == RInv /\ RInv' /\ [Next]_vars => [Service!Next]_<<request, turn, Line, Told>>
<1> SUFFICES ASSUME RInv, RInv', [Next]_vars
             PROVE  [Service!Next]_<<request, turn, Line, Told>>
  OBVIOUS
<1>1. ASSUME NEW c \in Calls, NEW s \in Sessions, NEW n \in Names, NEW ttl \in BOOLEAN,
             AcquireFree(c, s, n, ttl) \/ AcquireReentrant(c, s, n, ttl)
               \/ AcquireBusy(c, s, n, ttl)
      PROVE  Service!Next
  BY <1>1, AcquireRefines DEF Service!Next
<1>2. ASSUME NEW c \in Calls, WaiterTimeout(c)
      PROVE  Service!Next
  BY <1>2, WaiterTimeoutRefines DEF Service!Next
<1>3. ASSUME NEW s \in Sessions, NEW n \in Names, Release(s, n)
      PROVE  Service!Next
  BY <1>3, ReleaseRefines DEF Service!Next
<1>4. ASSUME NEW n \in Names, TtlTimerFires(n)
      PROVE  Service!Next
  BY <1>4, TtlTimerFiresRefines DEF Service!Next
<1>5. ASSUME ListLocks
      PROVE  Service!Next
  BY <1>5, ListLocksRefines DEF Service!Next
<1>6. ASSUME NEW s \in Sessions, DropSession(s)
      PROVE  Service!Next
  BY <1>6, DropSessionRefines DEF Service!Next
<1>7. ASSUME CancelPendingForShutdown
      PROVE  Service!Next
  BY <1>7, CancelPendingRefines DEF Service!Next
<1>8. ASSUME UNCHANGED <<request, turn, fate, waiters, holder>>
      PROVE  UNCHANGED <<request, turn, Line, Told>>
  BY <1>8 DEF Line, Told
<1>9. ASSUME UNCHANGED vars \/ \E c \in Calls : TtlLapses(c)
      PROVE  UNCHANGED <<request, turn, Line, Told>>
  BY <1>8, <1>9 DEF vars, TtlLapses
<1>10. QED
  BY <1>1, <1>2, <1>3, <1>4, <1>5, <1>6, <1>7, <1>9 DEF Next, EndSession,
     ReleaseLocksForSession

LEMMA InitRefines == Init => Service!Init
<1>1. Init => /\ Line = [n \in Names |-> {}]
              /\ Told = [c \in Calls |-> "idle"]
  BY DEF Init, Line, Told
<1>2. QED
  BY <1>1 DEF Init, Service!Init

\* The hub's lists, maps and timers implement one line per name: locks go to the first in
\* line, are taken only from who unlocks, ends or lapses, and everyone is told.
THEOREM LocksAreImplemented == Spec => ImplementsLockService
<1>1. Spec => []RInv
  BY InitEstablishesRInv, NextKeepsRInv, PTL DEF Spec
<1>2. RInv /\ RInv' /\ [Next]_vars => [Service!Next]_<<request, turn, Line, Told>>
  BY StepRefines
<1>3. Spec => Service!Init /\ [][Service!Next]_<<request, turn, Line, Told>>
  BY <1>1, <1>2, InitRefines, PTL DEF Spec
<1>4. QED
  BY <1>3 DEF ImplementsLockService, Service!Spec, Service!serviceVars
=============================================================================
