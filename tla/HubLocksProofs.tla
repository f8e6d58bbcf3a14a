--------------------------- MODULE HubLocksProofs ---------------------------
(***************************************************************************)
(* Proofs about HubLocks, for any sets of sessions, names and calls.       *)
(*                                                                         *)
(* The inductive invariant is the conjunction of the properties the runs   *)
(* check: PromisesMatchMaps ties the two maps to the promises, and the     *)
(* others need it to know that the call at the head of a list is a call    *)
(* that waits, for that name, and for no other.                            *)
(***************************************************************************)
EXTENDS HubLocks, TLAPS, WellFoundedInduction

\* The properties below, of a promise table f, lists w, Locks h and timers t: the state, or
\* the state a call leaves once it has passed some Locks on.
Agree(f, w, h) ==
    \A c \in Calls :
       /\ f[c] = "waiting" <=> \E n \in Names : c \in w[n]
       /\ f[c] = "held" <=> \E n \in Names : c = h[n]
       /\ \A n \in Names : c \in w[n] \cup {h[n]} => NameOf(c) = n

Typed(f, w, h, t) ==
    /\ f \in [Calls -> Fates]
    /\ w \in [Names -> SUBSET Calls]
    /\ h \in [Names -> Calls \cup {NoCall}]
    /\ t \in [Names -> Calls \cup {NoCall}]

InSync(h, t) == \A n \in Names : t[n] = IF HasTtl(h[n]) THEN h[n] ELSE NoCall

NoneStranded(w, h) == \A n \in Names : w[n] # {} => h[n] # NoCall

HowsLockEnds == {"released", "expired", "dropped"}

IInv ==
    /\ TypeOK
    /\ PromisesMatchMaps
    /\ TimerInSync
    /\ NoStrandedWaiters
    /\ NoWaiterOfEndedSession

-----------------------------------------------------------------------------
\* A nonempty set of calls has one that was pushed first.
LEMMA SomeoneIsFirst ==
    ASSUME NEW W \in SUBSET Calls, W # {}, turn \in [Calls -> Nat]
    PROVE  \E c \in W : \A d \in W : turn[c] <= turn[d]
<1> DEFINE T == {turn[c] : c \in W}
<1>1. T \subseteq Nat /\ T # {}
  OBVIOUS
<1>2. PICK x \in T : \A y \in T : ~ (<<y, x>> \in OpToRel(<, Nat))
  BY <1>1, NatLessThanWellFounded, WFMin, Zenon
<1>3. \A y \in T : ~ (y < x)
  BY <1>1, <1>2 DEF OpToRel
<1>4. PICK c \in W : turn[c] = x
  OBVIOUS
<1>5. \A d \in W : turn[c] <= turn[d]
  BY <1>1, <1>3, <1>4
<1>6. QED
  BY <1>5

\* What shift() returns: an entry of the list, the first one, and undefined iff it is empty.
LEMMA NextInLineIsFirst ==
    ASSUME TypeOK, NEW n \in Names
    PROVE  /\ waiters[n] = {} => NextInLine(n) = NoCall
           /\ waiters[n] # {} =>
                 /\ NextInLine(n) \in waiters[n]
                 /\ NextInLine(n) \in Calls
                 /\ \A d \in waiters[n] : turn[NextInLine(n)] <= turn[d]
<1>1. CASE waiters[n] = {}
  BY <1>1 DEF NextInLine
<1>2. CASE waiters[n] # {}
  <2>1. \E c \in waiters[n] : \A d \in waiters[n] : turn[c] <= turn[d]
    BY <1>2, SomeoneIsFirst DEF TypeOK
  <2>2. QED
    BY <1>2, <2>1 DEF NextInLine, FirstWaiter, TypeOK
<1>3. QED
  BY <1>1, <1>2

\* Passing on the Locks of any set of names keeps the maps and the promises in agreement.
LEMMA PassingKeepsAgreement ==
    ASSUME IInv, NEW N \in SUBSET Names, NEW how \in HowsLockEnds
    PROVE  /\ Typed(FateAfter(N, how), WaitersAfter(N), HolderAfter(N), TimerAfter(N))
           /\ Agree(FateAfter(N, how), WaitersAfter(N), HolderAfter(N))
           /\ InSync(HolderAfter(N), TimerAfter(N))
           /\ NoneStranded(WaitersAfter(N), HolderAfter(N))
           /\ \A c \in Calls : FateAfter(N, how)[c] = "idle" <=> fate[c] = "idle"
<1> DEFINE F == FateAfter(N, how)
           W == WaitersAfter(N)
           H == HolderAfter(N)
           T == TimerAfter(N)
<1>0. NoCall \notin Calls
  BY NoCallAssumption
<1>1. \A n \in Names : /\ waiters[n] = {} => NextInLine(n) = NoCall
                       /\ waiters[n] # {} => NextInLine(n) \in waiters[n] \cap Calls
  BY NextInLineIsFirst DEF IInv
<1>2. \A n \in Names : NextInLine(n) \in Calls \cup {NoCall}
  BY <1>1
<1>3. Typed(F, W, H, T)
  BY <1>1, <1>2 DEF IInv, TypeOK, Typed, FateAfter, WaitersAfter, HolderAfter, TimerAfter,
                    Fates, HowsLockEnds
<1>4. \A n \in Names : NextInLine(n) # NoCall =>
         fate[NextInLine(n)] = "waiting" /\ NameOf(NextInLine(n)) = n
  BY <1>1, <1>0 DEF IInv, PromisesMatchMaps
<1>5. \A n \in Names : holder[n] # NoCall => fate[holder[n]] = "held"
  BY <1>0 DEF IInv, PromisesMatchMaps, TypeOK
<1>6. Agree(F, W, H)
  <2> SUFFICES ASSUME NEW c \in Calls
               PROVE  /\ F[c] = "waiting" <=> \E n \in Names : c \in W[n]
                      /\ F[c] = "held" <=> \E n \in Names : c = H[n]
                      /\ \A n \in Names : c \in W[n] \cup {H[n]} => NameOf(c) = n
    BY DEF Agree
  <2> USE DEF HowsLockEnds
  <2>1. \A n \in Names :
          /\ W[n] = IF n \in N THEN waiters[n] \ {NextInLine(n)} ELSE waiters[n]
          /\ H[n] = IF n \in N THEN NextInLine(n) ELSE holder[n]
    BY DEF WaitersAfter, HolderAfter
  <2>2. F[c] = IF \E n \in N : c = holder[n] THEN how
               ELSE IF \E n \in N : c = NextInLine(n) THEN "held" ELSE fate[c]
    BY DEF FateAfter
  <2>3. /\ fate[c] = "waiting" <=> \E n \in Names : c \in waiters[n]
        /\ fate[c] = "held" <=> \E n \in Names : c = holder[n]
        /\ \A n \in Names : c \in waiters[n] => NameOf(c) = n
        /\ \A n \in Names : c = holder[n] => NameOf(c) = n
    BY DEF IInv, PromisesMatchMaps
  <2>4. \A n \in Names : c = NextInLine(n) => c \in waiters[n]
    BY <1>0, <1>1
  <2> HIDE DEF F, W, H
  <2>5. \A n \in Names : c \in W[n] \cup {H[n]} => NameOf(c) = n
    BY <2>1, <2>3, <2>4
  <2>6. F[c] = "waiting" <=> \E n \in Names : c \in W[n]
    <3>1. CASE \E n \in N : c = holder[n]
      BY <3>1, <2>1, <2>2, <2>3
    <3>2. CASE ~ (\E n \in N : c = holder[n]) /\ \E n \in N : c = NextInLine(n)
      <4>1. PICK m \in N : c = NextInLine(m)
        BY <3>2
      <4>2. c \in waiters[m] /\ NameOf(c) = m
        BY <4>1, <2>3, <2>4
      <4>3. \A n \in Names : c \in waiters[n] => n = m
        BY <4>2, <2>3
      <4>4. \A n \in Names : c \notin W[n]
        BY <4>1, <4>3, <2>1
      <4>5. F[c] = "held"
        BY <3>2, <2>2
      <4>6. QED
        BY <4>4, <4>5
    <3>3. CASE ~ (\E n \in N : c = holder[n]) /\ ~ (\E n \in N : c = NextInLine(n))
      BY <3>3, <2>1, <2>2, <2>3
    <3>4. QED
      BY <3>1, <3>2, <3>3
  <2>7. F[c] = "held" <=> \E n \in Names : c = H[n]
    <3>1. CASE \E n \in N : c = holder[n]
      BY <3>1, <2>1, <2>2, <2>3, <2>4
    <3>2. CASE ~ (\E n \in N : c = holder[n]) /\ \E n \in N : c = NextInLine(n)
      <4>1. PICK m \in N : c = NextInLine(m)
        BY <3>2
      <4>2. c = H[m]
        BY <4>1, <2>1
      <4>3. F[c] = "held"
        BY <3>2, <2>2
      <4>4. QED
        BY <4>2, <4>3
    <3>3. CASE ~ (\E n \in N : c = holder[n]) /\ ~ (\E n \in N : c = NextInLine(n))
      BY <3>3, <2>1, <2>2, <2>3
    <3>4. QED
      BY <3>1, <3>2, <3>3
  <2>8. QED
    BY <2>5, <2>6, <2>7
<1>7. InSync(H, T)
  BY DEF IInv, TimerInSync, InSync, HolderAfter, TimerAfter
<1>8. NoneStranded(W, H)
  BY <1>0, <1>1 DEF IInv, NoStrandedWaiters, NoneStranded, WaitersAfter, HolderAfter
<1>9. \A c \in Calls : F[c] = "idle" <=> fate[c] = "idle"
  BY <1>0, <1>4, <1>5 DEF FateAfter, HowsLockEnds, IInv, TypeOK
<1>10. QED
  BY <1>3, <1>6, <1>7, <1>8, <1>9

-----------------------------------------------------------------------------
\* The types after a step follow from those of its maps once maps and promises agree.
LEMMA AssembleTypeOK ==
    ASSUME Typed(fate', waiters', holder', timer'), PromisesMatchMaps', TimerInSync',
           request' \in [Calls -> Requests \cup {NoRequest}],
           turn' \in [Calls -> Nat], arrivals' \in Nat,
           lapsed' \in SUBSET Calls, ended' \in SUBSET Sessions,
           \A c \in Calls : fate'[c] # "idle" => request'[c] \in Requests
    PROVE  TypeOK'
<1>1. NoCall \notin Calls
  BY NoCallAssumption
<1>2. ASSUME NEW n \in Names, timer'[n] # NoCall
      PROVE  fate'[timer'[n]] # "idle" /\ request'[timer'[n]].ttl
  <2>1. timer'[n] = holder'[n] /\ request'[holder'[n]].ttl
    BY <1>2 DEF TimerInSync, HasTtl
  <2>2. holder'[n] \in Calls /\ fate'[holder'[n]] = "held"
    BY <1>2, <2>1 DEF Typed, PromisesMatchMaps
  <2>3. QED
    BY <2>1, <2>2
<1>3. QED
  BY <1>2 DEF TypeOK, Typed

\* What the three outcomes of acquireLock share: only the arguments of c change, and c is in
\* neither map yet.
LEMMA NewCallIsFresh ==
    ASSUME IInv, NEW c \in Calls, NEW s \in Sessions, NEW n \in Names, NEW ttl \in BOOLEAN,
           NewCall(c, s, n, ttl), NEW N \in SUBSET Names
    PROVE  /\ c # NoCall /\ FateAfter(N, "expired")[c] = "idle"
           /\ \A m \in Names : c \notin WaitersAfter(N)[m] /\ c # HolderAfter(N)[m]
           /\ request' \in [Calls -> Requests \cup {NoRequest}]
           /\ request'[c] = [session |-> s, name |-> n, ttl |-> ttl]
           /\ request'[c] \in Requests
           /\ \A d \in Calls \ {c} : request'[d] = request[d]
           /\ \A d \in Calls : FateAfter(N, "expired")[d] # "idle" => request[d] \in Requests
           /\ \A m \in Names : \A d \in WaitersAfter(N)[m] : SessionOf(d) \notin ended
           /\ turn' \in [Calls -> Nat] /\ arrivals' \in Nat
           /\ s \notin ended /\ lapsed' = lapsed /\ ended' = ended
           /\ lapsed \in SUBSET Calls /\ ended \in SUBSET Sessions
<1> DEFINE F == FateAfter(N, "expired")
           W == WaitersAfter(N)
           H == HolderAfter(N)
<1>1. "expired" \in HowsLockEnds
  BY DEF HowsLockEnds
<1>2. Typed(F, W, H, TimerAfter(N)) /\ Agree(F, W, H)
      /\ \A d \in Calls : F[d] = "idle" <=> fate[d] = "idle"
  BY <1>1, PassingKeepsAgreement
<1>3. c # NoCall /\ F[c] = "idle"
  BY <1>2, NoCallAssumption DEF NewCall
<1>4. \A m \in Names : c \notin W[m] /\ c # H[m]
  BY <1>2, <1>3 DEF Agree
<1>5. \A m \in Names : W[m] \subseteq waiters[m]
  BY DEF WaitersAfter
<1>6. \A m \in Names : \A d \in W[m] : SessionOf(d) \notin ended
  BY <1>5 DEF IInv, NoWaiterOfEndedSession
<1>7. [session |-> s, name |-> n, ttl |-> ttl] \in Requests
  BY DEF Requests
<1>8. /\ request' \in [Calls -> Requests \cup {NoRequest}]
      /\ request'[c] = [session |-> s, name |-> n, ttl |-> ttl]
      /\ \A d \in Calls \ {c} : request'[d] = request[d]
  BY <1>7 DEF NewCall, IInv, TypeOK
<1>9. \A d \in Calls : F[d] # "idle" => request[d] \in Requests
  BY <1>2 DEF IInv, TypeOK
<1>10. /\ turn' \in [Calls -> Nat] /\ arrivals' \in Nat
       /\ s \notin ended /\ lapsed' = lapsed /\ ended' = ended
       /\ lapsed \in SUBSET Calls /\ ended \in SUBSET Sessions
  BY DEF NewCall, IInv, TypeOK
<1> HIDE DEF F, W, H
<1>11. QED
  BY <1>3, <1>4, <1>6, <1>7, <1>8, <1>9, <1>10 DEF F, W, H

LEMMA AcquireFreeStep ==
    ASSUME IInv, NEW c \in Calls, NEW s \in Sessions, NEW n \in Names, NEW ttl \in BOOLEAN,
           AcquireFree(c, s, n, ttl)
    PROVE  IInv'
<1> DEFINE N == ToPassFirst(n)
           F == FateAfter(N, "expired")
           W == WaitersAfter(N)
           H == HolderAfter(N)
           T == TimerAfter(N)
<1>1. N \in SUBSET Names /\ "expired" \in HowsLockEnds
  BY DEF ToPassFirst, HowsLockEnds
<1>2. Typed(F, W, H, T) /\ Agree(F, W, H) /\ InSync(H, T) /\ NoneStranded(W, H)
  BY <1>1, PassingKeepsAgreement
<1>3. NewCall(c, s, n, ttl)
  BY DEF AcquireFree
<1> HIDE DEF N
<1>4. /\ c # NoCall /\ F[c] = "idle"
      /\ \A m \in Names : c \notin W[m] /\ c # H[m]
      /\ request' \in [Calls -> Requests \cup {NoRequest}]
      /\ request'[c] = [session |-> s, name |-> n, ttl |-> ttl]
      /\ request'[c] \in Requests
      /\ \A d \in Calls \ {c} : request'[d] = request[d]
      /\ \A d \in Calls : F[d] # "idle" => request[d] \in Requests
      /\ \A m \in Names : \A d \in W[m] : SessionOf(d) \notin ended
      /\ turn' \in [Calls -> Nat] /\ arrivals' \in Nat
      /\ s \notin ended /\ lapsed' = lapsed /\ ended' = ended
      /\ lapsed \in SUBSET Calls /\ ended \in SUBSET Sessions
  BY <1>1, <1>3, NewCallIsFresh
<1>5. /\ holder' = [H EXCEPT ![n] = c]
      /\ waiters' = W
      /\ timer' = [T EXCEPT ![n] = IF ttl THEN c ELSE NoCall]
      /\ fate' = [F EXCEPT ![c] = "held"]
      /\ H[n] = NoCall
  BY DEF AcquireFree, N
<1>6. NoCall \notin Calls
  BY NoCallAssumption
<1> HIDE DEF F, W, H, T
<1>7. Typed(fate', waiters', holder', timer')
  BY <1>2, <1>4, <1>5 DEF Typed, Fates
<1>8. PromisesMatchMaps'
  <2> SUFFICES ASSUME NEW d \in Calls
               PROVE  /\ fate'[d] = "waiting" <=> \E m \in Names : d \in waiters'[m]
                      /\ fate'[d] = "held" <=> \E m \in Names : d = holder'[m]
                      /\ \A m \in Names : d \in waiters'[m] \cup {holder'[m]} =>
                            request'[d].name = m
    BY DEF PromisesMatchMaps, NameOf
  <2>1. CASE d = c
    BY <1>2, <1>4, <1>5, <2>1 DEF Typed
  <2>2. CASE d # c
    <3>1. /\ F[d] = "waiting" <=> \E m \in Names : d \in W[m]
          /\ F[d] = "held" <=> \E m \in Names : d = H[m]
          /\ \A m \in Names : d \in W[m] \cup {H[m]} => request'[d].name = m
      BY <1>2, <1>4, <2>2 DEF Agree, NameOf
    <3>2. QED
      BY <1>2, <1>4, <1>5, <1>6, <2>2, <3>1 DEF Typed
  <2>3. QED
    BY <2>1, <2>2
<1>9. TimerInSync'
  BY <1>2, <1>4, <1>5, <1>6 DEF Typed, InSync, TimerInSync, HasTtl
<1>10. NoStrandedWaiters'
  BY <1>2, <1>4, <1>5 DEF Typed, NoneStranded, NoStrandedWaiters
<1>11. NoWaiterOfEndedSession'
  BY <1>2, <1>4, <1>5 DEF NoWaiterOfEndedSession, SessionOf, Typed
<1>12. \A d \in Calls : fate'[d] # "idle" => request'[d] \in Requests
  BY <1>2, <1>4, <1>5 DEF Typed
<1>13. TypeOK'
  BY <1>4, <1>7, <1>8, <1>9, <1>12, AssembleTypeOK
<1>14. QED
  BY <1>8, <1>9, <1>10, <1>11, <1>13 DEF IInv

LEMMA AcquireReentrantStep ==
    ASSUME IInv, NEW c \in Calls, NEW s \in Sessions, NEW n \in Names, NEW ttl \in BOOLEAN,
           AcquireReentrant(c, s, n, ttl)
    PROVE  IInv'
<1> DEFINE N == ToPassFirst(n)
           F == FateAfter(N, "expired")
           W == WaitersAfter(N)
           H == HolderAfter(N)
           T == TimerAfter(N)
<1>1. N \in SUBSET Names /\ "expired" \in HowsLockEnds
  BY DEF ToPassFirst, HowsLockEnds
<1>2. Typed(F, W, H, T) /\ Agree(F, W, H) /\ InSync(H, T) /\ NoneStranded(W, H)
  BY <1>1, PassingKeepsAgreement
<1>3. NewCall(c, s, n, ttl)
  BY DEF AcquireReentrant
<1> HIDE DEF N
<1>4. /\ c # NoCall /\ F[c] = "idle"
      /\ \A m \in Names : c \notin W[m] /\ c # H[m]
      /\ request' \in [Calls -> Requests \cup {NoRequest}]
      /\ request'[c] = [session |-> s, name |-> n, ttl |-> ttl]
      /\ request'[c] \in Requests
      /\ \A d \in Calls \ {c} : request'[d] = request[d]
      /\ \A d \in Calls : F[d] # "idle" => request[d] \in Requests
      /\ \A m \in Names : \A d \in W[m] : SessionOf(d) \notin ended
      /\ turn' \in [Calls -> Nat] /\ arrivals' \in Nat
      /\ s \notin ended /\ lapsed' = lapsed /\ ended' = ended
      /\ lapsed \in SUBSET Calls /\ ended \in SUBSET Sessions
  BY <1>1, <1>3, NewCallIsFresh
<1>5. /\ holder' = H
      /\ waiters' = W
      /\ timer' = T
      /\ fate' = [F EXCEPT ![c] = "refused"]
      /\ H[n] # NoCall
  BY DEF AcquireReentrant, OwnedBy, N
<1>6. NoCall \notin Calls
  BY NoCallAssumption
<1> HIDE DEF F, W, H, T
<1>7. Typed(fate', waiters', holder', timer')
  BY <1>2, <1>4, <1>5 DEF Typed, Fates
<1>8. PromisesMatchMaps'
  <2> SUFFICES ASSUME NEW d \in Calls
               PROVE  /\ fate'[d] = "waiting" <=> \E m \in Names : d \in waiters'[m]
                      /\ fate'[d] = "held" <=> \E m \in Names : d = holder'[m]
                      /\ \A m \in Names : d \in waiters'[m] \cup {holder'[m]} =>
                            request'[d].name = m
    BY DEF PromisesMatchMaps, NameOf
  <2>1. CASE d = c
    BY <1>2, <1>4, <1>5, <2>1 DEF Typed
  <2>2. CASE d # c
    <3>1. /\ F[d] = "waiting" <=> \E m \in Names : d \in W[m]
          /\ F[d] = "held" <=> \E m \in Names : d = H[m]
          /\ \A m \in Names : d \in W[m] \cup {H[m]} => request'[d].name = m
      BY <1>2, <1>4, <2>2 DEF Agree, NameOf
    <3>2. QED
      BY <1>2, <1>4, <1>5, <1>6, <2>2, <3>1 DEF Typed
  <2>3. QED
    BY <2>1, <2>2
<1>9. TimerInSync'
  BY <1>2, <1>4, <1>5, <1>6 DEF Typed, InSync, TimerInSync, HasTtl
<1>10. NoStrandedWaiters'
  BY <1>2, <1>4, <1>5 DEF Typed, NoneStranded, NoStrandedWaiters
<1>11. NoWaiterOfEndedSession'
  BY <1>2, <1>4, <1>5 DEF NoWaiterOfEndedSession, SessionOf, Typed
<1>12. \A d \in Calls : fate'[d] # "idle" => request'[d] \in Requests
  BY <1>2, <1>4, <1>5 DEF Typed
<1>13. TypeOK'
  BY <1>4, <1>7, <1>8, <1>9, <1>12, AssembleTypeOK
<1>14. QED
  BY <1>8, <1>9, <1>10, <1>11, <1>13 DEF IInv

LEMMA AcquireBusyStep ==
    ASSUME IInv, NEW c \in Calls, NEW s \in Sessions, NEW n \in Names, NEW ttl \in BOOLEAN,
           AcquireBusy(c, s, n, ttl)
    PROVE  IInv'
<1> DEFINE N == ToPassFirst(n)
           F == FateAfter(N, "expired")
           W == WaitersAfter(N)
           H == HolderAfter(N)
           T == TimerAfter(N)
<1>1. N \in SUBSET Names /\ "expired" \in HowsLockEnds
  BY DEF ToPassFirst, HowsLockEnds
<1>2. Typed(F, W, H, T) /\ Agree(F, W, H) /\ InSync(H, T) /\ NoneStranded(W, H)
  BY <1>1, PassingKeepsAgreement
<1>3. NewCall(c, s, n, ttl)
  BY DEF AcquireBusy
<1> HIDE DEF N
<1>4. /\ c # NoCall /\ F[c] = "idle"
      /\ \A m \in Names : c \notin W[m] /\ c # H[m]
      /\ request' \in [Calls -> Requests \cup {NoRequest}]
      /\ request'[c] = [session |-> s, name |-> n, ttl |-> ttl]
      /\ request'[c] \in Requests
      /\ \A d \in Calls \ {c} : request'[d] = request[d]
      /\ \A d \in Calls : F[d] # "idle" => request[d] \in Requests
      /\ \A m \in Names : \A d \in W[m] : SessionOf(d) \notin ended
      /\ turn' \in [Calls -> Nat] /\ arrivals' \in Nat
      /\ s \notin ended /\ lapsed' = lapsed /\ ended' = ended
      /\ lapsed \in SUBSET Calls /\ ended \in SUBSET Sessions
  BY <1>1, <1>3, NewCallIsFresh
<1>5. /\ holder' = H
      /\ waiters' = [W EXCEPT ![n] = @ \cup {c}]
      /\ timer' = T
      /\ fate' = [F EXCEPT ![c] = "waiting"]
      /\ H[n] # NoCall
  BY DEF AcquireBusy, N
<1>6. NoCall \notin Calls
  BY NoCallAssumption
<1> HIDE DEF F, W, H, T
<1>7. Typed(fate', waiters', holder', timer')
  BY <1>2, <1>4, <1>5 DEF Typed, Fates
<1>8. PromisesMatchMaps'
  <2> SUFFICES ASSUME NEW d \in Calls
               PROVE  /\ fate'[d] = "waiting" <=> \E m \in Names : d \in waiters'[m]
                      /\ fate'[d] = "held" <=> \E m \in Names : d = holder'[m]
                      /\ \A m \in Names : d \in waiters'[m] \cup {holder'[m]} =>
                            request'[d].name = m
    BY DEF PromisesMatchMaps, NameOf
  <2>1. CASE d = c
    BY <1>2, <1>4, <1>5, <2>1 DEF Typed
  <2>2. CASE d # c
    <3>1. /\ F[d] = "waiting" <=> \E m \in Names : d \in W[m]
          /\ F[d] = "held" <=> \E m \in Names : d = H[m]
          /\ \A m \in Names : d \in W[m] \cup {H[m]} => request'[d].name = m
      BY <1>2, <1>4, <2>2 DEF Agree, NameOf
    <3>2. QED
      BY <1>2, <1>4, <1>5, <1>6, <2>2, <3>1 DEF Typed
  <2>3. QED
    BY <2>1, <2>2
<1>9. TimerInSync'
  BY <1>2, <1>4, <1>5, <1>6 DEF Typed, InSync, TimerInSync, HasTtl
<1>10. NoStrandedWaiters'
  BY <1>2, <1>4, <1>5 DEF Typed, NoneStranded, NoStrandedWaiters
<1>11. NoWaiterOfEndedSession'
  BY <1>2, <1>4, <1>5 DEF NoWaiterOfEndedSession, SessionOf, Typed
<1>12. \A d \in Calls : fate'[d] # "idle" => request'[d] \in Requests
  BY <1>2, <1>4, <1>5 DEF Typed
<1>13. TypeOK'
  BY <1>4, <1>7, <1>8, <1>9, <1>12, AssembleTypeOK
<1>14. QED
  BY <1>8, <1>9, <1>10, <1>11, <1>13 DEF IInv

\* releaseLock, the TTL callback and listLocks only pass Locks on.
LEMMA PassLocksStep ==
    ASSUME IInv, NEW N \in SUBSET Names, NEW how \in HowsLockEnds, PassLocks(N, how),
           UNCHANGED <<request, turn, arrivals, lapsed, ended>>
    PROVE  IInv'
<1> DEFINE F == FateAfter(N, how)
           W == WaitersAfter(N)
           H == HolderAfter(N)
           T == TimerAfter(N)
<1>1. Typed(F, W, H, T) /\ Agree(F, W, H) /\ InSync(H, T) /\ NoneStranded(W, H)
      /\ \A c \in Calls : F[c] = "idle" <=> fate[c] = "idle"
  BY PassingKeepsAgreement
<1>2. holder' = H /\ waiters' = W /\ timer' = T /\ fate' = F
  BY DEF PassLocks
<1>3. \A n \in Names : W[n] \subseteq waiters[n]
  BY DEF WaitersAfter
<1> HIDE DEF F, W, H, T
<1>4. Typed(fate', waiters', holder', timer')
  BY <1>1, <1>2
<1>5. PromisesMatchMaps'
  BY <1>1, <1>2 DEF Agree, PromisesMatchMaps, NameOf
<1>6. TimerInSync'
  BY <1>1, <1>2 DEF InSync, TimerInSync, HasTtl
<1>7. NoStrandedWaiters'
  BY <1>1, <1>2 DEF NoneStranded, NoStrandedWaiters
<1>8. NoWaiterOfEndedSession'
  BY <1>2, <1>3 DEF IInv, NoWaiterOfEndedSession, SessionOf
<1>9. \A c \in Calls : fate'[c] # "idle" => request'[c] \in Requests
  BY <1>1, <1>2 DEF IInv, TypeOK
<1>10. TypeOK'
  BY <1>4, <1>5, <1>6, <1>9, AssembleTypeOK DEF IInv, TypeOK
<1>11. QED
  BY <1>5, <1>6, <1>7, <1>8, <1>10 DEF IInv

LEMMA WaiterTimeoutStep ==
    ASSUME IInv, NEW c \in Calls, WaiterTimeout(c)
    PROVE  IInv'
<1>1. /\ fate[c] = "waiting"
      /\ waiters' = [n \in Names |-> waiters[n] \ {c}]
      /\ fate' = [fate EXCEPT ![c] = "timeout"]
      /\ UNCHANGED <<request, turn, arrivals, holder, timer, lapsed, ended>>
  BY DEF WaiterTimeout, IInv, PromisesMatchMaps
<1>2. Typed(fate', waiters', holder', timer')
  BY <1>1 DEF IInv, TypeOK, Typed, Fates
<1>3. PromisesMatchMaps'
  <2> SUFFICES ASSUME NEW d \in Calls
               PROVE  /\ fate'[d] = "waiting" <=> \E m \in Names : d \in waiters'[m]
                      /\ fate'[d] = "held" <=> \E m \in Names : d = holder'[m]
                      /\ \A m \in Names : d \in waiters'[m] \cup {holder'[m]} =>
                            request'[d].name = m
    BY DEF PromisesMatchMaps, NameOf
  <2>1. CASE d = c
    BY <1>1, <2>1 DEF IInv, TypeOK, PromisesMatchMaps, NameOf
  <2>2. CASE d # c
    BY <1>1, <2>2 DEF IInv, TypeOK, PromisesMatchMaps, NameOf
  <2>3. QED
    BY <2>1, <2>2
<1>4. TimerInSync'
  BY <1>1 DEF IInv, TimerInSync, HasTtl
<1>5. NoStrandedWaiters'
  BY <1>1 DEF IInv, NoStrandedWaiters
<1>6. NoWaiterOfEndedSession'
  BY <1>1 DEF IInv, NoWaiterOfEndedSession, SessionOf
<1>7. \A d \in Calls : fate'[d] # "idle" => request'[d] \in Requests
  BY <1>1 DEF IInv, TypeOK
<1>8. TypeOK'
  BY <1>1, <1>2, <1>3, <1>4, <1>7, AssembleTypeOK DEF IInv, TypeOK
<1>9. QED
  BY <1>3, <1>4, <1>5, <1>6, <1>8 DEF IInv

LEMMA TtlLapsesStep ==
    ASSUME IInv, NEW c \in Calls, TtlLapses(c)
    PROVE  IInv'
<1>1. lapsed' = lapsed \cup {c}
      /\ UNCHANGED <<request, fate, turn, arrivals, holder, waiters, timer, ended>>
  BY DEF TtlLapses
<1>2. TypeOK'
  BY <1>1 DEF IInv, TypeOK
<1>3. PromisesMatchMaps' /\ TimerInSync' /\ NoStrandedWaiters' /\ NoWaiterOfEndedSession'
  BY <1>1 DEF IInv, PromisesMatchMaps, NameOf, TimerInSync, HasTtl, NoStrandedWaiters,
              NoWaiterOfEndedSession, SessionOf
<1>4. QED
  BY <1>2, <1>3 DEF IInv

\* The maps and promises once releaseLocksForSession has run for session s.
LEMMA DropSessionStep ==
    ASSUME IInv, NEW s \in Sessions, DropSession(s), ended' \in {ended, ended \cup {s}}
    PROVE  IInv'
<1> DEFINE N == LocksOf(s)
           F == FateAfter(N, "dropped")
           W == WaitersAfter(N)
           H == HolderAfter(N)
           T == TimerAfter(N)
           D == DroppedWaiters(s)
<1>1. N \in SUBSET Names /\ "dropped" \in HowsLockEnds
  BY DEF LocksOf, HowsLockEnds
<1>2. Typed(F, W, H, T) /\ Agree(F, W, H) /\ InSync(H, T) /\ NoneStranded(W, H)
      /\ \A c \in Calls : F[c] = "idle" <=> fate[c] = "idle"
  BY <1>1, PassingKeepsAgreement
<1>3. /\ holder' = H /\ timer' = T
      /\ waiters' = [n \in Names |-> W[n] \ D]
      /\ fate' = [c \in Calls |-> IF c \in D THEN "dropped" ELSE F[c]]
      /\ UNCHANGED <<request, turn, arrivals, lapsed>>
  BY DEF DropSession
<1>4. \A n \in Names : W[n] \subseteq waiters[n]
  BY DEF WaitersAfter
<1>5. D \subseteq Calls
      /\ \A c \in D : F[c] = "waiting"
  BY <1>2 DEF DroppedWaiters, CallsOf, Agree
<1>6. \A c \in Calls : c \notin D /\ fate[c] # "idle" /\ SessionOf(c) = s =>
         \A n \in Names : c \notin W[n]
  BY DEF DroppedWaiters, CallsOf
<1>7. \A n \in Names : \A c \in waiters[n] : c \in Calls /\ fate[c] # "idle"
  BY DEF IInv, TypeOK, PromisesMatchMaps
<1> HIDE DEF N, F, W, H, T, D
<1>8. Typed(fate', waiters', holder', timer')
  BY <1>2, <1>3 DEF Typed, Fates
<1>9. PromisesMatchMaps'
  <2> SUFFICES ASSUME NEW c \in Calls
               PROVE  /\ fate'[c] = "waiting" <=> \E m \in Names : c \in waiters'[m]
                      /\ fate'[c] = "held" <=> \E m \in Names : c = holder'[m]
                      /\ \A m \in Names : c \in waiters'[m] \cup {holder'[m]} =>
                            request'[c].name = m
    BY DEF PromisesMatchMaps, NameOf
  <2>1. /\ F[c] = "waiting" <=> \E m \in Names : c \in W[m]
        /\ F[c] = "held" <=> \E m \in Names : c = H[m]
        /\ \A m \in Names : c \in W[m] \cup {H[m]} => request'[c].name = m
    BY <1>2, <1>3 DEF Agree, NameOf
  <2>2. QED
    BY <1>3, <1>5, <2>1
<1>10. TimerInSync'
  BY <1>2, <1>3 DEF InSync, TimerInSync, HasTtl
<1>11. NoStrandedWaiters'
  BY <1>2, <1>3 DEF NoneStranded, NoStrandedWaiters
<1>12. NoWaiterOfEndedSession'
  <2> SUFFICES ASSUME NEW n \in Names, NEW c \in waiters'[n]
               PROVE  request[c].session \notin ended'
    BY <1>3 DEF NoWaiterOfEndedSession, SessionOf
  <2>1. c \in W[n] /\ c \notin D /\ c \in waiters[n]
    BY <1>3, <1>4
  <2>2. request[c].session \notin ended
    BY <2>1 DEF IInv, NoWaiterOfEndedSession, SessionOf
  <2>3. request[c].session # s
    BY <1>6, <1>7, <2>1 DEF SessionOf
  <2>4. QED
    BY <2>2, <2>3
<1>13. \A c \in Calls : fate'[c] # "idle" => request'[c] \in Requests
  BY <1>2, <1>3, <1>5 DEF IInv, TypeOK
<1>14. ended' \in SUBSET Sessions /\ request' = request /\ turn' = turn
       /\ arrivals' = arrivals /\ lapsed' = lapsed
  BY <1>3 DEF IInv, TypeOK
<1>15. TypeOK'
  BY <1>8, <1>9, <1>10, <1>13, <1>14, AssembleTypeOK DEF IInv, TypeOK
<1>16. QED
  BY <1>9, <1>10, <1>11, <1>12, <1>15 DEF IInv

LEMMA CancelPendingForShutdownStep ==
    ASSUME IInv, CancelPendingForShutdown
    PROVE  IInv'
<1>1. /\ waiters' = [n \in Names |-> {}]
      /\ fate' = [c \in Calls |-> IF fate[c] = "waiting" THEN "shutdown" ELSE fate[c]]
      /\ UNCHANGED <<request, turn, arrivals, holder, timer, lapsed, ended>>
  BY DEF CancelPendingForShutdown, IInv, PromisesMatchMaps
<1>2. Typed(fate', waiters', holder', timer')
  BY <1>1 DEF IInv, TypeOK, Typed, Fates
<1>3. PromisesMatchMaps'
  BY <1>1 DEF IInv, TypeOK, PromisesMatchMaps, NameOf
<1>4. TimerInSync' /\ NoStrandedWaiters' /\ NoWaiterOfEndedSession'
  BY <1>1 DEF IInv, TimerInSync, HasTtl, NoStrandedWaiters, NoWaiterOfEndedSession
<1>5. \A c \in Calls : fate'[c] # "idle" => request'[c] \in Requests
  BY <1>1 DEF IInv, TypeOK
<1>6. TypeOK'
  BY <1>1, <1>2, <1>3, <1>4, <1>5, AssembleTypeOK DEF IInv, TypeOK
<1>7. QED
  BY <1>3, <1>4, <1>6 DEF IInv

-----------------------------------------------------------------------------
LEMMA InitEstablishesIInv == Init => IInv
<1>1. NoCall \notin Calls
  BY NoCallAssumption
<1>2. QED
  BY <1>1 DEF Init, IInv, TypeOK, Fates, PromisesMatchMaps, TimerInSync, HasTtl,
              NoStrandedWaiters, NoWaiterOfEndedSession

LEMMA NextKeepsIInv == IInv /\ [Next]_vars => IInv'
<1> SUFFICES ASSUME IInv, [Next]_vars
             PROVE  IInv'
  OBVIOUS
<1> USE DEF HowsLockEnds
<1>1. ASSUME NEW c \in Calls, NEW s \in Sessions, NEW n \in Names, NEW ttl \in BOOLEAN,
             AcquireFree(c, s, n, ttl) \/ AcquireReentrant(c, s, n, ttl)
               \/ AcquireBusy(c, s, n, ttl)
      PROVE  IInv'
  BY <1>1, AcquireFreeStep, AcquireReentrantStep, AcquireBusyStep
<1>2. ASSUME NEW c \in Calls, WaiterTimeout(c)
      PROVE  IInv'
  BY <1>2, WaiterTimeoutStep
<1>3. ASSUME NEW c \in Calls, TtlLapses(c)
      PROVE  IInv'
  BY <1>3, TtlLapsesStep
<1>4. ASSUME NEW s \in Sessions, NEW n \in Names, Release(s, n)
      PROVE  IInv'
  BY <1>4, PassLocksStep DEF Release
<1>5. ASSUME NEW n \in Names, TtlTimerFires(n)
      PROVE  IInv'
  BY <1>5, PassLocksStep DEF TtlTimerFires
<1>6. ASSUME ListLocks
      PROVE  IInv'
  BY <1>6, PassLocksStep DEF ListLocks
<1>7. ASSUME NEW s \in Sessions, EndSession(s) \/ ReleaseLocksForSession(s)
      PROVE  IInv'
  BY <1>7, DropSessionStep DEF EndSession, ReleaseLocksForSession
<1>8. ASSUME CancelPendingForShutdown
      PROVE  IInv'
  BY <1>8, CancelPendingForShutdownStep
<1>9. CASE UNCHANGED vars
  BY <1>9 DEF vars, IInv, TypeOK, PromisesMatchMaps, NameOf, TimerInSync, HasTtl,
              NoStrandedWaiters, NoWaiterOfEndedSession, SessionOf
<1>10. QED
  BY <1>1, <1>2, <1>3, <1>4, <1>5, <1>6, <1>7, <1>8, <1>9 DEF Next

\* The inductive invariant holds in every reachable state.
THEOREM IInvHolds == Spec => []IInv
<1>1. QED
  BY InitEstablishesIInv, NextKeepsIInv, PTL DEF Spec

\* Type correctness of the lock table, its lists, its timers and the calls.
THEOREM TypeCorrect == Spec => []TypeOK
<1>1. IInv => TypeOK
  BY DEF IInv
<1>2. QED
  BY <1>1, IInvHolds, PTL

\* The two maps of the hub always agree with the promises the callers hold.
THEOREM PromisesAgree == Spec => []PromisesMatchMaps
<1>1. IInv => PromisesMatchMaps
  BY DEF IInv
<1>2. QED
  BY <1>1, IInvHolds, PTL

\* No two calls hold one name: the call told "acquired" is the one in `locks`, and a map has
\* one Lock per name.
THEOREM LocksExclude == Spec => []MutualExclusion
<1>1. IInv => MutualExclusion
  <2> SUFFICES ASSUME IInv, NEW c \in Calls, NEW d \in Calls,
                      fate[c] = "held", fate[d] = "held", NameOf(c) = NameOf(d)
               PROVE  c = d
    BY DEF MutualExclusion
  <2>1. PICK n \in Names : c = holder[n]
    BY DEF IInv, PromisesMatchMaps
  <2>2. PICK m \in Names : d = holder[m]
    BY DEF IInv, PromisesMatchMaps
  <2>3. n = m
    BY <2>1, <2>2 DEF IInv, PromisesMatchMaps
  <2>4. QED
    BY <2>1, <2>2, <2>3
<1>2. QED
  BY <1>1, IInvHolds, PTL

\* The invariant acquireLock's comment relies on, and the one grantLock's comment states.
THEOREM WaitersHaveHolder == Spec => []NoStrandedWaiters
<1>1. IInv => NoStrandedWaiters
  BY DEF IInv
<1>2. QED
  BY <1>1, IInvHolds, PTL

THEOREM TimersMatchLocks == Spec => []TimerInSync
<1>1. IInv => TimerInSync
  BY DEF IInv
<1>2. QED
  BY <1>1, IInvHolds, PTL

\* No list keeps an entry of a session that has ended, so no later grant goes to one.
THEOREM EndedSessionsDoNotWait == Spec => []NoWaiterOfEndedSession
<1>1. IInv => NoWaiterOfEndedSession
  BY DEF IInv
<1>2. QED
  BY <1>1, IInvHolds, PTL

-----------------------------------------------------------------------------
(* FIFO                                                                    *)

\* Every call that has been made has a turn of its own, no later than the last one.
Turns ==
    \A c \in Calls : fate[c] # "idle" =>
       /\ turn[c] <= arrivals
       /\ \A d \in Calls : fate[d] # "idle" /\ turn[c] = turn[d] => c = d

\* A call that any passing of Locks promotes was ahead of every call it leaves waiting.
LEMMA PromotedIsFirst ==
    ASSUME IInv, Turns, NEW N \in SUBSET Names, NEW how \in HowsLockEnds,
           NEW c \in Calls, fate[c] # "held", FateAfter(N, how)[c] = "held",
           NEW d \in Calls, FateAfter(N, how)[d] = "waiting", NameOf(c) = NameOf(d)
    PROVE  turn[c] < turn[d]
<1>1. PICK n \in N : c = NextInLine(n)
  BY DEF FateAfter, HowsLockEnds
<1>2. /\ c \in waiters[n]
      /\ \A e \in waiters[n] : turn[c] <= turn[e]
  BY <1>1, NextInLineIsFirst, NoCallAssumption DEF IInv
<1>3. NameOf(c) = n /\ fate[c] = "waiting"
  BY <1>2 DEF IInv, PromisesMatchMaps
<1>4. fate[d] = "waiting"
  BY DEF FateAfter, HowsLockEnds
<1>5. d \in waiters[n]
  BY <1>3, <1>4 DEF IInv, PromisesMatchMaps
<1>6. c # d
  OBVIOUS
<1>7. turn[c] <= turn[d] /\ turn[c] # turn[d] /\ turn[c] \in Nat /\ turn[d] \in Nat
  BY <1>2, <1>3, <1>4, <1>5, <1>6 DEF Turns, IInv, TypeOK
<1>8. QED
  BY <1>7

\* A new call comes after every call made before it.
LEMMA NewCallIsLast ==
    ASSUME IInv, Turns, NEW c \in Calls, NEW s \in Sessions, NEW n \in Names,
           NEW ttl \in BOOLEAN, NewCall(c, s, n, ttl)
    PROVE  /\ turn'[c] = arrivals + 1 /\ arrivals' = arrivals + 1 /\ fate[c] = "idle"
           /\ \A d \in Calls \ {c} : turn'[d] = turn[d] /\ request'[d] = request[d]
           /\ \A d \in Calls : fate[d] # "idle" => turn'[d] < turn'[c]
BY DEF NewCall, IInv, TypeOK, Turns

\* Once a call with turn arrivals + 1 has been made, turns are still distinct.
LEMMA NewCallKeepsTurns ==
    ASSUME IInv, Turns, NEW c \in Calls, NEW s \in Sessions, NEW n \in Names,
           NEW ttl \in BOOLEAN, NewCall(c, s, n, ttl),
           \A d \in Calls \ {c} : fate'[d] # "idle" => fate[d] # "idle"
    PROVE  Turns'
<1>1. /\ turn'[c] = arrivals + 1 /\ arrivals' = arrivals + 1
      /\ \A d \in Calls \ {c} : turn'[d] = turn[d]
  BY NewCallIsLast
<1>2. arrivals \in Nat /\ \A d \in Calls : turn[d] \in Nat
  BY DEF IInv, TypeOK
<1>3. QED
  BY <1>1, <1>2 DEF Turns

LEMMA InitEstablishesTurns == Init => Turns
BY DEF Init, Turns

LEMMA NextKeepsTurns == IInv /\ Turns /\ [Next]_vars => Turns'
<1> SUFFICES ASSUME IInv, Turns, [Next]_vars
             PROVE  Turns'
  OBVIOUS
<1>1. ASSUME NEW c \in Calls, NEW s \in Sessions, NEW n \in Names, NEW ttl \in BOOLEAN,
             AcquireFree(c, s, n, ttl) \/ AcquireReentrant(c, s, n, ttl)
               \/ AcquireBusy(c, s, n, ttl)
      PROVE  Turns'
  <2>1. ToPassFirst(n) \in SUBSET Names /\ "expired" \in HowsLockEnds
    BY DEF ToPassFirst, HowsLockEnds
  <2>2. \A d \in Calls : FateAfter(ToPassFirst(n), "expired")[d] = "idle" <=> fate[d] = "idle"
    BY <2>1, PassingKeepsAgreement
  <2>3. \A d \in Calls \ {c} : fate'[d] = FateAfter(ToPassFirst(n), "expired")[d]
    BY <1>1 DEF AcquireFree, AcquireReentrant, AcquireBusy, FateAfter
  <2>4. QED
    BY <1>1, <2>2, <2>3, NewCallKeepsTurns DEF AcquireFree, AcquireReentrant, AcquireBusy
<1>2. ASSUME UNCHANGED <<turn, arrivals>>, \A d \in Calls : fate'[d] # "idle" => fate[d] # "idle"
      PROVE  Turns'
  BY <1>2 DEF Turns
<1>3. ASSUME NEW N \in SUBSET Names, NEW how \in HowsLockEnds, PassLocks(N, how),
             UNCHANGED <<turn, arrivals>>
      PROVE  Turns'
  BY <1>2, <1>3, PassingKeepsAgreement DEF PassLocks
<1>4. ASSUME NEW c \in Calls, WaiterTimeout(c) \/ TtlLapses(c)
      PROVE  Turns'
  BY <1>2, <1>4 DEF WaiterTimeout, TtlLapses, IInv, TypeOK, PromisesMatchMaps
<1>5. ASSUME NEW s \in Sessions, NEW n \in Names, Release(s, n)
      PROVE  Turns'
  BY <1>3, <1>5 DEF Release, HowsLockEnds
<1>6. ASSUME NEW n \in Names, TtlTimerFires(n)
      PROVE  Turns'
  BY <1>3, <1>6 DEF TtlTimerFires, HowsLockEnds
<1>7. ASSUME ListLocks
      PROVE  Turns'
  BY <1>3, <1>7 DEF ListLocks, HowsLockEnds
<1>8. ASSUME NEW s \in Sessions, DropSession(s)
      PROVE  Turns'
  <2>1. LocksOf(s) \in SUBSET Names /\ "dropped" \in HowsLockEnds
    BY DEF LocksOf, HowsLockEnds
  <2>2. \A d \in Calls : FateAfter(LocksOf(s), "dropped")[d] = "idle" <=> fate[d] = "idle"
    BY <2>1, PassingKeepsAgreement
  <2>3. \A d \in DroppedWaiters(s) : fate[d] # "idle"
    BY DEF DroppedWaiters, CallsOf
  <2>4. QED
    BY <1>2, <1>8, <2>2, <2>3 DEF DropSession
<1>9. ASSUME CancelPendingForShutdown
      PROVE  Turns'
  BY <1>2, <1>9 DEF CancelPendingForShutdown, IInv, PromisesMatchMaps
<1>10. CASE UNCHANGED vars
  BY <1>2, <1>10 DEF vars
<1>11. QED
  BY <1>1, <1>4, <1>5, <1>6, <1>7, <1>8, <1>9, <1>10 DEF Next, EndSession,
     ReleaseLocksForSession

\* The formula inside GrantsInOrder.
Overtakes(c, d) ==
    /\ fate[c] # "held" /\ fate'[c] = "held"
    /\ fate'[d] = "waiting" /\ request'[c].name = request'[d].name
    /\ ~ (turn'[c] < turn'[d])

\* A fresh call never overtakes the list, and what it promotes first was first in the list.
LEMMA AcquireKeepsOrder ==
    ASSUME IInv, Turns, NEW c \in Calls, NEW s \in Sessions, NEW n \in Names,
           NEW ttl \in BOOLEAN,
           AcquireFree(c, s, n, ttl) \/ AcquireReentrant(c, s, n, ttl)
             \/ AcquireBusy(c, s, n, ttl),
           NEW a \in Calls, NEW b \in Calls
    PROVE  ~ Overtakes(a, b)
<1> DEFINE N == ToPassFirst(n)
           F == FateAfter(N, "expired")
<1>1. N \in SUBSET Names /\ "expired" \in HowsLockEnds
  BY DEF ToPassFirst, HowsLockEnds
<1>2. NewCall(c, s, n, ttl)
  BY DEF AcquireFree, AcquireReentrant, AcquireBusy
<1>3. /\ fate[c] = "idle"
      /\ \A d \in Calls \ {c} : turn'[d] = turn[d] /\ request'[d] = request[d]
      /\ \A d \in Calls : fate[d] # "idle" => turn'[d] < turn'[c]
  BY <1>2, NewCallIsLast
<1>4. /\ Agree(F, WaitersAfter(N), HolderAfter(N))
      /\ NoneStranded(WaitersAfter(N), HolderAfter(N))
      /\ \A d \in Calls : F[d] = "idle" <=> fate[d] = "idle"
  BY <1>1, PassingKeepsAgreement
<1>5. \A d \in Calls \ {c} : fate'[d] = F[d]
  BY DEF AcquireFree, AcquireReentrant, AcquireBusy, FateAfter
<1>6. request'[c].name = n
  BY <1>2 DEF NewCall, IInv, TypeOK
<1> SUFFICES ASSUME Overtakes(a, b)
             PROVE  FALSE
  OBVIOUS
<1>7. CASE a = c
  <2>1. AcquireFree(c, s, n, ttl)
    BY <1>7, <1>4, <1>3 DEF Overtakes, AcquireReentrant, AcquireBusy, FateAfter, IInv, TypeOK
  <2>2. WaitersAfter(N)[n] = {}
    BY <1>4, <2>1 DEF AcquireFree, NoneStranded
  <2>3. b # c
    BY <1>7 DEF Overtakes
  <2>4. F[b] = "waiting" /\ NameOf(b) = n
    BY <1>3, <1>5, <1>6, <1>7, <2>3 DEF Overtakes, NameOf
  <2>5. QED
    BY <1>4, <2>2, <2>4 DEF Agree
<1>8. CASE a # c /\ b = c
  <2>1. fate[a] # "idle"
    BY <1>4, <1>5, <1>8 DEF Overtakes
  <2>2. QED
    BY <1>3, <1>8, <2>1 DEF Overtakes
<1>9. CASE a # c /\ b # c
  <2>1. fate[a] # "held" /\ F[a] = "held" /\ F[b] = "waiting" /\ NameOf(a) = NameOf(b)
    BY <1>3, <1>5, <1>9 DEF Overtakes, NameOf
  <2>2. turn[a] < turn[b]
    BY <1>1, <2>1, PromotedIsFirst
  <2>3. QED
    BY <1>3, <1>9, <2>2 DEF Overtakes
<1>10. QED
  BY <1>7, <1>8, <1>9

\* Nor does any other step grant a name ahead of a call it leaves waiting.
LEMMA NextKeepsOrder ==
    IInv /\ Turns /\ [Next]_vars => \A a, b \in Calls : ~ Overtakes(a, b)
<1> SUFFICES ASSUME IInv, Turns, [Next]_vars, NEW a \in Calls, NEW b \in Calls
             PROVE  ~ Overtakes(a, b)
  OBVIOUS
<1>1. ASSUME NEW c \in Calls, NEW s \in Sessions, NEW n \in Names, NEW ttl \in BOOLEAN,
             AcquireFree(c, s, n, ttl) \/ AcquireReentrant(c, s, n, ttl)
               \/ AcquireBusy(c, s, n, ttl)
      PROVE  ~ Overtakes(a, b)
  BY <1>1, AcquireKeepsOrder
<1>2. ASSUME NEW N \in SUBSET Names, NEW how \in HowsLockEnds, PassLocks(N, how),
             UNCHANGED <<request, turn>>
      PROVE  ~ Overtakes(a, b)
  BY <1>2, PromotedIsFirst DEF PassLocks, Overtakes, NameOf
<1>3. ASSUME UNCHANGED fate \/ WaiterTimeout(a) \/ CancelPendingForShutdown
               \/ \E c \in Calls : WaiterTimeout(c)
      PROVE  ~ Overtakes(a, b)
  BY <1>3 DEF WaiterTimeout, CancelPendingForShutdown, Overtakes, IInv, TypeOK
<1>4. ASSUME NEW s \in Sessions, NEW n \in Names, Release(s, n)
      PROVE  ~ Overtakes(a, b)
  BY <1>2, <1>4 DEF Release, HowsLockEnds
<1>5. ASSUME NEW n \in Names, TtlTimerFires(n)
      PROVE  ~ Overtakes(a, b)
  BY <1>2, <1>5 DEF TtlTimerFires, HowsLockEnds
<1>6. ASSUME ListLocks
      PROVE  ~ Overtakes(a, b)
  BY <1>2, <1>6 DEF ListLocks, HowsLockEnds
<1>7. ASSUME NEW s \in Sessions, DropSession(s)
      PROVE  ~ Overtakes(a, b)
  <2> DEFINE N == LocksOf(s)
             F == FateAfter(N, "dropped")
  <2>1. N \in SUBSET Names /\ "dropped" \in HowsLockEnds
    BY DEF LocksOf, HowsLockEnds
  <2>2. /\ UNCHANGED <<request, turn>>
        /\ \A c \in Calls : fate'[c] = "dropped" \/ fate'[c] = F[c]
    BY <1>7 DEF DropSession
  <2>3. Overtakes(a, b) =>
          fate[a] # "held" /\ F[a] = "held" /\ F[b] = "waiting" /\ NameOf(a) = NameOf(b)
    BY <2>2 DEF Overtakes, NameOf
  <2>4. QED
    BY <2>1, <2>2, <2>3, PromotedIsFirst DEF Overtakes
<1>8. QED
  BY <1>1, <1>3, <1>4, <1>5, <1>6, <1>7 DEF Next, EndSession, ReleaseLocksForSession,
     TtlLapses, vars

\* FIFO: whoever is granted a name came before everyone still waiting for it.
THEOREM GrantsAreInOrder == Spec => GrantsInOrder
<1>1. Init => Turns
  BY InitEstablishesTurns
<1>2. IInv /\ Turns /\ [Next]_vars => Turns'
  BY NextKeepsTurns
<1>3. IInv /\ Turns /\ [Next]_vars =>
        [\A c, d \in Calls :
           /\ fate[c] # "held" /\ fate'[c] = "held"
           /\ fate'[d] = "waiting" /\ request'[c].name = request'[d].name
           => turn'[c] < turn'[d]]_vars
  BY NextKeepsOrder DEF Overtakes
<1>4. QED
  BY <1>1, <1>2, <1>3, IInvHolds, PTL DEF Spec, GrantsInOrder
=============================================================================
