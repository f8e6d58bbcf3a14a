------------------------------ MODULE HubLocks ------------------------------
(***************************************************************************)
(* The named mutexes of the hub: section F3 of server/src/state-manager.ts,*)
(* behind the tools browser_lock, browser_unlock and browser_locks_list.   *)
(*                                                                         *)
(* A call of acquireLock is a one-shot process: its promise is settled at  *)
(* most once.  A Lock object is made by exactly one grant and a grant      *)
(* answers exactly one call, so the call is the identity of the Lock       *)
(* (`current !== lock` in the TTL callback).                               *)
(*                                                                         *)
(* The FIFO list of waiters of a name is the set of its entries with the   *)
(* order in which they were pushed (turn): push, shift, splice and filter  *)
(* are the only operations the code applies to it, and each keeps order.   *)
(***************************************************************************)
EXTENDS Naturals, FiniteSets

CONSTANTS
    Sessions,   \* session ids; an id is finalised at most once
    Names,      \* lock names
    Calls,      \* calls of acquireLock
    NoCall,     \* no Lock, or no timer, under a name
    NoRequest   \* the arguments of a call not made yet

Requests == [session: Sessions, name: Names, ttl: BOOLEAN]

ASSUME NoCallAssumption == NoCall \notin Calls

VARIABLES
    request,    \* request[c]: the arguments of call c, once it is made
    fate,       \* fate[c]: how far call c and the Lock it was given have come
    turn,       \* turn[c]: c was the turn[c]-th call made
    arrivals,   \* how many calls have been made
    holder,     \* the map `locks`: the call whose grant made the Lock of a name
    waiters,    \* the map `lockWaiters`
    timer,      \* the map `lockTtlTimers`: the call whose grant armed the timer
    lapsed,     \* granted calls whose expiresAt is in the past
    ended       \* sessions the hub has finalised

vars == <<request, fate, turn, arrivals, holder, waiters, timer, lapsed, ended>>

\* "held" is a settled promise whose Lock is still in `locks`; "released", "expired" and
\* "dropped" are how such a Lock left it.  "dropped" is also the answer to a waiter whose
\* session ends.
Fates == {"idle", "waiting", "held", "released", "expired", "dropped",
          "timeout", "refused", "shutdown"}

SessionOf(c) == request[c].session
NameOf(c) == request[c].name
HasTtl(c) == c # NoCall /\ request[c].ttl

-----------------------------------------------------------------------------
(* passLockToNextWaiter and grantLock, for a set N of names at a time.     *)

\* waiters.shift(): the entry that was pushed first.
FirstWaiter(n) == CHOOSE c \in waiters[n] : \A d \in waiters[n] : turn[c] <= turn[d]

NextInLine(n) == IF waiters[n] = {} THEN NoCall ELSE FirstWaiter(n)

HolderAfter_NobodyNext(N) == [n \in Names |-> IF n \in N THEN NoCall ELSE holder[n]]

HolderAfter(N) == [n \in Names |-> IF n \in N THEN NextInLine(n) ELSE holder[n]]

WaitersAfter(N) == [n \in Names |->
                      IF n \in N THEN waiters[n] \ {NextInLine(n)} ELSE waiters[n]]

TimerAfter_AlwaysArmed(N) == [n \in Names |-> IF n \in N THEN NextInLine(n) ELSE timer[n]]

TimerAfter_NotRearmed(N) == [n \in Names |-> IF n \in N THEN NoCall ELSE timer[n]]

\* grantLock clears the previous timer of the name and arms one only for a grant with a TTL.
TimerAfter(N) ==
    [n \in Names |->
       IF n \in N
       THEN (IF HasTtl(NextInLine(n)) THEN NextInLine(n) ELSE NoCall)
       ELSE timer[n]]

FateAfter_PromiseForgotten(N, how) ==
    [c \in Calls |-> IF \E n \in N : c = holder[n] THEN how ELSE fate[c]]

FateAfter(N, how) ==
    [c \in Calls |-> IF \E n \in N : c = holder[n] THEN how
                     ELSE IF \E n \in N : c = NextInLine(n) THEN "held"
                     ELSE fate[c]]

PassLocks(N, how) ==
    /\ holder' = HolderAfter(N)
    /\ waiters' = WaitersAfter(N)
    /\ timer' = TimerAfter(N)
    /\ fate' = FateAfter(N, how)

-----------------------------------------------------------------------------
(* acquireLock                                                             *)

\* The Lock's expiresAt is past and its timer has not fired yet (reclaimIfExpired).
Expired(n) == holder[n] \in lapsed

\* Waiters without a Lock: the branch for what the code calls a violated invariant.
Stranded(n) == holder[n] = NoCall /\ waiters[n] # {}

ToPassFirst(n) == IF Expired(n) \/ Stranded(n) THEN {n} ELSE {}

NewCall(c, s, n, ttl) ==
    /\ fate[c] = "idle"
    /\ s \notin ended
    /\ request' = [request EXCEPT ![c] = [session |-> s, name |-> n, ttl |-> ttl]]
    /\ turn' = [turn EXCEPT ![c] = arrivals + 1]
    /\ arrivals' = arrivals + 1
    /\ UNCHANGED <<lapsed, ended>>

OwnedBy(s, c) == c # NoCall /\ SessionOf(c) = s

AcquireFree_ExpiredIsFree(c, s, n, ttl) ==
    /\ NewCall(c, s, n, ttl)
    /\ holder[n] = NoCall \/ Expired(n)
    /\ holder' = [holder EXCEPT ![n] = c]
    /\ timer' = [timer EXCEPT ![n] = IF ttl THEN c ELSE NoCall]
    /\ fate' = [d \in Calls |-> IF d = c THEN "held"
                                ELSE IF d = holder[n] THEN "expired" ELSE fate[d]]
    /\ UNCHANGED waiters

\* The name is free once the expired Lock, if any, has been passed on: grant immediately.
AcquireFree(c, s, n, ttl) ==
    LET N == ToPassFirst(n) IN
    /\ NewCall(c, s, n, ttl)
    /\ HolderAfter(N)[n] = NoCall
    /\ holder' = [HolderAfter(N) EXCEPT ![n] = c]
    /\ waiters' = WaitersAfter(N)
    /\ timer' = [TimerAfter(N) EXCEPT ![n] = IF ttl THEN c ELSE NoCall]
    /\ fate' = [FateAfter(N, "expired") EXCEPT ![c] = "held"]

\* The caller's session owns the Lock: refused at once, never queued behind itself.
AcquireReentrant(c, s, n, ttl) ==
    LET N == ToPassFirst(n) IN
    /\ NewCall(c, s, n, ttl)
    /\ OwnedBy(s, HolderAfter(N)[n])
    /\ holder' = HolderAfter(N)
    /\ waiters' = WaitersAfter(N)
    /\ timer' = TimerAfter(N)
    /\ fate' = [FateAfter(N, "expired") EXCEPT ![c] = "refused"]

\* Another session owns the Lock: join the FIFO list, with a timeout.
AcquireBusy(c, s, n, ttl) ==
    LET N == ToPassFirst(n) IN
    /\ NewCall(c, s, n, ttl)
    /\ HolderAfter(N)[n] # NoCall
    /\ ~ OwnedBy(s, HolderAfter(N)[n])
    /\ holder' = HolderAfter(N)
    /\ waiters' = [WaitersAfter(N) EXCEPT ![n] = @ \cup {c}]
    /\ timer' = TimerAfter(N)
    /\ fate' = [FateAfter(N, "expired") EXCEPT ![c] = "waiting"]

\* The waiter's own timer: leave the list and answer {acquired: false, reason: "timeout"}.
\* The timer is armed with the entry and cleared wherever the entry leaves the list.
WaiterTimeout(c) ==
    /\ \E n \in Names : c \in waiters[n]
    /\ waiters' = [n \in Names |-> waiters[n] \ {c}]
    /\ fate' = [fate EXCEPT ![c] = "timeout"]
    /\ UNCHANGED <<request, turn, arrivals, holder, timer, lapsed, ended>>

-----------------------------------------------------------------------------
(* Release, expiry, listing                                                *)

Release_AnyCaller(s, n) ==
    /\ s \notin ended
    /\ holder[n] # NoCall
    /\ PassLocks({n}, IF SessionOf(holder[n]) = s THEN "released" ELSE "held")
    /\ UNCHANGED <<request, turn, arrivals, lapsed, ended>>

\* releaseLock: "not held" and "caller is not the owner" change nothing.
Release(s, n) ==
    /\ s \notin ended
    /\ OwnedBy(s, holder[n])
    /\ PassLocks({n}, "released")
    /\ UNCHANGED <<request, turn, arrivals, lapsed, ended>>

\* The clock passes the expiresAt of call c's Lock, whose timer is now due.
TtlLapses(c) ==
    /\ \E n \in Names : c \in {holder[n], timer[n]}
    /\ HasTtl(c)
    /\ c \notin lapsed
    /\ lapsed' = lapsed \cup {c}
    /\ UNCHANGED <<request, fate, turn, arrivals, holder, waiters, timer, ended>>

\* The TTL callback; when the Lock it was armed for is gone it does nothing.
TtlTimerFires(n) ==
    /\ timer[n] \in lapsed
    /\ holder[n] = timer[n]
    /\ PassLocks({n}, "expired")
    /\ UNCHANGED <<request, turn, arrivals, lapsed, ended>>

\* listLocks reaps every expired Lock before it answers.
ListLocks ==
    /\ \E n \in Names : Expired(n)
    /\ PassLocks({n \in Names : Expired(n)}, "expired")
    /\ UNCHANGED <<request, turn, arrivals, lapsed, ended>>

-----------------------------------------------------------------------------
(* The end of a session, and shutdown                                      *)

LocksOf(s) == {n \in Names : OwnedBy(s, holder[n])}

CallsOf(s) == {c \in Calls : fate[c] # "idle" /\ SessionOf(c) = s}

DroppedWaiters_OnHeldNames(s) ==
    {c \in CallsOf(s) : \E n \in LocksOf(s) : c \in WaitersAfter(LocksOf(s))[n]}

\* The waiters the second loop finds: those of s the first loop has not just promoted.
DroppedWaiters(s) ==
    {c \in CallsOf(s) : \E n \in Names : c \in WaitersAfter(LocksOf(s))[n]}

\* releaseLocksForSession: first pass on every Lock of s, then drop the waiters of s.
DropSession(s) ==
    /\ holder' = HolderAfter(LocksOf(s))
    /\ waiters' = [n \in Names |-> WaitersAfter(LocksOf(s))[n] \ DroppedWaiters(s)]
    /\ timer' = TimerAfter(LocksOf(s))
    /\ fate' = [c \in Calls |-> IF c \in DroppedWaiters(s) THEN "dropped"
                                ELSE FateAfter(LocksOf(s), "dropped")[c]]
    /\ UNCHANGED <<request, turn, arrivals, lapsed>>

\* The session finalizer's step; the id is tombstoned and never acquires again.
EndSession(s) ==
    /\ s \notin ended
    /\ ended' = ended \cup {s}
    /\ DropSession(s)

\* The hub RPC of the same name, from a session that lives on.
ReleaseLocksForSession(s) ==
    /\ s \notin ended
    /\ LocksOf(s) # {} \/ DroppedWaiters(s) # {}
    /\ DropSession(s)
    /\ UNCHANGED ended

\* cancelPendingForShutdown rejects every waiter; the Locks stay until their sessions end.
CancelPendingForShutdown ==
    /\ \E n \in Names : waiters[n] # {}
    /\ waiters' = [n \in Names |-> {}]
    /\ fate' = [c \in Calls |-> IF \E n \in Names : c \in waiters[n]
                                THEN "shutdown" ELSE fate[c]]
    /\ UNCHANGED <<request, turn, arrivals, holder, timer, lapsed, ended>>

-----------------------------------------------------------------------------

Init ==
    /\ request = [c \in Calls |-> NoRequest]
    /\ fate = [c \in Calls |-> "idle"]
    /\ turn = [c \in Calls |-> 0]
    /\ arrivals = 0
    /\ holder = [n \in Names |-> NoCall]
    /\ waiters = [n \in Names |-> {}]
    /\ timer = [n \in Names |-> NoCall]
    /\ lapsed = {}
    /\ ended = {}

Next ==
    \/ \E c \in Calls, s \in Sessions, n \in Names, ttl \in BOOLEAN :
          \/ AcquireFree(c, s, n, ttl)
          \/ AcquireReentrant(c, s, n, ttl)
          \/ AcquireBusy(c, s, n, ttl)
    \/ \E c \in Calls : WaiterTimeout(c) \/ TtlLapses(c)
    \/ \E s \in Sessions, n \in Names : Release(s, n)
    \/ \E n \in Names : TtlTimerFires(n)
    \/ ListLocks
    \/ \E s \in Sessions : EndSession(s) \/ ReleaseLocksForSession(s)
    \/ CancelPendingForShutdown

Spec == Init /\ [][Next]_vars

\* Node runs every timer that is due, and the clock advances.  Nothing makes a client call
\* or release, and nothing makes a session end.
Timers ==
    /\ \A c \in Calls : WF_vars(WaiterTimeout(c)) /\ WF_vars(TtlLapses(c))
    /\ \A n \in Names : WF_vars(TtlTimerFires(n))

FairSpec == Spec /\ Timers

-----------------------------------------------------------------------------
(* Properties                                                              *)

\* Every variable stays in its range; a call that has been made has arguments, and only a
\* grant with a TTL ever owns a timer (grantLock's `if (ttlMs !== undefined)`).
TypeOK ==
    /\ request \in [Calls -> Requests \cup {NoRequest}]
    /\ fate \in [Calls -> Fates]
    /\ turn \in [Calls -> Nat]
    /\ arrivals \in Nat
    /\ holder \in [Names -> Calls \cup {NoCall}]
    /\ waiters \in [Names -> SUBSET Calls]
    /\ timer \in [Names -> Calls \cup {NoCall}]
    /\ lapsed \in SUBSET Calls
    /\ ended \in SUBSET Sessions
    /\ \A c \in Calls : fate[c] # "idle" => request[c] \in Requests
    /\ \A n \in Names : timer[n] # NoCall =>
          fate[timer[n]] # "idle" /\ request[timer[n]].ttl

\* Two calls that were both told "acquired" and have neither unlocked, expired nor lost
\* their session never hold the same name: the point of browser_lock.
MutualExclusion ==
    \A c, d \in Calls :
       fate[c] = "held" /\ fate[d] = "held" /\ NameOf(c) = NameOf(d) => c = d

\* The two maps and the promises agree: a call waits iff it is in the list of its name and
\* of no other, and was granted and not ended iff its Lock is the one in `locks`.  A
\* promise outside both maps could never be settled.
PromisesMatchMaps ==
    \A c \in Calls :
       /\ fate[c] = "waiting" <=> \E n \in Names : c \in waiters[n]
       /\ fate[c] = "held" <=> \E n \in Names : c = holder[n]
       /\ \A n \in Names : c \in waiters[n] \cup {holder[n]} => NameOf(c) = n

\* "if there's no lock, there shouldn't be waiters either" (the comment in acquireLock):
\* nobody waits for a name that nobody holds.
NoStrandedWaiters == \A n \in Names : waiters[n] # {} => holder[n] # NoCall

\* "lockTtlTimers stays in sync with the actual lock state" (the comment on grantLock): a
\* name has a timer iff its Lock has a TTL, and it is the timer of that very Lock, so no
\* TTL callback can ever free somebody else's Lock.
TimerInSync ==
    \A n \in Names : timer[n] = IF HasTtl(holder[n]) THEN holder[n] ELSE NoCall

\* releaseLocksForSession leaves no entry behind that could later be given a Lock "for a
\* session that no longer exists".
NoWaiterOfEndedSession ==
    \A n \in Names : \A c \in waiters[n] : SessionOf(c) \notin ended

\* FIFO: a call is granted only when every call still waiting for the name came later.  A
\* fresh call must not overtake the list when a TTL has lapsed and its timer has not fired.
GrantsInOrder ==
    [][\A c, d \in Calls :
         /\ fate[c] # "held" /\ fate'[c] = "held"
         /\ fate'[d] = "waiting" /\ request'[c].name = request'[d].name
         => turn'[c] < turn'[d]]_vars

-----------------------------------------------------------------------------
(* The hub implements LockService                                          *)

\* The holder of a name is first in its line and the waiters stand behind it.
Line == [n \in Names |-> waiters[n] \cup ({holder[n]} \ {NoCall})]

\* What a caller has been told by its promise.
Told == [c \in Calls |-> IF fate[c] \in {"idle", "waiting", "held"} THEN fate[c] ELSE "over"]

Service == INSTANCE LockService WITH line <- Line, told <- Told, place <- turn

\* Whatever the maps and timers go through, callers see one line per name: locks pass to the
\* first in line and to nobody else, are taken only from who unlocks, ends or lapses, and
\* everyone is told.
ImplementsLockService == Service!Spec

-----------------------------------------------------------------------------

\* Every queued call is answered, whatever its holder does.
EveryAcquireAnswered == \A c \in Calls : fate[c] = "waiting" ~> fate[c] # "waiting"

\* A Lock with a TTL is given up even if its owner never comes back and nobody calls
\* again: the "crash-recovery safety net" of browser_lock.
TtlBoundsEveryHold ==
    \A c \in Calls : fate[c] = "held" /\ HasTtl(c) ~> fate[c] # "held"

\* "Auto-released when the owning session disconnects" (tools/locks.ts): no Lock belongs to
\* a session that has been finalised.  Not so when the session had queued two calls for
\* the name: its first Lock is passed to its own second call.
NoLockOfEndedSession ==
    \A n \in Names : holder[n] # NoCall => SessionOf(holder[n]) \notin ended
=============================================================================
