----------------------------- MODULE LockService -----------------------------
(***************************************************************************)
(* What browser_lock and browser_unlock promise their callers              *)
(* (server/src/tools/locks.ts), with no map, list or timer: a name has one *)
(* line of calls, in the order they were made.  Whoever is first has the   *)
(* lock and has been told so, the others wait, and those who have left the *)
(* line have nothing to hope for.                                          *)
(*                                                                         *)
(* Who may leave the line when is the promise: the lock is taken only from *)
(* a session that acts or ends itself, or after the TTL it asked for.      *)
(***************************************************************************)
EXTENDS Naturals

CONSTANTS Sessions, Names, Calls, NoRequest

VARIABLES
    request,   \* request[c]: who asks for what, and whether the lock may lapse
    place,     \* place[c]: the calls of a line stand in the order of their places
    line,      \* line[n]: the calls in line for n
    told       \* told[c]: what the caller knows

serviceVars == <<request, place, line, told>>

\* c is first in its line, of lines L with the places p.
IsFirst(c, L, p) == \E n \in Names : c \in L[n] /\ \A d \in L[n] : p[c] <= p[d]

InLine(c, L) == \E n \in Names : c \in L[n]

\* What callers know of the lines L; asked is the call that is being made, if any.
Known(L, p, asked) ==
    [c \in Calls |-> IF IsFirst(c, L, p) THEN "held"
                     ELSE IF InLine(c, L) THEN "waiting"
                     ELSE IF told[c] = "idle" /\ c \notin asked THEN "idle"
                     ELSE "over"]

Without(C) == [n \in Names |-> line[n] \ C]

Leave(C) ==
    /\ line' = Without(C)
    /\ told' = Known(Without(C), place, {})
    /\ UNCHANGED <<request, place>>

\* The calls whose lock lapses by itself.
MayLapse == {c \in Calls : told[c] = "held" /\ request[c].ttl}

\* The new call has the last place.
TakesPlace(c) ==
    /\ place' \in [Calls -> Nat]
    /\ \A d \in Calls \ {c} :
          place'[d] = place[d] /\ (InLine(d, line) => place'[d] < place'[c])

\* A call joins the line, unless its session has the lock already; a lock that has lapsed may
\* be taken away first.
Ask(c, s, n, ttl) ==
    /\ told[c] = "idle"
    /\ request' = [request EXCEPT ![c] = [session |-> s, name |-> n, ttl |-> ttl]]
    /\ TakesPlace(c)
    /\ \E C \in SUBSET MayLapse :
          LET L == Without(C)
              Refused == \E d \in L[n] : IsFirst(d, L, place) /\ request[d].session = s
              J == IF Refused THEN L ELSE [L EXCEPT ![n] = @ \cup {c}] IN
          line' = J /\ told' = Known(J, place', {c})

\* A session unlocks, or ends: no call of another session is touched.
Depart(s) ==
    \E C \in SUBSET {c \in Calls : told[c] \in {"held", "waiting"} /\ request[c].session = s} :
       Leave(C)

Lapse == \E C \in SUBSET MayLapse : Leave(C)

\* Waiting has a limit, and the hub may shut down; a lock is not lost by either.
GiveUp == \E C \in SUBSET {c \in Calls : told[c] = "waiting"} : Leave(C)

Init ==
    /\ request = [c \in Calls |-> NoRequest]
    /\ place = [c \in Calls |-> 0]
    /\ line = [n \in Names |-> {}]
    /\ told = [c \in Calls |-> "idle"]

Next ==
    \/ \E c \in Calls, s \in Sessions, n \in Names, ttl \in BOOLEAN : Ask(c, s, n, ttl)
    \/ \E s \in Sessions : Depart(s)
    \/ Lapse \/ GiveUp

Spec == Init /\ [][Next]_serviceVars
=============================================================================
