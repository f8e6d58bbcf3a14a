---------------------------- MODULE ServedInTurn ----------------------------
(***************************************************************************)
(* What RequestScheduler (extension/src/lib/request-scheduler.ts) promises *)
(* a request, with no queue, turn or counter: on arrival it looks who is   *)
(* before it at its place, and it runs at the very step in which the last  *)
(* of those has been answered.  Who arrives later never comes before it,   *)
(* a request is answered once, and which answers it may get depends on     *)
(* whether it has been started.                                            *)
(***************************************************************************)
CONSTANTS Requests, Queues, Unqueued

VARIABLES
    fate,    \* fate[r]: how far r has come; its answer once it is settled
    place,   \* place[r]: the queue in which r waits or runs
    ahead    \* ahead[r]: the requests r has still to wait for

promiseVars == <<fate, place, ahead>>

\* What may become of a request that is refused, one that waits and one that runs.
Refusals == {"SESSION_CLOSED", "QUEUE_OVERLOADED", "REQUEST_EXPIRED"}

AnswersTo(r) ==
    IF fate[r] = "queued"
    THEN {"REQUEST_EXPIRED", "SESSION_CLOSED", "TAB_CLOSED", "EXTENSION_WORKER_RESTARTED"}
    ELSE {"done", "REQUEST_EXPIRED", "EXTENSION_WORKER_RESTARTED"}

Open == {r \in Requests : fate[r] \in {"queued", "running"}}

\* Nobody waits for anybody outside the queues.
Present(q) == {r \in Open : q \in Queues /\ place[r] = q}

Refuse(r) ==
    /\ fate[r] = "idle"
    /\ \E answer \in Refusals : fate' = [fate EXCEPT ![r] = answer]
    /\ UNCHANGED <<place, ahead>>

Join(r, q) ==
    /\ fate[r] = "idle"
    /\ fate' = [fate EXCEPT ![r] = IF Present(q) = {} THEN "running" ELSE "queued"]
    /\ place' = [place EXCEPT ![r] = q]
    /\ ahead' = [ahead EXCEPT ![r] = Present(q)]

\* The requests that start when those of R are answered.
Freed(R) == {r \in Open \ R : fate[r] = "queued" /\ ahead[r] \subseteq R}

\* The requests of R are answered.
Leave(R) ==
    /\ R # {}
    /\ \A r \in Requests :
          IF r \in R THEN fate'[r] \in AnswersTo(r)
          ELSE fate'[r] = IF r \in Freed(R) THEN "running" ELSE fate[r]
    /\ place' = [r \in Requests |-> IF r \in R THEN Unqueued ELSE place[r]]
    /\ ahead' = [r \in Requests |-> IF r \in R THEN {} ELSE ahead[r] \ R]

Init ==
    /\ fate = [r \in Requests |-> "idle"]
    /\ place = [r \in Requests |-> Unqueued]
    /\ ahead = [r \in Requests |-> {}]

Next ==
    \/ \E r \in Requests : Refuse(r)
    \/ \E r \in Requests, q \in Queues \cup {Unqueued} : Join(r, q)
    \/ \E R \in SUBSET Open : Leave(R)

Spec == Init /\ [][Next]_promiseVars
=============================================================================
