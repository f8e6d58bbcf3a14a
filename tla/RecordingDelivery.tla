--------------------------- MODULE RecordingDelivery ---------------------------
(***************************************************************************)
(* A recording from browser_record_start to the copies that                *)
(* browser_record_stop leaves: the recording tools of an MCP client        *)
(* (tools/record.ts), the hub (RecordingReservations), and RecordingManager*)
(* of the extension (lib/recorder.ts) with the requests it makes to the hub*)
(* (lib/recording-transport.ts).                                           *)
(*                                                                         *)
(* RecordingManager runs its operations one after the other, on a chain.   *)
(* An operation is one step here, except where it waits for the hub or     *)
(* where a stop of the worker between two of its writes leaves something   *)
(* behind: such an operation holds the chain from one step to the next.    *)
(* The renewal pass is the exception: it asks the hub off the chain.       *)
(***************************************************************************)
EXTENDS RecordingReservations

CONSTANTS
    Here,        \* the sessions whose recordings are made in this browser
    MaxFaults    \* bound: calls of Chrome that fail, answers lost, timeouts, stops of the worker

Elsewhere == Sessions \ Here

VARIABLES
    rec,        \* rec[s]: what RecordingManager keeps of s, in memory and in storage
    completed,  \* completed recordings in chrome.storage.local
    work,       \* operations asked of RecordingManager that have not begun
    chain,      \* the operation that holds the chain while it waits
    pass,       \* the requests of the renewal pass
    late,       \* persistRecording requests nobody waits for any more
    tool,       \* tool[s]: the call of a recording tool that is running
    current,    \* activeRecordingName of the tools of s
    told,       \* recordings whose caller read "Server persistence acknowledged."
    calls, faults

extensionVars == <<rec, completed, work, chain, pass, late>>
toolVars == <<tool, current, told, calls>>
vars == <<hubVars, extensionVars, toolVars, faults>>

(* An ActiveRecording; stop is its stopStatus: nothing yet, the server     *)
(* refused, the server has it, both have it.                               *)
ActiveRecording == [name : Names, start : Calls, steps : 0..MaxSteps,
                    status : {"active", "quarantined", "stopping", "cleanup"},
                    stop : {"none", "failed", "server", "both"}]

(* What the renewal pass keeps of a recording it asks for. *)
Renewal == [name : Names, answer : {"sent", "yes", "no", "lost"}]

ASSUME DeliveryAssumption ==
    Here \subseteq Sessions /\ MaxFaults \in Nat /\ None \notin ActiveRecording \cup Renewal

Payload(m) == [name |-> m.name, start |-> m.start, steps |-> m.steps]

NoSession == [mem |-> None, stored |-> None, alarm |-> FALSE, closed |-> FALSE, fallback |-> FALSE,
              pending |-> FALSE, deferred |-> FALSE, renewing |-> FALSE]
NoTool == [op |-> "none", call |-> 0, name |-> None, at |-> "idle", answer |-> None]
Failed == [ok |-> FALSE, server |-> FALSE, recording |-> None]
Stopped(server, m) == [ok |-> TRUE, server |-> server, recording |-> Payload(m)]

(* Ways Chrome may fail an operation: writing or removing session storage, *)
(* reading it, setting or clearing an alarm, writing local storage.        *)
Failure == {"persist", "remove", "read", "alarm", "clear", "local"}
FailsWith(F, kinds) ==
    /\ F \in SUBSET kinds
    /\ faults + Cardinality(F) <= MaxFaults
    /\ faults' = faults + Cardinality(F)
Fault == faults < MaxFaults /\ faults' = faults + 1

-------------------------------------------------------------------------------
(* RecordingManager: what an operation does to the state r of one session  *)
(* when the calls in F fail.                                               *)

Removed(r) == [NoSession EXCEPT !.alarm = r.alarm]
Hidden(r) == [r EXCEPT !.mem = None, !.closed = TRUE, !.pending = FALSE,
                       !.deferred = FALSE, !.renewing = FALSE]
WithAlarm(r, F) == IF "alarm" \in F THEN r ELSE [r EXCEPT !.alarm = TRUE]
Cleared(r, F) == [Removed(r) EXCEPT !.alarm = r.alarm /\ "clear" \in F]

RetryCleanup(r, F) ==
    IF "remove" \in F THEN WithAlarm(Hidden(r), F) ELSE Cleared(r, F)

FinishStop(r, F) ==
    LET armed == WithAlarm(r, F)
        fails == r.mem.status # "cleanup" /\ "persist" \in F
        marked == [armed EXCEPT !.mem.status = "cleanup",
                                !.stored = IF r.mem.status = "cleanup" THEN @
                                           ELSE [r.mem EXCEPT !.status = "cleanup"]]
    IN CASE r.mem = None -> r
         [] r.mem # None /\ fails -> [armed EXCEPT !.mem.status = "cleanup"]
         [] r.mem # None /\ ~fails /\ "remove" \in F -> WithAlarm(Hidden(marked), F)
         [] OTHER -> Cleared(marked, F)

(* restoreSessionUnlocked without the cleanup alarms. *)
Restore(r, F) ==
    LET agrees == \/ r.mem.status = r.stored.status
                  \/ r.mem.status = "quarantined" /\ r.stored.status = "active"
                  \/ r.closed /\ r.mem.status = "cleanup"
    IN CASE r.stored = None -> Removed(r)
         [] r.stored # None /\ r.mem = None ->
              [r EXCEPT !.mem = [r.stored EXCEPT !.status = IF @ = "active" THEN "quarantined" ELSE @],
                        !.alarm = @ \/ (r.stored.status = "cleanup" /\ "alarm" \notin F)]
         [] r.stored # None /\ r.mem # None -> IF agrees THEN r ELSE Removed(r)

Cleaning(r) == r.alarm \/ r.fallback
InCleanup(r) == r.mem # None /\ r.mem.status = "cleanup"

(* restoreAllUnlocked, the part for one session. *)
Restored(r, F) ==
    CASE Cleaning(r) -> RetryCleanup(r, F)
      [] ~Cleaning(r) /\ r.stored = None /\ r.mem = None -> r
      [] OTHER -> LET q == Restore(r, F) IN IF InCleanup(q) THEN FinishStop(q, F) ELSE q
RestoreAll(F) == [s \in Here |-> Restored(rec[s], F)]

(* restoreSessionUnlocked, with the alarms. *)
RestoreOne(r, F) == IF r.alarm THEN RetryCleanup(r, F) ELSE Restore(r, F)

(* persistActiveUnlocked of m, where a failure leaves m in memory only. *)
Kept(r, m, F) == [r EXCEPT !.mem = m, !.stored = IF "persist" \in F THEN @ ELSE m]

-------------------------------------------------------------------------------
(* The chain.                                                              *)

ChainIdle == chain = None
Hold(kind, s, call, at) ==
    chain' = [kind |-> kind, s |-> s, call |-> call, at |-> at, rpc |-> "sent"]
KeepsChain == chain' = chain
FreeChain == chain' = None
Waiting(at) == chain # None /\ chain.at = at

(* Operations asked for are run in order, except that a tool request takes *)
(* its time between its arrival and the chain: what was asked for later may*)
(* overtake it, but nothing overtakes what goes to the chain at once.      *)
Prompt == {"expire", "cleanup", "abort"}
Without(q, i) == SubSeq(q, 1, i - 1) \o SubSeq(q, i + 1, Len(q))
Begins(i, kind) ==
    /\ ChainIdle
    /\ work[i].kind = kind
    /\ \A j \in 1..(i - 1) : work[j].kind \notin Prompt
    /\ work' = Without(work, i)

(* The answer to a tool request; the caller may have given up on it. *)
Answer(s, call, a) ==
    tool' = IF tool[s].call = call /\ tool[s].at = "sent" /\ tool[s].answer = None
            THEN [tool EXCEPT ![s].answer = a] ELSE tool
NoAnswer == tool' = tool

(* start *)
Fresh(w) == [name |-> w.name, start |-> w.call, steps |-> 0, status |-> "active", stop |-> "none"]
RolledBack(r, F) ==
    RetryCleanup(WithAlarm([r EXCEPT !.mem = None, !.closed = TRUE, !.fallback = TRUE], F), F)
Start(i, F) ==
    LET w == work[i]
        r == RestoreAll(F)[w.s]
        refused == Cleaning(rec[w.s]) \/ InCleanup(Restore(rec[w.s], F)) \/ r.fallback \/ r.mem # None
        begun == [r EXCEPT !.mem = Fresh(w), !.stored = Fresh(w)]
        unscheduled == IF "remove" \in F THEN [begun EXCEPT !.mem = None] ELSE Removed(r)
        after == CASE refused -> r
                   [] ~refused /\ "persist" \in F -> RolledBack(r, F)
                   [] ~refused /\ "persist" \notin F /\ "alarm" \in F -> unscheduled
                   [] OTHER -> begun
    IN IF completed[w.name] # None \/ "read" \in F
       THEN /\ UNCHANGED rec
            /\ Answer(w.s, w.call, Failed)
       ELSE /\ rec' = [RestoreAll(F) EXCEPT ![w.s] = after]
            /\ Answer(w.s, w.call, IF after = begun THEN [Failed EXCEPT !.ok = TRUE] ELSE Failed)
RunStart(i) ==
    /\ Begins(i, "start")
    /\ \E F \in SUBSET Failure : FailsWith(F, Failure \ {"local"}) /\ Start(i, F)
    /\ UNCHANGED <<hubVars, completed, chain, pass, late, current, told, calls>>

(* A state whose recording the hub must confirm first: after a restart.    *)
Quarantined(r) == r.mem # None /\ r.mem.status = "quarantined"
Busy(r) == r.deferred \/ r.renewing

(* A mutant: the limit of steps is not looked at. *)
Prepared_Unlimited(r) ==
    IF r.mem # None /\ r.mem.status = "active" /\ ~r.pending THEN [r EXCEPT !.pending = TRUE] ELSE r

(* prepareStep, once the session may record. *)
Prepared(r) ==
    IF r.mem # None /\ r.mem.status = "active" /\ ~r.pending /\ r.mem.steps < MaxSteps
    THEN [r EXCEPT !.pending = TRUE] ELSE r

RunPrepare(s) ==
    /\ ChainIdle /\ s \in live /\ rec[s].stored # None
    /\ \E F \in SUBSET Failure :
         /\ FailsWith(F, {"persist", "remove", "alarm", "clear"})
         /\ LET r == RestoreAll(F)[s] IN
            IF ~r.closed /\ ~Busy(r) /\ Quarantined(r)
            THEN rec' = RestoreAll(F) /\ Hold("act", s, 0, "authority")
            ELSE /\ rec' = [RestoreAll(F) EXCEPT ![s] = IF r.closed \/ Busy(r) THEN r ELSE Prepared(r)]
                 /\ KeepsChain
    /\ UNCHANGED <<hubVars, completed, work, pass, late, toolVars>>

(* commitStep, or discardStep when the action failed. *)
RunCommit(s) ==
    /\ ChainIdle /\ rec[s].pending
    /\ \E F \in SUBSET Failure, done \in BOOLEAN :
         /\ FailsWith(F, {"persist"})
         /\ LET r == [rec[s] EXCEPT !.pending = FALSE] IN
            rec' = [rec EXCEPT ![s] =
                      IF done /\ ~r.closed /\ r.mem # None /\ r.mem.status = "active"
                      THEN Kept(r, [r.mem EXCEPT !.steps = @ + 1], F) ELSE r]
    /\ UNCHANGED <<hubVars, completed, work, chain, pass, late, toolVars>>

(* stop, once the session has authority: persist the state as stopping,    *)
(* then ask the hub, unless an earlier stop knows what the hub did.        *)
StopBody(s, call, r, F) ==
    LET m == [r.mem EXCEPT !.status = "stopping"]
        idle == r.mem = None \/ InCleanup(r) \/ r.pending
        unpersisted == ~idle /\ r.mem.status = "active" /\ "persist" \in F
    IN CASE idle -> rec' = [rec EXCEPT ![s] = r] /\ FreeChain /\ Answer(s, call, Failed)
         [] unpersisted -> /\ rec' = [rec EXCEPT ![s] = r]
                           /\ FreeChain /\ Answer(s, call, Stopped(FALSE, r.mem))
         [] ~idle /\ ~unpersisted ->
              /\ rec' = [rec EXCEPT ![s] =
                           IF r.mem.status = "active" THEN [r EXCEPT !.mem = m, !.stored = m] ELSE r]
              /\ CASE m.stop = "failed" -> FreeChain /\ Answer(s, call, Stopped(FALSE, m))
                   [] m.stop = "none" -> Hold("stop", s, call, "persist") /\ NoAnswer
                   [] OTHER -> Hold("stop", s, call, "local") /\ NoAnswer

RunStop(i) ==
    /\ Begins(i, "stop")
    /\ \E F \in SUBSET Failure :
         /\ FailsWith(F, Failure \ {"local"})
         /\ LET s == work[i].s
                r == RestoreOne(rec[s], F)
            IN CASE "read" \in F -> UNCHANGED <<rec, chain>> /\ Answer(s, work[i].call, Failed)
                 [] "read" \notin F /\ Busy(r) ->
                      rec' = [rec EXCEPT ![s] = r] /\ KeepsChain /\ Answer(s, work[i].call, Failed)
                 [] "read" \notin F /\ ~Busy(r) /\ Quarantined(r) ->
                      /\ rec' = [rec EXCEPT ![s] = r]
                      /\ Hold("stop", s, work[i].call, "authority") /\ NoAnswer
                 [] OTHER -> StopBody(s, work[i].call, r, F)
    /\ UNCHANGED <<hubVars, completed, pass, late, current, told, calls>>

(* The hub answers the operation that holds the chain. *)
Answered(rpc) == chain' = [chain EXCEPT !.rpc = rpc]
HubAnswersAuthority ==
    /\ Waiting("authority") /\ chain.rpc = "sent"
    /\ Answered(IF Renews(chain.s, rec[chain.s].mem.name) THEN "yes" ELSE "no")
    /\ UNCHANGED <<hubVars, rec, completed, work, pass, late, toolVars, faults>>

HubAnswersPersist ==
    /\ Waiting("persist") /\ chain.rpc = "sent"
    /\ \E outcome \in {"saved", "unsynced", "failed", "torn"}, yes \in BOOLEAN :
         /\ Persist(chain.s, Payload(rec[chain.s].mem), outcome, yes)
         /\ IF outcome = "saved" THEN UNCHANGED faults ELSE Fault
         /\ Answered(IF yes THEN "yes" ELSE "no")
    /\ UNCHANGED <<rec, completed, work, pass, late, toolVars>>

(* The request times out, or the socket closes under it; the hub may still *)
(* see it.                                                                 *)
LoseAnswer ==
    /\ chain # None /\ chain.at \in {"authority", "persist"} /\ chain.rpc # "lost"
    /\ Fault
    /\ late' = IF chain.at = "persist" /\ chain.rpc = "sent"
               THEN late \cup {[s |-> chain.s, recording |-> Payload(rec[chain.s].mem)]} ELSE late
    /\ Answered("lost")
    /\ UNCHANGED <<hubVars, rec, completed, work, pass, toolVars>>

HubTakesLatePersist ==
    /\ \E x \in late :
         /\ late' = late \ {x}
         /\ \E outcome \in {"saved", "unsynced", "failed", "torn"}, yes \in BOOLEAN :
              /\ Persist(x.s, x.recording, outcome, yes)
              /\ IF outcome = "saved" THEN UNCHANGED faults ELSE Fault
    /\ UNCHANGED <<rec, completed, work, chain, pass, toolVars>>

(* ensureSessionAuthority with its answer, and the rest of the operation.  *)
Promoted(r, F) ==
    IF "persist" \in F THEN r ELSE Kept(r, [r.mem EXCEPT !.status = "active"], F)
ReceiveAuthority ==
    /\ Waiting("authority") /\ chain.rpc # "sent"
    /\ \E F \in SUBSET Failure :
         LET s == chain.s
             r == rec[s]
             denied == chain.rpc = "no" /\ ~r.closed
             granted == chain.rpc = "yes" /\ ~r.closed
             gives == granted /\ "persist" \notin F
             q == IF granted THEN Promoted(r, F) ELSE r
         IN /\ FailsWith(F, {"persist", "remove", "alarm", "clear"})
            /\ IF gives /\ chain.kind = "stop" THEN StopBody(s, chain.call, q, {})
               ELSE /\ rec' = [rec EXCEPT ![s] = CASE gives -> Prepared(q)
                                                   [] denied -> FinishStop(r, F)
                                                   [] OTHER -> r]
                    /\ FreeChain
                    /\ IF chain.kind = "stop" THEN Answer(s, chain.call, Failed) ELSE NoAnswer
    /\ UNCHANGED <<hubVars, completed, work, pass, late, current, told, calls>>

(* stop with the answer of the hub: cacheStopStatus. *)
ReceivePersist ==
    /\ Waiting("persist") /\ chain.rpc # "sent"
    /\ \E F \in SUBSET Failure :
         LET s == chain.s
             cached == [rec[s].mem EXCEPT !.stop = IF chain.rpc = "yes" THEN "server" ELSE "failed"]
         IN /\ FailsWith(F, {"persist"})
            /\ rec' = [rec EXCEPT ![s] = Kept(rec[s], cached, F)]
            /\ IF chain.rpc = "yes" THEN Hold("stop", s, chain.call, "local") /\ NoAnswer
               ELSE FreeChain /\ Answer(s, chain.call, Stopped(FALSE, cached))
    /\ UNCHANGED <<hubVars, completed, work, pass, late, current, told, calls>>

(* persistCompleted: a copy in the extension, unless one of another        *)
(* content is there.                                                       *)
MayComplete(r) == completed[r.name] \in {None, r}
CopyLocally ==
    /\ Waiting("local")
    /\ \E F \in SUBSET Failure :
         LET s == chain.s
             m == rec[s].mem
             copies == m.stop # "both" /\ "local" \notin F /\ MayComplete(Payload(m))
         IN /\ FailsWith(F, {"local", "persist"})
            /\ completed' = IF copies THEN [completed EXCEPT ![m.name] = Payload(m)] ELSE completed
            /\ rec' = [rec EXCEPT ![s] = IF copies THEN Kept(@, [m EXCEPT !.stop = "both"], F) ELSE @]
            /\ chain' = [chain EXCEPT !.at = "finish"]
    /\ UNCHANGED <<hubVars, work, pass, late, toolVars>>

FinishStopping ==
    /\ Waiting("finish")
    /\ \E F \in SUBSET Failure :
         /\ FailsWith(F, {"persist", "remove", "alarm", "clear"})
         /\ rec' = [rec EXCEPT ![chain.s] = FinishStop(@, F)]
         /\ Answer(chain.s, chain.call, Stopped(TRUE, rec[chain.s].mem))
    /\ FreeChain
    /\ UNCHANGED <<hubVars, completed, work, pass, late, current, told, calls>>

-------------------------------------------------------------------------------
(* What comes from the hub and from the alarms.                            *)

(* abortSession: the mark and the alarm at once, the rest on the chain. *)
HearClosed(i) ==
    /\ work[i].kind = "closed"
    /\ \E F \in SUBSET Failure :
         /\ FailsWith(F, {"alarm"})
         /\ rec' = [rec EXCEPT ![work[i].s] = WithAlarm([@ EXCEPT !.closed = TRUE], F)]
    /\ work' = Append(Without(work, i), [work[i] EXCEPT !.kind = "abort"])
    /\ UNCHANGED <<hubVars, completed, chain, pass, late, toolVars>>

RunAbort(i) ==
    /\ Begins(i, "abort")
    /\ \E F \in SUBSET Failure :
         /\ FailsWith(F, {"persist", "remove", "read", "alarm", "clear"})
         /\ rec' = [rec EXCEPT ![work[i].s] = IF "read" \in F THEN @ ELSE FinishStop(Restore(@, F), F)]
    /\ UNCHANGED <<hubVars, completed, chain, pass, late, toolVars>>

(* expireReservation *)
RunExpire(i) ==
    /\ Begins(i, "expire")
    /\ \E F \in SUBSET Failure :
         /\ FailsWith(F, {"persist", "remove", "read", "alarm", "clear"})
         /\ LET q == RestoreOne(rec[work[i].s], F)
                hit == q.mem # None /\ q.mem.status = "active" /\ q.mem.name = work[i].name
            IN rec' = [rec EXCEPT ![work[i].s] =
                         IF "read" \in F THEN @ ELSE IF hit THEN FinishStop(q, F) ELSE q]
    /\ UNCHANGED <<hubVars, completed, chain, pass, late, toolVars>>

(* The cleanup alarm of a session: retryCleanupSession is put on the chain,*)
(* and does not ask again whether the alarm is still set.                  *)
CleanupAlarm(s) ==
    /\ rec[s].alarm
    /\ \A i \in DOMAIN work : ~(work[i].kind = "cleanup" /\ work[i].s = s)
    /\ work' = Append(work, [kind |-> "cleanup", s |-> s, call |-> 0, name |-> None])
    /\ UNCHANGED <<hubVars, rec, completed, chain, pass, late, toolVars, faults>>

RunCleanup(i) ==
    /\ Begins(i, "cleanup")
    /\ \E F \in SUBSET Failure :
         /\ FailsWith(F, {"remove", "alarm", "clear"})
         /\ rec' = [rec EXCEPT ![work[i].s] = RetryCleanup(@, F)]
    /\ UNCHANGED <<hubVars, completed, chain, pass, late, toolVars>>

(* The global keepalive alarm: retryCleanupStates. *)
RunKeepalive ==
    /\ ChainIdle
    /\ \E F \in SUBSET Failure :
         FailsWith(F, {"persist", "remove", "alarm", "clear"}) /\ rec' = RestoreAll(F)
    /\ rec' # rec
    /\ UNCHANGED <<hubVars, completed, work, chain, pass, late, toolVars>>

(* The renewal pass: gather, ask, apply. *)
Gathered(r, F) ==
    LET q == Restore(r, F) IN
    CASE Cleaning(r) -> RetryCleanup(r, F)
      [] ~Cleaning(r) /\ r.stored = None -> r
      [] OTHER ->
           CASE q.mem = None \/ (q.mem # None /\ q.mem.status = "stopping") -> q
             [] InCleanup(q) \/ (q.mem # None /\ q.mem.status # "stopping" /\ q.closed) -> FinishStop(q, F)
             [] OTHER -> IF q.pending THEN [q EXCEPT !.deferred = TRUE]
                         ELSE [q EXCEPT !.renewing = TRUE, !.deferred = FALSE]
GatherRenewals ==
    /\ ChainIdle /\ pass = None
    /\ \E s \in Here : rec[s].stored # None /\ rec[s].stored.status = "active"
    /\ \E F \in SUBSET Failure :
         /\ FailsWith(F, {"persist", "remove", "alarm", "clear"})
         /\ rec' = [s \in Here |-> Gathered(rec[s], F)]
    /\ pass' = [s \in Here |->
                  IF rec'[s].renewing THEN [name |-> rec'[s].mem.name, answer |-> "sent"] ELSE None]
    /\ UNCHANGED <<hubVars, completed, work, chain, late, toolVars>>

Asked(s) == pass # None /\ pass[s] # None /\ pass[s].answer = "sent"
HubAnswersRenewal(s) ==
    /\ Asked(s)
    /\ pass' = [pass EXCEPT ![s].answer = IF Renews(s, pass[s].name) THEN "yes" ELSE "no"]
    /\ UNCHANGED <<hubVars, rec, completed, work, chain, late, toolVars, faults>>
LoseRenewal(s) ==
    /\ Asked(s) /\ Fault
    /\ pass' = [pass EXCEPT ![s].answer = "lost"]
    /\ UNCHANGED <<hubVars, rec, completed, work, chain, late, toolVars>>

(* renewing stands for the authority token of the candidate: both are given*)
(* up when the state they were taken for goes.                             *)
IsCandidate_OfAnyRecording(r) == TRUE   \* a mutant: the token is not compared
IsCandidate(r) == r.renewing

(* A mutant: a refusal is taken for an ambiguous failure. *)
AfterRenewal_Retained(r, answer, F) ==
    CASE r.mem = None \/ ~IsCandidate(r) -> r
      [] r.mem # None /\ IsCandidate(r) /\ r.closed -> FinishStop(r, F)
      [] OTHER -> IF answer = "yes" /\ Quarantined(r) THEN Promoted(r, F) ELSE r
AfterRenewal(r, answer, F) ==
    CASE r.mem = None \/ ~IsCandidate(r) -> r
      [] r.mem # None /\ IsCandidate(r) /\ r.closed -> FinishStop(r, F)
      [] r.mem # None /\ IsCandidate(r) /\ ~r.closed ->
           CASE answer = "no" -> FinishStop(r, F)
             [] answer = "yes" -> IF Quarantined(r) THEN Promoted(r, F) ELSE r
             [] OTHER -> r
ApplyRenewals ==
    /\ ChainIdle /\ pass # None /\ \A s \in Here : ~Asked(s)
    /\ \E F \in SUBSET Failure :
         /\ FailsWith(F, {"persist", "remove", "alarm", "clear"})
         /\ rec' = [s \in Here |->
                      IF pass[s] = None THEN rec[s]
                      ELSE [AfterRenewal(rec[s], pass[s].answer, F) EXCEPT !.renewing = FALSE]]
    /\ pass' = None
    /\ UNCHANGED <<hubVars, completed, work, chain, late, toolVars>>

(* Chrome stops the worker: its memory is gone, and with it everything it  *)
(* was asked; the offscreen document answers the tool requests.            *)
WorkerStops ==
    /\ Fault
    /\ rec' = [s \in Here |-> [NoSession EXCEPT !.stored = rec[s].stored, !.alarm = rec[s].alarm]]
    /\ late' = IF Waiting("persist") /\ chain.rpc = "sent"
               THEN late \cup {[s |-> chain.s, recording |-> Payload(rec[chain.s].mem)]} ELSE late
    /\ work' = <<>> /\ chain' = None /\ pass' = None
    /\ tool' = [s \in Here |->
                  IF tool[s].at = "sent" /\ tool[s].answer = None
                  THEN [tool[s] EXCEPT !.answer = Failed] ELSE tool[s]]
    /\ UNCHANGED <<hubVars, completed, current, told, calls>>

-------------------------------------------------------------------------------
(* The recording tools of an MCP client.                                   *)

Ask(s, kind) == Append(work, [kind |-> kind, s |-> s, call |-> tool'[s].call, name |-> tool'[s].name])
Idle(s) == tool[s].op = "none"
Ends(s) == tool' = [tool EXCEPT ![s] = NoTool]
Calling(s, op, name, at) ==
    /\ s \in live /\ Idle(s) /\ calls < MaxCalls
    /\ calls' = calls + 1
    /\ tool' = [tool EXCEPT ![s] = [op |-> op, call |-> calls + 1, name |-> name, at |-> at, answer |-> None]]

(* browser_record_start, up to the look at the directory. *)
CallStart(s, n) ==
    /\ current[s] # None => ~Holds(s, current[s])
    /\ files[n] = None
    /\ Calling(s, "start", n, "checked")
    /\ current' = [current EXCEPT ![s] = None]
    /\ UNCHANGED <<hubVars, extensionVars, told, faults>>

(* reserveRecording, and the request to the extension. *)
ReserveName(s) ==
    /\ tool[s].at = "checked"
    /\ LET n == tool[s].name IN
       IF reservation[n] = None
       THEN /\ Reserve(s, n, tool[s].call)
            /\ current' = [current EXCEPT ![s] = n]
            /\ tool' = [tool EXCEPT ![s].at = "sent"]
            /\ work' = Ask(s, "start")
       ELSE /\ Ends(s)
            /\ UNCHANGED <<hubVars, current, work>>
    /\ UNCHANGED <<rec, completed, chain, pass, late, told, calls, faults>>

CallStop(s) ==
    /\ Calling(s, "stop", None, "sent")
    /\ work' = Ask(s, "stop")
    /\ UNCHANGED <<hubVars, rec, completed, chain, pass, late, current, told, faults>>

Returned(s, op) == tool[s].op = op /\ tool[s].answer # None
LetGo(s) == Release(s, current[s]) /\ current' = [current EXCEPT ![s] = None]

StartReturns(s) ==
    /\ Returned(s, "start")
    /\ IF tool[s].answer.ok THEN UNCHANGED <<hubVars, current>> ELSE LetGo(s)
    /\ Ends(s)
    /\ UNCHANGED <<extensionVars, told, calls, faults>>

(* The caller reads that the server has it when the extension says so and  *)
(* the reservation is gone.                                                *)
Acknowledged(s) ==
    /\ tool[s].answer.server
    /\ current[s] # None => ~Holds(s, current[s])
StopReturns(s) ==
    /\ Returned(s, "stop")
    /\ LET a == tool[s].answer
           mismatch == a.ok /\ current[s] # None /\ a.recording.name # current[s]
       IN /\ IF mismatch THEN UNCHANGED <<hubVars, current>> ELSE LetGo(s)
          /\ told' = IF a.ok /\ ~mismatch /\ Acknowledged(s) THEN told \cup {a.recording} ELSE told
    /\ Ends(s)
    /\ UNCHANGED <<extensionVars, calls, faults>>

(* The proxied request times out, or is lost. *)
GiveUp(s) ==
    /\ tool[s].at = "sent" /\ tool[s].answer = None /\ Fault
    /\ tool' = [tool EXCEPT ![s].answer = Failed]
    /\ UNCHANGED <<hubVars, extensionVars, current, told, calls>>

(* The lease of a name runs out: the extension hears of it, if it is there.*)
LapseOf(n) ==
    /\ Lapse(n)
    /\ work' \in {work} \cup IF reservation[n].by \notin Here THEN {} ELSE {Append(work, [kind |-> "expire", s |-> reservation[n].by, call |-> 0, name |-> n])}
    /\ UNCHANGED <<rec, completed, chain, pass, late, toolVars, faults>>

(* A session ends, at any moment of its calls. *)
SessionEnds(s) ==
    /\ EndSession(s)
    /\ work' \in {work, Append(work, [kind |-> "closed", s |-> s, call |-> 0, name |-> None])}
    /\ tool' = [tool EXCEPT ![s] = NoTool]
    /\ current' = [current EXCEPT ![s] = None]
    /\ UNCHANGED <<rec, completed, chain, pass, late, told, calls, faults>>

(* Sessions of other browsers record under the same names, and end: of      *)
(* them only what reaches the hub is here.                                  *)
ReserveElsewhere(s, n) ==
    /\ s \in live /\ calls < MaxCalls
    /\ Reserve(s, n, calls + 1)
    /\ calls' = calls + 1
    /\ UNCHANGED <<extensionVars, tool, current, told, faults>>
PersistElsewhere(s, n) ==
    /\ Holds(s, n)
    /\ \E yes \in BOOLEAN :
         Persist(s, [name |-> n, start |-> reservation[n].start, steps |-> 0], "saved", yes)
    /\ UNCHANGED <<extensionVars, toolVars, faults>>
EndElsewhere(s) == EndSession(s) /\ UNCHANGED <<extensionVars, toolVars, faults>>

-------------------------------------------------------------------------------
Init ==
    /\ ReservationsInit
    /\ rec = [s \in Here |-> NoSession]
    /\ completed = [n \in Names |-> None]
    /\ work = <<>> /\ chain = None /\ pass = None /\ late = {}
    /\ tool = [s \in Here |-> NoTool]
    /\ current = [s \in Here |-> None]
    /\ told = {} /\ calls = 0 /\ faults = 0

Items == 1..Len(work)
Next ==
    \/ \E s \in Here, n \in Names : CallStart(s, n)
    \/ \E s \in Here :
         \/ ReserveName(s) \/ CallStop(s) \/ StartReturns(s) \/ StopReturns(s) \/ GiveUp(s)
         \/ RunPrepare(s) \/ RunCommit(s) \/ CleanupAlarm(s) \/ SessionEnds(s)
         \/ HubAnswersRenewal(s) \/ LoseRenewal(s)
    \/ \E i \in Items :
         RunStart(i) \/ RunStop(i) \/ HearClosed(i) \/ RunAbort(i) \/ RunExpire(i) \/ RunCleanup(i)
    \/ \E n \in Names : LapseOf(n)
    \/ \E s \in Elsewhere : EndElsewhere(s) \/ \E n \in Names : ReserveElsewhere(s, n) \/ PersistElsewhere(s, n)
    \/ HubAnswersAuthority \/ HubAnswersPersist \/ LoseAnswer \/ HubTakesLatePersist
    \/ ReceiveAuthority \/ ReceivePersist \/ CopyLocally \/ FinishStopping
    \/ RunKeepalive \/ GatherRenewals \/ ApplyRenewals \/ WorkerStops

Spec == Init /\ [][Next]_vars

(* Fairness: what runs on the chain gets its turn (a promise chain is      *)
(* first come, first served, and each operation ends), the alarms are      *)
(* periodic, the hub answers what reaches it, and a page action ends.      *)
Fairness ==
    /\ WF_vars(HubAnswersAuthority) /\ WF_vars(HubAnswersPersist)
    /\ WF_vars(ReceiveAuthority) /\ WF_vars(ReceivePersist)
    /\ WF_vars(CopyLocally) /\ WF_vars(FinishStopping)
    /\ SF_vars(GatherRenewals) /\ SF_vars(ApplyRenewals) /\ SF_vars(RunKeepalive)
    /\ \A s \in Here : WF_vars(HubAnswersRenewal(s)) /\ SF_vars(RunCommit(s))
FairSpec == Spec /\ Fairness

-------------------------------------------------------------------------------
Optional(S) == S \cup {None}
SessionState ==
    [mem : Optional(ActiveRecording), stored : Optional(ActiveRecording), alarm : BOOLEAN,
     closed : BOOLEAN, fallback : BOOLEAN, pending : BOOLEAN, deferred : BOOLEAN, renewing : BOOLEAN]
Answers == [ok : BOOLEAN, server : BOOLEAN, recording : Optional(Recording)]

(* Type invariant of the tools, the hub and the extension. *)
TypeOK ==
    /\ live \subseteq Sessions
    /\ reservation \in [Names -> Optional(Reservation)]
    /\ retained \in [Sessions -> Optional(Recording)]
    /\ files \in [Names -> Optional(Recording) \cup {Torn}]
    /\ rec \in [Here -> SessionState]
    /\ completed \in [Names -> Optional(Recording)]
    /\ \A i \in DOMAIN work : work[i].s \in Here
    /\ chain \in Optional([kind : {"stop", "act"}, s : Here, call : 0..MaxCalls,
                            at : {"authority", "persist", "local", "finish"},
                            rpc : {"sent", "yes", "no", "lost"}])
    /\ pass \in Optional([Here -> Optional(Renewal)])
    /\ late \subseteq [s : Here, recording : Recording]
    /\ tool \in [Here -> [op : {"none", "start", "stop"}, call : 0..MaxCalls, name : Optional(Names),
                              at : {"idle", "checked", "sent"}, answer : Optional(Answers)]]
    /\ current \in [Here -> Optional(Names)]
    /\ told \subseteq Recording
    /\ calls \in 0..MaxCalls /\ faults \in 0..MaxFaults

(* The copies of a recording agree: what a caller has read to be saved on  *)
(* the server is on disk as it was recorded, and the copy the extension    *)
(* keeps of a name is the one the hub has, whatever failed, was repeated or*)
(* was recorded under the same name in between.                            *)
SavedCopiesAgree ==
    /\ \A r \in told : files[r.name] = r
    /\ \A n \in Names : completed[n] # None => files[n] = completed[n]

(* A recording that holds its name (the hub has it reserved since the start*)
(* of that recording) is not thrown away behind the back of its session: a *)
(* step of the extension ends it only by stopping it.  A renewal refused to*)
(* an earlier recording, a late expiry, a restart must not.  The one       *)
(* exception is a cleanup that was put on the chain for an earlier         *)
(* recording of the session: from then on the mark or the alarm says that  *)
(* what is left of the recording is being cleaned up.                      *)
CleanupBegan(s) == rec[s].alarm \/ rec[s].closed
HoldsItsName(s) ==
    LET m == rec[s].stored IN
    /\ m # None /\ m.status = "active" /\ ~CleanupBegan(s)
    /\ s \in live /\ reservation[m.name] = [by |-> s, start |-> m.start]
StillReserved(s) == live' = live /\ reservation' = reservation
KeepsRecording(s) == rec'[s].stored # None /\ rec'[s].stored.status \in {"active", "stopping"}
CleanupRuns(s) == \E i \in DOMAIN work : work[i].kind = "cleanup" /\ work[i].s = s /\ work' = Without(work, i)
HeldRecordingsSurvive ==
    [][\A s \in Here : HoldsItsName(s) /\ StillReserved(s) => KeepsRecording(s) \/ CleanupRuns(s)]_vars

(* A recording that lost its name, by an expiry nobody heard of, the end of*)
(* its session, a start whose caller gave up, ends: the renewal pass or the*)
(* cleanup finds it, unless a stop takes it first.                         *)
Lingers(s) ==
    LET m == rec[s].stored IN
    m # None /\ m.status \in {"active", "cleanup"} /\ ~(s \in live /\ Holds(s, m.name))
LapsedRecordingsEnd == \A s \in Here : Lingers(s) ~> ~Lingers(s)
================================================================================
