---------------------------- MODULE TemporaryTabs ----------------------------
(***************************************************************************)
(* The tabs a session opens and that are closed for it when it is done:    *)
(* extension/src/lib/temporary-tabs.ts, with its callers in tools.ts,      *)
(* events.ts (cleanupClosedSession) and background/index.ts (tab events,   *)
(* the keepalive alarm, reconciliation after a reconnect).                 *)
(*                                                                         *)
(* The manager runs one operation at a time, in the order of the calls     *)
(* (operationChain), and keeps what it knows in chrome.storage.session.    *)
(* Between two awaits of an operation Chrome goes on: the user closes a    *)
(* tab, a write or a removal fails, the worker is stopped.                 *)
(***************************************************************************)
EXTENDS Naturals, Sequences, FiniteSets

CONSTANTS
    Sessions, NoSession,
    MaxTabs,                              \* bound: tabs Chrome ever creates
    MaxSessions, MaxTabsPerSession, MaxTotalTabs,
    MaxRequests,                          \* bound: calls the sessions make
    MaxFaults       \* bound: failed writes and removals, restarts, replaced tabs, lost sockets

Tabs == 1..MaxTabs
NoTab == 0

ASSUME TabsAssumption ==
    /\ NoSession \notin Sessions
    /\ IsFiniteSet(Sessions)
    /\ {MaxTabs, MaxSessions, MaxTabsPerSession, MaxTotalTabs, MaxRequests, MaxFaults}
          \subseteq Nat

VARIABLES
    created, open,    \* Chrome: the tabs 1..created have existed, those of `open` still do
    stored,           \* stored[s]: the tabs of s in storage; no entry is the empty set
    cleanupPending,   \* cleanupPending[s], of the entry of s
    chain,            \* the calls that wait for their turn
    op,               \* where the one under way is
    resolving,        \* sessions whose new_tab handler has not called open() yet
    ended,            \* sessions the hub has finalized
    link, reported,   \* the hub connection; the sessions named to the hub on it
    reconciling,      \* finalized sessions the hub named in its answer
    owner, kept,      \* history: who opened a tab as temporary, and what was kept
    condemned,        \* history: tabs that were their session's when it asked for a cleanup
    lost,             \* history: tabs the manager had to give up
    requests, faults

chromeVars == <<created, open, owner>>
historyVars == <<kept, condemned, lost>>
storageVars == <<stored, cleanupPending>>
linkVars == <<link, reported, reconciling>>
sessionVars == <<resolving, ended, linkVars>>
countVars == <<requests, faults>>
vars == <<chromeVars, historyVars, storageVars, chain, op, sessionVars, countVars>>

Call(kind, s, t, u) == [kind |-> kind, session |-> s, tab |-> t, added |-> u]

\* tab: the one being opened, closed or dropped; todo: the tabs a cleanup has still to close;
\* rest: the sessions retryPendingCleanup comes to next.
At(step, s, t, todo, rest) ==
    [step |-> step, session |-> s, tab |-> t, todo |-> todo, rest |-> rest]
Idle == At("idle", NoSession, NoTab, {}, {})

Tracked == UNION {stored[s] : s \in Sessions}

\* Something goes wrong.
Fault == faults < MaxFaults /\ faults' = faults + 1

\* The tab an open has created and not recorded, and the ids calls of replaceTab bring.
Unrecorded == IF op.step \in {"recording", "rollback"} THEN {op.tab} ELSE {}
Replacing == {chain[i].added : i \in DOMAIN chain} \ {NoTab}

\* Chrome's onRemoved event for tab t: scheduled behind the calls C.  The event of a tab that
\* is not, and will not be, tracked changes nothing and is left out.
Notified(t, C) ==
    IF t \in open \cap (Tracked \cup Unrecorded \cup Replacing)
    THEN Append(C, Call("forget", NoSession, t, NoTab)) ELSE C

\* removeOwnedTab for the entries of the sessions S; an empty entry is deleted.
Unmarked_Never(S, t) == cleanupPending

Unmarked(S, t) == [s \in Sessions |-> cleanupPending[s] /\ (s \in S => stored[s] \ {t} # {})]

Untrack(S, t) ==
    /\ stored' = [s \in Sessions |-> IF s \in S THEN stored[s] \ {t} ELSE stored[s]]
    /\ cleanupPending' = Unmarked(S, t)

\* The manager is free and the next call is one of this kind.
Turn(kind) == op = Idle /\ chain # <<>> /\ Head(chain).kind = kind

-----------------------------------------------------------------------------
(* open                                                                    *)

HasRoom(s) ==
    /\ stored[s] # {} \/ Cardinality({x \in Sessions : stored[x] # {}}) < MaxSessions
    /\ Cardinality(stored[s]) < MaxTabsPerSession
    /\ Cardinality(Tracked) < MaxTotalTabs

\* TEMP_TAB_LIMIT_REACHED, or the model's bound on tabs.
OpenRefused ==
    /\ Turn("open")
    /\ ~ HasRoom(Head(chain).session) \/ created = MaxTabs
    /\ chain' = Tail(chain)
    /\ UNCHANGED <<chromeVars, historyVars, storageVars, op, sessionVars, countVars>>

\* Chrome creates the tab; nothing has been written yet.
OpenCreates ==
    LET s == Head(chain).session
        t == created + 1 IN
    /\ Turn("open") /\ HasRoom(s)
    /\ created < MaxTabs
    /\ created' = t /\ open' = open \cup {t}
    /\ owner' = [owner EXCEPT ![t] = s]
    /\ chain' = Tail(chain)
    /\ op' = At("recording", s, t, {}, {})
    /\ UNCHANGED <<historyVars, storageVars, sessionVars, countVars>>

PendingAfterOpen_Inherited(s) == cleanupPending

\* "New live-session work must not inherit an earlier cleanup attempt."
PendingAfterOpen(s) == [cleanupPending EXCEPT ![s] = FALSE]

OpenRecords ==
    /\ op.step = "recording"
    /\ stored' = [stored EXCEPT ![op.session] = @ \cup {op.tab}]
    /\ cleanupPending' = PendingAfterOpen(op.session)
    /\ op' = Idle
    /\ UNCHANGED <<chromeVars, historyVars, chain, sessionVars, countVars>>

AfterFailedRecord_GivesUp == Idle

AfterFailedRecord == [op EXCEPT !.step = "rollback"]

OpenRecordFails ==
    /\ op.step = "recording"
    /\ Fault
    /\ op' = AfterFailedRecord
    /\ UNCHANGED <<chromeVars, historyVars, storageVars, chain, sessionVars, requests>>

\* The tab is closed again, if it still exists.
OpenRollsBack ==
    /\ op.step = "rollback"
    /\ open' = open \ {op.tab}
    /\ chain' = Notified(op.tab, chain)
    /\ op' = Idle
    /\ UNCHANGED <<created, owner, historyVars, storageVars, sessionVars, countVars>>

\* TEMP_TAB_ROLLBACK_FAILED; counted as one fault with the write that failed.
OpenRollbackFails ==
    /\ op.step = "rollback"
    /\ op.tab \in open
    /\ lost' = lost \cup {op.tab}
    /\ op' = Idle
    /\ UNCHANGED <<chromeVars, kept, condemned, storageVars, chain, sessionVars, countVars>>

-----------------------------------------------------------------------------
(* close, keep, forgetClosedTab, replaceTab                                *)

\* A tab that is gone already counts as closed.
CloseRemoves ==
    LET c == Head(chain) IN
    /\ Turn("close")
    /\ open' = open \ {c.tab}
    /\ chain' = Notified(c.tab, Tail(chain))
    /\ op' = IF c.tab \in stored[c.session] THEN At("closed", c.session, c.tab, {}, {})
             ELSE Idle
    /\ UNCHANGED <<created, owner, historyVars, storageVars, sessionVars, countVars>>

CloseRecords ==
    /\ op.step = "closed"
    /\ Untrack({op.session}, op.tab)
    /\ op' = Idle
    /\ UNCHANGED <<chromeVars, historyVars, chain, sessionVars, countVars>>

\* The answer is true only once the session no longer tracks the tab.
Keep ==
    LET c == Head(chain) IN
    /\ Turn("keep")
    /\ chain' = Tail(chain)
    /\ kept' = IF c.tab \in stored[c.session] THEN kept \cup {c.tab} ELSE kept
    /\ Untrack({c.session}, c.tab)
    /\ UNCHANGED <<chromeVars, condemned, lost, op, sessionVars, countVars>>

ForgetClosedTab ==
    /\ Turn("forget")
    /\ chain' = Tail(chain)
    /\ Untrack(Sessions, Head(chain).tab)
    /\ UNCHANGED <<chromeVars, historyVars, op, sessionVars, countVars>>

\* The new id takes the place of the old one, where the old one is tracked.
ReplaceTab ==
    LET t == Head(chain).tab
        u == Head(chain).added IN
    /\ Turn("replace")
    /\ chain' = Tail(chain)
    /\ IF t \in Tracked /\ u \notin Tracked
       THEN /\ stored' = [s \in Sessions |-> IF t \in stored[s]
                                             THEN (stored[s] \ {t}) \cup {u} ELSE stored[s]]
            /\ condemned' = IF t \in condemned THEN condemned \cup {u} ELSE condemned
            /\ UNCHANGED lost
       ELSE /\ lost' = lost \cup {u}
            /\ UNCHANGED <<stored, condemned>>
    /\ UNCHANGED <<chromeVars, kept, cleanupPending, op, sessionVars, countVars>>

\* The first read, write, creation or removal of a call fails, which ends it.
CallFails ==
    /\ op = Idle /\ chain # <<>>
    /\ Fault
    /\ lost' = lost \cup ({Head(chain).added} \ {NoTab})
    /\ chain' = Tail(chain)
    /\ UNCHANGED <<chromeVars, kept, condemned, storageVars, op, sessionVars, requests>>

CloseRecordFails ==
    /\ op.step = "closed"
    /\ Fault
    /\ op' = Idle
    /\ UNCHANGED <<chromeVars, historyVars, storageVars, chain, sessionVars, requests>>

-----------------------------------------------------------------------------
(* cleanupSession, retryPendingCleanup                                     *)

\* Where a cleanup of s goes on, with the tabs of todo still to be closed.
Cleaning(s, todo, rest) ==
    IF todo # {} THEN At("cleaning", s, NoTab, todo, rest)
    ELSE IF rest # {} THEN At("retrying", NoSession, NoTab, {}, rest)
    ELSE Idle

\* The entry is marked first, so that a cleanup cut short is taken up again.
Cleanup ==
    LET s == Head(chain).session IN
    /\ Turn("cleanup")
    /\ chain' = Tail(chain)
    /\ cleanupPending' = [cleanupPending EXCEPT ![s] = stored[s] # {}]
    /\ condemned' = condemned \cup stored[s]
    /\ op' = Cleaning(s, stored[s], {})
    /\ UNCHANGED <<chromeVars, kept, lost, stored, sessionVars, countVars>>

Due_Nobody == {}

Due == {s \in Sessions : cleanupPending[s]}

Retry ==
    /\ Turn("retry")
    /\ chain' = Tail(chain)
    /\ op' = Cleaning(NoSession, {}, Due)
    /\ UNCHANGED <<chromeVars, historyVars, storageVars, sessionVars, countVars>>

RetrySession(s) ==
    /\ op.step = "retrying"
    /\ s \in op.rest
    /\ op' = Cleaning(s, stored[s], op.rest \ {s})
    /\ UNCHANGED <<chromeVars, historyVars, storageVars, chain, sessionVars, countVars>>

\* The state cannot be read for the session that is next: the error ends the whole call.
RetrySessionFails ==
    /\ op.step = "retrying"
    /\ Fault
    /\ op' = Idle
    /\ UNCHANGED <<chromeVars, historyVars, storageVars, chain, sessionVars, requests>>

RemoveTab(t) ==
    /\ op.step = "cleaning"
    /\ t \in op.todo
    /\ open' = open \ {t}
    /\ chain' = Notified(t, chain)
    /\ op' = [op EXCEPT !.step = "dropping", !.tab = t]
    /\ UNCHANGED <<created, owner, historyVars, storageVars, sessionVars, countVars>>

\* Chrome refuses (the tab is being dragged, say): it stays tracked, for a retry.
RemoveTabFails(t) ==
    /\ op.step = "cleaning"
    /\ t \in op.todo \cap open
    /\ Fault
    /\ op' = Cleaning(op.session, op.todo \ {t}, op.rest)
    /\ UNCHANGED <<chromeVars, historyVars, storageVars, chain, sessionVars, requests>>

DropTab ==
    /\ op.step = "dropping"
    /\ Untrack({op.session}, op.tab)
    /\ op' = Cleaning(op.session, op.todo \ {op.tab}, op.rest)
    /\ UNCHANGED <<chromeVars, historyVars, chain, sessionVars, countVars>>

\* The error ends the whole call, the sessions it would have come to included.
DropTabFails ==
    /\ op.step = "dropping"
    /\ Fault
    /\ op' = Idle
    /\ UNCHANGED <<chromeVars, historyVars, storageVars, chain, sessionVars, requests>>

-----------------------------------------------------------------------------
(* The callers                                                             *)

Request(s) ==
    /\ s \notin ended
    /\ requests < MaxRequests
    /\ requests' = requests + 1

\* new_tab first resolves the URL; nothing interrupts it when its session closes.
NewTab(s) ==
    /\ Request(s)
    /\ s \notin resolving
    /\ resolving' = resolving \cup {s}
    /\ UNCHANGED <<chromeVars, historyVars, storageVars, chain, op, ended, linkVars, faults>>

NewTabOpens(s) ==
    /\ s \in resolving
    /\ resolving' = resolving \ {s}
    /\ chain' = Append(chain, Call("open", s, NoTab, NoTab))
    /\ UNCHANGED <<chromeVars, historyVars, storageVars, op, ended, linkVars, countVars>>

\* close_tab, keep_tab, cleanup_session_tabs; a request may name any tab.
TabTool(s) ==
    /\ Request(s)
    /\ \/ \E kind \in {"close", "keep"}, t \in open :
             chain' = Append(chain, Call(kind, s, t, NoTab))
       \/ chain' = Append(chain, Call("cleanup", s, NoTab, NoTab))
    /\ UNCHANGED <<chromeVars, historyVars, storageVars, op, sessionVars, faults>>

\* session_closed reaches the extension if it is connected.
SessionCloses(s) ==
    /\ s \notin ended
    /\ ended' = ended \cup {s}
    /\ chain' = IF link = "connected" THEN Append(chain, Call("cleanup", s, NoTab, NoTab))
                ELSE chain
    /\ UNCHANGED <<chromeVars, historyVars, storageVars, op, resolving, linkVars, countVars>>

Disconnects ==
    /\ link # "lost"
    /\ Fault
    /\ link' = "lost" /\ reported' = {}
    /\ UNCHANGED <<chromeVars, historyVars, storageVars, chain, op, resolving, ended,
                   reconciling, requests>>

\* A new socket is open: before it authenticates it asks for the tracked sessions.
Reconnects ==
    /\ link = "lost"
    /\ link' = "asking"
    /\ chain' = Append(chain, Call("list", NoSession, NoTab, NoTab))
    /\ UNCHANGED <<chromeVars, historyVars, storageVars, op, resolving, ended, reported,
                   reconciling, countVars>>

\* An answer to an earlier socket, or after the collection timeout, is dropped.
TrackedSessionIds ==
    LET awaited == link = "asking" /\ \A i \in 2..Len(chain) : chain[i].kind # "list" IN
    /\ Turn("list")
    /\ chain' = Tail(chain)
    /\ IF awaited
       THEN link' = "authenticating" /\ reported' = {s \in Sessions : stored[s] # {}}
       ELSE UNCHANGED <<link, reported>>
    /\ UNCHANGED <<chromeVars, historyVars, storageVars, op, resolving, ended, reconciling,
                   countVars>>

CollectionTimesOut ==
    /\ link = "asking"
    /\ link' = "authenticating" /\ reported' = {}
    /\ UNCHANGED <<chromeVars, historyVars, storageVars, chain, op, resolving, ended,
                   reconciling, countVars>>

\* The hub names those of the reported sessions that it has finalized.
Authenticated ==
    /\ link = "authenticating"
    /\ link' = "connected" /\ reported' = {}
    /\ reconciling' = reconciling \cup (reported \cap ended)
    /\ UNCHANGED <<chromeVars, historyVars, storageVars, chain, op, resolving, ended,
                   countVars>>

\* reconcileFinalizedSessions cleans one session up after the other.
Reconcile(s) ==
    /\ s \in reconciling
    /\ reconciling' = reconciling \ {s}
    /\ chain' = Append(chain, Call("cleanup", s, NoTab, NoTab))
    /\ UNCHANGED <<chromeVars, historyVars, storageVars, op, resolving, ended, link,
                   reported, countVars>>

\* The keepalive alarm, every 30 seconds; a call that would find no cleanup due is left out.
Alarm ==
    /\ Due # {}
    /\ \A i \in DOMAIN chain : chain[i].kind # "retry"
    /\ chain' = Append(chain, Call("retry", NoSession, NoTab, NoTab))
    /\ UNCHANGED <<chromeVars, historyVars, storageVars, op, sessionVars, countVars>>

-----------------------------------------------------------------------------
(* Chrome                                                                  *)

\* A tab of the user's, or one opened with temporary: false.
OtherTabOpens ==
    /\ created < MaxTabs
    /\ created' = created + 1
    /\ open' = open \cup {created + 1}
    /\ UNCHANGED <<owner, historyVars, storageVars, chain, op, sessionVars, countVars>>

UserCloses(t) ==
    /\ t \in open
    /\ open' = open \ {t}
    /\ chain' = Notified(t, chain)
    /\ UNCHANGED <<created, owner, historyVars, storageVars, op, sessionVars, countVars>>

\* The same page goes on under a new id (onReplaced).
ChromeReplaces(t) ==
    LET u == created + 1 IN
    /\ t \in open
    /\ created < MaxTabs
    /\ Fault
    /\ created' = u /\ open' = (open \ {t}) \cup {u}
    /\ owner' = [owner EXCEPT ![u] = owner[t]]
    /\ kept' = IF t \in kept THEN kept \cup {u} ELSE kept
    /\ chain' = Append(chain, Call("replace", NoSession, t, u))
    /\ UNCHANGED <<condemned, lost, storageVars, op, sessionVars, requests>>

\* The worker is stopped and starts again: the calls are gone, storage and alarm are not.
WorkerRestarts ==
    /\ Fault
    /\ lost' = lost \cup Unrecorded \cup Replacing
    /\ chain' = <<>> /\ op' = Idle
    /\ resolving' = {} /\ reconciling' = {}
    /\ UNCHANGED <<chromeVars, kept, condemned, storageVars, ended, link, reported,
                   requests>>

-----------------------------------------------------------------------------

Init ==
    /\ created = 0 /\ open = {} /\ owner = [t \in Tabs |-> NoSession]
    /\ stored = [s \in Sessions |-> {}]
    /\ cleanupPending = [s \in Sessions |-> FALSE]
    /\ chain = <<>> /\ op = Idle
    /\ resolving = {} /\ ended = {}
    /\ link = "connected" /\ reported = {} /\ reconciling = {}
    /\ kept = {} /\ condemned = {} /\ lost = {}
    /\ requests = 0 /\ faults = 0

\* What the manager does when nothing goes wrong.
ManagerStep ==
    \/ OpenRefused \/ OpenCreates \/ OpenRecords \/ OpenRollsBack
    \/ CloseRemoves \/ CloseRecords \/ Keep \/ ForgetClosedTab \/ ReplaceTab
    \/ Cleanup \/ Retry \/ DropTab \/ TrackedSessionIds
    \/ \E s \in Sessions : RetrySession(s)
    \/ \E t \in Tabs : RemoveTab(t)

Failure ==
    \/ CallFails \/ OpenRecordFails \/ OpenRollbackFails \/ CloseRecordFails \/ DropTabFails
    \/ RetrySessionFails
    \/ \E t \in Tabs : RemoveTabFails(t)

Next ==
    \/ ManagerStep \/ Failure
    \/ \E s \in Sessions : NewTab(s) \/ NewTabOpens(s) \/ TabTool(s) \/ SessionCloses(s)
                              \/ Reconcile(s)
    \/ Disconnects \/ Reconnects \/ CollectionTimesOut \/ Authenticated \/ Alarm
    \/ OtherTabOpens \/ \E t \in Tabs : UserCloses(t) \/ ChromeReplaces(t)
    \/ WorkerRestarts

Spec == Init /\ [][Next]_vars

\* The chain runs on, and the alarm comes round.
Progress == WF_vars(ManagerStep) /\ WF_vars(Alarm)

FairSpec == Spec /\ Progress

-----------------------------------------------------------------------------
(* Properties                                                              *)

Kinds == {"open", "close", "keep", "cleanup", "retry", "forget", "replace", "list"}
Calls == [kind : Kinds, session : Sessions \cup {NoSession}, tab : Tabs \cup {NoTab},
          added : Tabs \cup {NoTab}]
Steps == {"idle", "recording", "rollback", "closed", "cleaning", "dropping", "retrying"}

\* Every variable stays in its range, and only an entry with tabs can be marked.
TypeOK ==
    /\ created \in 0..MaxTabs /\ open \in SUBSET (1..created)
    /\ owner \in [Tabs -> Sessions \cup {NoSession}]
    /\ stored \in [Sessions -> SUBSET Tabs]
    /\ cleanupPending \in [Sessions -> BOOLEAN]
    /\ \A s \in Sessions : cleanupPending[s] => stored[s] # {}
    /\ chain \in Seq(Calls)
    /\ op \in [step : Steps, session : Sessions \cup {NoSession}, tab : Tabs \cup {NoTab},
               todo : SUBSET Tabs, rest : SUBSET Sessions]
    /\ resolving \in SUBSET Sessions /\ ended \in SUBSET Sessions
    /\ link \in {"connected", "lost", "asking", "authenticating"}
    /\ reported \in SUBSET Sessions /\ reconciling \in SUBSET Sessions
    /\ kept \in SUBSET Tabs /\ condemned \in SUBSET Tabs /\ lost \in SUBSET Tabs
    /\ requests \in 0..MaxRequests /\ faults \in 0..MaxFaults

\* "Manual, pre-existing, popup-created, non-temporary, kept, and other-session tabs are ...
\* not closed", and "a stale retry cannot close newer work": a cleanup closes only tabs its
\* session opened as temporary, has not kept, and had when it asked for a cleanup.
CleanupTakesOnlyItsOwn ==
    op.step = "cleaning" =>
       \A t \in op.todo :
          owner[t] = op.session /\ t \notin kept /\ t \in condemned

\* No temporary tab escapes: while it is open it is tracked, or the operation that will track
\* or close it is under way, or it was kept.  What a stopped worker, a failed rollback or a
\* replaced id has cost is in `lost`.
NoTabEscapes ==
    \A t \in open \ (kept \cup lost) :
       owner[t] # NoSession =>
          \/ t \in stored[owner[t]]
          \/ t \in Unrecorded
          \/ t \in Replacing

\* A cleanup that was begun is completed, across failures and a stopped worker, unless its
\* session goes on to open another tab.
PendingCleanupFinishes ==
    \A s \in Sessions : cleanupPending[s] ~> ~ cleanupPending[s]

\* "Finalized sessions are cleaned automatically" (server/README.md): when the manager has
\* nothing left to do, a finalized session has no tabs, or its cleanup is still due.
FinalizedSessionsAreCleaned ==
    \A s \in ended :
       op = Idle /\ chain = <<>> /\ s \notin resolving => stored[s] = {} \/ cleanupPending[s]
=============================================================================
