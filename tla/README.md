# A TLA+ model of MyBrowser MCP

MyBrowser gives MCP clients a real Chrome browser. It makes two programs under
`src/MyBrowser`: a Node **server** (`server/src`), of which one process on a port is the *hub*
and the others are its clients, and a Chrome MV3 **extension** (`extension/src`). Several MCP
sessions share one browser, so most of what can go wrong is about who owns what, for how long,
and what happens to it when a process, a socket, a tab or a timer ends at a bad moment. This
directory models that part, checks it with TLC and proves the central properties with TLAPS.

## 1. Inventory

| Part | State | Operations | Interacts with |
|---|---|---|---|
| Hub: named locks (`state-manager.ts` 1086-1312) | `locks`, `lockWaiters`, `lockTtlTimers` | acquire, release, list; TTL timer, waiter timer; end of a session; shutdown | tools/locks.ts, hub RPC, session finalizer |
| Hub: sessions (`ws-server.ts` 377-510, 716-1071, 1741-1850) | sessions, socket bindings, generations, grace timers, finalizers, tombstones | register, remove, socket closed, liveness sweep, grace expiry, finalize, shutdown | every session resource; extension (`session_closed`) |
| Hub client (`ws-server.ts` 1867-2129, `hub-client.ts`, `session-incarnation.ts`) | socket, pending RPCs, the session id of this process | connect, register, rotate id, heartbeat, reconnect, leave | hub |
| Hub: recordings (`state-manager.ts` 499-624, `ws-server.ts` 166-197, 331-373, 1093-1267) | reservations with a lease, persist queue per session, retry registry, files | reserve, renew, release, persist, retry | extension recorder, finalizer |
| Hub: handlers and event queue (`state-manager.ts` 870-1084, `tools/events.ts`) | handlers, waiters, buffers | on, off, fire, wait, time out | extension events |
| Hub: targeting and tab ownership (`state-manager.ts` 433-493, 626-799) | browsers, default, overrides, owned tabs | connect, disconnect, select, own, idle expiry | context.ts |
| Hub: tool proxy (`ws-server.ts` 1414-1738) | one set of listeners per request | forward, answer, close, time out, shut down | context.ts, transfers |
| Transfers (`transfers/*.ts`) | expected transfers, partial files, settled results | expect, chunk, complete, time out, abort, retain | tool proxy, offscreen |
| Upload relay (`ws-server.ts` 580-710, `offscreen/main.ts`) | window of chunks in flight | start, chunk, ack, abort, expire | context.ts |
| Extension: request scheduler (`request-scheduler.ts`) | three kinds of queue, `globalPending`, closed sessions | enqueue, execute, expire, cancel a tab, close a session | background worker |
| Extension: offscreen document (`offscreen/main.ts`, `reconnecting-ws.ts`, `offscreen-pending.ts`) | socket, retry timer, requests forwarded to the worker | connect, replace, drop, forward, fail all | hub, background worker |
| Extension: temporary tabs (`temporary-tabs.ts`) | tabs by session, persisted | open, close, keep, clean up, retry, replace | chrome.tabs, storage |
| Extension: session state (`session-state.ts`, `request-context.ts`) | last tab of each session, fallback | resolve, set, clear | scheduler, tools |
| Extension: recorder, capture, debugger | per-tab state | start, stop, deliver | recordings |
| Page automation, UI, telemetry, notes, agents | local | - | - |

Where it is hard:

- **Concurrency.** Both programs are single threaded, so a step is the code between two awaits.
  Interleavings come from timers, sockets, Chrome events and promises: a finalizer that waits
  while its session reconnects, a handler that outlives its deadline, a grant that crosses a
  timeout.
- **Failure.** A client's socket drops on one side first; the hub process is killed; the MV3
  worker is stopped at any time and starts again with empty memory; a write to storage fails.
- **Ordering.** FIFO lists are edited by timers and cancellations in their middle.
- **Identity.** Session ids outlive connections, generations tell incarnations apart, and
  tombstones in two processes with different lifetimes say which ids are over.

What makes each part correct is listed with the hazards in `PROJECT.json`: every hazard names its
line in the code and the properties that would notice, or says why none does.

## 2. Modules

| Module | Models | Proofs |
|---|---|---|
| `HubLocks` | the lock manager of `LocalStateManager` | `HubLocksProofs` |
| `LockService` | what that manager promises: one line of calls per name | `HubLocksRefinement` |
| `SessionLifecycle` | clients, sockets and the hub from registration to finalization | `SessionLifecycleProofs` |
| `ToolCalls` | what the proxy promises a client about a call and its file | `ToolProxyProofs` |
| `TransferRegistry` | the hub's registry of files under way (state and calls) | with `ToolProxy` |
| `ToolProxy` | a tool request from client to extension and back, composed with `TransferRegistry` and the sender in the offscreen document | `ToolProxyProofs`, `ToolProxyStreamProofs` |
| `RecordingReservations` | names, leases, retry registry and files of recordings in the hub (state and calls) | with `RecordingDelivery` |
| `RecordingDelivery` | a recording from start to its saved copies: recording tools, hub, `RecordingManager` | `RecordingDeliveryProofs` |
| `RequestScheduler` | the extension's queues, with the worker's restart | `RequestSchedulerProofs` |
| `ServedInTurn` | what those queues promise a request | `RequestSchedulerProofs` |
| `TemporaryTabs` | the tabs a session opens, their storage and their cleanup | `TemporaryTabsProofs` |

Two pairs are compositions in which one part is passive. `TransferRegistry` and
`RecordingReservations` hold the state of an object of the hub and an operator for each of its
calls; `ToolProxy` and `RecordingDelivery` extend them, and their actions are the event handlers
that make those calls together with all else they do.

The `MC*` modules add what TLC needs to keep an instance small: the sets of requests and sessions, a
symmetry set for runs that check safety only, and, where liveness is checked too and a symmetry set
would be unsound, an action constraint `InOrder`. It makes interchangeable calls, requests or
sessions take their first step in a fixed order, so that it cuts off only renamings of behaviours
that remain. Definitions ending in `_Something` are deliberate faults (a dropped guard, a missing
reset): substituted for the definition they are named after, each makes a property fail, which shows
that the property speaks about the code.

### HubLocks

A call of `acquireLock` is the identity of the `Lock` object it is granted: `holder[n]` is the
entry of `locks`, `waiters[n]` the list `lockWaiters.get(n)`, `timer[n]` the Lock whose TTL timer
`lockTtlTimers` holds, and `fate[c]` the promise the caller has. The list is a set with the order
of arrival in `turn`; push, shift and filter are all that the code does to it, and `turn` makes
FIFO a property that can be stated. `lapsed` holds the Locks whose `expiresAt` has passed: the
clock and the timer that notices are two steps, as in the code, where `reclaimIfExpired` may come
first. One action stands for one call into the class up to its return; `EndSession` is the part of
`runSessionFinalizer` that concerns locks.

### LockService

The abstract service has no lists, maps or timers: `line[n]` is the set of calls that want name `n`
and were not refused, the one that came first has it, and `told[c]` is what its caller knows. A call
leaves the line when its caller unlocks or ends (`Depart`), when its time is up (`Lapse`), or when it
stops waiting (`GiveUp`); whoever is first then has the name, and is told in the same step.
`HubLocksRefinement` maps `waiters` and `holder` to `line` and `fate` to `told`, and
`ImplementsLockService` is the property of `HubLocks` that results.

### SessionLifecycle

A socket has two ends, `clientEnd` and `hubEnd`, which close one after the other: in between, each
process acts on a connection the other has given up. A socket carries one request and one reply at
a time, since a client awaits each. `generation`, `graceTimers`, `finalizers` and `finalized` are
the maps of `ws-server.ts`; `holdings` stands for everything the destructive steps free (tabs,
browser override, recordings, handlers, locks), `closings` counts the `session_closed` messages
sent to the browser, and `barred` is the extension's memory of them. `sweepTransfersRoot` is
synchronous and the destructive steps await only resolved promises, so the one real wait of a
finalizer is `drainRecordingPersists`: `behind` is the number of persists it still waits for. What
the finalizer read before the wait it must check again after it, which is what `Owns` is for.
`HubCrashes` and `HubRestarts` clear the hub's memory and leave clients and extension with theirs.
`OwnId` is the session of the hub process itself. The extension is taken to be connected when
`session_closed` is sent; it then stays informed. Tombstones do not expire here (the extension keeps
its own for 24 hours, `RequestScheduler`).

### TransferRegistry and ToolProxy

`expected` is the registry's `entries`, `nextSeq` the cursor of each, `staged` and `landed` are files
on disk. Settling an entry calls the callback that the proxy gave to `expect`, so every action that
drops a transfer also answers its request (`FailTransfers`), whoever caused it: a bad chunk, the
registry's timeout, an error from the page, `dispose`.

`phase[r]` says where the hub is with a request: "resolving" is the await of the target browser,
"pending" means that the listeners on both sockets, the timer and the entry of
`pendingProxyCancellations` are there. "unheard" is a fetch whose transfer the registry would not
take: the hub sends the refusal in a form no client reads and returns before any of these exist, so
the model tells the client nothing (`RefuseTransfer`, finding 5). The client's own timer
(`context.ts`), which is not modelled, is all that ends such a call. `told[r]` is the sequence of
the answers sent, so that a second one is visible. The answer to a fetch is not passed on when it
comes: a yes is held until the transfer settles, and the action that settles it tells the client.
The extension's socket has two ends that die at different times: `stale` are sockets the hub still
takes for open when the extension is back on another. Messages on one socket stay in order, and what
has arrived at the hub when the extension gives its socket up (`late[k]`, some beginning of what was
under way) is still read, perhaps after messages of the next socket and before the hub notices the
close (`Reads`, `BrowserCloses`). In the extension, `job`, `sent` and `acked` are the worker's and
the offscreen document's view of a file: chunks go out while the window is open, and after a
reconnect they go on over the new socket, where the registry refuses them, since a transfer is bound
to the socket its request took. `WorkerStops` answers what the worker owed (as
`offscreen-pending.ts` does) and leaves the sender in the offscreen document running.

### ToolCalls

What the proxy promises, with no socket, timer, registry or shutdown: a call is open until it is over,
its file is not there, on the way, or saved. Calls end in six ways. A call may be refused before its
file is on the way (`Refuse`), or dropped without a word, which only a fetch is whose session has no
place left (`Lose`); one without a file has the tool's answer (`Answer`); calls are given up
together (`GiveUp`), and their files stay on the way; files come to nothing and their callers hear it,
for the second time if they were given up (`Fail`); and a file is saved in the step that tells the
caller (`Save`). A file is `doomed` once its caller was told that the browser or the hub has gone:
it is never saved. One whose caller was told of a timeout may still be, which is what finding 4 is
about. `ToolProxy` maps `phase` to `call`, and `landed`, `expected` and `told` to `file`;
`ImplementsToolCalls` is its property.

### RecordingReservations and RecordingDelivery

`reservation[n]` is the entry of `recordingReservations`, with the call that made it; `retained` the
`RecordingRetryRegistry`, `files` the recordings directory. A recording is its name, the call that
started it and its number of steps: two with the same three have the same text. `Persist` is the task
of `persistRecording` with every outcome of its file operations: saved; there, but its directory not
synced; failed and removed again; failed and not even removed (`Torn`).

`rec[s]` is what `RecordingManager` has of a session: `mem` and `stored` are the state in memory and
in `chrome.storage.session`, which differ after a failed write, `alarm`, `closed`, `fallback` the
cleanup alarm and the two sets beside it, `pending` a prepared step, `renewing` and `deferred` the
renewal's marks. The manager's operations go through a promise chain: an operation that awaits only
Chrome is one action, which names the set `F` of Chrome calls that fail in it; one that waits for the
hub holds `chain` from one action to the next. The renewal pass asks the hub off the chain and
applies the answers on it (`pass`), so its answers may be about a recording that has been replaced.
`work` are operations asked for and not begun: those a tool asks for may be overtaken, since a request
passes the scheduler first. `late` are `persistRecording` requests whose caller has given up and that
the hub has yet to see. `tool`, `current` and `told` are the MCP client's side: its running call,
`activeRecordingName`, and the recordings whose caller read "Server persistence acknowledged.".
Sessions of other browsers (`Elsewhere`) compete for names and files and have no more state than the
hub sees.

### RequestScheduler

A queue is `active[q]`, the entry whose `execute()` is under way, and `entries[q]` behind it.
`fate[r]` is the answer a request has had, "done" for the handler's result or its error;
`working` are the handlers that were invoked and have not settled, which an expired request does
not stop. `overdue` separates a deadline that has passed from the code that notices: the timer
(`TimesOut`), the skipping of expired heads inside `execute()` (`Skipped`), or the check of a
request that expired on its way (`ExpireAtOnce`). All of `execute()`'s `finally` block, with the
shifts, the answers to the expired heads, `globalPending` and the next start, is the one operator
`Settle`. `closed` are the ids that have a tombstone: one lapses after 24 hours or when 10,000 newer
ones have come (`TombstoneLapses`, at any time), and until then nothing of the session starts.
`WorkerRestarts` empties everything the worker had and answers what the offscreen document
had forwarded (`offscreen-pending.ts`).

### ServedInTurn

What the scheduler promises, with no queue, turn, counter or deadline: on arrival a request sees who is
before it at its place (`ahead[r]`), and it runs at the very step in which the last of those has been
answered, never earlier and never later. Requests leave one or many at a time (`Leave`): alone, with the
expired ones behind them, all of a tab or a session, or everybody when the worker dies; what answer one
may get depends on whether it was started. `RequestScheduler` maps `active`, `entries` and `turn` to
`ahead`, and `ImplementsServedInTurn` is its property. That requests start in order, that no queue
pauses and that a rejection in the middle of a queue disturbs nobody else are what it comes to.

### TemporaryTabs

`TemporaryTabManager` runs one operation at a time: `chain` holds the calls that wait
(`operationChain`), `op` says between which two awaits the one under way is, `stored` and
`cleanupPending` are what `chrome.storage.session` has. An operation is split where Chrome or a
failure can come between two effects (create and record, remove and record); reads of the state
start an operation and are part of its first step, since nobody else writes it. Every await that can
fail has a step in which it does; `CallFails` is the failure of the first, and a retry reads the
state again for each of its sessions (`RetrySessionFails`). Chrome's events are
scheduled as calls at the moment they happen, the removal of a tab that nobody tracks left out. A
`new_tab` request is two steps, since it resolves its URL before it calls `open()`. `link` is the
socket to the hub, which on a reconnect is told the tracked sessions before it authenticates and
answers with those that are over. The order in which a cleanup takes tabs, and a retry its sessions,
is left open. What the code cannot save is recorded in `lost`: a tab whose creation a stopped worker
never recorded, whose rollback failed, or whose new id nobody took over.

## 3. Runs

Every run turns deadlock checking off: the systems modelled may come to rest (no call to make, no
client left), and bounded counters run out. All bounds are constants of the cfg named
`Max...`, or the sizes of the sets.

| Run | What it asks | Bounds | Size |
|---|---|---|---|
| `HubLocks` | agreement of maps, promises and timers, exclusion, the end of a session, the abstract lock service as a property; answers and TTLs with timers fair | 2 sessions, 2 names, 3 calls: a holder, two waiters, two calls of one session, a session that holds one name and waits for the other | 0.2M states, 20 s |
| `HubLocksDeadOwner` | finding 1 | 2 sessions, 3 calls | short |
| `SessionLifecycle` | finalizers against reconnections; clients get back in, sessions end, shutdown ends and leaves nothing | 1 client, 3 ids, 2 sockets, 1 persist, and two of: a lost connection, another one, an orderly restart, a crash of the hub. A session can be lost again while the finalizer of its first loss waits, or while its hub comes back | 0.8M, 140 s |
| `SessionLifecycleHubReturns` | finding 2 | 1 client, 1 restart | short |
| `RequestScheduler` | counting, bounds, overlap, the abstract `ServedInTurn` as a property; every request is answered, none starts late, across a restart of the worker | 3 requests of 2 sessions, 1 tab, tab queue of 1, 2 pending in all, 1 restart: both bounds are met, and one queue holds requests of two sessions | 0.9M, 90 s |
| `TemporaryTabs` | what cleanups may close, tabs that could escape, the completion of cleanups | 2 sessions, 3 tabs, 2 calls besides the ends of the sessions, 1 fault of any kind, and a second one in a retry pass (`SecondFaultHitsTheRetry`): a cleanup of two tabs that fails half way, of two sessions in a row, an open behind a failed cleanup, a retry that fails itself | 1.9M, 140 s |
| `TemporaryTabsFinalized` | finding 3 | 1 session, 2 calls, no fault | short |
| `ToolProxySafety` | one answer to each request, no unreported file, streams in step | 2 fetches of one session that has one place, 2 chunks with a window of 2, 2 sockets, 1 fault: a fetch refused for want of a place, chunks in flight over a dead socket and read behind those of the next, a sender that goes on over the next | 5.0M, 60 s |
| `ToolProxyLiveness` | the abstract `ToolCalls` as a property; every request is answered unless its transfer is refused | two of two fetches and a plain request, one place, 1 chunk, 2 sockets, 1 fault: both the place taken and the refusal for want of it | 0.6M, 50 s |
| `ToolProxyRejected` | finding 4 | 2 fetches, 1 fault | short |
| `ToolProxyUnheard` | finding 5 | 2 fetches and one place, no fault | short |
| `RecordingDelivery` | saved copies agree, held recordings survive, lapsed ones end | 1 recording session here, 1 elsewhere, 1 name, 3 calls of the tools, 1 step, 1 fault of any kind: a name taken over by the other browser or recorded twice, a stop whose answer is lost and that is repeated, a renewal that crosses a new start | 0.2M, 80 s |

Three or four calls, requests or sockets are enough for the interesting cases because the code
treats its lists only at the head, at one entry, or by owner: a head, an entry behind it, one more
of the same owner and one of another. One fault is enough for most of the rest: the code repairs a
failure with steps of its own, and every point at which a fault can strike is tried. What this leaves
out, a second fault during the repair, is covered by the proofs where there are any. Clients of the
hub meet in none of its session maps, so `SessionLifecycle` has one; the proofs are for any number.

**Fairness.** Only what the runtime guarantees is assumed. `HubLocks`: Node runs a due timer
(`WaiterTimeout`, `TtlTimerFires`) and time passes (`TtlLapses`); no session is assumed to release,
end or call. `SessionLifecycle`: both processes run their message handlers and timers, a closed
socket is noticed at the other end (by the close event or the sweep), a persist ends, and a
shutdown that has begun goes on; nothing makes a client leave, a connection break, or a hub stop.
`RequestScheduler`: deadlines pass and their timers fire; no handler is assumed to settle.
`TemporaryTabs`: the chain runs on and the alarm comes round every 30 seconds. Faults are finitely
many (`MaxFaults`): a tab that Chrome refuses to close for ever stays tracked for ever.
`ToolProxy`: the hub finds out whether there is a browser for a request, and its timer fires; nothing
is assumed of the extension, the sockets or the client. `RecordingDelivery`: an operation that holds
the chain gets its answer or its failure and goes on; the periodic alarms come round (strong fairness,
because the chain may be busy whenever they do, and a promise chain is first come, first served); the
hub answers a renewal that reaches it; a page action ends. No tool call is assumed to be made.

## 4. What is proved

The proofs hold for every value of the constants: any number of sessions, calls, names, requests,
tabs, and any bounds, under the named assumptions of the modules (the "none" values are not
members of the sets; the scheduler's requests are finitely many, because their number is counted).

`HubLocksProofs`: the invariant `IInv` is the conjunction of `TypeOK`, `PromisesMatchMaps`,
`TimerInSync`, `NoStrandedWaiters` and `NoWaiterOfEndedSession`. Handing a lock on is the difficult
step: that the call at the head of the list is a waiting one, for that name and no other, is
`PromisesMatchMaps`, and it holds after the step only because the same call was in no other list.
`PassingKeepsAgreement` states this once for any set of names, and release, both timers, listing
and the end of a session use it. `MutualExclusion` follows from the invariant. FIFO
(`GrantsAreInOrder`) needs one more: `Turns`, that no waiting call has a later turn than the last
arrival and that turns differ. Least elements of nonempty sets of turns come from the well-founded
order of the naturals. No run lists `GrantsInOrder`, since `ImplementsLockService` says more.

`RequestSchedulerProofs`: `IInv` adds to the properties the runs check what links the queues to the
requests: every entry has its metadata (`EntriesHaveMeta`), a running request is the active entry of
its queue (`RunningIsActive`), handlers are those of known requests (`HandlersAreKnown`), turns
differ (`TurnsDiffer`), and a request not dispatched yet is not overdue (`IdleIsNotOverdue`). The
central lemma is `SettleStep`: moving a queue on keeps all of it, whoever is skipped.
`PendingIsExact` is a fact about cardinalities: the entries shifted are the requests that leave
"queued". `StartsInOrder` and `NothingStartsLate` are action properties proved from `IInv` and from
`WhoStarts`, which says that a request starts only by its own dispatch or as the successor of an
entry that settles. `RequestsAreServedInTurn` is the refinement, with `IInv` as its invariant: the
entries before a queued one, with the active entry, are whom it waits for (`AheadIsKnown`), and
`SettleRefines` shows that of those left by an answered entry and the expired ones behind it exactly
the successor has nobody left before it. A rejection starts nobody because the active entry, which is
before everybody, stays. `StartsInOrder` is not listed by a run of its own, since the refinement says
more.

`HubLocksRefinement` proves `LocksAreImplemented`, that every step of the hub's lists, maps and timers
is a step of `LockService` or a stutter. Its invariant `RInv` adds to that of `HubLocksProofs` that a
holder came before those who wait (`Ahead`) and that only a lock with a TTL lapses. `PassedLines` is
the heart of it: however many names are handed on, and to whomever, what the lines lose is the old
holders. Seen this way `releaseLocksForSession`, in which a lock may pass to a call that is dropped
in the same step, is one `Depart`.

`SessionLifecycleProofs`: what has to be found is why a finalizer that waits cannot tear down a session
that is back, and cannot leave it bound to a socket. `FinalizersOK` says it: a finalizer of the
generation its session is at is of a session that has no connection, or was asked for over the only
connection the session has, which waits for the answer. `TimersOK` says the same of grace timers,
`BindingsOK` and `MessagesOK` tie the sockets to sessions and to what the clients know. With these the
five properties of the runs are inductive together (`SessionsOK`), across crashes, restarts and
rotated ids, for any number of clients, sockets and lost connections.

`ToolProxyProofs` is about the hub alone: nothing is assumed of the messages under way, so the
extension may send anything. The invariant says for each phase what the client has been told and
whether its transfer is still expected. `GivenUpOnly` makes it inductive: a transfer expected after
its request was answered was given up for one of three reasons, and one that was given up because
its socket closed was sent over a socket the hub has done with (`SocketsAreOrdered`), so that no
chunk the hub still reads can land it. `CallsAreImplemented` is the refinement of `ToolCalls`, step
by step from this invariant: every way to answer requests is one of the ends of `ToolCalls`, the
file that lands is not a doomed one, since its socket is one the hub takes for open and the hub is
not shutting down (`LandRefines`), and a request is dropped unheard only while the files on the way
fill the places of its session (`PlacesAreThose`, `RefuseTransferRefines`). For it `GivenUpOnly`
says what a client was told also of clients that have left meanwhile. Two more theorems stand beside
the runs: `OnlyRefusedAreForgotten` (a request that is over has had an answer, or its client has
left, and a refused transfer, which is the one that has had none, has left nothing behind; with the
timers this is why every other request is answered) and `PlacesAreBounded` (a session's transfers
stay within the cap although the wait for a browser lies between the request and its place).

`ToolProxyStreamProofs` adds the wire and the extension. The window is a matter of numbers: the chunks of
a file under way to the hub, and the acknowledgements under way back. The invariant does not count
them. It says that the numbers of the chunks are those from the hub's cursor to the sender's, in order
(`Streams`), that acknowledgements that say yes are in order and lie between what is acknowledged and
the hub's cursor, and that the three cursors are in that order themselves (`InStep`). Taking the first
message of a queue then takes the lowest number away, which a handful of lemmas about queues states
once. A file that begins is in step because the extension hears of its request once and has sent
nothing before (`BegunOnce`). A second invariant, `EInv`, is about files whose transfer has been given
up as well: what is under way lies between what is written and what is sent, the sender is at most a
window ahead of the acknowledgements, and a response that says yes comes after all of them. What is
still to be read from dead sockets is part of what was under way once (`LateComesFrom`), so it was
sent, and before all that is under way now (`LateSent`, `LateFirst`). From it
follow `WindowBoundsTheWire` and `SuccessIsSettled`, which no run lists (TLC has found no
counterexample in the instances of the runs).

`TemporaryTabsProofs`: the invariant says of each place where the manager keeps a tab (storage, the
operation under way, the calls that wait) whose it is. The delicate place is a waiting `replaceTab`
(`CallOK`): the id it brings belongs to the session of the old one, is tracked nowhere yet and brought
by no other call, and is kept only if the old one is. `CallsStay` shows that no step wrongs a
waiting call, which is where an unknown number of calls is dealt with once. `CleanupTakesOnlyItsOwn`
needs that an entry marked for cleanup has only tabs it had when the cleanup was asked for, which
holds because `open` takes the mark off.

`RecordingDeliveryProofs`: two facts carry it. No step changes a file with a recording in it
(`FilesStay`, stated of its own as `RecordingsOnDiskAreFinal`), since the hub opens files with "wx" and
compares what is there; and a state in memory or storage says that the server has a recording only if
the file is that recording (`Fits`). The second needs that the recording does not change between
the request and the answer: `ChainOK` says that the operation holding the chain finds it in memory,
in the status it left, which every other action respects because it waits for the chain. Each helper of
`RecordingManager` has a lemma that it makes a sound state of a sound one, whatever calls of Chrome
fail.

The second half of that module proves `HeldRecordingsSurvive`. Its invariant `HInv` says that memory
and storage have the same recording unless memory is cleaning up (`Paired`), that memory has nothing
against a recording that holds its name (`HeldOK`), and what a start, an expiry and an end on the chain
know of the recording they were meant for. `Evolves` says what any operation but a start makes of a
state: no recording appears, is taken for another or comes back from a cleanup. The property was
first stated with the session's mark alone for a cleanup that has begun, and the search for the invariant
showed that to be too much: a cleanup that Chrome interrupts may leave the alarm in place of the mark, or the
mark without the alarm, and what is left is removed later. `CleanupBegan` now says so; TLC
agrees with property and invariant for one fault with four calls and for three with three.

Only model-checked: all liveness properties (they need fairness and `ENABLED`, which the prover does
not treat).

## 5. Findings

1. **A lock can outlive its session** (`HubLocksDeadOwner`, `state-manager.ts:1271`).
   `releaseLocksForSession` hands the session's locks on before it drops the session's waiters. A
   session that queued twice for a name somebody else held, and ends while its first call holds it,
   hands the lock to its own second call. Without a TTL nobody can release it any more. The tool
   says "Auto-released when the owning session disconnects" (`tools/locks.ts:15`).
2. **Clients of a restarted hub are refused by the extension** (`SessionLifecycleHubReturns`,
   `ws-server.ts:1822`). An orderly shutdown sends `session_closed` for connected sessions too. The
   next hub registers the same ids again, since it has no tombstones, but the extension refuses them
   for a day.
3. **A finalized session can keep a tab** (`TemporaryTabsFinalized`, `temporary-tabs.ts:153`). A
   `new_tab` that is resolving its URL when `session_closed` arrives calls `open()` behind the
   cleanup, and its entry is not marked for one. The server's README says "Finalized sessions are
   cleaned automatically."; the alarm retries marked entries only, so the tab stays until a reconnect
   reconciles it.
4. **A rejected fetch leaves its transfer behind** (`ToolProxyRejected`, `ws-server.ts:1718`). When
   the proxy's timeout, or the close of either side, answers the request, the transfer it expects is
   not aborted: it keeps one of the session's two places and its part file until the registry's own
   timeout, and may still land (not after the browser has gone, as `ToolCalls` shows). "On
   mismatch/abort/timeout: reject the pending request with a clear error and delete the partial
   file" (`TRANSFER-SPEC.md:46`). What does hold is `NothingLandsUnreported` and
   `HeldAnswersAreReleased`.
5. **A refused transfer is never answered** (`ToolProxyUnheard`, `ws-server.ts:1615`). When the registry
   throws in `expect` (a third file of a session, `TRANSFER_CONCURRENCY_LIMIT`), the hub hands
   `safeSend` a string, which `safeSend` puts into JSON once more. The client parses a string, finds no
   type in it and goes on waiting; the hub has returned without a timer. The call ends with the client's
   "WebSocket response timeout", which the hub means to spare it: its timers fire first "so the hub can
   return a clear proxy error instead of letting the client hit its generic WebSocket response timeout"
   (`ws-server.ts:1714`). `OnlyTheRefusedAreForgotten` (proved) says that this is the only such way.

Remarks without a run. Work for one tab can overlap: the handler of a request that expired while
running goes on beside the next one until it notices its signal; `OnlyAbortedWorkOverlaps` is what
holds. A cleanup that the alarm has put on the recorder's chain does not look at the alarm again
(`background/index.ts:1361`, `recorder.ts:987`): if the session's cleanup is completed by another way
and a new recording starts before the call has its turn, it removes the new one, although a test is
titled "never deletes replacement state" (`recorder.test.ts:607`); `HeldRecordingsSurvive` makes this
exception by name (`CleanupRuns`). A recording that is being stopped when its session ends, and
whose `session_closed` is missed, is not found by the renewal pass and stays in storage until the
browser restarts. A persist that arrives late may use up the reservation of a newer start of the same
name. The comment at `state-manager.ts:1174` says that a session would wait on
itself if it acquired a lock it holds, and the code refuses that; but a session may queue twice for a
name held by another. The last chunk of a file whose hash is wrong, or that cannot be moved to its
place, is acknowledged with yes, since `completeTransfer` settles the failure and does not throw
(`registry.ts:410`, `ws-server.ts:696`): the extension reports a success that the hub drops, and the
client hears of the failure from the settlement. The hub holds a response that says yes "until
reassembly finishes" (`TRANSFER-SPEC.md:46`), but none ever has to be held, since the sender waits for
every acknowledgement first (`SuccessIsSettled`). And tombstones are in memory only, so the promise
that a finalized id stays refused ends with the hub process.

## 6. What is not modelled, and the plan

Of the parts that are modelled:

- `SessionLifecycle`: expiry and eviction of tombstones, a destructive step of a finalizer that throws,
  request ids and timeouts of single RPCs.
- `ToolProxy` and `TransferRegistry`: the settled results kept for late waiters, the names, directories
  and retention of landed files, the upload relay (the same window in the other direction), back-off
  and pings of the socket, the client's timer.
- `RecordingDelivery`: RPCs between an MCP client and a hub in another process that fail, byte limits,
  sanitizing and parameters of steps, replay tokens, listing and deleting, the limit of queued persists
  per session, a restart of the hub, more than one recording session per browser in the instance checked
  (sessions meet only at the hub, where `Elsewhere` stands for them).
- `TemporaryTabs`: a stored state that `readState` cannot parse and discards. The extension writes none:
  it bounds what it adds and takes ids only from Chrome.
- `RequestScheduler`: all that changes state is there; when a tombstone lapses is left open.

Parts not modelled, because each operation is one synchronous step and no protocol spans them: event
handlers and the event queue, browser targeting and tab ownership in the hub, telemetry, notes,
preferences and site knowledge. Not modelled, though state is read before an await and used after it:
the session's last tab and the fallback (`session-state.ts`, `request-context.ts`); what goes wrong
there picks a tab, and no modelled protocol depends on the choice. Left aside for good: page
automation, ARIA snapshots, input synthesis, annotation and popup (they compute from the DOM);
authentication, configuration, schemas and formatting (pure functions); sanitising and analysis of
telemetry; the Jev agent; `docs` and scripts. Of the 140,000 lines of the repository about 103,000 are
the generated bundles under `src/extension/beautified`, which are the output of other source and are
not modelled; the share of the rest that keeps state over several steps is what the modules here are
about.

What would come next, the most useful first:

1. `SessionTabs`: the last tab of a session and the fallback, across awaits, composed with
   `RequestScheduler` (a request that outlives its session).
2. `UploadRelay`: the window of chunks from hub to extension, on the model of `ToolProxy`.
3. `EventQueue`: waiters against the bounded buffer, handlers of ended sessions.
4. The composition of a session's end: the finalizer of `SessionLifecycle` with the locks, the
   recordings and the tabs, each of which has it as one step now.
5. An abstract recording, which is saved once or lapses, refined by `RecordingDelivery`.
