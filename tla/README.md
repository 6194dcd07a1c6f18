# A verification of the Unblocked agent

The repository is an agent that drives Chrome on behalf of a script: it opens browsers, gives
each agent a browser context, follows the pages and frames over the DevTools protocol, types
and clicks like a person, and sends every request of the browser through a
man-in-the-middle (MITM) proxy whose connections look like those of the emulated browser.
This directory holds TLA+ modules of its core logic, the TLC configurations that check them,
and proofs for the TLA+ proof system.

Read `AgentSlots.tla` and `AgentPool.tla` first. The theorems about a module `M` are in `MProofs`:
`AgentPoolProofs`, `SocketPoolProofs`, `MitmConnectProofs`, `DnsLookupProofs`, `DevtoolsRpcProofs`,
`PageAttachmentProofs`, `RequestMatchingProofs` and `FrameNavigationsProofs`. Each stands alone: the three
that speak of ordered sets and queues, JavaScript's `Set` and `Map`, begin with the same few lemmas about sequences
without repetitions.
Paths below are relative to `src/`.

## 1. Inventory

Everything that matters here is Node.js code: one thread, promises, and event emitters. A
function runs without interruption up to its next `await`; between two such segments any other
segment, timer or event handler may run. The hard behaviours are those of the gaps: state read
before an await and used after it, events that arrive in an unexpected order or not at all,
and closes that overtake everything else.

| Component | State it keeps | Operations | Talks to | What makes it correct |
|---|---|---|---|---|
| Pool, Agent, Browser lifecycle (`agent/main/lib/Pool.ts`, `Agent.ts`, `Browser.ts`) | count of active agents, the line of waiting ones, maps of agents, browsers and loads, a serial queue, the shared proxy | createAgent, open, close, getBrowser, launch, crash, Pool.close | Chrome's process, MitmProxy, BrowserContext | never more than the maximum, no idle slot beside a waiting agent, exact loads, every open() and close() ends |
| Socket pool of the MITM agent (`agent/mitm/lib/SocketPool.ts`, `MitmRequestAgent.ts`) | sockets of one origin: all, free, counted; the HTTP/2 session; a serial queue with one wait inside | isHttp2, getSocket, freeSocket, close events, close | connector process, HTTP handlers | at most the configured connections, one request per HTTP/1.1 connection, no lost wake-up |
| DevTools connection (`Connection.ts`, `DevtoolsSession.ts`, `PipeTransport.ts`, `BrowserProcess.ts`) | sessions by id, pending commands by id, the transport | send, message, attach, detach, exit of the process | Chrome | every command is answered once or rejected; a closed session holds none |
| DNS over TLS (`agent/mitm/lib/Dns.ts`, `DnsOverTlsSocket.ts`) | a map of lookups shared by all sessions, a socket per session, queries by id | lookupIp, answers, timeouts, reconnect, close | DNS server, system resolver | lookups settle; a failure does not stay in the cache |
| MITM socket, connector and certificates (`agent/mitm-socket`) | the child process and its connection, sockets by id, pending certificates by id | connect, getCertificate, exit, close | Go process over a local socket, `MitmProxy`, socket pool | every CONNECT ends, sockets end with their process, no default is taken for a protocol |
| Contexts and pages (`BrowserContext.ts`, `Page.ts`) | pages by target, promises of targets being created | newPage, onPageAttached, detached, destroyed, Page.close, close | DevTools connection | calls and pages find each other, a closed context leaves no page, every call settles |
| Frames and navigations (`FrameNavigations.ts`, `FrameNavigationsObserver.ts`, `FramesManager.ts`, `Frame.ts`) | the history of navigations with their statuses, loaders, execution contexts, one wait per status | status changes, redirects, in-page navigations, waits | DevTools events, MITM events | status order, redirects attributed to the right navigation, waits settle |
| Network events and resources (`NetworkManager.ts`, `Resources.ts`) | requests by id and by redirect, resources to be joined | DevTools network events, MITM resource events | pages, proxy | one resource per request whatever order the two sources report in |
| HTTP handlers of the proxy (`agent/mitm/handlers`, `MitmProxy.ts`) | the life of one request, its resource state | request, response, push, upgrade, errors | socket pool, hooks | every request ends once |
| Header and cache handling | ordered headers, a bounded cache | rewrite, revalidate, evict | handlers | pure functions |
| Interactor, keyboard, mouse, DOM storage, workers | positions, pressed keys, storage items | play, move, track | frames | pure functions, one wait for a mouse event |
| Go TLS connector (`agent/mitm-socket/go`) | two copy loops per connection | connect, pipe, close | server, local socket | both ends close |
| Emulators, profiler, user agents, DoubleAgent | data files and the choice among them | offline, or data | | not protocols |

`PROJECT.json` lists all of them with their files and their status, and the hazards of the code
line by line.

## 2. Plan

Order of work, the most important behaviour first:

1. `AgentSlots`, `AgentPool`: the pool. **Done**, with its proofs.
2. `SocketPool`: the connections to one origin. **Done**, its safety with proofs.
3. `DnsLookup` and `DevtoolsRpc`: shared lookups and a socket that reconnects; commands and
   answers over a transport that closes. **Done**, their safety with proofs.
4. `FrameNavigations` with the waits of its observer, the loaders of the main frame and
   `Page.goto`. **Done**, half of its safety with proofs. To do: `FramesManager` with child frames, reload
   and goBack/goForward.
5. `PageAttachment`: newPage against onPageAttached, Page.close and BrowserContext.close.
   **Done**, its safety with proofs.
6. `RequestMatching`: the join of DevTools and MITM events. **Done**, its safety with proofs.
7. `MitmConnect`: a CONNECT with the two connector processes it needs, the socket and the
   certificate. **Done**, its safety with proofs; it composes `MitmProxy`, the lookup of `SocketPool`,
   `MitmSocket` and both `BaseIpcHandler`s.
8. To do: `HttpRequest`, one request through its handlers and hooks, over the contract of
   `SocketPool`; then the cache, as pure definitions.
9. Proofs. Done: every safety invariant of `AgentPool`, `SocketPool`, `MitmConnect`, `DnsLookup`,
   `DevtoolsRpc`, `PageAttachment` and `RequestMatching`, the refinement of `AgentSlots`; of
   `FrameNavigations` the types, the waits for load statuses and the failures of goto. To do: the rest of
   `FrameNavigations`.

Abstract specifications worth stating: the FIFO semaphore of the pool (`AgentSlots`, done); a
bounded set of exclusive connections for `SocketPool` (to do: its two halves, the bound and the
exclusive use, are the theorems LimitIsKept and NoSharedConnection); "each call is answered at most once and
every call ends" for the two modules that match answers to commands.

## 3. The modules and the code

In every module one action is one uninterrupted segment of JavaScript: from a call, an event or
the end of an await to the next await, with everything that segment calls. What the world does
(a crash, a failed connect, a silent server, an owner who closes too early) is an action whose
guard asks whether the run's `Environment` has that happening. So one module serves the runs in which
a property holds and the run in which one more happening breaks it.

### AgentPool and AgentSlots

`phase[a]` is how far `Agent.open` has got: waiting for a slot, in the serial
`browserCreationQueue`, launching, then the awaits on the proxy, the context and the hooks.
`closing[a]` is `isClosing` with the await that `Agent.close` is in, `listening` the agents whose
`close` event still runs `onAgentClosed`, `reaping` the browsers whose `close` event is being
handled. `agentsByBrowserId` and `browserIdByAgentId` are the two load maps of the pool.
`CloseFinish` is the emission of `close` with the pool's whole handler: the count falls, the
head of the line is registered and woken, the load is lowered. `ClosePool` is
`Pool.close` up to `Promise.all`, `PoolClosed` what follows it. `joined` are the agents on whose `open()`
somebody called `open()` again, which returns the same promise (`Agent.ts:108`); `isOpen` says that the agent still
has it. A pool that is closed goes on answering: `createAgent` and `waitForAvailability` do not ask
whether it is, and `Pool.start` reopens it (`pool = "reopened"`; its queue stays stopped). `orphan` is the start of a
proxy that the closed pool has given up. A behaviour has one of the `Environments`.

`AgentSlots` is what the pool promises: a FIFO semaphore with three variables. It is mapped by
`holders <- listening`, `line <- waiting`, `open <- (pool = "open")`. Once the pool is closed an agent may stand in line
although the semaphore has room: the count still has the agents that the closed pool forgot. Agents are incognito and use
the proxy, the defaults.

### SocketPool

One origin's pool. Requests go through `isHttp2`, `getSocket`, the serial queue with the
wait inside it, `createSocket`, and the use and release of the socket. The awaits of hooks are phases of
their own (`assigned`, `registering`): that is where a socket chosen before an await can be closed
before it is used. A go-away of an HTTP/2 server is the close of its session's socket;
`staleSocket` is a free socket that turns out dead when it is used, and the retry that follows.
`ConnectorExits` is the exit of the Go process of the session: it closes every socket the session has listed
(`CloseSockets`), also one that is still connecting. Such a socket (`lost`) has its `connectPromise` resolved, so
`connect` may return quietly and the pool is given a closed socket, or never return if the local connection had not come.
A behaviour has one of the `Origins`: the protocol the server negotiates, what each of the
requests is, and what may go wrong. Nothing of TLS or of the HTTP messages is modelled.

### MitmConnect

`phase[c]` is `onHttpConnect` around its `Promise.all`; `lookup[c]` is `isHttp2` of the pool down to
`MitmSocket.connect`, with the serial queue of the origin; `secureContext[h]` the promise that
`addSecureContext` keeps for a host, `certificate[h]` and `pendingCert[h]` the generator's
`generateCerts` and its `Resolvable` with a timer. `child`, `waitForConnect`, `isExited` and
`isClosing` are the two `BaseIpcHandler`s: the one of the request session ("proxy") connects
sockets, the one of the pool ("certs") makes certificates. Three things make a socket connected, and
`connect` awaits all: the request is written (`request`), the process has dialled the local
server (`socketReady`), the process has said so (`connectPromise`).

`CloseHandler` is `BaseIpcHandler.close` with `onExit` and the handler's `beforeExit`; `OnExit` is the
exit of the child by itself. An exit resolves the promises of the listed sockets and closes them
(`CloseListedSockets`); it cancels the pending certificates. What a Go process does is left to it:
it need not answer, it may die, and it dials the local server before it reports a connection
(`mitm-socket/go/connect.go:98`). A process that cannot be started (`failed`) makes an error event, which is
logged, and no exit; one that was started connects back or exits. A `Resolvable`
that is awaited is its promise.

### DnsLookup

The map of lookups shared by all sessions, one DNS over TLS socket per session, its pending queries, their
timers and the reconnect. The await chains are followed to the microtask: `LookupGoesOn` and
`JobGoesOn` are the continuations of `lookupIp` and of a running job, and `Idle` says that no
continuation is left, so that timers and answers come only between them.

### DevtoolsRpc

Sessions by id, pending commands by id, messages that `setImmediate` has still to deliver, the
pipe and the process. A session ends by `Target.detachedFromTarget`, by the connection's dispose
or by the crash of its target; each of them rejects what pends. The transport may close before the connection
does: by the exit of the process, or by `KillChildProcess` when Chrome has not closed in time, after which `Dispose`
closes the connection. `unheard` are the commands that pended when only the transport closed.

### PageAttachment

One incognito context and its Chrome. `session` holds every session attached to a target of the context with
the page made of it: `phase` is `onPageAttached` with the initialization of the page, `close` is
`Page.close`, `closed` is `isClosed`. `pagesById`, `attachedTargetIds`, `createdTargetIds`,
`creating` (the `creatingTargetPromises`) are the maps and sets of `BrowserContext`; `call` is
`newPage`, `context` its `close`. `commands` and `inbox` are the pipe: Chrome answers commands in
any order, its messages are handled in the order it sent them (`HandleMessage`). Chrome attaches to a
target by itself or when `onTargetCreated` asks for it, so a target may have two sessions. A disposal
that Chrome accepts makes every target of the context close, one after the other, and is answered when
the last is gone: messages of other targets, attachments included, may come in between.
A call may name the page whose popup it wants to be (`TriggerPopupOn`). A page whose target is gone by the end of its
initialization, or whose popup's initialization fails, is rejected.

### RequestMatching

`chrome[r]` is what Chrome has told of a request: Network events, their ExtraInfo, the pauses of Fetch where the
proxy has a password, caches, redirects under the same id. `requestsById`, `publishing`,
`redirectsById` are `NetworkManager`, and `emitted` the events it has given the page. `pending` is
`mitmRequestsPendingBrowserRequest` of `Resources`: each entry has the browser's side, the proxy's side, or
both, and the promise `determineResourceType` awaits. `mitm` is each request in the proxy. Headers
are one value per request, the same for all ("alike") or none ("insecure"); that is what
`findMatchingRequest` compares. The Referer is one for all.

### FrameNavigations

The main frame. `frame` is `FrameNavigations` and `FrameNavigationsObserver` in one record, because
every status change one emits makes the other look at its triggers at once. The methods of both
are functions from a record to a record, and an action applies the composition that its
handler makes of them. `loaders`, `activeLoader` are the `NavigationLoader`s of `Frame`; `goto`
and `wait` the calls of `Page.goto` and of the observer's waits, `marker` the
`DefaultCommandMarker`. `loads`, `doc`, `next`, `docUrl` are Chrome: which document requests it has made,
which one is shown. Chrome reports each document through up to six sources (request, response,
response by the proxy, commit, lifecycle events, paint), and they interleave freely except for
the order Chrome keeps. A request that fails without the proxy having seen it is told by nobody
(`dropped`): the resource is unknown, and its navigation stays open. A goto remembers in `during` the calls that were
under way when it was made. `Adjusts` are the pairs of addresses that differ by one character at the end, which
`hasLocationTrigger` does not take for a change when the move is within the document.

Chrome is taken to behave thus: a request's id is its loader's id; a new request aborts the one that
has not committed; an address that differs from the shown one only in its fragment is a move within the
document, and a load if it is the same address.

## 4. The runs

| Run | Instance | Shows |
|---|---|---|
| `pool` | 2 agents, 1 slot, 1 place per browser, 2 browsers, four environments: every fault, joined calls with a crash or with the pool's close, a restart; an owner closes only what is open and does not open what is closed | all properties of the pool, and that it implements `AgentSlots` |
| `pool_sharing` | 4 agents, 3 slots, 2 places per browser, 2 browsers, failed launches and crashes | a shared browser's load stays exact |
| `sockets` | 4 requests, 1 connection, 5 sockets: two requests and two ALPN lookups over HTTP/1.1 or HTTP/2, or with a websocket over HTTP/2, with client errors, network faults, the exit of the connector and the close of the session | counts, exclusive use, no lost wake-up, no closed session or socket handed out |
| `connects` | 2 CONNECTs to one host with every happening, or to two hosts where the connector dies | CONNECTs end, or wait for what section 8 names, the protocol is the server's, sockets end with their process |
| `pages` | 2 calls of newPage, 3 targets, eight combinations of happenings, the second call a popup of the first page | calls and pages find each other, contexts close empty, every call settles unless Chrome keeps its page |
| `requests` | 2 requests of one url, the first redirected or not, fifteen combinations of happenings | events in order, each response recorded with its own request, the list empties |
| `dns` | 2 lookups of a host, 1 session, 1 retry, all faults except an end of file | lookups settle, failures stay with the lookup that failed |
| `devtools` | 1 target beside the browser session, 3 commands, timeouts, crash, close by Chrome or by a kill | answers, rejections, delivery, the report of the death of Chrome |
| `navigations` | 2 calls of goto, 1 wait, 3 addresses of one origin, 2 loads, 2 moves, six combinations of happenings | waits miss nothing, calls do not hang but in the cases NoGotoIsStuck names, the history ends with what is shown |
| `pool_slot_leak`, `pool_close_leak`, `dns_spin` | as small as the counterexample allows | the findings of section 7 |

Why these bounds are enough. The pool's accounting is symmetric in agents: two agents and one slot give a
holder and a waiter with every pair of their segments interleaved; two browsers give one that dies beside
its replacement. A shared browser needs two agents in it, one who finds it full and one in another,
which is `pool_sharing`. Two requests and two lookups on one connection are the least with which
the wait inside the queue has somebody behind it. Two CONNECTs to a host share its queue, its
remembered protocol and its certificate, two to different hosts share the processes: a third
would add no new pair. Two calls of newPage are what it takes for one to hold up the other's page; a third
target is the popup. Two requests and one redirect give a listed entry and one that may be mistaken for it. Two lookups of one host share an entry and
may each retry; `EntryLimit` 4 is two lookups with one retry each, so the bound never cuts a
behaviour. Three commands let two pend on one session while one pends on another. Two
loads are what a redirect, an abort and a late answer need; `MaxEntries` only limits restores from the
back/forward cache. The named bounds are `BrowserLimit`, `SocketLimit`, `EntryLimit`,
`EventLimit`, `MaxTargets`, `MaxInbox`, `MaxHops`, `MaxLoads`, `MaxInPage` and `MaxEntries`.
`MaxInbox` 1 lets Chrome act while one message is on its way; what it sends in one step is not cut.

`CHECK_DEADLOCK FALSE` is in every configuration: a finite set of calls that have all
settled is where each of these systems stops.

`AgentPool`, `FrameNavigations`, `PageAttachment`, `RequestMatching`, `MitmConnect` and `SocketPool` choose the
happenings of a behaviour in `Init`, from the combinations of their MC module, so that one run covers
instances that would be too large together. A happening that breaks a property is either in the run, and the property names
the states it leads to as its exception (`Stranded`, `LeftUnsettled`, `KeptByChrome`, `AwaitsAborted`, `AwaitsDropped`,
`Overlaps`, `lost`, `unheard`, the entry that was answered late), or it is a finding or a departure of section 8. The exceptions are about a state,
not about a behaviour: whatever else happens in the same behaviour is still checked.

In the combination with `overlap` of `navigations` nobody waits (`waits`): with the wait in it too the run has 2.0 million
states instead of 0.6, and the properties hold as well.

## 5. Fairness

Liveness is checked under weak fairness of what the runtime or the network stack guarantees and of nothing
else.

- `AgentPool`: continuations of awaits (open, close, the queue, the proxy's start), the close of a
  context or of a dying browser, the reaping of a closed browser. An
  opened agent is closed by its owner: otherwise nobody could promise a slot to those who wait.
  Crashes, failures and closes by the pool are not fair.
- `SocketPool`: the queue, resumed continuations, the end of a use, and that a connect succeeds or
  fails, which the timer of `connectPromise` sees to. The exit of the connector resolves that promise, and
  `socketReadyPromise` has no timer: a connect of a `lost` socket is not assumed to return.
- `MitmConnect`: continuations (`GoesOn`) and, between them, what the event loop brings (`Events`):
  timers, the end of a write, the start (or its failure), connection and exit of a process, the `init` message. That
  a connector answers, a server accepts or a CONNECT comes is not assumed.
- `PageAttachment`: the handling of messages, continuations and timers; Chrome answers commands it
  answers at all, and closes a page that is unloading.
- `RequestMatching`: one weak fairness for all of Chrome's events, the proxy and the timers: every
  behaviour is finite, so that is "it goes on until nothing is left". Failures, caches and the close
  are not fair.
- `DnsLookup`: continuations, the end of a connection attempt (its own timer sees to it), the
  timer of a query, the answer or the failure of the system resolver. The DNS server need not answer.
- `DevtoolsRpc`: delivery of data and messages, the exit of a process that was killed, the close of
  its pipe, the kill of a browser that does not close and the dispose after it. Chrome is not fair, it may leave a
  command unanswered; timers are not assumed.

`FrameNavigations` states "does not hang" as invariants over `Quiet`, the states in which Chrome and
the proxy have nothing more to report: whoever still waits there waits for ever.

## 6. Proofs

### The pool

`AgentPoolProofs` proves, from `PoolAssumption` alone and so for any agents, limits, engines
and environment (the impatient owner included):

- `TypeCorrect`: `Spec => []TypeOK`. That `activeAgentsCount` is a natural number is the hard part:
  `onAgentClosed` decrements it without a check.
- `CapacityIsKept`: `Spec => []NoIdleCapacity`. Never more agents than `maxConcurrentAgents`, and
  nobody waits beside a free slot.
- `PoolImplementsSlots`: `Spec => ImplementsAgentSlots`, the refinement of the semaphore.

- `BrowserLoadIsKept`: `Patient => (Spec => []BrowserLoadIsExact)`. While the pool is open a browser
  counts exactly the agents assigned to it, so none is launched beside a free place and none is
  overbooked. `Patient` leaves out the two owners for whom it is false: one closes an agent while its
  `open()` is waiting for a slot or a browser, the other opens a closed agent.

None of the first three is inductive. `IInv` is `TypeOK` with
`LinesOk` (an agent is in the line exactly while its phase says so, and at most once),
`ListenersOk` (who listens has been admitted), `CountOk` (`activeAgentsCount` is the number of
listeners, and after a close of the pool, which forgets its agents, at least that) and `NoIdleCapacity`. `CountOk` gives the lower bound of the count: the one who closes is a
listener, so there was at least one. `LinesOk` gives that the agent taken from
the line is not yet a listener, so that its registration raises the cardinality as it raises the
count. The proof has a lemma for each group of actions, `Inductive` combines them, and the
refinement has one step per action: `Open` maps to `Enter` or `StandInLine`, `CloseFinish`
to `Leave`, `ClosePool` to `SendAway`, `PoolClosed` to `Forget`, all others to stutters.

The load needs another invariant, `LoadIInv`: an agent in an early phase has no browser
(`AssignedOk`); nobody closes an agent that still expects one, and the pool listens to the close of
every agent in service (`ServedOk`), so that the decrement comes exactly once; and the number itself
(`LoadOk`). Most steps are `LoadQuiet`, which is proved to keep it once for all of them.

### The sockets of an origin

`SocketPoolProofs`, from `SocketPoolAssumption` alone (any requests, sockets, limits and origins):

- `CountIsExact`: `pooled` is the number of sockets the pool has been given and has not heard the close of
  (one that is still connecting is not counted), and
  `LimitIsKept`, a consequence no run needed: never more such sockets than `maxConnections`. Both are
  about origins whose sockets all count; a websocket's close breaks them (section 8).
- `NoSharedConnection`: two requests never use one HTTP/1.1 connection, nor does one use a socket that
  is free. `OnlyOpenSockets`: what is handed out is open then, or the exit of the connector had closed it before
  the pool listened to its close.
- `SessionsAreDistinct`: the lists hold nothing twice, so removing the first occurrence on close leaves no reference.

The invariant behind them: `OwnersOk`, a socket that is private to its holder (HTTP/1.1, or an HTTP/2 socket
not yet registered) is neither free nor held by another request, through every await from
its creation to its release; `SessionsOk` says when a session is listed, `HoldersOk` and `ConnectingOk`
what a request that holds or awaits a socket may rely on, `CountOk` that the listed sockets are the
counted ones. `OneRequestPerConnection` alone is not inductive, since it does not speak of the
socket between creation and use.

### CONNECTs and the connector

`MitmConnectProofs`, from `ConnectAssumption`: `ProtocolIsToldNotGuessed` (AlpnIsTheServers),
`ExitReachesSockets` (SocketsEndWithTheirConnector), and what they rest on: `OneLookupAtATime`, the
serial queue of an origin runs one lookup at a time, and the action property `ContextsSettleOnce`,
the promise of a secure context is settled once and keeps its outcome. `IInv` has the order
in which a socket is requested, listed and known to the process (`SocketsOk`), whose word resolved a
connect promise (`PromisesOk`: the process's or its exit's, which is what AlpnIsTheServers needs), the queues (`QueuesOk`) and the
contexts (`ContextsOk`).

### Lookups

`DnsLookupProofs`, from `DnsAssumption`:

- `MapForgetsFailures`: NoRejectedEntryIsKept, whatever happens. An entry
  over TLS whose promise timed out is in the map only until the lookup that made it goes on
  (`TimedOutOk`), and there always is such a lookup (`MakersAwait`). The one entry that stays, and that the property
  excepts, is that of a system lookup whose timer came before its answer (job `late`, section 8).
- `FailuresAreNotPassedOn`: `FailsOnlyWhenOvertaken`, without a hypothesis. A lookup fails only if its session was closed,
  the system resolver failed or did not answer it, or more than `Retries` queries over TLS of its host
  have failed. The last case is real: TLC finds a third lookup failed by the failures of
  two others with one retry. The invariant counts: a lookup that has used k retries has seen
  k different queries of the host fail (`RetriesOk`), and each query was made by another lookup that has done
  with the map (`MakersOk`). In the run, whose two lookups cannot be overtaken, FailsOnlyIfSystemFails has no such case.
- `FailuresAreFinal`: a lookup that has settled stays settled, an action property.

### The events of a request

`RequestMatchingProofs`, from `MatchingAssumption`, has `PageIsToldInOrder`:
`Spec /\ [][NoPauseIsCut]_vars => []EventsInOrder`. `NoPauseIsCut` says that no request ends between a
pause of Fetch and the end of the await in which it is continued. Without it the property is false
(section 8): the continuation lists the request again. The invariant relates, for each request, what
Chrome has told (`ChromeOk`), its entry (`EntryOk`), what was announced of the listed hop (`AnnouncedOk`), the
timer that will announce it (`WillPublish`) and the events so far (`EventsOk`). The last alone is not
inductive: that a response follows its announcement rests on the flag, the flag on the timer.

`TypeCorrect` (`Spec => []TypeOK`) is about `Resources` too. An event is handled in several steps, and
`Outcomes` is what they make of the list, one after the other: a function by recursion on the number
of events. That it exists (`Iterates`) and keeps what each step keeps (`OneByOne`) is proved by induction over
numbers (`AllNumbers`, from the well-foundedness of `<`). `ListIsSound` is its invariant: an open wait has
no browser request, and every request of the proxy that is listed has arrived and has one entry.

`JoinedRight`: `Spec => []JoinedWithItsOwn`, for any number of requests and redirects under `Plain`: nothing fails, is
cached or comes late, no two alike requests overlap, none is redirected to an address it had, none is redirected behind a
password. In those cases the code does join the wrong entry (section 8). The property speaks of
what is recorded; the invariant `Joins` of where each entry is on its way. Every entry is of one request (`IsOf`):
*open*, the proxy has seen its hop and the page was not told of it; *queued*, the reverse; *joined*, both, and the wait
has settled. A running request has the entry that its state asks for (`NoneIsMissing`), the browser's side of it
follows the order in which Chrome tells (`TellsOk`), the proxy's `ProxyOk`. Two requests that run side by side differ
in their headers (`TheyDiffer`), so the entry that suits one of them is its own (`SuitsProxy`, `SuitsUntold`,
`NoneIsOpen`), although entries of the same url stay listed from earlier hops. And no timer of 5 s finds an open
wait (`NoWaitRunsOut`): by then the headers are known, and the page was told (`TimerIsLate`).

### Pages

`PageAttachmentProofs`, from `PageAssumption` (finitely many calls, and room for a target of
each), proves the four invariants of the run:

- `RequestedPageIsNoPopup` (NewPageIsNoPopup: nobody's popup, or that of the page its options name) rests on `CreatorsOk`: as long as `newPage` does not
  know its target, its promise is among those that `onPageAttached` of that target waits for.
- `ClosedContextIsEmpty` (ClosedContextHasNoOpenPage) rests on `PagesOk`: every page that is not
  closed is in the map that the cleanup walks, whatever was attached, detached or opened in between.
- `NoPageIsMissed` (NewPageFailsForAReason). A call's wait can only time out where a page of its
  target was missed. That there is none is `MeetOk`: a target Chrome attached has a page, or a session that
  will become one, and no call waits for the page of a target that has one. It needs that every session not
  handed over has its message under way (`AttachedOk`), and that a call has exactly one command or
  answer under way while it is creating or attaching (`UnderWayOk`).
- `TypeCorrect`, of which the hard part is that the map has one page of a target.

All are conjuncts of `IInv`, or follow from it, and each step is a lemma. Most steps change little: they
are shown to be *marks* (`TargetsMarked`, `SessionsMarked`, `CallsMarked`) and the lemma `Marks` keeps `IInv`
for all of them.

### The DevTools connection

`DevtoolsRpcProofs` proves, from `DevtoolsAssumption` alone, the four invariants of `DevtoolsRpc`:

- `TypeCorrect`, `NobodyWaitsOnTheClosed` and `PromisesStayKnown` from `IInv`, which is their
  conjunction. The second is about both halves of `Connection.isClosed`: nobody waits once `onClosed` has run, and once
  the transport is closed nobody joins those who waited. Each needs the others: a close cancels the commands in `pendingMessages` of the open
  sessions, which are all that wait only because what waits is known to a session, and that
  session is open. `CloseCancels` is the lemma both closes rest on.
- `SessionsAreFound` from `InOrder`: what has been read and what is in the pipe make one queue, in
  which every session's messages run from its attachment to its detachment, beginning where the agent's
  view of the session stands and ending where Chrome's does. Chrome appends to the queue
  (`AppendAttached`, `AppendOther`, `AppendDetached`), `OnMessage` removes its head
  (`RemoveHead`), `OnData` leaves it as it is.

### The navigations of the frame

`FrameNavigationsProofs`, from `NavigationAssumption` alone, so for any addresses, calls, waits and happenings:

- `TypeCorrect`: `Spec => []TypeOK`. No navigation is in the history twice, no number kept by `byLoader`, a
  trigger or a call points past the entries, and goto and the page stay within the bounds.
- `NoLoadIsMissed`: the part of NoEventIsMissed about load statuses. A wait for a status that pends is not
  fulfilled by the navigation on top, unless `"fragment"` and `"restore"` come together. Together they
  do break it: `assignLoaderId` of a goto that was a move leaves the entry without a loader, a restore of the
  same address takes that entry and sets its statuses, and no `status-change` follows.
- `GotoFailsForAReason`, an action property without any hypothesis: the step in which a goto fails comes after a
  request of the page was aborted, or, where addresses have fragments, finds the loader of a move within the document
  abandoned, or the promise of its navigation's resource rejected although no request failed, which is the
  promise that follows itself (section 8). A goto takes no other error for its own. The run checks the simpler
  GotoFailsOnlyIfAborted, in combinations where the last two do not occur.

The methods of the two objects are functions from a record to a record, so most lemmas are about one of them:
it makes a frame `f` into a `g` that `Evolves` (a frame of the right form, no smaller, without a new error)
or `Advances` (and the waits that had seen all of `f` have seen all of `g`, `Seen`). Both compose
(`EvolvesTwice`, `AdvancesTwice`), which is how `OnHttpRequested` is proved from the methods it calls. `Seen` itself
is a property of the method that ends the composition: a `status-change` establishes it whatever came before
(`AllHaveSeen`), and the others leave the statuses of the top alone (`SeenStays`, `SeenSame`).
`OnLifecycleEvent` tells one loader after the other, by a function over their positions: that it exists
(`Iterates`) and advances the frame at each position (`LifecycleAdvances`) is an induction over numbers.

`IInv` adds what goto's failures depend on: that an error of a navigation or of a load's loader is that of
an aborted request and that a call awaits a loader there is (`Sound`, whatever happens), and what only
holds without fragments (`GotosOk`). A promise of a resource then follows that of an earlier
navigation (`FollowsBack`), so `ResourceOutcome`, a recursive function over the history, has no
cycle (`OutcomeIs`, `NoneRejected`). A loader that has not begun belongs to a request that has not committed
(`LoadersOk`), so the loader that a commit abandons with an error is that of an aborted one. And `RoomIsKept`:
the bounds on loads and moves leave room for what `CallsGoto` has asked for until Chrome has taken it.

### How the invariants were found

Each `IInv` was checked by TLC as an invariant of the runs' instances, and of larger simulated ones, before
it was proved. Where a step could not be proved TLC was asked for a state that breaks it, which is how the
hypotheses (`Patient`, `NoPauseIsCut`, `Plain`, `fragment` with `restore`) and the exceptions that the
properties name were found: each is a case in which the plain statement is false of the model and of the code.

### What is only model-checked

- Every liveness property, which needs ENABLED.
- LoadWaitsEnd, NoGotoIsStuck and TopIsShown of `FrameNavigations`. They compare the end of the history with what
  Chrome shows once all is quiet, and hold for the combinations of happenings in MCEnvironments only: section 8 has
  pairs that break them. A proof would follow each event of a load through all six of its sources, for each combination.
- NoEventIsMissed where it is about locations: `hasLocationTrigger` reads the whole history, and some methods change
  what it reads without a `status-change` (`assignLoaderId`; a new entry whose reason is `metaTagRefresh`). That no
  wait notices depends on what follows them in their handlers, and on the combination of happenings.

The reverse: `PendingIsKnown` of `DevtoolsRpc`, `LimitIsKept`, `SessionsAreDistinct`, `OneLookupAtATime`,
`ContextsSettleOnce` and `FailuresAreFinal` are proved and no run lists them as a property.

## 7. Findings

- `pool_slot_leak`: an agent closed while it stands in line keeps its place; the slot it is given
  later is never returned (`agent/main/lib/Pool.ts:282`).
- `pool_close_leak`: `Pool.close` while `getBrowser` waits for the proxy; the browser launched afterwards is
  nobody's (`agent/main/lib/Pool.ts:149`).
- `dns_spin`: the loop that re-runs pending queries adds to the map it iterates
  (`agent/mitm/lib/DnsOverTlsSocket.ts:92`).

## 8. Departures seen while modelling

Reachable in the models by enabling the named happenings, without a run of their own.

Pool and agent:
- `open()` resolves to null when `close()` ran before its catch block (`Agent.ts:150`). A call that joined it
  is then never answered: `close()` has cleared `isOpen`, and the catch settles nothing (`Agent.ts:108`, `:147`).
  OpenSettles names those calls.
- An `open()` that comes after `Pool.close` may stand in a line that nobody serves, and a reopened pool
  opens no agent: its `browserCreationQueue` stays stopped (`Pool.ts:88`). OpenSettles is about the pool before its close.
- The isolated proxy outlives an agent whose session was closed first (`Agent.ts:129`).

Sockets:
- The close of a websocket lowers `pooled`, which its creation never raised
  (`SocketPool.ts:145`): the origin then gets more connections than its maximum. PooledIsExact is
  about origins whose sockets all count.
- A websocket is handed an HTTP/2 socket that an ALPN lookup has freed (`SocketPool.ts:72`).
- The exit of the connector closes a socket that is still connecting and resolves its `connectPromise`, so `connect`
  may return quietly. The pool then counts and keeps a closed socket whose close event it has missed: it takes a place
  until the session closes, and an ALPN lookup frees it for reuse (`SocketPool.ts:79-87`). HandsOutOpenSockets names it (`lost`).
- A request whose client fails is dropped by `onError` with its socket still counted (`HttpRequestHandler.ts:180`).
  SocketRequestsSettle names the origins blocked by either (`Stranded`).
- `createHttp2Session` looks for a session, awaits the hooks and registers without looking again: two
  sessions for an origin (`MitmRequestAgent.ts:328`).

CONNECTs and the connector:
- `connect` awaits `socketReadyPromise`, which nothing settles if the connector exits before it
  dialled the local server: an exit resolves `connectPromise` only. The lookup, and with it the serial queue
  of the origin, waits for ever (`mitm-socket/index.ts:172`). ConnectsEnd exempts it (`LeftUnsettled`).
- A process that cannot be started makes an error event and no exit (`BaseIpcHandler.ts:153`, `:200`). A socket
  gives up by its timer; a certificate has none before the connection, and its CONNECT waits until the generator is
  closed. ConnectsEnd exempts it (`LeftUnsettled`).
- A socket closed by the exit after it was dialled makes `connect` return quietly: the pool
  remembers the default `http/1.1` for the origin. AlpnIsTheServers allows it after an exit only.
- `hasWaitForInitListeners` is set after `waitForInit` has been awaited, so `beforeExit` never
  rejects `waitForInit` (`CertificateGenerator.ts:73`, `:125`): a certificate that awaits the init
  message at an exit waits for ever; its timer of 10 s rejects another promise.
- A failed certificate stays in `secureContexts` as a rejected promise: all later CONNECTs to the host are dropped
  (`MitmProxy.ts:480`).
- A `connect` that times out does not close its socket, which stays listed and may connect later.

Pages:
- A createTarget that fails leaves its promise unresolved (`BrowserContext.ts:131`): the pages of all later
  newPage calls wait, which NewPageFailsForAReason counts as a reason.
- `dialog`: `Page.close` stops its timer at Chrome's answer, which comes before the beforeunload handlers
  end (`Page.ts:542`); if a dialog keeps the page, `close()` waits for ever with or without
  `timeoutMs`, and so does that of the context. CallsSettle names the page (`KeptByChrome`).
- `closeErrors` with `userCloses`: a `Page.close` that failed with a protocol error leaves a page whose
  didClose makes `BrowserContext.close` wait for ever. CallsSettle names that page too.
- A `Page.close` Chrome does not answer makes `BrowserContext.close` wait 30 s, then the command's
  60 s, and throw before it disposes the context or cleans up.
- A target that is detached while `onPageAttached` waits for creations becomes a page whose
  initialization fails, and stays in `pagesById`.

Requests:
- `onNetworkRequestWillBeSent` resets `isPublished` for a redirect but not `isDetailsEmitted`
  (`NetworkManager.ts:356`). Behind a proxy with a password the redirect's entry never gets its headers, does not
  match its proxied request and stays listed; a later request of that url takes its id. JoinedWithItsOwn
  leaves such redirects out (`Plain`).
- `password` with a cancel, an error or a close: `onRequestPaused` awaits the continuation and then lists the request
  again without asking whether it has ended (`NetworkManager.ts:283`); its timer announces it a second
  time. EventsInOrder is proved for requests that do not end in that await.
- A redirect to the same url joins the entry of the hop before, and the new hop waits out its 5 s. Two
  identical requests that overlap may be swapped.
- A proxied request that fails, or a request cancelled before it reaches the proxy, leaves its entry
  listed.

DNS:
- A system lookup that answers after its entry timed out leaves the rejected entry in the
  shared map, and the host cannot be looked up again (`Dns.ts:89`, happening `slowSystem`). NoRejectedEntryIsKept
  excepts that entry.
- `lookupIp` retries when a query it joined fails, at most `retries` times: with more than `Retries` + 1
  lookups of a host, one may fail although the system resolver was never asked.
- When no TLS lookup was tried, `throw lookupError` throws undefined (`Dns.ts:57`).

DevTools:
- If the process exits before its pipe closes, the transport is shut without telling the connection:
  commands that pended wait for their own 60 s timer, `disconnected` is not emitted. The same between the kill of
  a browser that did not close and the dispose. NothingPendsOnClosedSession names those commands (`unheard`).
- `Target.attachedToTarget` delivered after the dispose creates a session in a closed connection.

Navigations:
- `restore`: statuses are set without a `status-change`, so a wait that pends keeps waiting
  (`Frame.ts:619`). NoEventIsMissed and LoadWaitsEnd exempt such a top (`IsRestored`).
- `redirect` with `lateRequest`: no new entry is made for the redirect (`FrameNavigations.ts:245`), and
  the redirected entry gets the response; `recordRedirect` does not record the loader.
- `pageNavigates` with `redirect`: a redirected entry below the top is the one that gets the
  response, since the top has no HttpRequested yet.
- `pageNavigates` with `inPage`: a pushState of the old document between the response and the
  commit of the new one stays on top.
- `fragment` with `restore`: a restore takes the top entry of the same address whose loader is not assigned,
  with its reason (`FrameNavigations.ts:134`); the wait misses the statuses, and IsRestored does not tell.
- `pageNavigates` with `fragment`: a goto of `/page#x` that races with the page's own load of `/page`
  turns into a move; its resource follows itself and is rejected.
- `overlap`: a goto whose load is aborted before its commit waits for a loader nobody
  resolves, until its 30 s timer; a second goto of the same address takes the aborted request's error. An answer of
  the proxy may be given to the other of two calls that overlap. NoGotoIsStuck names both (`AwaitsAborted`, `Overlaps`).
- A request that fails before the proxy has seen it leaves its navigation open: `onBrowserRequestFailed` finds no
  resource and returns nothing (`Resources.ts:454`, `FramesManager.ts:727`). NoGotoIsStuck names it (`AwaitsDropped`).
- `redirect`: a resource-loaded before the proxy's report resolves the navigation with the redirect's
  resource (`FramesManager.ts:692`).
- The 3 s timer resolves with whatever is the top by then, loaded or not
  (`FrameNavigationsObserver.ts:187`); a trigger that timed out stays listed and later waits
  of its kind join it (`:282`).

## 9. Not modelled

- Pool: agents that are not incognito, the reuse of contexts, hooks' own state.
- Sockets: HTTP/2 push, coalescing of origins by resolved address, ORIGIN frames, proxies upstream; several
  origins (they share the session's close and its connector, which is in `MitmConnect`).
- CONNECTs: the wait for the first byte, CONNECTs of plain HTTP, bypassed and intercepted hosts, browsers
  that give a CONNECT up, the tunnel itself; stored certificates; the framing of messages
  (`connect.go` may drop a line cut by its read deadline of 100 ms, which is one way not to answer).
- Pages: the default context, connectToPage, devtools panels, workers, cookies, a page's frames.
  At most one target closes by itself, and the 60 s of `newPage` outlast what is under way.
- Requests: service workers, websockets, downloads, HTTP/2 push, OPTIONS, cookies, `mitmErrorsByUrl`,
  the rewriting of headers (`HeadersHandler.ts:60`), the queue of a frame's events.
- DNS: rotation of the records, framing of the messages (the buffer that survives a reconnect
  included), the 16-bit random ids.
- DevTools: `WebsocketTransport`, the framing of the pipe (`PipeTransport.ts:93` decodes each buffer on its own),
  launching, the loggers.
- Navigations: child frames, reload and history calls, `cancelWaiting` and `reset`,
  execution contexts (the wait for the default one is part of the step that follows it, `Frame.ts:694`: Chrome creates
  it with the document), service workers and the browser cache, Chrome's error page. A refresh by header and a
  reload by the page are a `metaTagRefresh` to `hasLocationTrigger`.
- The components with status `not_modelled` in `PROJECT.json`, each with its reason.
