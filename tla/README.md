# OpcUaWebServer: a verification project

OpcUaWebServer puts OPC UA servers within reach of a browser. It serves files over
HTTP, and it speaks JSON over WebSockets in two ways: the *JSON API* (named values that
are configured in a file) and the *web gateway* (OPC UA services, one session per login).
A demo control panel in JavaScript shows the values of the JSON API in a browser. This
directory holds TLA+ models of the concurrent core of the server and of the control panel,
the TLC configurations that check them and proofs that TLAPS checks. Paths below are
relative to `src/OpcUaWebServer` of the repository; `js/` is
`Web/projects/demo_controlpanel/js/`.

## 1. Inventory

The server runs on one pool of two threads (`Library.cpp:60`), with one strand per server
and one per OPC UA client, of the JSON API or of the gateway. In the browser there is one
thread, and each callback runs to its end or to an exception.

| component | state | operations | talks to |
|---|---|---|---|
| WebSocket server (`WebSocket/WebSocketServer*.cpp`, `WebSocketChannel`, `Socket/`) | channel map, listener flag `active_`, `shutdownFlag_`; per channel `asyncRead_`, `asyncWrite_`, `timeout_`, `shutdown_`, timer, socket, send queue | accept, TLS and HTTP handshake, frames, send, timeouts, close, shutdown | message callback and CHANNELCLOSE to the application; its sends are dispatched to the strand |
| Send queue (`WebSocket/SendQueue.cpp`) | linked list, front, rear, size | enqueue, dequeue, clear, empty | used by a channel |
| WebSocket facade (`WebSocket/WebSocket.cpp`, `WebSocketConfig`) | configuration | startup, shutdown, sendMessage | creates the WebSocket server of the JSON API |
| Gateway (`WebGateway/WebGateway.cpp`, `ClientManager.cpp`, `Client.cpp`) | `clientMap_`, `channelIdSessionIdMap_`, `shutdownCallback_`; per client session state, logout context, services | login, logout, requests, notifications, channel close, shutdown | WebSocket server, OPC UA stack, detached threads |
| Gateway messages (`WebGateway/*Request`, `*Response`, `*Notify`) | none | JSON encode and decode | |
| Message server (`MessageServer/`, `Messages/`) | none | decode and route a message | JSON API client manager |
| OPC UA client manager of the JSON API (`OpcUaClient/OpcUaClientManager.cpp`) | clients by name | read, write, value list and info, monitor start and stop, channel close | OPC UA clients |
| OPC UA client and monitor manager (`OpcUaClient/OpcUaClient.cpp`, `MonitorManager.cpp`) | session, namespace map, poll timer, monitors by channel and variable | as above, on results of the OPC UA stack | message server |
| HTTP server (`WebServer/HttpServer*.cpp`, `WebServer.cpp`) | channel map, listener, flags per channel | accept, header, content, response, timeouts, shutdown | files, IP logger |
| HTTP content, IP logger (`HttpContent.cpp`, `IPLogger.cpp`) | open log file, counters | read a file; log, rotate | |
| Library (`Library/Library.cpp`) | the thread pool | startup and shutdown of all of these in order, each behind a promise | all |
| Browser: WebSocket client (`js/client/asneg-ws-client.js`) | socket, the variables to monitor again | connect, requests, reconnect, restart of monitors | JSON API; two callbacks of the panel |
| Browser: board, tables, tools (`js/panel/facade.js`, `view.js`, `panel.js`) | list of variables with their tools, ids in use, list of tables, the page | value infos, clicks, cards and rows, status of connection and values | WebSocket client, page |
| Browser: configuration, parser, gauges, charts (`js/panel/config.js`, `parser.js`, `gauge.js`, `chart.js`, `toolfactory.js`, `js/utility/`) | four configuration files, one object per tool | load, parse metadata, build a tool, show a value | panel, drawing libraries |

What is hard here, and what makes each part correct:

* **WebSocket server.** Handlers hold raw channel pointers while a read, a write, a timer,
  a peer that hangs up, a posted send and a shutdown compete. No pointer may be used after
  the channel is deleted; a message, once queued, is behind a write; the listener reopens
  exactly when it may; the shutdown callback runs once, and does run.
* **Send queue.** Two end pointers and a counter that must agree.
* **Gateway.** A logout ends later, on another strand, and a further thread erases the
  session; meanwhile the channel may close, the session may be lost and the process may be
  shutting down. A session must not be left behind, nor a client used after it is deleted,
  and a caller must get its answer.
* **JSON API.** A result of the OPC UA stack may come after the session or the channel is
  gone, and the timer walks the monitors on a strand of its own; what a channel was told
  and what is monitored must agree, every request must be answered, every monitored
  variable be updated.
* **HTTP server.** As the WebSocket server, but with timers that run outside the strand.
* **Library.** The order of startup and shutdown; each wait must end.
* **Control panel.** Clicks fall between a request and its answer, the connection goes and
  comes, the server's variables change, and a callback may end in an exception half way:
  the board, the tools, the client's list and the server's monitors must still agree, old
  monitors must be resumed, and what a gauge and an icon show must be what came last.

`PROJECT.json` lists every component and every hazard with its line.

## 2. Modules

| module | models |
|---|---|
| `WebSocketServer` | listener, limit, shutdown and the whole life of channels |
| `MCWebSocketServer` | its small instances (symmetry of channels) |
| `WebSocketServerProofs` | its inductive invariant and theorems; it implements `Listener` |
| `Listener` | abstract: what a server promises about connections and shutdown |
| `HttpServer` | the HTTP server; implements `Listener` |
| `HttpServerProofs` | its invariant, and that it implements `Listener` |
| `Fifo` | abstract: what a send queue promises |
| `SendQueue` | the linked list |
| `SendQueueProofs` | the list is linked, leaks nothing and implements `Fifo` |
| `ClientManager` | the gateway's client manager and its clients |
| `MCClientManager` | its small instances (symmetry of channels and of clients) |
| `ClientManagerProofs` | what its shutdown waits for; what its map, its lists and its clients' strands have in common |
| `OpcUaClient` | a client of the JSON API: session, requests, monitors, polls |
| `MCOpcUaClient` | its small instance |
| `MCOpcUaHandles` | the same, with a history of the variables that were asked for |
| `OpcUaClientProofs` | its monitors and its answers |
| `BrowserClient` | the WebSocket client of the control panel, and the answers it gets |
| `ControlPanel` | composes it with the callbacks of the panel: board, tables, tools |
| `MCControlPanel` | its small instances |
| `ControlPanelProofs` | board, tools, the client's list; what is shown is what is monitored |
| `PanelTools` | pure: from metadata and tool parameters to the parameters of a gauge |
| `PanelDisplay` | start, connection, values and statuses of one variable and its tools |
| `MCPanelDisplay` | its small instance, with a tool of every type |
| `FoldInduction` | a fold over a sequence keeps what its step keeps, for every beginning of it |
| `PanelDisplayProofs` | values, icons, gauges and the start, for any configuration and metadata |

Operators whose comment begins with "Fault:" are not part of a specification. Each is a
plausible slip in one operation (a dropped guard, an off-by-one, a missing reset), kept
beside the operation to show that the property it is paired with in `PROJECT.json` would
notice.

### WebSocketServer

One action is one completion handler. All of them run on one strand, so a handler is a
step, with every function it calls: `closeWebSocketChannel` is `CloseWebSocketChannel`, and
when it deletes a channel, `Becomes` runs `delWebSocketChannel` (`DelWebSocketChannel`:
reopen the listener, or finish the shutdown) in the same step. The functions that handlers
share map a channel record to the record they leave. The record has the source's flags
(`asyncRead`, `asyncWrite`, `shutdown`, `timeout`), what is outstanding on the socket
(`rd`, `wr`), whether the timer is armed and whether the socket is open.

What asio does is modelled from its use. An operation that is outstanding is *live*,
*cancelled* or *dead*. A live one may end well or badly at any time. A cancelled one may
still end well, because its completion may already be queued; this is the race between a
timer and a late answer. One that was started on a closed socket can only fail.
`SlotTimer::stop` (OPC UA stack) is taken to revoke a callback that has fired and is queued
on the strand. That is an assumption: the stack is not in the repository.

Abstractions:

* A request is one of five kinds, as the handlers tell them apart (`RequestKinds`); a frame
  either closes the channel or goes on. `opcode_` is read by the content handler only, so
  it is chosen there.
* A send by the application may come from any thread and is dispatched to the strand
  (`PostSend`, then `SendMessageStrand`). A send from within the message callback runs
  inline; it is the special case in which nothing comes between. The application knows a
  channel from the first message on.
* `disconnect` is called by the message callback only, on the channel of the message.
* A deleted channel keeps only what outlives it: operations that are outstanding, a timer
  and posted sends. Undefined behaviour (the end iterator in `sendMessage`, a channel used
  after its deletion) either ends the process (`crashed`) or has no effect.
* A failed accept does not reopen the listener; that is what the code does. Nor does one
  whose handler throws, because the peer was gone when the handler asked for its address
  (`HandleAcceptThrows`): its channel leaks, and the server takes itself for listening
  (`deaf`). With `AcceptErrors` the run lets both happen; the HTTP server has the same.
* When the last channel closes in a shutdown, the completion callback runs before the
  CHANNELCLOSE message of that channel. The module `ClientManager` depends on it.

### Listener and HttpServer

`Listener` says what both servers promise whatever they do with a connection: how many
clients are served, when a further one may connect, and that the shutdown callback is
called by the step that ends the last of them. It has one variable for the listener where
the code has two (`active_` and the accept that is outstanding). `ServesAsListener` in each
server is its specification under a mapping to `httpChannelMap_` or `webSocketChannelMap_`.

`HttpServer` is built like `WebSocketServer`, with two differences that come from the code.
A connection carries one request, so a channel has at most one operation outstanding and
`closeHttpChannel` never has to wait. And the timeouts of a request are not on the strand
(`HttpServerBase.cpp:59`, `:150`; that of the handshake is): `RequestTimerFires` starts a
handler on another thread, whose three accesses to the channel (`asyncRead_`, `timeout_`,
`cancel`) are the three disjuncts of `HandleReceiveRequestTimeout`. They may come between
any two steps of the strand. Where it matters they may also come in the middle of a strand
handler: the handlers of header and content are split after they have looked at `timeout_`
and stopped the timer (`todo` says what the second part, `ContinueRequest`, will start), and
no other handler runs in between (`StrandIdle`). One callback per channel runs at a time.
A callback that finds its channel deleted is undefined behaviour, as is the second close
after a failed write. What `HttpContent` answers, or 404, is one write.

### SendQueue and Fifo

`heap` maps the addresses that are allocated to elements, `front`, `rear` and `size` are
the members of the class. `Clear` is the loop of `clear`, as a function of the number of
passes. `IsFifo` maps the list to a sequence by walking it from `front`.

### ClientManager

The WebSocket server's strand runs the message handlers, and it is blocked while
`ClientManager::shutdown` runs (`manager` tells where it is: serving, between the look at
the size and the callback, between the callback and the logouts, waiting, returned; or
stuck on a mutex that nobody will unlock). A client's strand is a queue of tasks: calls of
`logout` and reports of its session. Each task is a step. A completed logout starts a
thread that erases the session (`Erase`) and then calls `shutdownCallback_` (`Notify`);
these are two steps, as the mutex is released in between.

Client lifetime is explicit: `Alive` says who holds a shared pointer, and a task that finds
its client deleted is undefined behaviour. The OPC UA session is external: it reports a
first state some time after `asyncConnect` (`StartConnect`), then Established if the connect
succeeds, and one Disconnected at its end (the gateway sets `reconnectTimeout(0)`). Until the
first report the client takes its session for disconnected (`"Initial"`, told apart from
Disconnected in the model only): a logout that runs then is complete at once, and leaves the
session behind that is still to connect (`hasty`). Requests of all services have one action, since
each decodes, sends and answers in the same way. Messages that are answered with an error
at once, and notifications, change no state and are left out.

`handleChannelClose` runs for each channel that closes (`ChannelClosed`), and also when a peer
sends a CHANNELCLOSE_MESSAGE of its own, which leaves the channel open
(`PeerClosesSessions`); `dismissed` remembers the sessions that were logged out in this way.

`ForeignSessions` says whether a peer names the session of another channel. Nothing in the
code stops it. The runs assume that peers do not; with TRUE, `NoOrphans` fails.

### OpcUaClient

Requests come on the strand of the WebSocket server, timer and session on the strand of the
client, so a walk of `polling` is one step to begin (`polling`) and one for each item
(`visitMonitorItem`); starts, stops and closes of channels come in between. Two things are
undefined there, and `crash` may end the process: the map changes under the walk, and
`delMonitorItem(channelId)` steps on from the node it has just erased. When it goes on
instead, `closeChannelMessage` may leave items behind (`torn`). It runs when the channel closes
(`channelCloses`) and when a peer sends a CHANNELCLOSE_MESSAGE, after which its channel is
still open and may start monitors again (`peerDropsMonitors`). The item has the key and the
variable that the code gives it: the client handle and the entry of the first start. `asked`
is what each channel was last told; `MCOpcUaHandles` adds, for the run with a violation,
which variable it asked for. A poll carries the channels that its item had when it
was sent (`channelIdSet_` is copied), and `readResponse1` informs these. The namespace array
is read once for each session; until all the configured namespaces are mapped the client is
not open, and the old map stays after a session is lost, both as in the code.

### BrowserClient and ControlPanel

`BrowserClient` has the client's socket, its list of monitored variables and the JSON API's
side of one channel. The server handles the requests of a channel in order, and nothing else
touches the channel's monitors, so a request is handled as it is sent, and the time of the
round trip is the time the answer waits in `toClient`. The code keeps no queue of requests:
what is sent while the socket is not open is lost.

In `ControlPanel` a callback is an operator from a panel to the panel it leaves. `calls`
collects the requests it makes, which go out in the same step (`Finish`), and `thrown` says
that an exception has ended it; what follows in the code is not done. So `createCard` that
finds no id free, a null tool, and a status change that throws half way through the variables
leave just what the code would leave. An entry of `tools.json` is a table or a card; or
(`Kinds`) a card without a size, whose id is taken and never given back (`lost`), or one
whose gauge cannot be built, whose card is on the board before the exception. The sizes in
the file of the repository are all positive.

The value infos become the new list through `buildVariables`, which drops a variable whose
metadata throws. `ListBuilt` takes any subset of the variables as readable; the client starts
the monitors of the others all the same. `missed` remembers for which variables what is shown
and what is monitored may part: a request was dropped because the socket was not open, a
stop overtook the restart of the old monitors, an answer was lost with the connection, or
the parser dropped a variable that had tools. The page is part of the state (`board`): `view.js` asks
it which table has room and which row belongs to a variable. A null tool breaks its variable
(`Broken`); the properties say what still holds of the others.

### PanelTools and PanelDisplay

`PanelTools` is what happens to metadata: `parser.js` builds it from the value info,
`config.js` chooses between it and the parameters of `tools.json`, `gauge.js` and `chart.js`
turn the result into the parameters and the design of a gauge. A field that is not there is
`Null`, and a parser that throws is `Null` too. Colours, styles and enumerations are
members of small sets, and a name that the code does not know gives `Null`.

`PanelDisplay` is one variable: its configuration files, which arrive in any order or do not,
its connection, its tools, the values and statuses that arrive. An animated gauge has a
position and a target. Both status fields of the code are there: the one that is recorded,
and the one that each card shows, which the connection overwrites. `untold` marks the
update that is recorded and, by an exception, never shown.

## 3. Runs

| run | instance | shows |
|---|---|---|
| `ws_safety` | 3 channels, limit 2, 2 messages each, all requests, TLS | memory safety of channels, flags, queue, limit, listener, shutdown callback; it implements `Listener` |
| `ws_liveness` | 2 channels, no limit, peers that read | shutdown completes; handshakes end |
| `ws_sending` | 1 channel, 4 messages | messages leave in order; a channel that timed out is closed |
| `send_queue` | 4 elements, 2 messages | ends agree, nothing leaks, it is a FIFO |
| `http_server` | 2 channels, limit 2, TLS, failing accepts | flags and memory safety with timers beside the strand, it implements `Listener`, connections and shutdown end |
| `gw_sessions` | 2 channels, 2 sessions | no orphaned session, no use of a deleted client, shutdown waits |
| `gw_logout` | 2 channels, 1 session, 1 open request | requests come before the logout; sessions of a closed channel end; a logout is answered |
| `opcua_client` | 2 channels, 2 handles, 2 variables, 1 poll, 1 read of the namespace array | monitors are what channels were told; requests are answered; what is monitored is updated |
| `opcua_handles` | the same | violation: a handle used twice |
| `panel` | 2 variables, 2 cards, tables of 2 rows, 2 connections | the board, the tools, the client's list and the server's monitors agree; monitors are resumed |
| `panel_reconnect` | the same | violation: no reconnect |
| `panel_display` | 1 variable, up to 3 tools of 21 types, 5 metadata, 2 connections | gauges follow metadata, show the last value and status; one client is created |

**Bounds.** Three channels and a limit of two make the listener close, stay closed with a
peer waiting and reopen. Two messages per channel are one in flight and one queued; the
order of messages is checked with four, so that the queue empties and fills again. Two
HTTP connections race their timers against the strand, close the listener and reopen it. Two
gateway channels are enough for one to close while the other is the last one of a shutdown;
two sessions are enough for two threads to erase sessions at the same time. Clients meet
only in `mutex_`, the map and the shutdown, which is the question of `gw_sessions`; what
becomes of one session, its requests and its logouts is that of `gw_logout`, where the other
channel keeps the server going after the close. A channel and a
session are used once: identities are never reused by the code either (they are counters).
The namespaces of the OPC UA client are two, one of each variable, and only one of the
variables can be encoded; one poll under way (`MaxPolls`) is enough for the walk to fall behind
starts and stops, and one read of the namespace array (`MaxReads`) may outlive the session it
was sent in; the number of sessions has no bound. The 64 card ids of the panel are 2 and
the 4 rows of a table 2: a table and a card, so that ids run out, are given back and are
lost, and a table fills. Two tables at a time are beyond this bound; the theorems hold for
any number of ids.
`MaxTools` and `MaxRequests` keep the user from clicking for ever; the connection is opened
twice. In `panel_display` three tools are the two of the settings and one of the user's, of any
type; the five metadata are complete, partial, empty and two that the parser refuses;
of the two values one lies above the limits of an area, and a gauge may pass one
on its way to the other.
`CHECK_DEADLOCK FALSE` is set where the system may really stop: after a shutdown nothing
is left to do. The send queue never stops.

**Fairness.** A strand runs what is queued on it; operations that are cancelled or dead
complete; timers that are armed fire; the 101 response, the first bytes on a connection,
fits in the socket's buffer. Nothing is assumed of live reads. `PeersRead` adds that a
frame that is written is taken by the peer; without it `TimedOutIsClosed` fails. The HTTP server has the same assumptions, strong where the strand may be
in the middle of another handler, and its peers take a response or hang up. In the gateway, strands and threads run, `shutdown` goes on unless it is
blocked, and the OPC UA stack ends a disconnect that was asked for. Nothing is assumed of
a connect. For the OPC UA client of the JSON API the poll timer repeats, a walk goes on and the
stack ends every transaction, with a result or an error (it has timeouts of its own). In the
browser messages are delivered, a socket that is opening opens and one that is closing
closes, and the configuration timer repeats; that a file loads, that the user clicks and that
the connection breaks is never assumed.

**Violations and other findings** (each in `PROJECT.json` with its lines). Two runs show
one:

* `opcua_handles`: the key of a monitor is the client handle of the request, not its
  variable. A second start under a handle in use joins the variable of the first.
* `panel_reconnect`: TABLE is chosen again for a variable that is in a table already.
  `addVariableToTable` returns null (`view.js:178-180`), the null joins the tools of the
  variable, and the next close of the connection throws in the status callback, before the
  client reconnects. (A table that is full does no harm: `findTable` makes another. When no
  card id is left for it, the null comes from there.)

The others can be reproduced with the modules:

* A message for a channel that has closed dereferences the end iterator
  (`WebSocketServerBase.cpp:97`), just after the code has logged that it ignores it;
  a header that cannot be decoded uses a deleted channel (`NeverCrashes`).
* A channel whose timer fired stays open behind a write that nobody reads
  (`TimedOutIsClosed` with `PeersRead = FALSE` in `WsSending.cfg`); a Content-Length that is
  not a number leaves a connection with neither read nor timer (`HandshakeEnds` with
  `"badLength"` among the `Requests` of `WsLiveness.cfg`).
* A session that was logged out through another channel makes `handleChannelClose` continue
  with `mutex_` locked: the other sessions of the channel are orphaned, and soon a thread
  of the pool is blocked for ever (`NoOrphans` with `ForeignSessions = TRUE` in
  `GwSessions.cfg`).
* An accept handler that throws leaves its server deaf, and a shutdown of it waits for ever
  (`ShutdownCompletes` without `deaf`, of both servers).
* A session that is logged out before its first report is forgotten while it connects, and
  its handler then uses a deleted client (`ClientOutlivesItsTasks` and
  `ClosedChannelsAreLoggedOut` without `hasty`). A peer that sends CHANNELCLOSE_MESSAGE and
  goes on reaches sessions that are being logged out (`RequestsPrecedeLogout` without
  `dismissed`).
* `ClientManager::shutdown` returns while a session that was logged out is being
  disconnected (`ShutdownClosesSessions`); its promise can be satisfied twice (`~crashed`),
  or never (`manager = "sized"` does not lead to `"returned"`).
* The close of a channel walks on from an erased monitor item (`MonitorsAgree` without
  `torn`); a value that cannot be encoded is reported to the first channel only
  (`MonitoredIsUpdated` without `Encodable`); a historical read is never answered;
  updates come with every poll, not when a value changes.
* A variable whose metadata the parser refuses loses its tools, while the client has its
  monitor started again (`ShownIsMonitored` without that part of `missed`); an id is lost to
  every card without a size (`lost`).
* The cards of a variable that is gone stay on the board (`ToolsHaveCards` for all cards); an
  update with a bad status leaves the icons as they were (`IconsTellStatus` without `untold`);
  a value gradient is never shown (`NeverSet`); the panel waits for ever, and silently, for a
  file that does not load.
* `MaxConnections` of the WebSocket server is documented and never read; the HTTP server
  deletes a channel twice when a response cannot be written, takes a proper Content-Length
  for an error when its uninitialised `success` happens to be false, and lets a timeout
  handler use a channel that the strand is deleting.

## 4. Proofs

All theorems are checked by TLAPS from nothing; they assume only the named assumptions on
the constants (`ConfigAssumption` of each module, `GatewayAssumption`, and of the panel that
the defaults are lists of tool types, `SettingsAssumption`, that `Null` is not one of a few
texts it is compared with, `NullAssumption` and `DesignAssumption`, that there are finitely
many variables, `ClientAssumption`, and that a table has room for a row and is neither a
variable nor a null tool, `BoardAssumption`).

`WebSocketServerProofs` proves, for any number of channels, any limit and any number of
messages, all seven safety invariants of `ws_safety` and the action property `SentInOrder`.
None of them is inductive. The inductive invariant `IInv` says per channel (`ChannelInv`):

* `Core`: each flag is set if and only if the operation it stands for is outstanding; the
  handshake, in which the flags say nothing, is over before the application knows the
  channel and can send on it; a channel that is not open has nothing outstanding;
* `Flying`: behind the message in flight, which is the one after the last written, the
  queue holds the numbers that follow;
* `Settled`: with no message in flight, and unless the channel is shutting down, the queue
  is empty and everything that was accepted has been written;

and of the server (`ServerInv`): the listener and the accept that is outstanding, the limit
with `active_`, and that the callback has run at most once and only with nothing left. One
lemma per handler function shows what it does to `ChannelInv`; one per action shows that
it keeps `IInv`; `NextInv` puts them together. `Order` follows from the numbering in
`Flying`. TLC has checked `IInv` as an invariant on the instances of the runs.

It also proves `ImplementsListener`: `Spec => ServesAsListener`. From
`IInv`, startup is a `Listen`, an accept a `Connect`, the step that frees a channel a
`Leave`, the end of the accept a `StopListening`, `shutdown` a `Drain`, and every other step
a stutter, since it leaves the status of every channel alone.

`SendQueueProofs` proves `EndsAgree`, `NothingLeaks` and, as `QueueIsFifo`, the refinement of
`Fifo`. The invariant `IInv` names the chain that the elements form: a sequence of distinct
allocated addresses, each the next of the one before, from front to rear, that leaves out
no element. An operation lengthens the chain at its end or takes its head. What
`Contents` reads by following the links is shown to be the values along the chain
by induction (`CountingUp`, from the least element of the library's `WFMin`): a set of
numbers takes the place of a predicate.

`HttpServerProofs` proves `FlagsTellOutstanding`, `FreedIsQuiet`, `TypeOK` and, as
`ImplementsListener`, the refinement. Its invariant differs from that of the WebSocket
server in what the timeout handlers, which do not run on the strand, may do: a read may be
outstanding with its flag cleared, but then the handler that cleared it is still to cancel,
or `timeout_` is set; and a deleted channel has nothing outstanding but a handler that had
already begun. `OneThing` (a read, a write or the second part of a handler, never two of
them) is what makes `closeHttpChannel` safe with a flag that is wrong.

`ClientManagerProofs` proves `ShutdownWaitsForSessions`, with or without foreign sessions.
The invariant: a promise exists only when the strand that adds sessions is blocked, it is
satisfied only when the map is empty, and from then on the map can only shrink.

`ClientManagerProofs` also proves `TypeOK` without an assumption and, from `~ForeignSessions`,
`NoOrphans`, `ClientOutlivesItsTasks` and `RequestsPrecedeLogout`. The assumption is
needed: with foreign sessions the three do not hold. The invariant `SessionInv` says
of each client (`ClientInv`), until shutdown keeps it alive or has returned, or a logout has
been complete before the first report (`Kept`):

* `Progress`: its session's reports are queued in order, so that a client which has seen the
  end of its session has a session that is down, and no report queued;
* `LogoutOrder`: a session is logged out at most once by the close of its channel and after
  that at most once by a request, and each of these logouts is queued, waits for the session
  to end, or has a thread that is to erase it;
* it is in the map, or a callback that answers a peer keeps it, or it has finished;

and of the manager, until `shutdownCallback_` is set: an entry of a channel's list is in the
map and is not being logged out (`ListInv`); a session in the map is in the list of its
channel, or the logout is under way and the channel is closed or its peer has asked for
that (`MapInv`). From these, `mutex_` is never left locked (`PhaseInv`). A lemma for each kind of task shows what it does to `ClientInv`,
whoever queued it; `Steady` is what the steps of strands and threads have in common for the
lists. Lists and strands are compared by index: `Appended`, `Taken` and `Without` say what
the operations on sequences do to the entries, without induction. TLC has checked
`SessionInv` on the instance of `gw_sessions`.

`OpcUaClientProofs` proves `MonitorsAgree` for any number of channels, handles and variables,
and `NoRequestWaitsInVain`: a request that is not answered has a transaction under way, the
safety half of `RequestsAreAnswered`. The invariant of the first is typing and `Agree`, which
drops `~crashed`, as a process that has ended has no channel with a monitor. A start, a stop and a
close each rewrite some nodes of the map; `NodeRewritten` says when a rewritten node
keeps `Agree`, and `AddedItem` and `DeletedItem` what the two operations do to it.

`PanelDisplayProofs` proves the three invariants of `panel_display` and, as
`ClientIsCreatedOnce`, the safety part of `StartsOnce`. The invariant `DisplayInv` says of a
variable (`VariableGood`) that the parser accepted its metadata and that each of its tools
follows the values (`FollowsValues`: where it goes is the last good value, unless it passed
that) and is made of what the server tells (`MadeOf`); that there is a variable whenever the
dialog is open, the variable is monitored or an answer is awaited; and that its monitoring is
started only after the value infos of the connection, so that what the status of the
connection wrote on the icons is overwritten before they count. `WidgetFollowsMetadata` then
is a fact about the tables of `PanelTools`, a lemma for each kind of parameter. The folds
(the tools shown at first, the sections of the metadata) are dealt with by `FoldInduction`, a
module whose constants are the step of a fold and what it keeps: the provers cannot
instantiate a theorem for an operator, but an instance of a module can be.

`ControlPanelProofs` proves the type invariant and the four invariants of `panel`, for any
variables and settings and any number of ids, rows, tools and waiting answers. The removal of
an entry (`Keep`) is a fold, so `FoldInduction` gives what it keeps and in which order; the
defaults, which may be cut short by an exception in the middle of a list, are another. Three
invariants are needed:

* `ClientInv`, of the client and its channel. The variables of the list are not the monitors
  while answers are on their way, so `Agree` says variable by variable what the last answer
  of each kind in `toClient` will make of it, and how often it can still be recorded; at most
  one message of the handshake waits (`HandshakeGood`); and from the value info on each entry
  of the list is monitored or a stop of it is on its way (`AllSettled`). A callback sends several
  requests at once: `AnswerKeeps` is one of them, and `CallsKeep` is the induction over
  them.
* `PanelInv`, of the board: the ids of the cards are distinct and are, with the lost ones, the
  ones in use, the list of tables has the tables, rows are between one and `MaxRows`
  (`BoardGood`), and a tool of a variable that is not broken has its card (`ToolsGood`). Within a callback both have an exception,
  the table that is being filled or emptied (`E`) and the tool whose card is already gone;
  the lemmas of each helper say when the exception ends, also when the helper throws.
* `ShownInv`, of both: until the value info has been received a variable is shown if the
  client has it in its list or will have it (`Coming`), and no stop is on its way but for a
  variable in `missed`; from then on, if the server monitors it. `Settling` is what a click
  may do: with the tools of one variable a request goes out just when it is shown for the
  first time, or not any more.

TLC has checked the three on the instance of `panel`.

Only model-checked: liveness, as the prover has no fairness. These are `ShutdownCompletes`,
`HandshakeEnds` and `TimedOutIsClosed` of the WebSocket server, `ChannelEnds` and
`ShutdownCompletes` of the HTTP server, `ClosedChannelsAreLoggedOut` and `LogoutIsAnswered` of
the gateway, `RequestsAreAnswered` and `MonitoredIsUpdated` of the OPC UA client, and
`OldMonitorsResume` and `StartsOnce` of the panel. The safety half of `RequestsAreAnswered` and
of `StartsOnce` is proved. Every other property of a run that passes is a theorem.

## 5. Not modelled

* Formatting and parsing of HTTP headers, JSON records and configuration files of the
  server; TLS; files; log rotation and the IP logger; the content of HTTP responses.
* The OPC UA stack: its sessions, transactions and timers appear only by their contract.
* The subscription mode of the JSON API's OPC UA client (it cannot be reached), its empty
  historical read, and more than one OPC UA client.
* `Library`: straight-line calls, each behind a promise; the shutdown that each call waits
  for is in the module of the component.
* Of the control panel: array variables, the write box of a table row, read and
  historical read requests, time stamps, the labels of a chart, the limits a gauge cuts its
  values to, the look of the dialog. `PanelDisplay` takes the closing handshake as part
  of the close; `ControlPanel` has it as a state.
* Data races on plain members (`shutdownCallback_`, `sessionState_` read off the strand) are
  listed as hazards where they bite; the models take each access as atomic, but for
  `monitorItemMap_`, whose race is the step `crash`.
