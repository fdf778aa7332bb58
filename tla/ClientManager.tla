---------------------------- MODULE ClientManager ----------------------------
(***************************************************************************)
(* The web gateway's client manager and the OPC UA client sessions it      *)
(* keeps for its WebSocket channels (ClientManager.cpp, Client.cpp).       *)
(*                                                                         *)
(* Three kinds of thread touch them.  The strand of the WebSocket server   *)
(* runs the message handlers, and blocks in ClientManager::shutdown.  The  *)
(* strand of each client runs its logouts and the state changes of its     *)
(* session, in the order in which they were queued.  A thread of its own   *)
(* erases a session that has been logged out.                              *)
(*                                                                         *)
(* mutex_ is taken and given back within one step, with one exception: see *)
(* leaked.  The OPC UA session is external: some time after asyncConnect   *)
(* it reports that it connects, then Established if the connect succeeds,  *)
(* and it ends with one Disconnected (reconnectTimeout(0)).  Until the     *)
(* client has seen the first report it takes its session for disconnected, *)
(* and a logout then leaves a session behind that goes on: see hasty.      *)
(***************************************************************************)
EXTENDS Integers, Sequences, FiniteSets

CONSTANTS
  Channels,        \* WebSocket channels
  Clients,         \* the clients that can ever be created: one per login
  ForeignSessions, \* whether peers name the sessions of other channels
  MaxPending,      \* bound: requests of one client without an answer
  None

ASSUME GatewayAssumption ==
  /\ IsFiniteSet(Channels) /\ IsFiniteSet(Clients)
  /\ ForeignSessions \in BOOLEAN
  /\ MaxPending \in Nat
  /\ None \notin Channels
  /\ "remove" \notin Channels \cup {None}

VARIABLES
  chan,             \* the channels, as far as the gateway is concerned
  sessions,         \* channelIdSessionIdMap_, a multimap in insertion order
  clientMap,        \* clientMap_
  client,           \* the clients, by session id
  erasing,          \* threads that are to erase a session
  notifying,        \* threads that have erased it and call shutdownCallback_
  manager,          \* where the strand of the WebSocket server is
  leaked,           \* mutex_ has been left locked for good
  shutdownCallback, \* shutdownCallback_ is set
  promise,          \* the promise that ClientManager::shutdown waits for
  held,             \* clientVec, the clients that shutdown keeps alive
  stopping,         \* the WebSocket server is shutting down
  dismissed,        \* history: sessions logged out by a peer's channel close
  crashed           \* undefined behaviour has ended the process

ending == <<erasing, notifying, shutdownCallback, promise, held, stopping>>
vars == <<chan, sessions, clientMap, client, manager, leaked, ending, dismissed,
          crashed>>

\* What is done when a logout completes: a thread erases the session, or the
\* channel that asked for the logout is answered.
Callback == {"remove"} \cup Channels

\* The strand of a client runs reports of its session and calls of logout.
Report == {"Connecting", "Established", "Disconnected"}
Task == ({"report"} \X Report) \cup ({"logout"} \X Callback)

(***************************************************************************)
(* A client.  sessionState is Disconnected from the start, which is told   *)
(* apart here as "Initial".  owner (the channel that logged it in), hasty  *)
(* (a logout was complete before the first report) and asked (a logout     *)
(* request waits for its answer) are history.                              *)
(***************************************************************************)
Client ==
  [owner : Channels \cup {None}, sessionState : Report \cup {"Initial"},
   link : {"down", "requested", "connecting", "up", "disconnecting"},
   sessionService : BOOLEAN, logoutContext : Callback \cup {None},
   strand : Seq(Task), pending : 0 .. MaxPending,
   hasty : BOOLEAN, asked : BOOLEAN]

NewClient ==
  [owner |-> None, sessionState |-> "Initial", link |-> "down",
   sessionService |-> FALSE, logoutContext |-> None, strand |-> <<>>,
   pending |-> 0, hasty |-> FALSE, asked |-> FALSE]

TypeOK ==
  /\ chan \in [Channels -> {"none", "open", "closing", "closed"}]
  /\ sessions \in [Channels -> Seq(Clients)]
  /\ clientMap \subseteq Clients /\ held \subseteq Clients
  /\ client \in [Clients -> Client]
  /\ erasing \in [Clients -> Nat] /\ notifying \in [Clients -> Nat]
  /\ manager \in {"serving", "stuck", "sized", "armed", "waiting", "returned"}
  /\ leaked \in BOOLEAN /\ shutdownCallback \in BOOLEAN
  /\ promise \in {"none", "unset", "set"}
  /\ stopping \in BOOLEAN /\ crashed \in BOOLEAN /\ dismissed \subseteq Clients

Init ==
  /\ chan = [c \in Channels |-> "none"]
  /\ sessions = [c \in Channels |-> <<>>]
  /\ clientMap = {} /\ held = {}
  /\ client = [s \in Clients |-> NewClient]
  /\ erasing = [s \in Clients |-> 0] /\ notifying = [s \in Clients |-> 0]
  /\ manager = "serving" /\ leaked = FALSE
  /\ shutdownCallback = FALSE /\ promise = "none"
  /\ stopping = FALSE /\ crashed = FALSE /\ dismissed = {}

Defined == ~crashed /\ crashed' = FALSE
Undefined == ~crashed /\ crashed' \in BOOLEAN
Crashes == ~crashed /\ crashed' = TRUE

OpenChannels == {c \in Channels : chan[c] = "open"}
Post(cl, task) == [cl EXCEPT !.strand = Append(@, task)]

\* The handlers of messages run while the WebSocket server's strand is free.
Serving(c) == manager = "serving" /\ chan[c] = "open"

\* The session id that a message names.
Names(c, s) ==
  client[s].owner # None /\ (ForeignSessions \/ client[s].owner = c)

\* Somebody still holds a shared pointer to the client: the map, shutdown, or a
\* callback of handleLogout, which is kept by the client itself.
Alive(s) ==
  \/ s \in clientMap \cup held
  \/ client[s].logoutContext \in Channels
  \/ \E i \in DOMAIN client[s].strand :
       client[s].strand[i] \in {"logout"} \X Channels

\* A channel's list without the entry of a session; no session has two.
Without(list, s) ==
  LET at == CHOOSE i \in DOMAIN list : list[i] = s
  IN  IF \E i \in DOMAIN list : list[i] = s
      THEN [i \in 1 .. Len(list) - 1 |-> list[IF i < at THEN i ELSE i + 1]]
      ELSE list

-----------------------------------------------------------------------------
(* The message handlers of the client manager.                             *)

Connect(c) ==
  /\ manager = "serving" /\ ~stopping /\ chan[c] = "none"
  /\ chan' = [chan EXCEPT ![c] = "open"]
  /\ UNCHANGED <<sessions, clientMap, client, manager, leaked, ending, dismissed>>
  /\ Defined

\* handleLogin and Client::login, which takes no lock.  A login that is refused
\* leaves nothing behind.
HandleLogin(c, s) ==
  /\ Serving(c) /\ client[s].owner = None
  /\ client' = [client EXCEPT ![s].owner = c, ![s].sessionService = TRUE,
                              ![s].link = "requested"]
  /\ IF leaked
     THEN manager' = "stuck" /\ UNCHANGED <<sessions, clientMap>>
     ELSE /\ clientMap' = clientMap \cup {s}
          /\ sessions' = [sessions EXCEPT ![c] = Append(@, s)]
          /\ UNCHANGED manager
  /\ UNCHANGED <<chan, leaked, ending, dismissed>> /\ Defined

\* Fault: the session stays in the map until its logout is complete.
HandleLogoutKeepsSession(c, s) ==
  /\ Serving(c) /\ Names(c, s) /\ ~leaked /\ s \in clientMap
  /\ client' = [client EXCEPT ![s] =
                  Post([@ EXCEPT !.asked = TRUE], <<"logout", c>>)]
  /\ UNCHANGED <<chan, sessions, clientMap, manager, leaked, ending, dismissed>>
  /\ Defined

\* A session that is not in the map is answered with BadNotFound.
HandleLogout(c, s) ==
  /\ Serving(c) /\ Names(c, s)
  /\ \/ /\ leaked /\ manager' = "stuck"
        /\ UNCHANGED <<sessions, clientMap, client>>
     \/ /\ ~leaked /\ s \in clientMap
        /\ sessions' = [sessions EXCEPT ![c] = Without(@, s)]
        /\ clientMap' = clientMap \ {s}
        /\ client' = [client EXCEPT ![s] =
                        Post([@ EXCEPT !.asked = TRUE], <<"logout", c>>)]
        /\ UNCHANGED manager
  /\ UNCHANGED <<chan, leaked, ending, dismissed>> /\ Defined

LogoutUnderWay(s) ==
  \/ client[s].logoutContext # None
  \/ erasing[s] > 0
  \/ \E i \in DOMAIN client[s].strand : client[s].strand[i][1] = "logout"

\* handleRequest: the request is sent to the OPC UA server; or it is refused at
\* once, which changes nothing here.  It runs outside the strand that deletes
\* the services in a logout.
HandleRequest(c, s) ==
  /\ Serving(c) /\ Names(c, s)
  /\ \/ /\ leaked /\ manager' = "stuck"
        /\ UNCHANGED client /\ Defined
     \/ /\ ~leaked /\ s \in clientMap /\ client[s].pending < MaxPending
        /\ client' = [client EXCEPT ![s].pending = @ + 1]
        /\ UNCHANGED manager
        /\ IF LogoutUnderWay(s) \/ ~client[s].sessionService THEN Undefined
                                                              ELSE Defined
  /\ UNCHANGED <<chan, sessions, clientMap, leaked, ending, dismissed>>

\* Fault: one transaction is answered twice.
HandleResultTwice(s) ==
  /\ client[s].pending > 0
  /\ client' = [client EXCEPT ![s].pending = @ - 2]
  /\ UNCHANGED <<chan, sessions, clientMap, manager, leaked, ending, dismissed>>
  /\ Defined

\* The result handler of a transaction answers the request.
HandleResult(s) ==
  /\ client[s].pending > 0
  /\ client' = [client EXCEPT ![s].pending = @ - 1]
  /\ UNCHANGED <<chan, sessions, clientMap, manager, leaked, ending, dismissed>>
  /\ Defined

\* Fault: only the first session of the channel is logged out.
CloseFirstSession(c) ==
  /\ sessions' = [sessions EXCEPT ![c] = <<>>]
  /\ client' = [s \in Clients |-> IF sessions[c] # <<>> /\ s = Head(sessions[c])
                                  THEN Post(client[s], <<"logout", "remove">>)
                                  ELSE client[s]]
  /\ UNCHANGED <<manager, leaked>>

\* handleChannelClose: at a session that is not in the map the loop goes on with
\* mutex_ locked, and blocks when it or a later handler locks it again.
HandleChannelClose(c) ==
  LET list == sessions[c]
      missing == {i \in DOMAIN list : list[i] \notin clientMap}
      \* the sessions that are reached before the thread blocks
      reached == {list[i] : i \in {j \in DOMAIN list :
                                     ~leaked /\ \A k \in missing : j < k}}
      loopEnds == list = <<>> \/ (~leaked /\ missing \subseteq {Len(list)})
  IN  /\ client' = [s \in Clients |-> IF s \in reached
                                      THEN Post(client[s], <<"logout", "remove">>)
                                      ELSE client[s]]
      /\ leaked' = (leaked \/ missing # {})
      /\ sessions' = IF loopEnds THEN [sessions EXCEPT ![c] = <<>>] ELSE sessions
      /\ manager' = IF loopEnds THEN manager ELSE "stuck"

\* receiveMessage calls it for a message of the type CHANNELCLOSE_MESSAGE, which
\* a peer may send as well: its channel stays open.
PeerClosesSessions(c) ==
  /\ Serving(c)
  /\ HandleChannelClose(c)
  /\ dismissed' = dismissed \cup {sessions[c][i] : i \in DOMAIN sessions[c]}
  /\ UNCHANGED <<chan, clientMap, ending>> /\ Defined

-----------------------------------------------------------------------------
(* The shutdown, on the strand of the WebSocket server, which first closes *)
(* its channels.  When the last one is closed it calls                     *)
(* ClientManager::shutdown, and only then reports that channel's close.    *)

BeginShutdown == manager' = IF clientMap = {} THEN "returned" ELSE "sized"

Stop ==
  /\ manager = "serving" /\ ~stopping
  /\ stopping' = TRUE
  /\ IF OpenChannels = {} THEN BeginShutdown ELSE UNCHANGED manager
  /\ UNCHANGED <<chan, sessions, clientMap, client, leaked, erasing, notifying,
                 shutdownCallback, promise, held, dismissed>>
  /\ Defined

ChannelClosed(c) ==
  /\ Serving(c)
  /\ \/ /\ stopping /\ OpenChannels = {c}
        /\ chan' = [chan EXCEPT ![c] = "closing"]
        /\ BeginShutdown
        /\ UNCHANGED <<sessions, client, leaked>>
     \/ /\ ~(stopping /\ OpenChannels = {c})
        /\ chan' = [chan EXCEPT ![c] = "closed"]
        /\ HandleChannelClose(c)
  /\ UNCHANGED <<clientMap, ending, dismissed>> /\ Defined

\* receiveMessage ignores the report of the last channel once shutdownCallback_
\* is set.
LastChannelClosed(c) ==
  /\ manager = "returned" /\ chan[c] = "closing"
  /\ chan' = [chan EXCEPT ![c] = "closed"]
  /\ IF shutdownCallback THEN UNCHANGED <<sessions, client, manager, leaked>>
                         ELSE HandleChannelClose(c)
  /\ UNCHANGED <<clientMap, ending, dismissed>> /\ Defined

SetShutdownCallback ==
  /\ manager = "sized" /\ manager' = "armed"
  /\ shutdownCallback' = TRUE /\ promise' = "unset"
  /\ UNCHANGED <<chan, sessions, clientMap, client, leaked, erasing, notifying,
                 held, stopping, dismissed>>
  /\ Defined

\* Fault: the clients are not kept alive while their logouts are queued.
LogoutAllUnheld ==
  /\ manager = "armed" /\ ~leaked /\ manager' = "waiting"
  /\ client' = [s \in Clients |-> IF s \in clientMap
                                  THEN Post(client[s], <<"logout", "remove">>)
                                  ELSE client[s]]
  /\ UNCHANGED <<chan, sessions, clientMap, leaked, ending, dismissed>> /\ Defined

LogoutAll ==
  /\ manager = "armed" /\ ~leaked /\ manager' = "waiting"
  /\ held' = clientMap
  /\ client' = [s \in Clients |-> IF s \in clientMap
                                  THEN Post(client[s], <<"logout", "remove">>)
                                  ELSE client[s]]
  /\ UNCHANGED <<chan, sessions, clientMap, leaked, erasing, notifying,
                 shutdownCallback, promise, stopping, dismissed>>
  /\ Defined

ShutdownReturns ==
  /\ manager = "waiting" /\ promise = "set"
  /\ manager' = "returned" /\ held' = {}
  /\ UNCHANGED <<chan, sessions, clientMap, client, leaked, erasing, notifying,
                 shutdownCallback, promise, stopping, dismissed>>
  /\ Defined

\* Fault: the first session that is logged out ends the wait.
CallShutdownCallbackEarly ==
  IF shutdownCallback THEN promise' = "set" /\ Defined
                      ELSE UNCHANGED promise /\ Defined

\* shutdownCallback_: a second set_value throws, or finds the promise gone
CallShutdownCallback ==
  \/ /\ shutdownCallback /\ clientMap = {}
     /\ promise' = "set"
     /\ IF promise = "set" THEN Undefined ELSE Defined
  \/ ~(shutdownCallback /\ clientMap = {}) /\ UNCHANGED promise /\ Defined

-----------------------------------------------------------------------------
(* The strand of a client.                                                 *)

\* logoutComplete of client s, which it leaves as cl
LogoutComplete(s, cl, callback) ==
  LET gone == [cl EXCEPT !.sessionService = FALSE, !.logoutContext = None]
  IN  \/ /\ callback \in Channels
         /\ client' = [client EXCEPT ![s] = [gone EXCEPT !.asked = FALSE]]
         /\ CallShutdownCallback /\ UNCHANGED erasing
      \/ /\ callback = "remove" /\ ~leaked /\ s \in clientMap
         /\ client' = [client EXCEPT ![s] = gone]
         /\ erasing' = [erasing EXCEPT ![s] = @ + 1]
         /\ UNCHANGED promise /\ Defined
      \/ /\ callback = "remove" /\ ~leaked /\ s \notin clientMap
         /\ client' = [client EXCEPT ![s] = gone]
         /\ CallShutdownCallback /\ UNCHANGED erasing

\* Fault: the end of the session does not complete the logout.
HandleReportOnly(s, cl, report) ==
  /\ client' = [client EXCEPT ![s] = [cl EXCEPT !.sessionState = report]]
  /\ UNCHANGED <<erasing, promise>> /\ Defined

\* sessionServiceChangeHandler_; without a logout a notification goes out
HandleReport(s, cl, report) ==
  LET now == [cl EXCEPT !.sessionState = report]
  IN  IF report = "Disconnected" /\ cl.logoutContext # None
      THEN LogoutComplete(s, now, cl.logoutContext)
      ELSE /\ client' = [client EXCEPT ![s] = now]
           /\ UNCHANGED <<erasing, promise>> /\ Defined

\* Fault: the session is not asked to disconnect.
LogoutWithoutDisconnect(s, cl, callback) ==
  IF cl.sessionState \notin {"Initial", "Disconnected"}
  THEN /\ client' = [client EXCEPT ![s] = [cl EXCEPT !.logoutContext = callback]]
       /\ UNCHANGED <<erasing, promise>> /\ Defined
  ELSE LogoutComplete(s, cl, callback)

\* The client with its session asked to disconnect, which does nothing to a
\* session that is down.
Disconnecting(cl, callback) ==
  [cl EXCEPT !.logoutContext = callback,
             !.link = IF @ = "down" \/ ~cl.sessionService THEN @
                                                           ELSE "disconnecting"]

\* logout on the strand.  Before the first report the session is not asked to
\* disconnect.  When a report has come in after that, another logout calls
\* asyncDisconnect through sessionService_, which is null by then.
Logout(s, cl, callback) ==
  IF cl.sessionState \notin {"Initial", "Disconnected"}
  THEN /\ client' = [client EXCEPT ![s] = Disconnecting(cl, callback)]
       /\ UNCHANGED <<erasing, promise>>
       /\ IF cl.sessionService THEN Defined ELSE Crashes
  ELSE LogoutComplete(s,
         [cl EXCEPT !.hasty = @ \/ cl.sessionState = "Initial"], callback)

\* A task refers to the client by a plain pointer.
RunStrand(s) ==
  /\ client[s].strand # <<>>
  /\ LET task == Head(client[s].strand)
         cl == [client[s] EXCEPT !.strand = Tail(@)]
     IN  \/ /\ Alive(s) /\ task[1] = "report"
            /\ HandleReport(s, cl, task[2])
         \/ /\ Alive(s) /\ task[1] = "logout"
            /\ Logout(s, cl, task[2])
         \/ /\ ~Alive(s)
            /\ client' = [client EXCEPT ![s] = cl]
            /\ UNCHANGED <<erasing, promise>> /\ Undefined
  /\ UNCHANGED <<chan, sessions, clientMap, manager, leaked, notifying,
                 shutdownCallback, held, stopping, dismissed>>

-----------------------------------------------------------------------------
(* The threads that erase sessions, and the OPC UA session.                *)

Erase(s) ==
  /\ erasing[s] > 0 /\ ~leaked
  /\ clientMap' = clientMap \ {s}
  /\ erasing' = [erasing EXCEPT ![s] = @ - 1]
  /\ notifying' = [notifying EXCEPT ![s] = @ + 1]
  /\ UNCHANGED <<chan, sessions, client, manager, leaked, shutdownCallback,
                 promise, held, stopping, dismissed>>
  /\ Defined

Notify(s) ==
  /\ notifying[s] > 0
  /\ notifying' = [notifying EXCEPT ![s] = @ - 1]
  /\ CallShutdownCallback
  /\ UNCHANGED <<chan, sessions, clientMap, client, manager, leaked, erasing,
                 shutdownCallback, held, stopping, dismissed>>

SessionReports(s, from, to, report) ==
  /\ client[s].link \in from
  /\ client' = [client EXCEPT ![s] =
                  Post([@ EXCEPT !.link = to], <<"report", report>>)]
  /\ UNCHANGED <<chan, sessions, clientMap, manager, leaked, ending, dismissed>>
  /\ Defined

\* asyncConnect only asks for the connection: the first report comes later.
StartConnect(s) == SessionReports(s, {"requested"}, "connecting", "Connecting")
Establish(s) == SessionReports(s, {"connecting"}, "up", "Established")
LoseSession(s) == SessionReports(s, {"connecting", "up"}, "down", "Disconnected")
Disconnect(s) == SessionReports(s, {"disconnecting"}, "down", "Disconnected")

-----------------------------------------------------------------------------

ClientStep(s) ==
  \/ \E c \in Channels :
       HandleLogin(c, s) \/ HandleLogout(c, s) \/ HandleRequest(c, s)
  \/ HandleResult(s)
  \/ RunStrand(s) \/ Erase(s) \/ Notify(s)
  \/ StartConnect(s) \/ Establish(s) \/ LoseSession(s) \/ Disconnect(s)

ShutdownStep ==
  \/ SetShutdownCallback \/ LogoutAll \/ ShutdownReturns
  \/ \E c \in Channels : LastChannelClosed(c)

Next ==
  \/ Stop \/ ShutdownStep
  \/ \E c \in Channels : Connect(c) \/ ChannelClosed(c) \/ PeerClosesSessions(c)
  \/ \E s \in Clients : ClientStep(s)

Spec == Init /\ [][Next]_vars

\* Strands and threads run; the OPC UA stack ends a disconnect.
Scheduling ==
  \A s \in Clients :
    /\ WF_vars(RunStrand(s)) /\ WF_vars(Erase(s)) /\ WF_vars(Notify(s))
    /\ WF_vars(Disconnect(s))

FairSpec == Spec /\ Scheduling /\ WF_vars(ShutdownStep)

-----------------------------------------------------------------------------
(* Safety.                                                                 *)

\* Every session in the map belongs to an open channel or is being logged out:
\* handleChannelClose removes all the sessions of its channel.  Between the
\* close of the last channel and the logouts of shutdown there may be others.
NoOrphans ==
  manager \in {"serving", "stuck", "waiting", "returned"} =>
    \A s \in clientMap :
      \/ \E c \in OpenChannels : \E i \in DOMAIN sessions[c] : sessions[c][i] = s
      \/ LogoutUnderWay(s)

\* As long as shutdown has not returned, a client exists for as long as a task
\* on its strand, or a report that is to come, will use it; unless it was logged
\* out before its first report.
ClientOutlivesItsTasks ==
  \A s \in Clients :
    (client[s].strand # <<>> \/ client[s].link # "down") /\ ~client[s].hasty
      => manager = "returned" \/ Alive(s)

\* Requests run outside the strand of the client.  As long as a peer uses only
\* its own sessions, none reaches a client whose services are being torn down;
\* unless the peer had its sessions closed and went on to use them.
RequestsPrecedeLogout ==
  [][\A s \in Clients :
       client'[s].pending > client[s].pending /\ s \notin dismissed
         => client[s].sessionService /\ ~LogoutUnderWay(s)]_vars

\* shutdown does not return while a session is left in the map.
ShutdownWaits == manager = "returned" => clientMap = {}

\* "we must close all opc ua client sessions": none is open after shutdown.  It
\* does not hold (a session that a peer has logged out): no run checks it.
ShutdownClosesSessions ==
  manager = "returned" => \A s \in Clients : client[s].link = "down"

-----------------------------------------------------------------------------
(* Liveness.                                                               *)

\* The sessions of a channel that is closed leave the map and, unless a logout
\* came before their first report, are logged out of their servers.
ClosedChannelsAreLoggedOut ==
  \A s \in Clients :
    client[s].owner # None /\ chan[client[s].owner] = "closed"
      ~> \/ s \notin clientMap /\ (client[s].link = "down" \/ client[s].hasty)
         \/ crashed

\* A logout request that found its session is answered.
LogoutIsAnswered ==
  \A s \in Clients : client[s].asked ~> ~client[s].asked \/ crashed
=============================================================================
