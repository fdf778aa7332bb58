------------------------- MODULE ClientManagerProofs -------------------------
(***************************************************************************)
(* What ClientManager::shutdown waits for, for any number of channels and  *)
(* clients, whether or not peers name the sessions of other channels; and  *)
(* what the client manager's map, the lists of its channels and the        *)
(* clients' own strands have to do with each other: types; and, as long as *)
(* peers use only the sessions they have opened themselves, that no        *)
(* session is orphaned, that no client is deleted too early unless it is   *)
(* logged out before its session's first report, and that no request       *)
(* reaches a session that is being logged out unless its peer has had its  *)
(* sessions closed.                                                        *)
(***************************************************************************)
EXTENDS ClientManager, TLAPS

\* The promise exists only while shutdown waits and after it, that is when no
\* handler of the WebSocket server's strand can add a session any more; it is
\* satisfied only when the map is empty, and the map only shrinks from then on.
WaitInv ==
  /\ promise # "none" => manager \in {"armed", "waiting", "returned", "stuck"}
  /\ shutdownCallback => promise # "none"
  /\ promise = "set" => clientMap = {}
  /\ manager = "returned" => clientMap = {}

\* A step after which nothing that WaitInv speaks of has changed, but the map
\* may have shrunk.
MapShrinks ==
  /\ UNCHANGED <<promise, shutdownCallback, manager>>
  /\ clientMap' \subseteq clientMap

\* The part of a step that calls shutdownCallback_ keeps the invariant.
Notified ==
  /\ UNCHANGED <<shutdownCallback, manager, clientMap>>
  /\ \/ UNCHANGED promise
     \/ shutdownCallback /\ clientMap = {} /\ promise' = "set"

LEMMA ShrinkKeepsWait == WaitInv /\ MapShrinks => WaitInv'
  BY DEF WaitInv, MapShrinks

LEMMA NotifiedKeepsWait == WaitInv /\ Notified => WaitInv'
  BY DEF WaitInv, Notified

\* shutdownCallback_ sets the promise only when the map is empty.
LEMMA CallbackIsNotified ==
  CallShutdownCallback =>
    \/ UNCHANGED promise
    \/ shutdownCallback /\ clientMap = {} /\ promise' = "set"
  BY DEF CallShutdownCallback

\* A client's strand touches the promise through shutdownCallback_ only.
LEMMA StrandIsNotified ==
  ASSUME NEW s \in Clients, RunStrand(s)
  PROVE  Notified
  <1>1. ASSUME NEW cl, NEW callback, LogoutComplete(s, cl, callback)
        PROVE  \/ UNCHANGED promise
               \/ shutdownCallback /\ clientMap = {} /\ promise' = "set"
    BY <1>1, CallbackIsNotified DEF LogoutComplete
  <1>2. ASSUME NEW cl, NEW report, HandleReport(s, cl, report)
        PROVE  \/ UNCHANGED promise
               \/ shutdownCallback /\ clientMap = {} /\ promise' = "set"
    BY <1>1, <1>2 DEF HandleReport
  <1>3. ASSUME NEW cl, NEW callback, Logout(s, cl, callback)
        PROVE  \/ UNCHANGED promise
               \/ shutdownCallback /\ clientMap = {} /\ promise' = "set"
    BY <1>1, <1>3 DEF Logout
  <1> QED BY <1>2, <1>3 DEF RunStrand, Notified

LEMMA ClientStepKeepsWait ==
  ASSUME WaitInv, NEW s \in Clients, ClientStep(s)
  PROVE  WaitInv'
  <1>1. ASSUME NEW c \in Channels, HandleLogin(c, s)
        PROVE  WaitInv'
    BY <1>1 DEF HandleLogin, Serving, WaitInv, ending
  <1>2. ASSUME NEW c \in Channels, HandleLogout(c, s)
        PROVE  WaitInv'
    BY <1>2 DEF HandleLogout, Serving, WaitInv, ending
  <1>3. ASSUME NEW c \in Channels, HandleRequest(c, s)
        PROVE  WaitInv'
    BY <1>3 DEF HandleRequest, Serving, WaitInv, ending
  <1>4. CASE HandleResult(s)
    BY <1>4, ShrinkKeepsWait DEF HandleResult, MapShrinks, ending
  <1>5. CASE RunStrand(s)
    BY <1>5, StrandIsNotified, NotifiedKeepsWait
  <1>6. CASE Erase(s)
    BY <1>6, ShrinkKeepsWait DEF Erase, MapShrinks
  <1>7. CASE Notify(s)
    BY <1>7, CallbackIsNotified, NotifiedKeepsWait DEF Notify, Notified
  <1>8. CASE StartConnect(s) \/ Establish(s) \/ LoseSession(s) \/ Disconnect(s)
    BY <1>8, ShrinkKeepsWait
       DEF StartConnect, Establish, LoseSession, Disconnect, SessionReports, MapShrinks,
           ending
  <1> QED BY <1>1, <1>2, <1>3, <1>4, <1>5, <1>6, <1>7, <1>8 DEF ClientStep

LEMMA CloseKeepsWait ==
  ASSUME WaitInv, NEW c \in Channels, HandleChannelClose(c),
         UNCHANGED <<clientMap, ending>>
  PROVE  WaitInv'
  <1>1. manager' \in {manager, "stuck"}
    BY DEF HandleChannelClose
  <1> QED BY <1>1 DEF WaitInv, ending

LEMMA BeginKeepsWait ==
  ASSUME WaitInv, manager = "serving", BeginShutdown,
         UNCHANGED <<clientMap, promise, shutdownCallback>>
  PROVE  WaitInv'
  BY DEF WaitInv, BeginShutdown

LEMMA ShutdownStepKeepsWait ==
  ASSUME WaitInv, ShutdownStep
  PROVE  WaitInv'
  <1>1. CASE SetShutdownCallback
    BY <1>1 DEF SetShutdownCallback, WaitInv
  <1>2. CASE LogoutAll
    BY <1>2 DEF LogoutAll, WaitInv
  <1>3. CASE ShutdownReturns
    BY <1>3 DEF ShutdownReturns, WaitInv
  <1>4. ASSUME NEW c \in Channels, LastChannelClosed(c)
        PROVE  WaitInv'
    <2>1. CASE shutdownCallback
      BY <1>4, <2>1, ShrinkKeepsWait DEF LastChannelClosed, MapShrinks, ending
    <2>2. CASE ~shutdownCallback
      BY <1>4, <2>2, CloseKeepsWait DEF LastChannelClosed
    <2> QED BY <2>1, <2>2
  <1> QED BY <1>1, <1>2, <1>3, <1>4 DEF ShutdownStep

LEMMA NextKeepsWait ==
  ASSUME WaitInv, [Next]_vars
  PROVE  WaitInv'
  <1>1. CASE Stop
    <2>1. CASE OpenChannels = {}
      BY <1>1, <2>1, BeginKeepsWait DEF Stop
    <2>2. CASE OpenChannels # {}
      BY <1>1, <2>2, ShrinkKeepsWait DEF Stop, MapShrinks
    <2> QED BY <2>1, <2>2
  <1>2. CASE ShutdownStep
    BY <1>2, ShutdownStepKeepsWait
  <1>3. ASSUME NEW c \in Channels, Connect(c)
        PROVE  WaitInv'
    BY <1>3, ShrinkKeepsWait DEF Connect, MapShrinks, ending
  <1>4. ASSUME NEW c \in Channels, ChannelClosed(c)
        PROVE  WaitInv'
    <2>1. CASE stopping /\ OpenChannels = {c}
      BY <1>4, <2>1, BeginKeepsWait DEF ChannelClosed, Serving, ending
    <2>2. CASE ~(stopping /\ OpenChannels = {c})
      BY <1>4, <2>2, CloseKeepsWait DEF ChannelClosed
    <2> QED BY <2>1, <2>2
  <1>5. ASSUME NEW c \in Channels, PeerClosesSessions(c)
        PROVE  WaitInv'
    BY <1>5, CloseKeepsWait DEF PeerClosesSessions
  <1>6. ASSUME NEW s \in Clients, ClientStep(s)
        PROVE  WaitInv'
    BY <1>6, ClientStepKeepsWait
  <1>7. CASE UNCHANGED vars
    BY <1>7, ShrinkKeepsWait DEF vars, MapShrinks, ending
  <1> QED BY <1>1, <1>2, <1>3, <1>4, <1>5, <1>6, <1>7 DEF Next

\* ClientManager::shutdown returns only when clientMap_ is empty, however its
\* steps interleave with the strands of the clients and the erasing threads.
THEOREM ShutdownWaitsForSessions == Spec => []ShutdownWaits
  <1>1. Init => WaitInv
    BY DEF Init, WaitInv
  <1>2. WaitInv /\ [Next]_vars => WaitInv'
    BY NextKeepsWait
  <1>3. WaitInv => ShutdownWaits
    BY DEF WaitInv, ShutdownWaits
  <1> QED BY <1>1, <1>2, <1>3, PTL DEF Spec

-----------------------------------------------------------------------------
(* Sessions.                                                               *)

(***************************************************************************)
(* A client's strand.  Sequences of tasks are compared by index, since     *)
(* that is how Append and Tail change them.                                *)
(***************************************************************************)
IsReport(task) == task[1] = "report"
IsLogout(task) == task[1] = "logout"
NoReports(strand) == \A i \in DOMAIN strand : ~IsReport(strand[i])
NoLogouts(strand) == \A i \in DOMAIN strand : ~IsLogout(strand[i])

LastReport == <<"report", "Disconnected">>
Remove == <<"logout", "remove">>
ToAnswer == {"logout"} \X Channels
NoRemoves(strand) == \A i \in DOMAIN strand : strand[i] # Remove

\* The session reports in order: Disconnected is the last report.
Progress(cl) ==
  /\ cl.sessionState = "Disconnected" => cl.link = "down" /\ NoReports(cl.strand)
  /\ \A i \in DOMAIN cl.strand : cl.strand[i] = LastReport =>
       /\ cl.link = "down"
       /\ \A j \in DOMAIN cl.strand : j > i => ~IsReport(cl.strand[j])

\* A callback that answers a peer keeps the client.
HasAnswer(cl) ==
  \/ cl.logoutContext \in Channels
  \/ \E i \in DOMAIN cl.strand : cl.strand[i] \in ToAnswer

Finished(cl) == cl.strand = <<>> /\ cl.link = "down"

\* A session is logged out once by the close of its channel, and after that once
\* by a request, which is answered: the logout is queued, or it waits for the
\* session to end, or a thread is to erase the session.
LogoutOrder(cl, threads) ==
  /\ \A i, j \in DOMAIN cl.strand :
       IsLogout(cl.strand[i]) /\ IsLogout(cl.strand[j]) /\ i < j
         => cl.strand[i] = Remove /\ cl.strand[j] \in ToAnswer
  /\ cl.logoutContext \in Channels => NoLogouts(cl.strand)
  /\ cl.logoutContext = "remove" \/ threads > 0 => NoRemoves(cl.strand)
  /\ threads > 0 => /\ cl.logoutContext # "remove"
                    /\ HasAnswer(cl) \/ Finished(cl)

(***************************************************************************)
(* The inductive invariant, of one client: mapped says whether it is in    *)
(* clientMap_, kept whether shutdown keeps it alive, or has returned, or a *)
(* logout was complete before the first report of its session.             *)
(***************************************************************************)
ClientInv(cl, threads, mapped, kept) ==
  /\ cl.owner = None => cl = NewClient /\ ~mapped /\ threads = 0
  /\ HasAnswer(cl) => ~mapped
  /\ ~kept => /\ Progress(cl) /\ LogoutOrder(cl, threads)
              /\ mapped \/ HasAnswer(cl) \/ Finished(cl)

Kept(s) == s \in held \/ manager = "returned" \/ client[s].hasty
LocalInv(s) == ClientInv(client[s], erasing[s], s \in clientMap, Kept(s))

Listed(c, s) == \E i \in DOMAIN sessions[c] : sessions[c][i] = s

\* A session is in the list of its channel as long as that has not asked for its
\* logout; one that is in the map and in no list is being logged out.
ListInv ==
  \A c \in Channels : \A i \in DOMAIN sessions[c] :
    LET s == sessions[c][i]
    IN  /\ client[s].owner = c /\ chan[c] \in {"open", "closing"}
        /\ s \in clientMap /\ client[s].sessionService /\ ~LogoutUnderWay(s)
        /\ \A j \in DOMAIN sessions[c] : sessions[c][j] = s => i = j

\* Its channel has been closed, or its peer has had its sessions closed.
Closed(s) == chan[client[s].owner] = "closed" \/ s \in dismissed

MapInv ==
  \A s \in clientMap :
    \/ Listed(client[s].owner, s)
    \/ LogoutUnderWay(s) /\ Closed(s)

\* Where the shutdown is, and that mutex_ is free.
PhaseInv ==
  /\ ~leaked /\ manager # "stuck"
  /\ manager \in {"armed", "waiting"} => shutdownCallback
  /\ manager = "serving" => \A c \in Channels : chan[c] # "closing"
  /\ held # {} => manager \in {"waiting", "returned"}
  /\ manager = "waiting" => \A s \in clientMap : LogoutUnderWay(s)

SessionInv ==
  /\ TypeOK /\ WaitInv /\ PhaseInv
  /\ \A s \in Clients : LocalInv(s)
  /\ ~shutdownCallback => ListInv /\ MapInv

-----------------------------------------------------------------------------
(* Types, whatever sessions peers name.                                    *)

LEMMA NewClientType ==
  NewClient \in Client
BY GatewayAssumption DEF GatewayAssumption, NewClient, Client, Report

LEMMA PostType ==
  ASSUME NEW cl \in Client, NEW task \in Task
  PROVE  Post(cl, task) \in Client
BY DEF Post, Client

\* The tasks that are posted.
LEMMA TaskTypes ==
  /\ \A report \in Report : <<"report", report>> \in Task
  /\ \A callback \in Callback : <<"logout", callback>> \in Task
  /\ "remove" \in Callback /\ Channels \subseteq Callback
BY DEF Task, Callback

\* What a task leaves of its client.
LEMMA TakenType ==
  ASSUME NEW cl \in Client, cl.strand # <<>>
  PROVE  /\ [cl EXCEPT !.strand = Tail(@)] \in Client
         /\ Head(cl.strand) \in Task
BY DEF Client

LEMMA TaskParts ==
  ASSUME NEW task \in Task
  PROVE  /\ task[1] = "report" => task[2] \in Report
         /\ task[1] = "logout" => task[2] \in Callback
BY DEF Task

LEMMA AnsweredType ==
  ASSUME NEW cl \in Client
  PROVE  [cl EXCEPT !.asked = FALSE] \in Client
BY DEF Client

LEMMA LogoutCompleteType ==
  ASSUME TypeOK, NEW s \in Clients, NEW cl \in Client, NEW callback,
         LogoutComplete(s, cl, callback)
  PROVE  client' \in [Clients -> Client] /\ erasing' \in [Clients -> Nat]
<1> DEFINE gone == [cl EXCEPT !.sessionService = FALSE, !.logoutContext = None]
           told == [gone EXCEPT !.asked = FALSE]
<1>1. gone \in Client
  BY DEF Client
<1>2. told \in Client
  <2> HIDE DEF gone
  <2>1. QED
    BY <1>1, AnsweredType
<1>3. /\ \/ client' = [client EXCEPT ![s] = gone]
         \/ client' = [client EXCEPT ![s] = told]
      /\ erasing' = erasing \/ erasing' = [erasing EXCEPT ![s] = @ + 1]
  BY DEF LogoutComplete
<1> HIDE DEF gone, told
<1>4. client \in [Clients -> Client] /\ erasing \in [Clients -> Nat]
  BY DEF TypeOK
<1>5. client' \in [Clients -> Client]
  BY <1>1, <1>2, <1>3, <1>4
<1>6. erasing' \in [Clients -> Nat]
  BY <1>3, <1>4
<1>7. QED
  BY <1>5, <1>6

\* What a logout leaves of its client.
LEMMA DisconnectingType ==
  ASSUME NEW cl \in Client, NEW callback \in Callback
  PROVE  /\ Disconnecting(cl, callback) \in Client
         /\ Disconnecting(cl, callback).owner = cl.owner
         /\ Disconnecting(cl, callback).sessionState = cl.sessionState
         /\ Disconnecting(cl, callback).strand = cl.strand
         /\ Disconnecting(cl, callback).hasty = cl.hasty
         /\ Disconnecting(cl, callback).logoutContext = callback
         /\ cl.link = "down" => Disconnecting(cl, callback).link = "down"
<1> DEFINE link == IF cl.link = "down" \/ ~cl.sessionService THEN cl.link
                                                            ELSE "disconnecting"
<1>1. Disconnecting(cl, callback)
        = [cl EXCEPT !.logoutContext = callback, !.link = link]
  BY DEF Disconnecting, Client
<1>2. /\ link \in {"down", "requested", "connecting", "up", "disconnecting"}
      /\ cl.link = "down" => link = "down"
  BY DEF Client
<1> HIDE DEF link
<1>3. QED
  BY <1>1, <1>2 DEF Client

LEMMA HastyType ==
  ASSUME NEW cl \in Client
  PROVE  LET early == [cl EXCEPT !.hasty = @ \/ cl.sessionState = "Initial"]
         IN  early \in Client
<1>1. (cl.hasty \/ cl.sessionState = "Initial") \in BOOLEAN
  OBVIOUS
<1> DEFINE hasty == cl.hasty \/ cl.sessionState = "Initial"
<1>2. hasty \in BOOLEAN
  BY <1>1
<1> HIDE DEF hasty
<1>3. [cl EXCEPT !.hasty = hasty] \in Client
  BY <1>2 DEF Client
<1>4. QED
  BY <1>3 DEF hasty

LEMMA RunStrandType ==
  ASSUME TypeOK, NEW s \in Clients, RunStrand(s)
  PROVE  client' \in [Clients -> Client] /\ erasing' \in [Clients -> Nat]
<1> DEFINE task == Head(client[s].strand)
           cl == [client[s] EXCEPT !.strand = Tail(@)]
<1>1. /\ cl \in Client /\ task \in Task
      /\ client \in [Clients -> Client] /\ erasing \in [Clients -> Nat]
  BY TakenType DEF TypeOK, RunStrand
<1>2. \/ task[1] = "report" /\ HandleReport(s, cl, task[2])
      \/ task[1] = "logout" /\ Logout(s, cl, task[2])
      \/ client' = [client EXCEPT ![s] = cl] /\ erasing' = erasing
  BY DEF RunStrand
<1> HIDE DEF task, cl
<1>3. CASE task[1] = "report" /\ HandleReport(s, cl, task[2])
  <2> DEFINE now == [cl EXCEPT !.sessionState = task[2]]
  <2>1. now \in Client
    BY <1>1, <1>3, TaskParts DEF Client
  <2> HIDE DEF now
  <2>2. \/ LogoutComplete(s, now, cl.logoutContext) \/ LogoutComplete(s, now, now.logoutContext)
        \/ client' = [client EXCEPT ![s] = now] /\ erasing' = erasing
    BY <1>3 DEF HandleReport, now
  <2>3. QED
    BY <1>1, <2>1, <2>2, LogoutCompleteType
<1>4. CASE task[1] = "logout" /\ Logout(s, cl, task[2])
  <2> DEFINE waits == Disconnecting(cl, task[2])
             early == [cl EXCEPT !.hasty = @ \/ cl.sessionState = "Initial"]
  <2>1. waits \in Client /\ early \in Client
    BY <1>1, <1>4, TaskParts, DisconnectingType, HastyType
  <2> HIDE DEF waits, early
  <2>2. \/ LogoutComplete(s, early, task[2])
        \/ client' = [client EXCEPT ![s] = waits] /\ erasing' = erasing
    BY <1>4 DEF Logout, waits, early
  <2>3. QED
    BY <1>1, <2>1, <2>2, LogoutCompleteType
<1>5. QED
  BY <1>1, <1>2, <1>3, <1>4

\* Calls of logout for some of the clients.
LEMMA LogoutsType ==
  ASSUME TypeOK, NEW some,
         client' = [s \in Clients |-> IF s \in some
                                      THEN Post(client[s], <<"logout", "remove">>)
                                      ELSE client[s]]
  PROVE  client' \in [Clients -> Client]
<1>1. \A s \in Clients : client[s] \in Client
                         /\ Post(client[s], <<"logout", "remove">>) \in Client
  BY PostType, TaskTypes DEF TypeOK
<1>2. QED
  BY <1>1

LEMMA ChannelCloseType ==
  ASSUME TypeOK, NEW c \in Channels, HandleChannelClose(c)
  PROVE  /\ client' \in [Clients -> Client] /\ sessions' \in [Channels -> Seq(Clients)]
         /\ leaked' \in BOOLEAN /\ manager' \in {manager, "stuck"}
<1> DEFINE list == sessions[c]
           missing == {i \in DOMAIN list : list[i] \notin clientMap}
           reached == {list[i] : i \in {j \in DOMAIN list :
                                          ~leaked /\ \A k \in missing : j < k}}
<1>1. /\ client' = [s \in Clients |-> IF s \in reached
                                      THEN Post(client[s], <<"logout", "remove">>)
                                      ELSE client[s]]
      /\ leaked' = (leaked \/ missing # {})
      /\ sessions' = sessions \/ sessions' = [sessions EXCEPT ![c] = <<>>]
      /\ manager' \in {manager, "stuck"}
  <2> DEFINE loopEnds == list = <<>> \/ (~leaked /\ missing \subseteq {Len(list)})
  <2>1. /\ client' = [s \in Clients |-> IF s \in reached
                                        THEN Post(client[s], <<"logout", "remove">>)
                                        ELSE client[s]]
        /\ leaked' = (leaked \/ missing # {})
        /\ sessions' = IF loopEnds THEN [sessions EXCEPT ![c] = <<>>] ELSE sessions
        /\ manager' = IF loopEnds THEN manager ELSE "stuck"
    BY Zenon DEF HandleChannelClose
  <2> HIDE DEF reached, missing, loopEnds
  <2>2. QED
    BY <2>1
<1> HIDE DEF reached, missing
<1>2. client' \in [Clients -> Client]
  BY <1>1, LogoutsType
<1>3. sessions' \in [Channels -> Seq(Clients)]
  <2>1. sessions' = sessions \/ sessions' = [sessions EXCEPT ![c] = <<>>]
    BY <1>1
  <2>2. sessions \in [Channels -> Seq(Clients)] /\ <<>> \in Seq(Clients)
    BY DEF TypeOK
  <2>3. QED
    BY <2>1, <2>2
<1>4. QED
  BY <1>1, <1>2, <1>3

\* A list without one of its entries: what is left, in terms of the entries.
LEMMA WithoutProperties ==
  ASSUME NEW S, NEW list \in Seq(S), NEW s
  PROVE  /\ Without(list, s) \in Seq(S)
         /\ \A i \in DOMAIN Without(list, s) :
              \E k \in DOMAIN list : Without(list, s)[i] = list[k]
         /\ \A k \in DOMAIN list : list[k] # s =>
              \E i \in DOMAIN Without(list, s) : Without(list, s)[i] = list[k]
         /\ (\A j, k \in DOMAIN list : list[j] = list[k] => j = k) =>
              /\ \A i \in DOMAIN Without(list, s) : Without(list, s)[i] # s
              /\ \A i, j \in DOMAIN Without(list, s) :
                   Without(list, s)[i] = Without(list, s)[j] => i = j
<1>1. CASE ~\E i \in DOMAIN list : list[i] = s
  BY <1>1 DEF Without
<1>2. CASE \E i \in DOMAIN list : list[i] = s
  <2> DEFINE at == CHOOSE i \in DOMAIN list : list[i] = s
             index == [i \in 1 .. Len(list) - 1 |-> IF i < at THEN i ELSE i + 1]
             shorter == [i \in 1 .. Len(list) - 1 |-> list[IF i < at THEN i ELSE i + 1]]
  <2>1. at \in DOMAIN list /\ list[at] = s
    BY <1>2
  <2>2. Without(list, s) = shorter
    BY <1>2 DEF Without
  <2> HIDE DEF at
  <2>3. /\ Len(list) \in Nat /\ Len(list) - 1 \in Nat /\ at \in 1 .. Len(list)
        /\ \A i \in 1 .. Len(list) - 1 :
             index[i] \in 1 .. Len(list) /\ index[i] # at /\ shorter[i] = list[index[i]]
        /\ \A i, j \in 1 .. Len(list) - 1 : index[i] = index[j] => i = j
        /\ \A k \in 1 .. Len(list) : k # at =>
             \E i \in 1 .. Len(list) - 1 : index[i] = k
    <3>1. Len(list) \in Nat /\ Len(list) - 1 \in Nat /\ at \in 1 .. Len(list)
      BY <2>1
    <3>2. ASSUME NEW k \in 1 .. Len(list), k # at
          PROVE  \E i \in 1 .. Len(list) - 1 : index[i] = k
      <4>1. CASE k < at
        BY <3>1, <3>2, <4>1
      <4>2. CASE k > at
        <5>1. k - 1 \in 1 .. Len(list) - 1 /\ index[k - 1] = k
          BY <3>1, <3>2, <4>2
        <5>2. QED
          BY <5>1
      <4>3. QED
        BY <3>1, <3>2, <4>1, <4>2
    <3>3. QED
      BY <3>1, <3>2
  <2>4. /\ shorter \in Seq(S) /\ DOMAIN shorter = 1 .. Len(list) - 1
        /\ DOMAIN list = 1 .. Len(list)
    <3>1. \A i \in 1 .. Len(list) - 1 : list[IF i < at THEN i ELSE i + 1] \in S
      BY <2>3
    <3>2. QED
      BY <2>3, <3>1
  <2> HIDE DEF index, shorter
  <2>5. \A i \in DOMAIN shorter : \E k \in DOMAIN list : shorter[i] = list[k]
    BY <2>3, <2>4
  <2>6. \A k \in DOMAIN list : list[k] # s =>
          \E i \in DOMAIN shorter : shorter[i] = list[k]
    <3>1. TAKE k \in DOMAIN list
    <3>2. HAVE list[k] # s
    <3>3. PICK i \in 1 .. Len(list) - 1 : index[i] = k
      BY <2>1, <2>3, <2>4, <3>2
    <3>4. QED
      BY <2>3, <2>4, <3>3
  <2>7. ASSUME \A j, k \in DOMAIN list : list[j] = list[k] => j = k
        PROVE  /\ \A i \in DOMAIN shorter : shorter[i] # s
               /\ \A i, j \in DOMAIN shorter : shorter[i] = shorter[j] => i = j
    <3>1. ASSUME NEW i \in DOMAIN shorter, shorter[i] = s
          PROVE  FALSE
      <4>1. index[i] \in DOMAIN list /\ index[i] # at /\ list[index[i]] = list[at]
        BY <2>1, <2>3, <2>4, <3>1
      <4>2. QED
        BY <2>1, <2>7, <4>1
    <3>2. ASSUME NEW i \in DOMAIN shorter, NEW j \in DOMAIN shorter,
                 shorter[i] = shorter[j]
          PROVE  i = j
      <4>1. index[i] \in DOMAIN list /\ index[j] \in DOMAIN list
        BY <2>3, <2>4
      <4>2. list[index[i]] = list[index[j]]
        BY <2>3, <2>4, <3>2
      <4>3. index[i] = index[j]
        BY <2>7, <4>1, <4>2
      <4>4. QED
        BY <2>3, <2>4, <4>3
    <3>3. QED
      BY <3>1, <3>2
  <2>8. QED
    BY <2>2, <2>4, <2>5, <2>6, <2>7
<1>3. QED
  BY <1>1, <1>2

LEMMA HandlerType ==
  ASSUME TypeOK, NEW c \in Channels, NEW s \in Clients,
         HandleLogin(c, s) \/ HandleLogout(c, s) \/ HandleRequest(c, s)
  PROVE  TypeOK'
<1>1. client[s] \in Client /\ clientMap \subseteq Clients
  BY DEF TypeOK
<1>2. CASE HandleLogin(c, s)
  <2> DEFINE cl == [client[s] EXCEPT !.owner = c, !.sessionService = TRUE,
                                     !.link = "requested"]
  <2>1. cl \in Client
    BY <1>1 DEF Client
  <2>2. client' = [client EXCEPT ![s] = cl]
    BY <1>2 DEF HandleLogin, TypeOK
  <2> HIDE DEF cl
  <2>3. client' \in [Clients -> Client]
    BY <2>1, <2>2 DEF TypeOK
  <2>4. /\ clientMap' = clientMap \cup {s} \/ clientMap' = clientMap
        /\ sessions' = [sessions EXCEPT ![c] = Append(@, s)] \/ sessions' = sessions
        /\ manager' = "stuck" \/ manager' = manager
    BY <1>2 DEF HandleLogin
  <2>5. sessions' \in [Channels -> Seq(Clients)]
    <3>1. sessions \in [Channels -> Seq(Clients)]
          /\ Append(sessions[c], s) \in Seq(Clients)
      BY DEF TypeOK
    <3>2. QED
      BY <2>4, <3>1
  <2>6. UNCHANGED <<chan, leaked, ending, dismissed>> /\ crashed' = FALSE
    BY <1>2 DEF HandleLogin, Defined
  <2>7. QED
    BY <2>3, <2>4, <2>5, <2>6 DEF TypeOK, ending
<1>3. CASE HandleLogout(c, s)
  <2> DEFINE asked == [client[s] EXCEPT !.asked = TRUE]
             cl == Post(asked, <<"logout", c>>)
  <2>1. cl \in Client
    <3>1. asked \in Client
      BY <1>1 DEF Client
    <3>2. QED
      BY <3>1, PostType, TaskTypes
  <2>2. client' = [client EXCEPT ![s] = cl] \/ client' = client
    BY <1>3 DEF HandleLogout
  <2> HIDE DEF cl
  <2>3. client' \in [Clients -> Client]
    BY <2>1, <2>2 DEF TypeOK
  <2>4. /\ clientMap' = clientMap \ {s} \/ clientMap' = clientMap
        /\ \/ sessions' = [sessions EXCEPT ![c] = Without(sessions[c], s)]
           \/ sessions' = sessions
        /\ manager' = "stuck" \/ manager' = manager
    BY <1>3 DEF HandleLogout
  <2>5. sessions' \in [Channels -> Seq(Clients)]
    <3>1. sessions \in [Channels -> Seq(Clients)]
          /\ Without(sessions[c], s) \in Seq(Clients)
      BY WithoutProperties DEF TypeOK
    <3>2. QED
      BY <2>4, <3>1
  <2>6. UNCHANGED <<chan, leaked, ending, dismissed>> /\ crashed' = FALSE
    BY <1>3 DEF HandleLogout, Defined
  <2>7. QED
    BY <2>3, <2>4, <2>5, <2>6 DEF TypeOK, ending
<1>4. CASE HandleRequest(c, s)
  <2> DEFINE cl == [client[s] EXCEPT !.pending = @ + 1]
  <2>1. client' = client \/ (client[s].pending < MaxPending
                              /\ client' = [client EXCEPT ![s] = cl])
    BY <1>4 DEF HandleRequest
  <2>2. client[s].pending < MaxPending => cl \in Client
    BY <1>1, GatewayAssumption DEF Client, GatewayAssumption
  <2> HIDE DEF cl
  <2>3. client' \in [Clients -> Client]
    BY <2>1, <2>2 DEF TypeOK
  <2>4. /\ manager' = "stuck" \/ manager' = manager
        /\ UNCHANGED <<chan, sessions, clientMap, leaked, ending, dismissed>>
        /\ crashed' \in BOOLEAN
    BY <1>4 DEF HandleRequest, Defined, Undefined
  <2>5. QED
    BY <2>3, <2>4 DEF TypeOK, ending
<1>5. QED
  BY <1>2, <1>3, <1>4

LEMMA CallbackType ==
  ASSUME TypeOK, CallShutdownCallback
  PROVE  promise' \in {"none", "unset", "set"} /\ crashed' \in BOOLEAN
BY DEF TypeOK, CallShutdownCallback, Defined, Undefined

LEMMA ThreadType ==
  ASSUME TypeOK, NEW s \in Clients, HandleResult(s) \/ RunStrand(s) \/ Erase(s) \/ Notify(s)
  PROVE  TypeOK'
<1>1. CASE HandleResult(s)
  <2> DEFINE cl == [client[s] EXCEPT !.pending = @ - 1]
  <2>1. client[s] \in Client /\ client[s].pending > 0
        /\ client' = [client EXCEPT ![s] = cl]
    BY <1>1 DEF HandleResult, TypeOK
  <2>2. cl \in Client
    BY <2>1, GatewayAssumption DEF Client, GatewayAssumption
  <2> HIDE DEF cl
  <2>3. client' \in [Clients -> Client]
    BY <2>1, <2>2 DEF TypeOK
  <2>4. QED
    BY <1>1, <2>3 DEF HandleResult, Defined, TypeOK, ending
<1>2. CASE RunStrand(s)
  <2>1. client' \in [Clients -> Client] /\ erasing' \in [Clients -> Nat]
    BY <1>2, RunStrandType
  <2>2. UNCHANGED <<chan, sessions, clientMap, manager, leaked, notifying,
                    shutdownCallback, held, stopping, dismissed>>
    BY <1>2 DEF RunStrand
  <2>3. promise' \in {"none", "unset", "set"} /\ crashed' \in BOOLEAN
    <3>1. ASSUME NEW cl, NEW callback, LogoutComplete(s, cl, callback)
          PROVE  promise' \in {"none", "unset", "set"} /\ crashed' \in BOOLEAN
      BY <3>1, CallbackType DEF LogoutComplete, Defined, TypeOK
    <3>2. ASSUME NEW cl, NEW report, HandleReport(s, cl, report)
          PROVE  promise' \in {"none", "unset", "set"} /\ crashed' \in BOOLEAN
      BY <3>1, <3>2 DEF HandleReport, Defined, TypeOK
    <3>3. ASSUME NEW cl, NEW callback, Logout(s, cl, callback)
          PROVE  promise' \in {"none", "unset", "set"} /\ crashed' \in BOOLEAN
      BY <3>1, <3>3 DEF Logout, Defined, Crashes, TypeOK
    <3>4. QED
      BY <1>2, <3>2, <3>3 DEF RunStrand, Undefined, TypeOK
  <2>4. QED
    BY <2>1, <2>2, <2>3 DEF TypeOK
<1>3. CASE Erase(s)
  <2>1. erasing' \in [Clients -> Nat] /\ notifying' \in [Clients -> Nat]
    BY <1>3 DEF Erase, TypeOK
  <2>2. clientMap' \subseteq Clients
    BY <1>3 DEF Erase, TypeOK
  <2>3. QED
    BY <1>3, <2>1, <2>2 DEF Erase, Defined, TypeOK
<1>4. CASE Notify(s)
  <2>1. notifying' \in [Clients -> Nat]
    BY <1>4 DEF Notify, TypeOK
  <2>2. promise' \in {"none", "unset", "set"} /\ crashed' \in BOOLEAN
    BY <1>4, CallbackType DEF Notify
  <2>3. QED
    BY <1>4, <2>1, <2>2 DEF Notify, TypeOK
<1>5. QED
  BY <1>1, <1>2, <1>3, <1>4

LEMMA ReportType ==
  ASSUME TypeOK, NEW s \in Clients, NEW from,
         NEW to \in {"down", "requested", "connecting", "up", "disconnecting"},
         NEW report \in Report,
         SessionReports(s, from, to, report)
  PROVE  TypeOK'
<1> DEFINE moved == [client[s] EXCEPT !.link = to]
           cl == Post(moved, <<"report", report>>)
<1>1. cl \in Client
  <2>1. moved \in Client
    BY ZenonT(60) DEF TypeOK, Client
  <2>2. QED
    BY <2>1, PostType, TaskTypes
<1>2. client' = [client EXCEPT ![s] = cl]
  BY DEF SessionReports
<1> HIDE DEF cl
<1>3. client' \in [Clients -> Client]
  BY <1>1, <1>2 DEF TypeOK
<1>4. QED
  BY <1>3 DEF SessionReports, Defined, TypeOK, ending

LEMMA ChannelClosedType ==
  ASSUME TypeOK, NEW c \in Channels, ChannelClosed(c) \/ LastChannelClosed(c)
  PROVE  TypeOK'
<1>1. /\ chan' = [chan EXCEPT ![c] = "closing"] \/ chan' = [chan EXCEPT ![c] = "closed"]
      /\ UNCHANGED <<clientMap, ending, dismissed>> /\ crashed' = FALSE
  BY DEF ChannelClosed, LastChannelClosed, Defined
<1>2. chan' \in [Channels -> {"none", "open", "closing", "closed"}]
  BY <1>1 DEF TypeOK
<1>3. \/ HandleChannelClose(c)
      \/ BeginShutdown /\ UNCHANGED <<sessions, client, leaked>>
      \/ UNCHANGED <<sessions, client, manager, leaked>>
  BY DEF ChannelClosed, LastChannelClosed
<1>4. /\ client' \in [Clients -> Client] /\ sessions' \in [Channels -> Seq(Clients)]
      /\ leaked' \in BOOLEAN
      /\ manager' \in {"serving", "stuck", "sized", "armed", "waiting", "returned"}
  <2>1. CASE HandleChannelClose(c)
    BY <2>1, ChannelCloseType DEF TypeOK
  <2>2. CASE BeginShutdown /\ UNCHANGED <<sessions, client, leaked>>
    BY <2>2 DEF BeginShutdown, TypeOK
  <2>3. CASE UNCHANGED <<sessions, client, manager, leaked>>
    BY <2>3 DEF TypeOK
  <2>4. QED
    BY <1>3, <2>1, <2>2, <2>3
<1>5. QED
  BY <1>1, <1>2, <1>4 DEF TypeOK, ending

LEMMA PeerClosesType ==
  ASSUME TypeOK, NEW c \in Channels, PeerClosesSessions(c)
  PROVE  TypeOK'
<1>1. /\ client' \in [Clients -> Client] /\ sessions' \in [Channels -> Seq(Clients)]
      /\ leaked' \in BOOLEAN /\ manager' \in {manager, "stuck"}
  BY ChannelCloseType DEF PeerClosesSessions
<1>2. {sessions[c][i] : i \in DOMAIN sessions[c]} \subseteq Clients
  BY DEF TypeOK
<1>3. dismissed' \subseteq Clients
  BY <1>2 DEF PeerClosesSessions, TypeOK
<1>4. QED
  BY <1>1, <1>3 DEF PeerClosesSessions, Defined, TypeOK, ending

LEMMA ShutdownType ==
  ASSUME TypeOK, Stop \/ SetShutdownCallback \/ LogoutAll \/ ShutdownReturns
  PROVE  TypeOK'
<1>1. CASE Stop
  BY <1>1 DEF Stop, BeginShutdown, Defined, TypeOK
<1>2. CASE SetShutdownCallback
  BY <1>2 DEF SetShutdownCallback, Defined, TypeOK
<1>3. CASE LogoutAll
  <2>1. client' \in [Clients -> Client]
    BY <1>3, LogoutsType DEF LogoutAll
  <2>2. QED
    BY <1>3, <2>1 DEF LogoutAll, Defined, TypeOK
<1>4. CASE ShutdownReturns
  BY <1>4 DEF ShutdownReturns, Defined, TypeOK
<1>5. QED
  BY <1>1, <1>2, <1>3, <1>4

LEMMA NextType ==
  ASSUME TypeOK, [Next]_vars
  PROVE  TypeOK'
<1>1. CASE Stop \/ ShutdownStep
  BY <1>1, ShutdownType, ChannelClosedType DEF ShutdownStep
<1>2. ASSUME NEW c \in Channels, Connect(c)
      PROVE  TypeOK'
  <2>1. chan' \in [Channels -> {"none", "open", "closing", "closed"}]
    BY <1>2 DEF Connect, TypeOK
  <2>2. QED
    BY <1>2, <2>1 DEF Connect, Defined, TypeOK, ending
<1>3. ASSUME NEW c \in Channels, ChannelClosed(c) \/ PeerClosesSessions(c)
      PROVE  TypeOK'
  BY <1>3, ChannelClosedType, PeerClosesType
<1>4. ASSUME NEW s \in Clients, ClientStep(s)
      PROVE  TypeOK'
  <2>1. CASE StartConnect(s) \/ Establish(s) \/ LoseSession(s) \/ Disconnect(s)
    BY <2>1, ReportType DEF StartConnect, Establish, LoseSession, Disconnect, Report
  <2>2. QED
    BY <1>4, <2>1, HandlerType, ThreadType DEF ClientStep
<1>5. CASE UNCHANGED vars
  BY <1>5 DEF vars, ending, TypeOK
<1>6. QED
  BY <1>1, <1>2, <1>3, <1>4, <1>5 DEF Next

LEMMA InitType ==
  ASSUME Init
  PROVE  TypeOK
<1>1. client \in [Clients -> Client]
  BY NewClientType DEF Init
<1>2. sessions \in [Channels -> Seq(Clients)]
  <2>1. <<>> \in Seq(Clients)
    OBVIOUS
  <2>2. QED
    BY <2>1 DEF Init
<1>3. QED
  BY <1>1, <1>2 DEF Init, TypeOK

\* The variables keep their types; in particular every transaction with an OPC UA
\* server is answered at most once, so that no client is left with a negative
\* number of them.
THEOREM TypeCorrect ==
  Spec => []TypeOK
<1>1. Init => TypeOK
  BY InitType
<1>2. TypeOK /\ [Next]_vars => TypeOK'
  BY NextType
<1>3. QED
  BY <1>1, <1>2, PTL DEF Spec

-----------------------------------------------------------------------------
(* One client: how its invariant survives what happens to its strand.      *)

\* Sequences by index.
Appended(strand, next, task) ==
  /\ \A i \in DOMAIN strand : i \in DOMAIN next /\ next[i] = strand[i]
  /\ \A i \in DOMAIN next :
       i \in DOMAIN strand \/ (next[i] = task /\ \A j \in DOMAIN strand : j < i)
  /\ \E i \in DOMAIN next : next[i] = task
  /\ \A i, j \in DOMAIN next : i \notin DOMAIN strand /\ j \notin DOMAIN strand => i = j
  /\ strand # <<>> => next # <<>> /\ 1 \in DOMAIN strand
  /\ DOMAIN next \subseteq Nat

Taken(strand, next, task) ==
  /\ 1 \in DOMAIN strand /\ strand[1] = task
  /\ \A i \in DOMAIN next : i + 1 \in DOMAIN strand /\ next[i] = strand[i + 1]
  /\ \A i \in DOMAIN strand : i = 1 \/ (i - 1 \in DOMAIN next /\ next[i - 1] = strand[i])
  /\ DOMAIN strand \subseteq Nat \ {0} /\ DOMAIN next \subseteq Nat \ {0}
  /\ strand # <<>>

LEMMA AppendAppended ==
  ASSUME NEW S, NEW strand \in Seq(S), NEW task \in S
  PROVE  Appended(strand, Append(strand, task), task)
<1> DEFINE next == Append(strand, task)
<1>1. /\ DOMAIN strand = 1 .. Len(strand) /\ Len(strand) \in Nat
      /\ DOMAIN next = 1 .. Len(strand) + 1
      /\ next[Len(strand) + 1] = task
      /\ \A i \in 1 .. Len(strand) : next[i] = strand[i]
      /\ strand # <<>> => Len(strand) > 0
  OBVIOUS
<1>2. next # <<>>
  <2>1. Len(next) = Len(strand) + 1 /\ Len(strand) \in Nat
    OBVIOUS
  <2>2. Len(<<>>) = 0
    OBVIOUS
  <2> HIDE DEF next
  <2>3. QED
    BY <2>1, <2>2
<1> HIDE DEF next
<1>3. Appended(strand, next, task)
  BY <1>1, <1>2 DEF Appended
<1>4. QED
  BY <1>3 DEF next

LEMMA TailTaken ==
  ASSUME NEW strand \in Seq(Task), strand # <<>>
  PROVE  Taken(strand, Tail(strand), Head(strand))
<1> DEFINE next == Tail(strand)
<1>1. /\ DOMAIN strand = 1 .. Len(strand) /\ Len(strand) \in Nat /\ Len(strand) > 0
      /\ DOMAIN next = 1 .. Len(strand) - 1
      /\ \A i \in 1 .. Len(strand) - 1 : next[i] = strand[i + 1]
      /\ strand[1] = Head(strand)
  OBVIOUS
<1> HIDE DEF next
<1>2. Taken(strand, next, Head(strand))
  BY <1>1 DEF Taken
<1>3. QED
  BY <1>2 DEF next

\* Every task is a report or a call of logout.
LEMMA NothingQueued ==
  ASSUME NEW strand \in Seq(Task), NoReports(strand), NoLogouts(strand)
  PROVE  strand = <<>>
<1>1. ASSUME strand # <<>>
      PROVE  FALSE
  <2>1. strand[1] \in Task /\ 1 \in DOMAIN strand
    BY <1>1
  <2>2. strand[1][1] = "report" \/ strand[1][1] = "logout"
    BY <2>1 DEF Task
  <2>3. QED
    BY <2>1, <2>2 DEF NoReports, NoLogouts, IsReport, IsLogout
<1>2. QED
  BY <1>1

\* What LogoutUnderWay says of a session, of its client.
LogoutPending(cl, threads) ==
  cl.logoutContext # None \/ threads > 0 \/ ~NoLogouts(cl.strand)

LEMMA UnderWayIsPending ==
  \A s \in Clients : LogoutUnderWay(s) <=> LogoutPending(client[s], erasing[s])
BY DEF LogoutUnderWay, LogoutPending, NoLogouts, IsLogout

Live(cl, threads, mapped) ==
  /\ Progress(cl) /\ LogoutOrder(cl, threads)
  /\ mapped \/ HasAnswer(cl) \/ Finished(cl)

\* Only a logout that answers a peer keeps the client.
LEMMA ReportsDoNotAnswer ==
  /\ \A report : ~IsLogout(<<"report", report>>) /\ <<"report", report>> \notin ToAnswer
                 /\ IsReport(<<"report", report>>)
  /\ \A callback : IsLogout(<<"logout", callback>>) /\ ~IsReport(<<"logout", callback>>)
                   /\ (<<"logout", callback>> \in ToAnswer <=> callback \in Channels)
                   /\ <<"logout", callback>> # LastReport
                   /\ (<<"logout", callback>> = Remove <=> callback = "remove")
  /\ \A task \in ToAnswer : IsLogout(task)
  /\ IsLogout(Remove) /\ Remove \notin ToAnswer
  /\ "remove" \notin Channels /\ None \notin Channels /\ "remove" # None
BY GatewayAssumption DEF IsLogout, IsReport, ToAnswer, LastReport, Remove,
   GatewayAssumption

\* The session reports a change.
Reported(cl, next, report) ==
  /\ cl.link # "down"
  /\ report = "Disconnected" => next.link = "down"
  /\ next.owner = cl.owner /\ next.sessionState = cl.sessionState
  /\ next.logoutContext = cl.logoutContext
  /\ Appended(cl.strand, next.strand, <<"report", report>>)

LEMMA ReportPosted ==
  ASSUME NEW cl \in Client, NEW next \in Client, NEW threads \in Nat,
         NEW mapped \in BOOLEAN, NEW kept \in BOOLEAN,
         ClientInv(cl, threads, mapped, kept),
         NEW report, Reported(cl, next, report)
  PROVE  /\ ClientInv(next, threads, mapped, kept)
         /\ LogoutPending(next, threads) <=> LogoutPending(cl, threads)
<1>1. /\ cl.link # "down"
      /\ report = "Disconnected" => next.link = "down"
      /\ next.owner = cl.owner /\ next.sessionState = cl.sessionState
      /\ next.logoutContext = cl.logoutContext
      /\ Appended(cl.strand, next.strand, <<"report", report>>)
  BY DEF Reported
<1>2. cl.owner # None
  BY <1>1 DEF ClientInv, NewClient
<1>3. HasAnswer(next) <=> HasAnswer(cl)
  BY <1>1, ReportsDoNotAnswer DEF HasAnswer, Appended
<1>4. NoLogouts(next.strand) <=> NoLogouts(cl.strand)
  BY <1>1, ReportsDoNotAnswer DEF NoLogouts, Appended
<1>5. ASSUME Live(cl, threads, mapped)
      PROVE  Live(next, threads, mapped)
  <2>1. \A i \in DOMAIN cl.strand : cl.strand[i] # LastReport
    BY <1>1, <1>5 DEF Live, Progress
  <2>2. cl.sessionState # "Disconnected"
    BY <1>1, <1>5 DEF Live, Progress
  <2>3. ASSUME NEW i \in DOMAIN next.strand, next.strand[i] = LastReport
        PROVE  /\ next.link = "down"
               /\ \A j \in DOMAIN next.strand : j > i => ~IsReport(next.strand[j])
    <3>1. i \notin DOMAIN cl.strand /\ next.strand[i] = <<"report", report>>
      BY <1>1, <2>1, <2>3 DEF Appended
    <3>2. next.link = "down"
      BY <1>1, <2>3, <3>1 DEF LastReport
    <3>3. ASSUME NEW j \in DOMAIN next.strand, j > i
          PROVE  FALSE
      BY <1>1, <3>1, <3>3 DEF Appended
    <3>4. QED
      BY <1>1, <3>2, <3>3
  <2>4. Progress(next)
    BY <1>1, <2>2, <2>3 DEF Progress
  <2>5. LogoutOrder(next, threads)
    <3>1. LogoutOrder(cl, threads)
      BY <1>5 DEF Live
    <3>2. \A i \in DOMAIN next.strand : IsLogout(next.strand[i]) =>
            i \in DOMAIN cl.strand /\ cl.strand[i] = next.strand[i]
      BY <1>1, ReportsDoNotAnswer DEF Appended
    <3>3. \A i, j \in DOMAIN next.strand :
            IsLogout(next.strand[i]) /\ IsLogout(next.strand[j]) /\ i < j
              => next.strand[i] = Remove /\ next.strand[j] \in ToAnswer
      BY <3>1, <3>2 DEF LogoutOrder
    <3>4. NoRemoves(cl.strand) => NoRemoves(next.strand)
      BY <3>2, ReportsDoNotAnswer DEF NoRemoves
    <3>5. threads > 0 => HasAnswer(next)
      BY <1>1, <1>3, <3>1 DEF LogoutOrder, Finished
    <3>6. QED
      BY <1>1, <1>4, <3>1, <3>3, <3>4, <3>5 DEF LogoutOrder
  <2>6. mapped \/ HasAnswer(next)
    BY <1>1, <1>3, <1>5 DEF Live, Finished
  <2>7. QED
    BY <1>1, <2>4, <2>5, <2>6 DEF Live
<1>6. QED
  BY <1>1, <1>2, <1>3, <1>4, <1>5 DEF ClientInv, Live, LogoutPending

Posted(cl, next, task) ==
  /\ next.owner = cl.owner /\ next.sessionState = cl.sessionState
  /\ next.link = cl.link /\ next.logoutContext = cl.logoutContext
  /\ Appended(cl.strand, next.strand, task)

\* When logout may be called: the peer's logout takes the session out of the map;
\* and before the close of a channel none has been asked for, unless shutdown keeps
\* the client from then on.
PostAllowed(cl, threads, callback, mapped, kept, keptNext) ==
  /\ IF callback \in Channels THEN ~mapped ELSE mapped
  /\ \/ keptNext
     \/ ~kept /\ callback \in Channels
     \/ ~kept /\ callback = "remove" /\ ~LogoutPending(cl, threads)

\* A peer, the end of its channel, or shutdown calls logout.
LEMMA LogoutPosted ==
  ASSUME NEW cl \in Client, NEW next \in Client, NEW threads \in Nat,
         NEW mapped1 \in BOOLEAN,
         NEW kept \in BOOLEAN, NEW kept1 \in BOOLEAN,
         ClientInv(cl, threads, TRUE, kept),
         NEW callback, PostAllowed(cl, threads, callback, mapped1, kept, kept1),
         Posted(cl, next, <<"logout", callback>>)
  PROVE  /\ ClientInv(next, threads, mapped1, kept1)
         /\ LogoutPending(next, threads)
<1>1. /\ next.owner = cl.owner /\ next.sessionState = cl.sessionState
      /\ next.link = cl.link /\ next.logoutContext = cl.logoutContext
      /\ Appended(cl.strand, next.strand, <<"logout", callback>>)
  BY DEF Posted
<1>2. cl.owner # None /\ ~HasAnswer(cl)
  BY DEF ClientInv
<1>3. HasAnswer(next) <=> callback \in Channels
  BY <1>1, <1>2, ReportsDoNotAnswer DEF HasAnswer, Appended
<1>4. ~NoLogouts(next.strand)
  BY <1>1, ReportsDoNotAnswer DEF NoLogouts, Appended
<1>5. ASSUME Live(cl, threads, TRUE),
             callback \in Channels \/ (callback = "remove" /\ ~LogoutPending(cl, threads))
      PROVE  Live(next, threads, mapped1)
  <2>1. ASSUME cl.sessionState = "Disconnected"
        PROVE  next.link = "down" /\ NoReports(next.strand)
    <3>1. cl.link = "down" /\ NoReports(cl.strand)
      BY <1>5, <2>1 DEF Live, Progress
    <3>2. QED
      BY <1>1, <3>1, ReportsDoNotAnswer DEF Appended, NoReports
  <2>2. \A i \in DOMAIN next.strand : next.strand[i] = LastReport =>
          /\ next.link = "down"
          /\ \A j \in DOMAIN next.strand : j > i => ~IsReport(next.strand[j])
    BY <1>1, <1>5, ReportsDoNotAnswer DEF Live, Progress, Appended
  <2>3. Progress(next)
    BY <1>1, <2>1, <2>2 DEF Progress
  <2>4. LogoutOrder(next, threads)
    <3>1. CASE callback \in Channels
      <4>1. LogoutOrder(cl, threads) /\ cl.logoutContext \notin Channels
            /\ \A i \in DOMAIN cl.strand : cl.strand[i] \notin ToAnswer
        BY <1>2, <1>5 DEF Live, HasAnswer
      <4>2. ASSUME NEW i \in DOMAIN next.strand, NEW j \in DOMAIN next.strand,
                   IsLogout(next.strand[i]), IsLogout(next.strand[j]), i < j
            PROVE  next.strand[i] = Remove /\ next.strand[j] \in ToAnswer
        <5>1. i \in DOMAIN cl.strand /\ next.strand[i] = cl.strand[i]
          BY <1>1, <4>2 DEF Appended
        <5>2. CASE j \in DOMAIN cl.strand
          BY <1>1, <4>1, <4>2, <5>1, <5>2 DEF LogoutOrder, Appended
        <5>3. CASE j \notin DOMAIN cl.strand
          <6>1. next.strand[j] \in ToAnswer
            BY <1>1, <3>1, <5>3, ReportsDoNotAnswer DEF Appended
          <6>2. cl.strand[i] \in Task
            BY <5>1 DEF Client
          <6>3. cl.strand[i] = Remove
            BY <4>1, <4>2, <5>1, <6>2
               DEF Task, Callback, IsLogout, ToAnswer, Remove
          <6>4. QED
            BY <5>1, <6>1, <6>3
        <5>4. QED
          BY <5>2, <5>3
      <4>3. NoRemoves(cl.strand) => NoRemoves(next.strand)
        BY <1>1, <3>1, ReportsDoNotAnswer DEF NoRemoves, Appended
      <4>4. QED
        BY <1>1, <1>3, <3>1, <4>1, <4>2, <4>3 DEF LogoutOrder
    <3>2. CASE callback = "remove" /\ ~LogoutPending(cl, threads)
      <4>1. cl.logoutContext = None /\ threads = 0 /\ NoLogouts(cl.strand)
        BY <3>2 DEF LogoutPending
      <4>2. QED
        BY <1>1, <4>1, ReportsDoNotAnswer DEF LogoutOrder, Appended, NoLogouts
    <3>3. QED
      BY <1>5, <3>1, <3>2
  <2>5. mapped1 \/ HasAnswer(next)
    BY <1>3, <1>5, ReportsDoNotAnswer DEF PostAllowed
  <2>6. QED
    BY <2>3, <2>4, <2>5 DEF Live
<1>6. QED
  BY <1>1, <1>2, <1>3, <1>4, <1>5 DEF ClientInv, Live, LogoutPending, PostAllowed

\* A task finds its client deleted: only when shutdown has returned.
LEMMA TaskLost ==
  ASSUME NEW cl \in Client, NEW next \in Client, NEW threads \in Nat,
         NEW mapped \in BOOLEAN, NEW kept \in BOOLEAN,
         ClientInv(cl, threads, mapped, kept), ~mapped, ~HasAnswer(cl),
         NEW task, Taken(cl.strand, next.strand, task),
         next.owner = cl.owner, next.logoutContext = cl.logoutContext
  PROVE  /\ ClientInv(next, threads, mapped, kept) /\ kept
         /\ LogoutPending(next, threads) => LogoutPending(cl, threads)
<1>1. cl.owner # None /\ kept
  BY DEF ClientInv, NewClient, Taken, Finished
<1>2. NoLogouts(cl.strand) => NoLogouts(next.strand)
  BY DEF NoLogouts, Taken
<1>3. QED
  BY <1>1, <1>2 DEF ClientInv, LogoutPending

\* The logouts that are left keep their order.
LEMMA TakenOrder ==
  ASSUME NEW strand, NEW next, NEW task, Taken(strand, next, task),
         \A i, j \in DOMAIN strand :
           IsLogout(strand[i]) /\ IsLogout(strand[j]) /\ i < j
             => strand[i] = Remove /\ strand[j] \in ToAnswer
  PROVE  \A i, j \in DOMAIN next :
           IsLogout(next[i]) /\ IsLogout(next[j]) /\ i < j
             => next[i] = Remove /\ next[j] \in ToAnswer
<1> SUFFICES ASSUME NEW i \in DOMAIN next, NEW j \in DOMAIN next,
                    IsLogout(next[i]), IsLogout(next[j]), i < j
             PROVE  next[i] = Remove /\ next[j] \in ToAnswer
  OBVIOUS
<1>1. /\ i + 1 \in DOMAIN strand /\ next[i] = strand[i + 1]
      /\ j + 1 \in DOMAIN strand /\ next[j] = strand[j + 1]
      /\ i \in Nat /\ j \in Nat
  BY DEF Taken
<1>2. i + 1 < j + 1
  BY <1>1
<1>3. QED
  BY <1>1, <1>2

\* A report that does not complete a logout.
LEMMA ReportTaken ==
  ASSUME NEW cl \in Client, NEW next \in Client, NEW threads \in Nat,
         NEW mapped \in BOOLEAN, NEW kept \in BOOLEAN,
         ClientInv(cl, threads, mapped, kept),
         NEW report, Taken(cl.strand, next.strand, <<"report", report>>),
         next.owner = cl.owner, next.sessionState = report,
         next.link = cl.link, next.logoutContext = cl.logoutContext
  PROVE  /\ ClientInv(next, threads, mapped, kept)
         /\ LogoutPending(next, threads) <=> LogoutPending(cl, threads)
<1>1. cl.owner # None
  BY DEF ClientInv, NewClient, Taken
<1>2. HasAnswer(next) <=> HasAnswer(cl)
  <2>1. (\E i \in DOMAIN next.strand : next.strand[i] \in ToAnswer)
          <=> (\E i \in DOMAIN cl.strand : cl.strand[i] \in ToAnswer)
    BY ReportsDoNotAnswer DEF Taken
  <2>2. QED
    BY <2>1 DEF HasAnswer
<1>3. NoLogouts(next.strand) <=> NoLogouts(cl.strand)
  BY ReportsDoNotAnswer, ZenonT(60) DEF NoLogouts, Taken
<1>4. ASSUME Live(cl, threads, mapped)
      PROVE  Live(next, threads, mapped)
  <2>1. ASSUME next.sessionState = "Disconnected"
        PROVE  next.link = "down" /\ NoReports(next.strand)
    <3>1. /\ 1 \in DOMAIN cl.strand /\ cl.strand[1] = LastReport
      BY <2>1 DEF Taken, LastReport
    <3>2. cl.link = "down"
          /\ \A j \in DOMAIN cl.strand : j > 1 => ~IsReport(cl.strand[j])
      BY <1>4, <3>1 DEF Live, Progress
    <3>3. QED
      BY <3>2 DEF NoReports, Taken
  <2>2. ASSUME NEW i \in DOMAIN next.strand, next.strand[i] = LastReport
        PROVE  /\ next.link = "down"
               /\ \A j \in DOMAIN next.strand : j > i => ~IsReport(next.strand[j])
    <3>1. i + 1 \in DOMAIN cl.strand /\ cl.strand[i + 1] = LastReport
      BY <2>2 DEF Taken
    <3>2. cl.link = "down"
          /\ \A j \in DOMAIN cl.strand : j > i + 1 => ~IsReport(cl.strand[j])
      BY <1>4, <3>1 DEF Live, Progress
    <3>3. ASSUME NEW j \in DOMAIN next.strand, j > i
          PROVE  ~IsReport(next.strand[j])
      <4>1. /\ j + 1 \in DOMAIN cl.strand /\ next.strand[j] = cl.strand[j + 1]
            /\ i \in Nat /\ j \in Nat
        BY DEF Taken
      <4>2. QED
        BY <3>2, <3>3, <4>1
    <3>4. QED
      BY <3>2, <3>3
  <2>3. LogoutOrder(next, threads)
    <3>1. LogoutOrder(cl, threads) /\ ~Finished(cl)
      BY <1>4 DEF Live, Finished, Taken
    <3>2. NoRemoves(cl.strand) => NoRemoves(next.strand)
      BY DEF NoRemoves, Taken
    <3>3. \A i, j \in DOMAIN next.strand :
            IsLogout(next.strand[i]) /\ IsLogout(next.strand[j]) /\ i < j
              => next.strand[i] = Remove /\ next.strand[j] \in ToAnswer
      BY <3>1, TakenOrder DEF LogoutOrder
    <3>4. QED
      BY <1>2, <1>3, <3>1, <3>2, <3>3 DEF LogoutOrder
  <2>4. mapped \/ HasAnswer(next)
    BY <1>2, <1>4 DEF Live, Finished, Taken
  <2>5. QED
    BY <2>1, <2>2, <2>3, <2>4 DEF Live, Progress
<1>5. QED
  BY <1>1, <1>2, <1>3, <1>4 DEF ClientInv, Live, LogoutPending

\* A call of logout that has to wait for the end of the session.
LEMMA LogoutTaken ==
  ASSUME NEW cl \in Client, NEW next \in Client, NEW threads \in Nat,
         NEW mapped \in BOOLEAN, NEW kept \in BOOLEAN,
         ClientInv(cl, threads, mapped, kept),
         NEW callback \in Callback, Taken(cl.strand, next.strand, <<"logout", callback>>),
         next.owner = cl.owner, cl.sessionState # "Disconnected",
         next.sessionState = cl.sessionState,
         cl.link = "down" => next.link = "down", next.logoutContext = callback
  PROVE  /\ ClientInv(next, threads, mapped, kept)
         /\ LogoutPending(next, threads) /\ LogoutPending(cl, threads)
<1>1. cl.owner # None /\ callback # None
  BY ReportsDoNotAnswer DEF ClientInv, NewClient, Taken, Callback
<1>2. HasAnswer(next) => HasAnswer(cl)
  <2>1. callback \in Channels => \E i \in DOMAIN cl.strand : cl.strand[i] \in ToAnswer
    BY ReportsDoNotAnswer DEF Taken
  <2>2. (\E i \in DOMAIN next.strand : next.strand[i] \in ToAnswer)
          => (\E i \in DOMAIN cl.strand : cl.strand[i] \in ToAnswer)
    BY DEF Taken
  <2>3. QED
    BY <2>1, <2>2 DEF HasAnswer
<1>3. LogoutPending(next, threads) /\ LogoutPending(cl, threads)
  BY <1>1, ReportsDoNotAnswer DEF LogoutPending, NoLogouts, Taken
<1>4. ASSUME Live(cl, threads, mapped)
      PROVE  Live(next, threads, mapped)
  <2>1. LogoutOrder(cl, threads) /\ ~Finished(cl)
        /\ cl.strand[1] = <<"logout", callback>> /\ 1 \in DOMAIN cl.strand
        /\ ~NoLogouts(cl.strand)
    BY <1>4, ReportsDoNotAnswer DEF Live, Finished, Taken, NoLogouts
  <2>2. ASSUME NEW i \in DOMAIN next.strand, IsLogout(next.strand[i])
        PROVE  next.strand[i] \in ToAnswer /\ callback = "remove"
    <3>1. i + 1 \in DOMAIN cl.strand /\ next.strand[i] = cl.strand[i + 1] /\ 1 < i + 1
      BY <2>2 DEF Taken
    <3>2. IsLogout(cl.strand[1])
      BY <2>1, ReportsDoNotAnswer
    <3>3. cl.strand[1] = Remove /\ cl.strand[i + 1] \in ToAnswer
      BY <2>1, <2>2, <3>1, <3>2 DEF LogoutOrder
    <3>4. QED
      BY <2>1, <3>1, <3>3, ReportsDoNotAnswer
  <2>3. cl.logoutContext \notin Channels
    BY <2>1 DEF LogoutOrder
  <2>4. LogoutOrder(next, threads)
    <3>1. \A i, j \in DOMAIN next.strand :
            IsLogout(next.strand[i]) /\ IsLogout(next.strand[j]) /\ i < j
              => next.strand[i] = Remove /\ next.strand[j] \in ToAnswer
      BY <2>1, TakenOrder DEF LogoutOrder
    <3>2. callback \in Channels => NoLogouts(next.strand)
      BY <2>2, ReportsDoNotAnswer DEF NoLogouts
    <3>3. NoRemoves(next.strand)
      BY <2>2, ReportsDoNotAnswer DEF NoRemoves
    <3>4. threads > 0 => callback # "remove" /\ HasAnswer(next)
      <4>1. ASSUME threads > 0
            PROVE  callback # "remove"
        BY <2>1, <4>1, ReportsDoNotAnswer DEF LogoutOrder, NoRemoves
      <4>2. callback # "remove" => callback \in Channels
        BY DEF Callback
      <4>3. QED
        BY <4>1, <4>2 DEF HasAnswer
    <3>5. QED
      BY <3>1, <3>2, <3>3, <3>4 DEF LogoutOrder
  <2>5. ASSUME NEW i \in DOMAIN next.strand, next.strand[i] = LastReport
        PROVE  /\ next.link = "down"
               /\ \A j \in DOMAIN next.strand : j > i => ~IsReport(next.strand[j])
    <3>1. i + 1 \in DOMAIN cl.strand /\ cl.strand[i + 1] = LastReport
      BY <2>5 DEF Taken
    <3>2. cl.link = "down"
          /\ \A j \in DOMAIN cl.strand : j > i + 1 => ~IsReport(cl.strand[j])
      BY <1>4, <3>1 DEF Live, Progress
    <3>3. ASSUME NEW j \in DOMAIN next.strand, j > i
          PROVE  ~IsReport(next.strand[j])
      <4>1. /\ j + 1 \in DOMAIN cl.strand /\ next.strand[j] = cl.strand[j + 1]
            /\ i \in Nat /\ j \in Nat
        BY DEF Taken
      <4>2. QED
        BY <3>2, <3>3, <4>1
    <3>4. QED
      BY <3>2, <3>3
  <2>6. Progress(next)
    BY <2>5 DEF Progress
  <2>7. HasAnswer(cl) => HasAnswer(next)
    <3>1. ASSUME NEW i \in DOMAIN cl.strand, cl.strand[i] \in ToAnswer
          PROVE  HasAnswer(next)
      <4>1. i = 1 \/ (i - 1 \in DOMAIN next.strand /\ next.strand[i - 1] = cl.strand[i])
        BY DEF Taken
      <4>2. i = 1 => callback \in Channels
        BY <2>1, <3>1, ReportsDoNotAnswer
      <4>3. QED
        BY <3>1, <4>1, <4>2 DEF HasAnswer
    <3>2. QED
      BY <2>3, <3>1 DEF HasAnswer
  <2>8. QED
    BY <1>4, <2>4, <2>6, <2>7 DEF Live, Finished, Taken
<1>5. QED
  BY <1>1, <1>2, <1>3, <1>4 DEF ClientInv, Live

\* The task that completes a logout; what it leaves to a thread.
Completes(cl, task, callback, kept) ==
  \/ task = LastReport /\ cl.logoutContext = callback
  \/ task = <<"logout", callback>> /\ (cl.sessionState = "Disconnected" \/ kept)

ToBeErased(callback, mapped, threads) ==
  callback \notin Channels /\ mapped => threads > 0

\* The completion of a logout, by the last report or by a logout that has nothing
\* to wait for.
LEMMA LogoutCompleted ==
  ASSUME NEW cl \in Client, NEW next \in Client, NEW threads \in Nat, NEW threads1 \in Nat,
         NEW mapped \in BOOLEAN, NEW kept \in BOOLEAN, NEW kept1 \in BOOLEAN,
         ClientInv(cl, threads, mapped, kept), kept => kept1,
         NEW callback \in Callback, NEW task, Taken(cl.strand, next.strand, task),
         Completes(cl, task, callback, kept1),
         next.owner = cl.owner, next.link = cl.link, next.logoutContext = None,
         ToBeErased(callback, mapped, threads1)
  PROVE  /\ ClientInv(next, threads1, mapped, kept1) /\ LogoutPending(cl, threads)
         /\ mapped => LogoutPending(next, threads1)
<1>1. cl.owner # None /\ callback # None
  BY ReportsDoNotAnswer DEF ClientInv, NewClient, Taken, Callback
<1>2. HasAnswer(next) => HasAnswer(cl)
  BY ReportsDoNotAnswer DEF HasAnswer, Taken
<1>3. LogoutPending(cl, threads)
  BY <1>1, ReportsDoNotAnswer DEF LogoutPending, NoLogouts, Taken, Completes
<1>4. callback \in Channels => HasAnswer(cl)
  BY ReportsDoNotAnswer DEF HasAnswer, Taken, Completes
<1>5. ASSUME Live(cl, threads, mapped), ~kept1
      PROVE  Live(next, threads1, mapped)
  <2>1. LogoutOrder(cl, threads) /\ 1 \in DOMAIN cl.strand /\ cl.strand[1] = task
    BY <1>5 DEF Live, Taken
  <2>2. cl.link = "down" /\ NoReports(next.strand)
    <3>1. CASE task = LastReport /\ cl.logoutContext = callback
      <4>1. cl.link = "down"
            /\ \A j \in DOMAIN cl.strand : j > 1 => ~IsReport(cl.strand[j])
        BY <1>5, <2>1, <3>1 DEF Live, Progress
      <4>2. QED
        BY <4>1 DEF NoReports, Taken
    <3>2. CASE task = <<"logout", callback>> /\ cl.sessionState = "Disconnected"
      BY <1>5, <3>2 DEF Live, Progress, NoReports, Taken
    <3>3. QED
      BY <1>5, <3>1, <3>2 DEF Completes
  <2>3. \A i \in DOMAIN next.strand :
          IsLogout(next.strand[i]) => next.strand[i] \in ToAnswer
    <3>1. TAKE i \in DOMAIN next.strand
    <3>2. i + 1 \in DOMAIN cl.strand /\ next.strand[i] = cl.strand[i + 1] /\ 1 < i + 1
      BY DEF Taken
    <3>3. CASE task = LastReport /\ cl.logoutContext = callback
      <4>1. callback \in Channels => NoLogouts(cl.strand)
        BY <2>1, <3>3 DEF LogoutOrder
      <4>2. callback = "remove" => NoRemoves(cl.strand)
        BY <2>1, <3>3 DEF LogoutOrder
      <4>3. cl.strand[i + 1] \in Task
        BY <3>2 DEF Client
      <4>4. QED
        BY <3>2, <4>1, <4>2, <4>3
           DEF Callback, NoLogouts, NoRemoves, Task, IsLogout, ToAnswer, Remove
    <3>4. CASE task = <<"logout", callback>>
      BY <2>1, <3>2, <3>4, ReportsDoNotAnswer DEF LogoutOrder
    <3>5. QED
      BY <3>3, <3>4 DEF Completes
  <2>4. HasAnswer(next) \/ Finished(next)
    <3>1. CASE NoLogouts(next.strand)
      <4>1. next.strand = <<>>
        BY <2>2, <3>1, NothingQueued DEF Client
      <4>2. QED
        BY <2>2, <4>1 DEF Finished
    <3>2. CASE ~NoLogouts(next.strand)
      BY <2>3, <3>2 DEF NoLogouts, HasAnswer
    <3>3. QED
      BY <3>1, <3>2
  <2>5. Progress(next)
    BY <2>2, ReportsDoNotAnswer DEF Progress, NoReports, LastReport
  <2>6. LogoutOrder(next, threads1)
    <3>1. \A i, j \in DOMAIN next.strand :
            IsLogout(next.strand[i]) /\ IsLogout(next.strand[j]) /\ i < j
              => next.strand[i] = Remove /\ next.strand[j] \in ToAnswer
      BY <2>1, TakenOrder DEF LogoutOrder
    <3>2. NoRemoves(next.strand)
      BY <2>3, ReportsDoNotAnswer DEF NoRemoves
    <3>3. QED
      BY <2>4, <3>1, <3>2, ReportsDoNotAnswer DEF LogoutOrder
  <2>7. QED
    BY <2>4, <2>5, <2>6 DEF Live
<1>6. ClientInv(next, threads1, mapped, kept1)
  BY <1>1, <1>2, <1>5 DEF ClientInv, Live
<1>7. mapped => LogoutPending(next, threads1)
  BY <1>4 DEF ClientInv, LogoutPending, ToBeErased
<1>8. QED
  BY <1>3, <1>6, <1>7

-----------------------------------------------------------------------------
(* Steps of one client, and of the threads.                                *)

LEMMA LocalFrame ==
  ASSUME NEW t \in Clients, LocalInv(t), client'[t] = client[t], erasing'[t] = erasing[t],
         t \in clientMap' <=> t \in clientMap, Kept(t) => Kept(t)'
  PROVE  LocalInv(t)'
BY DEF LocalInv, ClientInv

LEMMA UnderWayFrame ==
  ASSUME NEW t \in Clients, client'[t] = client[t], erasing'[t] = erasing[t]
  PROVE  LogoutUnderWay(t)' <=> LogoutUnderWay(t)
BY DEF LogoutUnderWay

\* What a step of its own does to a session, as far as the lists are concerned.
Steady(t) ==
  /\ client'[t].owner = client[t].owner
  /\ t \in clientMap' => t \in clientMap
  /\ t \in clientMap \ clientMap' => LogoutUnderWay(t)
  /\ LogoutUnderWay(t)' => LogoutUnderWay(t)
  /\ LogoutUnderWay(t) /\ t \in clientMap' => LogoutUnderWay(t)'
  /\ ~LogoutUnderWay(t) => client'[t].sessionService = client[t].sessionService

LEMMA SteadyLists ==
  ASSUME TypeOK, TypeOK', \A t \in Clients : Steady(t),
         UNCHANGED <<chan, sessions, dismissed>>, ListInv, MapInv
  PROVE  ListInv' /\ MapInv'
<1>1. ASSUME NEW c \in Channels, NEW i \in DOMAIN sessions[c]
      PROVE  LET s == sessions[c][i]
             IN  /\ client'[s].owner = c /\ chan[c] \in {"open", "closing"}
                 /\ s \in clientMap' /\ client'[s].sessionService /\ ~LogoutUnderWay(s)'
                 /\ \A j \in DOMAIN sessions[c] : sessions[c][j] = s => i = j
  <2> DEFINE s == sessions[c][i]
  <2>1. s \in Clients
    BY DEF TypeOK
  <2>2. /\ client[s].owner = c /\ chan[c] \in {"open", "closing"}
        /\ s \in clientMap /\ client[s].sessionService /\ ~LogoutUnderWay(s)
        /\ \A j \in DOMAIN sessions[c] : sessions[c][j] = s => i = j
    BY DEF ListInv
  <2>3. Steady(s)
    BY <2>1
  <2> HIDE DEF s
  <2>4. QED
    BY <2>2, <2>3 DEF Steady, s
<1>2. ListInv'
  BY <1>1 DEF ListInv
<1>3. ASSUME NEW s \in clientMap'
      PROVE  \/ Listed(client'[s].owner, s)
             \/ LogoutUnderWay(s)' /\ Closed(s)'
  <2>1. Steady(s) /\ s \in Clients
    BY DEF TypeOK
  <2>2. s \in clientMap /\ client'[s].owner = client[s].owner
    BY <2>1 DEF Steady
  <2>3. Closed(s)' <=> Closed(s)
    BY <2>2 DEF Closed
  <2>4. QED
    BY <2>1, <2>2, <2>3 DEF Steady, MapInv
<1>4. MapInv'
  BY <1>3 DEF MapInv, Listed
<1>5. QED
  BY <1>2, <1>4

LEMMA SteadyStep ==
  ASSUME SessionInv, TypeOK', WaitInv', \A t \in Clients : LocalInv(t)',
         \A t \in Clients : Steady(t),
         UNCHANGED <<chan, sessions, leaked, manager, shutdownCallback, held, dismissed>>
  PROVE  SessionInv'
<1>1. PhaseInv'
  <2>1. ASSUME NEW s \in clientMap', manager = "waiting"
        PROVE  LogoutUnderWay(s)'
    <3>1. Steady(s)
      BY DEF TypeOK
    <3>2. s \in clientMap
      BY <3>1 DEF Steady
    <3>3. LogoutUnderWay(s)
      BY <2>1, <3>2 DEF SessionInv, PhaseInv
    <3>4. QED
      BY <3>1, <3>3 DEF Steady
  <2>2. QED
    BY <2>1 DEF SessionInv, PhaseInv
<1>2. ~shutdownCallback => ListInv' /\ MapInv'
  BY SteadyLists DEF SessionInv
<1>3. QED
  BY <1>1, <1>2 DEF SessionInv

\* A step of one client, which stays in the map if it is there.
LEMMA OneClientStep ==
  ASSUME SessionInv, TypeOK', WaitInv', NEW s \in Clients, NEW next,
         client' = [client EXCEPT ![s] = next],
         \A t \in Clients : t # s => erasing'[t] = erasing[t],
         UNCHANGED <<chan, sessions, clientMap, leaked, manager, shutdownCallback, held,
                     dismissed>>,
         ClientInv(next, erasing'[s], s \in clientMap, Kept(s) \/ next.hasty),
         client[s].hasty => next.hasty,
         next.owner = client[s].owner,
         LogoutPending(next, erasing'[s]) => LogoutPending(client[s], erasing[s]),
         LogoutPending(client[s], erasing[s]) /\ s \in clientMap
           => LogoutPending(next, erasing'[s]),
         ~LogoutPending(client[s], erasing[s])
           => next.sessionService = client[s].sessionService
  PROVE  SessionInv'
<1>1. client \in [Clients -> Client] /\ client'[s] = next
      /\ \A t \in Clients : t # s => client'[t] = client[t]
  BY DEF SessionInv, TypeOK
<1>2. /\ \A t \in Clients : t # s => (Kept(t)' <=> Kept(t))
      /\ Kept(s)' <=> Kept(s) \/ next.hasty
  BY <1>1 DEF Kept
<1>3. \A t \in Clients : LocalInv(t)'
  <2>1. TAKE t \in Clients
  <2>2. CASE t = s
    <3>1. LocalInv(s)' <=> ClientInv(next, erasing'[s], s \in clientMap, Kept(s)')
      BY <1>1 DEF LocalInv, ClientInv
    <3>2. ClientInv(next, erasing'[s], s \in clientMap, Kept(s)')
      BY <1>2 DEF ClientInv
    <3>3. QED
      BY <2>2, <3>1, <3>2
  <2>3. CASE t # s
    BY <1>1, <1>2, <2>3, LocalFrame DEF SessionInv
  <2>4. QED
    BY <2>2, <2>3
<1>4. \A t \in Clients : Steady(t)
  <2>1. TAKE t \in Clients
  <2>2. CASE t = s
    <3>1. LogoutUnderWay(s) <=> LogoutPending(client[s], erasing[s])
      BY UnderWayIsPending
    <3>2. LogoutUnderWay(s)' <=> LogoutPending(next, erasing'[s])
      BY <1>1 DEF LogoutUnderWay, LogoutPending, NoLogouts, IsLogout
    <3>3. QED
      BY <1>1, <2>2, <3>1, <3>2 DEF Steady
  <2>3. CASE t # s
    BY <1>1, <2>3, UnderWayFrame DEF Steady
  <2>4. QED
    BY <2>2, <2>3
<1>5. QED
  BY <1>3, <1>4, SteadyStep

\* The client and its strand are typed, and so are the arguments of ClientInv.
LEMMA ClientTypes ==
  ASSUME SessionInv, NEW s \in Clients
  PROVE  /\ client[s] \in Client /\ client[s].strand \in Seq(Task)
         /\ erasing[s] \in Nat /\ (s \in clientMap) \in BOOLEAN /\ Kept(s) \in BOOLEAN
         /\ ClientInv(client[s], erasing[s], s \in clientMap, Kept(s))
BY DEF SessionInv, TypeOK, Client, Kept, LocalInv

\* Requests and results.
LEMMA PendingStep ==
  ASSUME SessionInv, TypeOK', WaitInv', NEW s \in Clients, NEW n,
         client' = [client EXCEPT ![s].pending = n], client[s].owner # None,
         UNCHANGED <<chan, sessions, clientMap, leaked, manager, ending, dismissed>>
  PROVE  SessionInv'
<1> DEFINE next == [client[s] EXCEPT !.pending = n]
<1>1. /\ client[s] \in Client /\ erasing[s] \in Nat
      /\ ClientInv(client[s], erasing[s], s \in clientMap, Kept(s))
  BY ClientTypes
<1>2. /\ next.owner = client[s].owner /\ next.strand = client[s].strand
      /\ next.sessionState = client[s].sessionState /\ next.link = client[s].link
      /\ next.logoutContext = client[s].logoutContext
      /\ next.sessionService = client[s].sessionService
      /\ next.hasty = client[s].hasty
  BY <1>1 DEF Client
<1>3. client' = [client EXCEPT ![s] = next]
  OBVIOUS
<1> HIDE DEF next
<1>4. ClientInv(next, erasing[s], s \in clientMap, Kept(s) \/ next.hasty)
  BY <1>1, <1>2 DEF ClientInv, Progress, LogoutOrder, HasAnswer, Finished
<1>5. LogoutPending(next, erasing[s]) <=> LogoutPending(client[s], erasing[s])
  BY <1>2 DEF LogoutPending
<1>6. UNCHANGED <<shutdownCallback, held, erasing>>
  BY DEF ending
<1>7. QED
  BY <1>2, <1>3, <1>4, <1>5, <1>6, OneClientStep

LEMMA SessionReportsStep ==
  ASSUME SessionInv, TypeOK', WaitInv', NEW s \in Clients, NEW from, "down" \notin from,
         NEW to \in {"connecting", "up", "down"}, NEW report \in Report,
         report = "Disconnected" => to = "down", SessionReports(s, from, to, report)
  PROVE  SessionInv'
<1> DEFINE moved == [client[s] EXCEPT !.link = to]
           next == Post(moved, <<"report", report>>)
<1>1. /\ client[s] \in Client /\ client[s].strand \in Seq(Task) /\ erasing[s] \in Nat
      /\ (s \in clientMap) \in BOOLEAN /\ Kept(s) \in BOOLEAN
      /\ ClientInv(client[s], erasing[s], s \in clientMap, Kept(s))
      /\ client[s].link # "down" /\ client' = [client EXCEPT ![s] = next]
      /\ UNCHANGED <<chan, sessions, clientMap, manager, leaked, ending, dismissed>>
  BY ClientTypes DEF SessionReports
<1>2. /\ next.owner = client[s].owner /\ next.link = to /\ next.hasty = client[s].hasty
      /\ next.sessionState = client[s].sessionState
      /\ next.logoutContext = client[s].logoutContext
      /\ next.sessionService = client[s].sessionService
      /\ next.strand = Append(client[s].strand, <<"report", report>>)
  BY <1>1 DEF Post, Client
<1>3. <<"report", report>> \in Task
  BY TaskTypes DEF Report
<1>4. Appended(client[s].strand, next.strand, <<"report", report>>)
  BY <1>1, <1>2, <1>3, AppendAppended
<1>5. next \in Client
  <2>1. moved \in Client
    BY <1>1 DEF Client
  <2>2. QED
    BY <1>3, <2>1, PostType
<1> HIDE DEF next
<1>6. /\ ClientInv(next, erasing[s], s \in clientMap, Kept(s) \/ next.hasty)
      /\ LogoutPending(next, erasing[s]) <=> LogoutPending(client[s], erasing[s])
  <2> DEFINE old == client[s]
             threads == erasing[s]
             mapped == s \in clientMap
             kept == Kept(s)
  <2>1. /\ old \in Client /\ threads \in Nat /\ mapped \in BOOLEAN /\ kept \in BOOLEAN
        /\ ClientInv(old, threads, mapped, kept) /\ Reported(old, next, report)
    BY <1>1, <1>2, <1>4 DEF Reported
  <2> HIDE DEF old, threads, mapped, kept
  <2>2. /\ ClientInv(next, threads, mapped, kept)
        /\ LogoutPending(next, threads) <=> LogoutPending(old, threads)
    BY <1>5, <2>1, ReportPosted
  <2>3. QED
    BY <2>2 DEF old, threads, mapped, kept, ClientInv
<1>7. UNCHANGED <<shutdownCallback, held, erasing>>
  BY <1>1 DEF ending
<1>8. QED
  BY <1>1, <1>2, <1>6, <1>7, OneClientStep

LEMMA RunStrandStep ==
  ASSUME SessionInv, TypeOK', WaitInv', NEW s \in Clients, RunStrand(s)
  PROVE  SessionInv'
<1> DEFINE old == client[s]
           task == Head(old.strand)
           cl == [old EXCEPT !.strand = Tail(@)]
           mapped == s \in clientMap
<1>1. /\ old \in Client /\ old.strand \in Seq(Task) /\ old.strand # <<>>
      /\ erasing[s] \in Nat /\ mapped \in BOOLEAN /\ Kept(s) \in BOOLEAN
      /\ ClientInv(old, erasing[s], mapped, Kept(s))
  BY ClientTypes DEF RunStrand
<1>2. /\ cl \in Client /\ task \in Task /\ Taken(old.strand, cl.strand, task)
      /\ cl.owner = old.owner /\ cl.sessionState = old.sessionState
      /\ cl.link = old.link /\ cl.logoutContext = old.logoutContext
      /\ cl.sessionService = old.sessionService /\ cl.hasty = old.hasty
  <2>1. cl \in Client /\ task \in Task
    BY <1>1, TakenType
  <2>2. cl.strand = Tail(old.strand)
    BY <1>1 DEF Client
  <2>3. Taken(old.strand, cl.strand, task)
    BY <1>1, <2>2, TailTaken
  <2>4. QED
    BY <1>1, <2>1, <2>3 DEF Client
<1>3. UNCHANGED <<chan, sessions, clientMap, manager, leaked, shutdownCallback, held,
                  dismissed>>
  BY DEF RunStrand
<1>4. client \in [Clients -> Client] /\ erasing \in [Clients -> Nat]
  BY DEF SessionInv, TypeOK
<1>5. \/ ~Alive(s) /\ client' = [client EXCEPT ![s] = cl] /\ erasing' = erasing
      \/ task[1] = "report" /\ HandleReport(s, cl, task[2])
      \/ task[1] = "logout" /\ Logout(s, cl, task[2])
  BY DEF RunStrand
<1>6. \/ task = <<"report", task[2]>> /\ task[1] = "report" /\ task[2] \in Report
      \/ task = <<"logout", task[2]>> /\ task[1] = "logout" /\ task[2] \in Callback
  BY <1>2 DEF Task
<1>7. ~Alive(s) => ~mapped /\ ~HasAnswer(old)
  BY DEF Alive, HasAnswer, ToAnswer
<1>8. ASSUME NEW base \in Client, NEW callback \in Callback,
             LogoutComplete(s, base, callback),
             base.strand = cl.strand, base.owner = old.owner, base.link = old.link,
             old.hasty => base.hasty,
             Completes(old, task, callback, base.hasty)
      PROVE  SessionInv'
  <2> DEFINE gone == [base EXCEPT !.sessionService = FALSE, !.logoutContext = None]
             told == [gone EXCEPT !.asked = FALSE]
  <2>1. gone \in Client /\ told \in Client
    <3>1. gone \in Client
      BY <1>8 DEF Client
    <3> HIDE DEF gone
    <3>2. QED
      BY <3>1, AnsweredType
  <2>2. \A next \in {gone, told} :
          /\ next.owner = old.owner /\ next.strand = cl.strand
          /\ next.hasty = base.hasty /\ next.link = old.link
          /\ next.logoutContext = None
    BY <1>8 DEF Client
  <2>3. \E next \in {gone, told} :
          /\ client' = [client EXCEPT ![s] = next]
          /\ erasing' = erasing \/ erasing' = [erasing EXCEPT ![s] = @ + 1]
          /\ callback \notin Channels /\ mapped
               => erasing' = [erasing EXCEPT ![s] = @ + 1]
    BY <1>8 DEF LogoutComplete, Callback
  <2> HIDE DEF gone, told
  <2>4. PICK next \in {gone, told} :
          /\ client' = [client EXCEPT ![s] = next]
          /\ erasing' = erasing \/ erasing' = [erasing EXCEPT ![s] = @ + 1]
          /\ callback \notin Channels /\ mapped
               => erasing' = [erasing EXCEPT ![s] = @ + 1]
    BY <2>3
  <2>5. /\ next \in Client /\ next.owner = old.owner /\ next.strand = cl.strand
        /\ next.hasty = base.hasty /\ next.link = old.link
        /\ next.logoutContext = None
    BY <2>1, <2>2
  <2>6. /\ erasing'[s] \in Nat
        /\ callback \notin Channels /\ mapped => erasing'[s] > 0
        /\ \A t \in Clients : t # s => erasing'[t] = erasing[t]
    BY <1>4, <2>4
  <2>7. /\ ClientInv(next, erasing'[s], mapped, Kept(s) \/ next.hasty)
        /\ LogoutPending(old, erasing[s])
        /\ mapped => LogoutPending(next, erasing'[s])
    <3>1. Completes(old, task, callback, Kept(s) \/ next.hasty)
      BY <1>8, <2>5 DEF Completes
    <3>2. ToBeErased(callback, mapped, erasing'[s]) /\ erasing'[s] \in Nat
      BY <2>6 DEF ToBeErased
    <3> HIDE DEF old, task, cl, mapped
    <3>3. Taken(old.strand, next.strand, task)
      BY <1>2, <2>5
    <3> DEFINE threads == erasing[s]
               threads1 == erasing'[s]
               kept == Kept(s)
               kept1 == Kept(s) \/ next.hasty
    <3>4. threads \in Nat /\ threads1 \in Nat /\ mapped \in BOOLEAN /\ kept \in BOOLEAN
          /\ kept1 \in BOOLEAN /\ (kept => kept1)
          /\ old \in Client /\ ClientInv(old, threads, mapped, kept)
          /\ ToBeErased(callback, mapped, threads1)
          /\ Completes(old, task, callback, kept1)
      BY <1>1, <3>1, <3>2
    <3> HIDE DEF threads, threads1, kept, kept1
    <3>5. ClientInv(next, threads1, mapped, kept1) /\ LogoutPending(old, threads)
          /\ (mapped => LogoutPending(next, threads1))
      BY <1>8, <2>5, <3>3, <3>4, LogoutCompleted
    <3>6. QED
      BY <3>5 DEF threads, threads1, kept1
  <2> HIDE DEF old, task, cl, mapped
  <2>8. QED
    BY <1>3, <1>8, <2>4, <2>5, <2>6, <2>7, OneClientStep DEF old, mapped
<1>9. CASE ~Alive(s) /\ client' = [client EXCEPT ![s] = cl] /\ erasing' = erasing
  <2> HIDE DEF old, task, cl, mapped
  <2>1. /\ ClientInv(cl, erasing[s], mapped, Kept(s)) /\ ~mapped
        /\ LogoutPending(cl, erasing[s]) => LogoutPending(old, erasing[s])
    BY <1>1, <1>2, <1>7, <1>9, TaskLost
  <2>2. ClientInv(cl, erasing[s], mapped, Kept(s) \/ cl.hasty)
    BY <2>1 DEF ClientInv
  <2>3. QED
    BY <1>2, <1>3, <1>9, <2>1, <2>2, OneClientStep DEF old, mapped
<1>10. CASE task[1] = "report" /\ HandleReport(s, cl, task[2])
  <2> DEFINE now == [cl EXCEPT !.sessionState = task[2]]
  <2>1. task = <<"report", task[2]>> /\ task[2] \in Report
    BY <1>6, <1>10
  <2> HIDE DEF task, old, mapped
  <2>2. /\ now \in Client /\ now.strand = cl.strand /\ now.owner = old.owner
        /\ now.sessionState = task[2] /\ now.link = old.link
        /\ now.logoutContext = old.logoutContext
        /\ now.sessionService = old.sessionService /\ now.hasty = old.hasty
    <3> HIDE DEF cl
    <3>1. QED
      BY <1>2, <2>1 DEF Client
  <2> HIDE DEF cl
  <2>3. CASE task[2] = "Disconnected" /\ cl.logoutContext # None
    <3>1. LogoutComplete(s, now, cl.logoutContext) /\ cl.logoutContext = old.logoutContext
      BY <1>2, <1>10, <2>3 DEF HandleReport
    <3>2. old.logoutContext \in Callback
      BY <1>1, <1>2, <2>3 DEF Client
    <3>3. Completes(old, task, old.logoutContext, now.hasty)
      BY <2>1, <2>3 DEF LastReport, Completes
    <3> HIDE DEF now
    <3>4. QED
      BY <1>8, <2>2, <2>3, <3>1, <3>2, <3>3
  <2>4. CASE ~(task[2] = "Disconnected" /\ cl.logoutContext # None)
    <3>1. client' = [client EXCEPT ![s] = now] /\ erasing' = erasing
      BY <1>10, <2>4 DEF HandleReport
    <3> HIDE DEF now
    <3>2. /\ ClientInv(now, erasing[s], mapped, Kept(s))
          /\ LogoutPending(now, erasing[s]) <=> LogoutPending(old, erasing[s])
      BY <1>1, <1>2, <2>1, <2>2, ReportTaken
    <3>3. ClientInv(now, erasing[s], mapped, Kept(s) \/ now.hasty)
      BY <3>2 DEF ClientInv
    <3>4. QED
      BY <1>3, <2>2, <3>1, <3>2, <3>3, OneClientStep DEF old, mapped
  <2>5. QED
    BY <2>3, <2>4
<1>11. CASE task[1] = "logout" /\ Logout(s, cl, task[2])
  <2> DEFINE waits == Disconnecting(cl, task[2])
             early == [cl EXCEPT !.hasty = @ \/ cl.sessionState = "Initial"]
  <2>1. task = <<"logout", task[2]>> /\ task[2] \in Callback
    BY <1>6, <1>11
  <2> HIDE DEF task, old, mapped, cl
  <2>2. /\ waits \in Client /\ waits.strand = cl.strand /\ waits.owner = old.owner
        /\ waits.sessionState = old.sessionState /\ waits.hasty = old.hasty
        /\ old.link = "down" => waits.link = "down"
        /\ waits.logoutContext = task[2]
    BY <1>2, <2>1, DisconnectingType
  <2>3. CASE cl.sessionState \in {"Initial", "Disconnected"}
    <3>1. LogoutComplete(s, early, task[2])
      BY <1>11, <2>3 DEF Logout
    <3>2. /\ early \in Client /\ early.strand = cl.strand /\ early.owner = old.owner
          /\ early.link = old.link
          /\ early.hasty = (cl.hasty \/ cl.sessionState = "Initial")
      <4>1. early \in Client
        BY <1>2, HastyType
      <4>2. QED
        BY <1>2, <4>1 DEF Client
    <3> HIDE DEF early
    <3>3. Completes(old, task, task[2], early.hasty)
      BY <1>2, <2>1, <2>3, <3>2 DEF Completes
    <3>4. QED
      BY <1>2, <1>8, <2>1, <3>1, <3>2, <3>3
  <2>4. CASE cl.sessionState \notin {"Initial", "Disconnected"}
    <3>1. client' = [client EXCEPT ![s] = waits] /\ erasing' = erasing
      BY <1>11, <2>4 DEF Logout
    <3> HIDE DEF waits
    <3>2. /\ ClientInv(waits, erasing[s], mapped, Kept(s))
          /\ LogoutPending(waits, erasing[s]) /\ LogoutPending(old, erasing[s])
      BY <1>1, <1>2, <2>1, <2>2, <2>4, LogoutTaken
    <3>3. ClientInv(waits, erasing[s], mapped, Kept(s) \/ waits.hasty)
      BY <3>2 DEF ClientInv
    <3>4. QED
      BY <1>3, <2>2, <3>1, <3>2, <3>3, OneClientStep DEF old, mapped
  <2>5. QED
    BY <2>3, <2>4
<1>12. QED
  BY <1>5, <1>9, <1>10, <1>11

LEMMA ThreadStep ==
  ASSUME SessionInv, TypeOK', WaitInv', NEW s \in Clients, Erase(s) \/ Notify(s)
  PROVE  SessionInv'
<1>1. CASE Erase(s)
  <2>1. /\ erasing[s] > 0 /\ clientMap' = clientMap \ {s} /\ client' = client
        /\ UNCHANGED <<chan, sessions, leaked, manager, shutdownCallback, held, dismissed>>
        /\ erasing' = [erasing EXCEPT ![s] = @ - 1] /\ erasing \in [Clients -> Nat]
    BY <1>1 DEF Erase, SessionInv, TypeOK
  <2>2. \A t \in Clients : Kept(t)' <=> Kept(t)
    BY <2>1 DEF Kept
  <2>3. LocalInv(s)'
    <3>1. ClientInv(client[s], erasing[s], s \in clientMap, Kept(s))
      BY ClientTypes
    <3>2. client[s].owner # None
      BY <2>1, <3>1 DEF ClientInv
    <3>3. ~Kept(s) => /\ Progress(client[s]) /\ LogoutOrder(client[s], erasing[s])
                      /\ HasAnswer(client[s]) \/ Finished(client[s])
      BY <2>1, <3>1 DEF ClientInv, LogoutOrder
    <3>4. ~Kept(s) => LogoutOrder(client[s], erasing'[s])
      BY <2>1, <3>3 DEF LogoutOrder
    <3>5. s \notin clientMap'
      BY <2>1
    <3>6. ClientInv(client[s], erasing'[s], s \in clientMap', Kept(s))
      BY <3>2, <3>3, <3>4, <3>5 DEF ClientInv
    <3>7. QED
      BY <2>1, <2>2, <3>6 DEF LocalInv, ClientInv
  <2>4. \A t \in Clients : LocalInv(t)'
    BY <2>1, <2>2, <2>3, LocalFrame DEF SessionInv
  <2>5. \A t \in Clients : Steady(t)
    <3>1. TAKE t \in Clients
    <3>2. LogoutUnderWay(s)
      BY <2>1 DEF LogoutUnderWay
    <3>3. CASE t = s
      BY <2>1, <3>2, <3>3 DEF Steady
    <3>4. CASE t # s
      BY <2>1, <3>4, UnderWayFrame DEF Steady
    <3>5. QED
      BY <3>3, <3>4
  <2>6. QED
    BY <2>1, <2>4, <2>5, SteadyStep
<1>2. CASE Notify(s)
  <2>1. UNCHANGED <<chan, sessions, clientMap, client, manager, leaked, erasing,
                    shutdownCallback, held, dismissed>>
    BY <1>2 DEF Notify
  <2>2. \A t \in Clients : LocalInv(t)'
    BY <2>1, LocalFrame DEF Kept, SessionInv
  <2>3. \A t \in Clients : Steady(t)
    BY <2>1, UnderWayFrame DEF Steady
  <2>4. QED
    BY <2>1, <2>2, <2>3, SteadyStep
<1>3. QED
  BY <1>1, <1>2

-----------------------------------------------------------------------------
(* The handlers of messages, and the shutdown.                             *)

\* While the handlers run, shutdown has not begun.
LEMMA NotYetShutdown ==
  ASSUME SessionInv, manager = "serving"
  PROVE  /\ ~shutdownCallback /\ ~leaked /\ ListInv /\ MapInv
         /\ \A s \in Clients : Kept(s) <=> client[s].hasty
         /\ \A c \in Channels : chan[c] # "closing"
BY DEF SessionInv, WaitInv, PhaseInv, Kept

\* A client in the map has an owner; it is in the list of its channel, and nobody
\* has asked for its logout, unless the channel or its peer has.
LEMMA MappedIsListed ==
  ASSUME SessionInv, ListInv, MapInv, NEW s \in clientMap
  PROVE  /\ s \in Clients /\ client[s].owner \in Channels
         /\ \/ /\ Listed(client[s].owner, s) /\ ~LogoutUnderWay(s)
               /\ client[s].sessionService
               /\ chan[client[s].owner] \in {"open", "closing"}
            \/ LogoutUnderWay(s) /\ Closed(s)
<1>1. s \in Clients
  BY DEF SessionInv, TypeOK
<1>2. client[s].owner \in Channels
  <2>1. client[s].owner \in Channels \cup {None}
    BY <1>1, ClientTypes DEF Client
  <2>2. client[s].owner # None
    BY <1>1, ClientTypes DEF ClientInv
  <2>3. QED
    BY <2>1, <2>2
<1>3. ASSUME Listed(client[s].owner, s)
      PROVE  /\ ~LogoutUnderWay(s) /\ client[s].sessionService
             /\ chan[client[s].owner] \in {"open", "closing"}
  <2>1. PICK i \in DOMAIN sessions[client[s].owner] : sessions[client[s].owner][i] = s
    BY <1>3 DEF Listed
  <2>2. QED
    BY <1>2, <2>1 DEF ListInv
<1>4. QED
  BY <1>1, <1>2, <1>3 DEF MapInv

\* What ListInv says of an entry.
LEMMA ListedEntry ==
  ASSUME SessionInv, ListInv, NEW c \in Channels, NEW s, Listed(c, s)
  PROVE  /\ s \in Clients /\ client[s].owner = c /\ chan[c] \in {"open", "closing"}
         /\ s \in clientMap /\ client[s].sessionService /\ ~LogoutUnderWay(s)
<1>1. PICK i \in DOMAIN sessions[c] : sessions[c][i] = s
  BY DEF Listed
<1>2. QED
  BY <1>1 DEF ListInv, SessionInv, TypeOK

\* A channel closes: its sessions, all of them in the map, are logged out.
LEMMA CloseEffect ==
  ASSUME SessionInv, ListInv, NEW c \in Channels, HandleChannelClose(c)
  PROVE  /\ UNCHANGED <<leaked, manager>>
         /\ sessions' = [sessions EXCEPT ![c] = <<>>]
         /\ client' = [s \in Clients |-> IF Listed(c, s)
                                         THEN Post(client[s], <<"logout", "remove">>)
                                         ELSE client[s]]
<1> DEFINE list == sessions[c]
           missing == {i \in DOMAIN list : list[i] \notin clientMap}
           reached == {list[i] : i \in {j \in DOMAIN list :
                                          ~leaked /\ \A k \in missing : j < k}}
           loopEnds == list = <<>> \/ (~leaked /\ missing \subseteq {Len(list)})
<1>1. /\ client' = [s \in Clients |-> IF s \in reached
                                      THEN Post(client[s], <<"logout", "remove">>)
                                      ELSE client[s]]
      /\ leaked' = (leaked \/ missing # {})
      /\ sessions' = IF loopEnds THEN [sessions EXCEPT ![c] = <<>>] ELSE sessions
      /\ manager' = IF loopEnds THEN manager ELSE "stuck"
  BY Zenon DEF HandleChannelClose
<1>2. missing = {} /\ leaked = FALSE
  BY DEF ListInv, SessionInv, PhaseInv, TypeOK
<1>3. \A s : s \in reached <=> Listed(c, s)
  BY <1>2 DEF Listed
<1>4. loopEnds
  BY <1>2
<1> HIDE DEF reached, missing, loopEnds
<1>5. client' = [s \in Clients |-> IF Listed(c, s)
                                   THEN Post(client[s], <<"logout", "remove">>)
                                   ELSE client[s]]
  BY <1>1, <1>3
<1>6. leaked' = FALSE
  BY <1>1, <1>2
<1>7. QED
  BY <1>1, <1>2, <1>4, <1>5, <1>6

\* A logout is queued: of a peer, or by the close of a channel for a session that
\* none has been asked for, or by shutdown, which keeps the client alive.
LEMMA PostedLogout ==
  ASSUME SessionInv, NEW s \in clientMap, NEW base \in Client, NEW callback \in Callback,
         client'[s] = Post(base, <<"logout", callback>>),
         base.owner = client[s].owner, base.sessionState = client[s].sessionState,
         base.link = client[s].link, base.logoutContext = client[s].logoutContext,
         base.strand = client[s].strand,
         erasing'[s] = erasing[s],
         IF callback \in Channels THEN s \notin clientMap' ELSE s \in clientMap',
         callback \in Channels \/ callback = "remove",
         ~Kept(s)' => ~Kept(s) /\ (callback \in Channels \/ ~LogoutUnderWay(s))
  PROVE  LocalInv(s)' /\ LogoutUnderWay(s)' /\ client'[s].owner = client[s].owner
<1> DEFINE next == Post(base, <<"logout", callback>>)
           mapped1 == s \in clientMap'
           kept == Kept(s)
           kept1 == Kept(s)'
<1>1. /\ s \in Clients /\ client[s] \in Client /\ client[s].strand \in Seq(Task)
      /\ erasing[s] \in Nat /\ mapped1 \in BOOLEAN /\ kept \in BOOLEAN /\ kept1 \in BOOLEAN
      /\ ClientInv(client[s], erasing[s], TRUE, kept)
  <2>1. s \in Clients
    BY DEF SessionInv, TypeOK
  <2>2. ClientInv(client[s], erasing[s], s \in clientMap, Kept(s))
    BY <2>1, ClientTypes
  <2>3. ClientInv(client[s], erasing[s], TRUE, kept)
    BY <2>2 DEF ClientInv
  <2>4. mapped1 \in BOOLEAN /\ kept \in BOOLEAN /\ kept1 \in BOOLEAN
    <3>1. mapped1 \in BOOLEAN
      OBVIOUS
    <3>2. kept \in BOOLEAN
      BY DEF Kept
    <3>3. kept1 \in BOOLEAN
      BY DEF Kept
    <3>4. QED
      BY <3>1, <3>2, <3>3
  <2> HIDE DEF mapped1, kept, kept1
  <2>5. QED
    BY <2>1, <2>3, <2>4, ClientTypes
<1>2. <<"logout", callback>> \in Task
  BY TaskTypes
<1>3. /\ next \in Client /\ next.owner = client[s].owner
      /\ next.sessionState = client[s].sessionState /\ next.link = client[s].link
      /\ next.logoutContext = client[s].logoutContext
      /\ next.strand = Append(client[s].strand, <<"logout", callback>>)
  <2>1. next \in Client
    BY <1>2, PostType
  <2>2. QED
    BY <2>1 DEF Post, Client
<1>4. Appended(client[s].strand, next.strand, <<"logout", callback>>)
  BY <1>1, <1>2, <1>3, AppendAppended
<1>5. LogoutUnderWay(s) <=> LogoutPending(client[s], erasing[s])
  BY <1>1, UnderWayIsPending
<1>6. client'[s] = next
  OBVIOUS
<1>7. PostAllowed(client[s], erasing[s], callback, mapped1, kept, kept1)
  BY <1>5 DEF PostAllowed
<1> HIDE DEF next, mapped1, kept, kept1
<1>8. ClientInv(next, erasing[s], mapped1, kept1) /\ LogoutPending(next, erasing[s])
  <2> DEFINE old == client[s]
             threads == erasing[s]
  <2>1. /\ old \in Client /\ threads \in Nat /\ next \in Client
        /\ mapped1 \in BOOLEAN /\ kept \in BOOLEAN /\ kept1 \in BOOLEAN
        /\ ClientInv(old, threads, TRUE, kept)
        /\ Posted(old, next, <<"logout", callback>>)
        /\ PostAllowed(old, threads, callback, mapped1, kept, kept1)
    BY <1>1, <1>3, <1>4, <1>7 DEF Posted
  <2> HIDE DEF old, threads
  <2>2. ClientInv(next, threads, mapped1, kept1) /\ LogoutPending(next, threads)
    BY <2>1, LogoutPosted
  <2>3. QED
    BY <2>2 DEF threads
<1>9. LocalInv(s)'
  BY <1>6, <1>8 DEF LocalInv, ClientInv, mapped1, kept1
<1>10. LogoutUnderWay(s)'
  BY <1>6, <1>8 DEF LogoutUnderWay, LogoutPending, NoLogouts, IsLogout
<1>11. QED
  BY <1>3, <1>6, <1>9, <1>10

LEMMA LoginStep ==
  ASSUME SessionInv, TypeOK', WaitInv', NEW c \in Channels, NEW s \in Clients,
         HandleLogin(c, s)
  PROVE  SessionInv'
<1> DEFINE next == [client[s] EXCEPT !.owner = c, !.sessionService = TRUE,
                                     !.link = "requested"]
<1>1. /\ manager = "serving" /\ chan[c] = "open" /\ client[s].owner = None
      /\ client' = [client EXCEPT ![s] = next]
      /\ UNCHANGED <<chan, leaked, erasing, shutdownCallback, held, dismissed>>
  BY DEF HandleLogin, Serving, ending, SessionInv, TypeOK
<1>2. ~shutdownCallback /\ ~leaked /\ ListInv /\ MapInv
  BY <1>1, NotYetShutdown
<1>3. /\ clientMap' = clientMap \cup {s} /\ UNCHANGED manager
      /\ sessions' = [sessions EXCEPT ![c] = Append(@, s)]
  BY <1>2 DEF HandleLogin
<1>4. /\ client[s] = NewClient /\ s \notin clientMap /\ erasing[s] = 0
      /\ client \in [Clients -> Client]
  BY <1>1, ClientTypes DEF ClientInv, SessionInv, TypeOK
<1>5. /\ next.owner = c /\ next.sessionState = "Initial"
      /\ next.sessionService = TRUE /\ next.logoutContext = None
      /\ next.strand = <<>> /\ DOMAIN next.strand = {}
  BY <1>4 DEF NewClient
<1>6. Appended(sessions[c], sessions'[c], s)
  BY <1>3, AppendAppended DEF SessionInv, TypeOK
<1>7. /\ client'[s] = next /\ \A t \in Clients : t # s => client'[t] = client[t]
  BY <1>1, <1>4
<1>8. \A d \in Channels : d # c => sessions'[d] = sessions[d]
  BY <1>3 DEF SessionInv, TypeOK
<1> HIDE DEF next
<1>9. LocalInv(s)' /\ ~LogoutUnderWay(s)'
  <2>1. ~HasAnswer(next) /\ Progress(next) /\ LogoutOrder(next, 0)
        /\ NoLogouts(next.strand)
    BY <1>5, GatewayAssumption
       DEF HasAnswer, Progress, LogoutOrder, NoLogouts, NoRemoves, GatewayAssumption
  <2>2. s \in clientMap' /\ erasing'[s] = 0 /\ c # None
    BY <1>1, <1>3, <1>4, GatewayAssumption DEF GatewayAssumption
  <2>3. LocalInv(s)'
    BY <1>5, <1>7, <2>1, <2>2 DEF LocalInv, ClientInv
  <2>4. ~LogoutUnderWay(s)'
    BY <1>5, <1>7, <2>1, <2>2 DEF LogoutUnderWay, NoLogouts, IsLogout
  <2>5. QED
    BY <2>3, <2>4
<1>10. ASSUME NEW t \in Clients, t # s
       PROVE  LocalInv(t)' /\ (LogoutUnderWay(t)' <=> LogoutUnderWay(t))
  BY <1>1, <1>3, <1>7, <1>10, LocalFrame, UnderWayFrame DEF SessionInv, Kept
<1>11. \A d \in Channels : ~Listed(d, s)
  BY <1>2, <1>4, ListedEntry
<1>12. ListInv'
  <2>1. ASSUME NEW d \in Channels, NEW i \in DOMAIN sessions'[d], NEW t,
               t = sessions'[d][i]
        PROVE  /\ client'[t].owner = d /\ chan'[d] \in {"open", "closing"}
               /\ t \in clientMap' /\ client'[t].sessionService /\ ~LogoutUnderWay(t)'
               /\ \A j \in DOMAIN sessions'[d] : sessions'[d][j] = t => i = j
    <3>1. CASE d # c \/ i \in DOMAIN sessions[d]
      <4>1. i \in DOMAIN sessions[d] /\ sessions[d][i] = t
        BY <1>6, <1>8, <2>1, <3>1 DEF Appended
      <4>2. t \in Clients /\ t # s
        BY <1>11, <4>1 DEF Listed, SessionInv, TypeOK
      <4>3. /\ client[t].owner = d /\ chan[d] \in {"open", "closing"}
            /\ t \in clientMap /\ client[t].sessionService /\ ~LogoutUnderWay(t)
            /\ \A j \in DOMAIN sessions[d] : sessions[d][j] = t => i = j
        BY <1>2, <4>1 DEF ListInv
      <4>4. \A j \in DOMAIN sessions'[d] : sessions'[d][j] = t => i = j
        BY <1>6, <1>8, <4>2, <4>3 DEF Appended
      <4>5. QED
        BY <1>1, <1>3, <1>7, <1>10, <4>2, <4>3, <4>4
    <3>2. CASE d = c /\ i \notin DOMAIN sessions[d]
      <4>1. t = s
        BY <1>6, <2>1, <3>2 DEF Appended
      <4>2. \A j \in DOMAIN sessions'[d] : sessions'[d][j] = s => i = j
        BY <1>6, <1>11, <3>2 DEF Appended, Listed
      <4>3. QED
        BY <1>1, <1>3, <1>5, <1>7, <1>9, <3>2, <4>1, <4>2
    <3>3. QED
      BY <3>1, <3>2
  <2>2. QED
    BY <2>1 DEF ListInv
<1>13. MapInv'
  <2>1. ASSUME NEW t \in clientMap', NEW d, d = client'[t].owner
        PROVE  \/ \E i \in DOMAIN sessions'[d] : sessions'[d][i] = t
               \/ LogoutUnderWay(t)' /\ Closed(t)'
    <3>1. CASE t = s
      <4>1. \E i \in DOMAIN sessions'[c] : sessions'[c][i] = s
        BY <1>6 DEF Appended
      <4>2. d = c
        BY <1>5, <1>7, <2>1, <3>1
      <4>3. QED
        BY <3>1, <4>1, <4>2
    <3>2. CASE t # s
      <4>1. /\ t \in clientMap /\ d = client[t].owner /\ t \in Clients /\ d \in Channels
            /\ client'[t] = client[t]
        BY <1>2, <1>3, <1>7, <2>1, <3>2, MappedIsListed
      <4>2. CASE LogoutUnderWay(t) /\ Closed(t)
        BY <1>1, <1>10, <3>2, <4>1, <4>2 DEF Closed
      <4>3. CASE Listed(d, t)
        BY <1>6, <1>8, <4>1, <4>3 DEF Listed, Appended
      <4>4. QED
        BY <1>2, <4>1, <4>2, <4>3 DEF MapInv
    <3>3. QED
      BY <3>1, <3>2
  <2>2. QED
    BY <2>1 DEF MapInv, Listed
<1>14. PhaseInv'
  BY <1>1, <1>2, <1>3 DEF SessionInv, PhaseInv
<1>15. QED
  BY <1>9, <1>10, <1>12, <1>13, <1>14 DEF SessionInv

LEMMA LogoutStep ==
  ASSUME SessionInv, TypeOK', WaitInv', ~ForeignSessions,
         NEW c \in Channels, NEW s \in Clients, HandleLogout(c, s)
  PROVE  SessionInv'
<1> DEFINE base == [client[s] EXCEPT !.asked = TRUE]
           rest == Without(sessions[c], s)
<1>1. /\ manager = "serving" /\ chan[c] = "open" /\ client[s].owner = c
      /\ UNCHANGED <<chan, leaked, erasing, shutdownCallback, held, dismissed>>
  BY DEF HandleLogout, Serving, Names, ending
<1>2. /\ ~shutdownCallback /\ ~leaked /\ ListInv /\ MapInv
      /\ \A t \in Clients : Kept(t) <=> client[t].hasty
  BY <1>1, NotYetShutdown
<1>3. /\ s \in clientMap /\ clientMap' = clientMap \ {s} /\ UNCHANGED manager
      /\ client' = [client EXCEPT ![s] = Post(base, <<"logout", c>>)]
      /\ sessions' = [sessions EXCEPT ![c] = rest]
  BY <1>2 DEF HandleLogout
<1>5. /\ client'[s] = Post(base, <<"logout", c>>)
      /\ \A t \in Clients : t # s => client'[t] = client[t]
  BY <1>3 DEF SessionInv, TypeOK
<1>6. sessions'[c] = rest /\ \A d \in Channels : d # c => sessions'[d] = sessions[d]
  BY <1>3 DEF SessionInv, TypeOK
<1>7. /\ base \in Client /\ base.owner = client[s].owner
      /\ base.sessionState = client[s].sessionState /\ base.link = client[s].link
      /\ base.logoutContext = client[s].logoutContext /\ base.strand = client[s].strand
      /\ Post(base, <<"logout", c>>).hasty = client[s].hasty
  BY ClientTypes DEF Client, Post
<1>8. /\ \A i \in DOMAIN rest :
           rest[i] # s /\ \E k \in DOMAIN sessions[c] : rest[i] = sessions[c][k]
      /\ \A k \in DOMAIN sessions[c] :
           sessions[c][k] # s => \E i \in DOMAIN rest : rest[i] = sessions[c][k]
      /\ \A i, j \in DOMAIN rest : rest[i] = rest[j] => i = j
  <2> DEFINE list == sessions[c]
  <2>1. \A j, k \in DOMAIN list : list[j] = list[k] => j = k
    BY <1>2 DEF ListInv
  <2>2. list \in Seq(Clients)
    BY DEF SessionInv, TypeOK
  <2> HIDE DEF list
  <2>3. /\ \A i \in DOMAIN Without(list, s) :
             \E k \in DOMAIN list : Without(list, s)[i] = list[k]
        /\ \A k \in DOMAIN list : list[k] # s =>
             \E i \in DOMAIN Without(list, s) : Without(list, s)[i] = list[k]
        /\ \A i \in DOMAIN Without(list, s) : Without(list, s)[i] # s
        /\ \A i, j \in DOMAIN Without(list, s) :
             Without(list, s)[i] = Without(list, s)[j] => i = j
    BY <2>1, <2>2, WithoutProperties
  <2>4. QED
    BY <2>3 DEF list
<1> HIDE DEF base, rest
<1>9. LocalInv(s)'
  <2>1. s \notin clientMap' /\ c \in Callback /\ erasing'[s] = erasing[s]
    BY <1>1, <1>3 DEF Callback
  <2>2. Kept(s) => Kept(s)'
    BY <1>2, <1>5, <1>7 DEF Kept
  <2>3. QED
    BY <1>3, <1>5, <1>7, <2>1, <2>2, PostedLogout
<1>10. ASSUME NEW t \in Clients, t # s
       PROVE  LocalInv(t)' /\ (LogoutUnderWay(t)' <=> LogoutUnderWay(t))
  BY <1>1, <1>3, <1>5, <1>10, LocalFrame, UnderWayFrame DEF SessionInv, Kept
<1>11. ASSUME NEW d \in Channels, NEW i \in DOMAIN sessions'[d], NEW t,
              t = sessions'[d][i]
       PROVE  /\ client'[t].owner = d /\ chan'[d] \in {"open", "closing"}
              /\ t \in clientMap' /\ client'[t].sessionService /\ ~LogoutUnderWay(t)'
              /\ \A j \in DOMAIN sessions'[d] : sessions'[d][j] = t => i = j
  <2>1. Listed(d, t)
    BY <1>6, <1>8, <1>11 DEF Listed
  <2>2. /\ t \in Clients /\ client[t].owner = d /\ chan[d] \in {"open", "closing"}
        /\ t \in clientMap /\ client[t].sessionService /\ ~LogoutUnderWay(t)
    BY <1>2, <2>1, ListedEntry
  <2>3. t # s
    BY <1>1, <1>6, <1>8, <1>11, <2>2
  <2>4. \A j \in DOMAIN sessions'[d] : sessions'[d][j] = t => i = j
    BY <1>2, <1>6, <1>8, <1>11 DEF ListInv
  <2>5. QED
    BY <1>1, <1>3, <1>5, <1>10, <2>2, <2>3, <2>4
<1>12. ASSUME NEW t \in clientMap', NEW d, d = client'[t].owner
       PROVE  \/ \E i \in DOMAIN sessions'[d] : sessions'[d][i] = t
              \/ LogoutUnderWay(t)' /\ Closed(t)'
  <2>1. /\ t \in clientMap /\ t # s /\ t \in Clients
        /\ d = client[t].owner /\ d \in Channels /\ client'[t] = client[t]
    BY <1>2, <1>3, <1>5, <1>12, MappedIsListed
  <2>2. CASE LogoutUnderWay(t) /\ Closed(t)
    BY <1>1, <1>10, <2>1, <2>2 DEF Closed
  <2>3. CASE Listed(d, t)
    BY <1>6, <1>8, <2>1, <2>3 DEF Listed
  <2>4. QED
    BY <1>2, <2>1, <2>2, <2>3 DEF MapInv
<1>13. ListInv' /\ MapInv'
  BY <1>11, <1>12 DEF ListInv, MapInv, Listed
<1>14. PhaseInv'
  BY <1>1, <1>2, <1>3 DEF SessionInv, PhaseInv
<1>15. QED
  BY <1>9, <1>10, <1>13, <1>14 DEF SessionInv

\* handleChannelClose, for a channel that is closed or by the will of its peer.
LEMMA CloseStep ==
  ASSUME SessionInv, TypeOK', WaitInv', NEW c \in Channels,
         manager = "serving", HandleChannelClose(c), UNCHANGED <<clientMap, ending>>,
         \A d \in Channels :
           /\ chan[d] = "closed" => chan'[d] = "closed"
           /\ chan'[d] # "closing" /\ (d # c => chan'[d] = chan[d]),
         dismissed \subseteq dismissed',
         \A t \in Clients : Listed(c, t) => chan'[c] = "closed" \/ t \in dismissed'
  PROVE  SessionInv'
<1>1. /\ ~shutdownCallback /\ ~leaked /\ ListInv /\ MapInv
      /\ \A t \in Clients : Kept(t) <=> client[t].hasty
  BY NotYetShutdown
<1>2. /\ UNCHANGED <<leaked, manager, erasing, shutdownCallback, held>>
      /\ sessions' = [sessions EXCEPT ![c] = <<>>]
      /\ client' = [s \in Clients |-> IF Listed(c, s)
                                      THEN Post(client[s], <<"logout", "remove">>)
                                      ELSE client[s]]
  BY <1>1, CloseEffect DEF ending
<1>3. /\ \A t \in Clients : Listed(c, t) =>
           client'[t] = Post(client[t], <<"logout", "remove">>)
      /\ \A t \in Clients : ~Listed(c, t) => client'[t] = client[t]
      /\ sessions'[c] = <<>>
      /\ \A d \in Channels : d # c => sessions'[d] = sessions[d] /\ chan'[d] = chan[d]
  BY <1>2 DEF SessionInv, TypeOK
<1>4. ASSUME NEW t \in Clients, Listed(c, t)
      PROVE  LocalInv(t)' /\ LogoutUnderWay(t)' /\ client'[t].owner = client[t].owner
  <2>1. t \in clientMap /\ ~LogoutUnderWay(t)
    BY <1>1, <1>4, ListedEntry
  <2>2. /\ t \in clientMap' /\ "remove" \in Callback /\ "remove" \notin Channels
        /\ client[t] \in Client /\ erasing'[t] = erasing[t]
    BY <1>2, <2>1, ClientTypes, GatewayAssumption DEF Callback, GatewayAssumption
  <2>3. client'[t] = Post(client[t], <<"logout", "remove">>)
    BY <1>3, <1>4
  <2>4. Post(client[t], <<"logout", "remove">>).hasty = client[t].hasty
    BY <2>2 DEF Post, Client
  <2>5. ~Kept(t)' => ~Kept(t)
    BY <1>1, <2>3, <2>4 DEF Kept
  <2>6. QED
    BY <2>1, <2>2, <2>3, <2>5, PostedLogout
<1>5. ASSUME NEW t \in Clients, ~Listed(c, t)
      PROVE  LocalInv(t)' /\ (LogoutUnderWay(t)' <=> LogoutUnderWay(t))
  <2>1. Kept(t) => Kept(t)'
    BY <1>1, <1>3, <1>5 DEF Kept
  <2>2. QED
    BY <1>1, <1>2, <1>3, <1>5, <2>1, LocalFrame, UnderWayFrame DEF SessionInv
<1>6. ASSUME NEW d \in Channels, NEW i \in DOMAIN sessions'[d], NEW t,
             t = sessions'[d][i]
      PROVE  /\ client'[t].owner = d /\ chan'[d] \in {"open", "closing"}
             /\ t \in clientMap' /\ client'[t].sessionService /\ ~LogoutUnderWay(t)'
             /\ \A j \in DOMAIN sessions'[d] : sessions'[d][j] = t => i = j
  <2>1. d # c /\ sessions'[d] = sessions[d] /\ chan'[d] = chan[d]
    BY <1>3, <1>6
  <2>2. Listed(d, t)
    BY <1>6, <2>1 DEF Listed
  <2>3. /\ t \in Clients /\ client[t].owner = d /\ chan[d] \in {"open", "closing"}
        /\ t \in clientMap /\ client[t].sessionService /\ ~LogoutUnderWay(t)
    BY <1>1, <2>2, ListedEntry
  <2>4. ~Listed(c, t)
    BY <1>1, <2>1, <2>3, ListedEntry
  <2>5. \A j \in DOMAIN sessions'[d] : sessions'[d][j] = t => i = j
    BY <1>1, <1>6, <2>1 DEF ListInv
  <2>6. QED
    BY <1>3, <1>5, <2>1, <2>3, <2>4, <2>5
<1>7. ASSUME NEW t \in clientMap', NEW d, d = client'[t].owner
      PROVE  \/ \E i \in DOMAIN sessions'[d] : sessions'[d][i] = t
             \/ LogoutUnderWay(t)' /\ Closed(t)'
  <2>1. t \in clientMap /\ t \in Clients
    BY <1>7, MappedIsListed DEF SessionInv, TypeOK
  <2>2. client'[t].owner = client[t].owner
    BY <1>3, <1>4, <2>1
  <2>3. d = client[t].owner /\ d \in Channels
    BY <1>1, <1>7, <2>1, <2>2, MappedIsListed
  <2>4. CASE LogoutUnderWay(t) /\ Closed(t)
    <3>1. ~Listed(c, t)
      BY <1>1, <2>4, ListedEntry
    <3>2. LogoutUnderWay(t)' /\ client'[t] = client[t]
      BY <1>3, <1>5, <2>1, <2>4, <3>1
    <3>3. QED
      BY <2>3, <2>4, <3>2 DEF Closed
  <2>5. CASE Listed(c, t)
    <3>1. d = c
      BY <1>1, <2>3, <2>5, ListedEntry
    <3>2. QED
      BY <1>4, <2>1, <2>2, <2>3, <2>5, <3>1 DEF Closed
  <2>6. CASE Listed(d, t) /\ d # c
    BY <1>3, <2>3, <2>6 DEF Listed
  <2>7. QED
    BY <1>1, <2>1, <2>3, <2>4, <2>5, <2>6 DEF MapInv
<1>8. ListInv' /\ MapInv'
  BY <1>6, <1>7 DEF ListInv, MapInv, Listed
<1>9. PhaseInv'
  BY <1>1, <1>2 DEF SessionInv, PhaseInv
<1>10. QED
  BY <1>4, <1>5, <1>8, <1>9 DEF SessionInv

\* A peer has had its sessions closed.
LEMMA PeerClosesStep ==
  ASSUME SessionInv, TypeOK', WaitInv', NEW c \in Channels, PeerClosesSessions(c)
  PROVE  SessionInv'
<1>1. /\ manager = "serving" /\ HandleChannelClose(c)
      /\ UNCHANGED <<chan, clientMap, ending>>
      /\ dismissed' = dismissed \cup {sessions[c][i] : i \in DOMAIN sessions[c]}
  BY DEF PeerClosesSessions, Serving
<1>2. \A d \in Channels : chan[d] # "closing"
  BY <1>1, NotYetShutdown
<1>3. dismissed \subseteq dismissed' /\ \A t : Listed(c, t) => t \in dismissed'
  BY <1>1 DEF Listed
<1>4. QED
  BY <1>1, <1>2, <1>3, CloseStep

\* A step of the shutdown that leaves the sessions as they are.
LEMMA QuietStep ==
  ASSUME SessionInv, TypeOK', WaitInv',
         UNCHANGED <<sessions, clientMap, client, leaked, erasing, dismissed>>,
         \A t \in Clients : Kept(t) => Kept(t)',
         ~shutdownCallback' => ~shutdownCallback,
         \A c \in Channels : /\ chan'[c] = "closed" <=> chan[c] = "closed"
                             /\ chan[c] = "open" => chan'[c] \in {"open", "closing"}
                             /\ chan[c] = "closing" => chan'[c] \in {"open", "closing"},
         PhaseInv'
  PROVE  SessionInv'
<1>1. \A t \in Clients : LocalInv(t)'
  BY LocalFrame DEF SessionInv
<1>2. \A t \in Clients : LogoutUnderWay(t)' <=> LogoutUnderWay(t)
  BY UnderWayFrame
<1>3. ASSUME ~shutdownCallback'
      PROVE  ListInv' /\ MapInv'
  <2>1. ListInv /\ MapInv
    BY <1>3 DEF SessionInv
  <2>2. ASSUME NEW d \in Channels, NEW i \in DOMAIN sessions[d], NEW t, t = sessions[d][i]
        PROVE  /\ client[t].owner = d /\ chan'[d] \in {"open", "closing"}
               /\ t \in clientMap /\ client[t].sessionService /\ ~LogoutUnderWay(t)'
               /\ \A j \in DOMAIN sessions[d] : sessions[d][j] = t => i = j
    <3>1. t \in Clients
      BY <2>2 DEF SessionInv, TypeOK
    <3>2. /\ client[t].owner = d /\ chan[d] \in {"open", "closing"}
          /\ t \in clientMap /\ client[t].sessionService /\ ~LogoutUnderWay(t)
          /\ \A j \in DOMAIN sessions[d] : sessions[d][j] = t => i = j
      BY <2>1, <2>2 DEF ListInv
    <3>3. QED
      BY <1>2, <3>1, <3>2
  <2>3. ASSUME NEW t \in clientMap
        PROVE  \/ \E i \in DOMAIN sessions[client[t].owner] :
                    sessions[client[t].owner][i] = t
               \/ LogoutUnderWay(t)' /\ Closed(t)'
    <3>1. t \in Clients /\ client[t].owner \in Channels
      BY <2>1, <2>3, MappedIsListed
    <3>2. Listed(client[t].owner, t) \/ (LogoutUnderWay(t) /\ Closed(t))
      BY <2>1, <2>3 DEF MapInv
    <3>3. Closed(t) => Closed(t)'
      BY <3>1 DEF Closed
    <3>4. QED
      BY <1>2, <3>1, <3>2, <3>3 DEF Listed
  <2>4. QED
    BY <2>2, <2>3 DEF ListInv, MapInv, Listed
<1>4. QED
  BY <1>1, <1>3 DEF SessionInv

LEMMA StopStep ==
  ASSUME SessionInv, TypeOK', WaitInv', Stop \/ SetShutdownCallback \/ ShutdownReturns
  PROVE  SessionInv'
<1>1. UNCHANGED <<chan, sessions, clientMap, client, leaked, erasing, dismissed>>
  BY DEF Stop, SetShutdownCallback, ShutdownReturns
<1>2. ~shutdownCallback' => ~shutdownCallback
  BY DEF Stop, SetShutdownCallback, ShutdownReturns
<1>3. \A t \in Clients : Kept(t) => Kept(t)'
  BY DEF Stop, SetShutdownCallback, ShutdownReturns, BeginShutdown, Kept
<1>4. PhaseInv'
  <2>1. CASE Stop
    BY <2>1 DEF Stop, BeginShutdown, SessionInv, PhaseInv
  <2>2. CASE SetShutdownCallback
    BY <2>2 DEF SetShutdownCallback, SessionInv, PhaseInv
  <2>3. CASE ShutdownReturns
    BY <2>3 DEF ShutdownReturns, SessionInv, PhaseInv
  <2>4. QED
    BY <2>1, <2>2, <2>3
<1>5. QED
  BY <1>1, <1>2, <1>3, <1>4, QuietStep

LEMMA LogoutAllStep ==
  ASSUME SessionInv, TypeOK', WaitInv', LogoutAll
  PROVE  SessionInv'
<1>1. /\ manager = "armed" /\ manager' = "waiting" /\ held' = clientMap /\ shutdownCallback
      /\ client' = [s \in Clients |-> IF s \in clientMap
                                      THEN Post(client[s], <<"logout", "remove">>)
                                      ELSE client[s]]
      /\ UNCHANGED <<chan, sessions, clientMap, leaked, erasing, shutdownCallback>>
  BY DEF LogoutAll, SessionInv, PhaseInv
<1>2. \A t \in clientMap : Kept(t)'
  BY <1>1 DEF Kept
<1>3. ASSUME NEW t \in clientMap
      PROVE  LocalInv(t)' /\ LogoutUnderWay(t)'
  <2>1. t \in Clients
    BY DEF SessionInv, TypeOK
  <2>2. /\ t \in clientMap' /\ "remove" \in Callback /\ "remove" \notin Channels
        /\ client[t] \in Client /\ erasing'[t] = erasing[t] /\ Kept(t)'
    BY <1>1, <1>2, <2>1, ClientTypes, GatewayAssumption DEF Callback, GatewayAssumption
  <2>3. client'[t] = Post(client[t], <<"logout", "remove">>)
    BY <1>1, <2>1
  <2>4. QED
    BY <2>1, <2>2, <2>3, PostedLogout
<1>4. ASSUME NEW t \in Clients, t \notin clientMap
      PROVE  LocalInv(t)'
  <2>1. held = {} /\ client'[t] = client[t]
    BY <1>1, <1>4 DEF SessionInv, PhaseInv
  <2>2. Kept(t) => Kept(t)'
    BY <1>1, <2>1 DEF Kept
  <2>3. QED
    BY <1>1, <1>4, <2>1, <2>2, LocalFrame DEF SessionInv
<1>5. PhaseInv'
  BY <1>1, <1>3 DEF SessionInv, PhaseInv
<1>6. QED
  BY <1>1, <1>3, <1>4, <1>5 DEF SessionInv

LEMMA ConnectStep ==
  ASSUME SessionInv, TypeOK', WaitInv', NEW c \in Channels, Connect(c)
  PROVE  SessionInv'
<1>1. /\ UNCHANGED <<sessions, clientMap, client, leaked, erasing, manager, held,
                     shutdownCallback, dismissed>>
      /\ chan[c] = "none" /\ chan'[c] = "open"
      /\ \A d \in Channels : d # c => chan'[d] = chan[d]
  BY DEF Connect, ending, SessionInv, TypeOK
<1>2. \A t \in Clients : Kept(t) => Kept(t)'
  BY <1>1 DEF Kept
<1>3. PhaseInv'
  BY <1>1, UnderWayFrame DEF Connect, SessionInv, PhaseInv, LogoutUnderWay
<1>4. QED
  BY <1>1, <1>2, <1>3, QuietStep

LEMMA ChannelClosedStep ==
  ASSUME SessionInv, TypeOK', WaitInv', NEW c \in Channels, ChannelClosed(c)
  PROVE  SessionInv'
<1>1. CASE stopping /\ OpenChannels = {c}
  <2>1. /\ manager = "serving" /\ manager' \in {"returned", "sized"}
        /\ chan[c] = "open" /\ chan'[c] = "closing"
        /\ \A d \in Channels : d # c => chan'[d] = chan[d]
        /\ UNCHANGED <<sessions, clientMap, client, leaked, erasing, held,
                       shutdownCallback, dismissed>>
    BY <1>1 DEF ChannelClosed, BeginShutdown, Serving, ending, SessionInv, TypeOK
  <2>2. \A t \in Clients : Kept(t) => Kept(t)'
    BY <2>1 DEF Kept
  <2>3. PhaseInv'
    BY <2>1 DEF SessionInv, PhaseInv
  <2>4. QED
    BY <2>1, <2>2, <2>3, QuietStep
<1>2. CASE ~(stopping /\ OpenChannels = {c})
  <2>1. /\ manager = "serving" /\ HandleChannelClose(c)
        /\ chan' = [chan EXCEPT ![c] = "closed"]
        /\ UNCHANGED <<clientMap, ending, dismissed>>
    BY <1>2 DEF ChannelClosed, Serving
  <2>2. \A d \in Channels : chan[d] # "closing"
    BY <2>1, NotYetShutdown
  <2>3. chan'[c] = "closed" /\ \A d \in Channels : d # c => chan'[d] = chan[d]
    BY <2>1 DEF SessionInv, TypeOK
  <2>4. QED
    BY <2>1, <2>2, <2>3, CloseStep
<1>3. QED
  BY <1>1, <1>2

LEMMA LastChannelClosedStep ==
  ASSUME SessionInv, TypeOK', WaitInv', NEW c \in Channels, LastChannelClosed(c)
  PROVE  SessionInv'
<1>1. /\ manager = "returned" /\ clientMap = {} /\ clientMap' = {}
      /\ chan' = [chan EXCEPT ![c] = "closed"]
      /\ UNCHANGED <<erasing, held, shutdownCallback, dismissed>>
  BY DEF LastChannelClosed, SessionInv, WaitInv, ending
<1>2. /\ UNCHANGED <<client, manager, leaked>>
      /\ ~shutdownCallback => /\ sessions' = [sessions EXCEPT ![c] = <<>>]
                              /\ \A d \in Channels, s \in Clients : ~Listed(d, s)
  <2>1. CASE shutdownCallback
    BY <2>1 DEF LastChannelClosed
  <2>2. CASE ~shutdownCallback
    <3>1. ListInv
      BY <2>2 DEF SessionInv
    <3>2. \A d \in Channels, s \in Clients : ~Listed(d, s)
      BY <1>1, <3>1, ListedEntry
    <3>3. /\ UNCHANGED <<leaked, manager>>
          /\ sessions' = [sessions EXCEPT ![c] = <<>>]
          /\ client' = [s \in Clients |-> IF Listed(c, s)
                                          THEN Post(client[s], <<"logout", "remove">>)
                                          ELSE client[s]]
      BY <2>2, <3>1, CloseEffect DEF LastChannelClosed
    <3>4. client' = [s \in Clients |-> client[s]]
      BY <3>2, <3>3
    <3>5. client' = client
      BY <3>4 DEF SessionInv, TypeOK
    <3>6. QED
      BY <3>2, <3>3, <3>5
  <2>3. QED
    BY <2>1, <2>2
<1>3. \A t \in Clients : LocalInv(t)'
  <2>1. \A t \in Clients : Kept(t) => Kept(t)'
    BY <1>1, <1>2 DEF Kept
  <2>2. QED
    BY <1>1, <1>2, <2>1, LocalFrame DEF SessionInv
<1>4. ~shutdownCallback => ListInv' /\ MapInv'
  <2>1. ASSUME ~shutdownCallback, NEW d \in Channels
        PROVE  DOMAIN sessions'[d] = {}
    <3>1. sessions \in [Channels -> Seq(Clients)]
      BY DEF SessionInv, TypeOK
    <3>2. DOMAIN sessions[d] = {}
      BY <1>2, <2>1, <3>1 DEF Listed
    <3>3. sessions' = [sessions EXCEPT ![c] = <<>>]
      BY <1>2, <2>1
    <3>4. sessions'[d] = <<>> \/ sessions'[d] = sessions[d]
      BY <3>1, <3>3
    <3>5. DOMAIN <<>> = {}
      OBVIOUS
    <3>6. QED
      BY <3>2, <3>4, <3>5
  <2>2. QED
    BY <1>1, <2>1 DEF ListInv, MapInv
<1>5. PhaseInv'
  BY <1>1, <1>2 DEF SessionInv, PhaseInv
<1>6. QED
  BY <1>1, <1>3, <1>4, <1>5 DEF SessionInv

\* Requests, and the results that answer them.
LEMMA RequestStep ==
  ASSUME SessionInv, TypeOK', WaitInv', NEW s \in Clients,
         HandleResult(s) \/ \E c \in Channels : HandleRequest(c, s)
  PROVE  SessionInv'
<1>1. CASE HandleResult(s)
  <2>1. client[s].owner # None
    BY <1>1, ClientTypes DEF HandleResult, ClientInv, NewClient
  <2>2. client' = [client EXCEPT ![s].pending = client[s].pending - 1]
        /\ UNCHANGED <<chan, sessions, clientMap, leaked, manager, ending, dismissed>>
    BY <1>1 DEF HandleResult
  <2>3. QED
    BY <2>1, <2>2, PendingStep
<1>2. ASSUME NEW c \in Channels, HandleRequest(c, s)
      PROVE  SessionInv'
  <2>1. ~leaked /\ client[s].owner # None
    BY <1>2, NotYetShutdown DEF HandleRequest, Serving, Names
  <2>2. client' = [client EXCEPT ![s].pending = client[s].pending + 1]
        /\ UNCHANGED <<chan, sessions, clientMap, leaked, manager, ending, dismissed>>
    BY <1>2, <2>1 DEF HandleRequest
  <2>3. QED
    BY <2>1, <2>2, PendingStep
<1>3. QED
  BY <1>1, <1>2

LEMMA InitInv ==
  ASSUME Init
  PROVE  SessionInv
<1>1. TypeOK
  BY InitType
<1>2. WaitInv /\ PhaseInv
  BY DEF Init, WaitInv, PhaseInv
<1>3. \A s \in Clients : LocalInv(s)
  <2>1. TAKE s \in Clients
  <2>2. client[s] = NewClient /\ erasing[s] = 0 /\ s \notin clientMap
    BY DEF Init
  <2>3. /\ NewClient.logoutContext = None /\ NewClient.strand = <<>>
        /\ NewClient.link = "down" /\ DOMAIN NewClient.strand = {}
        /\ NewClient.sessionState = "Initial"
    BY DEF NewClient
  <2>4. ~HasAnswer(NewClient) /\ Finished(NewClient) /\ Progress(NewClient)
    BY <2>3, GatewayAssumption
       DEF HasAnswer, Finished, Progress, NoReports, GatewayAssumption
  <2>5. LogoutOrder(NewClient, 0)
    BY <2>3, GatewayAssumption DEF LogoutOrder, GatewayAssumption, NoRemoves, NoLogouts
  <2>6. QED
    BY <2>2, <2>4, <2>5 DEF LocalInv, ClientInv
<1>4. ListInv /\ MapInv
  <2>1. \A c \in Channels : DOMAIN sessions[c] = {}
    BY DEF Init
  <2>2. QED
    BY <2>1 DEF Init, ListInv, MapInv
<1>5. QED
  BY <1>1, <1>2, <1>3, <1>4 DEF SessionInv

LEMMA NextInv ==
  ASSUME ~ForeignSessions, SessionInv, [Next]_vars
  PROVE  SessionInv'
<1>1. TypeOK' /\ WaitInv'
  BY NextType, NextKeepsWait DEF SessionInv
<1>2. CASE Stop \/ ShutdownStep
  BY <1>1, <1>2, StopStep, LogoutAllStep, LastChannelClosedStep DEF ShutdownStep
<1>3. ASSUME NEW c \in Channels, Connect(c) \/ ChannelClosed(c) \/ PeerClosesSessions(c)
      PROVE  SessionInv'
  BY <1>1, <1>3, ConnectStep, ChannelClosedStep, PeerClosesStep
<1>4. ASSUME NEW s \in Clients, ClientStep(s)
      PROVE  SessionInv'
  <2>1. CASE \E c \in Channels : HandleLogin(c, s) \/ HandleLogout(c, s)
    BY <1>1, <2>1, LoginStep, LogoutStep
  <2>2. CASE HandleResult(s) \/ \E c \in Channels : HandleRequest(c, s)
    BY <1>1, <2>2, RequestStep
  <2>3. CASE RunStrand(s) \/ Erase(s) \/ Notify(s)
    BY <1>1, <2>3, RunStrandStep, ThreadStep
  <2>4. CASE StartConnect(s) \/ Establish(s) \/ LoseSession(s) \/ Disconnect(s)
    BY <1>1, <2>4, SessionReportsStep
       DEF StartConnect, Establish, LoseSession, Disconnect, Report
  <2>5. QED
    BY <1>4, <2>1, <2>2, <2>3, <2>4 DEF ClientStep
<1>5. CASE UNCHANGED vars
  <2>1. UNCHANGED <<chan, sessions, clientMap, client, manager, leaked, erasing,
                    shutdownCallback, held, dismissed>>
    BY <1>5 DEF vars, ending
  <2>2. (\A t \in Clients : Kept(t) => Kept(t)') /\ PhaseInv'
    BY <2>1 DEF Kept, SessionInv, PhaseInv, LogoutUnderWay
  <2>3. QED
    BY <1>1, <2>1, <2>2, QuietStep
<1>6. QED
  BY <1>2, <1>3, <1>4, <1>5 DEF Next

-----------------------------------------------------------------------------
(* The properties.                                                         *)

LEMMA InvImpliesNoOrphans ==
  SessionInv => NoOrphans
<1> SUFFICES ASSUME SessionInv, manager \in {"serving", "stuck", "waiting", "returned"},
                    NEW s \in clientMap
             PROVE  \/ \E c \in OpenChannels : \E i \in DOMAIN sessions[c] : sessions[c][i] = s
                    \/ LogoutUnderWay(s)
  BY DEF NoOrphans
<1>1. CASE manager = "serving"
  <2>1. ListInv /\ MapInv /\ \A c \in Channels : chan[c] # "closing"
    BY <1>1, NotYetShutdown
  <2>2. QED
    BY <2>1, MappedIsListed DEF Listed, OpenChannels
<1>2. CASE manager \in {"stuck", "waiting", "returned"}
  BY <1>2 DEF SessionInv, PhaseInv, WaitInv
<1>3. QED
  BY <1>1, <1>2

LEMMA InvImpliesAlive ==
  SessionInv => ClientOutlivesItsTasks
<1> SUFFICES ASSUME SessionInv, NEW s \in Clients, manager # "returned",
                    ~client[s].hasty,
                    client[s].strand # <<>> \/ client[s].link # "down"
             PROVE  Alive(s)
  BY DEF ClientOutlivesItsTasks
<1>1. ClientInv(client[s], erasing[s], s \in clientMap, Kept(s))
  BY ClientTypes
<1>2. client[s].owner # None /\ ~Finished(client[s])
  BY <1>1 DEF ClientInv, NewClient, Finished
<1>3. s \in held \/ s \in clientMap \/ HasAnswer(client[s])
  BY <1>1, <1>2 DEF ClientInv, Kept
<1>4. QED
  BY <1>3 DEF Alive, HasAnswer, ToAnswer

\* Only handleRequest adds to the requests that wait for an answer.
LEMMA OnlyRequestsAdd ==
  ASSUME SessionInv, [Next]_vars, NEW s \in Clients,
         client'[s].pending > client[s].pending
  PROVE  \E c \in Channels : HandleRequest(c, s)
<1>1. client \in [Clients -> Client] /\ \A t \in Clients : client[t].pending \in Int
  BY GatewayAssumption DEF SessionInv, TypeOK, Client, GatewayAssumption
<1>2. \A cl \in Client : \A task : Post(cl, task).pending = cl.pending
  BY DEF Post, Client
<1>3. ASSUME client' = client
      PROVE  FALSE
  BY <1>1, <1>3
<1>4. ASSUME NEW set,
             client' = [t \in Clients |-> IF t \in set
                                          THEN Post(client[t], <<"logout", "remove">>)
                                          ELSE client[t]]
      PROVE  FALSE
  BY <1>1, <1>2, <1>4
<1>5. ASSUME NEW t \in Clients, NEW cl, client' = [client EXCEPT ![t] = cl],
             cl.pending \in Int, cl.pending <= client[t].pending
      PROVE  FALSE
  <2>1. client'[s] = IF s = t THEN cl ELSE client[s]
    BY <1>1, <1>5
  <2>2. QED
    BY <1>1, <1>5, <2>1
<1>6. ASSUME NEW c \in Channels, HandleChannelClose(c)
      PROVE  FALSE
  <2> DEFINE list == sessions[c]
             missing == {i \in DOMAIN list : list[i] \notin clientMap}
             reached == {list[i] : i \in {j \in DOMAIN list :
                                            ~leaked /\ \A k \in missing : j < k}}
  <2>1. client' = [t \in Clients |-> IF t \in reached
                                     THEN Post(client[t], <<"logout", "remove">>)
                                     ELSE client[t]]
    BY <1>6, Zenon DEF HandleChannelClose
  <2> HIDE DEF reached
  <2>2. QED
    BY <1>4, <2>1
<1>7. CASE \/ Stop \/ ShutdownStep
           \/ \E c \in Channels : Connect(c) \/ ChannelClosed(c) \/ PeerClosesSessions(c)
  <2>1. CASE \E c \in Channels :
               ChannelClosed(c) \/ LastChannelClosed(c) \/ PeerClosesSessions(c)
    BY <1>3, <1>6, <2>1 DEF ChannelClosed, LastChannelClosed, PeerClosesSessions
  <2>2. CASE LogoutAll
    BY <1>4, <2>2 DEF LogoutAll
  <2>3. QED
    BY <1>3, <1>7, <2>1, <2>2
       DEF ShutdownStep, Stop, SetShutdownCallback, ShutdownReturns, Connect
<1>8. ASSUME NEW t \in Clients, RunStrand(t)
      PROVE  FALSE
  <2> DEFINE cl == [client[t] EXCEPT !.strand = Tail(@)]
             Same(base) == "pending" \in DOMAIN base /\ base.pending = client[t].pending
  <2>1. Same(cl) /\ client[t].pending \in Int
    BY <1>1 DEF Client
  <2>2. \/ client' = [client EXCEPT ![t] = cl]
        \/ \E report : HandleReport(t, cl, report)
        \/ \E callback : Logout(t, cl, callback)
    BY <1>8 DEF RunStrand
  <2> HIDE DEF cl
  <2>3. ASSUME NEW base, Same(base), client' = [client EXCEPT ![t] = base]
        PROVE  FALSE
    <3>1. base.pending \in Int /\ base.pending <= client[t].pending
      BY <2>1, <2>3
    <3>2. QED
      BY <1>5, <2>3, <3>1
  <2>4. ASSUME NEW base, Same(base), NEW callback, LogoutComplete(t, base, callback)
        PROVE  FALSE
    <3> DEFINE gone == [base EXCEPT !.sessionService = FALSE, !.logoutContext = None]
               told == [gone EXCEPT !.asked = FALSE]
    <3>1. client' = [client EXCEPT ![t] = gone] \/ client' = [client EXCEPT ![t] = told]
      BY <2>4 DEF LogoutComplete
    <3>2. Same(gone)
      BY <2>4
    <3> HIDE DEF gone
    <3>3. Same(told)
      BY <3>2
    <3> HIDE DEF told, Same
    <3>4. QED
      BY <2>3, <3>1, <3>2, <3>3
  <2>5. ASSUME NEW report, HandleReport(t, cl, report)
        PROVE  FALSE
    <3> DEFINE now == [cl EXCEPT !.sessionState = report]
    <3>1. \/ client' = [client EXCEPT ![t] = now]
          \/ \E callback : LogoutComplete(t, now, callback)
      BY <2>5 DEF HandleReport
    <3>2. Same(now)
      BY <2>1
    <3> HIDE DEF now, Same
    <3>3. QED
      BY <2>3, <2>4, <3>1, <3>2
  <2>6. ASSUME NEW callback, Logout(t, cl, callback)
        PROVE  FALSE
    <3> DEFINE link == IF cl.link = "down" \/ ~cl.sessionService THEN cl.link
                                                                  ELSE "disconnecting"
               waits == [cl EXCEPT !.logoutContext = callback, !.link = link]
               early == [cl EXCEPT !.hasty = @ \/ cl.sessionState = "Initial"]
    <3>1. \/ client' = [client EXCEPT ![t] = Disconnecting(cl, callback)]
          \/ LogoutComplete(t, early, callback)
      BY <2>6 DEF Logout
    <3>2. Disconnecting(cl, callback) = waits
      BY <1>1, Zenon DEF Disconnecting
    <3> HIDE DEF link
    <3>3. Same(waits) /\ Same(early)
      BY <2>1
    <3> HIDE DEF waits, early, Same
    <3>4. QED
      BY <2>3, <2>4, <3>1, <3>2, <3>3
  <2>7. QED
    BY <2>1, <2>2, <2>3, <2>5, <2>6
<1>9. ASSUME NEW t \in Clients, ClientStep(t), ~\E c \in Channels : HandleRequest(c, t)
      PROVE  FALSE
  <2>1. CASE \E c \in Channels : HandleLogin(c, t) \/ HandleLogout(c, t)
    <3> DEFINE asked == [client[t] EXCEPT !.asked = TRUE]
               in(c) == [client[t] EXCEPT !.owner = c, !.sessionService = TRUE,
                                          !.link = "requested"]
    <3>1. /\ "pending" \in DOMAIN asked /\ asked.pending = client[t].pending
          /\ \A c : "pending" \in DOMAIN in(c) /\ in(c).pending = client[t].pending
      BY <1>1 DEF Client
    <3>2. \A c : Post(asked, <<"logout", c>>).pending = client[t].pending
      <4> HIDE DEF asked
      <4>1. QED
        BY <3>1 DEF Post
    <3>3. \/ client' = client
          \/ \E c : client' = [client EXCEPT ![t] = Post(asked, <<"logout", c>>)]
          \/ \E c : client' = [client EXCEPT ![t] = in(c)]
      BY <2>1, ZenonT(60) DEF HandleLogin, HandleLogout
    <3> HIDE DEF asked, in
    <3>4. ASSUME NEW cl, cl.pending = client[t].pending, client' = [client EXCEPT ![t] = cl]
          PROVE  FALSE
      <4>1. cl.pending \in Int /\ cl.pending <= client[t].pending
        BY <1>1, <3>4
      <4>2. QED
        BY <1>5, <3>4, <4>1
    <3>5. QED
      BY <1>3, <3>1, <3>2, <3>3, <3>4
  <2>2. CASE HandleResult(t)
    <3> DEFINE cl == [client[t] EXCEPT !.pending = @ - 1]
    <3>1. client' = [client EXCEPT ![t] = cl]
      BY <2>2 DEF HandleResult
    <3>2. cl.pending \in Int /\ cl.pending <= client[t].pending
      BY <1>1 DEF Client
    <3> HIDE DEF cl
    <3>3. QED
      BY <1>5, <3>1, <3>2
  <2>3. CASE Erase(t) \/ Notify(t)
    BY <1>3, <2>3 DEF Erase, Notify
  <2>4. CASE StartConnect(t) \/ Establish(t) \/ LoseSession(t) \/ Disconnect(t)
    <3>1. ASSUME NEW from, NEW to, NEW report, SessionReports(t, from, to, report)
          PROVE  FALSE
      <4> DEFINE moved == [client[t] EXCEPT !.link = to]
      <4>1. "pending" \in DOMAIN moved /\ moved.pending = client[t].pending
        BY <1>1 DEF Client
      <4>2. client' = [client EXCEPT ![t] = Post(moved, <<"report", report>>)]
        BY <3>1 DEF SessionReports
      <4> HIDE DEF moved
      <4>3. Post(moved, <<"report", report>>).pending = client[t].pending
        BY <4>1 DEF Post
      <4>4. QED
        BY <1>1, <1>5, <4>2, <4>3
    <3>2. QED
      BY <2>4, <3>1 DEF StartConnect, Establish, LoseSession, Disconnect
  <2>5. QED
    BY <1>8, <1>9, <2>1, <2>2, <2>3, <2>4 DEF ClientStep
<1>10. ASSUME NEW t \in Clients, NEW c \in Channels, HandleRequest(c, t)
       PROVE  t = s
  BY <1>1, <1>10 DEF HandleRequest
<1>11. CASE UNCHANGED vars
  BY <1>3, <1>11 DEF vars
<1>12. QED
  BY <1>7, <1>9, <1>10, <1>11 DEF Next

LEMMA RequestsAreInTime ==
  ASSUME ~ForeignSessions, SessionInv, [Next]_vars, NEW s \in Clients,
         client'[s].pending > client[s].pending, s \notin dismissed
  PROVE  client[s].sessionService /\ ~LogoutUnderWay(s)
<1>1. PICK c \in Channels : HandleRequest(c, s)
  BY OnlyRequestsAdd
<1>2. manager = "serving" /\ chan[c] = "open" /\ client[s].owner = c
  BY <1>1 DEF HandleRequest, Serving, Names
<1>3. ~leaked /\ ListInv /\ MapInv
  BY <1>2, NotYetShutdown
<1>4. s \in clientMap
  BY <1>1, <1>3 DEF HandleRequest
<1>5. ~Closed(s)
  BY <1>2 DEF Closed
<1>6. QED
  BY <1>3, <1>4, <1>5, MappedIsListed

\* The invariant holds when peers use only the sessions they have opened.
THEOREM SessionInvariance ==
  ASSUME ~ForeignSessions
  PROVE  Spec => []SessionInv
<1>1. Init => SessionInv
  BY InitInv
<1>2. SessionInv /\ [Next]_vars => SessionInv'
  BY NextInv
<1>3. QED
  BY <1>1, <1>2, PTL DEF Spec

\* No session stays in the map without an open channel and without a logout under
\* way, whatever the order of logouts, reports, closes and the shutdown.
THEOREM SessionsAreKept ==
  ASSUME ~ForeignSessions
  PROVE  Spec => []NoOrphans
<1>1. SessionInv => NoOrphans
  BY InvImpliesNoOrphans
<1>2. QED
  BY <1>1, SessionInvariance, PTL

\* No task of a strand, and no report of a session, finds its client deleted
\* before shutdown returns, unless a logout was complete before the first report.
THEOREM ClientsAreKept ==
  ASSUME ~ForeignSessions
  PROVE  Spec => []ClientOutlivesItsTasks
<1>1. SessionInv => ClientOutlivesItsTasks
  BY InvImpliesAlive
<1>2. QED
  BY <1>1, SessionInvariance, PTL

\* No request, which does not go through the client's strand, reaches a session
\* whose services a logout is tearing down, unless it comes from a peer that has
\* had its sessions closed and goes on to use them.
THEOREM RequestsAreSafe ==
  ASSUME ~ForeignSessions
  PROVE  Spec => RequestsPrecedeLogout
<1>1. SessionInv /\ [Next]_vars =>
        [\A s \in Clients :
           client'[s].pending > client[s].pending /\ s \notin dismissed
           => client[s].sessionService /\ ~LogoutUnderWay(s)]_vars
  BY RequestsAreInTime
<1>2. QED
  BY <1>1, SessionInvariance, PTL DEF Spec, RequestsPrecedeLogout
=============================================================================
