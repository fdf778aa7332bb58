---- MODULE OpcUaClient ----
(***************************************************************************)
(* One OPC UA client of the JSON API with its monitors: OpcUaClient.cpp    *)
(* and MonitorManager.cpp, behind the dispatch of OpcUaClientManager.cpp.  *)
(*                                                                         *)
(* Requests of the channels run on the strand of the WebSocket server, the *)
(* timer and the session on the strand of the client; the IO thread has    *)
(* two threads (Library.cpp:60), so the two strands run side by side and   *)
(* share monitorItemMap_ without a lock.  polling_ is set to true by the   *)
(* constructor and never written: the branches of the subscription mode,   *)
(* monitorItemIdMap_ with them, are dead and are left out.                 *)
(*                                                                         *)
(* A service transaction that is under way is a record; two polls that     *)
(* are alike in everything are one member of polls.  The OPC UA stack and  *)
(* its session are external: it ends every transaction, with a result or   *)
(* an error.                                                               *)
(***************************************************************************)
EXTENDS Naturals, FiniteSets

CONSTANTS
    Channels,      \* channel ids
    Handles,       \* values of Header.ClientHandle
    Variables,     \* variables of the configuration, each of this client
    Unknown,       \* a name the configuration does not have
    Namespaces,    \* number of configured namespace URIs
    NamespaceOf,   \* Variables -> configured namespace index
    Encodable,     \* variables whose values jsonEncode accepts
    Requests,      \* reads and writes: [kind, channel] that may be under way
    None,          \* no monitor item; no variable
    MaxPolls,      \* bound: polls under way at a time
    MaxReads       \* bound: reads of the namespace array under way at a time

Item == [variable : Variables, channels : (SUBSET Channels) \ {{}}]
Poll == [handle : Handles, variable : Variables, channels : (SUBSET Channels) \ {{}}]

ASSUME ConfigAssumption ==
    /\ None \notin Variables \cup Item /\ Unknown \notin Variables
    /\ Namespaces \in Nat /\ NamespaceOf \in [Variables -> Nat]
    /\ Channels \subseteq Nat /\ Encodable \subseteq Variables
    /\ Requests \subseteq [kind : {"read", "write"}, channel : Channels]

VARIABLES
    state,            \* state_
    namespaceMap,     \* namespaceMap_: how many of the configured URIs it maps
    monitorItemMap,   \* monitorItemMap_, by the handle that is used as its key
    walk,             \* items that polling() has still to visit
    polls,            \* poll transactions under way
    namespaceReads,   \* reads of the namespace array under way
    open,             \* channels that are open
    torn,             \* channels and handles that a close has walked past
    asked,            \* channels and handles last told that they are monitored
    transactions,     \* reads and writes under way at the OPC UA server
    waiting,          \* reads and writes that have not been answered
    crashed           \* a data race or a freed node ended the process

sessionVars == <<state, namespaceMap, namespaceReads>>
monitorVars == <<monitorItemMap, open, torn, asked>>
requestVars == <<transactions, waiting>>
vars == <<sessionVars, monitorVars, requestVars, walk, polls, crashed>>

TypeOK ==
    /\ state \in {"S_Close", "S_Open"}
    /\ namespaceMap \in 0..Namespaces
    /\ monitorItemMap \in [Handles -> Item \cup {None}]
    /\ walk \subseteq Handles
    /\ polls \subseteq Poll
    /\ namespaceReads \in Nat
    /\ open \subseteq Channels /\ torn \subseteq Channels \X Handles
    /\ asked \subseteq Channels \X Handles
    /\ transactions \subseteq Requests /\ waiting \subseteq Requests
    /\ crashed \in BOOLEAN

\* The process as it starts, and what is left of it when it has ended.
Cleared(st, nm, items, w, ps, nr, o, to, as, tr, wa) ==
    /\ st = "S_Close" /\ nm = 0
    /\ items = [h \in Handles |-> None]
    /\ w = {} /\ ps = {} /\ nr = 0
    /\ o = Channels /\ to = {}
    /\ as = {}
    /\ tr = {} /\ wa = {}

Init ==
    /\ Cleared(state, namespaceMap, monitorItemMap, walk, polls, namespaceReads,
               open, torn, asked, transactions, waiting)
    /\ crashed = FALSE

(***************************************************************************)
(* Monitors.                                                               *)
(***************************************************************************)
Monitors(c, h) == monitorItemMap[h] # None /\ c \in monitorItemMap[h].channels

\* The node of (c, h) in the map after MonitorManager::addMonitorItem: a new
\* item takes the variable of this request, an old one keeps its own.
addMonitorItem(c, h, v) ==
    IF monitorItemMap[h] = None THEN [variable |-> v, channels |-> {c}]
    ELSE [monitorItemMap[h] EXCEPT !.channels = @ \cup {c}]

\* Fault: the item goes with the first channel that leaves it.
DelErasesItem(item, c) == None

\* MonitorManager::delMonitorItem for one item.
delMonitorItem(item, c) ==
    IF item.channels = {c} THEN None
    ELSE [item EXCEPT !.channels = @ \ {c}]

Known(v) == v \in Variables

\* The peer names the variable, and the handle is the key of the item.  A
\* name that is not configured is refused (BadNodeIdUnknown), as is a second
\* start for the handle (BadEntryExists).
monitorStartRequest(c, h, v) ==
    /\ c \in open
    /\ IF Known(v) /\ ~Monitors(c, h)
       THEN /\ monitorItemMap' = [monitorItemMap EXCEPT ![h] = addMonitorItem(c, h, v)]
            /\ asked' = asked \cup {<<c, h>>}
       ELSE UNCHANGED <<monitorItemMap, asked>>
    /\ UNCHANGED <<sessionVars, open, torn, walk, polls, requestVars, crashed>>

monitorStopRequest(c, h, v) ==
    /\ c \in open
    /\ IF Known(v) /\ Monitors(c, h)
       THEN /\ monitorItemMap' =
                  [monitorItemMap EXCEPT ![h] = delMonitorItem(monitorItemMap[h], c)]
            /\ asked' = asked \ {<<c, h>>}
            /\ torn' = torn \ {<<c, h>>}
       ELSE UNCHANGED <<monitorItemMap, asked, torn>>
    /\ UNCHANGED <<sessionVars, open, walk, polls, requestVars, crashed>>

\* closeChannelMessage takes the channel out of its items.  The loop of
\* MonitorManager steps on from the node it has just erased: after the first
\* item that goes it may reach any of the others, or crash.
closeChannelMessage(c) ==
    LET mine == {h \in Handles : Monitors(c, h)}
        sole == {h \in mine : monitorItemMap[h].channels = {c}}
    IN /\ c \in open
       /\ \E reached \in SUBSET mine :
             /\ IF sole = {} THEN reached = mine ELSE reached \cap sole # {}
             /\ monitorItemMap' =
                   [h \in Handles |-> IF h \in reached THEN delMonitorItem(monitorItemMap[h], c)
                                      ELSE monitorItemMap[h]]
             /\ torn' = (torn \ ({c} \X reached)) \cup ({c} \X (mine \ reached))
          /\ asked' = asked \ ({c} \X Handles)
       /\ UNCHANGED <<sessionVars, walk, polls, requestVars, crashed>>

\* The WebSocket server says that the channel has closed.
channelCloses(c) == closeChannelMessage(c) /\ open' = open \ {c}

\* The peer sends a CHANNELCLOSE_MESSAGE of its own, which the dispatch does not
\* tell from the server's: the channel stays open, and its requests go on.
peerDropsMonitors(c) == closeChannelMessage(c) /\ UNCHANGED open

\* The freed node may as well end the process, and so may a request that
\* writes the map while the other strand walks it.
crash ==
    /\ \E c \in open : \/ walk # {}
                      \/ \E h \in Handles : Monitors(c, h) /\ monitorItemMap[h].channels = {c}
    /\ crashed' = TRUE
    /\ Cleared(state', namespaceMap', monitorItemMap', walk', polls', namespaceReads',
               open', torn', asked', transactions', waiting')

(***************************************************************************)
(* Polling.                                                                *)
(***************************************************************************)
Mapped(v) == NamespaceOf[v] \in 1..namespaceMap

\* timerLoop, every 900 ms on the strand of the client.
polling ==
    /\ walk = {}
    /\ state = "S_Open"
    /\ walk' = {h \in Handles : monitorItemMap[h] # None}
    /\ UNCHANGED <<sessionVars, monitorVars, polls, requestVars, crashed>>

PollOf(h) ==
    {[handle |-> h, variable |-> monitorItemMap[h].variable,
      channels |-> monitorItemMap[h].channels]}

\* Fault: a namespace that is not mapped ends the walk, not the turn.
VisitItemReturns(h) ==
    /\ walk' = IF monitorItemMap[h] # None /\ ~Mapped(monitorItemMap[h].variable)
               THEN {} ELSE walk \ {h}
    /\ polls' = IF monitorItemMap[h] # None /\ Mapped(monitorItemMap[h].variable)
                THEN polls \cup PollOf(h) ELSE polls

\* One turn of the loop of polling().  An item that has gone in the meantime
\* may be passed over; that the walk meets its freed node is the crash above.
VisitItem(h) ==
    /\ walk' = walk \ {h}
    /\ polls' = IF monitorItemMap[h] # None /\ Mapped(monitorItemMap[h].variable)
                THEN polls \cup PollOf(h) ELSE polls

visitMonitorItem(h) ==
    /\ h \in walk
    /\ VisitItem(h)
    /\ Cardinality(polls') <= MaxPolls
    /\ UNCHANGED <<sessionVars, monitorVars, requestVars, crashed>>

\* The channels that hear of a poll: every channel of the snapshot is sent
\* the value or the error; when a value cannot be encoded, the error goes to
\* the first channel and the loop is left.
Informed(p, success) ==
    IF success /\ p.variable \notin Encodable
    THEN {c \in p.channels : \A d \in p.channels : c <= d}
    ELSE p.channels

\* The response to a poll, of which the channels in informed hear.
readResponse1(p, informed) ==
    /\ p \in polls
    /\ \E success \in BOOLEAN : informed = Informed(p, success)
    /\ polls' = polls \ {p}
    /\ UNCHANGED <<sessionVars, monitorVars, walk, requestVars, crashed>>

(***************************************************************************)
(* Reads and writes.                                                       *)
(***************************************************************************)
\* Does the request become a transaction?  If not it is answered with
\* BadNodeIdUnknown, BadNotConnected or BadNodeIdInvalid.
Transacts(v) == Known(v) /\ state = "S_Open" /\ Mapped(v)

\* Fault: a variable whose namespace is not mapped is only logged.
RefusedUnlessUnmapped(v) == ~Known(v) \/ state # "S_Open"

\* Is the request answered at once, with an error?
Refused(v) == ~Transacts(v)

\* readRequest and writeRequest.
request(r, v) ==
    /\ r.channel \in open
    /\ r \notin waiting
    /\ waiting' = IF Refused(v) THEN waiting ELSE waiting \cup {r}
    /\ transactions' = IF Transacts(v) THEN transactions \cup {r} ELSE transactions
    /\ UNCHANGED <<sessionVars, monitorVars, walk, polls, crashed>>

\* readResponse and writeResponse: every path sends one answer, also to a
\* channel that has been closed.
response(r) ==
    /\ r \in transactions
    /\ transactions' = transactions \ {r}
    /\ waiting' = waiting \ {r}
    /\ UNCHANGED <<sessionVars, monitorVars, walk, polls, crashed>>

(***************************************************************************)
(* The session.                                                            *)
(***************************************************************************)
\* Each establishment of the session reads the namespace array.
sessionEstablished ==
    /\ namespaceReads < MaxReads
    /\ namespaceReads' = namespaceReads + 1
    /\ UNCHANGED <<state, namespaceMap, monitorVars, walk, polls, requestVars, crashed>>

sessionDisconnected ==
    /\ state' = "S_Close"
    /\ UNCHANGED <<namespaceMap, namespaceReads, monitorVars, walk, polls,
                   requestVars, crashed>>

\* A read that fails changes nothing, and nothing repeats it.  Otherwise the
\* configured URIs are mapped in order, up to the first the server lacks;
\* only when all are mapped is the client open.
handleNamespaceArray ==
    /\ namespaceReads > 0
    /\ namespaceReads' = namespaceReads - 1
    /\ \/ UNCHANGED <<state, namespaceMap>>
       \/ \E n \in 0..Namespaces :
             /\ namespaceMap' = n
             /\ state' = IF n = Namespaces THEN "S_Open" ELSE state
    /\ UNCHANGED <<monitorVars, walk, polls, requestVars, crashed>>

StartStep ==
    \E c \in Channels, h \in Handles, v \in Variables \cup {Unknown} :
        ~crashed /\ monitorStartRequest(c, h, v)

OtherStep ==
    /\ ~crashed
    /\ \/ \E c \in Channels, h \in Handles, v \in Variables \cup {Unknown} :
             monitorStopRequest(c, h, v)
       \/ \E c \in Channels : channelCloses(c) \/ peerDropsMonitors(c)
       \/ crash
       \/ polling
       \/ \E h \in Handles : visitMonitorItem(h)
       \/ \E p \in polls, informed \in SUBSET Channels : readResponse1(p, informed)
       \/ \E r \in Requests, v \in Variables \cup {Unknown} : request(r, v)
       \/ \E r \in Requests : response(r)
       \/ sessionEstablished \/ sessionDisconnected \/ handleNamespaceArray

Next == StartStep \/ OtherStep

Spec == Init /\ [][Next]_vars

Answers(h) == \E p \in polls, informed \in SUBSET Channels :
                 p.handle = h /\ readResponse1(p, informed)

\* The timer repeats, a walk goes on, and the OPC UA stack ends every
\* transaction: with a result, with an error or with its own timeout.
Fairness ==
    /\ WF_vars(~crashed /\ polling)
    /\ \A h \in Handles : WF_vars(~crashed /\ visitMonitorItem(h))
    /\ \A h \in Handles : WF_vars(~crashed /\ Answers(h))
    /\ \A r \in Requests : WF_vars(~crashed /\ response(r))

FairSpec == Spec /\ Fairness

(***************************************************************************)
(* Properties.                                                             *)
(***************************************************************************)
\* What a channel has been told and what is monitored agree: a channel is in
\* the item of a handle exactly when its last request that changed anything was
\* a start, and it has closed or dropped its monitors since only if that walked
\* on from a freed node (MonitorManager.cpp:192).  A closed channel was told of
\* nothing, so such items are all that is left of it.
MonitorsAgree ==
    ~crashed =>
        \A c \in Channels, h \in Handles :
            /\ Monitors(c, h) <=> <<c, h>> \in asked \cup torn
            /\ c \notin open => <<c, h>> \notin asked

\* Every read and every write is answered, whatever the session does in the
\* meantime (OpcUaClient.cpp:244-444).
RequestsAreAnswered == \A r \in Requests : r \in waiting ~> (r \notin waiting \/ crashed)

\* Updates come to c for h as long as nothing changes.
Served(c, h) ==
    /\ ~crashed
    /\ state = "S_Open"
    /\ Monitors(c, h)
    /\ Mapped(monitorItemMap[h].variable) /\ monitorItemMap[h].variable \in Encodable

\* A channel that monitors a variable hears of it again and again as long as
\* the client is open and has the namespace of the variable, whatever becomes
\* of the other variables and channels (OpcUaClient.cpp:709-757).
MonitoredIsUpdated ==
    \A c \in Channels, h \in Handles :
        \/ []<>~Served(c, h)
        \/ []<><<\E p \in polls, informed \in SUBSET Channels :
                  p.handle = h /\ c \in informed /\ readResponse1(p, informed)>>_vars
====
