--------------------------- MODULE BrowserClient ---------------------------
(***************************************************************************)
(* The WebSocket client of the demo control panel (client/asneg-ws-client) *)
(* and the answers of the JSON API to it, for one browser and the channel  *)
(* that serves it.                                                         *)
(*                                                                         *)
(* The module has the client's state, the connection and the operators its *)
(* handlers are made of; ControlPanel composes them with the callbacks     *)
(* into the panel.  A handler of the browser runs to completion, so all    *)
(* it sends goes out in one step.  The requests of a channel are handled   *)
(* in the order they are sent and nothing else touches its monitors, so    *)
(* they are handled as they are sent, and a round trip is the time the     *)
(* answer waits in toClient.                                               *)
(*                                                                         *)
(* Left out: the requests whose answers change nothing the client keeps    *)
(* (read, historical read, write, and the update messages).                *)
(***************************************************************************)
EXTENDS Naturals, Sequences, SequencesExt, FiniteSetsExt

CONSTANTS
  Variables,        \* the value names a server may have
  MaxConnections    \* bound: how often the connection is opened

ASSUME ClientAssumption == IsFiniteSet(Variables) /\ MaxConnections \in Nat

VARIABLES
  readyState,               \* of the browser's WebSocket, ws_
  monitoringVariableList,   \* the variables to monitor again, in order
  toClient,                 \* answers the client has not yet received
  served,                   \* the variables of the server's value info map
  monitors,                 \* the server's monitors of the current channel
  connections               \* how often the connection was opened

clientVars == <<readyState, monitoringVariableList, connections>>
serverVars == <<served, monitors>>

-----------------------------------------------------------------------------
(* Messages: the header's type and what of the body matters here.          *)

ValueListRequest      == [type |-> "VALUELIST_REQUEST"]
ValueInfoRequest(S)   == [type |-> "VALUEINFO_REQUEST", variables |-> S]
StartRequest(v)       == [type |-> "MONITORSTART_REQUEST", variable |-> v]
StopRequest(v)        == [type |-> "MONITORSTOP_REQUEST", variable |-> v]
ValueListResponse(S)  == [type |-> "VALUELIST_RESPONSE", variables |-> S]
ValueInfoResponse(S)  == [type |-> "VALUEINFO_RESPONSE", variables |-> S]
StartResponse(v, ok)  == [type |-> "MONITORSTART_RESPONSE", variable |-> v, ok |-> ok]
StopResponse(v, ok)   == [type |-> "MONITORSTOP_RESPONSE", variable |-> v, ok |-> ok]

Responses ==
  {ValueListResponse(S) : S \in SUBSET Variables}
    \cup {ValueInfoResponse(S) : S \in SUBSET Variables}
    \cup {StartResponse(v, ok) : v \in Variables, ok \in BOOLEAN}
    \cup {StopResponse(v, ok) : v \in Variables, ok \in BOOLEAN}

-----------------------------------------------------------------------------
(* The client's list of monitored variables.                               *)

Count(list, v) == Cardinality({i \in DOMAIN list : list[i] = v})

\* The entries of the list that are in S, in their order.
Keep(list, S) ==
  FoldLeft(LAMBDA kept, x : IF x \in S THEN Append(kept, x) ELSE kept, <<>>, list)

\* Fault: only the first entry of the variable is removed.
RemoveOnlyFirst(list, v) == RemoveFirst(list, v)

removeMonitoringVariableFromArray(list, v) == Keep(list, Variables \ {v})

checkOldMonitorVariables(list, value) == Keep(list, value)

\* Fault: the last variable of the list is not started again.
StartAllButLast(list) == [i \in DOMAIN list \ {Len(list)} |-> StartRequest(list[i])]

startOldMonitorVariables(list) == [i \in DOMAIN list |-> StartRequest(list[i])]

\* A start the server accepted is recorded: once more for every connection on
\* which the variable was started again, because nothing looks for it first.
RecordStart(list, m) == IF m.ok THEN Append(list, m.variable) ELSE list

-----------------------------------------------------------------------------
(* The server: OpcUaClientManager handles the requests of a channel in     *)
(* order and answers these four at once.                                   *)

\* A start is accepted for a variable that exists and that the channel, with
\* the monitors S, does not monitor yet; else BadNodeIdUnknown or
\* BadEntryExists.
AcceptsStart(v, S) == v \in served /\ v \notin S

AcceptsStop(v, S) == v \in served /\ v \in S

\* The monitors after the requests, from the monitors S before them: the last
\* start or stop of a variable decides.
MonitorsAfter(S, requests) ==
  LET About(v) == {i \in DOMAIN requests : requests[i] \in {StartRequest(v), StopRequest(v)}} IN
  {v \in served : IF About(v) = {} THEN v \in S
                  ELSE requests[Max(About(v))] = StartRequest(v)}

\* The answer to a request, when the channel has the monitors S.
Answer(S, m) ==
  CASE m.type = "VALUELIST_REQUEST"    -> ValueListResponse(served)
    [] m.type = "VALUEINFO_REQUEST"    -> ValueInfoResponse(m.variables)
    [] m.type = "MONITORSTART_REQUEST" -> StartResponse(m.variable, AcceptsStart(m.variable, S))
    [] m.type = "MONITORSTOP_REQUEST"  -> StopResponse(m.variable, AcceptsStop(m.variable, S))

Answers(requests) ==
  [i \in DOMAIN requests |->
     Answer(MonitorsAfter(monitors, SubSeq(requests, 1, i - 1)), requests[i])]

-----------------------------------------------------------------------------
(* Sending and receiving.                                                  *)

\* readValueList, sendValueInfo, startMonitoring and stopMonitoring: the
\* requests go out while the socket is open, else they are only logged.  The
\* answers join the messages that wait for the client.
Sends(waiting, state, requests) ==
  IF state = "OPEN"
  THEN toClient' = waiting \o Answers(requests) /\ monitors' = MonitorsAfter(monitors, requests)
  ELSE toClient' = waiting /\ UNCHANGED monitors

\* The next message of the server is delivered: only to an open socket.
Receives(type) ==
  /\ readyState = "OPEN"
  /\ toClient # <<>>
  /\ Head(toClient).type = type

\* The server is started again with another configuration while the browser
\* has no connection to it.
ServerRestart ==
  /\ readyState = "CONNECTING"
  /\ served' \in SUBSET Variables \ {{}}
  /\ UNCHANGED <<clientVars, toClient, monitors>>

-----------------------------------------------------------------------------
\* new ASNeG_Client: connect() has created the socket.
ClientInit ==
  /\ readyState = "CONNECTING"
  /\ monitoringVariableList = <<>>
  /\ toClient = <<>>
  /\ served \in SUBSET Variables \ {{}}
  /\ monitors = {}
  /\ connections = 0

ClientTypeOK ==
  /\ readyState \in {"CONNECTING", "OPEN", "CLOSING", "CLOSED"}
  /\ monitoringVariableList \in Seq(Variables)
  /\ toClient \in Seq(Responses)
  /\ served \in SUBSET Variables
  /\ monitors \in SUBSET Variables
  /\ connections \in 0 .. MaxConnections

\* The value list or the value info of this connection is still to come.
Handshaking ==
  \E m \in Range(toClient) : m.type \in {"VALUELIST_RESPONSE", "VALUEINFO_RESPONSE"}

\* Nothing is on its way.
Quiet == readyState = "OPEN" /\ toClient = <<>>
=============================================================================
