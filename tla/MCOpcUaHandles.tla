---- MODULE MCOpcUaHandles ----
(* The small instance of OpcUaClient with one more variable, a history: what  *)
(* each channel has asked for.                                                *)
EXTENDS MCOpcUaClient

VARIABLE wanted   \* the variable of the last accepted start of a channel for a handle

RememberingStart(c, h, v) ==
    /\ ~crashed /\ monitorStartRequest(c, h, v)
    /\ wanted' = IF Known(v) /\ ~Monitors(c, h) THEN [wanted EXCEPT ![<<c, h>>] = v]
                                               ELSE wanted

RememberingNext ==
    \/ \E c \in Channels, h \in Handles, v \in Variables \cup {Unknown} :
          RememberingStart(c, h, v)
    \/ OtherStep /\ UNCHANGED wanted

RememberingSpec ==
    /\ Init /\ wanted = [x \in Channels \X Handles |-> None]
    /\ [][RememberingNext]_<<vars, wanted>>

\* An item has the variable that each of its channels asked for: the handle
\* "is an identifier of the message which is set by the client"
\* (docs/source/3_websocket_server/message_format.rst:46), the variable of a
\* start is in its body (monitor.rst:26).
MonitorsWhatWasAsked ==
    \A c \in open, h \in Handles :
        ~crashed /\ <<c, h>> \in asked => monitorItemMap[h].variable = wanted[<<c, h>>]
====
