------------------------- MODULE OpcUaClientProofs -------------------------
(***************************************************************************)
(* The monitors and the requests of an OPC UA client, for any channels,    *)
(* handles, variables and namespaces, and with no bound on sessions and    *)
(* polls.                                                                  *)
(***************************************************************************)
EXTENDS OpcUaClient, TLAPS

\* A crash clears what channels were told together with the monitors, so
\* MonitorsAgree needs no premise here.
Agree ==
  \A c \in Channels, h \in Handles :
    /\ Monitors(c, h) <=> <<c, h>> \in asked \cup torn
    /\ c \notin open => <<c, h>> \notin asked

\* A request that waits has its transaction under way, which is what makes
\* the liveness of the answers follow from that of the OPC UA stack.
NothingWaitsInVain == waiting \subseteq transactions

\* What Agree speaks of.
MonitorTypes ==
  /\ monitorItemMap \in [Handles -> Item \cup {None}]
  /\ asked \subseteq Channels \X Handles /\ torn \subseteq Channels \X Handles
  /\ open \subseteq Channels

LEMMA NoneIsNoItem == None \notin Item /\ None \notin Variables
  BY ConfigAssumption

LEMMA InitAgrees == Init => MonitorTypes /\ Agree /\ NothingWaitsInVain
  BY DEF Init, Cleared, MonitorTypes, Agree, NothingWaitsInVain, Monitors

\* An item that a start leaves behind has the channel that started it and
\* every channel it had before.
LEMMA AddedItem ==
  ASSUME MonitorTypes, NEW c \in Channels, NEW h \in Handles, NEW v \in Variables
  PROVE  /\ addMonitorItem(c, h, v) \in Item
         /\ \A d \in Channels : d \in addMonitorItem(c, h, v).channels
                                  <=> d = c \/ Monitors(d, h)
  <1>1. CASE monitorItemMap[h] = None
    <2>1. addMonitorItem(c, h, v) = [variable |-> v, channels |-> {c}]
      BY <1>1 DEF addMonitorItem
    <2>2. [variable |-> v, channels |-> {c}] \in Item
      BY DEF Item
    <2>3. [variable |-> v, channels |-> {c}].channels = {c}
      OBVIOUS
    <2> QED BY <1>1, <2>1, <2>2, <2>3 DEF Monitors
  <1>2. CASE monitorItemMap[h] # None
    <2>1. monitorItemMap[h] \in Item
      BY <1>2 DEF MonitorTypes
    <2>2. addMonitorItem(c, h, v) =
             [monitorItemMap[h] EXCEPT !.channels = monitorItemMap[h].channels \cup {c}]
      BY <1>2 DEF addMonitorItem
    <2>3. addMonitorItem(c, h, v) \in Item
      BY <2>1, <2>2 DEF Item
    <2>4. addMonitorItem(c, h, v).channels = monitorItemMap[h].channels \cup {c}
      BY <2>1, <2>2 DEF Item
    <2> QED BY <1>2, <2>3, <2>4 DEF Monitors
  <1> QED BY <1>1, <1>2

\* The item that a channel leaves keeps the others, and goes with the last.
LEMMA DeletedItem ==
  ASSUME NEW item \in Item, NEW c \in Channels, c \in item.channels
  PROVE  /\ delMonitorItem(item, c) \in Item \cup {None}
         /\ \A d \in Channels : (delMonitorItem(item, c) # None /\ d \in delMonitorItem(item, c).channels)
                                  <=> d # c /\ d \in item.channels
  <1>1. CASE item.channels = {c}
    BY <1>1 DEF delMonitorItem
  <1>2. CASE item.channels # {c}
    <2>1. delMonitorItem(item, c) = [item EXCEPT !.channels = item.channels \ {c}]
      BY <1>2 DEF delMonitorItem
    <2>2. item.channels \ {c} \in (SUBSET Channels) \ {{}}
      BY <1>2 DEF Item
    <2>3. delMonitorItem(item, c) \in Item
      BY <2>1, <2>2 DEF Item
    <2>4. delMonitorItem(item, c).channels = item.channels \ {c}
      BY <2>1 DEF Item
    <2> QED BY <2>3, <2>4, NoneIsNoItem
  <1> QED BY <1>1, <1>2

\* A step rewrites the node of h and what c, and no other, has been told of
\* h, and the two changes match.
Rewrites(c, h, item) ==
  /\ monitorItemMap' = [monitorItemMap EXCEPT ![h] = item]
  /\ asked' \subseteq Channels \X Handles /\ torn' \subseteq Channels \X Handles
  /\ open' = open
  /\ \A d \in Channels, k \in Handles :
       IF d = c /\ k = h
       THEN <<d, k>> \in asked' \cup torn' <=> item # None /\ d \in item.channels
       ELSE (<<d, k>> \in asked' <=> <<d, k>> \in asked)
            /\ (<<d, k>> \in torn' <=> <<d, k>> \in torn)
  /\ \A d \in Channels : d # c => (item # None /\ d \in item.channels <=> Monitors(d, h))

LEMMA NodeRewritten ==
  ASSUME MonitorTypes, Agree,
         NEW c \in open, NEW h \in Handles, NEW item \in Item \cup {None},
         Rewrites(c, h, item)
  PROVE  MonitorTypes' /\ Agree'
  <1>1. MonitorTypes'
    <2>1. monitorItemMap' \in [Handles -> Item \cup {None}]
      BY DEF MonitorTypes, Rewrites
    <2> QED BY <2>1 DEF MonitorTypes, Rewrites
  <1>2. \A k \in Handles : monitorItemMap'[k] = IF k = h THEN item ELSE monitorItemMap[k]
    BY DEF MonitorTypes, Rewrites
  <1> SUFFICES ASSUME NEW d \in Channels, NEW k \in Handles
               PROVE  /\ Monitors(d, k)' <=> <<d, k>> \in asked' \cup torn'
                      /\ d \notin open' => <<d, k>> \notin asked'
    BY <1>1 DEF Agree
  <1>3. CASE k # h
    BY <1>2, <1>3 DEF Agree, Monitors, Rewrites
  <1>4. CASE k = h /\ d # c
    BY <1>2, <1>4 DEF Agree, Monitors, Rewrites
  <1>5. CASE k = h /\ d = c
    BY <1>2, <1>5 DEF Monitors, Rewrites
  <1> QED BY <1>3, <1>4, <1>5

LEMMA StartAgrees ==
  ASSUME MonitorTypes, Agree, NEW c \in Channels, NEW h \in Handles, NEW v,
         monitorStartRequest(c, h, v)
  PROVE  MonitorTypes' /\ Agree'
  <1>1. CASE Known(v) /\ ~Monitors(c, h)
    <2>1. v \in Variables /\ c \in open
      BY <1>1 DEF Known, monitorStartRequest
    <2> DEFINE item == addMonitorItem(c, h, v)
    <2>2. /\ monitorItemMap' = [monitorItemMap EXCEPT ![h] = item]
          /\ asked' = asked \cup {<<c, h>>}
          /\ UNCHANGED <<open, torn>>
      BY <1>1 DEF monitorStartRequest
    <2>3. item \in Item /\ item # None
      BY <2>1, AddedItem, NoneIsNoItem
    <2>5. \A d \in Channels : d \in item.channels <=> d = c \/ Monitors(d, h)
      BY <2>1, AddedItem
    <2> HIDE DEF item
    <2>4. Rewrites(c, h, item)
      BY <2>2, <2>3, <2>5 DEF Rewrites, MonitorTypes
    <2> QED BY <2>1, <2>3, <2>4, NodeRewritten
  <1>2. CASE ~(Known(v) /\ ~Monitors(c, h))
    <2>1. UNCHANGED monitorVars
      BY <1>2 DEF monitorStartRequest, monitorVars
    <2> QED BY <2>1 DEF monitorVars, MonitorTypes, Agree, Monitors
  <1> QED BY <1>1, <1>2

LEMMA StopAgrees ==
  ASSUME MonitorTypes, Agree, NEW c \in Channels, NEW h \in Handles, NEW v,
         monitorStopRequest(c, h, v)
  PROVE  MonitorTypes' /\ Agree'
  <1>1. CASE Known(v) /\ Monitors(c, h)
    <2>1. c \in open /\ monitorItemMap[h] \in Item /\ c \in monitorItemMap[h].channels
      BY <1>1 DEF monitorStopRequest, MonitorTypes, Monitors
    <2> DEFINE item == delMonitorItem(monitorItemMap[h], c)
    <2>2. item \in Item \cup {None}
      BY <2>1, DeletedItem
    <2>3. \A d \in Channels : (item # None /\ d \in item.channels)
                                <=> d # c /\ d \in monitorItemMap[h].channels
      BY <2>1, DeletedItem
    <2>4. \A d \in Channels : Monitors(d, h) <=> d \in monitorItemMap[h].channels
      BY <2>1, NoneIsNoItem DEF Monitors
    <2>5. /\ monitorItemMap' = [monitorItemMap EXCEPT ![h] = item]
          /\ asked' = asked \ {<<c, h>>} /\ torn' = torn \ {<<c, h>>}
          /\ UNCHANGED open
      BY <1>1 DEF monitorStopRequest
    <2> HIDE DEF item
    <2>6. Rewrites(c, h, item)
      BY <2>3, <2>4, <2>5 DEF Rewrites, MonitorTypes
    <2> QED BY <2>1, <2>2, <2>6, NodeRewritten
  <1>2. CASE ~(Known(v) /\ Monitors(c, h))
    <2>1. UNCHANGED monitorVars
      BY <1>2 DEF monitorStopRequest, monitorVars
    <2> QED BY <2>1 DEF monitorVars, MonitorTypes, Agree, Monitors
  <1> QED BY <1>1, <1>2

\* Items the walk of a close does not reach keep the channel, which is what
\* torn records; no other channel loses anything.  It makes no difference
\* whether the channel closes or its peer has sent the message.
LEMMA CloseAgrees ==
  ASSUME MonitorTypes, Agree, NEW c \in Channels, closeChannelMessage(c),
         open' = open \ {c} \/ open' = open
  PROVE  MonitorTypes' /\ Agree'
  <1> DEFINE mine == {h \in Handles : Monitors(c, h)}
  <1>1. asked' = asked \ ({c} \X Handles)
    BY DEF closeChannelMessage
  <1>2. PICK reached \in SUBSET mine :
          /\ monitorItemMap' =
                [h \in Handles |-> IF h \in reached THEN delMonitorItem(monitorItemMap[h], c)
                                   ELSE monitorItemMap[h]]
          /\ torn' = (torn \ ({c} \X reached)) \cup ({c} \X (mine \ reached))
    BY DEF closeChannelMessage
  <1>3. \A h \in reached : monitorItemMap[h] \in Item /\ c \in monitorItemMap[h].channels
    BY DEF MonitorTypes, Monitors
  <1>4. \A h \in reached : delMonitorItem(monitorItemMap[h], c) \in Item \cup {None}
    BY <1>3, DeletedItem
  <1>5. MonitorTypes'
    <2>1. monitorItemMap' \in [Handles -> Item \cup {None}]
      BY <1>2, <1>4 DEF MonitorTypes
    <2>2. torn' \subseteq Channels \X Handles
      BY <1>2 DEF MonitorTypes
    <2> QED BY <1>1, <2>1, <2>2 DEF MonitorTypes
  <1>6. \A d \in Channels, h \in Handles :
           Monitors(d, h)' <=> Monitors(d, h) /\ ~(d = c /\ h \in reached)
    <2> SUFFICES ASSUME NEW d \in Channels, NEW h \in Handles
                 PROVE  Monitors(d, h)' <=> Monitors(d, h) /\ ~(d = c /\ h \in reached)
      OBVIOUS
    <2>1. CASE h \in reached
      <3>1. monitorItemMap'[h] = delMonitorItem(monitorItemMap[h], c)
        BY <1>2, <2>1
      <3>2. monitorItemMap[h] # None
        BY <1>3, <2>1, NoneIsNoItem
      <3>3. monitorItemMap[h] \in Item /\ c \in monitorItemMap[h].channels
        BY <1>3, <2>1
      <3>4. (delMonitorItem(monitorItemMap[h], c) # None
               /\ d \in delMonitorItem(monitorItemMap[h], c).channels)
              <=> d # c /\ d \in monitorItemMap[h].channels
        BY <3>3, DeletedItem
      <3> QED BY <2>1, <3>1, <3>2, <3>4 DEF Monitors
    <2>2. CASE h \notin reached
      BY <1>2, <2>2 DEF Monitors
    <2> QED BY <2>1, <2>2
  <1> SUFFICES ASSUME NEW d \in Channels, NEW h \in Handles
               PROVE  /\ Monitors(d, h)' <=> <<d, h>> \in asked' \cup torn'
                      /\ d \notin open' => <<d, h>> \notin asked'
    BY <1>5 DEF Agree
  <1>7. CASE d # c
    <2>1. /\ <<d, h>> \in asked' <=> <<d, h>> \in asked
          /\ <<d, h>> \in torn' <=> <<d, h>> \in torn
          /\ d \in open' <=> d \in open
      BY <1>1, <1>2, <1>7
    <2> QED BY <1>6, <1>7, <2>1 DEF Agree
  <1>8. CASE d = c
    <2>1. <<d, h>> \notin asked'
      BY <1>1, <1>8
    <2>2. <<d, h>> \in torn' <=> Monitors(c, h) /\ h \notin reached
      <3>1. CASE Monitors(c, h)
        BY <1>2, <1>8, <3>1
      <3>2. CASE ~Monitors(c, h)
        <4>1. <<c, h>> \notin torn /\ h \notin mine
          BY <3>2 DEF Agree
        <4> QED BY <1>2, <1>8, <3>2, <4>1
      <3> QED BY <3>1, <3>2
    <2> QED BY <1>6, <1>8, <2>1, <2>2
  <1> QED BY <1>7, <1>8

LEMMA NextAgrees ==
  ASSUME MonitorTypes, Agree, [Next]_vars
  PROVE  MonitorTypes' /\ Agree'
  <1>1. ASSUME NEW c \in Channels, NEW h \in Handles, NEW v \in Variables \cup {Unknown},
               monitorStartRequest(c, h, v) \/ monitorStopRequest(c, h, v)
        PROVE  MonitorTypes' /\ Agree'
    BY <1>1, StartAgrees, StopAgrees
  <1>2. ASSUME NEW c \in Channels, channelCloses(c) \/ peerDropsMonitors(c)
        PROVE  MonitorTypes' /\ Agree'
    BY <1>2, CloseAgrees DEF channelCloses, peerDropsMonitors
  <1>3. CASE crash
    BY <1>3 DEF crash, Cleared, MonitorTypes, Agree, Monitors
  <1>4. CASE UNCHANGED monitorVars
    BY <1>4 DEF monitorVars, MonitorTypes, Agree, Monitors
  <1>5. CASE polling
    BY <1>4, <1>5 DEF polling
  <1>6. ASSUME NEW h \in Handles, visitMonitorItem(h)
        PROVE  MonitorTypes' /\ Agree'
    BY <1>4, <1>6 DEF visitMonitorItem
  <1>7. ASSUME NEW p \in polls, NEW informed, readResponse1(p, informed)
        PROVE  MonitorTypes' /\ Agree'
    BY <1>4, <1>7 DEF readResponse1
  <1>8. ASSUME NEW r \in Requests, NEW v, request(r, v) \/ response(r)
        PROVE  MonitorTypes' /\ Agree'
    BY <1>4, <1>8 DEF request, response
  <1>9. CASE sessionEstablished \/ sessionDisconnected \/ handleNamespaceArray
    BY <1>4, <1>9 DEF sessionEstablished, sessionDisconnected, handleNamespaceArray
  <1>10. CASE UNCHANGED vars
    BY <1>4, <1>10 DEF vars
  <1> QED BY <1>1, <1>2, <1>3, <1>5, <1>6, <1>7, <1>8, <1>9, <1>10 DEF Next, StartStep, OtherStep

\* What each channel was last told about a handle agrees with the monitors of
\* the client, for any number of channels that share items, and that close or
\* drop their monitors and start new ones in the middle of polls.
THEOREM MonitorsAgreeAlways == Spec => []MonitorsAgree
  <1>1. Init => MonitorTypes /\ Agree
    BY InitAgrees
  <1>2. MonitorTypes /\ Agree /\ [Next]_vars => MonitorTypes' /\ Agree'
    BY NextAgrees
  <1>3. Agree => MonitorsAgree
    BY DEF Agree, MonitorsAgree
  <1> QED BY <1>1, <1>2, <1>3, PTL DEF Spec

LEMMA NextAnswers ==
  ASSUME NothingWaitsInVain, [Next]_vars
  PROVE  NothingWaitsInVain'
  <1>1. ASSUME NEW r \in Requests, NEW v, request(r, v)
        PROVE  NothingWaitsInVain'
    BY <1>1 DEF request, Refused, NothingWaitsInVain
  <1>2. ASSUME NEW r \in Requests, response(r)
        PROVE  NothingWaitsInVain'
    BY <1>2 DEF response, NothingWaitsInVain
  <1>3. CASE crash
    BY <1>3 DEF crash, Cleared, NothingWaitsInVain
  <1>4. CASE UNCHANGED requestVars
    BY <1>4 DEF requestVars, NothingWaitsInVain
  <1>5. ASSUME NEW c, NEW h, NEW v, monitorStartRequest(c, h, v) \/ monitorStopRequest(c, h, v)
        PROVE  NothingWaitsInVain'
    BY <1>4, <1>5 DEF monitorStartRequest, monitorStopRequest
  <1>6. ASSUME NEW c, channelCloses(c) \/ peerDropsMonitors(c)
        PROVE  NothingWaitsInVain'
    BY <1>4, <1>6 DEF channelCloses, peerDropsMonitors, closeChannelMessage
  <1>7. ASSUME NEW h, visitMonitorItem(h)
        PROVE  NothingWaitsInVain'
    BY <1>4, <1>7 DEF visitMonitorItem
  <1>8. ASSUME NEW p, NEW informed, readResponse1(p, informed)
        PROVE  NothingWaitsInVain'
    BY <1>4, <1>8 DEF readResponse1
  <1>9. CASE polling \/ sessionEstablished \/ sessionDisconnected \/ handleNamespaceArray
    BY <1>4, <1>9 DEF polling, sessionEstablished, sessionDisconnected, handleNamespaceArray
  <1>10. CASE UNCHANGED vars
    BY <1>4, <1>10 DEF vars
  <1> QED BY <1>1, <1>2, <1>3, <1>5, <1>6, <1>7, <1>8, <1>9, <1>10 DEF Next, StartStep, OtherStep

\* A read or write that has not been answered has its transaction under way:
\* no path of readRequest or writeRequest swallows a request.
THEOREM NoRequestWaitsInVain == Spec => []NothingWaitsInVain
  <1>1. Init => NothingWaitsInVain
    BY InitAgrees
  <1> QED BY <1>1, NextAnswers, PTL DEF Spec
=============================================================================
