-------------------------- MODULE HttpServerProofs --------------------------
(***************************************************************************)
(* What TLAPS proves of the HTTP server, for every set of channels and     *)
(* every connection limit: types, flags, that nothing comes back to a      *)
(* channel that was deleted, and that it implements Listener, although its *)
(* timeout handlers run beside the strand.                                 *)
(***************************************************************************)
EXTENDS HttpServer, FiniteSetTheorems, TLAPS

RequestReads == {"header", "content", "overrun"}

(***************************************************************************)
(* The inductive invariant of one channel.  It has one thing outstanding   *)
(* at a time: a read, the response, or the second part of a handler.  The  *)
(* flag of a read can be wrong only from the first access of a timeout     *)
(* handler on, and then the handler has the channel's timeout_ set before  *)
(* it cancels anything.                                                    *)
(***************************************************************************)
Flags(ch) ==
  /\ ch.asyncWrite <=> ch.wr # "none"
  /\ ch.asyncRead => ch.rd \in RequestReads
  /\ ch.rd \in RequestReads /\ ~ch.asyncRead => ch.callback = "flagged" \/ ch.timeout
  /\ ch.callback = "timedOut" => ch.timeout

OneThing(ch) ==
  /\ ch.wr # "none" => ch.rd = "none" /\ ch.todo = "none"
  /\ ch.todo # "none" => ch.rd = "none"

ChannelInv(ch) ==
  /\ ch \in Channel
  /\ ch.status = "none" => ch = NewChannel
  /\ ch.status = "freed" => /\ ch.rd = "none" /\ ch.wr = "none"
                            /\ ch.todo = "none" /\ ch.timer = "off"
  /\ ch.status = "open" => Flags(ch) /\ OneThing(ch)

(***************************************************************************)
(* The inductive invariant of the server.                                  *)
(***************************************************************************)

\* One handler at a time is between its parts.
StrandInv ==
  \A c, d \in Channels : chan[c].todo # "none" /\ chan[d].todo # "none" => c = d

\* Before startup nothing happens; after it, active_ tells of the accept, unless
\* the handler of one has thrown.
ListenerInv ==
  /\ IF started THEN active <=> accepting \/ deaf
     ELSE /\ active /\ ~accepting /\ ~deaf /\ ~shutdownFlag
          /\ completed = 0 /\ OpenChannels = {}
  /\ deaf => ~accepting

\* The listener is closed before the limit is passed.
LimitInv ==
  MaxConnections # 0 => /\ Cardinality(OpenChannels) <= MaxConnections
                        /\ active => Cardinality(OpenChannels) < MaxConnections

\* The callback was called, if at all, with nothing left that could call it again.
CompletedInv ==
  completed = 0 \/ (completed = 1 /\ shutdownFlag /\ ~active /\ OpenChannels = {})

ServerInv == ListenerInv /\ LimitInv /\ CompletedInv

Typed ==
  /\ chan \in [Channels -> Channel]
  /\ started \in BOOLEAN /\ active \in BOOLEAN
  /\ accepting \in BOOLEAN /\ deaf \in BOOLEAN
  /\ shutdownFlag \in BOOLEAN /\ completed \in Nat /\ crashed \in BOOLEAN

IInv ==
  /\ Typed
  /\ \A c \in Channels : ChannelInv(chan[c])
  /\ StrandInv
  /\ ServerInv

\* What a step of the server is for the listener.
ListenerStep == L!Next \/ UNCHANGED L!vars

FreedChannels == {c \in Channels : chan[c].status = "freed"}

-----------------------------------------------------------------------------
(* What the handlers do to one channel.                                    *)

\* A channel between two operations.
Idle(ch) ==
  /\ ChannelInv(ch) /\ ch.status = "open"
  /\ ch.rd = "none" /\ ch.wr = "none" /\ ch.todo = "none"
  /\ ~ch.asyncRead /\ ~ch.asyncWrite

LEMMA NewChannelInv ==
  /\ ChannelInv(NewChannel) /\ NewChannel.status = "none"
  /\ NewChannel.todo = "none"
BY DEF ChannelInv, Channel, NewChannel, Outstanding

LEMMA OpenedIsIdle ==
  Idle([NewChannel EXCEPT !.status = "open"])
BY DEF Idle, ChannelInv, Flags, OneThing, Channel, NewChannel, Outstanding, RequestReads

LEMMA ReadEndedIsIdle ==
  ASSUME NEW ch, ChannelInv(ch), ch.status = "open", ch.rd # "none"
  PROVE  Idle(ReadEnded(ch)) /\ Idle(StopTimer(ReadEnded(ch)))
BY DEF Idle, ChannelInv, Flags, OneThing, Channel, Outstanding, RequestReads,
       ReadEnded, StopTimer

LEMMA WriteEndedIsIdle ==
  ASSUME NEW ch, ChannelInv(ch), ch.status = "open", ch.wr # "none"
  PROVE  Idle(WriteEnded(ch))
BY DEF Idle, ChannelInv, Flags, OneThing, Channel, Outstanding, RequestReads, WriteEnded

LEMMA ResumedIsIdle ==
  ASSUME NEW ch, ChannelInv(ch), ch.status = "open", ch.todo # "none"
  PROVE  Idle([ch EXCEPT !.todo = "none"])
BY DEF Idle, ChannelInv, Flags, OneThing, Channel, Outstanding, RequestReads

\* cancel and close change nothing but the state of what is outstanding.
LEMMA CancelKeeps ==
  ASSUME NEW ch, ChannelInv(ch), ch.status # "none"
  PROVE  /\ ChannelInv(Cancel(ch)) /\ ChannelInv(CloseSocket(ch))
         /\ \A f \in {"status", "rd", "wr", "todo"} :
              Cancel(ch)[f] = ch[f] /\ CloseSocket(ch)[f] = ch[f]
<1>1. /\ AbortedState(ch.rd, ch.rdst) \in Outstanding
      /\ AbortedState(ch.wr, ch.wrst) \in Outstanding
  BY DEF ChannelInv, Channel, AbortedState, Outstanding
<1>2. QED
  BY <1>1 DEF ChannelInv, Flags, OneThing, Channel, Cancel, CloseSocket

\* A channel whose flags are clear is deleted, and nothing is outstanding.
LEMMA IdleIsFreed ==
  ASSUME NEW ch, Idle(ch)
  PROVE  LET next == CloseHttpChannel(ch)
         IN  ChannelInv(next) /\ next.status = "freed" /\ next.todo = "none"
<1> DEFINE closed == StopTimer(CloseSocket(ch))
<1>1. /\ closed \in Channel
      /\ closed.rd = "none" /\ closed.wr = "none"
  BY CancelKeeps DEF Idle, ChannelInv, Channel, StopTimer
<1> HIDE DEF closed
<1>2. CloseHttpChannel(ch) = Freed(closed)
  BY DEF Idle, CloseHttpChannel, closed
<1>3. /\ closed.callback \in {"none", "fired", "flagged", "timedOut"}
      /\ closed.rdst \in Outstanding /\ closed.wrst \in Outstanding
  BY <1>1 DEF Channel
<1> DEFINE next == Freed(closed)
<1>4. /\ next \in Channel /\ next.status = "freed" /\ next.todo = "none"
      /\ next.rd = "none" /\ next.wr = "none" /\ next.timer = "off"
  BY <1>1, <1>3 DEF Freed, NewChannel, Channel
<1> HIDE DEF next
<1>5. QED
  BY <1>2, <1>4 DEF ChannelInv, next

LEMMA StateOfNewType ==
  ASSUME NEW ch
  PROVE  StateOfNew(ch) \in Outstanding
BY DEF StateOfNew, Outstanding

LEMMA ReadRequestKeeps ==
  ASSUME NEW ch, Idle(ch), NEW op \in RequestReads
  PROVE  LET next == ReadRequest(ch, op)
         IN  ChannelInv(next) /\ next.status = "open" /\ next.todo = "none"
<1> DEFINE timed == [ch EXCEPT !.timer = "request", !.asyncRead = TRUE]
<1>1. StateOfNew(timed) \in Outstanding
  BY StateOfNewType
<1>2. QED
  BY <1>1 DEF Idle, ChannelInv, Flags, OneThing, Channel, RequestReads, ReadRequest, Reading

LEMMA SendResponseKeeps ==
  ASSUME NEW ch, Idle(ch)
  PROVE  LET next == SendResponse(ch)
         IN  ChannelInv(next) /\ next.status = "open" /\ next.todo = "none"
<1>1. StateOfNew(ch) \in Outstanding
  BY StateOfNewType
<1>2. QED
  BY <1>1 DEF Idle, ChannelInv, Flags, OneThing, Channel, RequestReads, SendResponse

LEMMA PerformHandshakeKeeps ==
  ASSUME NEW ch, Idle(ch)
  PROVE  LET next == PerformHandshake(ch)
         IN  ChannelInv(next) /\ next.status = "open" /\ next.todo = "none"
<1>1. CASE ~Ssl
  BY <1>1, ReadRequestKeeps DEF PerformHandshake, ReceiveRequest, RequestReads
<1>2. CASE Ssl
  <2> DEFINE timed == [ch EXCEPT !.timer = "handshake"]
  <2>1. StateOfNew(timed) \in Outstanding
    BY StateOfNewType
  <2>2. QED
    BY <1>2, <2>1 DEF Idle, ChannelInv, Flags, OneThing, Channel, RequestReads,
                      PerformHandshake, Reading
<1>3. QED
  BY <1>1, <1>2

LEMMA SplitKeeps ==
  ASSUME NEW ch, Idle(ch), NEW part \in {"content", "overrun", "response"}
  PROVE  LET next == [ch EXCEPT !.todo = part]
         IN  ChannelInv(next) /\ next.status = "open"
BY DEF Idle, ChannelInv, Flags, OneThing, Channel, RequestReads

-----------------------------------------------------------------------------
(* What a step does to the server.                                         *)

\* Listener counts as its implementation does.
LEMMA SameCardinality ==
  \A S : L!Cardinality(S) = Cardinality(S)
BY DEF L!Cardinality, Cardinality

LEMMA OpenFinite ==
  /\ IsFiniteSet(OpenChannels) /\ Cardinality(OpenChannels) \in Nat
  /\ \A c \in OpenChannels :
       Cardinality(OpenChannels \ {c}) = Cardinality(OpenChannels) - 1
<1>1. IsFiniteSet(OpenChannels)
  BY ConfigAssumption, FS_Subset DEF ConfigAssumption, OpenChannels
<1>2. QED
  BY <1>1, FS_CardinalityType, FS_RemoveElement

\* A step of the second part of a handler, or of a handler that begins when no
\* other is in the middle of its work.
MayContinue(c, ch) ==
  ch.todo # "none" => chan[c].todo # "none" \/ StrandIdle

LEMMA OneStrand ==
  ASSUME IInv, NEW c \in Channels, NEW ch, MayContinue(c, ch),
         chan' = [chan EXCEPT ![c] = ch]
  PROVE  StrandInv'
BY DEF IInv, Typed, StrandInv, MayContinue, StrandIdle

\* A step that leaves the status of every channel, and the server, alone.
LEMMA SameStatusStep ==
  ASSUME IInv, NEW c \in Channels, NEW ch, ChannelInv(ch),
         ch.status = chan[c].status, MayContinue(c, ch),
         chan' = [chan EXCEPT ![c] = ch], UNCHANGED server, crashed' \in BOOLEAN
  PROVE  IInv' /\ ListenerStep
<1>1. chan \in [Channels -> Channel] /\ ch \in Channel
  BY DEF IInv, Typed, ChannelInv
<1>2. \A d \in Channels : chan'[d].status = chan[d].status /\ ChannelInv(chan'[d])
  BY <1>1 DEF IInv
<1>3. OpenChannels' = OpenChannels /\ FreedChannels' = FreedChannels
  BY <1>2 DEF OpenChannels, FreedChannels
<1>4. Typed'
  BY <1>1 DEF IInv, Typed, server
<1>5. StrandInv'
  BY OneStrand
<1>6. ServerInv'
  BY <1>3 DEF IInv, ServerInv, ListenerInv, LimitInv, CompletedInv, server
<1>7. ListenerStep
  BY <1>3 DEF ListenerStep, L!vars, FreedChannels, server
<1>8. QED
  BY <1>2, <1>4, <1>5, <1>6, <1>7 DEF IInv

\* What delHttpChannel makes of the listener and of a shutdown.
LEMMA FreedServer ==
  ASSUME IInv, NEW c \in OpenChannels, DelHttpChannel(OpenChannels \ {c}),
         OpenChannels' = OpenChannels \ {c}
  PROVE  /\ ServerInv' /\ started' /\ shutdownFlag' = shutdownFlag /\ deaf' = deaf
         /\ active' \in BOOLEAN /\ accepting' \in BOOLEAN /\ completed' \in Nat
         /\ (accepting' \/ deaf') = ((accepting \/ deaf) \/ (~shutdownFlag /\ MaxConnections # 0))
         /\ IF shutdownFlag
            THEN completed' = IF OpenChannels' = {} /\ ~(accepting' \/ deaf') THEN 1 ELSE 0
            ELSE completed' = completed
<1> DEFINE open == OpenChannels \ {c}
<1>1. /\ Cardinality(open) = Cardinality(OpenChannels) - 1
      /\ Cardinality(OpenChannels) \in Nat
  BY OpenFinite
<1>2. completed = 0 /\ started /\ (active <=> accepting \/ deaf) /\ (deaf => ~accepting)
      /\ (MaxConnections # 0 => Cardinality(OpenChannels) <= MaxConnections)
      /\ active \in BOOLEAN /\ accepting \in BOOLEAN /\ shutdownFlag \in BOOLEAN
      /\ deaf \in BOOLEAN
  BY DEF IInv, Typed, ServerInv, CompletedInv, ListenerInv, LimitInv
<1>3. MaxConnections # 0 => Cardinality(open) < MaxConnections
  BY <1>1, <1>2, ConfigAssumption DEF ConfigAssumption
<1> HIDE DEF open
<1>4. DelHttpChannel(open) /\ OpenChannels' = open
  BY DEF open
<1>5. /\ shutdownFlag' = shutdownFlag /\ started' = started /\ deaf' = deaf
      /\ \/ /\ shutdownFlag /\ accepting' = accepting /\ active' = active
            /\ completed' = IF ~active /\ open = {} THEN completed + 1 ELSE completed
         \/ /\ ~shutdownFlag /\ MaxConnections # 0
            /\ accepting' = (accepting \/ ~active)
            /\ active' = TRUE /\ completed' = completed
         \/ /\ ~shutdownFlag /\ MaxConnections = 0
            /\ accepting' = accepting /\ active' = active /\ completed' = completed
  <2>1. CASE shutdownFlag
    BY <1>2, <1>4, <2>1, Zenon DEF DelHttpChannel, HandleShutdown
  <2>2. CASE ~shutdownFlag /\ MaxConnections # 0
    BY <1>2, <1>3, <1>4, <2>2, Zenon DEF DelHttpChannel
  <2>3. CASE ~shutdownFlag /\ MaxConnections = 0
    BY <1>2, <1>4, <2>3, Zenon DEF DelHttpChannel
  <2>4. QED
    BY <1>2, <2>1, <2>2, <2>3
<1>6. /\ (accepting' \/ deaf') = ((accepting \/ deaf) \/ (~shutdownFlag /\ MaxConnections # 0))
      /\ (active' <=> accepting' \/ deaf') /\ (deaf' => ~accepting')
      /\ active' \in BOOLEAN /\ accepting' \in BOOLEAN
  <2>1. CASE shutdownFlag
    BY <1>2, <1>5, <2>1
  <2>2. CASE ~shutdownFlag /\ MaxConnections # 0
    BY <1>2, <1>5, <2>2
  <2>3. CASE ~shutdownFlag /\ MaxConnections = 0
    BY <1>2, <1>5, <2>3
  <2>4. QED
    BY <1>2, <2>1, <2>2, <2>3
<1>7. IF shutdownFlag
      THEN completed' = IF open = {} /\ ~(accepting' \/ deaf') THEN 1 ELSE 0
      ELSE completed' = completed
  BY <1>2, <1>5
<1>8. completed' \in Nat
  BY <1>2, <1>7
<1>9. ListenerInv'
  BY <1>2, <1>5, <1>6 DEF ListenerInv
<1>10. LimitInv'
  <2>1. Cardinality(OpenChannels') = Cardinality(open)
    BY <1>4, Zenon
  <2>2. Cardinality(open) \in Int /\ MaxConnections \in Int
    BY <1>1, ConfigAssumption DEF ConfigAssumption
  <2>3. MaxConnections # 0 => Cardinality(OpenChannels') < MaxConnections
    BY <1>3, <2>1, Zenon
  <2>4. QED
    BY <2>1, <2>2, <2>3 DEF LimitInv
<1>11. CompletedInv'
  BY <1>2, <1>4, <1>5, <1>6, <1>7 DEF CompletedInv
<1>12. QED
  BY <1>2, <1>4, <1>5, <1>6, <1>7, <1>8, <1>9, <1>10, <1>11 DEF ServerInv

\* The last step of a channel.
LEMMA FreeingStep ==
  ASSUME IInv, NEW c \in Channels, chan[c].status = "open",
         NEW ch, ChannelInv(ch), ch.status = "freed", MayContinue(c, ch),
         Becomes(c, ch), crashed' \in BOOLEAN
  PROVE  IInv' /\ ListenerStep
<1>1. /\ chan' = [chan EXCEPT ![c] = ch] /\ DelHttpChannel(OpenChannels \ {c})
      /\ chan \in [Channels -> Channel] /\ ch \in Channel
  BY DEF Becomes, IInv, Typed, ChannelInv
<1>2. /\ c \in OpenChannels /\ OpenChannels' = OpenChannels \ {c}
      /\ FreedChannels' = FreedChannels \cup {c}
  BY <1>1 DEF OpenChannels, FreedChannels
<1>3. /\ ServerInv' /\ started' /\ shutdownFlag' = shutdownFlag /\ deaf' = deaf
      /\ active' \in BOOLEAN /\ accepting' \in BOOLEAN /\ completed' \in Nat
      /\ (accepting' \/ deaf') = ((accepting \/ deaf) \/ (~shutdownFlag /\ MaxConnections # 0))
      /\ IF shutdownFlag
         THEN completed' = IF OpenChannels' = {} /\ ~(accepting' \/ deaf') THEN 1 ELSE 0
         ELSE completed' = completed
  BY <1>1, <1>2, FreedServer
<1>4. Typed'
  BY <1>1, <1>3 DEF IInv, Typed, DelHttpChannel
<1>5. \A d \in Channels : ChannelInv(chan'[d])
  BY <1>1 DEF IInv
<1>6. StrandInv'
  BY <1>1, OneStrand
<1>7. L!Leave(c)
  BY <1>2, <1>3 DEF L!Leave, L!Finish, FreedChannels
<1>8. QED
  BY <1>3, <1>4, <1>5, <1>6, <1>7 DEF IInv, ListenerStep, L!Next

\* Any step of an open channel.
LEMMA BecomesStep ==
  ASSUME IInv, NEW c \in Channels, chan[c].status = "open",
         NEW ch, ChannelInv(ch), ch.status \in {"open", "freed"},
         MayContinue(c, ch), Becomes(c, ch), crashed' \in BOOLEAN
  PROVE  IInv' /\ ListenerStep
<1>1. CASE ch.status = "open"
  BY <1>1, SameStatusStep DEF Becomes
<1>2. CASE ch.status = "freed"
  BY <1>2, FreeingStep
<1>3. QED
  BY <1>1, <1>2

-----------------------------------------------------------------------------
(* The handlers of a channel.                                              *)

\* What ends a handler that found the channel idle: it is closed, which frees
\* it, or it goes on with one thing.
LEMMA IdleStep ==
  ASSUME IInv, NEW c \in Channels, chan[c].status = "open", StrandIdle,
         NEW ch, Idle(ch), crashed' \in BOOLEAN,
         \/ Becomes(c, CloseHttpChannel(ch))
         \/ Becomes(c, ReceiveRequest(ch))
         \/ \E part \in {"content", "overrun", "response"} :
              Becomes(c, [ch EXCEPT !.todo = part])
  PROVE  IInv' /\ ListenerStep
<1>1. CASE Becomes(c, CloseHttpChannel(ch))
  <2> DEFINE next == CloseHttpChannel(ch)
  <2>1. ChannelInv(next) /\ next.status = "freed" /\ MayContinue(c, next)
    BY IdleIsFreed DEF MayContinue
  <2> HIDE DEF next
  <2>2. QED
    BY <1>1, <2>1, BecomesStep DEF next
<1>2. CASE Becomes(c, ReceiveRequest(ch))
  <2> DEFINE next == ReceiveRequest(ch)
  <2>1. ChannelInv(next) /\ next.status = "open" /\ MayContinue(c, next)
    BY ReadRequestKeeps DEF MayContinue, ReceiveRequest, RequestReads
  <2> HIDE DEF next
  <2>2. QED
    BY <1>2, <2>1, BecomesStep DEF next
<1>3. CASE \E part \in {"content", "overrun", "response"} :
             Becomes(c, [ch EXCEPT !.todo = part])
  <2>1. PICK part \in {"content", "overrun", "response"} :
               Becomes(c, [ch EXCEPT !.todo = part])
    BY <1>3
  <2> DEFINE next == [ch EXCEPT !.todo = part]
  <2>2. ChannelInv(next) /\ next.status = "open" /\ MayContinue(c, next)
    BY SplitKeeps DEF MayContinue
  <2> HIDE DEF next
  <2>3. QED
    BY <2>1, <2>2, BecomesStep DEF next
<1>4. QED
  BY <1>1, <1>2, <1>3

LEMMA ReadStep ==
  ASSUME IInv, NEW c \in Channels, ReadCompletes(c)
  PROVE  IInv' /\ ListenerStep
<1> DEFINE ended == ReadEnded(chan[c])
           after == AfterRead(c)
<1>1. /\ StrandIdle /\ chan[c].status = "open" /\ chan[c].rd # "none"
      /\ crashed' \in BOOLEAN
  BY DEF ReadCompletes, PerformHandshakeComplete, HandleReceiveRequestHeader,
         HandleReceiveRequestContent, ReadPending, Defined
<1>2. Idle(ended) /\ Idle(after)
  BY <1>1, ReadEndedIsIdle DEF IInv, AfterRead
<1>3. \/ Becomes(c, CloseHttpChannel(ended))
      \/ Becomes(c, CloseHttpChannel(after))
      \/ Becomes(c, ReceiveRequest(after))
      \/ \E part \in {"content", "overrun", "response"} :
           Becomes(c, [after EXCEPT !.todo = part])
  BY DEF ReadCompletes, PerformHandshakeComplete, HandleReceiveRequestHeader,
         HandleReceiveRequestContent, ReadRefused, Requests
<1> HIDE DEF ended, after
<1>4. QED
  BY <1>1, <1>2, <1>3, IdleStep

LEMMA ContinueStep ==
  ASSUME IInv, NEW c \in Channels, ContinueRequest(c)
  PROVE  IInv' /\ ListenerStep
<1> DEFINE ch == [chan[c] EXCEPT !.todo = "none"]
<1>1. /\ chan[c].todo # "none" /\ ChannelInv(chan[c]) /\ crashed' \in BOOLEAN
      /\ chan[c].todo \in {"content", "overrun", "response"}
  BY DEF ContinueRequest, Defined, IInv, ChannelInv, Channel
<1>2. chan[c].status = "open"
  BY <1>1, NewChannelInv DEF ChannelInv, Channel
<1>3. Idle(ch)
  BY <1>1, <1>2, ResumedIsIdle
<1>4. \/ Becomes(c, SendResponse(ch))
      \/ /\ chan[c].todo \in RequestReads
         /\ Becomes(c, ReadRequest(ch, chan[c].todo))
  BY <1>1 DEF ContinueRequest, RequestReads
<1> HIDE DEF ch
<1>5. CASE Becomes(c, SendResponse(ch))
  <2> DEFINE next == SendResponse(ch)
  <2>1. ChannelInv(next) /\ next.status = "open" /\ MayContinue(c, next)
    BY <1>3, SendResponseKeeps DEF MayContinue
  <2> HIDE DEF next
  <2>2. QED
    BY <1>1, <1>2, <1>5, <2>1, BecomesStep DEF next
<1>6. CASE /\ chan[c].todo \in RequestReads
           /\ Becomes(c, ReadRequest(ch, chan[c].todo))
  <2> DEFINE next == ReadRequest(ch, chan[c].todo)
  <2>1. ChannelInv(next) /\ next.status = "open" /\ MayContinue(c, next)
    BY <1>3, <1>6, ReadRequestKeeps DEF MayContinue
  <2> HIDE DEF next
  <2>2. QED
    BY <1>1, <1>2, <1>6, <2>1, BecomesStep DEF next
<1>7. QED
  BY <1>4, <1>5, <1>6

LEMMA WriteStep ==
  ASSUME IInv, NEW c \in Channels, HandleWriteComplete(c)
  PROVE  IInv' /\ ListenerStep
<1> DEFINE ended == WriteEnded(chan[c])
<1>1. /\ StrandIdle /\ chan[c].status = "open" /\ chan[c].wr # "none"
      /\ crashed' \in BOOLEAN /\ Becomes(c, CloseHttpChannel(ended))
  BY DEF HandleWriteComplete, Defined, Undefined
<1>2. Idle(ended)
  BY <1>1, WriteEndedIsIdle DEF IInv
<1> HIDE DEF ended
<1>3. QED
  BY <1>1, <1>2, IdleStep

-----------------------------------------------------------------------------
(* The timeouts.                                                           *)

LEMMA HandshakeTimeoutStep ==
  ASSUME IInv, NEW c \in Channels, HandshakeTimeout(c)
  PROVE  IInv' /\ ListenerStep
<1> DEFINE out == TimedOut(StopTimer(chan[c]))
           next == Cancel(out)
<1>1. /\ chan[c].timer = "handshake" /\ ChannelInv(chan[c])
      /\ chan' = [chan EXCEPT ![c] = next]
      /\ UNCHANGED server /\ crashed' \in BOOLEAN
  BY DEF IInv, Typed, HandshakeTimeout, Defined
<1>2. chan[c].status = "open"
  BY <1>1 DEF ChannelInv, Channel, NewChannel
<1>3. ChannelInv(out) /\ out.status = "open" /\ out.todo = chan[c].todo
  BY <1>1, <1>2 DEF ChannelInv, Flags, OneThing, Channel, RequestReads, TimedOut, StopTimer
<1> HIDE DEF out
<1>4. ChannelInv(next) /\ next.status = "open" /\ MayContinue(c, next)
  BY <1>3, CancelKeeps DEF MayContinue
<1> HIDE DEF next
<1>5. QED
  BY <1>1, <1>2, <1>4, SameStatusStep

LEMMA RequestTimerStep ==
  ASSUME IInv, NEW c \in Channels, RequestTimerFires(c)
  PROVE  IInv' /\ ListenerStep
<1> DEFINE next == [StopTimer(chan[c]) EXCEPT !.callback = "fired"]
<1>1. /\ chan[c].timer = "request" /\ chan[c].callback = "none" /\ ChannelInv(chan[c])
      /\ chan' = [chan EXCEPT ![c] = next]
      /\ UNCHANGED server /\ crashed' \in BOOLEAN
  BY DEF IInv, Typed, RequestTimerFires, Defined
<1>2. chan[c].status = "open"
  BY <1>1 DEF ChannelInv, Channel, NewChannel
<1>3. ChannelInv(next) /\ next.status = "open" /\ next.todo = chan[c].todo
  BY <1>1, <1>2 DEF ChannelInv, Flags, OneThing, Channel, RequestReads, StopTimer
<1> HIDE DEF next
<1>4. QED
  BY <1>1, <1>2, <1>3, SameStatusStep DEF MayContinue

\* An access of the timeout handler: what it finds open it leaves open, and of
\* what was deleted the model has nothing left to change.
LEMMA AccessStep ==
  ASSUME IInv, NEW c \in Channels, NEW from, from # "none",
         NEW to \in {"none", "flagged", "timedOut"}, NEW ch,
         TimeoutAccess(c, from, to, ch),
         chan[c].status = "open" =>
           /\ ChannelInv([ch EXCEPT !.callback = to])
           /\ [ch EXCEPT !.callback = to].status = "open"
           /\ [ch EXCEPT !.callback = to].todo = chan[c].todo
  PROVE  IInv' /\ ListenerStep
<1>1. /\ chan[c].callback = from /\ ChannelInv(chan[c])
      /\ UNCHANGED server /\ crashed' \in BOOLEAN
      /\ chan' = [chan EXCEPT ![c] =
                    [IF chan[c].status = "open" THEN ch ELSE chan[c]
                       EXCEPT !.callback = to]]
  BY DEF IInv, Typed, TimeoutAccess, Defined, Undefined
<1>2. CASE chan[c].status = "open"
  <2> DEFINE next == [ch EXCEPT !.callback = to]
  <2>1. /\ ChannelInv(next) /\ next.status = "open" /\ MayContinue(c, next)
        /\ chan' = [chan EXCEPT ![c] = next]
    BY <1>1, <1>2 DEF MayContinue
  <2> HIDE DEF next
  <2>2. QED
    BY <1>1, <1>2, <2>1, SameStatusStep
<1>3. CASE chan[c].status # "open"
  <2> DEFINE next == [chan[c] EXCEPT !.callback = to]
  <2>1. chan[c].status = "freed"
    BY <1>1, <1>3 DEF ChannelInv, Channel, NewChannel
  <2>2. ChannelInv(next) /\ next.status = "freed" /\ next.todo = "none"
    BY <1>1, <2>1 DEF ChannelInv, Channel
  <2>3. chan' = [chan EXCEPT ![c] = next] /\ MayContinue(c, next)
    BY <1>1, <1>3, <2>2 DEF MayContinue
  <2> HIDE DEF next
  <2>4. QED
    BY <1>1, <2>1, <2>2, <2>3, SameStatusStep
<1>4. QED
  BY <1>2, <1>3

LEMMA RequestTimeoutStep ==
  ASSUME IInv, NEW c \in Channels, HandleReceiveRequestTimeout(c)
  PROVE  IInv' /\ ListenerStep
<1>1. ChannelInv(chan[c])
  BY DEF IInv
<1>2. CASE TimeoutAccess(c, "fired", "flagged", [chan[c] EXCEPT !.asyncRead = FALSE])
  <2> DEFINE ch == [chan[c] EXCEPT !.asyncRead = FALSE]
             next == [ch EXCEPT !.callback = "flagged"]
  <2>1. chan[c].status = "open" =>
          ChannelInv(next) /\ next.status = "open" /\ next.todo = chan[c].todo
    BY <1>1 DEF ChannelInv, Flags, OneThing, Channel, RequestReads
  <2> HIDE DEF ch
  <2>2. QED
    BY <1>2, <2>1, AccessStep DEF ch
<1>3. CASE TimeoutAccess(c, "flagged", "timedOut", TimedOut(chan[c]))
  <2> DEFINE ch == TimedOut(chan[c])
             next == [ch EXCEPT !.callback = "timedOut"]
  <2>1. chan[c].status = "open" =>
          ChannelInv(next) /\ next.status = "open" /\ next.todo = chan[c].todo
    BY <1>1 DEF ChannelInv, Flags, OneThing, Channel, RequestReads, TimedOut
  <2> HIDE DEF ch
  <2>2. QED
    BY <1>3, <2>1, AccessStep DEF ch
<1>4. CASE TimeoutHttpChannel(c)
  <2> DEFINE ch == Cancel(chan[c])
             next == [ch EXCEPT !.callback = "none"]
  <2>1. chan[c].callback = "timedOut"
    BY <1>4 DEF TimeoutHttpChannel, TimeoutAccess
  <2>2. chan[c].status = "open" =>
          /\ ChannelInv(ch) /\ ch.status = "open" /\ ch.todo = chan[c].todo
          /\ ch.timeout
    BY <1>1, <2>1, CancelKeeps DEF ChannelInv, Flags, Channel, Cancel
  <2> HIDE DEF ch
  <2>3. chan[c].status = "open" =>
          ChannelInv(next) /\ next.status = "open" /\ next.todo = chan[c].todo
    BY <2>2 DEF ChannelInv, Flags, OneThing, Channel, RequestReads
  <2>4. QED
    BY <1>4, <2>3, AccessStep DEF ch, TimeoutHttpChannel
<1>5. QED
  BY <1>2, <1>3, <1>4 DEF HandleReceiveRequestTimeout

-----------------------------------------------------------------------------
(* The listener and the shutdown.                                          *)

LEMMA StartupStep ==
  ASSUME IInv, Startup
  PROVE  IInv' /\ ListenerStep
<1>1. /\ ~started /\ started' = TRUE /\ accepting' = TRUE
      /\ chan' = chan /\ active' = active /\ shutdownFlag' = shutdownFlag
      /\ deaf' = deaf /\ completed' = completed /\ crashed' = FALSE
  BY DEF Startup, Defined
<1>2. /\ Typed /\ active /\ ~accepting /\ ~deaf /\ ~shutdownFlag /\ completed = 0
      /\ OpenChannels = {} /\ OpenChannels' = OpenChannels
  BY <1>1 DEF IInv, ServerInv, ListenerInv, OpenChannels
<1>3. Typed' /\ (\A c \in Channels : ChannelInv(chan[c])') /\ StrandInv'
  BY <1>1, <1>2 DEF IInv, Typed, StrandInv
<1>4. ServerInv'
  BY <1>1, <1>2 DEF IInv, ServerInv, ListenerInv, LimitInv, CompletedInv
<1>5. L!Listen
  <2>1. Cardinality(OpenChannels) = 0
    BY <1>2, FS_EmptySet
  <2>2. ~L!Full(OpenChannels)
    BY <2>1, ConfigAssumption, SameCardinality DEF L!Full, ConfigAssumption
  <2>3. QED
    BY <1>1, <1>2, <2>2 DEF L!Listen, OpenChannels
<1>6. QED
  BY <1>3, <1>4, <1>5 DEF IInv, ListenerStep, L!Next

LEMMA AcceptErrorStep ==
  ASSUME IInv, HandleAcceptError
  PROVE  IInv' /\ ListenerStep
<1>1. /\ accepting /\ active' = FALSE /\ accepting' = FALSE /\ chan' = chan
      /\ started' = started /\ shutdownFlag' = shutdownFlag /\ crashed' = FALSE
      /\ deaf' = deaf
      /\ completed' = IF shutdownFlag /\ OpenChannels = {} THEN completed + 1
                                                            ELSE completed
  BY DEF HandleAcceptError, HandleShutdown, Defined
<1>2. /\ Typed /\ started /\ active /\ ~deaf /\ completed = 0
      /\ OpenChannels' = OpenChannels /\ FreedChannels' = FreedChannels
  BY <1>1 DEF IInv, ServerInv, ListenerInv, CompletedInv, OpenChannels, FreedChannels
<1>3. Typed' /\ (\A c \in Channels : ChannelInv(chan[c])') /\ StrandInv'
  <2>1. completed' \in Nat
    BY <1>1, <1>2
  <2>2. /\ started' \in BOOLEAN /\ active' \in BOOLEAN /\ accepting' \in BOOLEAN
        /\ deaf' \in BOOLEAN /\ shutdownFlag' \in BOOLEAN /\ crashed' \in BOOLEAN
    BY <1>1, <1>2, Zenon DEF Typed
  <2>3. QED
    BY <1>1, <1>2, <2>1, <2>2 DEF IInv, Typed, StrandInv
<1>4. ServerInv'
  BY <1>1, <1>2 DEF IInv, ServerInv, ListenerInv, LimitInv, CompletedInv
<1>5. L!StopListening
  BY <1>1, <1>2 DEF L!StopListening, L!Finish, FreedChannels
<1>6. QED
  BY <1>3, <1>4, <1>5 DEF IInv, ListenerStep, L!Next

\* An accept whose handler throws goes unnoticed.
LEMMA AcceptThrowsStep ==
  ASSUME IInv, HandleAcceptThrows
  PROVE  IInv' /\ ListenerStep
<1>1. /\ accepting /\ accepting' = FALSE /\ deaf' = TRUE /\ chan' = chan
      /\ active' = active /\ started' = started /\ shutdownFlag' = shutdownFlag
      /\ completed' = completed /\ crashed' \in BOOLEAN
  BY DEF HandleAcceptThrows, Undefined
<1>2. /\ Typed /\ started /\ active
      /\ OpenChannels' = OpenChannels /\ FreedChannels' = FreedChannels
  BY <1>1 DEF IInv, ServerInv, ListenerInv, OpenChannels, FreedChannels
<1>3. Typed' /\ (\A c \in Channels : ChannelInv(chan[c])') /\ StrandInv'
  BY <1>1, <1>2 DEF IInv, Typed, StrandInv
<1>4. ServerInv'
  BY <1>1, <1>2 DEF IInv, ServerInv, ListenerInv, LimitInv, CompletedInv
<1>5. (accepting \/ deaf)' = (accepting \/ deaf)
  BY <1>1
<1>6. UNCHANGED L!vars
  BY <1>1, <1>2, <1>5 DEF L!vars, FreedChannels
<1>7. QED
  BY <1>3, <1>4, <1>6 DEF IInv, ListenerStep

LEMMA AcceptStep ==
  ASSUME IInv, NEW c \in Channels, HandleAccept(c)
  PROVE  IInv' /\ ListenerStep
<1> DEFINE opened == PerformHandshake([NewChannel EXCEPT !.status = "open"])
           count == Cardinality(OpenChannels)
<1>1. /\ accepting /\ ~shutdownFlag /\ chan[c].status = "none" /\ StrandIdle
      /\ chan' = [chan EXCEPT ![c] = opened]
      /\ active' = (active /\ ~AddReachesLimit(count + 1)) /\ accepting' = active'
      /\ started' = started /\ shutdownFlag' = shutdownFlag /\ deaf' = deaf
      /\ completed' = completed /\ crashed' = FALSE
  BY DEF HandleAccept, Defined
<1>2. /\ ChannelInv(opened) /\ opened.status = "open" /\ opened.todo = "none"
      /\ opened \in Channel
  BY OpenedIsIdle, PerformHandshakeKeeps DEF ChannelInv
<1> HIDE DEF opened
<1>3. Typed /\ started /\ active /\ ~deaf /\ completed = 0
  BY <1>1 DEF IInv, ServerInv, ListenerInv, CompletedInv
<1>4. /\ c \notin OpenChannels \cup FreedChannels
      /\ OpenChannels' = OpenChannels \cup {c} /\ FreedChannels' = FreedChannels
  BY <1>1, <1>2, <1>3 DEF Typed, OpenChannels, FreedChannels
<1>5. count \in Nat /\ Cardinality(OpenChannels') = count + 1
  BY <1>4, OpenFinite, FS_AddElement
<1>6. Typed'
  BY <1>1, <1>2, <1>3 DEF Typed
<1>7. \A d \in Channels : ChannelInv(chan[d])'
  BY <1>1, <1>2, <1>3 DEF IInv, Typed
<1>8. StrandInv'
  BY <1>1, <1>2, OneStrand DEF MayContinue
<1>9. active' <=> ~(MaxConnections # 0 /\ count + 1 >= MaxConnections)
  BY <1>1, <1>3 DEF AddReachesLimit
<1>10. MaxConnections # 0 => count < MaxConnections
  BY <1>3 DEF IInv, ServerInv, LimitInv
<1>11. (accepting' \/ deaf') = ~L!Full(OpenChannels')
  BY <1>1, <1>3, <1>5, SameCardinality DEF AddReachesLimit, L!Full
<1> HIDE DEF count
<1>12. ListenerInv' /\ CompletedInv'
  BY <1>1, <1>3 DEF ListenerInv, CompletedInv
<1>13. LimitInv'
  BY <1>5, <1>9, <1>10, ConfigAssumption DEF LimitInv, ConfigAssumption
<1>14. L!Connect(c)
  BY <1>1, <1>4, <1>11 DEF L!Connect, FreedChannels
<1>15. QED
  BY <1>6, <1>7, <1>8, <1>12, <1>13, <1>14 DEF IInv, ServerInv, ListenerStep, L!Next

LEMMA ShutdownStep ==
  ASSUME IInv, Shutdown
  PROVE  IInv' /\ ListenerStep
<1>1. /\ started /\ ~shutdownFlag /\ shutdownFlag' = TRUE
      /\ chan' = [c \in Channels |->
                    IF c \in OpenChannels THEN CloseSocket(chan[c]) ELSE chan[c]]
      /\ completed' = IF ~active /\ OpenChannels = {} THEN completed + 1
                                                       ELSE completed
      /\ started' = started /\ active' = active /\ accepting' = accepting
      /\ deaf' = deaf /\ crashed' = FALSE
  BY DEF Shutdown, HandleShutdown, Defined
<1>2. Typed /\ completed = 0 /\ (active <=> accepting \/ deaf)
  BY <1>1 DEF IInv, ServerInv, ListenerInv, CompletedInv
<1>3. \A c \in Channels :
        /\ ChannelInv(chan'[c]) /\ chan'[c] \in Channel
        /\ chan'[c].status = chan[c].status /\ chan'[c].todo = chan[c].todo
  <2>1. TAKE c \in Channels
  <2>2. ChannelInv(chan[c])
    BY DEF IInv
  <2>3. CASE c \in OpenChannels
    <3>1. chan'[c] = CloseSocket(chan[c]) /\ chan[c].status = "open"
      BY <1>1, <2>3 DEF OpenChannels
    <3>2. QED
      BY <2>2, <3>1, CancelKeeps DEF ChannelInv
  <2>4. CASE c \notin OpenChannels
    BY <1>1, <2>2, <2>4 DEF ChannelInv
  <2>5. QED
    BY <2>3, <2>4
<1>4. OpenChannels' = OpenChannels /\ FreedChannels' = FreedChannels
  BY <1>3 DEF OpenChannels, FreedChannels
<1>5. Typed'
  <2>1. chan' \in [Channels -> Channel]
    BY <1>1, <1>3
  <2>2. completed' \in Nat
    BY <1>1, <1>2
  <2>3. /\ started' \in BOOLEAN /\ active' \in BOOLEAN /\ accepting' \in BOOLEAN
        /\ deaf' \in BOOLEAN /\ shutdownFlag' \in BOOLEAN /\ crashed' \in BOOLEAN
    BY <1>1, <1>2, Zenon DEF Typed
  <2>4. QED
    BY <2>1, <2>2, <2>3 DEF Typed
<1>6. StrandInv'
  BY <1>3 DEF IInv, StrandInv
<1>7. ServerInv'
  BY <1>1, <1>2, <1>4 DEF IInv, ServerInv, ListenerInv, LimitInv, CompletedInv
<1>8. L!Drain
  BY <1>1, <1>2, <1>4 DEF L!Drain, L!Finish, FreedChannels
<1>9. QED
  BY <1>3, <1>5, <1>6, <1>7, <1>8 DEF IInv, ListenerStep, L!Next

-----------------------------------------------------------------------------
(* The invariant is inductive, and what follows from it.                   *)

LEMMA InitInv ==
  Init => IInv
<1> SUFFICES ASSUME Init PROVE IInv
  OBVIOUS
<1>1. /\ ChannelInv(NewChannel) /\ NewChannel \in Channel
      /\ NewChannel.status = "none" /\ NewChannel.todo = "none"
  BY NewChannelInv DEF ChannelInv
<1>2. /\ Typed /\ (\A c \in Channels : ChannelInv(chan[c])) /\ StrandInv
      /\ OpenChannels = {}
  BY <1>1 DEF Init, Typed, StrandInv, OpenChannels
<1>3. Cardinality(OpenChannels) = 0
  BY <1>2, FS_EmptySet
<1>4. ServerInv
  BY <1>2, <1>3, ConfigAssumption
     DEF Init, ServerInv, ListenerInv, LimitInv, CompletedInv, ConfigAssumption
<1>5. QED
  BY <1>2, <1>4 DEF IInv

LEMMA NextStep ==
  ASSUME IInv, Next
  PROVE  IInv' /\ ListenerStep
<1>1. CASE Startup \/ HandleAcceptError \/ HandleAcceptThrows \/ Shutdown
  BY <1>1, StartupStep, AcceptErrorStep, AcceptThrowsStep, ShutdownStep
<1>2. CASE \E c \in Channels : ChannelStep(c)
  <2>1. PICK c \in Channels : ChannelStep(c)
    BY <1>2
  <2>2. CASE HandleAccept(c)
    BY <2>2, AcceptStep
  <2>3. CASE ReadCompletes(c) \/ ContinueRequest(c) \/ HandleWriteComplete(c)
    BY <2>3, ReadStep, ContinueStep, WriteStep
  <2>4. CASE \/ HandshakeTimeout(c) \/ RequestTimerFires(c)
             \/ HandleReceiveRequestTimeout(c)
    BY <2>4, HandshakeTimeoutStep, RequestTimerStep, RequestTimeoutStep
  <2>5. QED
    BY <2>1, <2>2, <2>3, <2>4 DEF ChannelStep
<1>3. QED
  BY <1>1, <1>2 DEF Next

LEMMA StutterInv ==
  ASSUME IInv, UNCHANGED vars
  PROVE  IInv' /\ UNCHANGED L!vars
<1>1. Typed' /\ (\A c \in Channels : ChannelInv(chan[c])') /\ StrandInv'
  BY DEF IInv, Typed, StrandInv, vars
<1>2. OpenChannels' = OpenChannels
  BY DEF OpenChannels, vars
<1>3. ServerInv'
  BY <1>2 DEF IInv, ServerInv, ListenerInv, LimitInv, CompletedInv, vars
<1>4. UNCHANGED L!vars
  BY <1>2 DEF L!vars, vars
<1>5. QED
  BY <1>1, <1>3, <1>4 DEF IInv

\* What ties the flags, timers and outstanding operations of every channel to the
\* listener, the limit and the shutdown holds in every reachable state.
THEOREM Invariance ==
  Spec => []IInv
<1>1. Init => IInv
  BY InitInv
<1>2. IInv /\ [Next]_vars => IInv'
  BY NextStep, StutterInv
<1>3. QED
  BY <1>1, <1>2, PTL DEF Spec

\* The variables keep their types; a channel that waits to be accepted is
\* untouched, and the strand runs one handler at a time.
THEOREM TypeCorrect ==
  Spec => []TypeOK
<1>1. IInv => TypeOK
  <2> SUFFICES ASSUME IInv PROVE TypeOK
    OBVIOUS
  <2> DEFINE running == {c \in Channels : chan[c].todo # "none"}
  <2>1. Cardinality(running) <= 1
    <3>1. CASE running = {}
      BY <3>1, FS_EmptySet
    <3>2. CASE running # {}
      <4>1. \E c \in Channels : running = {c}
        <5>1. PICK c \in Channels : chan[c].todo # "none"
          BY <3>2
        <5>2. \A d \in running : d = c
          BY <5>1 DEF IInv, StrandInv
        <5>3. QED
          BY <5>1, <5>2
      <4>2. Cardinality(running) = 1
        BY <4>1, FS_Singleton
      <4>3. QED
        BY <4>2
    <3>3. QED
      BY <3>1, <3>2
  <2>2. \A c \in Channels : chan[c].status = "none" => chan[c] = NewChannel
    BY DEF IInv, ChannelInv
  <2>3. QED
    BY <2>1, <2>2 DEF IInv, Typed, TypeOK
<1>2. QED
  BY <1>1, Invariance, PTL

\* Only a timeout handler makes asyncRead_ differ from what is outstanding, and
\* only until it has cancelled it.
THEOREM FlagsCorrect ==
  Spec => []FlagsTellOutstanding
<1>1. IInv => FlagsTellOutstanding
  BY DEF IInv, ChannelInv, Flags, Channel, RequestReads, FlagsTellOutstanding,
         OpenChannels
<1>2. QED
  BY <1>1, Invariance, PTL

\* No read and no write ever completes on a deleted channel, although a timeout
\* handler clears the flag from which closeHttpChannel tells a read.
THEOREM NoUseAfterDelete ==
  Spec => []FreedIsQuiet
<1>1. IInv => FreedIsQuiet
  BY DEF IInv, ChannelInv, Channel, NewChannel, FreedIsQuiet, OpenChannels
<1>2. QED
  BY <1>1, Invariance, PTL

\* The HTTP server implements Listener, as the WebSocket server does: what its
\* channels and their timeouts do does not show in how many it serves, when it
\* listens and when its shutdown is complete.
THEOREM ImplementsListener ==
  Spec => ServesAsListener
<1>1. Init => L!Init
  BY NewChannelInv DEF Init, L!Init, OpenChannels
<1>2. IInv /\ [Next]_vars => [L!Next]_L!vars
  BY NextStep, StutterInv DEF ListenerStep
<1>3. QED
  BY <1>1, <1>2, Invariance, PTL DEF Spec, ServesAsListener, L!Spec
=============================================================================
