--------------------------- MODULE WebSocketServer ---------------------------
(***************************************************************************)
(* The WebSocket server of the JSON API and of the web gateway: the        *)
(* listener with its connection limit and its shutdown (WebSocketServer),  *)
(* and the life of a channel, from the TCP accept through the HTTP upgrade *)
(* to the frame loop and the send queue (WebSocketServerBase).             *)
(*                                                                         *)
(* Every handler of the two classes runs on one strand, so one handler is  *)
(* one step.  The interleavings are those of the completions: reads,       *)
(* writes, timers, accepts and the calls posted by other threads.          *)
(*                                                                         *)
(* An operation that is outstanding on a socket is "live", "cancelled"     *)
(* (cancel() or close() hit it; its completion may already be queued, so   *)
(* both outcomes remain possible) or "dead" (it was started on a closed    *)
(* socket and can only fail).  A live operation may fail at any time: the  *)
(* peer closes or resets the connection.                                   *)
(***************************************************************************)
EXTENDS Integers, Sequences, FiniteSets

CONSTANTS
  Channels,        \* the channels that can ever be created, one per connection
  MaxConnections,  \* webSocketConfig_->maxConnections(), 0: no limit
  MaxSends,        \* bound: messages given to one channel for sending
  Requests,        \* the upgrade requests that peers send, see RequestKinds
  Ssl,             \* webSocketConfig_->ssl(): wss instead of ws
  AcceptErrors     \* whether accept may fail, or the connection it brings be
                   \* gone already, while the listener is open

\* What a peer's HTTP request can be, as far as the server tells requests apart:
\* "upgrade"    it has a Sec-WebSocket-Key and no content
\* "rejected"   it is too long, its content is too long, or it has no key
\* "content"    it has a Content-Length that is acceptable
\* "badLength"  its Content-Length is not a number
\* "badRequest" its header cannot be decoded
RequestKinds == {"upgrade", "rejected", "content", "badLength", "badRequest"}

ASSUME ConfigAssumption ==
  /\ IsFiniteSet(Channels)
  /\ MaxConnections \in Nat
  /\ MaxSends \in Nat
  /\ Requests \subseteq RequestKinds
  /\ Ssl \in BOOLEAN
  /\ AcceptErrors \in BOOLEAN

VARIABLES
  chan,          \* the channels, by identity
  started,       \* startup has opened the listener
  active,        \* active_
  accepting,     \* an async_accept is outstanding
  deaf,          \* history: handleAccept has thrown, so that no accept is
                 \* outstanding though active_ says so
  shutdownFlag,  \* shutdownFlag_
  completed,     \* how often shutdownCompleteCallback_ has been called
  crashed        \* undefined behaviour has ended the process

server == <<started, active, accepting, deaf, shutdownFlag, completed>>
vars == <<chan, started, active, accepting, deaf, shutdownFlag, completed, crashed>>

HandshakeReads == {"sslHandshake", "hsHeader", "hsContent"}
FrameReads == {"header", "length", "content"}
Outstanding == {"live", "cancelled", "dead"}

(***************************************************************************)
(* A channel.  msg, sent, written, known and posted are history: the       *)
(* number of the message in flight (0: none), how many messages were accepted for    *)
(* sending (they are numbered from 1), the last one written to the peer,   *)
(* whether the application has heard of the channel, and the send calls    *)
(* that are posted to the strand and have not run.                         *)
(***************************************************************************)
Channel ==
  [status : {"none", "open", "freed"},
   rd : HandshakeReads \cup FrameReads \cup {"none"}, rdst : Outstanding,
   wr : {"response", "message", "none"}, wrst : Outstanding,
   asyncRead : BOOLEAN, asyncWrite : BOOLEAN,
   shutdown : BOOLEAN, timeout : BOOLEAN, timer : BOOLEAN, socket : BOOLEAN,
   queue : Seq(Nat), msg : Nat, sent : Nat, written : Nat,
   known : BOOLEAN, posted : Nat]

NewChannel ==
  [status |-> "none", rd |-> "none", rdst |-> "live",
   wr |-> "none", wrst |-> "live", asyncRead |-> FALSE, asyncWrite |-> FALSE,
   shutdown |-> FALSE, timeout |-> FALSE, timer |-> FALSE, socket |-> TRUE,
   queue |-> <<>>, msg |-> 0, sent |-> 0, written |-> 0,
   known |-> FALSE, posted |-> 0]

\* webSocketChannelMap_
OpenChannels == {c \in Channels : chan[c].status = "open"}

Typed ==
  /\ chan \in [Channels -> Channel]
  /\ started \in BOOLEAN /\ active \in BOOLEAN
  /\ accepting \in BOOLEAN /\ deaf \in BOOLEAN
  /\ shutdownFlag \in BOOLEAN /\ completed \in Nat /\ crashed \in BOOLEAN

\* The types; and what is being written is a message, not the null that a send
\* queue hands out when it is empty.
TypeOK ==
  /\ Typed
  /\ \A c \in Channels : chan[c].wr = "message" => chan[c].msg # 0

Init ==
  /\ chan = [c \in Channels |-> NewChannel]
  /\ started = FALSE /\ active = TRUE /\ accepting = FALSE /\ deaf = FALSE
  /\ shutdownFlag = FALSE /\ completed = 0 /\ crashed = FALSE

\* The step is well defined; or it is not, and then the process either ends or
\* goes on as if nothing had happened.
Defined == ~crashed /\ crashed' = FALSE
Undefined == ~crashed /\ crashed' \in BOOLEAN

-----------------------------------------------------------------------------
(* Sockets and timers.                                                     *)

StateOfNew(ch) == IF ch.socket THEN "live" ELSE "dead"
AbortedState(op, st) == IF op # "none" /\ st = "live" THEN "cancelled" ELSE st

Reading(ch, op) == [ch EXCEPT !.rd = op, !.rdst = StateOfNew(ch)]
Writing(ch, op) == [ch EXCEPT !.wr = op, !.wrst = StateOfNew(ch)]

\* Fault: only the write is aborted.
CancelWriteOnly(ch) == [ch EXCEPT !.wrst = AbortedState(ch.wr, @)]

\* socket().cancel() aborts what is outstanding, in both directions
Cancel(ch) == [ch EXCEPT !.rdst = AbortedState(ch.rd, @),
                         !.wrst = AbortedState(ch.wr, @)]
CloseSocket(ch) == [Cancel(ch) EXCEPT !.socket = FALSE]

StartTimer(ch) == [ch EXCEPT !.timer = TRUE]
StopTimer(ch) == [ch EXCEPT !.timer = FALSE]

-----------------------------------------------------------------------------
(* The functions the handlers of one channel share.  Each one maps a       *)
(* channel to the channel it leaves behind.                                *)

\* delete: what outlives the channel are the operations and the timer that were
\* not finished, and the send calls that still carry its id
Freed(ch) ==
  [NewChannel EXCEPT !.status = "freed", !.timer = ch.timer, !.posted = ch.posted,
                     !.rd = ch.rd, !.rdst = ch.rdst,
                     !.wr = ch.wr, !.wrst = ch.wrst]

\* Fault: the channel is deleted while a read is outstanding.
CloseIgnoringRead(ch) ==
  IF ch.asyncWrite
  THEN [ch EXCEPT !.shutdown = TRUE]
  ELSE Freed(StopTimer(CloseSocket(ch)))

CloseWebSocketChannel(ch) ==
  IF ch.asyncWrite \/ ch.asyncRead
  THEN [ch EXCEPT !.shutdown = TRUE]
  ELSE Freed(StopTimer(CloseSocket(ch)))

\* Fault: nothing limits the time to the request.
ReceiveHandshakeUntimed(ch) == Reading(ch, "hsHeader")

ReceiveHandshake(ch) == Reading(StartTimer(ch), "hsHeader")

PerformHandshake(ch) ==
  IF Ssl THEN Reading(StartTimer(ch), "sslHandshake") ELSE ReceiveHandshake(ch)

\* the 101 response: neither a timer nor asyncWrite_ guards this write
ProcessHandshake(ch, hasKey) ==
  IF hasKey THEN Writing(ch, "response") ELSE CloseWebSocketChannel(ch)

ReadFrame(ch, op) == Reading([StartTimer(ch) EXCEPT !.asyncRead = TRUE], op)
ReceiveMessage(ch) == ReadFrame(ch, "header")

SendMessageQueue(ch, m) ==
  Writing([ch EXCEPT !.asyncWrite = TRUE, !.msg = m], "message")

\* Fault: a write in flight does not make the message wait.
SendMessageAtOnce(ch) ==
  IF ch.queue # <<>>
  THEN [ch EXCEPT !.sent = @ + 1, !.queue = Append(@, ch.sent + 1)]
  ELSE SendMessageQueue([ch EXCEPT !.sent = @ + 1], ch.sent + 1)

SendMessage(ch) ==
  LET accepted == [ch EXCEPT !.sent = @ + 1]
  IN  IF ch.asyncWrite \/ ch.queue # <<>>
      THEN [accepted EXCEPT !.queue = Append(@, ch.sent + 1)]
      ELSE SendMessageQueue(accepted, ch.sent + 1)

\* Fault: asyncRead_ is not reset.
ReadEndedFlagKept(ch) == [ch EXCEPT !.rd = "none", !.rdst = "live"]

\* The two completions, before the handler looks at the result.  The handlers
\* of the handshake do not touch asyncRead_.
ReadEnded(ch) ==
  [ch EXCEPT !.rd = "none", !.rdst = "live",
             !.asyncRead = IF ch.rd \in FrameReads THEN FALSE ELSE @]
WriteEnded(ch) ==
  [ch EXCEPT !.wr = "none", !.wrst = "live", !.msg = 0,
             !.asyncWrite = IF ch.wr = "message" THEN FALSE ELSE @]

-----------------------------------------------------------------------------
(* The listener.                                                           *)

\* Fault: an accept that is still outstanding does not hold the callback back.
HandleShutdownEarly(listening, open) ==
  completed' = IF open = {} THEN completed + 1 ELSE completed

\* handleShutdown, given the listener and the map it finds
HandleShutdown(listening, open) ==
  completed' = IF ~listening /\ open = {} THEN completed + 1 ELSE completed

\* Fault: off by one, the listener stays closed with one connection to spare.
DelWebSocketChannelLate(open) ==
  /\ UNCHANGED <<started, deaf, shutdownFlag, completed>>
  /\ IF ~shutdownFlag /\ Cardinality(open) < MaxConnections - 1
     THEN active' = TRUE /\ accepting' = TRUE
     ELSE UNCHANGED <<active, accepting>>

\* delWebSocketChannel, with what is left in the map
DelWebSocketChannel(open) ==
  /\ UNCHANGED <<started, deaf, shutdownFlag>>
  /\ \/ /\ shutdownFlag
        /\ HandleShutdown(active, open)
        /\ UNCHANGED <<active, accepting>>
     \/ /\ ~shutdownFlag /\ MaxConnections # 0
        /\ Cardinality(open) < MaxConnections /\ ~active
        /\ active' = TRUE /\ accepting' = TRUE
        /\ UNCHANGED completed
     \/ /\ ~shutdownFlag
        /\ MaxConnections # 0 => Cardinality(open) >= MaxConnections \/ active
        /\ UNCHANGED <<active, accepting, completed>>

\* The handler of channel c leaves it as ch; a channel that was freed has
\* left the map.
Becomes(c, ch) ==
  /\ chan' = [chan EXCEPT ![c] = ch]
  /\ IF ch.status = "freed"
     THEN DelWebSocketChannel(OpenChannels \ {c})
     ELSE UNCHANGED server

Startup ==
  /\ ~started
  /\ started' = TRUE /\ accepting' = TRUE
  /\ UNCHANGED <<chan, active, deaf, shutdownFlag, completed>> /\ Defined

\* Fault: off by one, the listener closes when the limit is already passed.
AddExceedsLimit(count) == MaxConnections # 0 /\ count > MaxConnections /\ active

\* addWebSocketChannel: the limit is reached, so the listener closes
AddReachesLimit(count) ==
  MaxConnections # 0 /\ count >= MaxConnections /\ active

HandleAccept(c) ==
  /\ accepting /\ ~shutdownFlag /\ chan[c].status = "none"
  /\ chan' = [chan EXCEPT ![c] =
                PerformHandshake([NewChannel EXCEPT !.status = "open"])]
  /\ active' = (active /\ ~AddReachesLimit(Cardinality(OpenChannels) + 1))
  /\ accepting' = active'
  /\ UNCHANGED <<started, deaf, shutdownFlag, completed>> /\ Defined

\* The peer has reset the connection before handleAccept asks for its address:
\* remote_endpoint throws, and the exception leaves the handler.  The channel
\* is in no map and is never deleted, active_ stays set and nobody accepts
\* again.
HandleAcceptThrows ==
  /\ accepting /\ ~shutdownFlag /\ AcceptErrors
  /\ accepting' = FALSE /\ deaf' = TRUE
  /\ UNCHANGED <<chan, started, active, shutdownFlag, completed>> /\ Undefined

\* Fault: the end of the accept does not finish the shutdown.
HandleAcceptErrorSilent ==
  /\ accepting /\ (shutdownFlag \/ AcceptErrors)
  /\ active' = FALSE /\ accepting' = FALSE
  /\ UNCHANGED <<chan, started, deaf, shutdownFlag, completed>> /\ Defined

\* accept failed, or it completes after shutdown has begun
HandleAcceptError ==
  /\ accepting /\ (shutdownFlag \/ AcceptErrors)
  /\ active' = FALSE /\ accepting' = FALSE
  /\ IF shutdownFlag THEN HandleShutdown(FALSE, OpenChannels)
                     ELSE UNCHANGED completed
  /\ UNCHANGED <<chan, started, deaf, shutdownFlag>> /\ Defined

Shutdown ==
  /\ started /\ ~shutdownFlag
  /\ shutdownFlag' = TRUE
  /\ chan' = [c \in Channels |->
                IF c \in OpenChannels THEN CloseSocket(chan[c]) ELSE chan[c]]
  /\ HandleShutdown(active, OpenChannels)
  /\ UNCHANGED <<started, active, accepting, deaf>> /\ Defined

-----------------------------------------------------------------------------
(* The handshake.                                                          *)

ReadPending(c, op) == chan[c].status = "open" /\ chan[c].rd = op

\* Every read handler first closes the channel on an error, after a timeout
\* or when the channel is shutting down.
ReadRefused(c) == Becomes(c, CloseWebSocketChannel(ReadEnded(chan[c])))
ReadAccepted(c) ==
  chan[c].rdst # "dead" /\ ~chan[c].timeout /\ ~chan[c].shutdown
\* the channel after the handler has stopped the timer
AfterRead(c) == StopTimer(ReadEnded(chan[c]))

PerformHandshakeComplete(c) ==
  /\ ReadPending(c, "sslHandshake")
  /\ \/ ReadRefused(c)
     \/ ReadAccepted(c) /\ Becomes(c, ReceiveHandshake(AfterRead(c)))
  /\ Defined

HandleReceiveHandshakeHeader(c, request) ==
  /\ ReadPending(c, "hsHeader")
  /\ \/ ReadRefused(c) /\ Defined
     \/ /\ ReadAccepted(c)
        /\ \/ /\ request = "upgrade"
              /\ Becomes(c, ProcessHandshake(AfterRead(c), TRUE))
              /\ Defined
           \/ /\ request = "rejected"
              /\ Becomes(c, CloseWebSocketChannel(AfterRead(c)))
              /\ Defined
           \/ /\ request = "content"
              /\ Becomes(c, Reading(StartTimer(AfterRead(c)), "hsContent"))
              /\ Defined
           \* the catch block returns: no read, no timer, no close
           \/ /\ request = "badLength"
              /\ Becomes(c, AfterRead(c))
              /\ Defined
           \* the channel is closed, that is deleted, and then used
           \/ /\ request = "badRequest"
              /\ Becomes(c, CloseWebSocketChannel(AfterRead(c)))
              /\ Undefined

HandleReceiveHandshakeContent(c, hasKey) ==
  /\ ReadPending(c, "hsContent")
  /\ \/ ReadRefused(c)
     \/ ReadAccepted(c) /\ Becomes(c, ProcessHandshake(AfterRead(c), hasKey))
  /\ Defined

\* handleWriteComplete, of the 101 response
HandleWriteComplete(c) ==
  /\ chan[c].status = "open" /\ chan[c].wr = "response"
  /\ \/ Becomes(c, CloseWebSocketChannel(WriteEnded(chan[c])))
     \/ /\ chan[c].wrst # "dead"
        /\ Becomes(c, ReceiveMessage(WriteEnded(chan[c])))
  /\ Defined

-----------------------------------------------------------------------------
(* Frames.                                                                 *)

\* A text or ping frame goes on with its content, or with the extended
\* length; every other opcode closes the channel.  Which of the two opcode_ is
\* makes no difference before the content has come, so it is chosen there.
HandleReceiveMessageHeader(c) ==
  /\ ReadPending(c, "header")
  /\ \/ ReadRefused(c)
     \/ ReadAccepted(c) /\ Becomes(c, CloseWebSocketChannel(AfterRead(c)))
     \/ /\ ReadAccepted(c)
        /\ \E next \in {"content", "length"} : Becomes(c, ReadFrame(AfterRead(c), next))
  /\ Defined

\* handleReceiveMessageLength2 and handleReceiveMessageLength8
HandleReceiveMessageLength(c) ==
  /\ ReadPending(c, "length")
  /\ \/ ReadRefused(c)
     \/ ReadAccepted(c) /\ Becomes(c, ReadFrame(AfterRead(c), "content"))
  /\ Defined

\* A ping is answered.  A text goes to the application, which may call
\* disconnect on the channel before it returns.
HandleReceiveMessageContent(c) ==
  /\ ReadPending(c, "content")
  /\ LET ch == AfterRead(c)
         heard == [ch EXCEPT !.known = TRUE]
     IN  \/ ReadRefused(c)
         \/ /\ ReadAccepted(c) /\ ch.sent + ch.posted < MaxSends
            /\ Becomes(c, ReceiveMessage(SendMessage(ch)))
         \/ /\ ReadAccepted(c)
            /\ \/ Becomes(c, ReceiveMessage(heard))
               \/ Becomes(c, ReceiveMessage(CloseSocket(StopTimer(heard))))
  /\ Defined

\* requestTimeoutWebSocketChannel and idleTimeoutWebSocketChannel
TimeoutWebSocketChannel(c) ==
  /\ chan[c].timer
  /\ chan' = [chan EXCEPT ![c] =
                Cancel([@ EXCEPT !.timer = FALSE, !.timeout = TRUE])]
  /\ UNCHANGED server /\ Defined

-----------------------------------------------------------------------------
(* Sending.                                                                *)

\* WebSocketServer::sendMessage, called on any thread, posts to the strand
PostSend(c) ==
  /\ chan[c].known /\ chan[c].status = "open"
  /\ chan[c].sent + chan[c].posted < MaxSends
  /\ chan' = [chan EXCEPT ![c].posted = @ + 1]
  /\ UNCHANGED server /\ Defined

\* sendMessageStrand: without the channel, the iterator end() is dereferenced
SendMessageStrand(c) ==
  /\ chan[c].posted > 0
  /\ LET ch == [chan[c] EXCEPT !.posted = @ - 1]
     IN  \/ /\ ch.status = "open" /\ ch.shutdown
            /\ Becomes(c, ch) /\ Defined
         \/ /\ ch.status = "open" /\ ~ch.shutdown
            /\ Becomes(c, SendMessage(ch)) /\ Defined
         \/ /\ ch.status # "open"
            /\ chan' = [chan EXCEPT ![c] = ch]
            /\ Undefined
            /\ UNCHANGED server

\* Fault: the completion does not look at the queue.
CompleteWithoutDequeue(c) ==
  /\ chan[c].status = "open" /\ chan[c].wr = "message"
  /\ LET ch == [WriteEnded(chan[c]) EXCEPT !.written = chan[c].msg]
     IN  Becomes(c, IF ch.shutdown THEN CloseWebSocketChannel(ch) ELSE ch)
  /\ Defined

\* Fault: the completion does not look whether the queue is empty, and sends
\* the null message that dequeue then leaves.
CompleteWithoutEmptyCheck(c) ==
  /\ chan[c].status = "open" /\ chan[c].wr = "message"
  /\ LET ch == [WriteEnded(chan[c]) EXCEPT !.written = chan[c].msg]
     IN  IF ch.shutdown THEN Becomes(c, CloseWebSocketChannel(ch))
         ELSE IF ch.queue = <<>> THEN Becomes(c, SendMessageQueue(ch, 0))
         ELSE Becomes(c, SendMessageQueue([ch EXCEPT !.queue = Tail(@)], Head(ch.queue)))
  /\ Defined

HandleWriteMessageComplete(c) ==
  /\ chan[c].status = "open" /\ chan[c].wr = "message"
  /\ LET ch == WriteEnded(chan[c])
         done == [ch EXCEPT !.written = chan[c].msg]
     IN  \/ Becomes(c, CloseWebSocketChannel(ch))
         \/ /\ chan[c].wrst # "dead" /\ ch.shutdown
            /\ Becomes(c, CloseWebSocketChannel(done))
         \/ /\ chan[c].wrst # "dead" /\ ~ch.shutdown
            /\ ch.queue = <<>>
            /\ Becomes(c, done)
         \/ /\ chan[c].wrst # "dead" /\ ~ch.shutdown
            /\ ch.queue # <<>>
            /\ Becomes(c, SendMessageQueue([done EXCEPT !.queue = Tail(@)],
                                           Head(ch.queue)))
  /\ Defined

-----------------------------------------------------------------------------

ReadCompletes(c) ==
  \/ PerformHandshakeComplete(c)
  \/ \E request \in Requests : HandleReceiveHandshakeHeader(c, request)
  \/ \E hasKey \in BOOLEAN : HandleReceiveHandshakeContent(c, hasKey)
  \/ HandleReceiveMessageHeader(c)
  \/ HandleReceiveMessageLength(c)
  \/ HandleReceiveMessageContent(c)

ChannelStep(c) ==
  \/ HandleAccept(c)
  \/ ReadCompletes(c)
  \/ HandleWriteComplete(c)
  \/ HandleWriteMessageComplete(c)
  \/ TimeoutWebSocketChannel(c)
  \/ PostSend(c)
  \/ SendMessageStrand(c)

Next ==
  \/ Startup
  \/ HandleAcceptError
  \/ HandleAcceptThrows
  \/ Shutdown
  \/ \E c \in Channels : ChannelStep(c)

Spec == Init /\ [][Next]_vars

-----------------------------------------------------------------------------
(* Fairness.                                                               *)

\* The strand runs every handler that is queued: a cancelled or dead operation
\* completes, and so does the accept of a closed listener.  An armed timer
\* fires.  The 101 response, the first bytes written to a connection, always
\* fits the socket's buffer.  Nothing is assumed of a live read: a peer may
\* stay silent for ever.
Scheduling ==
  /\ WF_vars(Startup)
  /\ WF_vars(shutdownFlag /\ HandleAcceptError)
  /\ \A c \in Channels :
       /\ WF_vars(chan[c].rdst # "live" /\ ReadCompletes(c))
       /\ WF_vars(chan[c].wrst # "live" /\ HandleWriteMessageComplete(c))
       /\ WF_vars(HandleWriteComplete(c))
       /\ WF_vars(TimeoutWebSocketChannel(c))

\* Peers that read: a frame that is written is taken off the wire.
PeersRead ==
  \A c \in Channels : WF_vars(HandleWriteMessageComplete(c))

FairSpec == Spec /\ Scheduling
ReadingPeersSpec == FairSpec /\ PeersRead

-----------------------------------------------------------------------------
(* Safety.                                                                 *)

\* asyncRead_ and asyncWrite_, which decide whether a channel may be deleted,
\* agree with the operations that are outstanding once the upgrade is done.
FlagsTellOutstanding ==
  \A c \in OpenChannels :
    /\ chan[c].asyncRead <=> chan[c].rd \in FrameReads
    /\ chan[c].asyncWrite <=> chan[c].wr = "message"

\* closeWebSocketChannel deletes a channel whose raw pointer the completion
\* handlers and the timer capture: none of them is outstanding any more.
FreedIsQuiet ==
  \A c \in Channels \ OpenChannels :
    /\ chan[c].rd = "none" /\ chan[c].wr = "none" /\ ~chan[c].timer

\* A queued message is always behind a write whose completion will dequeue it,
\* until the channel starts to close and drops its queue.
NoMessageStranded ==
  \A c \in Channels :
    chan[c].queue # <<>> /\ ~chan[c].shutdown => chan[c].wr = "message"

\* Messages reach the wire one by one, in the order sendMessage got them, with
\* none left out, whether they were written at once or through the queue.
SentInOrder ==
  [][\A c \in OpenChannels :
       c \in OpenChannels' =>
         chan'[c].written \in {chan[c].written, chan[c].written + 1}]_vars

\* The server never serves more than MaxConnections channels at a time.
ConnectionLimit ==
  MaxConnections # 0 => Cardinality(OpenChannels) <= MaxConnections

\* Where accept does not fail and its handler does not throw, a running server
\* listens and has an accept outstanding whenever it has a connection to spare.
ListensUnlessFull ==
  started /\ ~shutdownFlag /\ ~AcceptErrors
    => \/ active /\ accepting
       \/ MaxConnections # 0 /\ Cardinality(OpenChannels) = MaxConnections

\* The shutdown callback, which sets a promise and lets the caller tear the
\* server down, runs at most once, and when it has run no channel is in the
\* map and no accept is outstanding.
ShutdownCompletesOnce ==
  /\ completed <= 1
  /\ completed = 1 => OpenChannels = {} /\ ~accepting

\* The limit, the listener and the shutdown are those of any server here: the
\* listener opens and closes with the number of channels in
\* webSocketChannelMap_, a channel that has left never comes back, and the
\* shutdown callback is called in the step that ends what was left.  A server
\* whose accept handler has thrown takes itself for listening.
L == INSTANCE Listener WITH
       Clients <- Channels, Limit <- MaxConnections,
       serving <- OpenChannels,
       served <- {c \in Channels : chan[c].status = "freed"},
       listening <- accepting \/ deaf, draining <- shutdownFlag, callbacks <- completed
ServesAsListener == L!Spec

\* No behaviour reaches undefined behaviour that ends the process.  It does not
\* hold (a message posted for a channel that has closed): no run checks it.
NeverCrashes == ~crashed

-----------------------------------------------------------------------------
(* Liveness.                                                               *)

\* shutdown always gets to call its callback: Library::shutdown waits for it.
\* Only a server whose accept handler has thrown never does: active_ stays set
\* and there is no accept left to reset it.
ShutdownCompletes == shutdownFlag ~> completed > 0 \/ crashed \/ deaf

Handshaking(ch) == ch.status = "open" /\ ~ch.asyncRead /\ ~ch.shutdown

\* A client that connects either finishes the upgrade or is disconnected: the
\* request timeout covers every phase of the handshake.
HandshakeEnds ==
  \A c \in Channels : Handshaking(chan[c]) ~> ~Handshaking(chan[c]) \/ crashed

\* A channel whose idle or request timer has fired is closed.
TimedOutIsClosed ==
  \A c \in Channels : chan[c].timeout ~> chan[c].status = "freed" \/ crashed
=============================================================================
