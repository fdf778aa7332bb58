----------------------------- MODULE HttpServer -----------------------------
(***************************************************************************)
(* The HTTP server: the listener with its connection limit and shutdown    *)
(* (HttpServer) and a connection, from the accept through the TLS          *)
(* handshake to the one request it carries (HttpServerBase).               *)
(*                                                                         *)
(* The handlers of accepts, handshakes, reads and writes run on a strand.  *)
(* The timeouts of a request do not: a thread of the pool runs them,       *)
(* between and during the handlers, on the same channel.  Each of their    *)
(* three accesses to the channel is a step, and so are the two parts of    *)
(* the handlers they can come between.                                     *)
(*                                                                         *)
(* Outstanding operations are "live", "cancelled" or "dead", as they are   *)
(* in WebSocketServer.                                                     *)
(***************************************************************************)
EXTENDS Integers, FiniteSets

CONSTANTS
  Channels,        \* the channels that can ever be created, one per connection
  MaxConnections,  \* httpConfig_->maxConnections(), 0: no limit
  Ssl,             \* httpConfig_->ssl()
  AcceptErrors     \* whether accept may fail, or the connection it brings be
                   \* gone already, while the listener is open

\* What a peer's request can be, as far as the server tells requests apart:
\* "plain"   it has no Content-Length
\* "content" its content ends at or after what was read with the header
\* "overrun" more than Content-Length was read with the header
\* "refused" the header cannot be decoded, or its Content-Length is no number
Requests == {"plain", "content", "overrun", "refused"}

ASSUME ConfigAssumption ==
  /\ IsFiniteSet(Channels)
  /\ MaxConnections \in Nat
  /\ Ssl \in BOOLEAN
  /\ AcceptErrors \in BOOLEAN

VARIABLES
  chan,          \* the channels, by identity
  started,       \* startup has opened the listener
  active,        \* active_
  accepting,     \* an async_accept is outstanding
  deaf,          \* history: handleAccept has thrown, so that no accept is
                 \* outstanding though active_ says so
  shutdownFlag,  \* shutdownFlag_
  completed,     \* how often shutdownCompleteCallback_ has been called
  crashed        \* undefined behaviour has ended the process

server == <<started, active, accepting, deaf, shutdownFlag, completed>>
vars == <<chan, started, active, accepting, deaf, shutdownFlag, completed, crashed>>

Outstanding == {"live", "cancelled", "dead"}

\* todo is what the handler that is running has yet to start; callback is how
\* far the timeout handler that a thread of the pool runs has come.
Channel ==
  [status : {"none", "open", "freed"},
   rd : {"none", "handshake", "header", "content", "overrun"}, rdst : Outstanding,
   wr : {"none", "response"}, wrst : Outstanding,
   todo : {"none", "content", "overrun", "response"},
   timer : {"off", "handshake", "request"},
   callback : {"none", "fired", "flagged", "timedOut"},
   asyncRead : BOOLEAN, asyncWrite : BOOLEAN,
   shutdown : BOOLEAN, timeout : BOOLEAN, socket : BOOLEAN]

NewChannel ==
  [status |-> "none", rd |-> "none", rdst |-> "live", wr |-> "none", wrst |-> "live",
   todo |-> "none", timer |-> "off", callback |-> "none",
   asyncRead |-> FALSE, asyncWrite |-> FALSE,
   shutdown |-> FALSE, timeout |-> FALSE, socket |-> TRUE]

\* httpChannelMap_
OpenChannels == {c \in Channels : chan[c].status = "open"}

\* A channel that waits to be accepted is untouched; the strand runs one handler.
TypeOK ==
  /\ chan \in [Channels -> Channel]
  /\ \A c \in Channels : chan[c].status = "none" => chan[c] = NewChannel
  /\ Cardinality({c \in Channels : chan[c].todo # "none"}) <= 1
  /\ started \in BOOLEAN /\ active \in BOOLEAN
  /\ accepting \in BOOLEAN /\ deaf \in BOOLEAN
  /\ shutdownFlag \in BOOLEAN /\ completed \in Nat /\ crashed \in BOOLEAN

Init ==
  /\ chan = [c \in Channels |-> NewChannel]
  /\ started = FALSE /\ active = TRUE /\ accepting = FALSE /\ deaf = FALSE
  /\ shutdownFlag = FALSE /\ completed = 0 /\ crashed = FALSE

\* A step is well defined; or it is not, and then the process either ends or
\* goes on as if nothing had happened.
Defined == ~crashed /\ crashed' = FALSE
Undefined == ~crashed /\ crashed' \in BOOLEAN

\* No handler is in the middle of its work on the strand.
StrandIdle == \A c \in Channels : chan[c].todo = "none"

-----------------------------------------------------------------------------
(* Channels: what the handlers share.  Each operator maps a channel to the *)
(* channel it leaves behind.                                               *)

StateOfNew(ch) == IF ch.socket THEN "live" ELSE "dead"
AbortedState(op, st) == IF op # "none" /\ st = "live" THEN "cancelled" ELSE st

Reading(ch, op) == [ch EXCEPT !.rd = op, !.rdst = StateOfNew(ch)]
Cancel(ch) == [ch EXCEPT !.rdst = AbortedState(ch.rd, @),
                         !.wrst = AbortedState(ch.wr, @)]
CloseSocket(ch) == [Cancel(ch) EXCEPT !.socket = FALSE]
StopTimer(ch) == [ch EXCEPT !.timer = "off"]

\* delete: what outlives the channel is what still uses it
Freed(ch) ==
  [NewChannel EXCEPT !.status = "freed", !.callback = ch.callback,
                     !.rd = ch.rd, !.rdst = ch.rdst,
                     !.wr = ch.wr, !.wrst = ch.wrst]

CloseHttpChannel(ch) ==
  IF ch.asyncWrite \/ ch.asyncRead
  THEN [ch EXCEPT !.shutdown = TRUE]
  ELSE Freed(StopTimer(CloseSocket(ch)))

\* Fault: the flag is set after the read, which may be forgotten.
ReadRequestUnflagged(ch, op) == Reading([ch EXCEPT !.timer = "request"], op)

\* a read of the request, with the timer that limits it
ReadRequest(ch, op) ==
  Reading([ch EXCEPT !.timer = "request", !.asyncRead = TRUE], op)
ReceiveRequest(ch) == ReadRequest(ch, "header")

\* the response, of the file interface or 404: no timer limits it
SendResponse(ch) ==
  [ch EXCEPT !.asyncWrite = TRUE, !.wr = "response", !.wrst = StateOfNew(ch)]

PerformHandshake(ch) ==
  IF Ssl THEN Reading([ch EXCEPT !.timer = "handshake"], "handshake")
         ELSE ReceiveRequest(ch)

ReadEnded(ch) ==
  [ch EXCEPT !.rd = "none", !.rdst = "live", !.asyncRead = FALSE]
WriteEnded(ch) ==
  [ch EXCEPT !.wr = "none", !.wrst = "live", !.asyncWrite = FALSE]

-----------------------------------------------------------------------------
(* The listener.                                                           *)

HandleShutdown(listening, open) ==
  completed' = IF ~listening /\ open = {} THEN completed + 1 ELSE completed

\* delHttpChannel, with what is left in the map
DelHttpChannel(open) ==
  LET reopens == /\ ~shutdownFlag /\ ~active /\ MaxConnections # 0
                 /\ Cardinality(open) < MaxConnections
  IN  /\ active' = (active \/ reopens)
      /\ accepting' = (accepting \/ reopens)
      /\ IF shutdownFlag THEN HandleShutdown(active, open) ELSE UNCHANGED completed
      /\ UNCHANGED <<started, deaf, shutdownFlag>>

\* cleanupHttpChannel, of a channel that was deleted
Becomes(c, ch) ==
  /\ chan' = [chan EXCEPT ![c] = ch]
  /\ IF ch.status = "freed"
     THEN DelHttpChannel(OpenChannels \ {c})
     ELSE UNCHANGED server

Startup ==
  /\ ~started
  /\ started' = TRUE /\ accepting' = TRUE
  /\ UNCHANGED <<chan, active, deaf, shutdownFlag, completed>> /\ Defined

\* Fault: off by one, the listener closes when the limit is already passed.
AddExceedsLimit(count) == MaxConnections # 0 /\ count > MaxConnections /\ active

\* addHttpChannel: the limit is reached, so the listener closes
AddReachesLimit(count) == MaxConnections # 0 /\ count >= MaxConnections /\ active

HandleAccept(c) ==
  /\ StrandIdle
  /\ accepting /\ ~shutdownFlag /\ chan[c].status = "none"
  /\ chan' = [chan EXCEPT ![c] =
                PerformHandshake([NewChannel EXCEPT !.status = "open"])]
  /\ active' = (active /\ ~AddReachesLimit(Cardinality(OpenChannels) + 1))
  /\ accepting' = active'
  /\ UNCHANGED <<started, deaf, shutdownFlag, completed>> /\ Defined

\* remote_endpoint throws, for the peer has reset the connection already, and the
\* exception leaves the handler: a channel that nobody knows, active_ still set,
\* and no accept.
HandleAcceptThrows ==
  /\ StrandIdle
  /\ accepting /\ ~shutdownFlag /\ AcceptErrors
  /\ accepting' = FALSE /\ deaf' = TRUE
  /\ UNCHANGED <<chan, started, active, shutdownFlag, completed>> /\ Undefined

\* Fault: the end of the accept does not finish the shutdown.
HandleAcceptErrorSilent ==
  /\ StrandIdle
  /\ accepting /\ (shutdownFlag \/ AcceptErrors)
  /\ active' = FALSE /\ accepting' = FALSE
  /\ UNCHANGED <<chan, started, deaf, shutdownFlag, completed>> /\ Defined

\* accept failed, or it completes after shutdown has begun
HandleAcceptError ==
  /\ StrandIdle
  /\ accepting /\ (shutdownFlag \/ AcceptErrors)
  /\ active' = FALSE /\ accepting' = FALSE
  /\ IF shutdownFlag THEN HandleShutdown(FALSE, OpenChannels)
                     ELSE UNCHANGED completed
  /\ UNCHANGED <<chan, started, deaf, shutdownFlag>> /\ Defined

\* Fault: the channel that waits to be accepted is closed too.
ShutdownClosingAll ==
  /\ StrandIdle /\ started /\ ~shutdownFlag
  /\ shutdownFlag' = TRUE
  /\ chan' = [c \in Channels |-> CloseSocket(chan[c])]
  /\ HandleShutdown(active, OpenChannels)
  /\ UNCHANGED <<started, active, accepting, deaf>> /\ Defined

Shutdown ==
  /\ StrandIdle /\ started /\ ~shutdownFlag
  /\ shutdownFlag' = TRUE
  /\ chan' = [c \in Channels |->
                IF c \in OpenChannels THEN CloseSocket(chan[c]) ELSE chan[c]]
  /\ HandleShutdown(active, OpenChannels)
  /\ UNCHANGED <<started, active, accepting, deaf>> /\ Defined

-----------------------------------------------------------------------------
(* The handlers of a channel.                                              *)

ReadPending(c, op) == StrandIdle /\ chan[c].status = "open" /\ chan[c].rd = op

\* Every read handler first closes the channel on an error, after a timeout or
\* when the channel is shutting down.
ReadRefused(c) == Becomes(c, CloseHttpChannel(ReadEnded(chan[c])))
ReadAccepted(c) ==
  chan[c].rdst # "dead" /\ ~chan[c].timeout /\ ~chan[c].shutdown
AfterRead(c) == StopTimer(ReadEnded(chan[c]))

PerformHandshakeComplete(c) ==
  /\ ReadPending(c, "handshake")
  /\ \/ ReadRefused(c)
     \/ /\ chan[c].rdst # "dead" /\ ~chan[c].timeout
        /\ Becomes(c, ReceiveRequest(AfterRead(c)))
  /\ Defined

\* `success` is not initialised: a Content-Length that is a number may be
\* taken for an error.
HandleReceiveRequestHeader(c, request) ==
  /\ ReadPending(c, "header")
  /\ \/ ReadRefused(c)
     \/ /\ ReadAccepted(c) /\ request # "plain"
        /\ Becomes(c, CloseHttpChannel(AfterRead(c)))
     \/ /\ ReadAccepted(c) /\ request # "refused"
        /\ Becomes(c, [AfterRead(c) EXCEPT
                         !.todo = IF request = "plain" THEN "response" ELSE request])
  /\ Defined

\* The read of an overrun content waits for nearly 2^64 bytes.
HandleReceiveRequestContent(c) ==
  /\ \/ ReadPending(c, "content") \/ ReadPending(c, "overrun")
  /\ \/ ReadRefused(c)
     \/ /\ ReadAccepted(c) /\ chan[c].rd = "content"
        /\ Becomes(c, [AfterRead(c) EXCEPT !.todo = "response"])
  /\ Defined

\* The second part of the two handlers: the read of the content, or
\* processRequest.
ContinueRequest(c) ==
  /\ chan[c].todo # "none"
  /\ LET ch == [chan[c] EXCEPT !.todo = "none"]
     IN  IF chan[c].todo = "response" THEN Becomes(c, SendResponse(ch))
                                      ELSE Becomes(c, ReadRequest(ch, chan[c].todo))
  /\ Defined

\* The channel is closed; after an error it is closed a second time, when it
\* has already been deleted.
HandleWriteComplete(c) ==
  /\ StrandIdle /\ chan[c].status = "open" /\ chan[c].wr = "response"
  /\ Becomes(c, CloseHttpChannel(WriteEnded(chan[c])))
  /\ \/ chan[c].wrst # "dead" /\ Defined
     \/ Undefined

-----------------------------------------------------------------------------
(* Timeouts.                                                               *)

TimedOut(ch) == [ch EXCEPT !.timeout = TRUE]

\* The handshake timer, on the strand.
HandshakeTimeout(c) ==
  /\ StrandIdle /\ chan[c].timer = "handshake"
  /\ chan' = [chan EXCEPT ![c] = Cancel(TimedOut(StopTimer(@)))]
  /\ UNCHANGED server /\ Defined

\* The timer of a request fires.  From here on stop does not help.
RequestTimerFires(c) ==
  /\ chan[c].timer = "request" /\ chan[c].callback = "none"
  /\ chan' = [chan EXCEPT ![c] = [StopTimer(@) EXCEPT !.callback = "fired"]]
  /\ UNCHANGED server /\ Defined

\* One access of the timeout handler: the channel may have been deleted.
TimeoutAccess(c, from, to, ch) ==
  /\ chan[c].callback = from
  /\ chan' = [chan EXCEPT ![c] =
                [IF @.status = "open" THEN ch ELSE @ EXCEPT !.callback = to]]
  /\ IF chan[c].status = "open" THEN Defined ELSE Undefined
  /\ UNCHANGED server

\* Fault: the handler closes the channel itself, as the flags seem to allow.
TimeoutCloses(c) ==
  /\ chan[c].callback = "timedOut" /\ chan[c].status = "open"
  /\ Becomes(c, CloseHttpChannel([chan[c] EXCEPT !.callback = "none"])) /\ Defined

\* Fault: the handler does not cancel what is outstanding.
TimeoutWithoutCancel(c) ==
  TimeoutAccess(c, "timedOut", "none", chan[c])

TimeoutHttpChannel(c) ==
  TimeoutAccess(c, "timedOut", "none", Cancel(chan[c]))

\* handleReceiveRequestHeaderTimeout and handleReceiveRequestContentTimeout
HandleReceiveRequestTimeout(c) ==
  \/ TimeoutAccess(c, "fired", "flagged", [chan[c] EXCEPT !.asyncRead = FALSE])
  \/ TimeoutAccess(c, "flagged", "timedOut", TimedOut(chan[c]))
  \/ TimeoutHttpChannel(c)

-----------------------------------------------------------------------------

ReadCompletes(c) ==
  \/ PerformHandshakeComplete(c)
  \/ \E request \in Requests : HandleReceiveRequestHeader(c, request)
  \/ HandleReceiveRequestContent(c)

ChannelStep(c) ==
  \/ HandleAccept(c)
  \/ ReadCompletes(c)
  \/ ContinueRequest(c)
  \/ HandleWriteComplete(c)
  \/ HandshakeTimeout(c)
  \/ RequestTimerFires(c)
  \/ HandleReceiveRequestTimeout(c)

Next ==
  \/ Startup
  \/ HandleAcceptError
  \/ HandleAcceptThrows
  \/ Shutdown
  \/ \E c \in Channels : ChannelStep(c)

Spec == Init /\ [][Next]_vars

\* The strand and the pool run what is queued: cancelled and dead operations
\* complete, so does the accept of a closed listener, timers fire and their
\* handlers run.  Nothing is assumed of a live read.
Scheduling ==
  /\ WF_vars(Startup)
  /\ SF_vars(shutdownFlag /\ HandleAcceptError)
  /\ \A c \in Channels :
       /\ SF_vars(chan[c].rdst # "live" /\ ReadCompletes(c))
       /\ WF_vars(ContinueRequest(c))
       /\ SF_vars(HandshakeTimeout(c))
       /\ WF_vars(RequestTimerFires(c))
       /\ WF_vars(HandleReceiveRequestTimeout(c))

\* Peers take the response off the wire, or hang up.
PeersRead == \A c \in Channels : SF_vars(HandleWriteComplete(c))

FairSpec == Spec /\ Scheduling /\ PeersRead

-----------------------------------------------------------------------------
(* Properties.                                                             *)

\* asyncRead_ and asyncWrite_ decide whether a channel may be deleted.  Only a
\* timeout handler, by clearing the flag of a read it has yet to cancel, makes
\* one of them differ from what is outstanding.
FlagsTellOutstanding ==
  \A c \in OpenChannels :
    LET ch == chan[c]
        reading == ch.rd \notin {"none", "handshake"}
    IN  /\ ch.asyncWrite <=> ch.wr # "none"
        /\ ch.asyncRead => reading
        /\ reading /\ ~ch.asyncRead => ch.callback = "flagged" \/ ch.timeout

\* Whatever the timeout handlers do to the flags, closeHttpChannel never deletes
\* a channel that an outstanding operation will come back to.
FreedIsQuiet ==
  \A c \in Channels \ OpenChannels : chan[c].rd = "none" /\ chan[c].wr = "none"

\* The limit, the listener and the shutdown are those of any server here: the
\* listener opens and closes with the number of channels in httpChannelMap_, and
\* the shutdown callback is called once, with no channel and no accept left.  A
\* server whose accept handler has thrown takes itself for listening.
L == INSTANCE Listener WITH
       Clients <- Channels, Limit <- MaxConnections,
       serving <- OpenChannels,
       served <- {c \in Channels : chan[c].status = "freed"},
       listening <- accepting \/ deaf, draining <- shutdownFlag, callbacks <- completed
ServesAsListener == L!Spec

\* A connection ends, whatever its peer sends and whenever it stops sending: the
\* timers of the handshake and of the request leave no phase of reading without
\* an end.  No timer limits the response, so that a peer has to take it or hang up.
ChannelEnds ==
  \A c \in Channels :
    chan[c].status = "open" ~> chan[c].status = "freed" \/ crashed

\* shutdown gets to call its callback, which Library::shutdown waits for, except
\* where the accept handler has thrown: then active_ stays set for ever.
ShutdownCompletes == shutdownFlag ~> completed > 0 \/ crashed \/ deaf
=============================================================================
