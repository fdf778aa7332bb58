------------------------ MODULE WebSocketServerProofs ------------------------
(***************************************************************************)
(* What TLAPS proves of the WebSocket server, for every set of channels,   *)
(* every connection limit and every bound on the messages.                 *)
(***************************************************************************)
EXTENDS WebSocketServer, FiniteSetTheorems, TLAPS

(***************************************************************************)
(* The inductive invariant of one channel.  The flags mirror the           *)
(* operations; the handshake, in which they do not, is over before the     *)
(* application knows the channel and can send on it; and whatever is not   *)
(* open has nothing outstanding.                                           *)
(***************************************************************************)
Core(ch) ==
  /\ ch \in Channel
  /\ ch.status = "open" =>
       /\ ch.asyncRead <=> ch.rd \in FrameReads
       /\ ch.asyncWrite <=> ch.wr = "message"
       /\ ch.posted > 0 => ch.known
       /\ ch.rd \in HandshakeReads => ~ch.known /\ ch.wr = "none" /\ ch.queue = <<>>
       /\ ch.wr = "response" => ~ch.known /\ ch.rd = "none" /\ ch.queue = <<>>
  /\ ch.status # "open" => ch.rd = "none" /\ ch.wr = "none" /\ ~ch.timer

(***************************************************************************)
(* The messages of a channel: behind the one in flight, the queue holds    *)
(* the numbers that follow it; with none in flight everything is written.  *)
(* A channel that is shutting down has given up its queue.                 *)
(***************************************************************************)
Flying(ch) ==
  ch.wr = "message" =>
    /\ ch.msg = ch.written + 1
    /\ ch.sent = ch.msg + Len(ch.queue)
    /\ \A i \in 1 .. Len(ch.queue) : ch.queue[i] = ch.msg + i

Settled(ch) ==
  ch.wr # "message" /\ ~ch.shutdown => ch.queue = <<>> /\ ch.sent = ch.written

ChannelInv(ch) == Core(ch) /\ Flying(ch) /\ Settled(ch)

-----------------------------------------------------------------------------
(* What the functions on channels preserve.                                *)

LEMMA NewChannelInv ==
  /\ ChannelInv(NewChannel)
  /\ NewChannel.status = "none" /\ ~NewChannel.known /\ ~NewChannel.shutdown
  /\ NewChannel.rd = "none" /\ NewChannel.wr = "none" /\ NewChannel.posted = 0
  /\ ~NewChannel.asyncRead /\ ~NewChannel.asyncWrite /\ ~NewChannel.timer
  /\ NewChannel.queue = <<>> /\ NewChannel.sent = 0 /\ NewChannel.written = 0
BY DEF ChannelInv, Core, Flying, Settled, NewChannel, Channel, Outstanding,
       HandshakeReads, FrameReads

\* What ChannelInv speaks of, but for the timer.
Parts ==
  {"status", "rd", "wr", "asyncRead", "asyncWrite", "shutdown", "queue", "msg", "sent", "written",
   "known", "posted"}

LEMMA SameParts ==
  ASSUME NEW ch, NEW next \in Channel, ChannelInv(ch), \A f \in Parts : next[f] = ch[f],
         next.timer => ch.timer
  PROVE  ChannelInv(next)
<1>1. /\ next.status = ch.status /\ next.rd = ch.rd /\ next.wr = ch.wr
      /\ next.asyncRead = ch.asyncRead /\ next.asyncWrite = ch.asyncWrite
      /\ next.shutdown = ch.shutdown /\ next.queue = ch.queue /\ next.msg = ch.msg
      /\ next.sent = ch.sent /\ next.written = ch.written /\ next.known = ch.known
      /\ next.posted = ch.posted
  BY DEF Parts
<1>2. Core(next)
  BY <1>1 DEF ChannelInv, Core
<1>3. Flying(next) /\ Settled(next)
  BY <1>1 DEF ChannelInv, Flying, Settled
<1> QED
  BY <1>2, <1>3 DEF ChannelInv

LEMMA ReceiveHandshakeInv ==
  ASSUME NEW ch, ChannelInv(ch), ch.status = "open", ~ch.known, ch.rd = "none",
         ch.wr = "none", ch.queue = <<>>
  PROVE  ChannelInv(ReceiveHandshake(ch)) /\ ReceiveHandshake(ch).status = "open"
BY DEF ChannelInv, Core, Flying, Settled, Channel, Outstanding, HandshakeReads,
       FrameReads, ReceiveHandshake, Reading, StartTimer, StateOfNew

LEMMA PerformHandshakeInv ==
  ASSUME NEW ch, ChannelInv(ch), ch.status = "open", ~ch.known, ch.rd = "none",
         ch.wr = "none", ch.queue = <<>>
  PROVE  ChannelInv(PerformHandshake(ch)) /\ PerformHandshake(ch).status = "open"
<1>1. CASE Ssl
  BY <1>1 DEF ChannelInv, Core, Flying, Settled, Channel, Outstanding, HandshakeReads,
         FrameReads, PerformHandshake, Reading, StartTimer, StateOfNew
<1>2. CASE ~Ssl
  BY <1>2, ReceiveHandshakeInv DEF PerformHandshake
<1>3. QED
  BY <1>1, <1>2

LEMMA OpenedInv ==
  LET ch == [NewChannel EXCEPT !.status = "open"]
  IN  ChannelInv(PerformHandshake(ch)) /\ PerformHandshake(ch).status = "open"
<1> DEFINE ch == [NewChannel EXCEPT !.status = "open"]
<1>1. /\ ChannelInv(ch) /\ ch.status = "open" /\ ~ch.known
      /\ ch.rd = "none" /\ ch.wr = "none" /\ ch.queue = <<>>
  BY NewChannelInv
     DEF ChannelInv, Core, Flying, Settled, Channel, HandshakeReads, FrameReads
<1> HIDE DEF ch
<1>2. QED
  BY <1>1, PerformHandshakeInv DEF ch

\* cancel() changes nothing but the state of what is outstanding.
LEMMA CancelInv ==
  ASSUME NEW ch, Core(ch)
  PROVE  /\ Core(Cancel(ch))
         /\ Flying(ch) => Flying(Cancel(ch))
         /\ Settled(ch) => Settled(Cancel(ch))
         /\ \A f \in {"status", "rd", "wr", "asyncRead", "asyncWrite", "shutdown",
                      "timeout", "timer", "socket", "queue", "msg", "sent",
                      "written", "known", "posted"} : Cancel(ch)[f] = ch[f]
<1>1. /\ AbortedState(ch.rd, ch.rdst) \in Outstanding
      /\ AbortedState(ch.wr, ch.wrst) \in Outstanding
  BY DEF Core, Channel, AbortedState, Outstanding
<1>2. QED
  BY <1>1 DEF Core, Flying, Settled, Channel, Cancel

LEMMA ReadEndedInv ==
  ASSUME NEW ch, ChannelInv(ch), ch.status = "open", ch.rd # "none"
  PROVE  \A done \in {ReadEnded(ch), StopTimer(ReadEnded(ch))} :
           /\ ChannelInv(done) /\ done.status = "open"
           /\ done.rd = "none" /\ done.wr # "response"
           /\ done.shutdown = ch.shutdown /\ done.written = ch.written
           /\ ch.rd \in HandshakeReads =>
                ~done.known /\ done.wr = "none" /\ done.queue = <<>>
<1> DEFINE ended == ReadEnded(ch)
           stopped == StopTimer(ended)
<1>1. /\ ChannelInv(ended) /\ ended.status = "open"
      /\ ended.rd = "none" /\ ended.wr # "response"
      /\ ended.shutdown = ch.shutdown /\ ended.written = ch.written
      /\ ch.rd \in HandshakeReads =>
           ~ended.known /\ ended.wr = "none" /\ ended.queue = <<>>
  BY DEF ChannelInv, Core, Flying, Settled, Channel, Outstanding,
         HandshakeReads, FrameReads, ReadEnded
<1> HIDE DEF ended
<1>2. /\ ChannelInv(stopped)
      /\ \A f \in {"status", "rd", "wr", "shutdown", "written", "known", "queue"} :
           stopped[f] = ended[f]
  <2>1. stopped \in Channel /\ stopped.timer = FALSE /\ \A f \in Parts : stopped[f] = ended[f]
    BY <1>1 DEF ChannelInv, Core, Channel, Parts, StopTimer
  <2> HIDE DEF stopped
  <2>2. ChannelInv(stopped)
    BY <1>1, <2>1, SameParts
  <2> QED
    BY <2>1, <2>2 DEF Parts
<1> HIDE DEF stopped
<1>3. QED
  <2>1. /\ stopped.status = "open" /\ stopped.rd = "none"
        /\ stopped.wr = ended.wr /\ stopped.shutdown = ended.shutdown
        /\ stopped.written = ended.written
        /\ stopped.known = ended.known /\ stopped.queue = ended.queue
    BY <1>1, <1>2
  <2>2. QED
    BY <1>1, <1>2, <2>1 DEF ended, stopped

\* closeWebSocketChannel, called with no read of the handshake and no response
\* outstanding, either marks the channel or frees it with nothing left behind.
LEMMA CloseInv ==
  ASSUME NEW ch, Core(ch), Flying(ch), ch.status = "open",
         ch.rd \notin HandshakeReads, ch.wr # "response"
  PROVE  /\ ChannelInv(CloseWebSocketChannel(ch))
         /\ CloseWebSocketChannel(ch).status \in {"open", "freed"}
         /\ CloseWebSocketChannel(ch).status = "open"
              => CloseWebSocketChannel(ch).written = ch.written
<1>1. CASE ch.asyncWrite \/ ch.asyncRead
  BY <1>1 DEF ChannelInv, Core, Flying, Settled, Channel, CloseWebSocketChannel
<1>2. CASE ~(ch.asyncWrite \/ ch.asyncRead)
  <2> DEFINE cl == StopTimer(CloseSocket(ch))
  <2>1. ch.rd = "none" /\ ch.wr = "none"
    BY <1>2 DEF Core, Channel
  <2>2. /\ cl.rd = "none" /\ cl.wr = "none" /\ ~cl.timer /\ cl.timer \in BOOLEAN
        /\ cl.rdst \in Outstanding /\ cl.wrst \in Outstanding /\ cl.posted \in Nat
    BY <2>1 DEF Core, Channel, CloseSocket, Cancel, StopTimer, AbortedState
  <2> HIDE DEF cl
  <2>3. ChannelInv(Freed(cl)) /\ Freed(cl).status = "freed"
    BY <2>2, NewChannelInv DEF ChannelInv, Core, Flying, Settled, Freed, Channel
  <2>4. QED
    BY <1>2, <2>3 DEF CloseWebSocketChannel, cl
<1>3. QED
  BY <1>1, <1>2

LEMMA CloseSocketInv ==
  ASSUME NEW ch, ChannelInv(ch)
  PROVE  /\ ChannelInv(CloseSocket(ch))
         /\ \A f \in {"status", "rd", "wr", "asyncRead", "asyncWrite", "shutdown",
                      "timeout", "timer", "queue", "msg", "sent", "written",
                      "known", "posted"} : CloseSocket(ch)[f] = ch[f]
<1> DEFINE aborted == Cancel(ch)
<1>1. /\ ChannelInv(aborted)
      /\ \A f \in {"status", "rd", "wr", "asyncRead", "asyncWrite", "shutdown",
                   "timeout", "timer", "queue", "msg", "sent", "written",
                   "known", "posted"} : aborted[f] = ch[f]
  BY CancelInv DEF ChannelInv
<1> HIDE DEF aborted
<1>2. QED
  <2>1. CloseSocket(ch) = [aborted EXCEPT !.socket = FALSE]
    BY DEF CloseSocket, aborted
  <2> DEFINE closed == [aborted EXCEPT !.socket = FALSE]
  <2>2. ChannelInv(closed)
    <3>1. closed \in Channel /\ closed.timer = aborted.timer
          /\ \A f \in Parts : closed[f] = aborted[f]
      BY <1>1 DEF ChannelInv, Core, Channel, Parts
    <3> QED
      BY <1>1, <3>1, SameParts
  <2>3. \A f \in {"status", "rd", "wr", "asyncRead", "asyncWrite", "shutdown",
                  "timeout", "timer", "queue", "msg", "sent", "written",
                  "known", "posted"} : closed[f] = aborted[f]
    BY <1>1 DEF ChannelInv, Core, Channel
  <2>4. QED
    BY <1>1, <2>1, <2>2, <2>3

LEMMA ProcessHandshakeInv ==
  ASSUME NEW ch, ChannelInv(ch), ch.status = "open", ~ch.known, ch.rd = "none",
         ch.wr = "none", ch.queue = <<>>, NEW hasKey \in BOOLEAN
  PROVE  /\ ChannelInv(ProcessHandshake(ch, hasKey))
         /\ ProcessHandshake(ch, hasKey).status \in {"open", "freed"}
         /\ ProcessHandshake(ch, hasKey).status = "open"
              => ProcessHandshake(ch, hasKey).written = ch.written
<1>1. CASE hasKey
  BY <1>1 DEF ChannelInv, Core, Flying, Settled, Channel, Outstanding,
         HandshakeReads, FrameReads, ProcessHandshake, Writing, StateOfNew
<1>2. CASE ~hasKey
  BY <1>2, CloseInv DEF ProcessHandshake, ChannelInv, HandshakeReads
<1>3. QED
  BY <1>1, <1>2

LEMMA ResponseEndedInv ==
  ASSUME NEW ch, ChannelInv(ch), ch.status = "open", ch.wr = "response"
  PROVE  /\ ChannelInv(WriteEnded(ch)) /\ WriteEnded(ch).status = "open"
         /\ WriteEnded(ch).rd = "none" /\ WriteEnded(ch).wr = "none"
         /\ WriteEnded(ch).written = ch.written
BY DEF ChannelInv, Core, Flying, Settled, Channel, Outstanding,
       HandshakeReads, FrameReads, WriteEnded

LEMMA ReadFrameInv ==
  ASSUME NEW ch, ChannelInv(ch), ch.status = "open", ch.rd = "none",
         ch.wr # "response", NEW op \in FrameReads
  PROVE  /\ ChannelInv(ReadFrame(ch, op))
         /\ ReadFrame(ch, op).status = "open"
         /\ ReadFrame(ch, op).written = ch.written
<1> DEFINE r == ReadFrame(ch, op)
<1>1. ch \in Channel
  BY DEF ChannelInv, Core
<1>2. r \in Channel /\ r.rd = op /\ r.asyncRead = TRUE
  BY <1>1 DEF Channel, Outstanding, FrameReads, ReadFrame, Reading, StartTimer, StateOfNew
<1>3. \A f \in Parts \ {"rd", "asyncRead"} : r[f] = ch[f]
  BY <1>1 DEF Channel, Parts, ReadFrame, Reading, StartTimer
<1> HIDE DEF r
<1>4. /\ r.status = ch.status /\ r.wr = ch.wr /\ r.asyncWrite = ch.asyncWrite
      /\ r.shutdown = ch.shutdown /\ r.queue = ch.queue /\ r.msg = ch.msg
      /\ r.sent = ch.sent /\ r.written = ch.written /\ r.known = ch.known
      /\ r.posted = ch.posted
  BY <1>3 DEF Parts
<1>5. Core(r)
  BY <1>2, <1>4 DEF ChannelInv, Core, HandshakeReads, FrameReads
<1>6. Flying(r) /\ Settled(r)
  BY <1>4 DEF ChannelInv, Flying, Settled
<1> QED
  BY <1>4, <1>5, <1>6 DEF ChannelInv, r

\* sendMessageQueue, with the message that follows the last one written.
LEMMA SendMessageQueueInv ==
  ASSUME NEW ch, Core(ch), ch.status = "open", ch.wr = "none",
         ch.rd \notin HandshakeReads,
         ch.sent = ch.written + 1 + Len(ch.queue),
         \A i \in 1 .. Len(ch.queue) : ch.queue[i] = ch.written + 1 + i
  PROVE  /\ ChannelInv(SendMessageQueue(ch, ch.written + 1))
         /\ SendMessageQueue(ch, ch.written + 1).status = "open"
         /\ SendMessageQueue(ch, ch.written + 1).rd = ch.rd
         /\ SendMessageQueue(ch, ch.written + 1).wr = "message"
         /\ SendMessageQueue(ch, ch.written + 1).written = ch.written
<1> DEFINE writing == SendMessageQueue(ch, ch.written + 1)
<1>1. /\ writing.status = "open" /\ writing.rd = ch.rd /\ writing.wr = "message"
      /\ writing.msg = ch.written + 1 /\ writing.asyncWrite = TRUE
      /\ writing.asyncRead = ch.asyncRead /\ writing.known = ch.known
      /\ writing.posted = ch.posted /\ writing.queue = ch.queue
      /\ writing.sent = ch.sent /\ writing.written = ch.written
  BY DEF Core, Channel, SendMessageQueue, Writing
<1>2. writing \in Channel
  <2> DEFINE marked == [ch EXCEPT !.asyncWrite = TRUE, !.msg = ch.written + 1]
  <2>0. ch \in Channel /\ ch.written + 1 \in Nat
    BY DEF Core, Channel
  <2>1. marked \in Channel
    BY <2>0 DEF Channel
  <2>2. writing = [marked EXCEPT !.wr = "message", !.wrst = StateOfNew(marked)]
    BY DEF SendMessageQueue, Writing
  <2> HIDE DEF marked
  <2>3. StateOfNew(marked) \in Outstanding
    BY DEF StateOfNew, Outstanding
  <2>4. QED
    BY <2>1, <2>2, <2>3 DEF Channel
<1> HIDE DEF writing
<1>3. QED
  BY <1>1, <1>2 DEF ChannelInv, Core, Flying, Settled, writing, FrameReads, HandshakeReads

\* A queue that holds the numbers after m, with one more and with one less.
LEMMA AppendNumbered ==
  ASSUME NEW m \in Nat, NEW q \in Seq(Nat), \A i \in 1 .. Len(q) : q[i] = m + i,
         NEW n \in Nat, n = m + Len(q) + 1
  PROVE  /\ Append(q, n) \in Seq(Nat) /\ Len(Append(q, n)) = Len(q) + 1
         /\ \A i \in 1 .. Len(Append(q, n)) : Append(q, n)[i] = m + i
<1>1. Append(q, n) \in Seq(Nat) /\ Len(Append(q, n)) = Len(q) + 1
  OBVIOUS
<1>2. ASSUME NEW i \in 1 .. Len(Append(q, n))
      PROVE  Append(q, n)[i] = m + i
  <2>1. CASE i \in 1 .. Len(q)
    BY <2>1
  <2>2. CASE i = Len(q) + 1
    BY <2>2
  <2>3. QED
    BY <1>1, <2>1, <2>2
<1>3. QED
  BY <1>1, <1>2

LEMMA TailNumbered ==
  ASSUME NEW m \in Nat, NEW q \in Seq(Nat), q # <<>>,
         \A i \in 1 .. Len(q) : q[i] = m + i
  PROVE  /\ Head(q) = m + 1 /\ Tail(q) \in Seq(Nat) /\ Len(q) = Len(Tail(q)) + 1
         /\ \A i \in 1 .. Len(Tail(q)) : Tail(q)[i] = m + 1 + i
OBVIOUS

\* A message that is accepted for sending joins the end of the queue.
LEMMA SendMessageInv ==
  ASSUME NEW ch, ChannelInv(ch), ch.status = "open", ~ch.shutdown,
         ch.rd \notin HandshakeReads, ch.wr # "response"
  PROVE  /\ ChannelInv(SendMessage(ch))
         /\ SendMessage(ch).status = "open" /\ SendMessage(ch).rd = ch.rd
         /\ SendMessage(ch).wr = "message" /\ SendMessage(ch).written = ch.written
<1> DEFINE accepted == [ch EXCEPT !.sent = @ + 1]
           queued == [accepted EXCEPT !.queue = Append(@, ch.sent + 1)]
<1>1. CASE ch.asyncWrite \/ ch.queue # <<>>
  <2>1. ch.wr = "message" /\ SendMessage(ch) = queued
    BY <1>1 DEF ChannelInv, Core, Settled, Channel, SendMessage
  <2>2. ch.queue \in Seq(Nat) /\ ch.sent \in Nat /\ ch.written \in Nat /\ ch.msg \in Nat
    BY DEF ChannelInv, Core, Channel
  <2>3. /\ ch.msg = ch.written + 1 /\ ch.sent = ch.msg + Len(ch.queue)
        /\ \A i \in 1 .. Len(ch.queue) : ch.queue[i] = ch.msg + i
    BY <2>1 DEF ChannelInv, Flying
  <2> DEFINE longer == Append(ch.queue, ch.sent + 1)
  <2>4. /\ longer \in Seq(Nat) /\ Len(longer) = Len(ch.queue) + 1
        /\ \A i \in 1 .. Len(longer) : longer[i] = ch.msg + i
    <3>1. ch.sent + 1 \in Nat /\ ch.sent + 1 = ch.msg + Len(ch.queue) + 1
      BY <2>2, <2>3
    <3>2. QED
      BY <2>2, <2>3, <3>1, AppendNumbered, Zenon
  <2>5. queued = [ch EXCEPT !.sent = @ + 1, !.queue = longer]
    BY DEF ChannelInv, Core, Channel
  <2> HIDE DEF queued, longer
  <2>6. /\ queued \in Channel /\ queued.queue = longer /\ queued.sent = ch.sent + 1
        /\ queued.status = "open" /\ queued.rd = ch.rd /\ queued.wr = "message"
        /\ queued.asyncRead = ch.asyncRead /\ queued.asyncWrite = ch.asyncWrite
        /\ queued.posted = ch.posted /\ queued.known = ch.known
        /\ queued.written = ch.written /\ queued.msg = ch.msg
    <3>1. ch \in Channel /\ ch.sent + 1 \in Nat
      BY DEF ChannelInv, Core, Channel
    <3>2. [ch EXCEPT !.sent = @ + 1, !.queue = longer] \in Channel
      BY <2>4, <3>1 DEF Channel
    <3>3. QED
      BY <2>1, <2>5, <3>1, <3>2 DEF Channel
  <2>7. Flying(queued)
    <3>1. Len(longer) = Len(ch.queue) + 1 /\ Len(ch.queue) \in Nat
      BY <2>2, <2>4
    <3>2. ch.sent + 1 = ch.msg + Len(longer)
      BY <2>2, <2>3, <3>1
    <3>3. QED
      BY <2>3, <2>4, <2>6, <3>2, Zenon DEF Flying
  <2>8. QED
    BY <2>1, <2>6, <2>7 DEF ChannelInv, Core, Settled
<1>2. CASE ~(ch.asyncWrite \/ ch.queue # <<>>)
  <2>1. /\ ch.wr = "none" /\ ch.queue = <<>> /\ ch.sent = ch.written
        /\ ch.sent \in Nat
    BY <1>2 DEF ChannelInv, Core, Settled, Channel
  <2>2. /\ Core(accepted) /\ accepted.status = "open" /\ accepted.wr = "none"
        /\ accepted.rd = ch.rd /\ accepted.queue = <<>>
        /\ accepted.written = ch.written /\ accepted.sent = ch.written + 1
    BY <2>1 DEF ChannelInv, Core, Channel
  <2>3. SendMessage(ch) = SendMessageQueue(accepted, accepted.written + 1)
    BY <1>2, <2>1, <2>2 DEF SendMessage
  <2>4. Len(accepted.queue) = 0 /\ accepted.written \in Nat
    BY <2>1, <2>2
  <2> HIDE DEF accepted
  <2>5. QED
    BY <2>2, <2>3, <2>4, SendMessageQueueInv
<1>3. QED
  BY <1>1, <1>2

\* The completion of a message, before the handler looks at the queue.
LEMMA MessageEndedInv ==
  ASSUME NEW ch, ChannelInv(ch), ch.status = "open", ch.wr = "message",
         NEW done, done \in {WriteEnded(ch), [WriteEnded(ch) EXCEPT !.written = ch.msg]}
  PROVE  /\ Core(done) /\ Flying(done) /\ done.status = "open" /\ done.wr = "none"
         /\ done.rd = ch.rd /\ done.rd \notin HandshakeReads
         /\ done.shutdown = ch.shutdown /\ done.queue = ch.queue /\ done.sent = ch.sent
         /\ done.written \in {ch.written, ch.written + 1}
<1> DEFINE ended == WriteEnded(ch)
<1>1. /\ Core(ended) /\ ended.status = "open" /\ ended.wr = "none"
      /\ ended.rd = ch.rd /\ ended.rd \notin HandshakeReads
      /\ ended.shutdown = ch.shutdown /\ ended.queue = ch.queue
      /\ ended.sent = ch.sent /\ ended.written = ch.written
  BY DEF ChannelInv, Core, Channel, WriteEnded, Outstanding, HandshakeReads, FrameReads
<1>2. ch.msg = ch.written + 1 /\ ch.msg \in Nat
  BY DEF ChannelInv, Core, Flying, Channel
<1> HIDE DEF ended
<1>3. CASE done = ended
  BY <1>1, <1>3 DEF Flying
<1>4. CASE done = [ended EXCEPT !.written = ch.msg]
  BY <1>1, <1>2, <1>4 DEF Core, Flying, Channel
<1>5. QED
  BY <1>3, <1>4 DEF ended

LEMMA DequeueInv ==
  ASSUME NEW ch, ChannelInv(ch), ch.status = "open", ch.wr = "message",
         ch.queue # <<>>
  PROVE  LET done == [WriteEnded(ch) EXCEPT !.written = ch.msg]
             next == SendMessageQueue([done EXCEPT !.queue = Tail(@)], Head(ch.queue))
         IN  /\ ChannelInv(next) /\ next.status = "open"
             /\ next.written = ch.written + 1
<1> DEFINE done == [WriteEnded(ch) EXCEPT !.written = ch.msg]
           rest == [done EXCEPT !.queue = Tail(@)]
<1>1. /\ ch.msg = ch.written + 1 /\ ch.written \in Nat /\ ch.queue \in Seq(Nat)
      /\ ch.sent = ch.msg + Len(ch.queue)
      /\ \A i \in 1 .. Len(ch.queue) : ch.queue[i] = ch.msg + i
  BY DEF ChannelInv, Core, Flying, Channel
<1>2. /\ Core(done) /\ done.status = "open" /\ done.wr = "none"
      /\ done.rd \notin HandshakeReads /\ done.queue = ch.queue /\ done.sent = ch.sent
  BY MessageEndedInv
<1>3. done.written = ch.msg
  BY DEF ChannelInv, Core, Channel, WriteEnded
<1> HIDE DEF done
<1> DEFINE shorter == Tail(ch.queue)
<1>4. /\ Head(ch.queue) = ch.msg + 1 /\ shorter \in Seq(Nat)
      /\ Len(ch.queue) = Len(shorter) + 1
      /\ \A i \in 1 .. Len(shorter) : shorter[i] = ch.msg + 1 + i
  <2>1. ch.msg \in Nat
    BY <1>1
  <2>2. QED
    BY <1>1, <2>1, TailNumbered, Zenon
<1>5. rest = [done EXCEPT !.queue = shorter]
  <2>1. done.queue = ch.queue
    BY <1>2
  <2>2. QED
    BY <2>1
<1> HIDE DEF rest, shorter
<1>6. /\ Core(rest) /\ rest.status = "open" /\ rest.wr = "none"
      /\ rest.rd \notin HandshakeReads /\ rest.queue = shorter
      /\ rest.sent = ch.sent /\ rest.written = ch.msg
  BY <1>2, <1>3, <1>4, <1>5 DEF Core, Channel
<1>7. /\ ChannelInv(SendMessageQueue(rest, rest.written + 1))
      /\ SendMessageQueue(rest, rest.written + 1).status = "open"
      /\ SendMessageQueue(rest, rest.written + 1).written = rest.written
  <2>1. /\ rest.sent = rest.written + 1 + Len(rest.queue)
        /\ \A i \in 1 .. Len(rest.queue) : rest.queue[i] = rest.written + 1 + i
    <3>1. Len(shorter) \in Nat
      BY <1>4
    <3>2. ch.sent = ch.msg + 1 + Len(shorter)
      <4>1. ch.sent = ch.msg + (Len(shorter) + 1) /\ ch.msg \in Nat
        BY <1>1, <1>4
      <4>2. QED
        BY <3>1, <4>1
    <3>3. rest.queue = shorter /\ rest.sent = ch.sent /\ rest.written = ch.msg
      BY <1>6
    <3>4. rest.sent = rest.written + 1 + Len(rest.queue)
      BY <3>2, <3>3
    <3>5. \A i \in 1 .. Len(rest.queue) : rest.queue[i] = rest.written + 1 + i
      BY <1>4, <3>3, Zenon
    <3>6. QED
      BY <3>4, <3>5
  <2>2. QED
    BY <1>6, <2>1, SendMessageQueueInv
<1>8. QED
  BY <1>1, <1>4, <1>6, <1>7 DEF done, rest

-----------------------------------------------------------------------------
(***************************************************************************)
(* The inductive invariant of the server.                                  *)
(***************************************************************************)

\* Before startup nothing happens; after it, the listener is open exactly when
\* an accept is outstanding, or its handler has thrown.
ListenerInv ==
  /\ ~started => /\ active /\ ~accepting /\ ~deaf /\ ~shutdownFlag
                 /\ completed = 0 /\ OpenChannels = {}
  /\ started => (active <=> accepting \/ deaf)
  /\ deaf => ~accepting /\ AcceptErrors

\* An open listener has a connection to spare, and only an error closes it early.
LimitInv ==
  /\ MaxConnections # 0 => /\ Cardinality(OpenChannels) <= MaxConnections
                           /\ active => Cardinality(OpenChannels) < MaxConnections
  /\ started /\ ~shutdownFlag /\ ~AcceptErrors /\ ~active
       => MaxConnections # 0 /\ Cardinality(OpenChannels) = MaxConnections

\* Once the shutdown is complete nothing is left that could complete it again.
CompletedInv ==
  \/ completed = 0
  \/ completed = 1 /\ shutdownFlag /\ ~active /\ OpenChannels = {}

ServerInv == ListenerInv /\ LimitInv /\ CompletedInv

IInv ==
  /\ Typed
  /\ \A c \in Channels : ChannelInv(chan[c])
  /\ ServerInv

\* How a handler may leave a channel it found as ch.
Evolves(ch, next) ==
  /\ ChannelInv(next)
  /\ next.status \in {"open", "freed"}
  /\ next.status = "open" => next.written \in {ch.written, ch.written + 1}

\* What SentInOrder says of one step.
WrittenInOrder ==
  \A c \in OpenChannels :
    c \in OpenChannels' =>
      chan'[c].written \in {chan[c].written, chan[c].written + 1}

LEMMA OpenFinite ==
  ASSUME NEW c \in OpenChannels
  PROVE  /\ IsFiniteSet(OpenChannels) /\ Cardinality(OpenChannels) \in Nat
         /\ Cardinality(OpenChannels \ {c}) = Cardinality(OpenChannels) - 1
<1>1. IsFiniteSet(OpenChannels)
  BY ConfigAssumption, FS_Subset DEF ConfigAssumption, OpenChannels
<1>2. QED
  BY <1>1, FS_CardinalityType, FS_RemoveElement

\* A step that changes a channel, but neither the map nor the listener.
LEMMA SameStatusStep ==
  ASSUME IInv, NEW c \in Channels, NEW ch, ChannelInv(ch),
         chan' = [chan EXCEPT ![c] = ch], ch.status = chan[c].status,
         ch.status = "open" => ch.written \in {chan[c].written, chan[c].written + 1},
         UNCHANGED server, crashed' \in BOOLEAN
  PROVE  IInv' /\ WrittenInOrder
<1>1. ch \in Channel
  BY DEF ChannelInv, Core
<1>2. Typed' /\ \A d \in Channels : ChannelInv(chan[d])'
  BY <1>1 DEF IInv, Typed, server
<1>3. OpenChannels' = OpenChannels
  BY DEF IInv, Typed, OpenChannels
<1>4. ServerInv'
  BY <1>3 DEF IInv, ServerInv, ListenerInv, LimitInv, CompletedInv, server
<1>5. WrittenInOrder
  <2>1. \A d \in OpenChannels : chan'[d].written \in {chan[d].written, chan[d].written + 1}
    BY DEF IInv, Typed, OpenChannels
  <2>2. QED
    BY <2>1 DEF WrittenInOrder
<1>6. QED
  BY <1>2, <1>4, <1>5 DEF IInv

\* A handler of an open channel, which may free it.
LEMMA BecomesStep ==
  ASSUME IInv, NEW c \in Channels, chan[c].status = "open", NEW ch,
         Evolves(chan[c], ch), Becomes(c, ch), crashed' \in BOOLEAN
  PROVE  IInv' /\ WrittenInOrder
<1>1. CASE ch.status = "open"
  BY <1>1, SameStatusStep DEF Evolves, Becomes
<1>2. CASE ch.status = "freed"
  <2>1. chan' = [chan EXCEPT ![c] = ch] /\ DelWebSocketChannel(OpenChannels \ {c})
    BY <1>2 DEF Becomes
  <2>2. ch \in Channel
    BY DEF Evolves, ChannelInv, Core
  <2>3. c \in OpenChannels /\ OpenChannels' = OpenChannels \ {c}
    BY <1>2, <2>1 DEF IInv, Typed, OpenChannels
  <2>4. /\ Cardinality(OpenChannels) \in Nat \ {0}
        /\ Cardinality(OpenChannels') = Cardinality(OpenChannels) - 1
        /\ Cardinality(OpenChannels \ {c}) = Cardinality(OpenChannels) - 1
    <3>1. OpenChannels # {}
      BY <2>3
    <3>2. QED
      BY <2>3, <3>1, OpenFinite, FS_EmptySet
  <2>5. \A d \in Channels : ChannelInv(chan[d])'
    BY <2>1 DEF IInv, Typed, Evolves
  <2>6. /\ chan' \in [Channels -> Channel] /\ completed = 0 /\ started
    BY <2>1, <2>2, <2>3 DEF IInv, Typed, ServerInv, CompletedInv, ListenerInv
  <2>7. /\ started' = started /\ shutdownFlag' = shutdownFlag /\ deaf' = deaf
        /\ \/ /\ shutdownFlag /\ active' = active /\ accepting' = accepting
              /\ completed' = IF ~active /\ OpenChannels' = {} THEN completed + 1
                                                               ELSE completed
           \/ /\ ~shutdownFlag /\ MaxConnections # 0 /\ ~active
              /\ active' = TRUE /\ accepting' = TRUE /\ completed' = completed
           \/ /\ ~shutdownFlag /\ active' = active /\ accepting' = accepting
              /\ MaxConnections # 0
                   => Cardinality(OpenChannels') >= MaxConnections \/ active
              /\ completed' = completed
    <3> DEFINE open == OpenChannels \ {c}
    <3>1. OpenChannels' = open
      BY <2>3
    <3> HIDE DEF open
    <3>2. DelWebSocketChannel(open)
      BY <2>1 DEF open
    <3>3. QED
      BY <3>1, <3>2, Zenon DEF DelWebSocketChannel, HandleShutdown
  <2>8. Typed'
    <3>1. completed' = completed \/ completed' = completed + 1
      BY <2>7, Zenon
    <3>2. completed' \in Nat
      BY <2>6, <3>1
    <3>3. /\ active' \in BOOLEAN /\ accepting' \in BOOLEAN /\ deaf' \in BOOLEAN
          /\ started' \in BOOLEAN /\ shutdownFlag' \in BOOLEAN
      BY <2>7, Zenon DEF IInv, Typed
    <3>4. QED
      BY <2>6, <3>2, <3>3 DEF Typed
  <2>9. ListenerInv'
    BY <2>6, <2>7 DEF IInv, ServerInv, ListenerInv
  <2>10. LimitInv'
    BY <2>3, <2>4, <2>6, <2>7, ConfigAssumption
       DEF IInv, Typed, ServerInv, LimitInv, ConfigAssumption
  <2>11. CompletedInv'
    BY <2>6, <2>7 DEF CompletedInv
  <2>12. WrittenInOrder
    BY <2>1, <2>3 DEF IInv, Typed, OpenChannels, WrittenInOrder
  <2>13. QED
    BY <2>5, <2>8, <2>9, <2>10, <2>11, <2>12 DEF IInv, ServerInv
<1>3. QED
  BY <1>1, <1>2 DEF Evolves

-----------------------------------------------------------------------------
(* What the handlers of one channel do to it.                              *)

LEMMA ReadRefusedEvolves ==
  ASSUME NEW ch, ChannelInv(ch), ch.status = "open", ch.rd # "none",
         NEW done \in {ReadEnded(ch), StopTimer(ReadEnded(ch))}
  PROVE  Evolves(ch, CloseWebSocketChannel(done))
<1>1. /\ ChannelInv(done) /\ done.status = "open" /\ done.rd = "none"
      /\ done.wr # "response" /\ done.written = ch.written
  BY ReadEndedInv
<1>2. done.rd \notin HandshakeReads /\ ch.written \in Nat
  BY <1>1 DEF HandshakeReads, ChannelInv, Core, Channel
<1>3. QED
  BY <1>1, <1>2, CloseInv DEF ChannelInv, Evolves

LEMMA HandshakeReadEvolves ==
  ASSUME NEW c \in Channels, ChannelInv(chan[c]), chan[c].status = "open",
         \/ PerformHandshakeComplete(c)
         \/ \E request \in Requests : HandleReceiveHandshakeHeader(c, request)
         \/ \E hasKey \in BOOLEAN : HandleReceiveHandshakeContent(c, hasKey)
  PROVE  /\ \E next : Evolves(chan[c], next) /\ Becomes(c, next)
         /\ crashed' \in BOOLEAN
<1> DEFINE done == AfterRead(c)
<1>1. chan[c].rd \in HandshakeReads
  BY DEF PerformHandshakeComplete, HandleReceiveHandshakeHeader,
         HandleReceiveHandshakeContent, ReadPending, HandshakeReads
<1>2. /\ ChannelInv(done) /\ done.status = "open" /\ done.rd = "none"
      /\ done.wr = "none" /\ ~done.known /\ done.queue = <<>>
      /\ done.written = chan[c].written /\ done.written \in Nat
  BY <1>1, ReadEndedInv DEF AfterRead, HandshakeReads, ChannelInv, Core, Channel
<1>3. /\ Evolves(chan[c], CloseWebSocketChannel(ReadEnded(chan[c])))
      /\ Evolves(chan[c], CloseWebSocketChannel(done))
  BY <1>1, ReadRefusedEvolves DEF AfterRead, HandshakeReads
<1>4. Evolves(chan[c], ReceiveHandshake(done))
  BY <1>2, ReceiveHandshakeInv DEF Evolves, ReceiveHandshake, Reading, StartTimer,
     ChannelInv, Core, Channel
<1>5. \A hasKey \in BOOLEAN : Evolves(chan[c], ProcessHandshake(done, hasKey))
  BY <1>2, ProcessHandshakeInv DEF Evolves
<1>6. Evolves(chan[c], Reading(StartTimer(done), "hsContent"))
  <2> HIDE DEF done
  <2> DEFINE r == Reading(StartTimer(done), "hsContent")
  <2>1. done \in Channel
    BY <1>2 DEF ChannelInv, Core
  <2>2. /\ r \in Channel /\ r.rd = "hsContent"
        /\ r.status = "open" /\ r.written = done.written /\ r.wr = "none"
    BY <1>2, <2>1 DEF Channel, Outstanding, HandshakeReads, Reading, StartTimer, StateOfNew
  <2>3. /\ r.known = done.known /\ r.queue = done.queue /\ r.posted = done.posted
        /\ r.asyncRead = done.asyncRead /\ r.asyncWrite = done.asyncWrite
        /\ r.sent = done.sent /\ r.shutdown = done.shutdown
    BY <2>1 DEF Channel, Reading, StartTimer
  <2> HIDE DEF r
  <2>4. Core(r)
    BY <1>2, <2>2, <2>3 DEF ChannelInv, Core, HandshakeReads, FrameReads
  <2>5. Flying(r) /\ Settled(r)
    BY <1>2, <2>2, <2>3 DEF ChannelInv, Flying, Settled
  <2> QED
    BY <1>2, <2>2, <2>4, <2>5 DEF Evolves, ChannelInv, r
<1>7. Evolves(chan[c], done)
  BY <1>2 DEF Evolves
<1> HIDE DEF done
<1>8. CASE PerformHandshakeComplete(c)
  BY <1>3, <1>4, <1>8 DEF PerformHandshakeComplete, ReadRefused, Defined, done
<1>9. CASE \E request \in Requests : HandleReceiveHandshakeHeader(c, request)
  BY <1>3, <1>5, <1>6, <1>7, <1>9
     DEF HandleReceiveHandshakeHeader, ReadRefused, Defined, Undefined, done
<1>10. CASE \E hasKey \in BOOLEAN : HandleReceiveHandshakeContent(c, hasKey)
  BY <1>3, <1>5, <1>10 DEF HandleReceiveHandshakeContent, ReadRefused, Defined, done
<1>11. QED
  BY <1>8, <1>9, <1>10

LEMMA FrameReadEvolves ==
  ASSUME NEW c \in Channels, ChannelInv(chan[c]), chan[c].status = "open",
         \/ HandleReceiveMessageHeader(c)
         \/ HandleReceiveMessageLength(c)
         \/ HandleReceiveMessageContent(c)
  PROVE  /\ \E next : Evolves(chan[c], next) /\ Becomes(c, next)
         /\ crashed' \in BOOLEAN
<1> DEFINE done == AfterRead(c)
           heard == [done EXCEPT !.known = TRUE]
<1>1. chan[c].rd \in FrameReads
  BY DEF HandleReceiveMessageHeader, HandleReceiveMessageLength,
         HandleReceiveMessageContent, ReadPending, FrameReads
<1>2. /\ ChannelInv(done) /\ done.status = "open" /\ done.rd = "none"
      /\ done.wr # "response" /\ done.shutdown = chan[c].shutdown
      /\ done.written = chan[c].written /\ done.written \in Nat
  BY <1>1, ReadEndedInv DEF AfterRead, FrameReads, ChannelInv, Core, Channel
<1>3. /\ Evolves(chan[c], CloseWebSocketChannel(ReadEnded(chan[c])))
      /\ Evolves(chan[c], CloseWebSocketChannel(done))
  BY <1>1, ReadRefusedEvolves DEF AfterRead, FrameReads
<1>4. \A op \in FrameReads : Evolves(chan[c], ReadFrame(done, op))
  BY <1>2, ReadFrameInv DEF Evolves
<1>5. ChannelInv(heard) /\ heard.status = "open" /\ heard.rd = "none"
      /\ heard.wr # "response" /\ heard.written = done.written
  BY <1>2 DEF ChannelInv, Core, Flying, Settled, Channel, HandshakeReads
<1>6. ~chan[c].shutdown => Evolves(chan[c], ReceiveMessage(SendMessage(done)))
  <2>1. HAVE ~chan[c].shutdown
  <2>2. /\ ChannelInv(SendMessage(done)) /\ SendMessage(done).status = "open"
        /\ SendMessage(done).rd = "none" /\ SendMessage(done).wr = "message"
        /\ SendMessage(done).written = done.written
    BY <1>2, <2>1, SendMessageInv DEF HandshakeReads
  <2>3. QED
    BY <1>2, <2>2, ReadFrameInv DEF Evolves, ReceiveMessage, FrameReads
<1>7. Evolves(chan[c], ReceiveMessage(heard))
  BY <1>2, <1>5, ReadFrameInv DEF Evolves, ReceiveMessage, FrameReads
<1>8. Evolves(chan[c], ReceiveMessage(CloseSocket(StopTimer(heard))))
  <2> DEFINE stopped == StopTimer(heard)
  <2> HIDE DEF heard
  <2>1. /\ ChannelInv(stopped) /\ stopped.status = "open" /\ stopped.rd = "none"
        /\ stopped.wr # "response" /\ stopped.written = heard.written
    <3>1. stopped \in Channel /\ stopped.timer = FALSE /\ \A f \in Parts : stopped[f] = heard[f]
      BY <1>5 DEF ChannelInv, Core, Channel, Parts, StopTimer
    <3> HIDE DEF stopped
    <3>2. ChannelInv(stopped)
      BY <1>5, <3>1, SameParts
    <3> QED
      BY <1>5, <3>1, <3>2 DEF Parts
  <2> HIDE DEF stopped
  <2>2. /\ ChannelInv(CloseSocket(stopped)) /\ CloseSocket(stopped).status = "open"
        /\ CloseSocket(stopped).rd = "none" /\ CloseSocket(stopped).wr # "response"
        /\ CloseSocket(stopped).written = heard.written
    BY <2>1, CloseSocketInv
  <2>3. QED
    BY <1>2, <1>5, <2>2, ReadFrameInv DEF Evolves, ReceiveMessage, FrameReads, stopped
<1> HIDE DEF done, heard
<1>9. CASE HandleReceiveMessageHeader(c)
  BY <1>3, <1>4, <1>9
     DEF HandleReceiveMessageHeader, ReadRefused, Defined, done, FrameReads
<1>10. CASE HandleReceiveMessageLength(c)
  BY <1>3, <1>4, <1>10
     DEF HandleReceiveMessageLength, ReadRefused, Defined, done, FrameReads
<1>11. CASE HandleReceiveMessageContent(c)
  BY <1>3, <1>6, <1>7, <1>8, <1>11
     DEF HandleReceiveMessageContent, ReadRefused, ReadAccepted, Defined, done, heard
<1>12. QED
  BY <1>9, <1>10, <1>11

LEMMA WriteEvolves ==
  ASSUME NEW c \in Channels, ChannelInv(chan[c]), chan[c].status = "open",
         HandleWriteComplete(c) \/ HandleWriteMessageComplete(c)
  PROVE  /\ \E next : Evolves(chan[c], next) /\ Becomes(c, next)
         /\ crashed' \in BOOLEAN
<1> DEFINE ended == WriteEnded(chan[c])
           done == [ended EXCEPT !.written = chan[c].msg]
<1>1. CASE HandleWriteComplete(c)
  <2>1. chan[c].wr = "response" /\ chan[c].written \in Nat
    BY <1>1 DEF HandleWriteComplete, ChannelInv, Core, Channel
  <2>2. /\ ChannelInv(ended) /\ ended.status = "open" /\ ended.rd = "none"
        /\ ended.wr = "none" /\ ended.written = chan[c].written
    BY <2>1, ResponseEndedInv
  <2> HIDE DEF ended
  <2>3. Evolves(chan[c], CloseWebSocketChannel(ended))
    BY <2>1, <2>2, CloseInv DEF Evolves, ChannelInv, HandshakeReads
  <2>4. Evolves(chan[c], ReceiveMessage(ended))
    BY <2>1, <2>2, ReadFrameInv DEF Evolves, ReceiveMessage, FrameReads
  <2>5. QED
    BY <1>1, <2>3, <2>4 DEF HandleWriteComplete, Defined, ended
<1>2. CASE HandleWriteMessageComplete(c)
  <2>1. chan[c].wr = "message" /\ chan[c].written \in Nat
    BY <1>2 DEF HandleWriteMessageComplete, ChannelInv, Core, Channel
  <2>2. \A x \in {ended, done} :
          /\ Core(x) /\ Flying(x) /\ x.status = "open" /\ x.wr = "none"
          /\ x.rd \notin HandshakeReads
          /\ x.shutdown = chan[c].shutdown /\ x.queue = chan[c].queue
          /\ x.sent = chan[c].sent /\ x.written \in {chan[c].written, chan[c].written + 1}
    BY <2>1, MessageEndedInv
  <2>3. Evolves(chan[c], CloseWebSocketChannel(ended))
    BY <2>1, <2>2, CloseInv DEF Evolves
  <2>4. Evolves(chan[c], CloseWebSocketChannel(done))
    BY <2>1, <2>2, CloseInv DEF Evolves
  <2>5. chan[c].queue = <<>> => Evolves(chan[c], done)
    <3>1. HAVE chan[c].queue = <<>>
    <3>2. chan[c].sent = chan[c].msg /\ done.written = chan[c].msg
      BY <2>1, <3>1 DEF ChannelInv, Core, Flying, Channel, WriteEnded
    <3>3. Settled(done)
      BY <2>2, <3>1, <3>2 DEF Settled
    <3>4. QED
      BY <2>2, <3>3 DEF Evolves, ChannelInv
  <2>6. chan[c].queue # <<>> =>
          Evolves(chan[c], SendMessageQueue([done EXCEPT !.queue = Tail(@)],
                                            Head(chan[c].queue)))
    BY <2>1, DequeueInv DEF Evolves
  <2>7. ended.queue = chan[c].queue
    BY <2>2
  <2> HIDE DEF ended, done
  <2>8. QED
    BY <1>2, <2>3, <2>4, <2>5, <2>6, <2>7
       DEF HandleWriteMessageComplete, Defined, ended, done
<1>3. QED
  BY <1>1, <1>2

-----------------------------------------------------------------------------
(* The actions.                                                            *)

LEMMA TimeoutStep ==
  ASSUME IInv, NEW c \in Channels, TimeoutWebSocketChannel(c)
  PROVE  IInv' /\ WrittenInOrder
<1> DEFINE fired == [chan[c] EXCEPT !.timer = FALSE, !.timeout = TRUE]
           next == Cancel(fired)
<1>1. /\ ChannelInv(chan[c]) /\ chan[c] \in Channel
      /\ chan' = [chan EXCEPT ![c] = next] /\ UNCHANGED server /\ crashed' \in BOOLEAN
  BY DEF IInv, Typed, TimeoutWebSocketChannel, Defined
<1>2. /\ ChannelInv(fired) /\ fired.status = chan[c].status
      /\ fired.written = chan[c].written /\ fired.written \in Nat
  BY <1>1 DEF ChannelInv, Core, Flying, Settled, Channel
<1> HIDE DEF fired
<1>3. /\ ChannelInv(next) /\ next.status = fired.status /\ next.written = fired.written
  BY <1>2, CancelInv DEF ChannelInv
<1> HIDE DEF next
<1>4. QED
  BY <1>1, <1>2, <1>3, SameStatusStep

LEMMA PostedInv ==
  ASSUME NEW ch, ChannelInv(ch), NEW n \in Nat,
         ch.status = "open" /\ n > 0 => ch.known
  PROVE  LET next == [ch EXCEPT !.posted = n]
         IN  /\ ChannelInv(next)
             /\ \A f \in {"status", "rd", "wr", "shutdown", "written"} : next[f] = ch[f]
             /\ next.written \in Nat
<1>1. ch \in Channel
  BY DEF ChannelInv, Core
<1> DEFINE next == [ch EXCEPT !.posted = n]
<1>2. next \in Channel
  BY <1>1 DEF Channel
<1>3. /\ next.posted = n
      /\ \A f \in {"status", "rd", "wr", "asyncRead", "asyncWrite", "shutdown",
                   "timer", "queue", "msg", "sent", "written", "known"} :
           next[f] = ch[f]
  BY <1>1 DEF Channel
<1>4. Core(next)
  BY <1>2, <1>3 DEF ChannelInv, Core
<1>5. Flying(next) /\ Settled(next)
  BY <1>3 DEF ChannelInv, Flying, Settled
<1>6. QED
  BY <1>2, <1>3, <1>4, <1>5 DEF ChannelInv, Channel

LEMMA PostSendStep ==
  ASSUME IInv, NEW c \in Channels, PostSend(c)
  PROVE  IInv' /\ WrittenInOrder
<1> DEFINE next == [chan[c] EXCEPT !.posted = @ + 1]
<1>1. /\ ChannelInv(chan[c]) /\ chan[c] \in Channel /\ chan[c].known
      /\ chan' = [chan EXCEPT ![c] = next] /\ UNCHANGED server /\ crashed' \in BOOLEAN
  BY DEF IInv, Typed, PostSend, Defined
<1>2. /\ ChannelInv(next) /\ next.status = chan[c].status
      /\ next.written = chan[c].written /\ next.written \in Nat
  <2>1. chan[c].posted + 1 \in Nat
    BY <1>1 DEF Channel
  <2>2. QED
    BY <1>1, <2>1, PostedInv
<1> HIDE DEF next
<1>3. QED
  BY <1>1, <1>2, SameStatusStep

LEMMA SendMessageStrandStep ==
  ASSUME IInv, NEW c \in Channels, SendMessageStrand(c)
  PROVE  IInv' /\ WrittenInOrder
<1> DEFINE taken == [chan[c] EXCEPT !.posted = @ - 1]
<1>1. ChannelInv(chan[c]) /\ chan[c] \in Channel /\ chan[c].posted > 0
  BY DEF IInv, Typed, SendMessageStrand
<1>2. /\ ChannelInv(taken) /\ taken.status = chan[c].status
      /\ taken.shutdown = chan[c].shutdown
      /\ taken.written = chan[c].written /\ taken.written \in Nat
  <2>1. /\ chan[c].posted - 1 \in Nat
        /\ chan[c].status = "open" => chan[c].known
    BY <1>1 DEF ChannelInv, Core, Channel
  <2>2. QED
    BY <1>1, <2>1, PostedInv
<1>3. taken.status = "open" => taken.rd \notin HandshakeReads /\ taken.wr # "response"
  BY <1>1 DEF ChannelInv, Core, Channel
<1>4. crashed' \in BOOLEAN
  BY DEF SendMessageStrand, Defined, Undefined
<1> HIDE DEF taken
<1>5. CASE taken.status = "open" /\ taken.shutdown /\ Becomes(c, taken)
  <2>1. Evolves(chan[c], taken)
    BY <1>2, <1>5 DEF Evolves
  <2>2. QED
    BY <1>2, <1>4, <1>5, <2>1, BecomesStep
<1>6. CASE taken.status = "open" /\ ~taken.shutdown /\ Becomes(c, SendMessage(taken))
  <2>1. Evolves(chan[c], SendMessage(taken))
    BY <1>2, <1>3, <1>6, SendMessageInv DEF Evolves
  <2>2. QED
    BY <1>2, <1>4, <1>6, <2>1, BecomesStep
<1>7. CASE chan' = [chan EXCEPT ![c] = taken] /\ UNCHANGED server
  BY <1>2, <1>4, <1>7, SameStatusStep
<1>8. QED
  BY <1>5, <1>6, <1>7 DEF SendMessageStrand, taken

LEMMA StartupStep ==
  ASSUME IInv, Startup
  PROVE  IInv' /\ WrittenInOrder
<1>1. /\ ~started /\ started' = TRUE /\ accepting' = TRUE
      /\ chan' = chan /\ active' = active /\ shutdownFlag' = shutdownFlag
      /\ deaf' = deaf /\ completed' = completed /\ crashed' = FALSE
  BY DEF Startup, Defined
<1>2. /\ Typed /\ active /\ ~accepting /\ ~shutdownFlag /\ completed = 0
      /\ OpenChannels' = OpenChannels
  BY <1>1 DEF IInv, ServerInv, ListenerInv, OpenChannels
<1>3. Typed' /\ \A c \in Channels : ChannelInv(chan[c])'
  BY <1>1, <1>2 DEF IInv, Typed
<1>4. ServerInv'
  BY <1>1, <1>2 DEF IInv, ServerInv, ListenerInv, LimitInv, CompletedInv
<1>5. WrittenInOrder
  <2>1. \A c \in Channels : chan[c].written \in Nat
    BY <1>2 DEF Typed, Channel
  <2>2. QED
    BY <1>1, <2>1 DEF WrittenInOrder, OpenChannels
<1>6. QED
  BY <1>3, <1>4, <1>5 DEF IInv

LEMMA HandleAcceptErrorStep ==
  ASSUME IInv, HandleAcceptError
  PROVE  IInv' /\ WrittenInOrder
<1>1. /\ accepting /\ (shutdownFlag \/ AcceptErrors)
      /\ active' = FALSE /\ accepting' = FALSE /\ chan' = chan
      /\ started' = started /\ shutdownFlag' = shutdownFlag /\ crashed' = FALSE
      /\ deaf' = deaf
      /\ completed' = IF shutdownFlag /\ OpenChannels = {} THEN completed + 1
                                                            ELSE completed
  BY DEF HandleAcceptError, HandleShutdown, Defined
<1>2. /\ Typed /\ started /\ active /\ completed = 0
      /\ OpenChannels' = OpenChannels
  BY <1>1 DEF IInv, ServerInv, ListenerInv, CompletedInv, OpenChannels
<1>3. Typed' /\ \A c \in Channels : ChannelInv(chan[c])'
  <2>1. completed' \in Nat
    BY <1>1, <1>2
  <2>2. /\ started' \in BOOLEAN /\ active' \in BOOLEAN /\ accepting' \in BOOLEAN
        /\ deaf' \in BOOLEAN /\ shutdownFlag' \in BOOLEAN /\ crashed' \in BOOLEAN
    BY <1>1, <1>2, Zenon DEF Typed
  <2>3. QED
    BY <1>1, <1>2, <2>1, <2>2 DEF IInv, Typed
<1>4. ServerInv'
  BY <1>1, <1>2 DEF IInv, ServerInv, ListenerInv, LimitInv, CompletedInv
<1>5. WrittenInOrder
  <2>1. \A c \in Channels : chan[c].written \in Nat
    BY <1>2 DEF Typed, Channel
  <2>2. QED
    BY <1>1, <2>1 DEF WrittenInOrder, OpenChannels
<1>6. QED
  BY <1>3, <1>4, <1>5 DEF IInv

LEMMA HandleAcceptStep ==
  ASSUME IInv, NEW c \in Channels, HandleAccept(c)
  PROVE  IInv' /\ WrittenInOrder
<1> DEFINE opened == PerformHandshake([NewChannel EXCEPT !.status = "open"])
           count == Cardinality(OpenChannels)
<1>1. /\ accepting /\ ~shutdownFlag /\ chan[c].status = "none"
      /\ chan' = [chan EXCEPT ![c] = opened]
      /\ active' = (active /\ ~AddReachesLimit(count + 1)) /\ accepting' = active'
      /\ started' = started /\ shutdownFlag' = shutdownFlag /\ deaf' = deaf
      /\ completed' = completed /\ crashed' = FALSE
  BY DEF HandleAccept, Defined
<1>2. ChannelInv(opened) /\ opened.status = "open" /\ opened \in Channel
  BY OpenedInv DEF ChannelInv, Core
<1> HIDE DEF opened
<1>3. Typed /\ started /\ active /\ ~deaf /\ completed = 0
  BY <1>1 DEF IInv, ServerInv, ListenerInv, CompletedInv
<1>4. c \notin OpenChannels /\ OpenChannels' = OpenChannels \cup {c}
  BY <1>1, <1>2, <1>3 DEF Typed, OpenChannels
<1>5. count \in Nat /\ Cardinality(OpenChannels') = count + 1
  <2>1. IsFiniteSet(OpenChannels)
    BY ConfigAssumption, FS_Subset DEF ConfigAssumption, OpenChannels
  <2>2. QED
    BY <1>4, <2>1, FS_CardinalityType, FS_AddElement
<1>6. Typed'
  BY <1>1, <1>2, <1>3 DEF Typed
<1>7. \A d \in Channels : ChannelInv(chan[d])'
  BY <1>1, <1>2, <1>3 DEF IInv, Typed
<1>8. active' <=> ~(MaxConnections # 0 /\ count + 1 >= MaxConnections)
  BY <1>1, <1>3 DEF AddReachesLimit
<1> HIDE DEF count
<1>9. ListenerInv' /\ CompletedInv'
  BY <1>1, <1>3 DEF ListenerInv, CompletedInv
<1>10. MaxConnections # 0 => count < MaxConnections
  BY <1>3 DEF IInv, ServerInv, LimitInv, count
<1>11. LimitInv'
  BY <1>5, <1>8, <1>10, ConfigAssumption DEF LimitInv, ConfigAssumption
<1>12. WrittenInOrder
  <2>1. \A d \in OpenChannels : d # c /\ chan'[d] = chan[d] /\ chan[d].written \in Nat
    BY <1>1, <1>3, <1>4 DEF Typed, OpenChannels, Channel
  <2>2. QED
    BY <2>1 DEF WrittenInOrder
<1>13. QED
  BY <1>6, <1>7, <1>9, <1>11, <1>12 DEF IInv, ServerInv

LEMMA HandleAcceptThrowsStep ==
  ASSUME IInv, HandleAcceptThrows
  PROVE  IInv' /\ WrittenInOrder
<1>1. /\ accepting /\ ~shutdownFlag /\ AcceptErrors
      /\ accepting' = FALSE /\ deaf' = TRUE /\ chan' = chan /\ started' = started
      /\ active' = active /\ shutdownFlag' = shutdownFlag
      /\ completed' = completed /\ crashed' \in BOOLEAN
  BY DEF HandleAcceptThrows, Undefined
<1>2. Typed /\ started /\ active /\ OpenChannels' = OpenChannels
  BY <1>1 DEF IInv, ServerInv, ListenerInv, OpenChannels
<1>3. Typed' /\ \A c \in Channels : ChannelInv(chan[c])'
  BY <1>1, <1>2 DEF IInv, Typed
<1>4. ServerInv'
  BY <1>1, <1>2 DEF IInv, ServerInv, ListenerInv, LimitInv, CompletedInv
<1>5. WrittenInOrder
  <2>1. \A c \in Channels : chan[c].written \in Nat
    BY <1>2 DEF Typed, Channel
  <2>2. QED
    BY <1>1, <2>1 DEF WrittenInOrder, OpenChannels
<1>6. QED
  BY <1>3, <1>4, <1>5 DEF IInv

LEMMA ShutdownStep ==
  ASSUME IInv, Shutdown
  PROVE  IInv' /\ WrittenInOrder
<1>1. /\ started /\ ~shutdownFlag /\ shutdownFlag' = TRUE
      /\ chan' = [c \in Channels |->
                    IF c \in OpenChannels THEN CloseSocket(chan[c]) ELSE chan[c]]
      /\ completed' = IF ~active /\ OpenChannels = {} THEN completed + 1
                                                       ELSE completed
      /\ started' = started /\ active' = active /\ accepting' = accepting
      /\ deaf' = deaf /\ crashed' = FALSE
  BY DEF Shutdown, HandleShutdown, Defined
<1>2. Typed /\ completed = 0
  BY <1>1 DEF IInv, ServerInv, CompletedInv
<1>3. \A c \in Channels :
        /\ ChannelInv(chan'[c]) /\ chan'[c] \in Channel
        /\ chan'[c].status = chan[c].status /\ chan'[c].written = chan[c].written
        /\ chan[c].written \in Nat
  <2>1. TAKE c \in Channels
  <2>2. ChannelInv(chan[c]) /\ chan[c].written \in Nat
    BY DEF IInv, Typed, Channel
  <2>3. /\ ChannelInv(CloseSocket(chan[c]))
        /\ CloseSocket(chan[c]).status = chan[c].status
        /\ CloseSocket(chan[c]).written = chan[c].written
    BY <2>2, CloseSocketInv
  <2>4. chan'[c] = CloseSocket(chan[c]) \/ chan'[c] = chan[c]
    BY <1>1
  <2>5. QED
    BY <2>2, <2>3, <2>4 DEF ChannelInv, Core
<1>4. OpenChannels' = OpenChannels
  BY <1>3 DEF OpenChannels
<1>5. Typed'
  <2>1. chan' \in [Channels -> Channel]
    BY <1>1, <1>3
  <2>2. completed' \in Nat
    BY <1>1, <1>2
  <2>3. /\ started' \in BOOLEAN /\ active' \in BOOLEAN /\ accepting' \in BOOLEAN
        /\ deaf' \in BOOLEAN /\ shutdownFlag' \in BOOLEAN /\ crashed' \in BOOLEAN
    BY <1>1, <1>2, Zenon DEF Typed
  <2>4. QED
    BY <2>1, <2>2, <2>3 DEF Typed
<1>6. ServerInv'
  BY <1>1, <1>2, <1>4 DEF IInv, ServerInv, ListenerInv, LimitInv, CompletedInv
<1>7. WrittenInOrder
  BY <1>3 DEF WrittenInOrder, OpenChannels
<1>8. QED
  BY <1>3, <1>5, <1>6, <1>7 DEF IInv

-----------------------------------------------------------------------------
(* The invariant is inductive, and what follows from it.                   *)

LEMMA InitInv ==
  Init => IInv
<1> SUFFICES ASSUME Init PROVE IInv
  OBVIOUS
<1>1. ChannelInv(NewChannel) /\ NewChannel \in Channel /\ NewChannel.status = "none"
  BY NewChannelInv DEF ChannelInv, Core
<1>2. Typed /\ (\A c \in Channels : ChannelInv(chan[c])) /\ OpenChannels = {}
  BY <1>1 DEF Init, Typed, OpenChannels
<1>3. Cardinality(OpenChannels) = 0
  BY <1>2, FS_EmptySet
<1>4. ServerInv
  BY <1>2, <1>3, ConfigAssumption
     DEF Init, ServerInv, ListenerInv, LimitInv, CompletedInv, ConfigAssumption
<1>5. QED
  BY <1>2, <1>4 DEF IInv

LEMMA NextInv ==
  ASSUME IInv, Next
  PROVE  IInv' /\ WrittenInOrder
<1>1. CASE Startup
  BY <1>1, StartupStep
<1>2. CASE HandleAcceptError \/ HandleAcceptThrows
  BY <1>2, HandleAcceptErrorStep, HandleAcceptThrowsStep
<1>3. CASE Shutdown
  BY <1>3, ShutdownStep
<1>4. CASE \E c \in Channels : ChannelStep(c)
  <2>1. PICK c \in Channels : ChannelStep(c)
    BY <1>4
  <2>2. ChannelInv(chan[c])
    BY DEF IInv
  <2>3. CASE HandleAccept(c)
    BY <2>3, HandleAcceptStep
  <2>4. CASE \/ PerformHandshakeComplete(c)
             \/ \E request \in Requests : HandleReceiveHandshakeHeader(c, request)
             \/ \E hasKey \in BOOLEAN : HandleReceiveHandshakeContent(c, hasKey)
    <3>1. chan[c].status = "open"
      BY <2>4 DEF PerformHandshakeComplete, HandleReceiveHandshakeHeader,
                  HandleReceiveHandshakeContent, ReadPending
    <3>2. QED
      BY <2>2, <2>4, <3>1, HandshakeReadEvolves, BecomesStep
  <2>5. CASE \/ HandleReceiveMessageHeader(c)
             \/ HandleReceiveMessageLength(c)
             \/ HandleReceiveMessageContent(c)
    <3>1. chan[c].status = "open"
      BY <2>5 DEF HandleReceiveMessageHeader, HandleReceiveMessageLength,
                  HandleReceiveMessageContent, ReadPending
    <3>2. QED
      BY <2>2, <2>5, <3>1, FrameReadEvolves, BecomesStep
  <2>6. CASE HandleWriteComplete(c) \/ HandleWriteMessageComplete(c)
    <3>1. chan[c].status = "open"
      BY <2>6 DEF HandleWriteComplete, HandleWriteMessageComplete
    <3>2. QED
      BY <2>2, <2>6, <3>1, WriteEvolves, BecomesStep
  <2>7. CASE TimeoutWebSocketChannel(c)
    BY <2>7, TimeoutStep
  <2>8. CASE PostSend(c)
    BY <2>8, PostSendStep
  <2>9. CASE SendMessageStrand(c)
    BY <2>9, SendMessageStrandStep
  <2>10. QED
    BY <2>1, <2>3, <2>4, <2>5, <2>6, <2>7, <2>8, <2>9 DEF ChannelStep, ReadCompletes
<1>5. QED
  BY <1>1, <1>2, <1>3, <1>4 DEF Next

LEMMA StutterInv ==
  ASSUME IInv, UNCHANGED vars
  PROVE  IInv'
<1>1. Typed' /\ \A c \in Channels : ChannelInv(chan[c])'
  BY DEF IInv, Typed, vars
<1>2. OpenChannels' = OpenChannels
  BY DEF OpenChannels, vars
<1>3. ServerInv'
  BY <1>2 DEF IInv, ServerInv, ListenerInv, LimitInv, CompletedInv, vars
<1>4. QED
  BY <1>1, <1>3 DEF IInv

\* The flags, timers and outstanding operations of every channel agree with each
\* other and with the listener and the shutdown, in every reachable state.
THEOREM Invariance ==
  Spec => []IInv
<1>1. Init => IInv
  BY InitInv
<1>2. IInv /\ [Next]_vars => IInv'
  BY NextInv, StutterInv
<1>3. QED
  BY <1>1, <1>2, PTL DEF Spec

\* The variables keep their types: in particular no channel is ever handed a
\* negative count of pending send calls, and no null message is ever written.
THEOREM TypeCorrect ==
  Spec => []TypeOK
<1>1. IInv => TypeOK
  BY DEF IInv, TypeOK, Typed, ChannelInv, Core, Flying, Channel
<1>2. QED
  BY <1>1, Invariance, PTL

\* asyncRead_ and asyncWrite_, from which closeWebSocketChannel decides whether it
\* may delete the channel, agree with the operations that are outstanding.
THEOREM FlagsCorrect ==
  Spec => []FlagsTellOutstanding
<1>1. IInv => FlagsTellOutstanding
  BY DEF IInv, ChannelInv, Core, FlagsTellOutstanding, OpenChannels
<1>2. QED
  BY <1>1, Invariance, PTL

\* No completion handler and no timer ever runs on a deleted channel.
THEOREM NoUseAfterDelete ==
  Spec => []FreedIsQuiet
<1>1. IInv => FreedIsQuiet
  BY DEF IInv, ChannelInv, Core, FreedIsQuiet, OpenChannels
<1>2. QED
  BY <1>1, Invariance, PTL

\* A queued message of a channel that is not closing always has a write in
\* flight before it, whose completion sends it.
THEOREM QueueIsServed ==
  Spec => []NoMessageStranded
<1>1. IInv => NoMessageStranded
  BY DEF IInv, ChannelInv, Settled, NoMessageStranded
<1>2. QED
  BY <1>1, Invariance, PTL

\* The number of channels never exceeds MaxConnections.
THEOREM LimitRespected ==
  Spec => []ConnectionLimit
<1>1. IInv => ConnectionLimit
  BY DEF IInv, ServerInv, LimitInv, ConnectionLimit
<1>2. QED
  BY <1>1, Invariance, PTL

\* A running server that has a connection to spare listens, however channels
\* come and go.
THEOREM NeverDeaf ==
  Spec => []ListensUnlessFull
<1>1. IInv => ListensUnlessFull
  BY DEF IInv, ServerInv, ListenerInv, LimitInv, ListensUnlessFull
<1>2. QED
  BY <1>1, Invariance, PTL

\* The shutdown callback runs at most once, after the last channel and the last
\* accept.
THEOREM ShutdownOnce ==
  Spec => []ShutdownCompletesOnce
<1>1. IInv => ShutdownCompletesOnce
  BY DEF IInv, ServerInv, ListenerInv, CompletedInv, ShutdownCompletesOnce
<1>2. QED
  BY <1>1, Invariance, PTL

\* The messages of a channel are written one after the other in the order in
\* which they were accepted.
THEOREM Order ==
  Spec => SentInOrder
<1>1. IInv /\ [Next]_vars => [WrittenInOrder]_vars
  BY NextInv
<1>2. QED
  BY <1>1, Invariance, PTL DEF Spec, SentInOrder, WrittenInOrder

-----------------------------------------------------------------------------
(* The WebSocket server implements Listener, for every set of channels and *)
(* every connection limit.  The mapping is that of ServesAsListener: only  *)
(* a step that opens or frees a channel, or that moves the listener or the *)
(* shutdown, is a step of Listener.                                        *)

\* What a step of the server is for the listener.
ListenerStep == L!Next \/ UNCHANGED L!vars

FreedChannels == {c \in Channels : chan[c].status = "freed"}

\* Listener counts as its implementation does.
LEMMA SameCardinality ==
  \A S : L!Cardinality(S) = Cardinality(S)
BY DEF L!Cardinality, Cardinality

\* A step that leaves the status of every channel, and the server, alone.
LEMMA SameStatusStutters ==
  ASSUME \A d \in Channels : chan'[d].status = chan[d].status, UNCHANGED server
  PROVE  ListenerStep
BY DEF ListenerStep, L!vars, OpenChannels, server

\* The last step of a channel.
LEMMA FreeingLeaves ==
  ASSUME IInv, NEW c \in Channels, chan[c].status = "open",
         NEW ch, ch.status = "freed", Becomes(c, ch)
  PROVE  L!Leave(c)
<1>1. chan' = [chan EXCEPT ![c] = ch] /\ DelWebSocketChannel(OpenChannels \ {c})
  BY DEF Becomes
<1>2. /\ c \in OpenChannels /\ OpenChannels' = OpenChannels \ {c}
      /\ FreedChannels' = FreedChannels \cup {c}
  BY <1>1 DEF IInv, Typed, OpenChannels, FreedChannels
<1>3. Cardinality(OpenChannels \ {c}) = Cardinality(OpenChannels) - 1
      /\ Cardinality(OpenChannels) \in Nat
  BY <1>2, OpenFinite
<1>4. completed = 0 /\ started /\ (active <=> accepting \/ deaf)
      /\ (MaxConnections # 0 => Cardinality(OpenChannels) <= MaxConnections)
      /\ active \in BOOLEAN /\ accepting \in BOOLEAN /\ deaf \in BOOLEAN
  BY <1>2 DEF IInv, Typed, ServerInv, CompletedInv, ListenerInv, LimitInv
<1> DEFINE open == OpenChannels \ {c}
<1>5. MaxConnections # 0 => ~(Cardinality(open) >= MaxConnections)
  BY <1>3, <1>4, ConfigAssumption DEF ConfigAssumption
<1> HIDE DEF open
<1>6. DelWebSocketChannel(open)
  BY <1>1 DEF open
<1>7. /\ shutdownFlag' = shutdownFlag /\ deaf' = deaf
      /\ \/ /\ shutdownFlag /\ accepting' = accepting
            /\ completed' = IF ~active /\ open = {} THEN completed + 1 ELSE completed
         \/ /\ ~shutdownFlag /\ MaxConnections # 0
            /\ accepting' = TRUE /\ completed' = completed
         \/ /\ ~shutdownFlag
            /\ MaxConnections # 0 => active
            /\ accepting' = accepting /\ completed' = completed
  BY <1>5, <1>6, Zenon DEF DelWebSocketChannel, HandleShutdown
<1>8. (accepting' \/ deaf') = ((accepting \/ deaf) \/ (~shutdownFlag /\ MaxConnections # 0))
  BY <1>4, <1>7, Zenon
<1>9. IF shutdownFlag
      THEN completed' = IF open = {} /\ ~(accepting' \/ deaf') THEN 1 ELSE 0
      ELSE completed' = completed
  BY <1>4, <1>7
<1>10. QED
  BY <1>2, <1>7, <1>8, <1>9 DEF L!Leave, L!Finish, FreedChannels, open

\* Any handler of an open channel.
LEMMA HandlerMaps ==
  ASSUME IInv, NEW c \in Channels, chan[c].status = "open", NEW ch,
         Evolves(chan[c], ch), Becomes(c, ch)
  PROVE  ListenerStep
<1>1. CASE ch.status = "open"
  BY <1>1, SameStatusStutters DEF Becomes, IInv, Typed
<1>2. CASE ch.status = "freed"
  BY <1>2, FreeingLeaves DEF ListenerStep, L!Next
<1>3. QED
  BY <1>1, <1>2 DEF Evolves

LEMMA StartupMaps ==
  ASSUME IInv, Startup
  PROVE  L!Listen
<1>1. /\ ~started /\ accepting' = TRUE /\ chan' = chan /\ deaf' = deaf
      /\ shutdownFlag' = shutdownFlag /\ completed' = completed
  BY DEF Startup
<1>2. ~accepting /\ ~deaf /\ ~shutdownFlag /\ OpenChannels = {}
  BY <1>1 DEF IInv, ServerInv, ListenerInv
<1>3. Cardinality(OpenChannels) = 0
  BY <1>2, FS_EmptySet
<1>4. ~L!Full(OpenChannels)
  BY <1>3, ConfigAssumption, SameCardinality DEF L!Full, ConfigAssumption
<1>5. QED
  BY <1>1, <1>2, <1>4 DEF L!Listen, OpenChannels

LEMMA AcceptErrorMaps ==
  ASSUME IInv, HandleAcceptError
  PROVE  L!StopListening
<1>1. /\ accepting /\ accepting' = FALSE /\ chan' = chan /\ deaf' = deaf
      /\ shutdownFlag' = shutdownFlag
      /\ completed' = IF shutdownFlag /\ OpenChannels = {} THEN completed + 1
                                                            ELSE completed
  BY DEF HandleAcceptError, HandleShutdown
<1>2. completed = 0 /\ ~deaf
  BY <1>1 DEF IInv, ServerInv, ListenerInv, CompletedInv
<1>3. OpenChannels' = OpenChannels /\ FreedChannels' = FreedChannels
  BY <1>1 DEF OpenChannels, FreedChannels
<1>4. QED
  BY <1>1, <1>2, <1>3 DEF L!StopListening, L!Finish, FreedChannels

\* An accept whose handler throws goes unnoticed.
LEMMA AcceptThrowsMaps ==
  ASSUME IInv, HandleAcceptThrows
  PROVE  UNCHANGED L!vars
<1>1. /\ accepting /\ accepting' = FALSE /\ deaf' = TRUE /\ chan' = chan
      /\ shutdownFlag' = shutdownFlag /\ completed' = completed
  BY DEF HandleAcceptThrows
<1>2. (accepting \/ deaf)' = (accepting \/ deaf)
  BY <1>1
<1>3. OpenChannels' = OpenChannels /\ FreedChannels' = FreedChannels
  BY <1>1 DEF OpenChannels, FreedChannels
<1>4. QED
  BY <1>1, <1>2, <1>3 DEF L!vars, FreedChannels

LEMMA ShutdownMaps ==
  ASSUME IInv, Shutdown
  PROVE  L!Drain
<1>1. /\ started /\ ~shutdownFlag /\ shutdownFlag' = TRUE
      /\ chan' = [c \in Channels |->
                    IF c \in OpenChannels THEN CloseSocket(chan[c]) ELSE chan[c]]
      /\ completed' = IF ~active /\ OpenChannels = {} THEN completed + 1
                                                       ELSE completed
      /\ accepting' = accepting /\ deaf' = deaf
  BY DEF Shutdown, HandleShutdown
<1>2. completed = 0 /\ (active <=> accepting \/ deaf)
  BY <1>1 DEF IInv, ServerInv, ListenerInv, CompletedInv
<1>3. \A c \in Channels : chan'[c].status = chan[c].status
  <2>1. \A c \in Channels : CloseSocket(chan[c]).status = chan[c].status
    BY CloseSocketInv DEF IInv
  <2>2. QED
    BY <1>1, <2>1
<1>4. OpenChannels' = OpenChannels /\ FreedChannels' = FreedChannels
  BY <1>3 DEF OpenChannels, FreedChannels
<1>5. QED
  BY <1>1, <1>2, <1>4 DEF L!Drain, L!Finish, FreedChannels

LEMMA AcceptMaps ==
  ASSUME IInv, NEW c \in Channels, HandleAccept(c)
  PROVE  L!Connect(c)
<1> DEFINE opened == PerformHandshake([NewChannel EXCEPT !.status = "open"])
           count == Cardinality(OpenChannels)
<1>1. /\ accepting /\ ~shutdownFlag /\ chan[c].status = "none"
      /\ chan' = [chan EXCEPT ![c] = opened]
      /\ accepting' = (active /\ ~AddReachesLimit(count + 1)) /\ deaf' = deaf
      /\ shutdownFlag' = shutdownFlag /\ completed' = completed
  BY DEF HandleAccept
<1>2. opened.status = "open"
  BY OpenedInv
<1> HIDE DEF opened
<1>3. chan \in [Channels -> Channel] /\ active /\ ~deaf
  BY <1>1 DEF IInv, Typed, ServerInv, ListenerInv
<1>4. /\ c \notin OpenChannels \cup FreedChannels
      /\ OpenChannels' = OpenChannels \cup {c} /\ FreedChannels' = FreedChannels
  BY <1>1, <1>2, <1>3 DEF OpenChannels, FreedChannels
<1>5. Cardinality(OpenChannels') = count + 1
  <2>1. IsFiniteSet(OpenChannels)
    BY ConfigAssumption, FS_Subset DEF ConfigAssumption, OpenChannels
  <2>2. QED
    BY <1>4, <2>1, FS_AddElement
<1>6. (accepting' \/ deaf') = ~L!Full(OpenChannels')
  BY <1>1, <1>3, <1>5, SameCardinality DEF AddReachesLimit, L!Full
<1>7. QED
  BY <1>1, <1>4, <1>6 DEF L!Connect, FreedChannels

LEMMA NextMaps ==
  ASSUME IInv, Next
  PROVE  ListenerStep
<1>1. CASE Startup \/ HandleAcceptError \/ HandleAcceptThrows \/ Shutdown
  BY <1>1, StartupMaps, AcceptErrorMaps, AcceptThrowsMaps, ShutdownMaps
     DEF ListenerStep, L!Next
<1>2. CASE \E c \in Channels : ChannelStep(c)
  <2>1. PICK c \in Channels : ChannelStep(c)
    BY <1>2
  <2>2. ChannelInv(chan[c]) /\ chan \in [Channels -> Channel]
    BY DEF IInv, Typed
  <2>3. CASE HandleAccept(c)
    BY <2>3, AcceptMaps DEF ListenerStep, L!Next
  <2>4. CASE \/ PerformHandshakeComplete(c)
             \/ \E request \in Requests : HandleReceiveHandshakeHeader(c, request)
             \/ \E hasKey \in BOOLEAN : HandleReceiveHandshakeContent(c, hasKey)
    <3>1. chan[c].status = "open"
      BY <2>4 DEF PerformHandshakeComplete, HandleReceiveHandshakeHeader,
                  HandleReceiveHandshakeContent, ReadPending
    <3>2. QED
      BY <2>2, <2>4, <3>1, HandshakeReadEvolves, HandlerMaps
  <2>5. CASE \/ HandleReceiveMessageHeader(c)
             \/ HandleReceiveMessageLength(c)
             \/ HandleReceiveMessageContent(c)
    <3>1. chan[c].status = "open"
      BY <2>5 DEF HandleReceiveMessageHeader, HandleReceiveMessageLength,
                  HandleReceiveMessageContent, ReadPending
    <3>2. QED
      BY <2>2, <2>5, <3>1, FrameReadEvolves, HandlerMaps
  <2>6. CASE HandleWriteComplete(c) \/ HandleWriteMessageComplete(c)
    <3>1. chan[c].status = "open"
      BY <2>6 DEF HandleWriteComplete, HandleWriteMessageComplete
    <3>2. QED
      BY <2>2, <2>6, <3>1, WriteEvolves, HandlerMaps
  <2>7. CASE TimeoutWebSocketChannel(c) \/ PostSend(c)
    <3> DEFINE fired == [chan[c] EXCEPT !.timer = FALSE, !.timeout = TRUE]
               posted == [chan[c] EXCEPT !.posted = @ + 1]
    <3>1. /\ Cancel(fired).status = chan[c].status
          /\ posted.status = chan[c].status
      BY <2>2 DEF Cancel, Channel
    <3>2. UNCHANGED server /\ \A d \in Channels : chan'[d].status = chan[d].status
      BY <2>2, <2>7, <3>1 DEF TimeoutWebSocketChannel, PostSend
    <3>3. QED
      BY <3>2, SameStatusStutters
  <2>8. CASE SendMessageStrand(c)
    <3> DEFINE ch == [chan[c] EXCEPT !.posted = @ - 1]
    <3>1. /\ ch.status = chan[c].status
          /\ SendMessage(ch).status = chan[c].status
      BY <2>2 DEF Channel, SendMessage, SendMessageQueue, Writing
    <3>2. UNCHANGED server /\ \A d \in Channels : chan'[d].status = chan[d].status
      BY <2>2, <2>8, <3>1 DEF SendMessageStrand, Becomes
    <3>3. QED
      BY <3>2, SameStatusStutters
  <2>9. QED
    BY <2>1, <2>3, <2>4, <2>5, <2>6, <2>7, <2>8 DEF ChannelStep, ReadCompletes
<1>3. QED
  BY <1>1, <1>2 DEF Next

\* The WebSocket server implements Listener: however its channels live and die,
\* it serves, listens and shuts down as Listener says.
THEOREM ImplementsListener ==
  Spec => ServesAsListener
<1>1. Init => L!Init
  BY NewChannelInv DEF Init, L!Init, OpenChannels
<1>2. IInv /\ [Next]_vars => [L!Next]_L!vars
  <2>1. UNCHANGED vars => UNCHANGED L!vars
    BY DEF vars, L!vars, OpenChannels
  <2>2. QED
    BY <2>1, NextMaps DEF ListenerStep
<1>3. QED
  BY <1>1, <1>2, Invariance, PTL DEF Spec, ServesAsListener, L!Spec
=============================================================================
