--------------------------------- MODULE Fifo ---------------------------------
(***************************************************************************)
(* What a channel's send queue promises: messages leave in the order in    *)
(* which they came, each one once, unless the queue is cleared.            *)
(***************************************************************************)
EXTENDS Sequences

CONSTANTS Messages, None

VARIABLES
  items,  \* the messages that wait
  taken   \* the message that the last dequeue delivered, None after a failure

Init == items = <<>> /\ taken = None

Enqueue(m) ==
  /\ items' = Append(items, m)
  /\ taken' = None

Dequeue ==
  \/ items # <<>> /\ taken' = Head(items) /\ items' = Tail(items)
  \/ items = <<>> /\ taken' = None /\ UNCHANGED items

Clear ==
  /\ items' = <<>>
  /\ taken' = None

Next == Dequeue \/ Clear \/ \E m \in Messages : Enqueue(m)

Spec == Init /\ [][Next]_<<items, taken>>
=============================================================================
