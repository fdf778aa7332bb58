------------------------------ MODULE SendQueue ------------------------------
(***************************************************************************)
(* The send queue of a WebSocket channel: a singly linked list that owns   *)
(* its elements, with a pointer to either end (SendQueue.cpp).  It is used *)
(* on the strand of the server only, so every operation is one step.       *)
(***************************************************************************)
EXTENDS Integers, FiniteSets, Sequences

CONSTANTS
  Addresses,  \* where an element can be allocated; bounds the length
  Messages,   \* what an element carries: message, callback and header byte
  nullptr

ASSUME HeapAssumption ==
  /\ IsFiniteSet(Addresses)
  /\ nullptr \notin Addresses \cup Messages

VARIABLES
  heap,   \* the elements that are allocated, by address
  front, rear,
  size,   \* size_
  taken   \* what the last call of dequeue delivered, nullptr if nothing

vars == <<heap, front, rear, size, taken>>

Pointer == Addresses \cup {nullptr}

\* A new element, not yet linked.
SendQueueElement(m) == [message |-> m, next |-> nullptr]

Init ==
  /\ heap = <<>> /\ front = nullptr /\ rear = nullptr
  /\ size = 0 /\ taken = nullptr

Without(h, a) == [b \in DOMAIN h \ {a} |-> h[b]]

\* Fault: the new element is linked in at the wrong end.
EnqueueInFront(m) ==
  \E new \in Addresses \ DOMAIN heap :
    /\ size' = size + 1
    /\ heap' = [a \in DOMAIN heap \cup {new} |->
                  IF a = new THEN [message |-> m, next |-> front] ELSE heap[a]]
    /\ front' = new
    /\ rear' = (IF rear = nullptr THEN new ELSE rear) /\ taken' = nullptr

Enqueue(m) ==
  \E new \in Addresses \ DOMAIN heap :
    LET queueEntry == SendQueueElement(m)
    IN  /\ size' = size + 1
        /\ heap' = [a \in DOMAIN heap \cup {new} |->
                      CASE a = new -> queueEntry
                        [] a = rear -> [heap[a] EXCEPT !.next = new]
                        [] OTHER -> heap[a]]
        /\ front' = IF rear = nullptr THEN new ELSE front
        /\ rear' = new
        /\ taken' = nullptr

\* Fault: an emptied queue keeps its rear pointer.
DequeueKeepsRear ==
  /\ front # nullptr
  /\ front' = heap[front].next /\ taken' = heap[front].message
  /\ heap' = Without(heap, front) /\ size' = size - 1 /\ UNCHANGED rear

Dequeue ==
  \/ front = nullptr /\ taken' = nullptr /\ UNCHANGED <<heap, front, rear, size>>
  \/ /\ front # nullptr
     /\ front' = heap[front].next
     /\ taken' = heap[front].message
     /\ heap' = Without(heap, front)
     /\ rear' = IF front' = nullptr THEN nullptr ELSE rear
     /\ size' = size - 1

\* What the loop of clear has left after n passes, while rear is not null.
ClearLoop ==
  LET pass[n \in Nat] ==
        IF n = 0 THEN [heap |-> heap, front |-> front, rear |-> rear]
        ELSE LET q == pass[n - 1]
             IN  IF q.rear = nullptr THEN q
                 ELSE [heap |-> Without(q.heap, q.front),
                       front |-> q.heap[q.front].next,
                       rear |-> IF q.heap[q.front].next = nullptr
                                THEN nullptr ELSE q.rear]
  IN  pass

\* Fault: only the two ends are reset, nothing is deleted.
ClearForgets ==
  /\ front' = nullptr /\ rear' = nullptr /\ size' = 0 /\ taken' = nullptr
  /\ UNCHANGED heap

\* One pass deletes one element, so the loop ends after as many as there are.
Clear ==
  LET done == ClearLoop[Cardinality(DOMAIN heap)]
  IN  /\ heap' = done.heap /\ front' = done.front /\ rear' = done.rear
      /\ size' = 0 /\ taken' = nullptr

Next == Dequeue \/ Clear \/ \E m \in Messages : Enqueue(m)

Spec == Init /\ [][Next]_vars

-----------------------------------------------------------------------------

\* Where the next pointers lead, n steps after front.
Follow ==
  LET at[n \in Nat] ==
        IF n = 0 THEN front
        ELSE IF at[n - 1] \in DOMAIN heap THEN heap[at[n - 1]].next ELSE nullptr
  IN  at

\* The messages from front to the end of the list.
Contents ==
  LET length == Cardinality({n \in 0 .. Cardinality(DOMAIN heap) - 1 :
                               Follow[n] \in DOMAIN heap})
  IN  [i \in 1 .. length |-> heap[Follow[i - 1]].message]

\* empty() looks at rear, dequeue at front: the two agree, and the element that
\* rear points to is the last one.  A channel whose queue says it is empty while
\* it is not writes its next message past the ones that wait.
EndsAgree ==
  /\ front = nullptr <=> rear = nullptr
  /\ rear # nullptr => rear \in DOMAIN heap /\ heap[rear].next = nullptr

\* Whatever is allocated can still be reached: neither dequeue nor clear leaks,
\* and size_ tells how many there are.
NothingLeaks ==
  /\ \A a \in DOMAIN heap : \E n \in 0 .. Cardinality(DOMAIN heap) - 1 : Follow[n] = a
  /\ size = Len(Contents) /\ size = Cardinality(DOMAIN heap)

Abstract == INSTANCE Fifo WITH items <- Contents, None <- nullptr

\* The list behaves like a first-in first-out queue.
IsFifo == Abstract!Spec
=============================================================================
