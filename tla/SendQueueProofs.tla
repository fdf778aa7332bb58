--------------------------- MODULE SendQueueProofs ---------------------------
(***************************************************************************)
(* The send queue for any number of elements: its two ends agree, nothing  *)
(* is leaked, and it implements the abstract queue Fifo.                   *)
(*                                                                         *)
(* The list is read, and cleared, by a recursion over its length.  The     *)
(* provers have no rule of induction that takes a formula, but the library *)
(* has one that takes a set, that of the least element (WFMin); from it    *)
(* follows induction for a set of numbers (CountingUp), which is enough.   *)
(***************************************************************************)
EXTENDS SendQueue, FiniteSetTheorems, TLAPS

-----------------------------------------------------------------------------
(* Natural numbers.                                                        *)

\* A set of natural numbers has a least one.
LEMMA Least ==
  ASSUME NEW T, T \subseteq Nat, T # {}
  PROVE  \E x \in T : \A y \in T : x <= y
<1> DEFINE R == OpToRel(<, Nat)
<1>1. IsWellFoundedOn(R, Nat)
  BY NatLessThanWellFounded
<1>2. \A x, y \in Nat : y < x => <<y, x>> \in R
  BY DEF OpToRel
<1> HIDE DEF R
<1>3. PICK x \in T : \A y \in T : <<y, x>> \notin R
  BY <1>1, WFMin
<1>4. \A y \in T : ~(y < x)
  BY <1>2, <1>3
<1> QED
  BY <1>4

\* A set that has 0, and n + 1 with every n, has all natural numbers.
LEMMA CountingUp ==
  ASSUME NEW S, 0 \in S, \A n \in Nat : n \in S => n + 1 \in S
  PROVE  Nat \subseteq S
<1> SUFFICES ASSUME Nat \ S # {} PROVE FALSE
  OBVIOUS
<1>1. PICK x \in Nat \ S : \A y \in Nat \ S : x <= y
  BY Least
<1>2. x # 0 /\ x - 1 \in Nat
  BY <1>1
<1>3. x - 1 \in S
  BY <1>1, <1>2
<1> QED
  BY <1>1, <1>2, <1>3

-----------------------------------------------------------------------------
(* The inductive invariant: there is a path through the whole heap.        *)

Element == [message : Messages, next : Pointer]

TypeOK ==
  /\ DOMAIN heap \subseteq Addresses
  /\ \A a \in DOMAIN heap : heap[a] \in Element
  /\ front \in Pointer /\ rear \in Pointer
  /\ size \in Nat
  /\ taken \in Messages \cup {nullptr}

\* The k elements of h are linked in the order of p.
Chain(h, k, p) ==
  /\ p \in [1 .. k -> Addresses]
  /\ \A i, j \in 1 .. k : p[i] = p[j] => i = j
  /\ DOMAIN h = {p[i] : i \in 1 .. k}
  /\ \A i \in 1 .. k : h[p[i]].next = (IF i = k THEN nullptr ELSE p[i + 1])

FirstOf(k, p) == IF k = 0 THEN nullptr ELSE p[1]
LastOf(k, p) == IF k = 0 THEN nullptr ELSE p[k]

Linked(k, p) ==
  /\ Chain(heap, k, p)
  /\ front = FirstOf(k, p) /\ rear = LastOf(k, p)
  /\ size = k

IInv ==
  /\ TypeOK
  /\ \E k \in Nat : \E p \in [1 .. k -> Addresses] : Linked(k, p)

\* What a reader finds who goes along the path.
Listed(h, k, p) == [i \in 1 .. k |-> h[p[i]].message]

\* A path of k elements goes through k of them.
LEMMA ChainCount ==
  ASSUME NEW h, NEW k \in Nat, NEW p, Chain(h, k, p)
  PROVE  Cardinality(DOMAIN h) = k
<1>1. p \in Bijection(1 .. k, DOMAIN h)
  BY DEF Chain, Bijection, Injection, Surjection, IsInjective
<1> QED
  BY <1>1, FS_CountingElements DEF ExistsBijection

-----------------------------------------------------------------------------
(* Reading the list.                                                       *)

\* The definitions of SendQueue, for any heap and any first element.
FollowIn(h, f) ==
  CHOOSE at : at = [n \in Nat |->
                      IF n = 0 THEN f
                      ELSE IF at[n - 1] \in DOMAIN h THEN h[at[n - 1]].next ELSE nullptr]

Read(h, f) ==
  LET length == Cardinality({n \in 0 .. Cardinality(DOMAIN h) - 1 :
                               FollowIn(h, f)[n] \in DOMAIN h})
  IN  [i \in 1 .. length |-> h[FollowIn(h, f)[i - 1]].message]

Along(k, p) == [n \in Nat |-> IF n < k THEN p[n + 1] ELSE nullptr]

\* The path solves the equation that defines the steps from front.
LEMMA PathSolves ==
  ASSUME NEW h, NEW k \in Nat, NEW p, Chain(h, k, p)
  PROVE  Along(k, p) = [n \in Nat |->
           IF n = 0 THEN FirstOf(k, p)
           ELSE IF Along(k, p)[n - 1] \in DOMAIN h THEN h[Along(k, p)[n - 1]].next
                ELSE nullptr]
<1> SUFFICES ASSUME NEW n \in Nat
             PROVE  Along(k, p)[n] =
                      IF n = 0 THEN FirstOf(k, p)
                      ELSE IF Along(k, p)[n - 1] \in DOMAIN h
                           THEN h[Along(k, p)[n - 1]].next ELSE nullptr
  BY DEF Along
<1>1. CASE n = 0
  BY <1>1 DEF Along, FirstOf
<1>2. ASSUME n # 0, n - 1 < k
      PROVE  Along(k, p)[n] = h[Along(k, p)[n - 1]].next /\ Along(k, p)[n - 1] \in DOMAIN h
  <2>1. n - 1 \in Nat /\ n \in 1 .. k /\ Along(k, p)[n - 1] = p[n]
    BY <1>2 DEF Along
  <2>2. Along(k, p)[n] = IF n = k THEN nullptr ELSE p[n + 1]
    BY <1>2 DEF Along
  <2> QED
    BY <2>1, <2>2 DEF Chain
<1>3. ASSUME n # 0, ~(n - 1 < k)
      PROVE  Along(k, p)[n] = nullptr /\ Along(k, p)[n - 1] \notin DOMAIN h
  <2>1. n - 1 \in Nat /\ Along(k, p)[n] = nullptr /\ Along(k, p)[n - 1] = nullptr
    BY <1>3 DEF Along
  <2>2. nullptr \notin DOMAIN h
    BY HeapAssumption DEF Chain
  <2> QED
    BY <2>1, <2>2
<1> QED
  BY <1>1, <1>2, <1>3

\* So the steps from front are the path, and then nullptr.
LEMMA FollowPath ==
  ASSUME NEW h, NEW k \in Nat, NEW p, Chain(h, k, p)
  PROVE  \A n \in Nat : FollowIn(h, FirstOf(k, p))[n] = Along(k, p)[n]
<1> DEFINE f == FirstOf(k, p)
           at == FollowIn(h, f)
           S == {n \in Nat : at[n] = Along(k, p)[n]}
<1>1. at = [n \in Nat |->
              IF n = 0 THEN f
              ELSE IF at[n - 1] \in DOMAIN h THEN h[at[n - 1]].next ELSE nullptr]
  BY PathSolves DEF FollowIn
<1>2. \A n \in Nat : Along(k, p)[n] =
        IF n = 0 THEN f
        ELSE IF Along(k, p)[n - 1] \in DOMAIN h THEN h[Along(k, p)[n - 1]].next ELSE nullptr
  BY PathSolves
<1> HIDE DEF at, f
<1>3. 0 \in S
  BY <1>1, <1>2
<1>4. ASSUME NEW n \in Nat, n \in S
      PROVE  n + 1 \in S
  <2>1. n + 1 \in Nat /\ n + 1 # 0 /\ (n + 1) - 1 = n
    OBVIOUS
  <2>2. at[n + 1] = IF at[n] \in DOMAIN h THEN h[at[n]].next ELSE nullptr
    BY <1>1, <2>1
  <2>3. Along(k, p)[n + 1] =
          IF Along(k, p)[n] \in DOMAIN h THEN h[Along(k, p)[n]].next ELSE nullptr
    BY <1>2, <2>1
  <2> QED
    BY <1>4, <2>1, <2>2, <2>3
<1>5. Nat \subseteq S
  <2> HIDE DEF S
  <2> QED
    BY <1>3, <1>4, CountingUp
<1> QED
  BY <1>5 DEF at, f

\* Reading the list finds the messages of the path.
LEMMA ReadPath ==
  ASSUME NEW h, NEW k \in Nat, NEW p, Chain(h, k, p)
  PROVE  Read(h, FirstOf(k, p)) = Listed(h, k, p)
<1> DEFINE at == FollowIn(h, FirstOf(k, p))
           Steps == {n \in 0 .. Cardinality(DOMAIN h) - 1 : at[n] \in DOMAIN h}
<1>1. Cardinality(DOMAIN h) = k
  BY ChainCount
<1>2. \A n \in 0 .. k - 1 : n \in Nat /\ at[n] = p[n + 1] /\ at[n] \in DOMAIN h
  <2> SUFFICES ASSUME NEW n \in 0 .. k - 1
               PROVE  n \in Nat /\ at[n] = p[n + 1] /\ at[n] \in DOMAIN h
    OBVIOUS
  <2>1. n \in Nat /\ n + 1 \in 1 .. k /\ at[n] = Along(k, p)[n]
    BY FollowPath
  <2> HIDE DEF at
  <2> QED
    BY <2>1 DEF Along, Chain
<1>3. Steps = 0 .. k - 1
  BY <1>1, <1>2
<1>4. Cardinality(Steps) = k
  <2>1. Cardinality(0 .. k - 1) = k
    BY FS_Interval
  <2> QED
    BY <1>3, <2>1
<1>5. Read(h, FirstOf(k, p)) = [i \in 1 .. k |-> h[at[i - 1]].message]
  BY <1>4 DEF Read
<1>6. \A i \in 1 .. k : at[i - 1] = p[i]
  <2> SUFFICES ASSUME NEW i \in 1 .. k PROVE at[i - 1] = p[i]
    OBVIOUS
  <2>1. i - 1 \in 0 .. k - 1 /\ (i - 1) + 1 = i
    OBVIOUS
  <2> HIDE DEF at
  <2> QED
    BY <1>2, <2>1
<1> QED
  BY <1>5, <1>6 DEF Listed
-----------------------------------------------------------------------------
(* The operations: what each does to the path.                             *)

LEMMA EnqueueLinks ==
  ASSUME TypeOK, NEW k \in Nat, NEW p \in [1 .. k -> Addresses], Linked(k, p),
         NEW m \in Messages, Enqueue(m)
  PROVE  /\ TypeOK' /\ taken' = nullptr
         /\ \E q \in [1 .. k + 1 -> Addresses] :
              /\ Linked(k + 1, q)'
              /\ Listed(heap', k + 1, q) = Append(Listed(heap, k, p), m)
<1>1. PICK new \in Addresses \ DOMAIN heap :
        /\ size' = size + 1
        /\ heap' = [a \in DOMAIN heap \cup {new} |->
                      CASE a = new -> SendQueueElement(m)
                        [] a = rear -> [heap[a] EXCEPT !.next = new]
                        [] OTHER -> heap[a]]
        /\ front' = IF rear = nullptr THEN new ELSE front
        /\ rear' = new
        /\ taken' = nullptr
  BY DEF Enqueue
<1> DEFINE q == [i \in 1 .. k + 1 |-> IF i = k + 1 THEN new ELSE p[i]]
<1>2. q \in [1 .. k + 1 -> Addresses]
  OBVIOUS
<1>3. /\ DOMAIN heap = {p[i] : i \in 1 .. k} /\ new # nullptr /\ nullptr \notin DOMAIN heap
      /\ \A i \in 1 .. k : p[i] \in DOMAIN heap /\ p[i] # new
  BY HeapAssumption DEF Linked, Chain
<1>4. /\ DOMAIN heap' = DOMAIN heap \cup {new}
      /\ heap'[new] = [message |-> m, next |-> nullptr]
      /\ \A a \in DOMAIN heap : /\ a = rear => heap'[a] = [heap[a] EXCEPT !.next = new]
                                /\ a # rear => heap'[a] = heap[a]
  <2>1. DOMAIN heap' = DOMAIN heap \cup {new}
    BY <1>1
  <2>2. heap'[new] = [message |-> m, next |-> nullptr]
    <3>1. new # rear
      BY <1>3 DEF Linked, LastOf
    <3> QED
      BY <1>1, <3>1 DEF SendQueueElement
  <2>3. ASSUME NEW a \in DOMAIN heap
        PROVE  heap'[a] = IF a = rear THEN [heap[a] EXCEPT !.next = new] ELSE heap[a]
    BY <1>1
  <2> QED
    BY <2>1, <2>2, <2>3
<1>5. /\ heap'[new] \in Element
      /\ \A a \in DOMAIN heap : /\ heap'[a] \in Element
                                /\ heap'[a].message = heap[a].message
                                /\ a = rear => heap'[a].next = new
                                /\ a # rear => heap'[a].next = heap[a].next
  BY <1>4 DEF TypeOK, Element, Pointer
<1>6. TypeOK'
  BY <1>1, <1>4, <1>5 DEF TypeOK, Pointer
<1>7. Chain(heap', k + 1, q)
  <2>1. \A i, j \in 1 .. k + 1 : q[i] = q[j] => i = j
    BY <1>3 DEF Linked, Chain
  <2>2. DOMAIN heap' = {q[i] : i \in 1 .. k + 1}
    <3>1. \A i \in 1 .. k + 1 : q[i] \in DOMAIN heap'
      BY <1>3, <1>4
    <3>2. ASSUME NEW a \in DOMAIN heap' PROVE \E i \in 1 .. k + 1 : q[i] = a
      <4>1. CASE a = new
        <5>1. k + 1 \in 1 .. k + 1 /\ q[k + 1] = new
          OBVIOUS
        <5> QED
          BY <4>1, <5>1
      <4>2. CASE a # new
        <5>1. PICK i \in 1 .. k : p[i] = a
          BY <1>3, <1>4, <4>2
        <5> QED
          BY <5>1
      <4> QED
        BY <4>1, <4>2
    <3> QED
      BY <3>1, <3>2
  <2>3. ASSUME NEW i \in 1 .. k + 1
        PROVE  heap'[q[i]].next = IF i = k + 1 THEN nullptr ELSE q[i + 1]
    <3>1. CASE i = k + 1
      BY <1>4, <3>1
    <3>2. CASE i # k + 1
      <4>1. i \in 1 .. k /\ q[i] = p[i] /\ q[i + 1] = (IF i = k THEN new ELSE p[i + 1])
        BY <3>2
      <4>2. p[i] = rear <=> i = k
        BY <1>3, <4>1 DEF Linked, LastOf, Chain
      <4>3. heap[p[i]].next = IF i = k THEN nullptr ELSE p[i + 1]
        BY <4>1 DEF Linked, Chain
      <4> QED
        BY <1>3, <1>5, <3>2, <4>1, <4>2, <4>3
    <3> QED
      BY <3>1, <3>2
  <2> QED
    BY <1>2, <2>1, <2>2, <2>3 DEF Chain
<1>8. Linked(k + 1, q)'
  <2>1. front' = FirstOf(k + 1, q) /\ rear' = LastOf(k + 1, q)
    <3>1. CASE k = 0
      BY <1>1, <3>1 DEF Linked, FirstOf, LastOf
    <3>2. CASE k # 0
      <4>1. rear # nullptr /\ front = p[1] /\ q[1] = p[1]
        BY <1>3, <3>2 DEF Linked, FirstOf, LastOf
      <4> QED
        BY <1>1, <3>2, <4>1 DEF FirstOf, LastOf
    <3> QED
      BY <3>1, <3>2
  <2> QED
    BY <1>1, <1>7, <2>1 DEF Linked
<1>9. Listed(heap', k + 1, q) = Append(Listed(heap, k, p), m)
  <2>1. \A i \in 1 .. k : heap'[q[i]].message = heap[p[i]].message
    <3>1. \A i \in 1 .. k : q[i] = p[i] /\ p[i] \in DOMAIN heap
      BY <1>3
    <3> HIDE DEF q
    <3> QED
      BY <1>5, <3>1
  <2>2. heap'[q[k + 1]].message = m
    BY <1>4
  <2> HIDE DEF q
  <2>3. Listed(heap', k + 1, q) = [i \in 1 .. k + 1 |-> IF i = k + 1 THEN m ELSE heap[p[i]].message]
    BY <2>1, <2>2 DEF Listed
  <2>4. /\ Listed(heap, k, p) \in Seq(Messages) /\ Len(Listed(heap, k, p)) = k
        /\ \A i \in 1 .. k : Listed(heap, k, p)[i] = heap[p[i]].message
    <3>1. \A i \in 1 .. k : heap[p[i]].message \in Messages
      BY <1>3 DEF TypeOK, Element
    <3> QED
      BY <3>1 DEF Listed
  <2> QED
    BY <2>3, <2>4
<1> QED
  BY <1>1, <1>2, <1>6, <1>8, <1>9

LEMMA DequeueLinks ==
  ASSUME TypeOK, NEW k \in Nat \ {0}, NEW p \in [1 .. k -> Addresses], Linked(k, p), Dequeue
  PROVE  /\ TypeOK'
         /\ taken' = heap[p[1]].message
         /\ \E q \in [1 .. k - 1 -> Addresses] :
              /\ Linked(k - 1, q)'
              /\ Listed(heap', k - 1, q) = Tail(Listed(heap, k, p))
<1> DEFINE q == [i \in 1 .. k - 1 |-> p[i + 1]]
<1>1. /\ DOMAIN heap = {p[i] : i \in 1 .. k} /\ nullptr \notin DOMAIN heap
      /\ \A i \in 1 .. k : p[i] \in DOMAIN heap
      /\ front = p[1] /\ rear = p[k] /\ size = k /\ front # nullptr
  BY HeapAssumption DEF Linked, Chain, FirstOf, LastOf
<1>2. /\ front' = heap[p[1]].next
      /\ taken' = heap[p[1]].message
      /\ heap' = Without(heap, p[1])
      /\ rear' = (IF front' = nullptr THEN nullptr ELSE rear)
      /\ size' = k - 1
  BY <1>1 DEF Dequeue
<1>3. q \in [1 .. k - 1 -> Addresses]
  OBVIOUS
<1>4. /\ DOMAIN heap' = DOMAIN heap \ {p[1]}
      /\ \A a \in DOMAIN heap \ {p[1]} : heap'[a] = heap[a]
  BY <1>2 DEF Without
<1>5. \A i \in 1 .. k - 1 : /\ i + 1 \in 1 .. k /\ q[i] = p[i + 1] /\ q[i] # p[1]
                            /\ q[i] \in DOMAIN heap'
  BY <1>1, <1>4 DEF Linked, Chain
<1>6. front' = (IF k = 1 THEN nullptr ELSE p[2])
  BY <1>2 DEF Linked, Chain
<1>7. TypeOK'
  <2>1. heap[p[1]].message \in Messages /\ heap[p[1]].next \in Pointer
    <3>1. 1 \in 1 .. k
      OBVIOUS
    <3> QED
      BY <1>1, <3>1 DEF TypeOK, Element
  <2>2. DOMAIN heap' \subseteq Addresses /\ \A a \in DOMAIN heap' : heap'[a] \in Element
    BY <1>4 DEF TypeOK
  <2>3. front' \in Pointer /\ rear' \in Pointer /\ size' \in Nat /\ taken' \in Messages
    BY <1>2, <2>1 DEF TypeOK, Pointer
  <2> QED
    BY <2>2, <2>3 DEF TypeOK
<1>8. Chain(heap', k - 1, q)
  <2>1. \A i, j \in 1 .. k - 1 : q[i] = q[j] => i = j
    BY DEF Linked, Chain
  <2>2. DOMAIN heap' = {q[i] : i \in 1 .. k - 1}
    <3>1. ASSUME NEW a \in DOMAIN heap' PROVE \E i \in 1 .. k - 1 : q[i] = a
      <4>1. PICK j \in 1 .. k : p[j] = a
        BY <1>1, <1>4
      <4>2. j # 1
        BY <1>4, <4>1
      <4>3. j - 1 \in 1 .. k - 1 /\ q[j - 1] = a
        BY <4>1, <4>2
      <4> QED
        BY <4>3
    <3> QED
      BY <1>5, <3>1
  <2>3. ASSUME NEW i \in 1 .. k - 1
        PROVE  heap'[q[i]].next = IF i = k - 1 THEN nullptr ELSE q[i + 1]
    <3>1. heap'[q[i]] = heap[p[i + 1]] /\ i + 1 \in 1 .. k
      BY <1>4, <1>5
    <3>2. heap[p[i + 1]].next = IF i + 1 = k THEN nullptr ELSE p[(i + 1) + 1]
      BY <3>1 DEF Linked, Chain
    <3> QED
      BY <3>1, <3>2
  <2> QED
    BY <1>3, <2>1, <2>2, <2>3 DEF Chain
<1>9. Linked(k - 1, q)'
  <2>1. front' = FirstOf(k - 1, q) /\ rear' = LastOf(k - 1, q)
    <3>1. CASE k = 1
      BY <1>2, <1>6, <3>1 DEF FirstOf, LastOf
    <3>2. CASE k # 1
      <4>1. q[1] = p[2] /\ q[k - 1] = p[k] /\ p[2] # nullptr
        BY <1>1, <3>2
      <4> QED
        BY <1>1, <1>2, <1>6, <3>2, <4>1 DEF FirstOf, LastOf
    <3> QED
      BY <3>1, <3>2
  <2> QED
    BY <1>2, <1>8, <2>1 DEF Linked
<1>10. Listed(heap', k - 1, q) = Tail(Listed(heap, k, p))
  <2>1. \A i \in 1 .. k - 1 : heap'[q[i]].message = heap[p[i + 1]].message
    BY <1>4, <1>5
  <2> HIDE DEF q
  <2>2. Listed(heap', k - 1, q) = [i \in 1 .. k - 1 |-> heap[p[i + 1]].message]
    BY <2>1 DEF Listed
  <2>3. /\ Listed(heap, k, p) \in Seq(Messages) /\ Len(Listed(heap, k, p)) = k
        /\ \A i \in 1 .. k : Listed(heap, k, p)[i] = heap[p[i]].message
    <3>1. \A i \in 1 .. k : heap[p[i]].message \in Messages
      BY <1>1 DEF TypeOK, Element
    <3> QED
      BY <3>1 DEF Listed
  <2> QED
    BY <2>2, <2>3
<1> QED
  BY <1>2, <1>3, <1>7, <1>9, <1>10

\* What clear has left after n passes.
Left(k, p) ==
  [n \in Nat |->
     [heap  |-> IF n = 0 \/ k = 0 THEN heap ELSE [a \in {p[i] : i \in n + 1 .. k} |-> heap[a]],
      front |-> IF n < k THEN p[n + 1] ELSE nullptr,
      rear  |-> IF n < k THEN p[k] ELSE nullptr]]

\* One pass of the loop.
Pass(l) ==
  IF l.rear = nullptr THEN l
  ELSE [heap  |-> Without(l.heap, l.front),
        front |-> l.heap[l.front].next,
        rear  |-> IF l.heap[l.front].next = nullptr THEN nullptr ELSE l.rear]

LEMMA LeftSolves ==
  ASSUME NEW k \in Nat, NEW p \in [1 .. k -> Addresses], Linked(k, p)
  PROVE  Left(k, p) = [n \in Nat |->
           IF n = 0 THEN [heap |-> heap, front |-> front, rear |-> rear]
           ELSE Pass(Left(k, p)[n - 1])]
<1> SUFFICES ASSUME NEW n \in Nat
             PROVE  Left(k, p)[n] =
                      IF n = 0 THEN [heap |-> heap, front |-> front, rear |-> rear]
                      ELSE Pass(Left(k, p)[n - 1])
  BY DEF Left
<1>1. CASE n = 0
  BY <1>1 DEF Left, Linked, FirstOf, LastOf
<1>2. ASSUME n # 0, n - 1 < k
      PROVE  Left(k, p)[n] = Pass(Left(k, p)[n - 1])
  <2> DEFINE l == Left(k, p)[n - 1]
  <2>1. n - 1 \in Nat /\ n \in 1 .. k /\ (n - 1) + 1 = n /\ k # 0
    BY <1>2
  <2>2. l.front = p[n] /\ l.rear = p[k]
    BY <1>2, <2>1 DEF Left
  <2>3. /\ DOMAIN l.heap = {p[i] : i \in n .. k}
        /\ \A a \in DOMAIN l.heap : l.heap[a] = heap[a]
    <3>1. CASE n = 1
      BY <2>1, <3>1 DEF Left, Linked, Chain
    <3>2. CASE n # 1
      <4>1. l.heap = [a \in {p[i] : i \in (n - 1) + 1 .. k} |-> heap[a]]
        BY <2>1, <3>2 DEF Left
      <4> HIDE DEF l
      <4> QED
        BY <2>1, <4>1
    <3> QED
      BY <3>1, <3>2
  <2>4. l.heap[p[n]].next = IF n = k THEN nullptr ELSE p[n + 1]
    <3>1. p[n] \in DOMAIN l.heap
      BY <2>1, <2>3
    <3> QED
      BY <2>1, <2>3, <3>1 DEF Linked, Chain
  <2>5. Left(k, p)[n] = [heap  |-> [a \in {p[i] : i \in n + 1 .. k} |-> heap[a]],
                         front |-> IF n < k THEN p[n + 1] ELSE nullptr,
                         rear  |-> IF n < k THEN p[k] ELSE nullptr]
    BY <1>2, <2>1 DEF Left
  <2> HIDE DEF l
  <2>6. Without(l.heap, p[n]) = [a \in {p[i] : i \in n + 1 .. k} |-> heap[a]]
    <3>1. DOMAIN l.heap \ {p[n]} = {p[i] : i \in n + 1 .. k}
      BY <2>1, <2>3 DEF Linked, Chain
    <3> QED
      BY <2>3, <3>1 DEF Without
  <2>7. \A i \in 1 .. k : p[i] # nullptr
    BY HeapAssumption
  <2>8. Pass(l) = [heap  |-> Without(l.heap, p[n]),
                   front |-> l.heap[p[n]].next,
                   rear  |-> IF l.heap[p[n]].next = nullptr THEN nullptr ELSE p[k]]
    BY <2>1, <2>2, <2>7 DEF Pass
  <2>9. Pass(l) = Left(k, p)[n]
    <3>1. CASE n = k
      BY <2>1, <2>4, <2>5, <2>6, <2>8, <3>1
    <3>2. CASE n # k
      <4>1. n < k /\ l.heap[p[n]].next = p[n + 1] /\ p[n + 1] # nullptr
        BY <2>1, <2>4, <2>7, <3>2
      <4> QED
        BY <2>5, <2>6, <2>8, <4>1
    <3> QED
      BY <3>1, <3>2
  <2> QED
    BY <2>9 DEF l
<1>3. ASSUME n # 0, ~(n - 1 < k)
      PROVE  Left(k, p)[n] = Pass(Left(k, p)[n - 1])
  <2>1. n - 1 \in Nat /\ (n - 1 # 0 \/ k = 0) /\ ~(n < k)
    BY <1>3
  <2>2. {p[i] : i \in n + 1 .. k} = {p[i] : i \in (n - 1) + 1 .. k}
    BY <1>3
  <2>3. Left(k, p)[n] = Left(k, p)[n - 1] /\ Left(k, p)[n - 1].rear = nullptr
    BY <1>3, <2>1, <2>2 DEF Left
  <2> QED
    BY <2>3 DEF Pass
<1> QED
  BY <1>1, <1>2, <1>3

\* The loop ends with an empty heap after as many passes as there are elements.
LEMMA ClearLoopEnds ==
  ASSUME NEW k \in Nat, NEW p \in [1 .. k -> Addresses], Linked(k, p)
  PROVE  /\ DOMAIN ClearLoop[k].heap = {}
         /\ ClearLoop[k].front = nullptr /\ ClearLoop[k].rear = nullptr
<1> DEFINE start == [heap |-> heap, front |-> front, rear |-> rear]
           pass == ClearLoop
           S == {n \in Nat : pass[n] = Left(k, p)[n]}
<1>1. ClearLoop = CHOOSE f : f = [n \in Nat |-> IF n = 0 THEN start ELSE Pass(f[n - 1])]
  BY DEF ClearLoop, Pass
<1>2. Left(k, p) = [n \in Nat |-> IF n = 0 THEN start ELSE Pass(Left(k, p)[n - 1])]
  BY LeftSolves
<1> HIDE DEF start
<1>3. pass = [n \in Nat |-> IF n = 0 THEN start ELSE Pass(pass[n - 1])]
  BY <1>1, <1>2
<1>4. 0 \in S
  BY <1>2, <1>3
<1> HIDE DEF pass
<1>5. ASSUME NEW n \in Nat, n \in S PROVE n + 1 \in S
  <2>1. n + 1 \in Nat /\ n + 1 # 0 /\ (n + 1) - 1 = n
    OBVIOUS
  <2>2. pass[n + 1] = Pass(pass[n]) /\ Left(k, p)[n + 1] = Pass(Left(k, p)[n])
    BY <1>2, <1>3, <2>1
  <2> QED
    BY <1>5, <2>1, <2>2
<1>6. Nat \subseteq S
  <2> HIDE DEF S
  <2> QED
    BY <1>4, <1>5, CountingUp
<1>7. ClearLoop[k] = Left(k, p)[k]
  BY <1>6 DEF pass
<1>8. /\ DOMAIN Left(k, p)[k].heap = {}
      /\ Left(k, p)[k].front = nullptr /\ Left(k, p)[k].rear = nullptr
  <2>1. CASE k = 0
    BY <2>1 DEF Left, Linked, Chain
  <2>2. CASE k # 0
    <3>1. {p[i] : i \in k + 1 .. k} = {}
      OBVIOUS
    <3>2. Left(k, p)[k].heap = [a \in {p[i] : i \in k + 1 .. k} |-> heap[a]]
      BY <2>2 DEF Left
    <3>3. Left(k, p)[k].front = nullptr /\ Left(k, p)[k].rear = nullptr
      BY DEF Left
    <3> QED
      BY <3>1, <3>2, <3>3
  <2> QED
    BY <2>1, <2>2
<1> QED
  BY <1>7, <1>8
-----------------------------------------------------------------------------
(* Every step, and what it does to the messages that wait.                 *)

\* A path through the heap tells what Contents is, now and after a step.
LEMMA ContentsAre ==
  ASSUME NEW k \in Nat, NEW p
  PROVE  /\ Linked(k, p) => Contents = Listed(heap, k, p)
         /\ Linked(k, p)' => Contents' = Listed(heap', k, p)
<1>1. Contents = Read(heap, front) /\ Contents' = Read(heap', front')
  BY DEF Contents, Follow, Read, FollowIn
<1>2. ASSUME Linked(k, p) PROVE Contents = Listed(heap, k, p)
  BY <1>1, <1>2, ReadPath DEF Linked
<1>3. ASSUME Linked(k, p)' PROVE Contents' = Listed(heap', k, p)
  BY <1>1, <1>3, ReadPath DEF Linked
<1> QED
  BY <1>2, <1>3

LEMMA ListedLength ==
  ASSUME NEW h, NEW k \in Nat, NEW p
  PROVE  Listed(h, k, p) = <<>> <=> k = 0
  BY DEF Listed

LEMMA InitLinks == Init => IInv /\ Contents = <<>> /\ taken = nullptr
<1> SUFFICES ASSUME Init PROVE IInv /\ Contents = <<>> /\ taken = nullptr
  OBVIOUS
<1>1. TypeOK
  BY DEF Init, TypeOK, Pointer
<1>2. <<>> \in [1 .. 0 -> Addresses] /\ Linked(0, <<>>)
  BY DEF Init, Linked, Chain, FirstOf, LastOf
<1>3. Contents = <<>>
  BY <1>2, ContentsAre, ListedLength
<1> QED
  BY <1>1, <1>2, <1>3 DEF IInv, Init

LEMMA EnqueueSteps ==
  ASSUME IInv, NEW m \in Messages, Enqueue(m)
  PROVE  IInv' /\ Abstract!Enqueue(m)
<1>0. PICK k \in Nat : \E p \in [1 .. k -> Addresses] : Linked(k, p)
  BY DEF IInv
<1>1. PICK p \in [1 .. k -> Addresses] : Linked(k, p)
  BY <1>0
<1>2. PICK q \in [1 .. k + 1 -> Addresses] :
        Linked(k + 1, q)' /\ Listed(heap', k + 1, q) = Append(Listed(heap, k, p), m)
  BY <1>1, EnqueueLinks DEF IInv
<1>3. TypeOK' /\ taken' = nullptr
  BY <1>1, EnqueueLinks DEF IInv
<1>4. k + 1 \in Nat
  OBVIOUS
<1>5. Contents = Listed(heap, k, p) /\ Contents' = Listed(heap', k + 1, q)
  BY <1>1, <1>2, <1>4, ContentsAre
<1>6. IInv'
  BY <1>2, <1>3, <1>4 DEF IInv
<1> QED
  BY <1>2, <1>3, <1>5, <1>6 DEF Abstract!Enqueue

LEMMA DequeueSteps ==
  ASSUME IInv, Dequeue
  PROVE  IInv' /\ Abstract!Dequeue
<1>0. PICK k \in Nat : \E p \in [1 .. k -> Addresses] : Linked(k, p)
  BY DEF IInv
<1>1. PICK p \in [1 .. k -> Addresses] : Linked(k, p)
  BY <1>0
<1>2. CASE k = 0
  <2>1. front = nullptr
    BY <1>1, <1>2 DEF Linked, FirstOf
  <2>2. taken' = nullptr /\ UNCHANGED <<heap, front, rear, size>>
    BY <2>1 DEF Dequeue
  <2>3. TypeOK'
    BY <2>2 DEF IInv, TypeOK
  <2>4. Linked(k, p)'
    BY <1>1, <2>2 DEF Linked
  <2>5. Contents = <<>> /\ Contents' = <<>>
    BY <1>1, <1>2, <2>4, ContentsAre, ListedLength
  <2> QED
    BY <2>2, <2>3, <2>4, <2>5 DEF IInv, Abstract!Dequeue
<1>3. CASE k # 0
  <2>1. k \in Nat \ {0} /\ k - 1 \in Nat
    BY <1>3
  <2>2. PICK q \in [1 .. k - 1 -> Addresses] :
          Linked(k - 1, q)' /\ Listed(heap', k - 1, q) = Tail(Listed(heap, k, p))
    BY <1>1, <2>1, DequeueLinks DEF IInv
  <2>3. TypeOK' /\ taken' = heap[p[1]].message
    BY <1>1, <2>1, DequeueLinks DEF IInv
  <2>4. Contents = Listed(heap, k, p) /\ Contents' = Listed(heap', k - 1, q)
    BY <1>1, <2>1, <2>2, ContentsAre
  <2>5. Contents # <<>>
    BY <1>3, <2>4, ListedLength
  <2>6. taken' = Head(Contents)
    BY <2>1, <2>3, <2>4 DEF Listed
  <2>7. IInv'
    BY <2>1, <2>2, <2>3 DEF IInv
  <2> QED
    BY <2>2, <2>4, <2>5, <2>6, <2>7 DEF Abstract!Dequeue
<1> QED
  BY <1>2, <1>3

LEMMA ClearSteps ==
  ASSUME IInv, Clear
  PROVE  IInv' /\ Abstract!Clear
<1>0. PICK k \in Nat : \E p \in [1 .. k -> Addresses] : Linked(k, p)
  BY DEF IInv
<1>1. PICK p \in [1 .. k -> Addresses] : Linked(k, p)
  BY <1>0
<1>2. Cardinality(DOMAIN heap) = k
  BY <1>1, ChainCount DEF Linked
<1>3. /\ heap' = ClearLoop[k].heap /\ front' = ClearLoop[k].front /\ rear' = ClearLoop[k].rear
      /\ size' = 0 /\ taken' = nullptr
  BY <1>2 DEF Clear
<1>4. DOMAIN heap' = {} /\ front' = nullptr /\ rear' = nullptr
  BY <1>1, <1>3, ClearLoopEnds
<1>5. TypeOK'
  BY <1>3, <1>4 DEF TypeOK, Pointer
<1>6. <<>> \in [1 .. 0 -> Addresses] /\ Linked(0, <<>>)'
  BY <1>3, <1>4 DEF Linked, Chain, FirstOf, LastOf
<1>7. Contents' = <<>>
  BY <1>6, ContentsAre, ListedLength
<1> QED
  BY <1>3, <1>5, <1>6, <1>7 DEF IInv, Abstract!Clear

LEMMA StutterSteps ==
  ASSUME IInv, UNCHANGED vars
  PROVE  IInv' /\ Contents' = Contents /\ taken' = taken
<1>1. IInv'
  BY DEF IInv, TypeOK, Linked, vars
<1>2. Contents' = Contents
  BY DEF Contents, Follow, vars
<1> QED
  BY <1>1, <1>2 DEF vars

LEMMA QueueSteps == IInv /\ [Next]_vars => IInv' /\ [Abstract!Next]_<<Contents, taken>>
<1> SUFFICES ASSUME IInv, [Next]_vars
             PROVE  IInv' /\ [Abstract!Next]_<<Contents, taken>>
  OBVIOUS
<1>1. ASSUME NEW m \in Messages, Enqueue(m)
      PROVE  IInv' /\ [Abstract!Next]_<<Contents, taken>>
  BY <1>1, EnqueueSteps DEF Abstract!Next
<1>2. CASE Dequeue
  BY <1>2, DequeueSteps DEF Abstract!Next
<1>3. CASE Clear
  BY <1>3, ClearSteps DEF Abstract!Next
<1>4. CASE UNCHANGED vars
  BY <1>4, StutterSteps
<1> QED
  BY <1>1, <1>2, <1>3, <1>4 DEF Next

-----------------------------------------------------------------------------
(* Theorems.                                                               *)

\* There is always a path through the whole heap, from front to rear, and the
\* variables have their types, whatever is enqueued, dequeued and cleared.
THEOREM QueueIsLinked == Spec => []IInv
<1>1. Init => IInv
  BY InitLinks
<1>2. IInv /\ [Next]_vars => IInv'
  BY QueueSteps
<1> QED
  BY <1>1, <1>2, PTL DEF Spec

\* empty() looks at rear and dequeue at front: they agree, and rear is the last
\* element, for a queue of any length.
THEOREM QueueEndsAgree == Spec => []EndsAgree
<1>1. IInv => EndsAgree
  <2> SUFFICES ASSUME IInv PROVE EndsAgree
    OBVIOUS
  <2>0. PICK k \in Nat : \E p \in [1 .. k -> Addresses] : Linked(k, p)
    BY DEF IInv
  <2>1. PICK p \in [1 .. k -> Addresses] : Linked(k, p)
    BY <2>0
  <2>2. CASE k = 0
    BY <2>1, <2>2 DEF EndsAgree, Linked, FirstOf, LastOf
  <2>3. CASE k # 0
    <3>1. 1 \in 1 .. k /\ k \in 1 .. k
      BY <2>3
    <3>2. front = p[1] /\ rear = p[k] /\ p[1] # nullptr /\ p[k] # nullptr
      BY HeapAssumption, <2>1, <2>3, <3>1 DEF Linked, FirstOf, LastOf
    <3>3. p[k] \in DOMAIN heap /\ heap[p[k]].next = nullptr
      BY <2>1, <3>1 DEF Linked, Chain
    <3> QED
      BY <3>2, <3>3 DEF EndsAgree
  <2> QED
    BY <2>2, <2>3
<1> QED
  BY <1>1, QueueIsLinked, PTL

\* Every element that is allocated is reached from front, and size_ is their
\* number: neither dequeue nor the loop of clear leaves one behind.
THEOREM QueueLeaksNothing == Spec => []NothingLeaks
<1>1. IInv => NothingLeaks
  <2> SUFFICES ASSUME IInv PROVE NothingLeaks
    OBVIOUS
  <2>0. PICK k \in Nat : \E p \in [1 .. k -> Addresses] : Linked(k, p)
    BY DEF IInv
  <2>1. PICK p \in [1 .. k -> Addresses] : Linked(k, p)
    BY <2>0
  <2>2. Cardinality(DOMAIN heap) = k
    BY <2>1, ChainCount DEF Linked
  <2>3. size = k /\ Len(Contents) = k
    <3>1. Contents = [i \in 1 .. k |-> heap[p[i]].message]
      BY <2>1, ContentsAre DEF Listed
    <3> QED
      BY <2>1, <3>1 DEF Linked
  <2>4. Follow = FollowIn(heap, FirstOf(k, p))
    BY <2>1 DEF Follow, FollowIn, Linked
  <2>5. ASSUME NEW a \in DOMAIN heap
        PROVE  \E n \in 0 .. k - 1 : Follow[n] = a
    <3>1. PICK i \in 1 .. k : p[i] = a
      BY <2>1 DEF Linked, Chain
    <3>2. i - 1 \in 0 .. k - 1 /\ i - 1 \in Nat /\ (i - 1) + 1 = i
      OBVIOUS
    <3>3. Follow[i - 1] = Along(k, p)[i - 1]
      BY <2>1, <2>4, <3>2, FollowPath DEF Linked
    <3>4. Along(k, p)[i - 1] = a
      BY <3>1, <3>2 DEF Along
    <3> QED
      BY <3>2, <3>3, <3>4
  <2> QED
    BY <2>2, <2>3, <2>5 DEF NothingLeaks
<1> QED
  BY <1>1, QueueIsLinked, PTL

\* The linked list implements the abstract queue: messages leave in the order in
\* which they came, each one once, unless the queue is cleared.
THEOREM QueueIsFifo == Spec => IsFifo
<1>1. Init => Abstract!Init
  BY InitLinks DEF Abstract!Init
<1>2. IInv /\ [Next]_vars => [Abstract!Next]_<<Contents, taken>>
  BY QueueSteps
<1> QED
  BY <1>1, <1>2, QueueIsLinked, PTL DEF Spec, IsFifo, Abstract!Spec
=============================================================================
