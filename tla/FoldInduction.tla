---------------------------- MODULE FoldInduction ----------------------------
(***************************************************************************)
(* A fold over a sequence keeps what its step keeps, told for every        *)
(* beginning of the sequence.                                              *)
(*                                                                         *)
(* The provers cannot instantiate a lemma for an operator, but a module    *)
(* can be: Step and Good are constants here, and a module that folds       *)
(* instantiates this one WITH its own step and what it wants to know of    *)
(* the result.  Induction is over a set of numbers (CountingUp), from the  *)
(* library's theorem of the least element.                                 *)
(***************************************************************************)
EXTENDS SequencesExt, Integers, WellFoundedInduction, TLAPS

CONSTANTS
  Step(_, _, _),  \* context, what is folded so far, element of the sequence
  Good(_, _, _)   \* context, number of elements folded, what is folded so far

Fold(c, base, seq) == FoldLeft(LAMBDA r, x : Step(c, r, x), base, seq)

-----------------------------------------------------------------------------
(* Natural numbers.                                                        *)

\* A set of natural numbers has a least one.
LEMMA Least ==
  ASSUME NEW T, T \subseteq Nat, T # {}
  PROVE  \E x \in T : \A y \in T : x <= y
<1> DEFINE R == OpToRel(<, Nat)
<1>1. IsWellFoundedOn(R, Nat)
  BY NatLessThanWellFounded
<1>2. \A x, y \in Nat : y < x => <<y, x>> \in R
  BY DEF OpToRel
<1> HIDE DEF R
<1>3. PICK x \in T : \A y \in T : <<y, x>> \notin R
  BY <1>1, WFMin
<1>4. \A y \in T : ~(y < x)
  BY <1>2, <1>3
<1> QED
  BY <1>4

\* A set that has 0, and n + 1 with every n, has all natural numbers.
LEMMA CountingUp ==
  ASSUME NEW S, 0 \in S, \A n \in Nat : n \in S => n + 1 \in S
  PROVE  Nat \subseteq S
<1> SUFFICES ASSUME Nat \ S # {} PROVE FALSE
  OBVIOUS
<1>1. PICK x \in Nat \ S : \A y \in Nat \ S : x <= y
  BY Least
<1>2. x # 0 /\ x - 1 \in Nat
  BY <1>1
<1>3. x - 1 \in S
  BY <1>1, <1>2
<1> QED
  BY <1>1, <1>2, <1>3

-----------------------------------------------------------------------------
(* The fold goes from the elements of a set of indices to one less.        *)

LEMMA MaxOfIndices ==
  ASSUME NEW n \in Nat, NEW s \in SUBSET (1 .. n + 1), n + 1 \in s
  PROVE  Max(s) = n + 1
<1>1. \A y \in s : y <= n + 1
  OBVIOUS
<1>2. \A x \in s : (\A y \in s : x >= y) <=> x = n + 1
  BY <1>1
<1> QED
  BY <1>2 DEF Max

\* The equation of the fold, on the subsets of S.
Solves(it, c, base, seq, S) ==
  it = [s \in SUBSET S |->
          IF s = {} THEN base ELSE Step(c, it[s \ {Max(s)}], seq[Max(s)])]

LEMMA SolvesEmpty ==
  ASSUME NEW c, NEW base, NEW seq
  PROVE  \E it : Solves(it, c, base, seq, 1 .. 0)
<1>1. \A s \in SUBSET (1 .. 0) : s = {}
  OBVIOUS
<1>2. Solves([s \in SUBSET (1 .. 0) |-> base], c, base, seq, 1 .. 0)
  BY <1>1 DEF Solves
<1> QED
  BY <1>2

\* One index more.
LEMMA SolvesNext ==
  ASSUME NEW c, NEW base, NEW seq, NEW n \in Nat,
         NEW it, Solves(it, c, base, seq, 1 .. n)
  PROVE  \E more : Solves(more, c, base, seq, 1 .. n + 1)
<1> DEFINE more == [s \in SUBSET (1 .. n + 1) |->
                      IF n + 1 \in s THEN Step(c, it[s \ {n + 1}], seq[n + 1]) ELSE it[s]]
<1>1. ASSUME NEW s \in SUBSET (1 .. n + 1)
      PROVE  more[s] = IF s = {} THEN base
                       ELSE Step(c, more[s \ {Max(s)}], seq[Max(s)])
  <2>1. CASE n + 1 \in s
    <3>1. Max(s) = n + 1 /\ s # {}
      BY <2>1, MaxOfIndices
    <3>2. s \ {n + 1} \in SUBSET (1 .. n + 1) /\ n + 1 \notin s \ {n + 1}
      OBVIOUS
    <3>3. more[s \ {n + 1}] = it[s \ {n + 1}]
      BY <3>2
    <3> QED
      BY <2>1, <3>1, <3>3
  <2>2. CASE n + 1 \notin s
    <3>1. s \in SUBSET (1 .. n) /\ more[s] = it[s]
      BY <2>2
    <3>2. n + 1 \notin s \ {Max(s)} /\ s \ {Max(s)} \in SUBSET (1 .. n + 1)
      BY <2>2
    <3>3. more[s \ {Max(s)}] = it[s \ {Max(s)}]
      BY <3>2
    <3>4. it[s] = IF s = {} THEN base ELSE Step(c, it[s \ {Max(s)}], seq[Max(s)])
      BY <3>1 DEF Solves
    <3> QED
      BY <3>1, <3>3, <3>4
  <2> QED
    BY <2>1, <2>2
<1>2. more = [s \in SUBSET (1 .. n + 1) |->
                IF s = {} THEN base ELSE Step(c, more[s \ {Max(s)}], seq[Max(s)])]
  <2>1. more = [s \in SUBSET (1 .. n + 1) |-> more[s]]
    OBVIOUS
  <2> HIDE DEF more
  <2> QED
    BY <1>1, <2>1
<1> QED
  BY <1>2 DEF Solves

LEMMA FoldIsDefined ==
  ASSUME NEW c, NEW base, NEW seq
  PROVE  \A n \in Nat : \E it : Solves(it, c, base, seq, 1 .. n)
<1> DEFINE S == {n \in Nat : \E it : Solves(it, c, base, seq, 1 .. n)}
<1>1. 0 \in S
  BY SolvesEmpty
<1>2. ASSUME NEW n \in Nat, n \in S
      PROVE  n + 1 \in S
  BY <1>2, SolvesNext
<1>3. Nat \subseteq S
  <2> HIDE DEF S
  <2> QED
    BY <1>1, <1>2, CountingUp
<1> QED
  BY <1>3

\* What a fold over 1 .. n is: some solution, at the whole set.
LEMMA FoldSolves ==
  ASSUME NEW c, NEW base, NEW seq, NEW n \in Nat, DOMAIN seq = 1 .. n
  PROVE  \E it : Solves(it, c, base, seq, 1 .. n) /\ Fold(c, base, seq) = it[1 .. n]
<1> DEFINE it == CHOOSE f : f = [s \in SUBSET (1 .. n) |->
                   IF s = {} THEN base ELSE Step(c, f[s \ {Max(s)}], seq[Max(s)])]
<1>1. Fold(c, base, seq) = it[1 .. n]
  BY DEF Fold, FoldLeft, MapThenFoldSet
<1>2. Solves(it, c, base, seq, 1 .. n)
  <2>1. \E f : Solves(f, c, base, seq, 1 .. n)
    BY FoldIsDefined
  <2> QED
    BY <2>1 DEF Solves
<1> QED
  BY <1>1, <1>2

\* A fold keeps what every step keeps.
THEOREM FoldKeeps ==
  ASSUME NEW c, NEW base, NEW seq, NEW n \in Nat, DOMAIN seq = 1 .. n,
         Good(c, 0, base),
         \A r : \A i \in 1 .. n : Good(c, i - 1, r) => Good(c, i, Step(c, r, seq[i]))
  PROVE  Good(c, n, Fold(c, base, seq))
<1>1. PICK it : Solves(it, c, base, seq, 1 .. n) /\ Fold(c, base, seq) = it[1 .. n]
  BY FoldSolves
<1> DEFINE S == {m \in Nat : m <= n => Good(c, m, it[1 .. m])}
<1>2. 0 \in S
  <2>1. it[1 .. 0] = base
    BY <1>1 DEF Solves
  <2> QED
    BY <2>1
<1>3. ASSUME NEW m \in Nat, m \in S
      PROVE  m + 1 \in S
  <2> SUFFICES ASSUME m + 1 <= n PROVE Good(c, m + 1, it[1 .. m + 1])
    OBVIOUS
  <2>1. Good(c, m, it[1 .. m])
    BY <1>3
  <2>2. Max(1 .. m + 1) = m + 1
    BY MaxOfIndices
  <2>3. (1 .. m + 1) \ {m + 1} = 1 .. m /\ 1 .. m + 1 # {} /\ 1 .. m + 1 \in SUBSET (1 .. n)
    OBVIOUS
  <2>4. it[1 .. m + 1] = Step(c, it[1 .. m], seq[m + 1])
    BY <1>1, <2>2, <2>3 DEF Solves
  <2>5. m + 1 \in 1 .. n /\ (m + 1) - 1 = m
    OBVIOUS
  <2> QED
    BY <2>1, <2>4, <2>5
<1>4. Nat \subseteq S
  <2> HIDE DEF S
  <2> QED
    BY <1>2, <1>3, CountingUp
<1> QED
  BY <1>1, <1>4
=============================================================================
