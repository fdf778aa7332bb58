------------------------ MODULE ControlPanelProofs ------------------------
(***************************************************************************)
(* The control panel for any variables, settings and card ids: what the    *)
(* client keeps of its monitors, what is on the board, and that the shown  *)
(* variables are the monitored ones.                                       *)
(***************************************************************************)
EXTENDS ControlPanel, FiniteSetTheorems, TLAPS

-----------------------------------------------------------------------------
(* Keep.                                                                   *)

KeepStep(c, kept, x) == IF x \in c.set THEN Append(kept, x) ELSE kept

\* kept has the elements of the first n ones of the list that are in S, f says
\* from where.
Picks(f, list, S, n, kept) ==
  /\ kept \in Seq(S)
  /\ f \in [1 .. Len(kept) -> 1 .. n]
  /\ \A k \in 1 .. Len(kept) : kept[k] = list[f[k]]
  /\ \A k, l \in 1 .. Len(kept) : k < l => f[k] < f[l]
  /\ \A j \in 1 .. n : list[j] \in S => \E k \in 1 .. Len(kept) : f[k] = j

KeepGood(c, n, kept) == \E f : Picks(f, c.list, c.set, n, kept)

Keeping == INSTANCE FoldInduction WITH Step <- KeepStep, Good <- KeepGood

LEMMA KeepPicks ==
  ASSUME NEW X, NEW list \in Seq(X), NEW S
  PROVE  \E f : Picks(f, list, S, Len(list), Keep(list, S))
<1> DEFINE c == [list |-> list, set |-> S]
           n == Len(list)
<1>1. Keep(list, S) = Keeping!Fold(c, <<>>, list)
  BY DEF Keep, KeepStep, Keeping!Fold, FoldLeft, MapThenFoldSet, Keeping!FoldLeft,
     Keeping!MapThenFoldSet, Max, Keeping!Max
<1>2. c.list = list /\ c.set = S
  OBVIOUS
<1> HIDE DEF c
<1>3. KeepGood(c, 0, <<>>)
  <2>1. Picks([k \in 1 .. 0 |-> k], list, S, 0, <<>>)
    BY DEF Picks
  <2> QED
    BY <1>2, <2>1 DEF KeepGood
<1>4. ASSUME NEW kept, NEW i \in 1 .. n, KeepGood(c, i - 1, kept)
      PROVE  KeepGood(c, i, KeepStep(c, kept, list[i]))
  <2>1. PICK f : Picks(f, list, S, i - 1, kept)
    BY <1>2, <1>4 DEF KeepGood
  <2>2. CASE list[i] \in S
    <3> DEFINE more == [k \in 1 .. Len(kept) + 1 |-> IF k = Len(kept) + 1 THEN i ELSE f[k]]
    <3>1. Len(kept) \in Nat /\ Len(Append(kept, list[i])) = Len(kept) + 1
      BY <2>1 DEF Picks
    <3>2. /\ Append(kept, list[i]) \in Seq(S)
          /\ \A k \in 1 .. Len(kept) : Append(kept, list[i])[k] = kept[k]
          /\ Append(kept, list[i])[Len(kept) + 1] = list[i]
      BY <2>1, <2>2 DEF Picks
    <3>0. \A k \in 1 .. Len(kept) : f[k] \in 1 .. i - 1 /\ f[k] \in 1 .. i
      <4>1. f \in [1 .. Len(kept) -> 1 .. i - 1]
        BY <2>1 DEF Picks
      <4> QED
        BY <4>1
    <3>3. \A k \in 1 .. Len(kept) : more[k] = f[k]
      BY <3>1
    <3>4. more[Len(kept) + 1] = i
      BY <3>1
    <3>5. more \in [1 .. Len(kept) + 1 -> 1 .. i]
      BY <3>0, <3>1
    <3> HIDE DEF more
    <3>6. ASSUME NEW k \in 1 .. Len(kept) + 1
          PROVE  Append(kept, list[i])[k] = list[more[k]]
      <4>1. CASE k = Len(kept) + 1
        BY <3>2, <3>4, <4>1
      <4>2. CASE k \in 1 .. Len(kept)
        <5>1. kept[k] = list[f[k]]
          BY <2>1, <4>2 DEF Picks
        <5> QED
          BY <3>2, <3>3, <4>2, <5>1
      <4> QED
        BY <3>1, <4>1, <4>2
    <3>7. ASSUME NEW k \in 1 .. Len(kept) + 1, NEW l \in 1 .. Len(kept) + 1, k < l
          PROVE  more[k] < more[l]
      <4>1. k \in 1 .. Len(kept)
        BY <3>1, <3>7
      <4>2. CASE l = Len(kept) + 1
        BY <3>0, <3>3, <3>4, <4>1, <4>2
      <4>3. CASE l \in 1 .. Len(kept)
        <5>1. f[k] < f[l]
          BY <2>1, <3>7, <4>1, <4>3 DEF Picks
        <5> QED
          BY <3>3, <4>1, <4>3, <5>1
      <4> QED
        BY <3>1, <4>2, <4>3
    <3>8. ASSUME NEW j \in 1 .. i, list[j] \in S
          PROVE  \E k \in 1 .. Len(kept) + 1 : more[k] = j
      <4>1. CASE j = i
        BY <3>1, <3>4, <4>1
      <4>2. CASE j # i
        <5>1. PICK k \in 1 .. Len(kept) : f[k] = j
          BY <2>1, <3>8, <4>2 DEF Picks
        <5> QED
          BY <3>1, <3>3, <5>1
      <4> QED
        BY <4>1, <4>2
    <3>9. Picks(more, list, S, i, Append(kept, list[i]))
      BY <3>1, <3>2, <3>5, <3>6, <3>7, <3>8 DEF Picks
    <3> QED
      BY <1>2, <2>2, <3>9 DEF KeepGood, KeepStep
  <2>3. CASE list[i] \notin S
    <3>1. Picks(f, list, S, i, kept)
      BY <2>1, <2>3 DEF Picks
    <3> QED
      BY <1>2, <2>3, <3>1 DEF KeepGood, KeepStep
  <2> QED
    BY <2>2, <2>3
<1>5. n \in Nat /\ DOMAIN list = 1 .. n
  OBVIOUS
<1> HIDE DEF n
<1>6. KeepGood(c, n, Keeping!Fold(c, <<>>, list))
  BY <1>3, <1>4, <1>5, Keeping!FoldKeeps
<1> QED
  BY <1>1, <1>2, <1>6 DEF KeepGood, n

\* What is kept: a list of the same kind, of the elements in S.
LEMMA KeepRange ==
  ASSUME NEW X, NEW list \in Seq(X), NEW S
  PROVE  /\ Keep(list, S) \in Seq(X)
         /\ Range(Keep(list, S)) = Range(list) \cap S
<1> DEFINE kept == Keep(list, S)
<1>1. PICK f : Picks(f, list, S, Len(list), kept)
  BY KeepPicks
<1> HIDE DEF kept
<1>2. \A k \in 1 .. Len(kept) : f[k] \in 1 .. Len(list) /\ kept[k] = list[f[k]] /\ kept[k] \in S
  BY <1>1 DEF Picks
<1>3. kept \in Seq(X)
  <2>1. kept \in Seq(S)
    BY <1>1 DEF Picks
  <2> QED
    BY <1>2, <2>1
<1>4. ASSUME NEW j \in 1 .. Len(list), list[j] \in S
      PROVE  \E k \in 1 .. Len(kept) : kept[k] = list[j]
  BY <1>1, <1>2, <1>4 DEF Picks
<1>5. DOMAIN kept = 1 .. Len(kept) /\ DOMAIN list = 1 .. Len(list)
  BY <1>3
<1>6. Range(kept) = Range(list) \cap S
  BY <1>2, <1>4, <1>5, SMTT(30) DEF Range
<1> QED
  BY <1>3, <1>6 DEF kept

\* The elements keep their order, so that distinct ones stay distinct.
LEMMA KeepInjective ==
  ASSUME NEW X, NEW list \in Seq(X), NEW S
  PROVE  \E f \in [1 .. Len(Keep(list, S)) -> 1 .. Len(list)] :
           /\ \A k \in 1 .. Len(Keep(list, S)) : Keep(list, S)[k] = list[f[k]]
           /\ \A k, l \in 1 .. Len(Keep(list, S)) : f[k] = f[l] => k = l
<1> DEFINE kept == Keep(list, S)
<1>1. PICK f : Picks(f, list, S, Len(list), kept)
  BY KeepPicks
<1>2. kept \in Seq(X)
  BY KeepRange
<1> HIDE DEF kept
<1>3. /\ f \in [1 .. Len(kept) -> 1 .. Len(list)]
      /\ \A k \in 1 .. Len(kept) : kept[k] = list[f[k]]
  BY <1>1 DEF Picks
<1>4. ASSUME NEW k \in 1 .. Len(kept), NEW l \in 1 .. Len(kept), f[k] = f[l]
      PROVE  k = l
  <2>1. f[k] \in Nat /\ f[l] \in Nat
    BY <1>3
  <2>2. (k < l => f[k] < f[l]) /\ (l < k => f[l] < f[k])
    BY <1>1 DEF Picks
  <2>3. Len(kept) \in Nat
    BY <1>2
  <2> QED
    BY <1>4, <2>1, <2>2, <2>3
<1> QED
  BY <1>3, <1>4 DEF kept

LEMMA KeepDistinct ==
  ASSUME NEW X, NEW list \in Seq(X), NEW S,
         \A k, l \in 1 .. Len(list) : list[k] = list[l] => k = l
  PROVE  \A k, l \in 1 .. Len(Keep(list, S)) : Keep(list, S)[k] = Keep(list, S)[l] => k = l
<1>1. \E f \in [1 .. Len(Keep(list, S)) -> 1 .. Len(list)] :
         /\ \A k \in 1 .. Len(Keep(list, S)) : Keep(list, S)[k] = list[f[k]]
         /\ \A k, l \in 1 .. Len(Keep(list, S)) : f[k] = f[l] => k = l
  BY KeepInjective
<1> DEFINE kept == Keep(list, S)
<1> HIDE DEF kept
<1>2. PICK f \in [1 .. Len(kept) -> 1 .. Len(list)] :
         /\ \A k \in 1 .. Len(kept) : kept[k] = list[f[k]]
         /\ \A k, l \in 1 .. Len(kept) : f[k] = f[l] => k = l
  BY <1>1 DEF kept
<1>3. \A k \in 1 .. Len(kept) : f[k] \in 1 .. Len(list)
  BY <1>2
<1> QED
  BY <1>2, <1>3 DEF kept

-----------------------------------------------------------------------------
(* Answers, and what the client's list has to do with them.                *)

Requests ==
  {ValueListRequest}
    \cup {ValueInfoRequest(S) : S \in SUBSET Variables}
    \cup {StartRequest(v) : v \in Variables}
    \cup {StopRequest(v) : v \in Variables}

Started(m, v) == m.type = "MONITORSTART_RESPONSE" /\ m.variable = v /\ m.ok = TRUE
Stopped(m, v) == m.type = "MONITORSTOP_RESPONSE" /\ m.variable = v
Shakes(m)     == m.type \in {"VALUELIST_RESPONSE", "VALUEINFO_RESPONSE"}

\* A variable that is or is not here, in the client's list, c times, and there,
\* among the monitors, while the messages wait, on the n-th connection.
\*  - What is there will be here when all messages have been received ...
\*  - ... and a start that waits is there, unless a stop follows it.
\*  - Between two starts there is a stop.
\*  - It is here at most once per connection, the next start counted in.
Agree(v, here, c, msgs, there, n) ==
  /\ there => \/ here /\ \A j \in 1 .. Len(msgs) : ~Stopped(msgs[j], v)
              \/ \E i \in 1 .. Len(msgs) :
                   Started(msgs[i], v) /\ \A j \in 1 .. Len(msgs) : i < j => ~Stopped(msgs[j], v)
  /\ \A i \in 1 .. Len(msgs) :
       Started(msgs[i], v) => there \/ \E j \in 1 .. Len(msgs) : i < j /\ Stopped(msgs[j], v)
  /\ \A i, k \in 1 .. Len(msgs) :
       i < k /\ Started(msgs[i], v) /\ Started(msgs[k], v)
         => \E j \in 1 .. Len(msgs) : i < j /\ j < k /\ Stopped(msgs[j], v)
  /\ c <= n
  /\ \A i \in 1 .. Len(msgs) :
       Started(msgs[i], v)
         => c + 1 <= n \/ \E j \in 1 .. Len(msgs) : j < i /\ Stopped(msgs[j], v)
  /\ there \/ c + 1 <= n \/ \E j \in 1 .. Len(msgs) : Stopped(msgs[j], v)

IsRest(rest, msgs) ==
  /\ Len(msgs) = Len(rest) + 1 /\ Len(rest) \in Nat
  /\ \A i \in 1 .. Len(rest) : rest[i] = msgs[i + 1]

LEMMA TailOf ==
  ASSUME NEW T, NEW msgs \in Seq(T), msgs # <<>>
  PROVE  Tail(msgs) \in Seq(T) /\ Head(msgs) = msgs[1] /\ IsRest(Tail(msgs), msgs)
  BY DEF IsRest

LEMMA StartIsThere ==
  ASSUME NEW v, NEW here, NEW c, NEW msgs, NEW there, NEW n, Agree(v, here, c, msgs, there, n),
         NEW i \in 1 .. Len(msgs), Started(msgs[i], v)
  PROVE  there \/ \E j \in 1 .. Len(msgs) : i < j /\ Stopped(msgs[j], v)
  BY DEF Agree

\* What follows a message in the rest follows it in the whole.
LEMMA LaterStop ==
  ASSUME NEW v, NEW here, NEW c, NEW msgs, NEW there, NEW n,
         Agree(v, here, c, msgs, there, n),
         NEW rest, IsRest(rest, msgs),
         NEW i \in 1 .. Len(rest), Started(rest[i], v)
  PROVE  there \/ \E j \in 1 .. Len(rest) : i < j /\ Stopped(rest[j], v)
<1>0. /\ Len(msgs) = Len(rest) + 1 /\ Len(rest) \in Nat
      /\ \A j \in 1 .. Len(rest) : rest[j] = msgs[j + 1]
  BY DEF IsRest
<1>1. i + 1 \in 1 .. Len(msgs) /\ Started(msgs[i + 1], v)
  BY <1>0
<1> SUFFICES ASSUME ~there PROVE \E j \in 1 .. Len(rest) : i < j /\ Stopped(rest[j], v)
  OBVIOUS
<1>2. PICK j \in 1 .. Len(msgs) : i + 1 < j /\ Stopped(msgs[j], v)
  BY <1>1 DEF Agree
<1>3. j - 1 \in 1 .. Len(rest) /\ i < j - 1
  BY <1>0, <1>2
<1>4. rest[j - 1] = msgs[j]
  BY <1>0, <1>2, <1>3
<1> QED
  BY <1>2, <1>3, <1>4

LEMMA StopBetween ==
  ASSUME NEW v, NEW here, NEW c, NEW msgs, NEW there, NEW n,
         Agree(v, here, c, msgs, there, n),
         NEW rest, IsRest(rest, msgs),
         NEW i \in 1 .. Len(rest), NEW k \in 1 .. Len(rest), i < k,
         Started(rest[i], v), Started(rest[k], v)
  PROVE  \E j \in 1 .. Len(rest) : i < j /\ j < k /\ Stopped(rest[j], v)
<1>0. /\ Len(msgs) = Len(rest) + 1 /\ Len(rest) \in Nat
      /\ \A j \in 1 .. Len(rest) : rest[j] = msgs[j + 1]
  BY DEF IsRest
<1>1. /\ i + 1 \in 1 .. Len(msgs) /\ Started(msgs[i + 1], v)
      /\ k + 1 \in 1 .. Len(msgs) /\ Started(msgs[k + 1], v) /\ i + 1 < k + 1
  BY <1>0
<1>2. PICK j \in 1 .. Len(msgs) : i + 1 < j /\ j < k + 1 /\ Stopped(msgs[j], v)
  BY <1>1 DEF Agree
<1>3. j - 1 \in 1 .. Len(rest) /\ i < j - 1 /\ j - 1 < k
  BY <1>0, <1>2
<1>4. rest[j - 1] = msgs[j]
  BY <1>0, <1>2, <1>3
<1> QED
  BY <1>2, <1>3, <1>4

LEMMA TakeStarted ==
  ASSUME NEW v, NEW here \in BOOLEAN, NEW c \in Nat, NEW T, NEW msgs \in Seq(T), msgs # <<>>,
         NEW there \in BOOLEAN, NEW n \in Nat,
         Agree(v, here, c, msgs, there, n), Started(Head(msgs), v)
  PROVE  Agree(v, TRUE, c + 1, Tail(msgs), there, n)
<1> DEFINE rest == Tail(msgs)
<1>0. Head(msgs) = msgs[1] /\ IsRest(rest, msgs)
  BY TailOf
<1>1. /\ Len(msgs) = Len(rest) + 1 /\ Len(rest) \in Nat /\ Head(msgs) = msgs[1]
      /\ \A i \in 1 .. Len(rest) : rest[i] = msgs[i + 1]
  BY <1>0 DEF IsRest
<1> HIDE DEF rest
<1>2. ~Stopped(msgs[1], v)
  BY <1>1 DEF Started, Stopped
<1>3. \A j \in 1 .. Len(msgs) : j = 1 \/ (j - 1 \in 1 .. Len(rest) /\ rest[j - 1] = msgs[j])
  BY <1>1
<1>4. there => \/ \A j \in 1 .. Len(rest) : ~Stopped(rest[j], v)
               \/ \E i \in 1 .. Len(rest) :
                    Started(rest[i], v) /\ \A j \in 1 .. Len(rest) : i < j => ~Stopped(rest[j], v)
  <2> SUFFICES ASSUME there, NEW k \in 1 .. Len(rest), Stopped(rest[k], v)
               PROVE  \E i \in 1 .. Len(rest) :
                    Started(rest[i], v) /\ \A j \in 1 .. Len(rest) : i < j => ~Stopped(rest[j], v)
    OBVIOUS
  <2>1. k + 1 \in 1 .. Len(msgs) /\ Stopped(msgs[k + 1], v)
    BY <1>1
  <2>2. PICK i \in 1 .. Len(msgs) :
           Started(msgs[i], v) /\ \A j \in 1 .. Len(msgs) : i < j => ~Stopped(msgs[j], v)
    BY <2>1 DEF Agree
  <2>3. i # 1
    BY <2>1, <2>2
  <2>4. i - 1 \in 1 .. Len(rest) /\ rest[i - 1] = msgs[i]
    BY <1>3, <2>3
  <2>5. ASSUME NEW j \in 1 .. Len(rest), i - 1 < j
        PROVE  ~Stopped(rest[j], v)
    <3>1. j + 1 \in 1 .. Len(msgs) /\ rest[j] = msgs[j + 1] /\ i < j + 1
      BY <1>1, <2>5
    <3> QED
      BY <2>2, <3>1
  <2> QED
    BY <2>2, <2>4, <2>5
<1>5. there \/ \E j \in 1 .. Len(rest) : Stopped(rest[j], v)
  <2>1. 1 \in 1 .. Len(msgs) /\ Started(msgs[1], v)
    BY <1>1
  <2> SUFFICES ASSUME ~there PROVE \E j \in 1 .. Len(rest) : Stopped(rest[j], v)
    OBVIOUS
  <2>2. PICK j \in 1 .. Len(msgs) : 1 < j /\ Stopped(msgs[j], v)
    BY <2>1 DEF Agree
  <2> QED
    BY <1>3, <2>2
<1>6. c + 1 <= n
  BY <1>1 DEF Agree
<1>7. ASSUME NEW i \in 1 .. Len(rest), Started(rest[i], v)
      PROVE  \E j \in 1 .. Len(rest) : j < i /\ Stopped(rest[j], v)
  <2>1. i + 1 \in 1 .. Len(msgs) /\ 1 \in 1 .. Len(msgs) /\ 1 < i + 1
    BY <1>1
  <2>2. Started(msgs[1], v) /\ Started(msgs[i + 1], v)
    BY <1>1, <1>7
  <2>3. PICK j \in 1 .. Len(msgs) : 1 < j /\ j < i + 1 /\ Stopped(msgs[j], v)
    BY <2>1, <2>2 DEF Agree
  <2>4. j - 1 \in 1 .. Len(rest) /\ rest[j - 1] = msgs[j] /\ j - 1 < i
    BY <1>3, <2>3
  <2> QED
    BY <2>3, <2>4
<1>8. ASSUME NEW i \in 1 .. Len(rest), Started(rest[i], v)
      PROVE  there \/ \E j \in 1 .. Len(rest) : i < j /\ Stopped(rest[j], v)
  BY <1>0, <1>8, LaterStop
<1>9. ASSUME NEW i \in 1 .. Len(rest), NEW k \in 1 .. Len(rest),
             i < k, Started(rest[i], v), Started(rest[k], v)
      PROVE  \E j \in 1 .. Len(rest) : i < j /\ j < k /\ Stopped(rest[j], v)
  BY <1>0, <1>9, StopBetween
<1> QED
  BY <1>4, <1>5, <1>6, <1>7, <1>8, <1>9 DEF Agree, rest

LEMMA TakeStopped ==
  ASSUME NEW v, NEW here \in BOOLEAN, NEW c \in Nat, NEW T, NEW msgs \in Seq(T), msgs # <<>>,
         NEW there \in BOOLEAN, NEW n \in Nat, 1 <= n,
         Agree(v, here, c, msgs, there, n), Stopped(Head(msgs), v)
  PROVE  Agree(v, FALSE, 0, Tail(msgs), there, n)
<1> DEFINE rest == Tail(msgs)
<1>0. Head(msgs) = msgs[1] /\ IsRest(rest, msgs)
  BY TailOf
<1>1. /\ Len(msgs) = Len(rest) + 1 /\ Len(rest) \in Nat /\ Head(msgs) = msgs[1]
      /\ \A i \in 1 .. Len(rest) : rest[i] = msgs[i + 1]
  BY <1>0 DEF IsRest
<1> HIDE DEF rest
<1>2. 1 \in 1 .. Len(msgs) /\ Stopped(msgs[1], v) /\ ~Started(msgs[1], v)
  BY <1>1 DEF Started, Stopped
<1>3. \A j \in 1 .. Len(msgs) : j = 1 \/ (j - 1 \in 1 .. Len(rest) /\ rest[j - 1] = msgs[j])
  BY <1>1
<1>4. ASSUME there
      PROVE  \E i \in 1 .. Len(rest) :
               Started(rest[i], v) /\ \A j \in 1 .. Len(rest) : i < j => ~Stopped(rest[j], v)
  <2>1. PICK i \in 1 .. Len(msgs) :
           Started(msgs[i], v) /\ \A j \in 1 .. Len(msgs) : i < j => ~Stopped(msgs[j], v)
    BY <1>2, <1>4 DEF Agree
  <2>2. i - 1 \in 1 .. Len(rest) /\ rest[i - 1] = msgs[i]
    BY <1>2, <1>3, <2>1
  <2>3. ASSUME NEW j \in 1 .. Len(rest), i - 1 < j
        PROVE  ~Stopped(rest[j], v)
    <3>1. j + 1 \in 1 .. Len(msgs) /\ rest[j] = msgs[j + 1] /\ i < j + 1
      BY <1>1, <2>3
    <3> QED
      BY <2>1, <3>1
  <2> QED
    BY <2>1, <2>2, <2>3
<1>8. ASSUME NEW i \in 1 .. Len(rest), Started(rest[i], v)
      PROVE  there \/ \E j \in 1 .. Len(rest) : i < j /\ Stopped(rest[j], v)
  BY <1>0, <1>8, LaterStop
<1>9. ASSUME NEW i \in 1 .. Len(rest), NEW k \in 1 .. Len(rest),
             i < k, Started(rest[i], v), Started(rest[k], v)
      PROVE  \E j \in 1 .. Len(rest) : i < j /\ j < k /\ Stopped(rest[j], v)
  BY <1>0, <1>9, StopBetween
<1> QED
  BY <1>4, <1>8, <1>9 DEF Agree, rest

\* Any other message, and what is here may have lost entries on the way.
LEMMA TakeOther ==
  ASSUME NEW v, NEW here \in BOOLEAN, NEW c \in Nat, NEW T, NEW msgs \in Seq(T), msgs # <<>>,
         NEW there \in BOOLEAN, NEW n \in Nat,
         Agree(v, here, c, msgs, there, n),
         ~Started(Head(msgs), v), ~Stopped(Head(msgs), v),
         NEW still \in BOOLEAN, there => (still <=> here), NEW d \in Nat, d <= c
  PROVE  Agree(v, still, d, Tail(msgs), there, n)
<1> DEFINE rest == Tail(msgs)
<1>0. Head(msgs) = msgs[1] /\ IsRest(rest, msgs)
  BY TailOf
<1>1. /\ Len(msgs) = Len(rest) + 1 /\ Len(rest) \in Nat /\ Head(msgs) = msgs[1]
      /\ \A i \in 1 .. Len(rest) : rest[i] = msgs[i + 1]
  BY <1>0 DEF IsRest
<1> HIDE DEF rest
<1>2. 1 \in 1 .. Len(msgs) /\ ~Stopped(msgs[1], v) /\ ~Started(msgs[1], v)
  BY <1>1
<1>3. \A j \in 1 .. Len(msgs) : j = 1 \/ (j - 1 \in 1 .. Len(rest) /\ rest[j - 1] = msgs[j])
  BY <1>1
<1>4. ASSUME there, ~(still /\ \A j \in 1 .. Len(rest) : ~Stopped(rest[j], v))
      PROVE  \E i \in 1 .. Len(rest) :
               Started(rest[i], v) /\ \A j \in 1 .. Len(rest) : i < j => ~Stopped(rest[j], v)
  <2>0. ~(here /\ \A j \in 1 .. Len(msgs) : ~Stopped(msgs[j], v))
    <3>1. ASSUME NEW j \in 1 .. Len(rest), Stopped(rest[j], v)
          PROVE  j + 1 \in 1 .. Len(msgs) /\ Stopped(msgs[j + 1], v)
      BY <1>1, <3>1
    <3> QED
      BY <1>4, <3>1
  <2>1. PICK i \in 1 .. Len(msgs) :
           Started(msgs[i], v) /\ \A j \in 1 .. Len(msgs) : i < j => ~Stopped(msgs[j], v)
    BY <1>4, <2>0 DEF Agree
  <2>2. i - 1 \in 1 .. Len(rest) /\ rest[i - 1] = msgs[i]
    BY <1>2, <1>3, <2>1
  <2>3. ASSUME NEW j \in 1 .. Len(rest), i - 1 < j
        PROVE  ~Stopped(rest[j], v)
    <3>1. j + 1 \in 1 .. Len(msgs) /\ rest[j] = msgs[j + 1] /\ i < j + 1
      BY <1>1, <2>3
    <3> QED
      BY <2>1, <3>1
  <2> QED
    BY <2>1, <2>2, <2>3
<1>5. d <= n
  BY DEF Agree
<1>6. there \/ d + 1 <= n \/ \E j \in 1 .. Len(rest) : Stopped(rest[j], v)
  <2> SUFFICES ASSUME ~there, ~(d + 1 <= n) PROVE \E j \in 1 .. Len(rest) : Stopped(rest[j], v)
    OBVIOUS
  <2>1. PICK j \in 1 .. Len(msgs) : Stopped(msgs[j], v)
    BY DEF Agree
  <2> QED
    BY <1>2, <1>3, <2>1
<1>7. ASSUME NEW i \in 1 .. Len(rest), Started(rest[i], v), ~(d + 1 <= n)
      PROVE  \E j \in 1 .. Len(rest) : j < i /\ Stopped(rest[j], v)
  <2>1. i + 1 \in 1 .. Len(msgs) /\ Started(msgs[i + 1], v)
    BY <1>1, <1>7
  <2>2. PICK j \in 1 .. Len(msgs) : j < i + 1 /\ Stopped(msgs[j], v)
    BY <1>7, <2>1 DEF Agree
  <2>3. j - 1 \in 1 .. Len(rest) /\ rest[j - 1] = msgs[j] /\ j - 1 < i
    BY <1>2, <1>3, <2>2
  <2> QED
    BY <2>2, <2>3
<1>8. ASSUME NEW i \in 1 .. Len(rest), Started(rest[i], v)
      PROVE  there \/ \E j \in 1 .. Len(rest) : i < j /\ Stopped(rest[j], v)
  BY <1>0, <1>8, LaterStop
<1>9. ASSUME NEW i \in 1 .. Len(rest), NEW k \in 1 .. Len(rest),
             i < k, Started(rest[i], v), Started(rest[k], v)
      PROVE  \E j \in 1 .. Len(rest) : i < j /\ j < k /\ Stopped(rest[j], v)
  BY <1>0, <1>9, StopBetween
<1> QED
  BY <1>4, <1>5, <1>6, <1>7, <1>8, <1>9 DEF Agree, rest

\* One message more.
IsMore(more, msgs, m) ==
  /\ Len(more) = Len(msgs) + 1 /\ Len(msgs) \in Nat
  /\ \A i \in 1 .. Len(msgs) : more[i] = msgs[i]
  /\ more[Len(more)] = m

LEMMA PutOther ==
  ASSUME NEW v, NEW here, NEW c, NEW msgs, NEW there, NEW n,
         Agree(v, here, c, msgs, there, n),
         NEW more, NEW m, IsMore(more, msgs, m), ~Started(m, v), ~Stopped(m, v)
  PROVE  Agree(v, here, c, more, there, n)
<1>1. /\ \A i \in 1 .. Len(msgs) : i \in 1 .. Len(more) /\ more[i] = msgs[i]
      /\ \A i \in 1 .. Len(more) : i \in 1 .. Len(msgs) \/ (~Started(more[i], v) /\ ~Stopped(more[i], v))
  BY DEF IsMore
<1>2. there => \/ here /\ \A j \in 1 .. Len(more) : ~Stopped(more[j], v)
               \/ \E i \in 1 .. Len(more) :
                    Started(more[i], v) /\ \A j \in 1 .. Len(more) : i < j => ~Stopped(more[j], v)
  BY <1>1 DEF Agree
<1>3. \A i \in 1 .. Len(more) :
        Started(more[i], v) => there \/ \E j \in 1 .. Len(more) : i < j /\ Stopped(more[j], v)
  BY <1>1 DEF Agree
<1>4. \A i, k \in 1 .. Len(more) :
        i < k /\ Started(more[i], v) /\ Started(more[k], v)
          => \E j \in 1 .. Len(more) : i < j /\ j < k /\ Stopped(more[j], v)
  BY <1>1 DEF Agree
<1>5. \A i \in 1 .. Len(more) :
        Started(more[i], v)
          => c + 1 <= n \/ \E j \in 1 .. Len(more) : j < i /\ Stopped(more[j], v)
  BY <1>1 DEF Agree
<1>6. there \/ c + 1 <= n \/ \E j \in 1 .. Len(more) : Stopped(more[j], v)
  BY <1>1 DEF Agree
<1>7. c <= n
  BY DEF Agree
<1> QED
  BY <1>2, <1>3, <1>4, <1>5, <1>6, <1>7 DEF Agree

LEMMA PutStarted ==
  ASSUME NEW v, NEW here, NEW c, NEW msgs, NEW there, NEW n,
         Agree(v, here, c, msgs, there, n), ~there,
         NEW more, NEW m, IsMore(more, msgs, m), Started(m, v)
  PROVE  Agree(v, here, c, more, TRUE, n)
<1> DEFINE last == Len(more)
<1>1. /\ \A i \in 1 .. Len(msgs) : i \in 1 .. last /\ more[i] = msgs[i] /\ i < last
      /\ last \in 1 .. last /\ Started(more[last], v) /\ ~Stopped(more[last], v)
      /\ \A i \in 1 .. last : i \in 1 .. Len(msgs) \/ i = last
      /\ \A i \in 1 .. last : ~(last < i)
  BY DEF IsMore, Started, Stopped
<1> HIDE DEF last
<1>2. \E i \in 1 .. last :
        Started(more[i], v) /\ \A j \in 1 .. last : i < j => ~Stopped(more[j], v)
  BY <1>1
<1>3. ASSUME NEW i \in 1 .. last, NEW k \in 1 .. last,
             i < k, Started(more[i], v), Started(more[k], v)
      PROVE  \E j \in 1 .. last : i < j /\ j < k /\ Stopped(more[j], v)
  <2>1. i \in 1 .. Len(msgs) /\ Started(msgs[i], v)
    BY <1>1, <1>3
  <2>2. CASE k \in 1 .. Len(msgs)
    <3>1. PICK j \in 1 .. Len(msgs) : i < j /\ j < k /\ Stopped(msgs[j], v)
      BY <1>1, <1>3, <2>1, <2>2 DEF Agree
    <3> QED
      BY <1>1, <3>1
  <2>3. CASE k = last
    <3>1. PICK j \in 1 .. Len(msgs) : i < j /\ Stopped(msgs[j], v)
      BY <2>1 DEF Agree
    <3> QED
      BY <1>1, <2>3, <3>1
  <2> QED
    BY <1>1, <2>2, <2>3
<1>4. ASSUME NEW i \in 1 .. last, Started(more[i], v), ~(c + 1 <= n)
      PROVE  \E j \in 1 .. last : j < i /\ Stopped(more[j], v)
  <2>1. CASE i \in 1 .. Len(msgs)
    <3>1. PICK j \in 1 .. Len(msgs) : j < i /\ Stopped(msgs[j], v)
      BY <1>1, <1>4, <2>1 DEF Agree
    <3> QED
      BY <1>1, <3>1
  <2>2. CASE i = last
    <3>1. PICK j \in 1 .. Len(msgs) : Stopped(msgs[j], v)
      BY <1>4 DEF Agree
    <3> QED
      BY <1>1, <2>2, <3>1
  <2> QED
    BY <1>1, <2>1, <2>2
<1>5. c <= n
  BY DEF Agree
<1> QED
  BY <1>2, <1>3, <1>4, <1>5 DEF Agree, last

LEMMA PutStopped ==
  ASSUME NEW v, NEW here, NEW c, NEW msgs, NEW there, NEW n,
         Agree(v, here, c, msgs, there, n),
         NEW more, NEW m, IsMore(more, msgs, m), Stopped(m, v)
  PROVE  Agree(v, here, c, more, FALSE, n)
<1> DEFINE last == Len(more)
<1>1. /\ \A i \in 1 .. Len(msgs) : i \in 1 .. last /\ more[i] = msgs[i] /\ i < last
      /\ last \in 1 .. last /\ Stopped(more[last], v) /\ ~Started(more[last], v)
      /\ \A i \in 1 .. last : i \in 1 .. Len(msgs) \/ i = last
  BY DEF IsMore, Started, Stopped
<1> HIDE DEF last
<1>2. ASSUME NEW i \in 1 .. last, Started(more[i], v)
      PROVE  i \in 1 .. Len(msgs) /\ Started(msgs[i], v) /\ i < last
  BY <1>1, <1>2
<1>3. ASSUME NEW i \in 1 .. last, NEW k \in 1 .. last,
             i < k, Started(more[i], v), Started(more[k], v)
      PROVE  \E j \in 1 .. last : i < j /\ j < k /\ Stopped(more[j], v)
  <2>1. PICK j \in 1 .. Len(msgs) : i < j /\ j < k /\ Stopped(msgs[j], v)
    BY <1>2, <1>3 DEF Agree
  <2> QED
    BY <1>1, <2>1
<1>4. ASSUME NEW i \in 1 .. last, Started(more[i], v), ~(c + 1 <= n)
      PROVE  \E j \in 1 .. last : j < i /\ Stopped(more[j], v)
  <2>1. PICK j \in 1 .. Len(msgs) : j < i /\ Stopped(msgs[j], v)
    BY <1>2, <1>4 DEF Agree
  <2> QED
    BY <1>1, <2>1
<1>5. c <= n
  BY DEF Agree
<1>6. \A i \in 1 .. last : Started(more[i], v) => \E j \in 1 .. last : i < j /\ Stopped(more[j], v)
  BY <1>1, <1>2
<1>7. \E j \in 1 .. last : Stopped(more[j], v)
  BY <1>1
<1> QED
  BY <1>3, <1>4, <1>5, <1>6, <1>7 DEF Agree, last

-----------------------------------------------------------------------------
(* The server.                                                             *)

LEMMA RequestsDiffer ==
  ASSUME NEW v, NEW w
  PROVE  /\ StartRequest(v) # StopRequest(w)
         /\ StartRequest(v) = StartRequest(w) <=> v = w
         /\ StopRequest(v) = StopRequest(w) <=> v = w
         /\ \A S : /\ ValueInfoRequest(S) # StartRequest(v)
                  /\ ValueInfoRequest(S) # StopRequest(v)
         /\ ValueListRequest # StartRequest(v) /\ ValueListRequest # StopRequest(v)
<1>1. /\ StartRequest(v).type = "MONITORSTART_REQUEST" /\ StartRequest(v).variable = v
      /\ StartRequest(w).variable = w
      /\ StopRequest(w).type = "MONITORSTOP_REQUEST" /\ StopRequest(w).variable = w
      /\ StopRequest(v).type = "MONITORSTOP_REQUEST" /\ StopRequest(v).variable = v
      /\ ValueListRequest.type = "VALUELIST_REQUEST"
      /\ \A S : ValueInfoRequest(S).type = "VALUEINFO_REQUEST"
  BY DEF StartRequest, StopRequest, ValueListRequest, ValueInfoRequest
<1> QED
  BY <1>1

\* What the server answers to a request, when S are the monitors.
LEMMA AnswerOf ==
  ASSUME NEW r \in Requests, NEW S, served \subseteq Variables, NEW v
  PROVE  /\ Answer(S, r) \in Responses
         /\ Started(Answer(S, r), v) <=> r = StartRequest(v) /\ v \in served /\ v \notin S
         /\ Stopped(Answer(S, r), v) <=> r = StopRequest(v)
         /\ r = ValueListRequest => Answer(S, r) = ValueListResponse(served)
         /\ \A X : r = ValueInfoRequest(X) => Answer(S, r) = ValueInfoResponse(X)
         /\ \A w : r \in {StartRequest(w), StopRequest(w)} => ~Shakes(Answer(S, r))
<1>1. CASE r = ValueListRequest
  <2>1. Answer(S, r) = ValueListResponse(served)
    BY <1>1 DEF Answer, ValueListRequest
  <2>2. ValueListResponse(served) \in Responses
    BY DEF Responses
  <2> QED
    BY <1>1, <2>1, <2>2, RequestsDiffer
       DEF Started, Stopped, ValueListResponse, ValueInfoRequest, ValueListRequest
<1>2. ASSUME NEW X \in SUBSET Variables, r = ValueInfoRequest(X)
      PROVE  /\ Answer(S, r) = ValueInfoResponse(X)
             /\ Answer(S, r) \in Responses
             /\ ~Started(Answer(S, r), v) /\ ~Stopped(Answer(S, r), v)
             /\ r # StartRequest(v) /\ r # StopRequest(v) /\ r # ValueListRequest
             /\ \A w : r # StartRequest(w) /\ r # StopRequest(w)
             /\ \A Y : r = ValueInfoRequest(Y) => X = Y
  <2>1. Answer(S, r) = ValueInfoResponse(X)
    BY <1>2 DEF Answer, ValueInfoRequest
  <2>2. ValueInfoResponse(X) \in Responses
    BY DEF Responses
  <2>3. r # ValueListRequest /\ \A Y : r = ValueInfoRequest(Y) => X = Y
    <3>1. r.type = "VALUEINFO_REQUEST" /\ ValueListRequest.type = "VALUELIST_REQUEST"
      BY <1>2 DEF ValueInfoRequest, ValueListRequest
    <3>2. r.variables = X /\ \A Y : ValueInfoRequest(Y).variables = Y
      BY <1>2 DEF ValueInfoRequest
    <3> QED
      BY <3>1, <3>2
  <2> QED
    BY <1>2, <2>1, <2>2, <2>3, RequestsDiffer DEF Started, Stopped, ValueInfoResponse
<1>3. ASSUME NEW x \in Variables, r = StartRequest(x)
      PROVE  /\ Answer(S, r) = StartResponse(x, AcceptsStart(x, S))
             /\ Answer(S, r) \in Responses
             /\ Started(Answer(S, r), v) <=> x = v /\ v \in served /\ v \notin S
             /\ ~Stopped(Answer(S, r), v) /\ ~Shakes(Answer(S, r))
  <2>1. Answer(S, r) = StartResponse(x, AcceptsStart(x, S))
    BY <1>3 DEF Answer, StartRequest
  <2>2. AcceptsStart(x, S) \in BOOLEAN
    BY DEF AcceptsStart
  <2>3. StartResponse(x, AcceptsStart(x, S)) \in Responses
    BY <2>2 DEF Responses
  <2> DEFINE ok == AcceptsStart(x, S)
             m == StartResponse(x, ok)
  <2>4. m.type = "MONITORSTART_RESPONSE" /\ m.variable = x /\ m.ok = ok
    BY DEF StartResponse
  <2>5. Started(m, v) <=> x = v /\ ok = TRUE
    BY <2>4 DEF Started
  <2>6. ok = TRUE <=> x \in served /\ x \notin S
    BY <2>2 DEF AcceptsStart
  <2>7. ~Stopped(m, v) /\ ~Shakes(m)
    BY <2>4 DEF Stopped, Shakes
  <2> QED
    BY <2>1, <2>3, <2>5, <2>6, <2>7
<1>4. ASSUME NEW x \in Variables, r = StopRequest(x)
      PROVE  /\ Answer(S, r) = StopResponse(x, AcceptsStop(x, S))
             /\ Answer(S, r) \in Responses
             /\ ~Started(Answer(S, r), v) /\ ~Shakes(Answer(S, r))
             /\ Stopped(Answer(S, r), v) <=> x = v
  <2>1. Answer(S, r) = StopResponse(x, AcceptsStop(x, S))
    BY <1>4 DEF Answer, StopRequest
  <2>2. AcceptsStop(x, S) \in BOOLEAN
    BY DEF AcceptsStop
  <2>3. StopResponse(x, AcceptsStop(x, S)) \in Responses
    BY <2>2 DEF Responses
  <2> QED
    BY <2>1, <2>3 DEF Started, Stopped, Shakes, StopResponse
<1> QED
  BY <1>1, <1>2, <1>3, <1>4, RequestsDiffer DEF Requests

LEMMA MaxIs ==
  ASSUME NEW k \in Nat, NEW s \in SUBSET (1 .. k), k \in s
  PROVE  Max(s) = k
<1>1. \A y \in s : y <= k
  OBVIOUS
<1>2. \A x \in s : (\A y \in s : x >= y) <=> x = k
  BY <1>1
<1> QED
  BY <1>2 DEF Max

\* A set of indices has its greatest one.
LEMMA MaxIn ==
  ASSUME NEW k \in Nat, NEW s \in SUBSET (1 .. k), s # {}
  PROVE  Max(s) \in s
<1> DEFINE T == {k - x : x \in s}
<1>0. \A x \in s : x \in Nat /\ x <= k
  OBVIOUS
<1>1. T \subseteq Nat /\ T # {}
  <2>1. \A x \in s : k - x \in Nat
    BY <1>0
  <2>2. PICK x \in s : TRUE
    OBVIOUS
  <2>3. k - x \in T
    BY <2>2
  <2> QED
    BY <2>1, <2>3
<1>2. PICK t \in T : \A y \in T : t <= y
  BY <1>1, Keeping!Least
<1>3. PICK x \in s : t = k - x
  BY <1>2
<1>4. ASSUME NEW y \in s
      PROVE  x >= y
  <2>1. k - x <= k - y
    BY <1>2, <1>3
  <2> QED
    BY <1>0, <2>1
<1> QED
  BY <1>4 DEF Max

\* What the requests do to the monitors of one variable, one after the other.
LEMMA MonitorsStep ==
  ASSUME NEW S, NEW requests \in Seq(Requests), NEW k \in 1 .. Len(requests), NEW v
  PROVE  LET before == MonitorsAfter(S, SubSeq(requests, 1, k - 1))
             after  == MonitorsAfter(S, SubSeq(requests, 1, k))
         IN  /\ requests[k] = StartRequest(v) => (v \in after <=> v \in served)
             /\ requests[k] = StopRequest(v) => v \notin after
             /\ requests[k] # StartRequest(v) /\ requests[k] # StopRequest(v)
                  => (v \in after <=> v \in before)
<1> DEFINE early == SubSeq(requests, 1, k - 1)
           late  == SubSeq(requests, 1, k)
           E == {i \in DOMAIN early : early[i] \in {StartRequest(v), StopRequest(v)}}
           L == {i \in DOMAIN late : late[i] \in {StartRequest(v), StopRequest(v)}}
<1>1. /\ DOMAIN early = 1 .. k - 1 /\ \A i \in 1 .. k - 1 : early[i] = requests[i]
      /\ DOMAIN late = 1 .. k /\ \A i \in 1 .. k : late[i] = requests[i]
  OBVIOUS
<1>2. v \in MonitorsAfter(S, early)
        <=> v \in served /\ (IF E = {} THEN v \in S ELSE early[Max(E)] = StartRequest(v))
  BY DEF MonitorsAfter
<1>3. v \in MonitorsAfter(S, late)
        <=> v \in served /\ (IF L = {} THEN v \in S ELSE late[Max(L)] = StartRequest(v))
  BY DEF MonitorsAfter
<1> HIDE DEF early, late
<1>4. CASE requests[k] \in {StartRequest(v), StopRequest(v)}
  <2>1. L \in SUBSET (1 .. k) /\ k \in L
    BY <1>1, <1>4
  <2>2. Max(L) = k
    BY <2>1, MaxIs
  <2>3. v \in MonitorsAfter(S, late) <=> v \in served /\ requests[k] = StartRequest(v)
    BY <1>1, <1>3, <2>1, <2>2
  <2> QED
    BY <1>4, <2>3, RequestsDiffer DEF early, late
<1>5. CASE requests[k] \notin {StartRequest(v), StopRequest(v)}
  <2>1. E = L
    BY <1>1, <1>5
  <2>2. E # {} => early[Max(E)] = late[Max(E)]
    <3> SUFFICES ASSUME E # {} PROVE early[Max(E)] = late[Max(E)]
      OBVIOUS
    <3>1. Max(E) \in E
      <4>1. E \subseteq 1 .. k - 1
        BY <1>1
      <4>2. k - 1 \in Nat
        OBVIOUS
      <4> HIDE DEF E
      <4> QED
        BY <4>1, <4>2, MaxIn
    <3> QED
      BY <1>1, <3>1
  <2> QED
    BY <1>2, <1>3, <1>5, <2>1, <2>2 DEF early, late
<1> QED
  BY <1>4, <1>5

LEMMA MonitorsAtEnds ==
  ASSUME NEW requests \in Seq(Requests), monitors \subseteq served
  PROVE  /\ MonitorsAfter(monitors, SubSeq(requests, 1, 0)) = monitors
         /\ SubSeq(requests, 1, Len(requests)) = requests
         /\ \A r : MonitorsAfter(monitors, r) \subseteq served
<1>1. DOMAIN SubSeq(requests, 1, 0) = {}
  OBVIOUS
<1>2. MonitorsAfter(monitors, SubSeq(requests, 1, 0)) = {v \in served : v \in monitors}
  BY <1>1 DEF MonitorsAfter
<1>3. \A r : MonitorsAfter(monitors, r) \subseteq served
  BY DEF MonitorsAfter
<1>4. {v \in served : v \in monitors} = monitors
  OBVIOUS
<1>5. SubSeq(requests, 1, Len(requests)) = requests
  OBVIOUS
<1> QED
  BY <1>2, <1>3, <1>4, <1>5

\* The messages that wait after the answers to the first k requests.
Until(waiting, requests, k) == SubSeq(waiting \o Answers(requests), 1, Len(waiting) + k)

MonitorsUntil(requests, k) == MonitorsAfter(monitors, SubSeq(requests, 1, k))

LEMMA AnswersAreSent ==
  ASSUME NEW waiting \in Seq(Responses), NEW requests \in Seq(Requests), served \subseteq Variables
  PROVE  /\ waiting \o Answers(requests) \in Seq(Responses)
         /\ Len(waiting \o Answers(requests)) = Len(waiting) + Len(requests)
         /\ \A i \in 1 .. Len(waiting) : (waiting \o Answers(requests))[i] = waiting[i]
         /\ \A k \in 1 .. Len(requests) :
              (waiting \o Answers(requests))[Len(waiting) + k]
                = Answer(MonitorsUntil(requests, k - 1), requests[k])
<1> DEFINE A == Answers(requests)
<1>1. DOMAIN requests = 1 .. Len(requests) /\ Len(requests) \in Nat
  OBVIOUS
<1>2. /\ DOMAIN A = 1 .. Len(requests)
      /\ \A k \in 1 .. Len(requests) : A[k] = Answer(MonitorsUntil(requests, k - 1), requests[k])
      /\ A = [k \in 1 .. Len(requests) |-> A[k]]
  BY <1>1 DEF Answers, MonitorsUntil
<1> HIDE DEF A
<1>3. ASSUME NEW k \in 1 .. Len(requests)
      PROVE  A[k] \in Responses
  <2>1. requests[k] \in Requests
    OBVIOUS
  <2>2. \A S : Answer(S, requests[k]) \in Responses
    BY <2>1, AnswerOf
  <2> QED
    BY <1>2, <2>2
<1>4. A \in Seq(Responses) /\ Len(A) = Len(requests)
  BY <1>1, <1>2, <1>3
<1>5. /\ waiting \o A \in Seq(Responses)
      /\ Len(waiting \o A) = Len(waiting) + Len(requests)
      /\ \A i \in 1 .. Len(waiting) : (waiting \o A)[i] = waiting[i]
      /\ \A k \in 1 .. Len(requests) : (waiting \o A)[Len(waiting) + k] = A[k]
  BY <1>4
<1> QED
  BY <1>2, <1>5 DEF A

\* Nothing is left to do for a variable of the list: it is there, or a stop waits.
Settled(v, msgs, there) == there \/ \E j \in 1 .. Len(msgs) : Stopped(msgs[j], v)

\* The answer to one request keeps the agreement.
LEMMA AnswerKeeps ==
  ASSUME NEW v, NEW here, NEW c, NEW msgs, NEW S, NEW n, Agree(v, here, c, msgs, v \in S, n),
         served \subseteq Variables, S \subseteq served,
         NEW r \in Requests, NEW more, IsMore(more, msgs, Answer(S, r)),
         NEW T,
         r = StartRequest(v) => (v \in T <=> v \in served),
         r = StopRequest(v) => v \notin T,
         r # StartRequest(v) /\ r # StopRequest(v) => (v \in T <=> v \in S)
  PROVE  /\ Agree(v, here, c, more, v \in T, n)
         /\ r = StartRequest(v) \/ Settled(v, msgs, v \in S)
              => v \notin served \/ Settled(v, more, v \in T)
<1> DEFINE m == Answer(S, r)
<1>1. /\ Started(m, v) <=> r = StartRequest(v) /\ v \in served /\ v \notin S
      /\ Stopped(m, v) <=> r = StopRequest(v)
  BY AnswerOf
<1> HIDE DEF m
<1>2. IsMore(more, msgs, m)
  BY DEF m
<1>3. /\ \A i \in 1 .. Len(msgs) : i \in 1 .. Len(more) /\ more[i] = msgs[i]
      /\ Len(more) \in 1 .. Len(more) /\ more[Len(more)] = m
  BY <1>2 DEF IsMore
<1>4. CASE r = StartRequest(v) /\ v \in served /\ v \notin S
  <2>1. Started(m, v) /\ v \in T
    BY <1>1, <1>4
  <2>0. (v \in S) = FALSE
    BY <1>4
  <2>2. Agree(v, here, c, more, TRUE, n)
    BY <1>2, <2>0, <2>1, PutStarted
  <2>3. (v \in T) = TRUE
    BY <2>1
  <2> QED
    BY <2>1, <2>2, <2>3 DEF Settled
<1>5. CASE r = StopRequest(v)
  <2>1. Stopped(m, v) /\ v \notin T
    BY <1>1, <1>5
  <2>2. Agree(v, here, c, more, FALSE, n)
    BY <1>2, <2>1, PutStopped
  <2>3. (v \in T) = FALSE
    BY <2>1
  <2>4. Settled(v, more, v \in T)
    BY <1>3, <2>1 DEF Settled
  <2> QED
    BY <2>2, <2>3, <2>4
<1>6. CASE r # StopRequest(v) /\ ~(r = StartRequest(v) /\ v \in served /\ v \notin S)
  <2>1. ~Started(m, v) /\ ~Stopped(m, v)
    BY <1>1, <1>6
  <2>2. (v \in T) = (v \in S)
    BY <1>6
  <2>3. Agree(v, here, c, more, v \in S, n)
    BY <1>2, <2>1, PutOther
  <2>4. Settled(v, msgs, v \in S) => Settled(v, more, v \in T)
    BY <1>3, <2>2 DEF Settled
  <2>5. r = StartRequest(v) /\ v \in served => v \in T
    OBVIOUS
  <2>6. r = StartRequest(v) /\ v \in served => Settled(v, more, v \in T)
    BY <2>5 DEF Settled
  <2> QED
    BY <2>2, <2>3, <2>4, <2>6
<1> QED
  BY <1>4, <1>5, <1>6

\* The answers to all requests of a callback keep it.
LEMMA AnswersKeep ==
  ASSUME NEW waiting \in Seq(Responses), NEW requests \in Seq(Requests),
         served \subseteq Variables, monitors \subseteq served,
         NEW v, NEW here, NEW c, NEW n, Agree(v, here, c, waiting, v \in monitors, n)
  PROVE  LET all == waiting \o Answers(requests)
             after == MonitorsAfter(monitors, requests)
         IN  /\ Agree(v, here, c, all, v \in after, n)
             /\ StartRequest(v) \in Range(requests) \/ Settled(v, waiting, v \in monitors)
                  => v \notin served \/ Settled(v, all, v \in after)
<1> DEFINE M(k) == MonitorsUntil(requests, k)
           W(k) == Until(waiting, requests, k)
           asked(k) == \E j \in 1 .. k : requests[j] = StartRequest(v)
           P(k) == /\ Agree(v, here, c, W(k), v \in M(k), n)
                   /\ asked(k) \/ Settled(v, waiting, v \in monitors)
                        => v \notin served \/ Settled(v, W(k), v \in M(k))
           K == {k \in Nat : k <= Len(requests) => P(k)}
<1>1. /\ waiting \o Answers(requests) \in Seq(Responses)
      /\ Len(waiting \o Answers(requests)) = Len(waiting) + Len(requests)
      /\ \A i \in 1 .. Len(waiting) : (waiting \o Answers(requests))[i] = waiting[i]
      /\ \A k \in 1 .. Len(requests) :
           (waiting \o Answers(requests))[Len(waiting) + k] = Answer(M(k - 1), requests[k])
  BY AnswersAreSent
<1>2. Len(waiting) \in Nat /\ Len(requests) \in Nat
  OBVIOUS
<1>3. M(0) = monitors /\ M(Len(requests)) = MonitorsAfter(monitors, requests)
      /\ \A k : M(k) \subseteq served
  BY MonitorsAtEnds DEF MonitorsUntil
<1>4. W(0) = waiting /\ W(Len(requests)) = waiting \o Answers(requests)
  BY <1>1, <1>2 DEF Until
<1>5. ASSUME NEW k \in 1 .. Len(requests)
      PROVE  IsMore(W(k), W(k - 1), Answer(M(k - 1), requests[k]))
  <2> DEFINE all == waiting \o Answers(requests)
  <2>1. /\ all \in Seq(Responses) /\ Len(waiting) + k \in 1 .. Len(all)
        /\ Len(waiting) + (k - 1) \in 0 .. Len(all)
        /\ all[Len(waiting) + k] = Answer(M(k - 1), requests[k])
    BY <1>1, <1>2
  <2> HIDE DEF all
  <2>2. /\ Len(SubSeq(all, 1, Len(waiting) + k)) = Len(waiting) + k
        /\ Len(SubSeq(all, 1, Len(waiting) + (k - 1))) = Len(waiting) + (k - 1)
        /\ \A i \in 1 .. Len(waiting) + k : SubSeq(all, 1, Len(waiting) + k)[i] = all[i]
        /\ \A i \in 1 .. Len(waiting) + (k - 1) : SubSeq(all, 1, Len(waiting) + (k - 1))[i] = all[i]
    BY <1>2, <2>1
  <2> QED
    BY <1>2, <2>1, <2>2 DEF IsMore, Until, all
<1>6. ASSUME NEW k \in 1 .. Len(requests)
      PROVE  /\ requests[k] \in Requests
             /\ requests[k] = StartRequest(v) => (v \in M(k) <=> v \in served)
             /\ requests[k] = StopRequest(v) => v \notin M(k)
             /\ requests[k] # StartRequest(v) /\ requests[k] # StopRequest(v)
                  => (v \in M(k) <=> v \in M(k - 1))
  BY MonitorsStep DEF MonitorsUntil
<1> HIDE DEF M, W
<1>7. 0 \in K
  <2>1. ~asked(0)
    OBVIOUS
  <2>2. (v \in M(0)) = (v \in monitors)
    BY <1>3
  <2> QED
    BY <1>4, <2>1, <2>2
<1>8. ASSUME NEW k \in Nat, k \in K
      PROVE  k + 1 \in K
  <2> SUFFICES ASSUME k + 1 <= Len(requests) PROVE P(k + 1)
    OBVIOUS
  <2>1. P(k) /\ k + 1 \in 1 .. Len(requests) /\ (k + 1) - 1 = k
    BY <1>2, <1>8
  <2> DEFINE r == requests[k + 1]
  <2>2. IsMore(W(k + 1), W(k), Answer(M(k), r))
    BY <1>5, <2>1
  <2>3. /\ r \in Requests
        /\ r = StartRequest(v) => (v \in M(k + 1) <=> v \in served)
        /\ r = StopRequest(v) => v \notin M(k + 1)
        /\ r # StartRequest(v) /\ r # StopRequest(v) => (v \in M(k + 1) <=> v \in M(k))
    BY <1>6, <2>1
  <2>4. asked(k + 1) => asked(k) \/ r = StartRequest(v)
    OBVIOUS
  <2> HIDE DEF r, asked
  <2>5. /\ Agree(v, here, c, W(k + 1), v \in M(k + 1), n)
        /\ r = StartRequest(v) \/ Settled(v, W(k), v \in M(k))
             => v \notin served \/ Settled(v, W(k + 1), v \in M(k + 1))
    BY <1>3, <2>1, <2>2, <2>3, AnswerKeeps
  <2> QED
    BY <2>1, <2>4, <2>5
<1>9. Nat \subseteq K
  <2> HIDE DEF K
  <2> QED
    BY <1>7, <1>8, Keeping!CountingUp
<1>10. P(Len(requests))
  BY <1>2, <1>9
<1>11. StartRequest(v) \in Range(requests) => asked(Len(requests))
  BY DEF Range
<1> QED
  BY <1>3, <1>4, <1>10, <1>11

-----------------------------------------------------------------------------
(* The client and its server.                                              *)

\* The requests of callbacks into the panel.
Calls == {StartRequest(v) : v \in Variables} \cup {StopRequest(v) : v \in Variables}

\* At most one message of the handshake waits, and it tells what the server
\* has; and so does the list, once the value list has been received.
HandshakeGood(list, msgs, has) ==
  /\ \A i, j \in 1 .. Len(msgs) : Shakes(msgs[i]) /\ Shakes(msgs[j]) => i = j
  /\ \A i \in 1 .. Len(msgs) : Shakes(msgs[i]) => msgs[i].variables = has
  /\ \A i \in 1 .. Len(msgs) : \A v \in Variables : Started(msgs[i], v) => v \in has
  /\ (\A i \in 1 .. Len(msgs) : msgs[i].type # "VALUELIST_RESPONSE") => Range(list) \subseteq has

AllAgree(list, msgs, mons, n) ==
  \A v \in Variables : Agree(v, v \in Range(list), Count(list, v), msgs, v \in mons, n)

AllSettled(list, msgs, mons) ==
  (\A i \in 1 .. Len(msgs) : ~Shakes(msgs[i]))
    => \A v \in Range(list) : Settled(v, msgs, v \in mons)

ClientGood(list, msgs, mons, has, n) ==
  /\ msgs \in Seq(Responses) /\ mons \subseteq has
  /\ AllAgree(list, msgs, mons, n)
  /\ HandshakeGood(list, msgs, has)
  /\ AllSettled(list, msgs, mons)

ClientInv ==
  /\ ClientTypeOK
  /\ \A v \in Variables : Count(monitoringVariableList, v) <= connections
  /\ readyState = "CONNECTING" => toClient = <<>> /\ monitors = {}
  /\ readyState = "OPEN" =>
       /\ 1 <= connections
       /\ ClientGood(monitoringVariableList, toClient, monitors, served, connections)

LEMMA HandshakingIs ==
  ASSUME toClient \in Seq(Responses)
  PROVE  Handshaking <=> \E i \in 1 .. Len(toClient) : Shakes(toClient[i])
  BY DEF Handshaking, Shakes, Range

LEMMA CountType ==
  ASSUME NEW list \in Seq(Variables), NEW v
  PROVE  /\ Count(list, v) \in Nat
         /\ Count(list, v) = 0 <=> v \notin Range(list)
<1> DEFINE D == {i \in DOMAIN list : list[i] = v}
<1>1. IsFiniteSet(DOMAIN list) /\ D \in SUBSET (DOMAIN list)
  <2>1. DOMAIN list = 1 .. Len(list) /\ Len(list) \in Int /\ 1 \in Int
    OBVIOUS
  <2> QED
    BY <2>1, FS_Interval
<1>2. IsFiniteSet(D)
  BY <1>1, FS_Subset
<1>3. D = {} <=> v \notin Range(list)
  BY DEF Range
<1> HIDE DEF D
<1>4. Cardinality(D) \in Nat /\ (Cardinality(D) = 0 <=> D = {})
  BY <1>2, FS_CardinalityType, FS_EmptySet
<1> QED
  BY <1>3, <1>4 DEF Count, D

\* One more entry of a variable is counted, and of no other.
LEMMA CountAppend ==
  ASSUME NEW list \in Seq(Variables), NEW v \in Variables, NEW w
  PROVE  /\ Count(Append(list, v), w) = IF w = v THEN Count(list, v) + 1 ELSE Count(list, w)
         /\ Range(Append(list, v)) = Range(list) \cup {v}
<1> DEFINE D == {i \in DOMAIN list : list[i] = w}
           E == {i \in DOMAIN Append(list, v) : Append(list, v)[i] = w}
           n == Len(list) + 1
<1>1. /\ DOMAIN list = 1 .. Len(list) /\ Len(list) \in Nat /\ DOMAIN Append(list, v) = 1 .. n
      /\ \A i \in 1 .. Len(list) : Append(list, v)[i] = list[i]
      /\ Append(list, v)[n] = v
  OBVIOUS
<1>2. IsFiniteSet(D)
  <2>1. IsFiniteSet(1 .. Len(list)) /\ D \in SUBSET (1 .. Len(list))
    BY <1>1, FS_Interval
  <2> QED
    BY <2>1, FS_Subset
<1>3. n \notin D
  BY <1>1
<1>4. E = IF w = v THEN D \cup {n} ELSE D
  BY <1>1
<1>5. Range(Append(list, v)) = Range(list) \cup {v}
  BY <1>1 DEF Range
<1> HIDE DEF D, E, n
<1>6. Cardinality(D \cup {n}) = Cardinality(D) + 1
  BY <1>2, <1>3, FS_AddElement
<1>7. Cardinality(E) = IF w = v THEN Cardinality(D) + 1 ELSE Cardinality(D)
  BY <1>4, <1>6
<1> QED
  BY <1>5, <1>7 DEF Count, D, E

\* What is kept is not counted more often.
LEMMA CountKeep ==
  ASSUME NEW list \in Seq(Variables), NEW S, NEW v
  PROVE  Count(Keep(list, S), v) <= Count(list, v)
<1> DEFINE kept == Keep(list, S)
           D == {i \in DOMAIN list : list[i] = v}
           E == {i \in DOMAIN kept : kept[i] = v}
<1>1. PICK f \in [1 .. Len(kept) -> 1 .. Len(list)] :
        /\ \A k \in 1 .. Len(kept) : kept[k] = list[f[k]]
        /\ \A k, l \in 1 .. Len(kept) : f[k] = f[l] => k = l
  BY KeepInjective
<1>2. DOMAIN kept = 1 .. Len(kept) /\ DOMAIN list = 1 .. Len(list) /\ Len(list) \in Nat
  BY KeepRange
<1>3. IsFiniteSet(D)
  <2>1. IsFiniteSet(1 .. Len(list)) /\ D \in SUBSET (1 .. Len(list))
    BY <1>2, FS_Interval
  <2> QED
    BY <2>1, FS_Subset
<1> HIDE DEF kept
<1> DEFINE g == [k \in E |-> f[k]]
<1>4. g \in Injection(E, D)
  <2>1. \A k \in E : k \in 1 .. Len(kept) /\ f[k] \in D
    BY <1>1, <1>2
  <2>2. \A k, l \in E : g[k] = g[l] => k = l
    BY <1>1, <2>1
  <2>3. g \in [E -> D]
    BY <2>1
  <2> QED
    BY <2>2, <2>3 DEF Injection, IsInjective
<1> HIDE DEF D, E, g
<1>5. Cardinality(E) <= Cardinality(D)
  BY <1>3, <1>4, FS_Injection
<1> QED
  BY <1>5 DEF Count, D, E, kept

\* Calls of the panel are sent, on an open connection.
LEMMA CallsKeep ==
  ASSUME NEW list \in Seq(Variables), NEW waiting \in Seq(Responses), NEW requests \in Seq(Calls),
         served \subseteq Variables, monitors \subseteq served, NEW n,
         AllAgree(list, waiting, monitors, n), HandshakeGood(list, waiting, served),
         (\A i \in 1 .. Len(waiting) : ~Shakes(waiting[i]))
           => \A v \in Range(list) : Settled(v, waiting, v \in monitors)
                                      \/ StartRequest(v) \in Range(requests)
  PROVE  ClientGood(list, waiting \o Answers(requests), MonitorsAfter(monitors, requests), served, n)
<1> DEFINE all == waiting \o Answers(requests)
           after == MonitorsAfter(monitors, requests)
<1>1. requests \in Seq(Requests)
  <2>1. \A k \in 1 .. Len(requests) : requests[k] \in Requests
    BY DEF Calls, Requests
  <2> QED
    BY <2>1
<1>2. /\ all \in Seq(Responses)
      /\ Len(all) = Len(waiting) + Len(requests)
      /\ \A i \in 1 .. Len(waiting) : all[i] = waiting[i]
      /\ \A k \in 1 .. Len(requests) :
           all[Len(waiting) + k] = Answer(MonitorsUntil(requests, k - 1), requests[k])
  BY <1>1, AnswersAreSent
<1>3. Len(waiting) \in Nat /\ Len(requests) \in Nat
  OBVIOUS
<1>4. after \subseteq served
  BY DEF MonitorsAfter
<1>5. ASSUME NEW v \in Variables
      PROVE  /\ Agree(v, v \in Range(list), Count(list, v), all, v \in after, n)
             /\ StartRequest(v) \in Range(requests) \/ Settled(v, waiting, v \in monitors)
                  => v \notin served \/ Settled(v, all, v \in after)
  <2>1. Agree(v, v \in Range(list), Count(list, v), waiting, v \in monitors, n)
    BY DEF AllAgree
  <2> QED
    BY <1>1, <2>1, AnswersKeep
<1> HIDE DEF all, after
<1>6. ASSUME NEW k \in 1 .. Len(requests)
      PROVE  /\ ~Shakes(all[Len(waiting) + k])
             /\ \A v \in Variables : Started(all[Len(waiting) + k], v) => v \in served
  <2>1. requests[k] \in Calls /\ requests[k] \in Requests
    BY <1>1
  <2>2. \E w : requests[k] \in {StartRequest(w), StopRequest(w)}
    BY <2>1 DEF Calls
  <2> DEFINE S == MonitorsUntil(requests, k - 1)
  <2>3. all[Len(waiting) + k] = Answer(S, requests[k])
    BY <1>2
  <2> HIDE DEF S
  <2> QED
    BY <2>1, <2>2, <2>3, AnswerOf
<1>7. ASSUME NEW i \in 1 .. Len(all)
      PROVE  \/ i \in 1 .. Len(waiting) /\ all[i] = waiting[i]
             \/ /\ ~Shakes(all[i])
                /\ \A v \in Variables : Started(all[i], v) => v \in served
  <2>1. CASE i \in 1 .. Len(waiting)
    BY <1>2, <2>1
  <2>2. CASE i \notin 1 .. Len(waiting)
    <3>1. i - Len(waiting) \in 1 .. Len(requests) /\ Len(waiting) + (i - Len(waiting)) = i
      BY <1>2, <1>3, <2>2
    <3> QED
      BY <1>6, <3>1
  <2> QED
    BY <2>1, <2>2
<1>8. \A i \in 1 .. Len(waiting) : i \in 1 .. Len(all) /\ all[i] = waiting[i]
  BY <1>2, <1>3
<1>9. HandshakeGood(list, all, served)
  BY <1>7, <1>8 DEF HandshakeGood
<1>10. AllSettled(list, all, after)
  <2> SUFFICES ASSUME \A i \in 1 .. Len(all) : ~Shakes(all[i]), NEW v \in Range(list)
               PROVE  Settled(v, all, v \in after)
    BY DEF AllSettled
  <2>1. \A i \in 1 .. Len(waiting) : ~Shakes(waiting[i])
    BY <1>8
  <2>2. v \in Variables /\ v \in served
    <3>1. v \in Variables
      BY DEF Range
    <3>2. \A i \in 1 .. Len(waiting) : waiting[i].type # "VALUELIST_RESPONSE"
      BY <2>1 DEF Shakes
    <3> QED
      BY <3>1, <3>2 DEF HandshakeGood
  <2> QED
    BY <1>5, <2>1, <2>2
<1> QED
  BY <1>2, <1>4, <1>5, <1>9, <1>10 DEF ClientGood, AllAgree, all, after

NoHandshake(msgs, has) ==
  \A i \in 1 .. Len(msgs) :
    ~Shakes(msgs[i]) /\ \A v \in Variables : Started(msgs[i], v) => v \in has

\* One request is sent that is answered with a message of the handshake.
LEMMA HandshakeKeeps ==
  ASSUME NEW list \in Seq(Variables), NEW waiting \in Seq(Responses), NEW r \in Requests,
         served \subseteq Variables, monitors \subseteq served, NEW n,
         AllAgree(list, waiting, monitors, n), NoHandshake(waiting, served),
         r = ValueListRequest \/ (r = ValueInfoRequest(served) /\ Range(list) \subseteq served)
  PROVE  ClientGood(list, waiting \o Answers(<<r>>), MonitorsAfter(monitors, <<r>>), served, n)
<1> DEFINE requests == <<r>>
           all == waiting \o Answers(requests)
           after == MonitorsAfter(monitors, requests)
           m == Answer(MonitorsUntil(requests, 0), r)
<1>1. requests \in Seq(Requests) /\ Len(requests) = 1 /\ requests[1] = r
  OBVIOUS
<1> HIDE DEF requests
<1>2. /\ all \in Seq(Responses)
      /\ Len(all) = Len(waiting) + 1 /\ Len(waiting) \in Nat
      /\ \A i \in 1 .. Len(waiting) : all[i] = waiting[i]
      /\ all[Len(all)] = m
  <2>1. /\ all \in Seq(Responses)
        /\ Len(all) = Len(waiting) + Len(requests)
        /\ \A i \in 1 .. Len(waiting) : all[i] = waiting[i]
        /\ \A k \in 1 .. Len(requests) :
             all[Len(waiting) + k] = Answer(MonitorsUntil(requests, k - 1), requests[k])
    BY <1>1, AnswersAreSent
  <2>2. 1 \in 1 .. Len(requests) /\ 1 - 1 = 0
    BY <1>1
  <2>3. all[Len(waiting) + 1] = Answer(MonitorsUntil(requests, 0), requests[1])
    BY <2>1, <2>2
  <2> HIDE DEF all
  <2> QED
    BY <1>1, <2>1, <2>3
<1>3. after \subseteq served
  BY DEF MonitorsAfter
<1>4. ASSUME NEW v \in Variables
      PROVE  Agree(v, v \in Range(list), Count(list, v), all, v \in after, n)
  <2>1. Agree(v, v \in Range(list), Count(list, v), waiting, v \in monitors, n)
    BY DEF AllAgree
  <2> QED
    BY <1>1, <2>1, AnswersKeep
<1>5. /\ Shakes(m) /\ m.variables = served
      /\ \A v : ~Started(m, v)
      /\ r = ValueListRequest => m.type = "VALUELIST_RESPONSE"
      /\ r = ValueInfoRequest(served) => m.type = "VALUEINFO_RESPONSE"
  <2>1. /\ r = ValueListRequest => m = ValueListResponse(served)
        /\ r = ValueInfoRequest(served) => m = ValueInfoResponse(served)
    BY AnswerOf
  <2> QED
    BY <2>1 DEF ValueListResponse, ValueInfoResponse, Shakes, Started
<1> HIDE DEF all, after, m
<1>6. /\ \A i \in 1 .. Len(all) : i = Len(all) \/ (i \in 1 .. Len(waiting) /\ all[i] = waiting[i])
      /\ \A i \in 1 .. Len(waiting) : i \in 1 .. Len(all) /\ all[i] = waiting[i]
      /\ Len(all) \in 1 .. Len(all)
  BY <1>2
<1>7. HandshakeGood(list, all, served)
  <2>1. (\A i \in 1 .. Len(all) : all[i].type # "VALUELIST_RESPONSE") => Range(list) \subseteq served
    BY <1>2, <1>5, <1>6
  <2>2. /\ \A i, j \in 1 .. Len(all) : Shakes(all[i]) /\ Shakes(all[j]) => i = j
        /\ \A i \in 1 .. Len(all) : Shakes(all[i]) => all[i].variables = served
    BY <1>2, <1>5, <1>6 DEF NoHandshake
  <2>3. \A i \in 1 .. Len(all) : \A v \in Variables : Started(all[i], v) => v \in served
    BY <1>2, <1>5, <1>6 DEF NoHandshake
  <2> QED
    BY <2>1, <2>2, <2>3 DEF HandshakeGood
<1>8. AllSettled(list, all, after)
  BY <1>2, <1>5, <1>6 DEF AllSettled
<1> QED
  BY <1>2, <1>3, <1>4, <1>7, <1>8 DEF ClientGood, AllAgree, all, after, requests

\* The invariant after a step on an open connection.
LEMMA StillOpen ==
  ASSUME readyState' = "OPEN",
         NEW list \in Seq(Variables), monitoringVariableList' = list,
         served' \subseteq Variables, connections' \in 1 .. MaxConnections,
         ClientGood(list, toClient', monitors', served', connections')
  PROVE  ClientInv'
<1>1. ClientTypeOK'
  <2>1. connections' \in 0 .. MaxConnections
    BY ClientAssumption
  <2> QED
    BY <2>1 DEF ClientTypeOK, ClientGood
<1>2. \A v \in Variables : Count(list, v) <= connections'
  BY DEF ClientGood, AllAgree, Agree
<1>3. 1 <= connections'
  BY ClientAssumption
<1> QED
  BY <1>1, <1>2, <1>3 DEF ClientInv

LEMMA ClientOpens == ClientInv /\ webSocket_onopen => ClientInv'
<1> SUFFICES ASSUME ClientInv, webSocket_onopen PROVE ClientInv'
  OBVIOUS
<1> DEFINE list == monitoringVariableList
           n == connections + 1
<1>1. /\ list \in Seq(Variables) /\ served \subseteq Variables
      /\ toClient = <<>> /\ monitors = {} /\ n \in 1 .. MaxConnections
      /\ \A v \in Variables : Count(list, v) <= connections
  BY ClientAssumption DEF ClientInv, ClientTypeOK, webSocket_onopen
<1>2. /\ readyState' = "OPEN" /\ monitoringVariableList' = list /\ served' = served
      /\ connections' = n
      /\ toClient' = toClient \o Answers(<<ValueListRequest>>)
      /\ monitors' = MonitorsAfter(monitors, <<ValueListRequest>>)
  BY DEF webSocket_onopen, Sends
<1>3. toClient \in Seq(Responses) /\ Len(toClient) = 0
  BY <1>1
<1>4. AllAgree(list, toClient, monitors, n)
  <2> SUFFICES ASSUME NEW v \in Variables
               PROVE  Agree(v, v \in Range(list), Count(list, v), toClient, v \in monitors, n)
    BY DEF AllAgree
  <2>1. Count(list, v) \in Nat /\ connections \in Nat
    BY <1>1, CountType DEF ClientInv, ClientTypeOK
  <2>2. Count(list, v) + 1 <= n /\ Count(list, v) <= n
    BY <1>1, <2>1
  <2>3. v \notin monitors
    BY <1>1
  <2> QED
    BY <1>3, <2>2, <2>3 DEF Agree
<1>5. ClientGood(list, toClient', monitors', served, n)
  <2>1. ValueListRequest \in Requests /\ monitors \subseteq served
    BY <1>1 DEF Requests
  <2>2. NoHandshake(toClient, served)
    BY <1>3 DEF NoHandshake
  <2> HIDE DEF list, n
  <2> QED
    BY <1>1, <1>2, <1>3, <1>4, <2>1, <2>2, HandshakeKeeps
<1> QED
  BY <1>1, <1>2, <1>5, StillOpen

\* The messages after the first one, and a list that was made of it.
LEMMA HandshakeRest ==
  ASSUME NEW list, NEW msgs \in Seq(Responses), msgs # <<>>, NEW has, HandshakeGood(list, msgs, has),
         NEW new, Range(list) \subseteq has => Range(new) \subseteq has,
         Head(msgs).type = "VALUELIST_RESPONSE" => Range(new) \subseteq has
  PROVE  /\ HandshakeGood(new, Tail(msgs), has)
         /\ Shakes(Head(msgs)) => NoHandshake(Tail(msgs), has) /\ Head(msgs).variables = has
<1> DEFINE rest == Tail(msgs)
<1>0. Head(msgs) = msgs[1] /\ IsRest(rest, msgs)
  BY TailOf
<1>1. /\ Len(msgs) = Len(rest) + 1 /\ Len(rest) \in Nat /\ 1 \in 1 .. Len(msgs)
      /\ \A i \in 1 .. Len(rest) : i + 1 \in 1 .. Len(msgs) /\ rest[i] = msgs[i + 1] /\ i + 1 # 1
      /\ \A j \in 1 .. Len(msgs) : j = 1 \/ (j - 1 \in 1 .. Len(rest) /\ rest[j - 1] = msgs[j])
      /\ \A i, j \in 1 .. Len(rest) : i + 1 = j + 1 => i = j
  BY <1>0 DEF IsRest
<1> HIDE DEF rest
<1>2. \A i, j \in 1 .. Len(rest) : Shakes(rest[i]) /\ Shakes(rest[j]) => i = j
  BY <1>1, SMTT(30) DEF HandshakeGood
<1>3. /\ \A i \in 1 .. Len(rest) : Shakes(rest[i]) => rest[i].variables = has
      /\ \A i \in 1 .. Len(rest) : \A v \in Variables : Started(rest[i], v) => v \in has
  BY <1>1 DEF HandshakeGood
<1>4. (\A i \in 1 .. Len(rest) : rest[i].type # "VALUELIST_RESPONSE") => Range(new) \subseteq has
  <2> SUFFICES ASSUME \A i \in 1 .. Len(rest) : rest[i].type # "VALUELIST_RESPONSE",
                      msgs[1].type # "VALUELIST_RESPONSE"
               PROVE  Range(list) \subseteq has
    BY <1>0
  <2>1. \A j \in 1 .. Len(msgs) : msgs[j].type # "VALUELIST_RESPONSE"
    BY <1>1
  <2> QED
    BY <2>1 DEF HandshakeGood
<1>5. Shakes(msgs[1]) => msgs[1].variables = has
  BY <1>1 DEF HandshakeGood
<1>6. Shakes(msgs[1]) => \A i \in 1 .. Len(rest) : ~Shakes(rest[i])
  BY <1>1 DEF HandshakeGood
<1> QED
  BY <1>0, <1>2, <1>3, <1>4, <1>5, <1>6 DEF HandshakeGood, NoHandshake, rest

\* A message that is neither a start nor a stop takes nothing from the agreement.
LEMMA AgreeRest ==
  ASSUME NEW list \in Seq(Variables), NEW msgs \in Seq(Responses), msgs # <<>>,
         NEW mons, NEW n \in Nat, AllAgree(list, msgs, mons, n),
         \A v \in Variables : ~Started(Head(msgs), v) /\ ~Stopped(Head(msgs), v),
         NEW S, mons \subseteq S
  PROVE  AllAgree(Keep(list, S), Tail(msgs), mons, n)
<1> SUFFICES ASSUME NEW v \in Variables
             PROVE  Agree(v, v \in Range(Keep(list, S)), Count(Keep(list, S), v), Tail(msgs),
                          v \in mons, n)
  BY DEF AllAgree
<1> DEFINE here == v \in Range(list)
           c == Count(list, v)
           still == v \in Range(Keep(list, S))
           d == Count(Keep(list, S), v)
           there == v \in mons
<1>1. c \in Nat /\ d \in Nat /\ d <= c
  BY KeepRange, CountType, CountKeep
<1>2. here \in BOOLEAN /\ still \in BOOLEAN /\ there \in BOOLEAN
  OBVIOUS
<1>3. there => (still <=> here)
  <2>1. Range(Keep(list, S)) = Range(list) \cap S
    BY KeepRange
  <2> QED
    BY <2>1
<1>4. Agree(v, here, c, msgs, there, n)
  BY DEF AllAgree
<1> HIDE DEF here, c, still, d, there
<1>5. Agree(v, still, d, Tail(msgs), there, n)
  BY <1>1, <1>2, <1>3, <1>4, TakeOther
<1> QED
  BY <1>5 DEF still, d, there

\* The same without a change of the list.
LEMMA AgreeTail ==
  ASSUME NEW list \in Seq(Variables), NEW msgs \in Seq(Responses), msgs # <<>>,
         NEW mons, NEW n \in Nat, AllAgree(list, msgs, mons, n),
         NEW v \in Variables, ~Started(Head(msgs), v) /\ ~Stopped(Head(msgs), v)
  PROVE  Agree(v, v \in Range(list), Count(list, v), Tail(msgs), v \in mons, n)
<1> DEFINE here == v \in Range(list)
           c == Count(list, v)
           there == v \in mons
<1>1. c \in Nat /\ c <= c
  BY CountType
<1>2. here \in BOOLEAN /\ there \in BOOLEAN /\ (there => (here <=> here))
  OBVIOUS
<1>4. Agree(v, here, c, msgs, there, n)
  BY DEF AllAgree
<1> HIDE DEF here, c, there
<1>5. Agree(v, here, c, Tail(msgs), there, n)
  BY <1>1, <1>2, <1>4, TakeOther
<1> QED
  BY <1>5 DEF here, c, there

\* What the invariant says on an open connection.
LEMMA WhenOpen ==
  ASSUME ClientInv, readyState = "OPEN"
  PROVE  /\ monitoringVariableList \in Seq(Variables) /\ served \subseteq Variables
         /\ connections \in 1 .. MaxConnections /\ connections \in Nat
         /\ toClient \in Seq(Responses) /\ monitors \subseteq served
         /\ AllAgree(monitoringVariableList, toClient, monitors, connections)
         /\ HandshakeGood(monitoringVariableList, toClient, served)
         /\ AllSettled(monitoringVariableList, toClient, monitors)
  BY ClientAssumption DEF ClientInv, ClientTypeOK, ClientGood

LEMMA ClientGetsValueList == ClientInv /\ ValueListReceived => ClientInv'
<1> SUFFICES ASSUME ClientInv, ValueListReceived PROVE ClientInv'
  OBVIOUS
<1> DEFINE list == monitoringVariableList
           n == connections
           m == Head(toClient)
           new == Keep(list, served)
           rest == Tail(toClient)
<1>1. /\ list \in Seq(Variables) /\ served \subseteq Variables
      /\ n \in 1 .. MaxConnections /\ n \in Nat
      /\ toClient \in Seq(Responses) /\ monitors \subseteq served /\ toClient # <<>>
      /\ AllAgree(list, toClient, monitors, n) /\ HandshakeGood(list, toClient, served)
      /\ readyState = "OPEN" /\ m.type = "VALUELIST_RESPONSE"
  BY WhenOpen DEF ValueListReceived, Receives
<1>2. new \in Seq(Variables) /\ Range(new) \subseteq served
  <2>1. Range(new) = Range(list) \cap served /\ new \in Seq(Variables)
    BY <1>1, KeepRange
  <2> HIDE DEF new
  <2> QED
    BY <2>1
<1> HIDE DEF new
<1>3. Shakes(m) /\ \A v \in Variables : ~Started(m, v) /\ ~Stopped(m, v)
  BY <1>1 DEF Shakes, Started, Stopped
<1>4. NoHandshake(rest, served) /\ m.variables = served
  BY <1>1, <1>2, <1>3, HandshakeRest
<1>5. rest \in Seq(Responses)
  BY <1>1
<1>6. AllAgree(new, rest, monitors, n)
  BY <1>1, <1>3, AgreeRest DEF new
<1>7. /\ readyState' = "OPEN" /\ monitoringVariableList' = new /\ served' = served
      /\ connections' = n
      /\ toClient' = rest \o Answers(<<ValueInfoRequest(served)>>)
      /\ monitors' = MonitorsAfter(monitors, <<ValueInfoRequest(served)>>)
  BY <1>1, <1>4 DEF ValueListReceived, checkOldMonitorVariables, Sends, new
<1>8. ValueInfoRequest(served) \in Requests
  BY <1>1 DEF Requests
<1> HIDE DEF list, n, m, rest
<1>9. ClientGood(new, toClient', monitors', served, n)
  BY <1>1, <1>2, <1>4, <1>5, <1>6, <1>7, <1>8, HandshakeKeeps
<1> QED
  BY <1>1, <1>2, <1>7, <1>9, StillOpen

LEMMA ClientGetsValueInfo ==
  ASSUME ClientInv, ValueInfoReceived, NEW readable, ListBuilt(readable),
         NewVariableList(panel, readable).calls \in Seq(Calls)
  PROVE  ClientInv'
<1> DEFINE list == monitoringVariableList
           n == connections
           m == Head(toClient)
           rest == Tail(toClient)
           calls == NewVariableList(panel, readable).calls
           requests == startOldMonitorVariables(list) \o calls
<1>1. /\ list \in Seq(Variables) /\ served \subseteq Variables
      /\ n \in 1 .. MaxConnections /\ n \in Nat
      /\ toClient \in Seq(Responses) /\ monitors \subseteq served /\ toClient # <<>>
      /\ AllAgree(list, toClient, monitors, n) /\ HandshakeGood(list, toClient, served)
      /\ readyState = "OPEN" /\ m.type = "VALUEINFO_RESPONSE"
  BY WhenOpen DEF ValueInfoReceived, Receives
<1>2. /\ readyState' = "OPEN" /\ monitoringVariableList' = list /\ served' = served
      /\ connections' = n
      /\ toClient' = rest \o Answers(requests)
      /\ monitors' = MonitorsAfter(monitors, requests)
  BY <1>1 DEF ValueInfoReceived, ListBuilt, Sends, clientVars
<1>3. Shakes(m) /\ \A v \in Variables : ~Started(m, v) /\ ~Stopped(m, v)
  BY <1>1 DEF Shakes, Started, Stopped
<1>4. /\ NoHandshake(rest, served) /\ HandshakeGood(list, rest, served)
  BY <1>1, <1>3, HandshakeRest
<1>5. AllAgree(list, rest, monitors, n)
  BY <1>1, <1>3, AgreeTail DEF AllAgree
<1>6. calls \in Seq(Calls)
  OBVIOUS
<1> HIDE DEF calls, m
<1>7. /\ requests \in Seq(Calls)
      /\ \A v \in Range(list) : StartRequest(v) \in Range(requests)
  <2> DEFINE old == startOldMonitorVariables(list)
  <2>1. DOMAIN list = 1 .. Len(list) /\ Len(list) \in Nat
    BY <1>1
  <2>2. /\ DOMAIN old = 1 .. Len(list) /\ \A i \in 1 .. Len(list) : old[i] = StartRequest(list[i])
        /\ old = [i \in 1 .. Len(list) |-> old[i]]
    BY <2>1 DEF startOldMonitorVariables
  <2> HIDE DEF old
  <2>3. \A i \in 1 .. Len(list) : old[i] \in Calls
    BY <1>1, <2>2 DEF Calls
  <2>4. old \in Seq(Calls) /\ Len(old) = Len(list)
    BY <2>1, <2>2, <2>3
  <2>5. /\ old \o calls \in Seq(Calls)
        /\ \A i \in 1 .. Len(old) : i \in DOMAIN (old \o calls) /\ (old \o calls)[i] = old[i]
    BY <1>6, <2>4
  <2>6. \A v \in Range(list) : StartRequest(v) \in Range(old \o calls)
    <3> SUFFICES ASSUME NEW i \in 1 .. Len(list) PROVE StartRequest(list[i]) \in Range(old \o calls)
      BY <2>1 DEF Range
    <3>1. i \in DOMAIN (old \o calls) /\ (old \o calls)[i] = StartRequest(list[i])
      BY <2>2, <2>4, <2>5
    <3> QED
      BY <3>1 DEF Range
  <2> QED
    BY <2>5, <2>6 DEF old
<1>8. rest \in Seq(Responses)
  BY <1>1
<1> HIDE DEF list, n, rest, requests
<1>9. ClientGood(list, toClient', monitors', served, n)
  BY <1>1, <1>2, <1>4, <1>5, <1>7, <1>8, CallsKeep
<1> QED
  BY <1>1, <1>2, <1>9, StillOpen

LEMMA ClientGetsStart == ClientInv /\ StartReceived => ClientInv'
<1> SUFFICES ASSUME ClientInv, StartReceived PROVE ClientInv'
  OBVIOUS
<1> DEFINE list == monitoringVariableList
           n == connections
           m == Head(toClient)
           new == RecordStart(list, m)
           rest == Tail(toClient)
<1>1. /\ list \in Seq(Variables) /\ served \subseteq Variables
      /\ n \in 1 .. MaxConnections /\ n \in Nat
      /\ toClient \in Seq(Responses) /\ monitors \subseteq served /\ toClient # <<>>
      /\ AllAgree(list, toClient, monitors, n) /\ HandshakeGood(list, toClient, served)
      /\ AllSettled(list, toClient, monitors)
      /\ readyState = "OPEN" /\ m.type = "MONITORSTART_RESPONSE"
  BY WhenOpen DEF StartReceived, Receives
<1>2. /\ readyState' = "OPEN" /\ monitoringVariableList' = new /\ served' = served
      /\ connections' = n /\ toClient' = rest /\ monitors' = monitors
  BY <1>1 DEF StartReceived, serverVars
<1>3. m = toClient[1] /\ IsRest(rest, toClient) /\ rest \in Seq(Responses)
  BY <1>1, TailOf
<1>4. /\ m \in Responses /\ m.variable \in Variables /\ m.ok \in BOOLEAN
  <2>1. m \in Responses
    BY <1>1
  <2> QED
    BY <1>1, <2>1 DEF Responses, ValueListResponse, ValueInfoResponse, StartResponse, StopResponse
<1> DEFINE x == m.variable
<1>5. ~Shakes(m) /\ \A v : ~Stopped(m, v) /\ (Started(m, v) <=> v = x /\ m.ok = TRUE)
  BY <1>1 DEF Shakes, Stopped, Started
<1>6. m.ok = TRUE => x \in served
  <2>1. 1 \in 1 .. Len(toClient)
    BY <1>1
  <2> QED
    BY <1>1, <1>3, <1>4, <1>5, <2>1 DEF HandshakeGood
<1>7. /\ new \in Seq(Variables)
      /\ Range(new) = IF m.ok THEN Range(list) \cup {x} ELSE Range(list)
      /\ \A v \in Variables : Count(new, v) = IF m.ok /\ v = x THEN Count(list, v) + 1 ELSE Count(list, v)
  <2>1. CASE m.ok
    <3>1. new = Append(list, x)
      BY <2>1 DEF RecordStart
    <3>2. Append(list, x) \in Seq(Variables)
      BY <1>1, <1>4
    <3>3. /\ Range(Append(list, x)) = Range(list) \cup {x}
          /\ \A v : Count(Append(list, x), v) = IF v = x THEN Count(list, x) + 1 ELSE Count(list, v)
      BY <1>1, <1>4, CountAppend
    <3> HIDE DEF new, list, x, m
    <3> QED
      BY <2>1, <3>1, <3>2, <3>3 DEF x
  <2>2. CASE ~m.ok
    <3>1. new = list
      BY <2>2 DEF RecordStart
    <3> HIDE DEF new, list, x, m
    <3> QED
      BY <1>1, <2>2, <3>1
  <2> QED
    BY <2>1, <2>2
<1> HIDE DEF new, m, x, rest, list, n
<1>8. HandshakeGood(new, rest, served)
  <2>1. Range(list) \subseteq served => Range(new) \subseteq served
    BY <1>4, <1>6, <1>7
  <2>2. m.type # "VALUELIST_RESPONSE"
    BY <1>1
  <2> QED
    BY <1>1, <2>1, <2>2, HandshakeRest DEF m, rest
<1>9. ASSUME NEW v \in Variables
      PROVE  Agree(v, v \in Range(new), Count(new, v), rest, v \in monitors, n)
  <2>1. CASE v = x /\ m.ok
    <3> DEFINE here == v \in Range(list)
               c == Count(list, v)
               there == v \in monitors
    <3>1. here \in BOOLEAN /\ there \in BOOLEAN /\ c \in Nat
      BY <1>1, CountType
    <3>2. Agree(v, here, c, toClient, there, n)
      BY <1>1 DEF AllAgree
    <3>3. Started(m, v)
      BY <1>5, <2>1
    <3> HIDE DEF here, c, there
    <3>4. Agree(v, TRUE, c + 1, rest, there, n)
      BY <1>1, <3>1, <3>2, <3>3, TakeStarted DEF m, rest
    <3>5. (v \in Range(new)) = TRUE /\ Count(new, v) = c + 1
      BY <1>7, <2>1 DEF c
    <3> QED
      BY <3>4, <3>5 DEF there
  <2>2. CASE ~(v = x /\ m.ok)
    <3>1. ~Started(m, v) /\ ~Stopped(m, v)
      BY <1>4, <1>5, <2>2
    <3>2. Agree(v, v \in Range(list), Count(list, v), rest, v \in monitors, n)
      BY <1>1, <3>1, AgreeTail DEF m, rest
    <3>3. (v \in Range(new)) = (v \in Range(list)) /\ Count(new, v) = Count(list, v)
      BY <1>4, <1>7, <2>2
    <3> QED
      BY <3>2, <3>3
  <2> QED
    BY <2>1, <2>2
<1>10. AllSettled(new, rest, monitors)
  <2> SUFFICES ASSUME \A i \in 1 .. Len(rest) : ~Shakes(rest[i]), NEW v \in Range(new)
               PROVE  Settled(v, rest, v \in monitors)
    BY DEF AllSettled
  <2>0. /\ Len(toClient) = Len(rest) + 1 /\ Len(rest) \in Nat
        /\ \A j \in 1 .. Len(toClient) : j = 1 \/ (j - 1 \in 1 .. Len(rest) /\ rest[j - 1] = toClient[j])
    BY <1>3 DEF IsRest
  <2>1. \A i \in 1 .. Len(toClient) : ~Shakes(toClient[i])
    BY <1>3, <1>5, <2>0
  <2>2. CASE v \in Range(list)
    <3>1. Settled(v, toClient, v \in monitors)
      BY <1>1, <2>1, <2>2 DEF AllSettled
    <3> QED
      BY <1>3, <1>5, <2>0, <3>1 DEF Settled
  <2>3. CASE v = x /\ m.ok
    <3>1. 1 \in 1 .. Len(toClient) /\ Started(toClient[1], v)
      BY <1>3, <1>5, <2>0, <2>3
    <3>2. v \in monitors \/ \E j \in 1 .. Len(toClient) : 1 < j /\ Stopped(toClient[j], v)
      <4> DEFINE there == v \in monitors
                 here == v \in Range(list)
                 c == Count(list, v)
      <4>1. Agree(v, here, c, toClient, there, n)
        BY <1>1, <1>4, <2>3 DEF AllAgree, x
      <4> HIDE DEF there, here, c
      <4>2. there \/ \E j \in 1 .. Len(toClient) : 1 < j /\ Stopped(toClient[j], v)
        BY <3>1, <4>1, StartIsThere
      <4> QED
        BY <4>2 DEF there
    <3> QED
      BY <2>0, <3>2 DEF Settled
  <2> QED
    BY <1>4, <1>7, <2>2, <2>3
<1>11. ClientGood(new, toClient', monitors', served, n)
  BY <1>1, <1>2, <1>3, <1>8, <1>9, <1>10 DEF ClientGood, AllAgree
<1> QED
  BY <1>1, <1>2, <1>7, <1>11, StillOpen DEF n, list

LEMMA ClientGetsStop == ClientInv /\ StopReceived => ClientInv'
<1> SUFFICES ASSUME ClientInv, StopReceived PROVE ClientInv'
  OBVIOUS
<1> DEFINE list == monitoringVariableList
           n == connections
           m == Head(toClient)
           x == m.variable
           new == Keep(list, Variables \ {x})
           rest == Tail(toClient)
<1>1. /\ list \in Seq(Variables) /\ served \subseteq Variables
      /\ n \in 1 .. MaxConnections /\ n \in Nat
      /\ toClient \in Seq(Responses) /\ monitors \subseteq served /\ toClient # <<>>
      /\ AllAgree(list, toClient, monitors, n) /\ HandshakeGood(list, toClient, served)
      /\ AllSettled(list, toClient, monitors)
      /\ readyState = "OPEN" /\ m.type = "MONITORSTOP_RESPONSE"
  BY WhenOpen DEF StopReceived, Receives
<1>2. /\ readyState' = "OPEN" /\ monitoringVariableList' = new /\ served' = served
      /\ connections' = n /\ toClient' = rest /\ monitors' = monitors
  BY <1>1 DEF StopReceived, serverVars, removeMonitoringVariableFromArray
<1>3. m = toClient[1] /\ IsRest(rest, toClient) /\ rest \in Seq(Responses)
  BY <1>1, TailOf
<1>4. ~Shakes(m) /\ \A v : ~Started(m, v) /\ (Stopped(m, v) <=> v = x)
  BY <1>1 DEF Shakes, Stopped, Started
<1>5. /\ new \in Seq(Variables)
      /\ Range(new) = Range(list) \ {x}
      /\ \A v : Count(new, v) \in Nat /\ Count(list, v) \in Nat /\ Count(new, v) <= Count(list, v)
      /\ Count(new, x) = 0
  <2>1. new \in Seq(Variables) /\ Range(new) = Range(list) \cap (Variables \ {x})
    BY <1>1, KeepRange
  <2>2. Range(list) \subseteq Variables
    BY <1>1 DEF Range
  <2>3. \A v : Count(new, v) <= Count(list, v)
    BY <1>1, CountKeep
  <2> HIDE DEF new, list, x
  <2>4. \A v : /\ Count(new, v) \in Nat /\ Count(list, v) \in Nat
               /\ Count(new, v) = 0 <=> v \notin Range(new)
    BY <1>1, <2>1, CountType
  <2> QED
    BY <2>1, <2>2, <2>3, <2>4
<1> HIDE DEF new, m, x, rest, list, n
<1>6. HandshakeGood(new, rest, served)
  <2>1. Range(list) \subseteq served => Range(new) \subseteq served
    BY <1>5
  <2>2. m.type # "VALUELIST_RESPONSE"
    BY <1>1
  <2> QED
    BY <1>1, <2>1, <2>2, HandshakeRest DEF m, rest
<1>7. ASSUME NEW v \in Variables
      PROVE  Agree(v, v \in Range(new), Count(new, v), rest, v \in monitors, n)
  <2>1. CASE v = x
    <3> DEFINE here == v \in Range(list)
               c == Count(list, v)
               there == v \in monitors
    <3>1. here \in BOOLEAN /\ there \in BOOLEAN /\ c \in Nat /\ 1 <= n
      BY <1>1, <1>5
    <3>2. Agree(v, here, c, toClient, there, n)
      BY <1>1 DEF AllAgree
    <3>3. Stopped(m, v)
      BY <1>4, <2>1
    <3> HIDE DEF here, c, there
    <3>4. Agree(v, FALSE, 0, rest, there, n)
      BY <1>1, <3>1, <3>2, <3>3, TakeStopped DEF m, rest
    <3>5. (v \in Range(new)) = FALSE /\ Count(new, v) = 0
      BY <1>5, <2>1
    <3> QED
      BY <3>4, <3>5 DEF there
  <2>2. CASE v # x
    <3> DEFINE here == v \in Range(list)
               c == Count(list, v)
               still == v \in Range(new)
               d == Count(new, v)
               there == v \in monitors
    <3>1. /\ here \in BOOLEAN /\ there \in BOOLEAN /\ still \in BOOLEAN /\ c \in Nat /\ d \in Nat
          /\ d <= c /\ (there => (still <=> here))
      BY <1>5, <2>2
    <3>2. Agree(v, here, c, toClient, there, n)
      BY <1>1 DEF AllAgree
    <3>3. ~Started(m, v) /\ ~Stopped(m, v)
      BY <1>4, <2>2
    <3> HIDE DEF here, c, there, still, d
    <3>4. Agree(v, still, d, rest, there, n)
      BY <1>1, <3>1, <3>2, <3>3, TakeOther DEF m, rest
    <3> QED
      BY <3>4 DEF there, still, d
  <2> QED
    BY <2>1, <2>2
<1>8. AllSettled(new, rest, monitors)
  <2> SUFFICES ASSUME \A i \in 1 .. Len(rest) : ~Shakes(rest[i]), NEW v \in Range(new)
               PROVE  Settled(v, rest, v \in monitors)
    BY DEF AllSettled
  <2>0. /\ Len(toClient) = Len(rest) + 1 /\ Len(rest) \in Nat
        /\ \A j \in 1 .. Len(toClient) : j = 1 \/ (j - 1 \in 1 .. Len(rest) /\ rest[j - 1] = toClient[j])
    BY <1>3 DEF IsRest
  <2>1. \A i \in 1 .. Len(toClient) : ~Shakes(toClient[i])
    BY <1>3, <1>4, <2>0
  <2>2. v \in Range(list) /\ ~Stopped(m, v)
    BY <1>4, <1>5
  <2>3. Settled(v, toClient, v \in monitors)
    BY <1>1, <2>1, <2>2 DEF AllSettled
  <2> QED
    BY <1>3, <2>0, <2>2, <2>3 DEF Settled
<1>9. ClientGood(new, toClient', monitors', served, n)
  BY <1>1, <1>2, <1>3, <1>6, <1>7, <1>8 DEF ClientGood, AllAgree
<1> QED
  BY <1>1, <1>2, <1>5, <1>9, StillOpen DEF n, list

LEMMA ClientCloses == ClientInv /\ webSocket_onclose => ClientInv'
<1> SUFFICES ASSUME ClientInv, webSocket_onclose PROVE ClientInv'
  OBVIOUS
<1>1. /\ readyState' \in {"CLOSED", "CONNECTING"} /\ toClient' = <<>> /\ monitors' = {}
      /\ monitoringVariableList' = monitoringVariableList /\ connections' = connections
      /\ served' = served
  BY DEF webSocket_onclose, AfterClose
<1>2. toClient' \in Seq(Responses)
  BY <1>1
<1> QED
  BY <1>1, <1>2 DEF ClientInv, ClientTypeOK

LEMMA ClientRests ==
  ASSUME ClientInv, ServerCloses \/ Restart \/ UNCHANGED vars
  PROVE  ClientInv'
<1>1. CASE ServerCloses
  BY <1>1 DEF ClientInv, ClientTypeOK, ServerCloses, serverVars
<1>2. CASE Restart
  <2>1. served' \subseteq Variables
    BY <1>2 DEF Restart, ServerRestart
  <2> QED
    BY <1>2, <2>1 DEF ClientInv, ClientTypeOK, Restart, ServerRestart, clientVars
<1>3. CASE UNCHANGED vars
  BY <1>3 DEF ClientInv, ClientTypeOK, ClientGood, vars, clientVars, serverVars
<1> QED
  BY <1>1, <1>2, <1>3

\* A click, whatever the panel is after it.
LEMMA ClientSends ==
  ASSUME ClientInv, NEW p, p.calls \in Seq(Calls), Clicked(p)
  PROVE  ClientInv'
<1> DEFINE list == monitoringVariableList
           n == connections
           calls == p.calls
<1>1. /\ monitoringVariableList' = list /\ served' = served /\ connections' = n
      /\ readyState' = readyState
      /\ Sends(toClient, readyState, calls)
  BY DEF Clicked, clientVars
<1>2. CASE readyState = "OPEN"
  <2>1. /\ list \in Seq(Variables) /\ served \subseteq Variables
        /\ n \in 1 .. MaxConnections
        /\ toClient \in Seq(Responses) /\ monitors \subseteq served
        /\ AllAgree(list, toClient, monitors, n) /\ HandshakeGood(list, toClient, served)
        /\ AllSettled(list, toClient, monitors)
    BY <1>2, WhenOpen
  <2>2. toClient' = toClient \o Answers(calls) /\ monitors' = MonitorsAfter(monitors, calls)
    BY <1>1, <1>2 DEF Sends
  <2>3. (\A i \in 1 .. Len(toClient) : ~Shakes(toClient[i]))
          => \A v \in Range(list) : Settled(v, toClient, v \in monitors)
                                     \/ StartRequest(v) \in Range(calls)
    BY <2>1 DEF AllSettled
  <2>4. calls \in Seq(Calls)
    OBVIOUS
  <2> HIDE DEF list, n, calls
  <2>5. ClientGood(list, toClient', monitors', served, n)
    BY <2>1, <2>2, <2>3, <2>4, CallsKeep
  <2> QED
    BY <1>1, <1>2, <2>1, <2>5, StillOpen
<1>3. CASE readyState # "OPEN"
  <2>1. toClient' = toClient /\ monitors' = monitors
    BY <1>1, <1>3 DEF Sends
  <2> QED
    BY <1>1, <1>3, <2>1 DEF ClientInv, ClientTypeOK
<1> QED
  BY <1>2, <1>3

-----------------------------------------------------------------------------
(* The board.                                                              *)

PanelType(p) ==
  /\ DOMAIN p = {"tools", "board", "cardIds", "tableList", "calls", "thrown", "lost"}
  /\ DOMAIN p.tools \subseteq Variables /\ p.tools \in [DOMAIN p.tools -> Seq(Tools)]
  /\ p.board \in Seq(Cards)
  /\ p.cardIds \subseteq Ids /\ p.lost \subseteq Ids
  /\ p.tableList \in Seq(Ids)
  /\ p.calls \in Seq(Calls)
  /\ p.thrown \in BOOLEAN

\* The ids in use, the list of tables and the cards tell the same, but for the
\* ids that are lost; only a table of E may have no rows yet, or no more.
BoardGood(p, E) ==
  /\ \A i, j \in 1 .. Len(p.board) : p.board[i].id = p.board[j].id => i = j
  /\ p.cardIds = {p.board[i].id : i \in 1 .. Len(p.board)} \cup p.lost
  /\ \A i \in 1 .. Len(p.board) : p.board[i].id \notin p.lost
  /\ \A k, l \in 1 .. Len(p.tableList) : p.tableList[k] = p.tableList[l] => k = l
  /\ Range(p.tableList) = {p.board[i].id : i \in {j \in 1 .. Len(p.board) : p.board[j].owner = Table}}
  /\ \A i \in 1 .. Len(p.board) :
       IF p.board[i].owner = Table
       THEN Len(p.board[i].rows) <= MaxRows /\ (p.board[i].rows = <<>> => p.board[i].id \in E)
       ELSE p.board[i].rows = <<>>

\* The card is the one of this tool of the variable.
Holds(card, v, tool) ==
  /\ card.id = tool.id
  /\ IF tool.type = "TABLE" THEN card.owner = Table /\ v \in Range(card.rows) ELSE card.owner = v

OnBoard(p, v, tool) == \E i \in 1 .. Len(p.board) : Holds(p.board[i], v, tool)

\* All tools are on the board, but for the tools of v with this id.
ToolsGood(p, v, id) ==
  \A w \in Listed(p) \ Broken(p) :
    \A tool \in Range(p.tools[w]) : OnBoard(p, w, tool) \/ (w = v /\ tool.id = id)

PanelInv ==
  /\ PanelType(panel)
  /\ panel.calls = <<>> /\ panel.thrown = FALSE
  /\ BoardGood(panel, {}) /\ ToolsGood(panel, NoTool, NoTool)
  /\ init \in BOOLEAN /\ missed \subseteq Variables

-----------------------------------------------------------------------------
(* Looking for cards, ids and rows.                                        *)

LEMMA MinIn ==
  ASSUME NEW s, s \subseteq Nat, s # {}
  PROVE  Min(s) \in s /\ \A y \in s : Min(s) <= y
<1>1. \E x \in s : \A y \in s : x <= y
  BY Keeping!Least
<1> QED
  BY <1>1 DEF Min

LEMMA CardAtIs ==
  ASSUME NEW p, NEW E, BoardGood(p, E), PanelType(p), NEW i \in 1 .. Len(p.board)
  PROVE  CardAt(p, p.board[i].id) = i /\ RowsOf(p, p.board[i].id) = p.board[i].rows
<1>1. DOMAIN p.board = 1 .. Len(p.board)
  BY DEF PanelType
<1>2. \A j \in DOMAIN p.board : p.board[j].id = p.board[i].id <=> j = i
  BY <1>1 DEF BoardGood
<1>3. CardAt(p, p.board[i].id) = i
  BY <1>1, <1>2 DEF CardAt
<1> QED
  BY <1>3 DEF RowsOf

LEMMA FreshId ==
  ASSUME NEW p, FreeIds(p) # {}
  PROVE  generateNewCardId(p) \in Ids \ p.cardIds
<1>1. FreeIds(p) \subseteq Nat /\ FreeIds(p) = Ids \ p.cardIds
  BY BoardAssumption DEF FreeIds, Ids
<1>2. \E id \in FreeIds(p) : \A other \in FreeIds(p) : id <= other
  BY <1>1, Keeping!Least
<1>3. generateNewCardId(p) \in FreeIds(p)
  BY <1>2 DEF generateNewCardId
<1> QED
  BY <1>1, <1>3

LEMMA RowCardIs ==
  ASSUME NEW p, PanelType(p), NEW v
  PROVE  \/ RowCard(p, v) = 0
         \/ RowCard(p, v) \in 1 .. Len(p.board) /\ v \in Range(p.board[RowCard(p, v)].rows)
<1> DEFINE I == {i \in 1 .. Len(p.board) : v \in Range(p.board[i].rows)}
<1>1. RowCard(p, v) = IF I # {} THEN Min(I) ELSE 0
  BY DEF RowCard, SelectInSeq
<1>2. I \subseteq Nat
  OBVIOUS
<1>3. I # {} => Min(I) \in I
  <2> HIDE DEF I
  <2> QED
    BY <1>2, MinIn
<1> QED
  BY <1>1, <1>3

\* The first row of a variable is taken away; the others stay.
LEMMA RowRemoved ==
  ASSUME NEW rows \in Seq(Variables), NEW v, v \in Range(rows)
  PROVE  LET rest == RemoveFirst(rows, v) IN
         /\ rest \in Seq(Variables) /\ Len(rest) = Len(rows) - 1
         /\ \A w \in Range(rows) : w # v => w \in Range(rest)
<1> DEFINE I == {i \in 1 .. Len(rows) : rows[i] = v}
           k == SelectInSeq(rows, LAMBDA x : x = v)
           rest == RemoveFirst(rows, v)
<1>1. k = IF I # {} THEN Min(I) ELSE 0
  BY DEF SelectInSeq
<1>2. I \subseteq Nat /\ I # {}
  BY DEF Range
<1>3. k \in 1 .. Len(rows) /\ rows[k] = v
  <2>1. Min(I) \in I
    <3> HIDE DEF I
    <3> QED
      BY <1>2, MinIn
  <2> QED
    BY <1>1, <1>2, <2>1
<1> HIDE DEF k
<1> DEFINE a == SubSeq(rows, 1, k - 1)
           b == SubSeq(rows, k + 1, Len(rows))
<1>4. /\ a \in Seq(Variables) /\ Len(a) = k - 1 /\ \A i \in 1 .. k - 1 : a[i] = rows[i]
      /\ b \in Seq(Variables) /\ Len(b) = Len(rows) - k
      /\ \A i \in 1 .. Len(rows) - k : b[i] = rows[k + i]
  BY <1>3
<1>5. rest = a \o b
  <2>1. \E i \in 1 .. Len(rows) : rows[i] = v
    BY <1>3
  <2> QED
    BY <2>1 DEF RemoveFirst, RemoveAt, k
<1> HIDE DEF a, b, rest
<1>6. /\ rest \in Seq(Variables) /\ Len(rest) = Len(rows) - 1
      /\ \A i \in 1 .. k - 1 : rest[i] = rows[i]
      /\ \A i \in 1 .. Len(rows) - k : rest[(k - 1) + i] = rows[k + i]
  <2>1. a \in Seq(Variables) /\ b \in Seq(Variables)
    BY <1>4
  <2>2. /\ rest \in Seq(Variables) /\ Len(rest) = Len(a) + Len(b)
        /\ \A i \in 1 .. Len(a) : rest[i] = a[i]
        /\ \A i \in 1 .. Len(b) : rest[Len(a) + i] = b[i]
    BY <1>5, <2>1
  <2>3. Len(rows) \in Nat /\ k \in 1 .. Len(rows)
    BY <1>3
  <2> QED
    BY <1>4, <2>2, <2>3
<1>7. ASSUME NEW j \in 1 .. Len(rows), rows[j] # v
      PROVE  \E i \in 1 .. Len(rest) : rest[i] = rows[j]
  <2>1. CASE j < k
    <3>1. j \in 1 .. k - 1 /\ j \in 1 .. Len(rest)
      BY <1>3, <1>6, <2>1
    <3> QED
      BY <1>6, <3>1
  <2>2. CASE j > k
    <3>1. j - k \in 1 .. Len(rows) - k /\ (k - 1) + (j - k) \in 1 .. Len(rest) /\ k + (j - k) = j
      BY <1>3, <1>6, <2>2
    <3> QED
      BY <1>6, <3>1
  <2> QED
    BY <1>3, <1>7, <2>1, <2>2
<1>8. DOMAIN rest = 1 .. Len(rest) /\ DOMAIN rows = 1 .. Len(rows)
  BY <1>6
<1>9. \A w \in Range(rows) : w # v => w \in Range(rest)
  BY <1>7, <1>8 DEF Range
<1> QED
  BY <1>6, <1>9 DEF rest, k

-----------------------------------------------------------------------------
(* Building.                                                               *)

\* q has one card more than p, at the end.
OneCardMore(p, q, card) ==
  /\ Len(q.board) = Len(p.board) + 1
  /\ \A i \in 1 .. Len(p.board) : q.board[i] = p.board[i]
  /\ q.board[Len(p.board) + 1] = card
  /\ q.cardIds = p.cardIds \cup {card.id} /\ q.lost = p.lost
  /\ q.tableList = IF card.owner = Table THEN Append(p.tableList, card.id) ELSE p.tableList
  /\ q.tools = p.tools /\ q.calls = p.calls /\ q.thrown = p.thrown

\* AddCard, and what findTable does to the list of tables.
WithCard(p, card) ==
  IF card.owner = Table THEN [AddCard(p, card) EXCEPT !.tableList = Append(@, card.id)]
  ELSE AddCard(p, card)

LEMMA CardIsAdded ==
  ASSUME NEW p, PanelType(p), NEW card \in Cards
  PROVE  OneCardMore(p, WithCard(p, card), card) /\ PanelType(WithCard(p, card))
<1> DEFINE q == WithCard(p, card)
<1>1. /\ DOMAIN p = {"tools", "board", "cardIds", "tableList", "calls", "thrown", "lost"}
      /\ p.board \in Seq(Cards) /\ p.tableList \in Seq(Ids) /\ p.cardIds \subseteq Ids
      /\ p.lost \subseteq Ids
  BY DEF PanelType
<1>2. /\ DOMAIN q = DOMAIN p
      /\ q.board = Append(p.board, card)
      /\ q.cardIds = p.cardIds \cup {card.id} /\ q.lost = p.lost
      /\ q.tableList = IF card.owner = Table THEN Append(p.tableList, card.id) ELSE p.tableList
      /\ q.tools = p.tools /\ q.calls = p.calls /\ q.thrown = p.thrown
  BY <1>1 DEF WithCard, AddCard
<1>3. card.id \in Ids
  BY DEF Cards
<1> HIDE DEF q
<1>4. /\ Append(p.board, card) \in Seq(Cards)
      /\ Len(Append(p.board, card)) = Len(p.board) + 1
      /\ \A i \in 1 .. Len(p.board) : Append(p.board, card)[i] = p.board[i]
      /\ Append(p.board, card)[Len(p.board) + 1] = card
      /\ Append(p.tableList, card.id) \in Seq(Ids)
  BY <1>1, <1>3
<1>5. OneCardMore(p, q, card)
  BY <1>2, <1>4 DEF OneCardMore
<1>6. /\ q.board \in Seq(Cards) /\ q.tableList \in Seq(Ids) /\ q.cardIds \subseteq Ids
      /\ q.lost \subseteq Ids
  BY <1>1, <1>2, <1>3, <1>4
<1>7. PanelType(q)
  BY <1>2, <1>6 DEF PanelType
<1> QED
  BY <1>5, <1>7 DEF q

LEMMA BoardWithCard ==
  ASSUME NEW p, PanelType(p), BoardGood(p, {}), NEW q, NEW card,
         OneCardMore(p, q, card), card.id \notin p.cardIds, card.rows = <<>>
  PROVE  BoardGood(q, IF card.owner = Table THEN {card.id} ELSE {})
<1> DEFINE n == Len(p.board)
           E == IF card.owner = Table THEN {card.id} ELSE {}
<1>1. /\ n \in Nat /\ Len(q.board) = n + 1 /\ n + 1 \in 1 .. n + 1
      /\ \A i \in 1 .. n : q.board[i] = p.board[i] /\ i \in 1 .. n + 1
      /\ \A i \in 1 .. n + 1 : i \in 1 .. n \/ i = n + 1
      /\ q.board[n + 1] = card
      /\ q.cardIds = p.cardIds \cup {card.id} /\ q.lost = p.lost
      /\ q.tableList = IF card.owner = Table THEN Append(p.tableList, card.id) ELSE p.tableList
  BY DEF OneCardMore, PanelType
<1> HIDE DEF n
<1>2. /\ \A i, j \in 1 .. n : p.board[i].id = p.board[j].id => i = j
      /\ p.cardIds = {p.board[i].id : i \in 1 .. n} \cup p.lost
      /\ \A i \in 1 .. n : p.board[i].id \notin p.lost
      /\ \A k, l \in 1 .. Len(p.tableList) : p.tableList[k] = p.tableList[l] => k = l
      /\ Range(p.tableList) = {p.board[i].id : i \in {j \in 1 .. n : p.board[j].owner = Table}}
      /\ \A i \in 1 .. n :
           IF p.board[i].owner = Table
           THEN Len(p.board[i].rows) <= MaxRows /\ p.board[i].rows # <<>>
           ELSE p.board[i].rows = <<>>
  BY DEF BoardGood, n
<1>3. card.id \notin p.lost /\ \A i \in 1 .. n : p.board[i].id # card.id
  BY <1>2
<1>4. \A i, j \in 1 .. n + 1 : q.board[i].id = q.board[j].id => i = j
  BY <1>1, <1>2, <1>3
<1>5. /\ q.cardIds = {q.board[i].id : i \in 1 .. n + 1} \cup q.lost
      /\ \A i \in 1 .. n + 1 : q.board[i].id \notin q.lost
  <2>1. ASSUME NEW i \in 1 .. n + 1
        PROVE  q.board[i].id \in p.cardIds \cup {card.id} /\ q.board[i].id \notin p.lost
    BY <1>1, <1>2, <1>3
  <2>2. ASSUME NEW x \in p.cardIds \cup {card.id}, x \notin p.lost
        PROVE  \E i \in 1 .. n + 1 : q.board[i].id = x
    <3>1. CASE x = card.id
      BY <1>1, <3>1
    <3>2. CASE x \in p.cardIds
      <4>1. PICK i \in 1 .. n : p.board[i].id = x
        BY <1>2, <2>2, <3>2
      <4> QED
        BY <1>1, <4>1
    <3> QED
      BY <2>2, <3>1, <3>2
  <2>3. p.lost \subseteq p.cardIds
    BY <1>2
  <2> DEFINE ids == {q.board[i].id : i \in 1 .. n + 1}
             have == p.cardIds \cup {card.id}
  <2>4. /\ \A x \in ids : x \in have /\ x \notin p.lost
        /\ \A x \in have : x \notin p.lost => x \in ids
        /\ p.lost \subseteq have
    BY <2>1, <2>2, <2>3
  <2>5. \A i \in 1 .. n + 1 : q.board[i].id \notin q.lost
    BY <1>1, <2>1
  <2>6. q.cardIds = have /\ q.lost = p.lost
    BY <1>1
  <2> HIDE DEF ids, have
  <2>7. have = ids \cup p.lost
    BY <2>4
  <2> QED
    BY <2>5, <2>6, <2>7 DEF ids
<1>6. /\ \A k, l \in 1 .. Len(q.tableList) : q.tableList[k] = q.tableList[l] => k = l
      /\ Range(q.tableList) = {q.board[i].id : i \in {j \in 1 .. n + 1 : q.board[j].owner = Table}}
  <2>1. CASE card.owner = Table
    <3> DEFINE t == p.tableList
               m == Len(t)
    <3>1. /\ m \in Nat /\ DOMAIN t = 1 .. m /\ DOMAIN q.tableList = 1 .. m + 1
          /\ Len(q.tableList) = m + 1 /\ q.tableList[m + 1] = card.id
          /\ \A k \in 1 .. m : q.tableList[k] = t[k]
          /\ \A k \in 1 .. m + 1 : k \in 1 .. m \/ k = m + 1
          /\ \A k \in 1 .. m : k \in 1 .. m + 1
          /\ m + 1 \in 1 .. m + 1
      BY <1>1, <2>1 DEF PanelType
    <3> HIDE DEF t, m
    <3>2. \A k \in 1 .. m : t[k] # card.id
      <4>1. \A k \in 1 .. m : t[k] \in Range(t)
        BY <3>1 DEF Range
      <4> QED
        BY <1>2, <1>3, <4>1 DEF t
    <3>3. \A k, l \in 1 .. m + 1 : q.tableList[k] = q.tableList[l] => k = l
      BY <1>2, <3>1, <3>2 DEF t, m
    <3>4. Range(q.tableList) = Range(t) \cup {card.id}
      BY <3>1 DEF Range
    <3>5. {q.board[i].id : i \in {j \in 1 .. n + 1 : q.board[j].owner = Table}}
            = {p.board[i].id : i \in {j \in 1 .. n : p.board[j].owner = Table}} \cup {card.id}
      BY <1>1, <2>1
    <3> QED
      BY <1>2, <3>1, <3>3, <3>4, <3>5 DEF t
  <2>2. CASE card.owner # Table
    <3>1. {q.board[i].id : i \in {j \in 1 .. n + 1 : q.board[j].owner = Table}}
            = {p.board[i].id : i \in {j \in 1 .. n : p.board[j].owner = Table}}
      BY <1>1, <2>2
    <3> QED
      BY <1>1, <1>2, <2>2, <3>1
  <2> QED
    BY <2>1, <2>2
<1>7. \A i \in 1 .. n + 1 :
        IF q.board[i].owner = Table
        THEN Len(q.board[i].rows) <= MaxRows /\ (q.board[i].rows = <<>> => q.board[i].id \in E)
        ELSE q.board[i].rows = <<>>
  <2>1. Len(<<>>) = 0 /\ 0 <= MaxRows
    BY BoardAssumption
  <2> QED
    BY <1>1, <1>2, <2>1
<1> QED
  BY <1>1, <1>4, <1>5, <1>6, <1>7 DEF BoardGood, E

\* Only the board may differ, and no tool loses its card.
Boards(p, q) ==
  /\ PanelType(q)
  /\ q.tools = p.tools /\ q.calls = p.calls /\ q.thrown = p.thrown
  /\ \A w, tool : OnBoard(p, w, tool) => OnBoard(q, w, tool)

LEMMA CardKeepsTools ==
  ASSUME NEW p, PanelType(p), NEW q, PanelType(q), NEW card, OneCardMore(p, q, card)
  PROVE  Boards(p, q)
<1>1. \A i \in 1 .. Len(p.board) : i \in 1 .. Len(q.board) /\ q.board[i] = p.board[i]
  BY DEF OneCardMore, PanelType
<1>2. \A w, tool : OnBoard(p, w, tool) => OnBoard(q, w, tool)
  BY <1>1 DEF OnBoard
<1> QED
  BY <1>2 DEF Boards, OneCardMore

\* A table with room, on the board of the panel that findTable leaves behind.
HasRoom(q, id) ==
  /\ id \in Ids
  /\ BoardGood(q, {id})
  /\ \E i \in 1 .. Len(q.board) :
       /\ q.board[i].id = id /\ q.board[i].owner = Table /\ Len(q.board[i].rows) < MaxRows
       /\ CardAt(q, id) = i

LEMMA TableIsFound ==
  ASSUME NEW p, PanelType(p), BoardGood(p, {})
  PROVE  \/ findTable(p).id = NoTool /\ findTable(p).panel = p
         \/ Boards(p, findTable(p).panel) /\ HasRoom(findTable(p).panel, findTable(p).id)
<1> DEFINE open == SelectInSeq(p.tableList, LAMBDA id : Len(RowsOf(p, id)) < MaxRows)
           I == {k \in 1 .. Len(p.tableList) : Len(RowsOf(p, p.tableList[k])) < MaxRows}
<1>1. open = IF I # {} THEN Min(I) ELSE 0
  BY DEF SelectInSeq
<1>2. I # {} => Min(I) \in I
  <2>1. I \subseteq Nat
    OBVIOUS
  <2> HIDE DEF I
  <2> QED
    BY <2>1, MinIn
<1>3. open # 0 => open \in 1 .. Len(p.tableList) /\ Len(RowsOf(p, p.tableList[open])) < MaxRows
  BY <1>1, <1>2
<1> HIDE DEF open, I
<1>4. CASE open # 0
  <2> DEFINE id == p.tableList[open]
  <2>1. findTable(p).panel = p /\ findTable(p).id = id
    BY <1>4 DEF findTable, open
  <2>2. id \in Range(p.tableList) /\ id \in Ids
    BY <1>3, <1>4 DEF Range, PanelType
  <2> HIDE DEF id
  <2>3. PICK i \in 1 .. Len(p.board) : p.board[i].id = id /\ p.board[i].owner = Table
    BY <2>2 DEF BoardGood
  <2>4. CardAt(p, id) = i /\ RowsOf(p, id) = p.board[i].rows
    BY <2>3, CardAtIs
  <2>5. Len(p.board[i].rows) < MaxRows
    BY <1>3, <1>4, <2>4 DEF id
  <2>6. BoardGood(p, {id})
    BY DEF BoardGood
  <2>7. HasRoom(p, id)
    BY <2>2, <2>3, <2>4, <2>5, <2>6 DEF HasRoom
  <2> QED
    BY <2>1, <2>7 DEF Boards
<1>5. CASE open = 0 /\ FreeIds(p) = {}
  BY <1>5 DEF findTable, open
<1>6. CASE open = 0 /\ FreeIds(p) # {}
  <2> DEFINE id == generateNewCardId(p)
             card == [id |-> id, owner |-> Table, rows |-> <<>>]
             q == WithCard(p, card)
  <2>1. id \in Ids /\ id \notin p.cardIds
    BY <1>6, FreshId
  <2>2. findTable(p).panel = q /\ findTable(p).id = id
    BY <1>6 DEF findTable, open, WithCard
  <2> HIDE DEF id
  <2>3. card \in Cards /\ card.id = id /\ card.owner = Table /\ card.rows = <<>>
    BY <2>1 DEF Cards
  <2> HIDE DEF card
  <2>4. OneCardMore(p, q, card) /\ PanelType(q)
    BY <2>3, CardIsAdded
  <2> HIDE DEF q
  <2>5. BoardGood(q, {id})
    BY <2>1, <2>3, <2>4, BoardWithCard
  <2> DEFINE i == Len(p.board) + 1
  <2>6. i \in 1 .. Len(q.board) /\ q.board[i] = card
    BY <2>4 DEF OneCardMore, PanelType
  <2> HIDE DEF i
  <2>7. CardAt(q, id) = i
    BY <2>3, <2>4, <2>5, <2>6, CardAtIs
  <2>8. Len(q.board[i].rows) < MaxRows
    BY <2>3, <2>6, BoardAssumption
  <2>9. HasRoom(q, id)
    BY <2>1, <2>3, <2>5, <2>6, <2>7, <2>8 DEF HasRoom
  <2> QED
    BY <2>2, <2>4, <2>9, CardKeepsTools
<1> QED
  BY <1>4, <1>5, <1>6

\* A row of the variable at the end of a table.
LEMMA RowIsAdded ==
  ASSUME NEW p, PanelType(p), NEW id, HasRoom(p, id), NEW v \in Variables
  PROVE  LET q == [p EXCEPT !.board[CardAt(p, id)].rows = Append(@, v)] IN
         /\ Boards(p, q) /\ BoardGood(q, {})
         /\ \E i \in 1 .. Len(q.board) :
              q.board[i].id = id /\ q.board[i].owner = Table /\ v \in Range(q.board[i].rows)
<1> DEFINE i == CardAt(p, id)
           q == [p EXCEPT !.board[i].rows = Append(@, v)]
           n == Len(p.board)
           rows == p.board[i].rows
           more == Append(rows, v)
<1>1. /\ i \in 1 .. n /\ p.board[i].id = id /\ p.board[i].owner = Table /\ Len(rows) < MaxRows
      /\ id \in Ids /\ BoardGood(p, {id})
  BY DEF HasRoom
<1>2. /\ DOMAIN p = {"tools", "board", "cardIds", "tableList", "calls", "thrown", "lost"}
      /\ p.board \in Seq(Cards) /\ DOMAIN p.board = 1 .. n /\ n \in Nat
      /\ p.board[i] \in Cards
  BY <1>1 DEF PanelType
<1>3. /\ DOMAIN q = DOMAIN p
      /\ q.tools = p.tools /\ q.calls = p.calls /\ q.thrown = p.thrown
      /\ q.cardIds = p.cardIds /\ q.lost = p.lost /\ q.tableList = p.tableList
      /\ q.board = [p.board EXCEPT ![i].rows = more]
  BY <1>2
<1> HIDE DEF i, q
<1>4. /\ DOMAIN q.board = 1 .. n
      /\ \A j \in 1 .. n : j # i => q.board[j] = p.board[j]
      /\ q.board[i] = [p.board[i] EXCEPT !.rows = more]
  BY <1>1, <1>2, <1>3
<1>5. rows \in Seq(Variables) /\ p.board[i].owner \in Variables \cup {Table}
  BY <1>2 DEF Cards
<1>6. /\ more \in Seq(Variables) /\ Len(more) = Len(rows) + 1 /\ more # <<>>
      /\ Range(rows) \subseteq Range(more) /\ v \in Range(more)
  <2>1. /\ more \in Seq(Variables) /\ Len(more) = Len(rows) + 1 /\ DOMAIN rows = 1 .. Len(rows)
        /\ DOMAIN more = 1 .. Len(rows) + 1 /\ Len(rows) \in Nat
        /\ \A k \in 1 .. Len(rows) : more[k] = rows[k]
        /\ more[Len(rows) + 1] = v
    BY <1>5, SMTT(30)
  <2> HIDE DEF rows, more
  <2>2. more # <<>>
    BY <2>1
  <2> QED
    BY <2>1, <2>2 DEF Range
<1> HIDE DEF more
<1>7. /\ q.board[i].id = id /\ q.board[i].owner = Table /\ q.board[i].rows = more
      /\ q.board[i] \in Cards
  BY <1>1, <1>2, <1>4, <1>6 DEF Cards
<1>8. q.board \in Seq(Cards) /\ Len(q.board) = n
  <2>1. \A j \in 1 .. n : q.board[j] \in Cards
    BY <1>2, <1>4, <1>7
  <2>2. q.board = [j \in 1 .. n |-> q.board[j]]
    BY <1>2, <1>3, <1>4
  <2> QED
    BY <1>2, <2>1, <2>2
<1>9. PanelType(q)
  BY <1>3, <1>8 DEF PanelType
<1>10. /\ \A j \in 1 .. n : q.board[j].id = p.board[j].id /\ q.board[j].owner = p.board[j].owner
       /\ \A j \in 1 .. n : Range(p.board[j].rows) \subseteq Range(q.board[j].rows)
  BY <1>1, <1>4, <1>6, <1>7
<1>11. Boards(p, q)
  <2>1. \A w, tool : OnBoard(p, w, tool) => OnBoard(q, w, tool)
    BY <1>8, <1>10 DEF OnBoard, Holds
  <2> QED
    BY <1>3, <1>9, <2>1 DEF Boards
<1>12. BoardGood(q, {})
  <2>1. /\ \A k, l \in 1 .. n : p.board[k].id = p.board[l].id => k = l
        /\ p.cardIds = {p.board[k].id : k \in 1 .. n} \cup p.lost
        /\ \A k \in 1 .. n : p.board[k].id \notin p.lost
        /\ \A k, l \in 1 .. Len(p.tableList) : p.tableList[k] = p.tableList[l] => k = l
        /\ Range(p.tableList) = {p.board[k].id : k \in {j \in 1 .. n : p.board[j].owner = Table}}
        /\ \A j \in 1 .. n :
             IF p.board[j].owner = Table
             THEN Len(p.board[j].rows) <= MaxRows /\ (p.board[j].rows = <<>> => p.board[j].id = id)
             ELSE p.board[j].rows = <<>>
    BY <1>1 DEF BoardGood
  <2>2. \A j \in 1 .. n :
          IF q.board[j].owner = Table
          THEN Len(q.board[j].rows) <= MaxRows /\ q.board[j].rows # <<>>
          ELSE q.board[j].rows = <<>>
    <3> SUFFICES ASSUME NEW j \in 1 .. n
                 PROVE  IF q.board[j].owner = Table
                        THEN Len(q.board[j].rows) <= MaxRows /\ q.board[j].rows # <<>>
                        ELSE q.board[j].rows = <<>>
      OBVIOUS
    <3>1. CASE j = i
      <4>1. Len(more) <= MaxRows
        BY <1>1, <1>5, <1>6, BoardAssumption
      <4> QED
        BY <1>6, <1>7, <3>1, <4>1
    <3>2. CASE j # i
      <4>1. q.board[j] = p.board[j] /\ p.board[j].id # id
        BY <1>1, <1>4, <2>1, <3>2
      <4> QED
        BY <2>1, <4>1
    <3> QED
      BY <3>1, <3>2
  <2>3. {q.board[k].id : k \in 1 .. n} = {p.board[k].id : k \in 1 .. n}
    BY <1>10
  <2>4. {q.board[k].id : k \in {j \in 1 .. n : q.board[j].owner = Table}}
          = {p.board[k].id : k \in {j \in 1 .. n : p.board[j].owner = Table}}
    BY <1>10
  <2>5. /\ \A k, l \in 1 .. n : q.board[k].id = q.board[l].id => k = l
        /\ \A k \in 1 .. n : q.board[k].id \notin p.lost
    BY <1>10, <2>1
  <2> QED
    BY <1>3, <1>8, <2>1, <2>2, <2>3, <2>4, <2>5 DEF BoardGood
<1> QED
  BY <1>1, <1>6, <1>7, <1>8, <1>11, <1>12 DEF q, i

\* What holds of a panel before and after every callback.
WellMade(p) == PanelType(p) /\ BoardGood(p, {}) /\ ToolsGood(p, NoTool, NoTool)

\* Only the tools of v may differ.
OnlyTools(p, q, v) ==
  /\ Listed(q) = Listed(p)
  /\ \A w \in Listed(p) : w # v => q.tools[w] = p.tools[w]

\* What is shown of v and what is asked for it go together.
Settling(p, q, v) ==
  /\ OnlyTools(p, q, v)
  /\ v \in Broken(p) => v \in Broken(q)
  /\ \/ q.calls = p.calls /\ (v \in Broken(q) \/ (v \in Shown(q) <=> v \in Shown(p)))
     \/ q.calls = Append(p.calls, StartRequest(v)) /\ v \in Shown(q) /\ v \in Variables
     \/ q.calls = Append(p.calls, StopRequest(v)) /\ v \in Listed(q) \ Shown(q) /\ v \in Variables

\* q is p with other tools of v.
HasTools(p, q, v, list) ==
  /\ DOMAIN q = DOMAIN p
  /\ q.board = p.board /\ q.cardIds = p.cardIds /\ q.lost = p.lost /\ q.tableList = p.tableList
  /\ q.calls = p.calls /\ q.thrown = p.thrown
  /\ DOMAIN q.tools = DOMAIN p.tools
  /\ \A w \in DOMAIN p.tools : q.tools[w] = IF w = v THEN list ELSE p.tools[w]

LEMMA ToolsAreSet ==
  ASSUME NEW p, PanelType(p), NEW v, NEW list \in Seq(Tools)
  PROVE  LET q == [p EXCEPT !.tools[v] = list] IN
         HasTools(p, q, v, list) /\ PanelType(q)
<1> DEFINE q == [p EXCEPT !.tools[v] = list]
<1>1. /\ DOMAIN p = {"tools", "board", "cardIds", "tableList", "calls", "thrown", "lost"}
      /\ p.tools \in [DOMAIN p.tools -> Seq(Tools)]
  BY DEF PanelType
<1>2. /\ DOMAIN q = DOMAIN p
      /\ q.board = p.board /\ q.cardIds = p.cardIds /\ q.lost = p.lost /\ q.tableList = p.tableList
      /\ q.calls = p.calls /\ q.thrown = p.thrown
      /\ q.tools = [p.tools EXCEPT ![v] = list]
  BY <1>1
<1> HIDE DEF q
<1>3. /\ DOMAIN q.tools = DOMAIN p.tools
      /\ \A w \in DOMAIN p.tools : q.tools[w] = IF w = v THEN list ELSE p.tools[w]
  BY <1>1, <1>2
<1>4. q.tools \in [DOMAIN p.tools -> Seq(Tools)]
  <2>1. q.tools = [w \in DOMAIN p.tools |-> IF w = v THEN list ELSE p.tools[w]]
    BY <1>1, <1>2
  <2>2. \A w \in DOMAIN p.tools : p.tools[w] \in Seq(Tools)
    BY <1>1
  <2> QED
    BY <2>1, <2>2
<1>5. HasTools(p, q, v, list)
  BY <1>2, <1>3 DEF HasTools
<1>6. PanelType(q)
  BY <1>2, <1>3, <1>4 DEF PanelType
<1> QED
  BY <1>5, <1>6 DEF q

LEMMA SameBoard ==
  ASSUME NEW p, NEW q, q.board = p.board, q.cardIds = p.cardIds, q.lost = p.lost,
         q.tableList = p.tableList, NEW E
  PROVE  /\ BoardGood(p, E) => BoardGood(q, E)
         /\ \A w, tool : OnBoard(p, w, tool) <=> OnBoard(q, w, tool)
BY DEF BoardGood, OnBoard

\* Ids are numbers or free for the null: no tool of a listed variable that is
\* not broken has the id NoTool.
LEMMA ToolIds ==
  ASSUME NEW p, PanelType(p), NEW w \in Listed(p) \ Broken(p), NEW tool \in Range(p.tools[w])
  PROVE  tool \in [type : ToolTypes, id : Ids] /\ tool.id \in Ids /\ tool.id # NoTool
<1>1. p.tools[w] \in Seq(Tools)
  BY DEF PanelType, Listed
<1>2. tool \in Tools /\ tool # NoTool
  BY <1>1 DEF Range, Broken
<1> QED
  BY <1>2, BoardAssumption DEF Tools

LEMMA AppendedTool ==
  ASSUME NEW list \in Seq(Tools), NEW tool \in Tools
  PROVE  /\ Append(list, tool) \in Seq(Tools) /\ Append(list, tool) # <<>>
         /\ Range(Append(list, tool)) = Range(list) \cup {tool}
         /\ Len(Append(list, tool)) = Len(list) + 1
<1> DEFINE more == Append(list, tool)
<1>1. /\ more \in Seq(Tools) /\ Len(more) = Len(list) + 1 /\ DOMAIN list = 1 .. Len(list)
      /\ DOMAIN more = 1 .. Len(list) + 1 /\ Len(list) \in Nat
      /\ \A k \in 1 .. Len(list) : more[k] = list[k]
      /\ more[Len(list) + 1] = tool
  OBVIOUS
<1> HIDE DEF more
<1>2. more # <<>>
  BY <1>1
<1>3. Range(more) = Range(list) \cup {tool}
  BY <1>1 DEF Range
<1> QED
  BY <1>1, <1>2, <1>3 DEF more

\* A tool more for v, null or on the board.
LEMMA ToolIsPushed ==
  ASSUME NEW p, WellMade(p), NEW v \in Listed(p), NEW tool \in Tools,
         tool = NoTool \/ OnBoard(p, v, tool)
  PROVE  LET q == PushTool(p, v, tool) IN
         /\ WellMade(q) /\ HasTools(p, q, v, Append(p.tools[v], tool))
         /\ OnlyTools(p, q, v)
         /\ v \in Shown(q) /\ (v \in Broken(q) <=> v \in Broken(p) \/ tool = NoTool)
         /\ Len(q.tools[v]) = Len(p.tools[v]) + 1
<1> DEFINE q == PushTool(p, v, tool)
           list == Append(p.tools[v], tool)
<1>1. PanelType(p) /\ p.tools[v] \in Seq(Tools)
  BY DEF WellMade, PanelType, Listed
<1>2. /\ list \in Seq(Tools) /\ list # <<>> /\ Range(list) = Range(p.tools[v]) \cup {tool}
      /\ Len(list) = Len(p.tools[v]) + 1
  BY <1>1, AppendedTool
<1>3. q = [p EXCEPT !.tools[v] = list]
  BY <1>1 DEF PushTool, PanelType
<1> HIDE DEF list, q
<1>4. HasTools(p, q, v, list) /\ PanelType(q)
  BY <1>1, <1>2, <1>3, ToolsAreSet
<1>5. OnlyTools(p, q, v) /\ q.tools[v] = list
  BY <1>4 DEF HasTools, OnlyTools, Listed
<1>6. /\ v \in Shown(q) /\ (v \in Broken(q) <=> v \in Broken(p) \/ tool = NoTool)
  BY <1>2, <1>4, <1>5 DEF Shown, Broken, OnlyTools
<1>7. BoardGood(q, {}) /\ \A w, t : OnBoard(p, w, t) <=> OnBoard(q, w, t)
  BY <1>4, SameBoard DEF HasTools, WellMade
<1>8. ToolsGood(q, NoTool, NoTool)
  <2> SUFFICES ASSUME NEW w \in Listed(q) \ Broken(q), NEW t \in Range(q.tools[w])
               PROVE  OnBoard(q, w, t)
    BY DEF ToolsGood
  <2>1. CASE w # v
    <3>1. w \in Listed(p) /\ q.tools[w] = p.tools[w] /\ w \notin Broken(p)
      BY <1>5, <2>1 DEF OnlyTools, Broken
    <3>2. t.id # NoTool
      BY <1>1, <3>1, ToolIds
    <3> QED
      BY <1>7, <3>1, <3>2 DEF WellMade, ToolsGood
  <2>2. CASE w = v
    <3>1. v \notin Broken(p) /\ tool # NoTool /\ t \in Range(p.tools[v]) \cup {tool}
      BY <1>2, <1>5, <1>6, <2>2
    <3>2. CASE t = tool
      BY <1>7, <2>2, <3>1, <3>2
    <3>3. CASE t \in Range(p.tools[v])
      <4>1. t.id # NoTool
        BY <1>1, <3>1, <3>3, ToolIds
      <4> QED
        BY <1>7, <2>2, <3>1, <3>3, <4>1 DEF WellMade, ToolsGood
    <3> QED
      BY <3>1, <3>2, <3>3
  <2> QED
    BY <2>1, <2>2
<1>9. WellMade(q) /\ Len(q.tools[v]) = Len(p.tools[v]) + 1
  BY <1>2, <1>4, <1>5, <1>7, <1>8 DEF WellMade
<1> QED
  BY <1>4, <1>5, <1>6, <1>9 DEF q, list

\* Throwing and asking change nothing else.
LEMMA ThrowIs ==
  ASSUME NEW p, WellMade(p)
  PROVE  /\ WellMade(Throw(p)) /\ OnlyTools(p, Throw(p), NoTool) /\ Throw(p).thrown = TRUE
         /\ Throw(p).tools = p.tools /\ Throw(p).calls = p.calls
<1>1. PanelType(p)
  BY DEF WellMade
<1> DEFINE q == Throw(p)
<1>2. /\ DOMAIN q = DOMAIN p /\ q.tools = p.tools /\ q.board = p.board /\ q.cardIds = p.cardIds
      /\ q.lost = p.lost
      /\ q.tableList = p.tableList /\ q.calls = p.calls /\ q.thrown = TRUE
  BY <1>1 DEF PanelType, Throw
<1> HIDE DEF q
<1>3. PanelType(q)
  BY <1>1, <1>2 DEF PanelType
<1>4. BoardGood(q, {}) /\ \A w, t : OnBoard(p, w, t) <=> OnBoard(q, w, t)
  BY <1>2, SameBoard DEF WellMade
<1>5. Listed(q) = Listed(p) /\ Broken(q) = Broken(p)
  BY <1>2 DEF Listed, Broken
<1>6. ToolsGood(q, NoTool, NoTool) /\ OnlyTools(p, q, NoTool)
  BY <1>2, <1>4, <1>5 DEF ToolsGood, OnlyTools, WellMade
<1> QED
  BY <1>2, <1>3, <1>4, <1>6 DEF WellMade, q

LEMMA CallIs ==
  ASSUME NEW p, WellMade(p), NEW r \in Calls
  PROVE  /\ WellMade(Call(p, r)) /\ Call(p, r).tools = p.tools
         /\ Call(p, r).calls = Append(p.calls, r) /\ Call(p, r).thrown = p.thrown
<1>1. PanelType(p)
  BY DEF WellMade
<1> DEFINE q == Call(p, r)
<1>2. /\ DOMAIN q = DOMAIN p /\ q.tools = p.tools /\ q.board = p.board /\ q.cardIds = p.cardIds
      /\ q.lost = p.lost
      /\ q.tableList = p.tableList /\ q.calls = Append(p.calls, r) /\ q.thrown = p.thrown
  BY <1>1 DEF PanelType, Call
<1> HIDE DEF q
<1>3. PanelType(q)
  <2>1. Append(p.calls, r) \in Seq(Calls)
    BY <1>1 DEF PanelType
  <2> QED
    BY <1>1, <1>2, <2>1 DEF PanelType
<1>4. BoardGood(q, {}) /\ \A w, t : OnBoard(p, w, t) <=> OnBoard(q, w, t)
  BY <1>2, SameBoard DEF WellMade
<1>5. Listed(q) = Listed(p) /\ Broken(q) = Broken(p)
  BY <1>2 DEF Listed, Broken
<1>6. ToolsGood(q, NoTool, NoTool)
  BY <1>2, <1>4, <1>5 DEF ToolsGood, WellMade
<1> QED
  BY <1>2, <1>3, <1>4, <1>6 DEF WellMade, q

\* Building a tool ends in one of these: an exception with the tools as they
\* were, or one more tool of v, perhaps null.
Built(p, q, v) ==
  /\ WellMade(q) /\ OnlyTools(p, q, v) /\ q.calls = p.calls
  /\ \/ q.thrown = TRUE /\ q.tools = p.tools
     \/ /\ q.thrown = p.thrown
        /\ v \in Shown(q) /\ (v \in Broken(p) => v \in Broken(q))
        /\ v \in Broken(q) \/ Len(q.tools[v]) = Len(p.tools[v]) + 1

LEMMA ToolIsBuilt ==
  ASSUME NEW p, WellMade(p), NEW v \in Listed(p), NEW tool \in Tools,
         tool = NoTool \/ OnBoard(p, v, tool)
  PROVE  Built(p, PushTool(p, v, tool), v)
<1>1. /\ WellMade(PushTool(p, v, tool))
      /\ HasTools(p, PushTool(p, v, tool), v, Append(p.tools[v], tool))
      /\ OnlyTools(p, PushTool(p, v, tool), v)
      /\ v \in Shown(PushTool(p, v, tool))
      /\ (v \in Broken(PushTool(p, v, tool)) <=> v \in Broken(p) \/ tool = NoTool)
      /\ Len(PushTool(p, v, tool).tools[v]) = Len(p.tools[v]) + 1
  BY ToolIsPushed
<1> QED
  BY <1>1 DEF Built, HasTools

LEMMA BoardsFirst ==
  ASSUME NEW p, NEW q, NEW r, NEW v, Boards(p, q), Built(q, r, v)
  PROVE  Built(p, r, v)
BY DEF Boards, Built, OnlyTools, Listed, Broken

LEMMA BoardsWell ==
  ASSUME NEW p, WellMade(p), NEW q, Boards(p, q), BoardGood(q, {})
  PROVE  WellMade(q)
<1>1. Listed(q) = Listed(p) /\ Broken(q) = Broken(p) /\ PanelType(q) /\ q.tools = p.tools
  BY DEF Boards, Listed, Broken
<1>2. ToolsGood(q, NoTool, NoTool)
  <2> SUFFICES ASSUME NEW w \in Listed(p) \ Broken(p), NEW t \in Range(p.tools[w])
               PROVE  OnBoard(q, w, t)
    BY <1>1 DEF ToolsGood
  <2>1. t.id # NoTool
    BY ToolIds DEF WellMade
  <2>2. OnBoard(p, w, t)
    BY <2>1 DEF WellMade, ToolsGood
  <2> QED
    BY <2>2 DEF Boards
<1> QED
  BY <1>1, <1>2 DEF WellMade

LEMMA ThrowIsBuilt ==
  ASSUME NEW p, WellMade(p), NEW v
  PROVE  Built(p, Throw(p), v)
BY ThrowIs DEF Built, OnlyTools, Listed

LEMMA TableRowIsBuilt ==
  ASSUME NEW p, WellMade(p), NEW v \in Listed(p)
  PROVE  Built(p, addVariableToTable(p, v), v)
<1> DEFINE first == SelectInSeq(p.tools[v], LAMBDA t : t = NoTool \/ t.type = "TABLE")
           q == findTable(p).panel
           id == findTable(p).id
<1>1. NoTool \in Tools /\ PanelType(p) /\ BoardGood(p, {}) /\ v \in Variables
  BY DEF Tools, WellMade, PanelType, Listed
<1>2. CASE first # 0
  <2>1. \/ addVariableToTable(p, v) = Throw(p)
        \/ addVariableToTable(p, v) = PushTool(p, v, NoTool)
    BY <1>2 DEF addVariableToTable
  <2> QED
    BY <1>1, <2>1, ToolIsBuilt, ThrowIsBuilt
<1>3. CASE first = 0 /\ id = NoTool
  <2>1. addVariableToTable(p, v) = PushTool(p, v, NoTool)
    BY <1>3 DEF addVariableToTable
  <2> QED
    BY <1>1, <2>1, ToolIsBuilt
<1>4. CASE first = 0 /\ id # NoTool
  <2>1. Boards(p, q) /\ HasRoom(q, id)
    BY <1>1, <1>4, TableIsFound
  <2> DEFINE r == [q EXCEPT !.board[CardAt(q, id)].rows = Append(@, v)]
             tool == [type |-> "TABLE", id |-> id]
  <2>2. addVariableToTable(p, v) = PushTool(r, v, tool)
    BY <1>4 DEF addVariableToTable
  <2> HIDE DEF first, q, id
  <2>3. PanelType(q) /\ id \in Ids
    BY <2>1 DEF Boards, HasRoom
  <2>4. /\ Boards(q, r) /\ BoardGood(r, {})
        /\ \E i \in 1 .. Len(r.board) :
             r.board[i].id = id /\ r.board[i].owner = Table /\ v \in Range(r.board[i].rows)
    BY <1>1, <2>1, <2>3, RowIsAdded
  <2> HIDE DEF r
  <2>5. OnBoard(r, v, tool) /\ tool \in Tools
    BY <2>3, <2>4 DEF OnBoard, Holds, Tools, ToolTypes
  <2>6. Boards(p, r)
    BY <2>1, <2>4 DEF Boards
  <2>7. WellMade(r) /\ v \in Listed(r)
    BY <2>4, <2>6, BoardsWell DEF Boards, Listed
  <2>8. Built(r, PushTool(r, v, tool), v)
    BY <2>5, <2>7, ToolIsBuilt
  <2> QED
    BY <2>2, <2>6, <2>8, BoardsFirst
<1> QED
  BY <1>2, <1>3, <1>4

\* The id of a card without a size is taken for good.
IdLost(p, id) == [p EXCEPT !.cardIds = @ \cup {id}, !.lost = @ \cup {id}]

LEMMA IdIsLost ==
  ASSUME NEW p, WellMade(p), NEW id \in Ids, id \notin p.cardIds
  PROVE  Boards(p, IdLost(p, id)) /\ BoardGood(IdLost(p, id), {})
<1> DEFINE q == IdLost(p, id)
<1>1. PanelType(p) /\ BoardGood(p, {})
  BY DEF WellMade
<1>2. /\ DOMAIN q = DOMAIN p /\ q.tools = p.tools /\ q.board = p.board
      /\ q.cardIds = p.cardIds \cup {id} /\ q.lost = p.lost \cup {id}
      /\ q.tableList = p.tableList /\ q.calls = p.calls /\ q.thrown = p.thrown
  BY <1>1 DEF PanelType, IdLost
<1> HIDE DEF q
<1>3. PanelType(q)
  BY <1>1, <1>2 DEF PanelType
<1>4. Boards(p, q)
  BY <1>2, <1>3 DEF Boards, OnBoard
<1>5. BoardGood(q, {})
  <2>1. /\ p.cardIds = {p.board[i].id : i \in 1 .. Len(p.board)} \cup p.lost
        /\ \A i \in 1 .. Len(p.board) : p.board[i].id \notin p.lost
    BY <1>1 DEF BoardGood
  <2>2. /\ q.cardIds = {q.board[i].id : i \in 1 .. Len(q.board)} \cup q.lost
        /\ \A i \in 1 .. Len(q.board) : q.board[i].id \notin q.lost
    BY <1>2, <2>1
  <2> QED
    BY <1>1, <1>2, <2>2 DEF BoardGood
<1> QED
  BY <1>4, <1>5 DEF q

\* A panel with another board, from which the callback throws.
LEMMA BoardsThrow ==
  ASSUME NEW p, WellMade(p), NEW q, Boards(p, q), BoardGood(q, {}), NEW v
  PROVE  Built(p, Throw(q), v)
<1>1. WellMade(q)
  BY BoardsWell
<1>2. Built(q, Throw(q), v)
  BY <1>1, ThrowIsBuilt
<1> QED
  BY <1>2, BoardsFirst

LEMMA CardIsBuilt ==
  ASSUME NEW p, WellMade(p), NEW v \in Listed(p), NEW type \in Kinds \ {"TABLE"}
  PROVE  Built(p, createCard(p, v, type), v)
<1>1. PanelType(p) /\ BoardGood(p, {}) /\ v \in Variables /\ v # Table
  BY BoardAssumption DEF WellMade, PanelType, Listed
<1>2. CASE FreeIds(p) = {}
  BY <1>2, ThrowIsBuilt DEF createCard
<1>3. CASE FreeIds(p) # {}
  <2> DEFINE id == generateNewCardId(p)
             card == [id |-> id, owner |-> v, rows |-> <<>>]
             r == WithCard(p, card)
             tool == [type |-> "CARD", id |-> id]
  <2>1. id \in Ids /\ id \notin p.cardIds
    BY <1>3, FreshId
  <2>2. createCard(p, v, type) =
          CASE type = "CARD"    -> PushTool(r, v, tool)
            [] type = "UNBUILT" -> Throw(r)
            [] type = "UNSIZED" -> Throw(IdLost(p, id))
    BY <1>1, <1>3 DEF createCard, WithCard, IdLost
  <2> HIDE DEF id
  <2>3. card \in Cards /\ card.id = id /\ card.owner = v /\ card.rows = <<>>
    BY <1>1, <2>1 DEF Cards
  <2> HIDE DEF card
  <2>4. OneCardMore(p, r, card) /\ PanelType(r)
    BY <1>1, <2>3, CardIsAdded
  <2> HIDE DEF r
  <2>5. BoardGood(r, {})
    BY <1>1, <2>1, <2>3, <2>4, BoardWithCard
  <2>6. Boards(p, r)
    BY <1>1, <2>4, CardKeepsTools
  <2>7. OnBoard(r, v, tool) /\ tool \in Tools
    <3>1. Len(p.board) + 1 \in 1 .. Len(r.board) /\ r.board[Len(p.board) + 1] = card
      BY <1>1, <2>4 DEF OneCardMore, PanelType
    <3> QED
      BY <2>1, <2>3, <3>1 DEF OnBoard, Holds, Tools, ToolTypes
  <2>8. WellMade(r) /\ v \in Listed(r)
    BY <2>5, <2>6, BoardsWell DEF Boards, Listed
  <2>9. Built(r, PushTool(r, v, tool), v)
    BY <2>7, <2>8, ToolIsBuilt
  <2>10. CASE type = "CARD"
    <3>1. createCard(p, v, type) = PushTool(r, v, tool)
      BY <2>2, <2>10
    <3> QED
      BY <2>6, <2>9, <3>1, BoardsFirst
  <2>11. CASE type = "UNBUILT"
    <3>1. createCard(p, v, type) = Throw(r)
      BY <2>2, <2>11
    <3> QED
      BY <2>5, <2>6, <3>1, BoardsThrow
  <2>12. CASE type = "UNSIZED"
    <3>1. createCard(p, v, type) = Throw(IdLost(p, id))
      BY <2>2, <2>12
    <3> QED
      BY <2>1, <3>1, IdIsLost, BoardsThrow
  <2> QED
    BY <2>10, <2>11, <2>12 DEF Kinds, ToolTypes
<1> QED
  BY <1>2, <1>3

\* The tool a dialog or settings.json asks for.
LEMMA BuildSettles ==
  ASSUME NEW p, WellMade(p), NEW v, NEW type \in Kinds
  PROVE  /\ WellMade(buildCard(p, v, type)) /\ Settling(p, buildCard(p, v, type), v)
         /\ buildCard(p, v, type).calls \in {p.calls, Append(p.calls, StartRequest(v))}
<1>1. CASE p.thrown \/ v \notin Listed(p)
  BY <1>1 DEF buildCard, Settling, OnlyTools
<1>2. CASE ~p.thrown /\ v \in Listed(p)
  <2> DEFINE q == IF type = "TABLE" THEN addVariableToTable(p, v) ELSE createCard(p, v, type)
             r == IF q.thrown THEN q ELSE StartIfFirst(setStatusOnCards(q, v), v)
  <2>1. Built(p, q, v)
    BY <1>2, TableRowIsBuilt, CardIsBuilt
  <2>2. buildCard(p, v, type) = r
    <3>1. buildCard(p, v, type)
            = Of(q, LAMBDA x : IF x.thrown THEN x ELSE StartIfFirst(setStatusOnCards(x, v), v))
      BY <1>2 DEF buildCard
    <3> HIDE DEF q
    <3>2. Of(q, LAMBDA x : IF x.thrown THEN x ELSE StartIfFirst(setStatusOnCards(x, v), v)) = r
      BY DEF Of
    <3> QED
      BY <3>1, <3>2
  <2> HIDE DEF q
  <2>3. p.thrown = FALSE /\ v \in Variables
    BY <1>2 DEF WellMade, PanelType, Listed
  <2>4. WellMade(q) /\ OnlyTools(p, q, v) /\ q.calls = p.calls
    BY <2>1 DEF Built
  <2>5. CASE q.thrown = TRUE
    <3>1. r = q
      BY <2>5
    <3>2. q.tools = p.tools \/ v \in Broken(q)
      BY <2>1, <2>3, <2>5 DEF Built
    <3>3. Settling(p, q, v)
      BY <2>1, <2>4, <3>2 DEF Built, Settling, Shown, Broken, Listed
    <3> QED
      BY <2>2, <2>4, <3>1, <3>3
  <2>6. CASE q.thrown # TRUE
    <3>0. q.thrown = FALSE
      BY <2>4, <2>6 DEF WellMade, PanelType
    <3>1. /\ v \in Shown(q) /\ (v \in Broken(p) => v \in Broken(q))
          /\ v \in Broken(q) \/ Len(q.tools[v]) = Len(p.tools[v]) + 1
      BY <2>1, <2>6 DEF Built
    <3>2. CASE v \in Broken(q)
      <4>1. r = Throw(q)
        BY <3>0, <3>2, ThrowIs, <2>4 DEF setStatusOnCards, StartIfFirst
      <4>2. /\ WellMade(r) /\ r.tools = q.tools /\ r.calls = q.calls
        BY <2>4, <4>1, ThrowIs
      <4> HIDE DEF r
      <4>3. Settling(p, r, v)
        BY <2>4, <3>2, <4>2 DEF Settling, OnlyTools, Listed, Broken, Shown
      <4> QED
        BY <2>2, <2>4, <4>2, <4>3
    <3>3. CASE v \notin Broken(q)
      <4>1. r = StartIfFirst(q, v) /\ Len(q.tools[v]) = Len(p.tools[v]) + 1
        BY <3>0, <3>1, <3>3 DEF setStatusOnCards
      <4>2. p.tools[v] \in Seq(Tools)
        BY <1>2 DEF WellMade, PanelType, Listed
      <4>3. CASE Len(q.tools[v]) = 1
        <5>1. r = Call(q, StartRequest(v)) /\ StartRequest(v) \in Calls
          BY <2>3, <3>0, <4>1, <4>3 DEF StartIfFirst, Calls
        <5>2. WellMade(r) /\ r.tools = q.tools /\ r.calls = Append(q.calls, StartRequest(v))
          BY <2>4, <5>1, CallIs
        <5> HIDE DEF r
        <5>3. Settling(p, r, v)
          BY <2>3, <2>4, <3>1, <5>2 DEF Settling, OnlyTools, Listed, Broken, Shown
        <5> QED
          BY <2>2, <2>4, <5>2, <5>3
      <4>4. CASE Len(q.tools[v]) # 1
        <5>1. r = q
          BY <4>1, <4>4 DEF StartIfFirst
        <5>2. p.tools[v] # <<>>
          BY <4>1, <4>2, <4>4
        <5>3. v \in Shown(p)
          BY <1>2, <5>2 DEF Shown
        <5>4. Settling(p, q, v)
          BY <2>4, <3>1, <5>3 DEF Settling
        <5> QED
          BY <2>2, <2>4, <5>1, <5>4
      <4> QED
        BY <4>3, <4>4
    <3> QED
      BY <3>2, <3>3
  <2> QED
    BY <2>5, <2>6
<1> QED
  BY <1>1, <1>2

-----------------------------------------------------------------------------
(* Removing.                                                               *)

LEMMA WithoutIs ==
  ASSUME NEW X, NEW list \in Seq(X), NEW id
  PROVE  /\ Without(list, id) \in Seq(X)
         /\ Range(Without(list, id)) = {x \in Range(list) : x.id # id}
         /\ \E f \in [1 .. Len(Without(list, id)) -> 1 .. Len(list)] :
              /\ \A k \in 1 .. Len(Without(list, id)) : Without(list, id)[k] = list[f[k]]
              /\ \A k, l \in 1 .. Len(Without(list, id)) : f[k] = f[l] => k = l
<1> DEFINE S == {x \in Range(list) : x.id # id}
<1>1. Without(list, id) = Keep(list, S)
  BY DEF Without
<1>2. Range(list) \cap S = S
  OBVIOUS
<1> HIDE DEF S
<1>3. Keep(list, S) \in Seq(X) /\ Range(Keep(list, S)) = S
  BY <1>2, KeepRange
<1>4. \E f \in [1 .. Len(Keep(list, S)) -> 1 .. Len(list)] :
        /\ \A k \in 1 .. Len(Keep(list, S)) : Keep(list, S)[k] = list[f[k]]
        /\ \A k, l \in 1 .. Len(Keep(list, S)) : f[k] = f[l] => k = l
  BY KeepInjective
<1> QED
  BY <1>1, <1>3, <1>4 DEF S

\* q is p without the card.
CardGone(p, q, id) ==
  /\ PanelType(q)
  /\ q.board = Without(p.board, id) /\ q.cardIds = p.cardIds \ {id} /\ q.lost = p.lost
  /\ q.tools = p.tools /\ q.calls = p.calls /\ q.thrown = p.thrown

LEMMA CardIsRemoved ==
  ASSUME NEW p, PanelType(p), NEW E, BoardGood(p, E), NEW id, id \notin p.lost,
         NEW q, CardGone(p, q, id),
         \A k, l \in 1 .. Len(q.tableList) : q.tableList[k] = q.tableList[l] => k = l,
         Range(q.tableList) = Range(p.tableList) \ {id}
  PROVE  BoardGood(q, E \ {id})
<1> DEFINE n == Len(p.board)
           m == Len(q.board)
<1>1. /\ p.board \in Seq(Cards) /\ q.board \in Seq(Cards) /\ q.board = Without(p.board, id)
      /\ DOMAIN p.board = 1 .. n /\ DOMAIN q.board = 1 .. m
      /\ q.cardIds = p.cardIds \ {id} /\ q.lost = p.lost
  BY DEF PanelType, CardGone
<1>2. /\ Range(q.board) = {x \in Range(p.board) : x.id # id}
      /\ \E f \in [1 .. m -> 1 .. n] :
              /\ \A k \in 1 .. m : q.board[k] = p.board[f[k]]
              /\ \A k, l \in 1 .. m : f[k] = f[l] => k = l
  BY <1>1, WithoutIs
<1>3. PICK f \in [1 .. m -> 1 .. n] :
              /\ \A k \in 1 .. m : q.board[k] = p.board[f[k]]
              /\ \A k, l \in 1 .. m : f[k] = f[l] => k = l
  BY <1>2
<1> HIDE DEF n, m
<1>4. \A k \in 1 .. m : f[k] \in 1 .. n /\ q.board[k] = p.board[f[k]] /\ q.board[k].id # id
  <2>1. \A k \in 1 .. m : q.board[k] \in Range(q.board)
    BY <1>1 DEF Range
  <2> QED
    BY <1>2, <1>3, <2>1
<1>5. \A i \in 1 .. n : p.board[i].id # id => \E k \in 1 .. m : q.board[k] = p.board[i]
  <2>1. \A i \in 1 .. n : p.board[i].id # id => p.board[i] \in Range(q.board)
    BY <1>1, <1>2 DEF Range
  <2> QED
    BY <1>1, <2>1 DEF Range
<1>6. /\ \A i, j \in 1 .. n : p.board[i].id = p.board[j].id => i = j
      /\ p.cardIds = {p.board[i].id : i \in 1 .. n} \cup p.lost
      /\ \A i \in 1 .. n : p.board[i].id \notin p.lost
      /\ Range(p.tableList) = {p.board[i].id : i \in {j \in 1 .. n : p.board[j].owner = Table}}
      /\ \A i \in 1 .. n :
           IF p.board[i].owner = Table
           THEN Len(p.board[i].rows) <= MaxRows /\ (p.board[i].rows = <<>> => p.board[i].id \in E)
           ELSE p.board[i].rows = <<>>
  BY DEF BoardGood, n
<1>7. \A k, l \in 1 .. m : q.board[k].id = q.board[l].id => k = l
  BY <1>3, <1>4, <1>6
<1>8. /\ q.cardIds = {q.board[i].id : i \in 1 .. m} \cup q.lost
      /\ \A i \in 1 .. m : q.board[i].id \notin q.lost
  <2>1. ASSUME NEW i \in 1 .. m
        PROVE  q.board[i].id \in p.cardIds \ {id} /\ q.board[i].id \notin p.lost
    BY <1>4, <1>6
  <2>2. ASSUME NEW x \in p.cardIds \ {id}, x \notin p.lost
        PROVE  \E i \in 1 .. m : q.board[i].id = x
    <3>1. PICK i \in 1 .. n : p.board[i].id = x
      BY <1>6, <2>2
    <3>2. PICK k \in 1 .. m : q.board[k] = p.board[i]
      BY <1>5, <2>2, <3>1
    <3> QED
      BY <3>1, <3>2
  <2>3. p.lost \subseteq p.cardIds \ {id}
    BY <1>6
  <2> QED
    BY <1>1, <2>1, <2>2, <2>3
<1>9. Range(q.tableList) = {q.board[i].id : i \in {j \in 1 .. m : q.board[j].owner = Table}}
  <2>1. ASSUME NEW i \in 1 .. m, q.board[i].owner = Table
        PROVE  q.board[i].id \in Range(p.tableList) \ {id}
    <3>1. f[i] \in 1 .. n /\ q.board[i] = p.board[f[i]] /\ q.board[i].id # id
      BY <1>4
    <3> QED
      BY <1>6, <2>1, <3>1
  <2>2. ASSUME NEW x \in Range(p.tableList) \ {id}
        PROVE  \E i \in 1 .. m : q.board[i].owner = Table /\ q.board[i].id = x
    <3>1. PICK i \in 1 .. n : p.board[i].id = x /\ p.board[i].owner = Table
      BY <1>6
    <3>2. PICK k \in 1 .. m : q.board[k] = p.board[i]
      BY <1>5, <3>1
    <3> QED
      BY <3>1, <3>2
  <2> QED
    BY <2>1, <2>2
<1>10. \A i \in 1 .. m :
           IF q.board[i].owner = Table
           THEN Len(q.board[i].rows) <= MaxRows /\ (q.board[i].rows = <<>> => q.board[i].id \in E \ {id})
           ELSE q.board[i].rows = <<>>
  BY <1>4, <1>6
<1> QED
  BY <1>7, <1>8, <1>9, <1>10 DEF BoardGood, m

\* Of the card that is removed, nobody but v has a tool.
LEMMA ToolsWithoutCard ==
  ASSUME NEW p, PanelType(p), NEW v, NEW id, NEW w0, NEW id0,
         ToolsGood(p, w0, id0), (w0 = v /\ id0 = id) \/ id0 = NoTool, NEW q, CardGone(p, q, id),
         \A i \in 1 .. Len(p.board), w \in Listed(p) \ Broken(p) : \A tool \in Range(p.tools[w]) :
           p.board[i].id = id /\ Holds(p.board[i], w, tool) => w = v
  PROVE  ToolsGood(q, v, id)
<1>1. /\ p.board \in Seq(Cards) /\ q.board \in Seq(Cards) /\ q.board = Without(p.board, id)
      /\ DOMAIN p.board = 1 .. Len(p.board) /\ DOMAIN q.board = 1 .. Len(q.board)
  BY DEF PanelType, CardGone
<1>2. Range(q.board) = {x \in Range(p.board) : x.id # id}
  BY <1>1, WithoutIs
<1>3. \A i \in 1 .. Len(p.board) : p.board[i].id # id =>
        \E k \in 1 .. Len(q.board) : q.board[k] = p.board[i]
  <2>1. \A i \in 1 .. Len(p.board) : p.board[i].id # id => p.board[i] \in Range(q.board)
    BY <1>1, <1>2 DEF Range
  <2> QED
    BY <1>1, <2>1 DEF Range
<1>4. Listed(q) = Listed(p) /\ Broken(q) = Broken(p) /\ q.tools = p.tools
  BY DEF CardGone, Listed, Broken
<1> SUFFICES ASSUME NEW w \in Listed(p) \ Broken(p), NEW tool \in Range(p.tools[w])
             PROVE  OnBoard(q, w, tool) \/ (w = v /\ tool.id = id)
  BY <1>4 DEF ToolsGood
<1>5. tool.id # NoTool
  BY ToolIds
<1>6. CASE OnBoard(p, w, tool)
  <2>1. PICK i \in 1 .. Len(p.board) : Holds(p.board[i], w, tool)
    BY <1>6 DEF OnBoard
  <2>2. CASE p.board[i].id = id
    <3>1. w = v /\ tool.id = id
      BY <2>1, <2>2 DEF Holds
    <3> QED
      BY <3>1
  <2>3. CASE p.board[i].id # id
    <3>1. PICK k \in 1 .. Len(q.board) : q.board[k] = p.board[i]
      BY <1>3, <2>3
    <3> QED
      BY <2>1, <3>1 DEF OnBoard
  <2> QED
    BY <2>2, <2>3
<1> QED
  BY <1>5, <1>6 DEF ToolsGood

LEMMA ToolIsRemoved ==
  ASSUME NEW p, PanelType(p), BoardGood(p, {}), NEW v, NEW id, ToolsGood(p, v, id)
  PROVE  LET q == removeToolFromVariable(p, v, id) IN
         (p.thrown = FALSE => WellMade(q)) /\ Settling(p, q, v)
<1>1. CASE p.thrown = TRUE
  BY <1>1 DEF removeToolFromVariable, Settling, OnlyTools
<1>2. CASE p.thrown = FALSE /\ (v \notin Listed(p) \/ v \in Broken(p))
  <2>1. removeToolFromVariable(p, v, id) = Throw(p)
    BY <1>2 DEF removeToolFromVariable
  <2>2. WellMade(p)
    BY <1>2 DEF WellMade, ToolsGood
  <2>3. WellMade(Throw(p)) /\ Throw(p).tools = p.tools /\ Throw(p).calls = p.calls
    BY <2>2, ThrowIs
  <2>4. Settling(p, Throw(p), v)
    BY <2>3 DEF Settling, OnlyTools, Listed, Broken, Shown
  <2> QED
    BY <2>1, <2>3, <2>4
<1>3. CASE p.thrown = FALSE /\ v \in Listed(p) \ Broken(p)
  <2> DEFINE kept == Without(p.tools[v], id)
             q == [p EXCEPT !.tools[v] = kept]
  <2>1. p.tools[v] \in Seq(Tools) /\ v \in Variables
    BY <1>3 DEF PanelType, Listed
  <2>2. kept \in Seq(Tools) /\ Range(kept) = {x \in Range(p.tools[v]) : x.id # id}
    BY <2>1, WithoutIs
  <2>3. removeToolFromVariable(p, v, id) = IF kept = <<>> THEN Call(q, StopRequest(v)) ELSE q
    BY <1>3 DEF removeToolFromVariable
  <2> HIDE DEF kept
  <2>4. HasTools(p, q, v, kept) /\ PanelType(q)
    BY <2>2, ToolsAreSet
  <2> HIDE DEF q
  <2>5. OnlyTools(p, q, v) /\ q.tools[v] = kept /\ v \in Listed(q) /\ v \notin Broken(q)
    BY <1>3, <2>2, <2>4 DEF HasTools, OnlyTools, Listed, Broken
  <2>6. BoardGood(q, {}) /\ \A w, t : OnBoard(p, w, t) <=> OnBoard(q, w, t)
    BY <2>4, SameBoard DEF HasTools
  <2>7. ToolsGood(q, NoTool, NoTool)
    <3> SUFFICES ASSUME NEW w \in Listed(q) \ Broken(q), NEW t \in Range(q.tools[w])
                 PROVE  OnBoard(q, w, t)
      BY DEF ToolsGood
    <3>1. w \in Listed(p) \ Broken(p)
      BY <1>3, <2>5 DEF OnlyTools, Broken
    <3>2. t \in Range(p.tools[w]) /\ (w = v => t.id # id)
      BY <2>2, <2>5 DEF OnlyTools
    <3> QED
      BY <2>6, <3>1, <3>2 DEF ToolsGood
  <2>8. WellMade(q)
    BY <2>4, <2>6, <2>7 DEF WellMade
  <2>9. CASE kept = <<>>
    <3> DEFINE r == Call(q, StopRequest(v))
    <3>1. StopRequest(v) \in Calls
      BY <2>1 DEF Calls
    <3>2. WellMade(r) /\ r.tools = q.tools /\ r.calls = Append(q.calls, StopRequest(v))
      BY <2>8, <3>1, CallIs
    <3> HIDE DEF r
    <3>3. Settling(p, r, v)
      <4>1. v \in Listed(r) /\ v \notin Shown(r) /\ OnlyTools(p, r, v) /\ v \notin Broken(p)
        BY <1>3, <2>5, <2>9, <3>2 DEF Listed, Shown, OnlyTools
      <4>2. r.calls = Append(p.calls, StopRequest(v))
        BY <2>4, <3>2 DEF HasTools
      <4> QED
        BY <2>1, <4>1, <4>2 DEF Settling
    <3> QED
      BY <2>3, <2>9, <3>2, <3>3 DEF r
  <2>10. CASE kept # <<>>
    <3>1. p.tools[v] # <<>>
      <4>1. CASE p.tools[v] = <<>>
        <5>1. Range(kept) = {}
          BY <2>2, <4>1 DEF Range
        <5>2. Len(kept) = 0
          BY <2>2, <5>1 DEF Range
        <5> QED
          BY <2>2, <2>10, <5>2
      <4> QED
        BY <4>1
    <3>2. v \in Shown(p) /\ v \in Shown(q) /\ q.calls = p.calls
      BY <1>3, <2>4, <2>5, <2>10, <3>1 DEF Shown, HasTools
    <3>3. Settling(p, q, v)
      BY <1>3, <2>5, <3>2 DEF Settling
    <3> QED
      BY <2>3, <2>8, <2>10, <3>3
  <2> QED
    BY <2>9, <2>10
<1> QED
  BY <1>1, <1>2, <1>3 DEF PanelType

\* The card of v itself is closed.
LEMMA CardIsClosed ==
  ASSUME NEW p, WellMade(p), p.thrown = FALSE, NEW i \in 1 .. Len(p.board), p.board[i].owner # Table
  PROVE  LET v == p.board[i].owner
             q == handleClickCloseCard(p, v, p.board[i].id) IN
         WellMade(q) /\ Settling(p, q, v)
<1> DEFINE v == p.board[i].owner
           id == p.board[i].id
           q == removeCard(p, id)
<1>1. PanelType(p) /\ BoardGood(p, {}) /\ ToolsGood(p, NoTool, NoTool)
  BY DEF WellMade
<1>2. CardGone(p, q, id) /\ q.tableList = p.tableList
  <2>1. /\ DOMAIN q = DOMAIN p /\ q.tools = p.tools /\ q.calls = p.calls /\ q.thrown = p.thrown
        /\ q.board = Without(p.board, id) /\ q.cardIds = p.cardIds \ {id}
        /\ q.lost = p.lost /\ q.tableList = p.tableList
    BY <1>1 DEF PanelType, removeCard
  <2>2. Without(p.board, id) \in Seq(Cards)
    BY <1>1, WithoutIs DEF PanelType
  <2> HIDE DEF q, id
  <2>3. PanelType(q)
    BY <1>1, <2>1, <2>2 DEF PanelType
  <2> QED
    BY <2>1, <2>3 DEF CardGone
<1> HIDE DEF q
<1>3. BoardGood(q, {} \ {id})
  <2>1. id \notin Range(p.tableList)
    BY <1>1 DEF BoardGood
  <2>2. /\ \A k, l \in 1 .. Len(q.tableList) : q.tableList[k] = q.tableList[l] => k = l
        /\ Range(q.tableList) = Range(p.tableList) \ {id}
    BY <1>1, <1>2, <2>1 DEF BoardGood
  <2>3. id \notin p.lost
    BY <1>1 DEF BoardGood
  <2> HIDE DEF id
  <2> QED
    BY <1>1, <1>2, <2>2, <2>3, CardIsRemoved
<1>4. ToolsGood(q, v, id)
  <2>1. \A j \in 1 .. Len(p.board), w \in Listed(p) \ Broken(p) : \A tool \in Range(p.tools[w]) :
           p.board[j].id = id /\ Holds(p.board[j], w, tool) => w = v
    <3>1. \A j \in 1 .. Len(p.board) : p.board[j].id = id => j = i
      BY <1>1 DEF BoardGood
    <3> QED
      BY <3>1 DEF Holds
  <2> HIDE DEF v, id
  <2> QED
    BY <1>1, <1>2, <2>1, ToolsWithoutCard
<1>5. PanelType(q) /\ BoardGood(q, {}) /\ q.thrown = FALSE
  BY <1>2, <1>3 DEF CardGone
<1> DEFINE r == removeToolFromVariable(q, v, id)
<1>6. WellMade(r) /\ Settling(q, r, v)
  <2> HIDE DEF v, id
  <2> QED
    BY <1>4, <1>5, ToolIsRemoved
<1>7. handleClickCloseCard(p, v, id) = r
  BY DEF handleClickCloseCard, q
<1> HIDE DEF r, v, id
<1>8. Settling(p, r, v)
  BY <1>2, <1>6 DEF CardGone, Settling, OnlyTools, Listed, Broken, Shown
<1> QED
  BY <1>6, <1>7, <1>8 DEF v, id

\* q is p with a row of v less in the table id, which may have no rows now.
RowGone(p, q, v, id) ==
  /\ PanelType(q) /\ q.tools = p.tools /\ q.calls = p.calls /\ q.thrown = FALSE
  /\ BoardGood(q, {id}) /\ ToolsGood(q, v, id)
  /\ \E i \in 1 .. Len(q.board) : q.board[i].id = id /\ q.board[i].owner = Table

LEMMA RowIsGone ==
  ASSUME NEW p, WellMade(p), p.thrown = FALSE, NEW v, NEW id
  PROVE  RemoveRow(p, id, v) = Throw(p) \/ RowGone(p, RemoveRow(p, id, v), v, id)
<1> DEFINE i == RowCard(p, v)
           q == RemoveRow(p, id, v)
           n == Len(p.board)
           rows == p.board[i].rows
           rest == RemoveFirst(rows, v)
<1> SUFFICES ASSUME q # Throw(p) PROVE RowGone(p, q, v, id)
  OBVIOUS
<1>1. PanelType(p) /\ BoardGood(p, {}) /\ ToolsGood(p, NoTool, NoTool)
  BY DEF WellMade
<1>2. /\ i # 0 /\ p.board[i].id = id
      /\ q = [p EXCEPT !.board[i].rows = RemoveFirst(@, v)]
  BY DEF RemoveRow
<1>3. i \in 1 .. n /\ v \in Range(rows)
  BY <1>1, <1>2, RowCardIs
<1>4. /\ DOMAIN p = {"tools", "board", "cardIds", "tableList", "calls", "thrown", "lost"}
      /\ p.board \in Seq(Cards) /\ DOMAIN p.board = 1 .. n /\ n \in Nat
      /\ p.board[i] \in Cards
  BY <1>1, <1>3 DEF PanelType
<1>5. rows \in Seq(Variables) /\ p.board[i].owner \in Variables \cup {Table}
  BY <1>4 DEF Cards
<1>6. /\ rest \in Seq(Variables) /\ Len(rest) = Len(rows) - 1
      /\ \A w \in Range(rows) : w # v => w \in Range(rest)
  <2> HIDE DEF i
  <2> HIDE DEF rows
  <2> QED
    BY <1>3, <1>5, RowRemoved
<1>7. /\ DOMAIN q = DOMAIN p
      /\ q.tools = p.tools /\ q.calls = p.calls /\ q.thrown = p.thrown
      /\ q.cardIds = p.cardIds /\ q.lost = p.lost /\ q.tableList = p.tableList
      /\ q.board = [p.board EXCEPT ![i].rows = rest]
  <2> HIDE DEF i, q
  <2> QED
    BY <1>2, <1>4
<1> HIDE DEF i, q
<1>8. /\ DOMAIN q.board = 1 .. n
      /\ \A j \in 1 .. n : j # i => q.board[j] = p.board[j]
      /\ q.board[i] = [p.board[i] EXCEPT !.rows = rest]
  BY <1>3, <1>4, <1>7
<1> HIDE DEF rest
<1>9. /\ q.board[i].id = id /\ q.board[i].owner = p.board[i].owner /\ q.board[i].rows = rest
      /\ q.board[i] \in Cards
  <2>1. p.board[i].id = id
    BY <1>2
  <2> QED
    BY <2>1, <1>4, <1>6, <1>8 DEF Cards
<1>10. q.board \in Seq(Cards) /\ Len(q.board) = n
  <2>1. \A j \in 1 .. n : q.board[j] \in Cards
    BY <1>4, <1>8, <1>9
  <2>2. q.board = [j \in 1 .. n |-> q.board[j]]
    BY <1>4, <1>7, <1>8
  <2> QED
    BY <1>4, <2>1, <2>2
<1>11. PanelType(q)
  BY <1>1, <1>7, <1>10 DEF PanelType
<1>12. \A j \in 1 .. n : q.board[j].id = p.board[j].id /\ q.board[j].owner = p.board[j].owner
  BY <1>2, <1>8, <1>9
<1>13. /\ \A k, l \in 1 .. n : p.board[k].id = p.board[l].id => k = l
       /\ p.cardIds = {p.board[k].id : k \in 1 .. n} \cup p.lost
       /\ \A k \in 1 .. n : p.board[k].id \notin p.lost
       /\ \A k, l \in 1 .. Len(p.tableList) : p.tableList[k] = p.tableList[l] => k = l
       /\ Range(p.tableList) = {p.board[k].id : k \in {j \in 1 .. n : p.board[j].owner = Table}}
       /\ \A j \in 1 .. n :
            IF p.board[j].owner = Table
            THEN Len(p.board[j].rows) <= MaxRows /\ p.board[j].rows # <<>>
            ELSE p.board[j].rows = <<>>
  BY <1>1 DEF BoardGood
<1>14. p.board[i].owner = Table
  <2>1. rows # <<>>
    BY <1>3 DEF Range
  <2> QED
    BY <1>3, <1>13, <2>1
<1>15. BoardGood(q, {id})
  <2>1. \A j \in 1 .. n :
          IF q.board[j].owner = Table
          THEN Len(q.board[j].rows) <= MaxRows /\ (q.board[j].rows = <<>> => q.board[j].id \in {id})
          ELSE q.board[j].rows = <<>>
    <3> SUFFICES ASSUME NEW j \in 1 .. n
                 PROVE  IF q.board[j].owner = Table
                        THEN Len(q.board[j].rows) <= MaxRows /\ (q.board[j].rows = <<>> => q.board[j].id \in {id})
                        ELSE q.board[j].rows = <<>>
      OBVIOUS
    <3>1. CASE j = i
      <4>1. Len(rest) <= MaxRows
        <5>1. Len(rows) <= MaxRows /\ Len(rows) \in Nat
          BY <1>3, <1>5, <1>13, <1>14
        <5> QED
          BY <1>6, <5>1, BoardAssumption
      <4> QED
        BY <1>9, <1>14, <3>1, <4>1
    <3>2. CASE j # i
      <4>1. q.board[j] = p.board[j]
        BY <1>8, <3>2
      <4> QED
        BY <1>13, <4>1
    <3> QED
      BY <3>1, <3>2
  <2>2. {q.board[k].id : k \in 1 .. n} = {p.board[k].id : k \in 1 .. n}
    BY <1>12
  <2>3. {q.board[k].id : k \in {j \in 1 .. n : q.board[j].owner = Table}}
          = {p.board[k].id : k \in {j \in 1 .. n : p.board[j].owner = Table}}
    BY <1>12
  <2>4. /\ \A k, l \in 1 .. n : q.board[k].id = q.board[l].id => k = l
        /\ \A k \in 1 .. n : q.board[k].id \notin p.lost
    BY <1>12, <1>13
  <2> QED
    BY <1>7, <1>10, <1>13, <2>1, <2>2, <2>3, <2>4 DEF BoardGood
<1>16. ToolsGood(q, v, id)
  <2>1. Listed(q) = Listed(p) /\ Broken(q) = Broken(p) /\ q.tools = p.tools
    BY <1>7 DEF Listed, Broken
  <2> SUFFICES ASSUME NEW w \in Listed(p) \ Broken(p), NEW tool \in Range(p.tools[w])
               PROVE  OnBoard(q, w, tool) \/ (w = v /\ tool.id = id)
    BY <2>1 DEF ToolsGood
  <2>2. tool.id # NoTool
    BY <1>1, ToolIds
  <2>3. PICK j \in 1 .. n : Holds(p.board[j], w, tool)
    BY <1>1, <2>2 DEF ToolsGood, OnBoard
  <2>4. CASE j # i
    <3>1. q.board[j] = p.board[j]
      BY <1>8, <2>4
    <3> QED
      BY <1>10, <2>3, <3>1 DEF OnBoard
  <2>5. CASE j = i /\ w = v
    BY <1>2, <2>3, <2>5 DEF Holds
  <2>6. CASE j = i /\ w # v
    <3>1. Holds(q.board[i], w, tool)
      BY <1>2, <1>6, <1>9, <2>3, <2>6 DEF Holds
    <3> QED
      BY <1>3, <1>10, <3>1 DEF OnBoard
  <2> QED
    BY <2>4, <2>5, <2>6
<1> QED
  BY <1>3, <1>7, <1>9, <1>10, <1>11, <1>14, <1>15, <1>16 DEF RowGone

LEMMA TableIsRemoved ==
  ASSUME NEW p, PanelType(p), NEW v, NEW id, BoardGood(p, {id}), ToolsGood(p, v, id), p.thrown = FALSE,
         \E i \in 1 .. Len(p.board) : p.board[i].id = id /\ p.board[i].owner = Table
  PROVE  LET q == removeTable(p, id) IN
         /\ PanelType(q) /\ q.tools = p.tools /\ q.calls = p.calls /\ q.thrown = FALSE
         /\ BoardGood(q, {}) /\ ToolsGood(q, v, id)
<1>1. PICK i \in 1 .. Len(p.board) : p.board[i].id = id /\ p.board[i].owner = Table
  OBVIOUS
<1>2. RowsOf(p, id) = p.board[i].rows
  BY <1>1, CardAtIs
<1>3. \A j \in 1 .. Len(p.board) : p.board[j].id = id => j = i
  BY <1>1 DEF BoardGood
<1>4. CASE RowsOf(p, id) # <<>>
  <2>1. removeTable(p, id) = p
    BY <1>4 DEF removeTable
  <2>2. \A j \in 1 .. Len(p.board) :
          IF p.board[j].owner = Table
          THEN Len(p.board[j].rows) <= MaxRows /\ (p.board[j].rows = <<>> => p.board[j].id \in {})
          ELSE p.board[j].rows = <<>>
    BY <1>2, <1>3, <1>4 DEF BoardGood
  <2>3. BoardGood(p, {})
    BY <2>2 DEF BoardGood
  <2> QED
    BY <2>1, <2>3
<1>5. CASE RowsOf(p, id) = <<>>
  <2> DEFINE q == removeTable(p, id)
             t == Keep(p.tableList, Ids \ {id})
  <2>0. p.tableList \in Seq(Ids)
    BY DEF PanelType
  <2>1. /\ DOMAIN q = DOMAIN p /\ q.tools = p.tools /\ q.calls = p.calls /\ q.thrown = p.thrown
        /\ q.board = Without(p.board, id) /\ q.cardIds = p.cardIds \ {id}
        /\ q.lost = p.lost /\ q.tableList = t
    BY <1>5 DEF PanelType, removeTable, removeCard
  <2>2. Without(p.board, id) \in Seq(Cards)
    BY WithoutIs DEF PanelType
  <2> HIDE DEF q
  <2>3. t \in Seq(Ids) /\ Range(t) = Range(p.tableList) \ {id}
    <3>1. t \in Seq(Ids) /\ Range(t) = Range(p.tableList) \cap (Ids \ {id})
      BY <2>0, KeepRange
    <3>2. Range(p.tableList) \subseteq Ids
      BY <2>0 DEF Range
    <3> QED
      BY <3>1, <3>2
  <2>4. \A k, l \in 1 .. Len(t) : t[k] = t[l] => k = l
    <3>1. \A k, l \in 1 .. Len(p.tableList) : p.tableList[k] = p.tableList[l] => k = l
      BY DEF BoardGood
    <3> DEFINE list == p.tableList
    <3> HIDE DEF list
    <3>2. \A k, l \in 1 .. Len(Keep(list, Ids \ {id})) :
            Keep(list, Ids \ {id})[k] = Keep(list, Ids \ {id})[l] => k = l
      BY <2>0, <3>1, KeepDistinct DEF list
    <3> QED
      BY <3>2 DEF list
  <2> HIDE DEF t
  <2>5. PanelType(q)
    BY <2>1, <2>2, <2>3 DEF PanelType
  <2>6. CardGone(p, q, id)
    BY <2>1, <2>5 DEF CardGone
  <2>7. BoardGood(q, {})
    <3>0. id \notin p.lost
      BY <1>1 DEF BoardGood
    <3>1. BoardGood(q, {id} \ {id})
      BY <2>1, <2>3, <2>4, <2>6, <3>0, CardIsRemoved
    <3>2. {id} \ {id} = {}
      OBVIOUS
    <3> QED
      BY <3>1, <3>2
  <2>8. ToolsGood(q, v, id)
    <3>1. ASSUME NEW j \in 1 .. Len(p.board), NEW w \in Listed(p) \ Broken(p),
                 NEW tool \in Range(p.tools[w]), p.board[j].id = id, Holds(p.board[j], w, tool)
          PROVE  FALSE
      <4>1. j = i /\ p.board[j].rows = <<>> /\ w \in Variables
        BY <1>2, <1>3, <1>5, <3>1 DEF PanelType, Listed
      <4>2. w \notin Range(p.board[j].rows)
        BY <4>1 DEF Range
      <4> QED
        BY <1>1, <3>1, <4>1, <4>2, BoardAssumption DEF Holds
    <3> QED
      BY <2>6, <3>1, ToolsWithoutCard
  <2> QED
    BY <2>1, <2>5, <2>7, <2>8 DEF q
<1> QED
  BY <1>4, <1>5

LEMMA RowIsClosed ==
  ASSUME NEW p, WellMade(p), p.thrown = FALSE, NEW v, NEW id
  PROVE  LET q == handleClickCloseTableRow(p, v, id) IN
         WellMade(q) /\ Settling(p, q, v)
<1>1. WellMade(Throw(p)) /\ Settling(p, Throw(p), v)
  BY ThrowIs DEF Settling, OnlyTools, Listed, Broken, Shown
<1> DEFINE q == RemoveRow(p, id, v)
<1>2. CASE v \notin Listed(p) \/ q = Throw(p)
  <2>1. Throw(p).thrown = TRUE
    BY ThrowIs
  <2>2. handleClickCloseTableRow(p, v, id) = Throw(p)
    BY <1>2, <2>1 DEF handleClickCloseTableRow
  <2> QED
    BY <1>1, <2>2
<1>3. CASE v \in Listed(p) /\ q # Throw(p)
  <2>1. /\ PanelType(q) /\ q.tools = p.tools /\ q.calls = p.calls /\ q.thrown = FALSE
        /\ BoardGood(q, {id}) /\ ToolsGood(q, v, id)
        /\ \E i \in 1 .. Len(q.board) : q.board[i].id = id /\ q.board[i].owner = Table
    <3>1. RowGone(p, q, v, id)
      BY <1>3, RowIsGone
    <3> HIDE DEF q
    <3> QED
      BY <3>1 DEF RowGone
  <2> DEFINE r == removeTable(q, id)
             s == removeToolFromVariable(r, v, id)
  <2>2. handleClickCloseTableRow(p, v, id) = s
    BY <1>3, <2>1 DEF handleClickCloseTableRow
  <2> HIDE DEF q
  <2>3. /\ PanelType(r) /\ r.tools = q.tools /\ r.calls = q.calls /\ r.thrown = FALSE
        /\ BoardGood(r, {}) /\ ToolsGood(r, v, id)
    BY <2>1, TableIsRemoved
  <2> HIDE DEF r
  <2>4. WellMade(s) /\ Settling(r, s, v)
    BY <2>3, ToolIsRemoved
  <2> HIDE DEF s
  <2>5. Settling(p, s, v)
    BY <2>1, <2>3, <2>4 DEF Settling, OnlyTools, Listed, Broken, Shown
  <2> QED
    BY <2>2, <2>4, <2>5
<1> QED
  BY <1>2, <1>3

-----------------------------------------------------------------------------
(* A new variable list.                                                    *)

LEMMA SetAsSeq ==
  ASSUME NEW S, IsFiniteSet(S)
  PROVE  /\ Cardinality(S) \in Nat /\ DOMAIN SetToSeq(S) = 1 .. Cardinality(S)
         /\ \A i \in 1 .. Cardinality(S) : SetToSeq(S)[i] \in S
<1>1. Cardinality(S) \in Nat /\ ExistsBijection(1 .. Cardinality(S), S)
  BY FS_CardinalityType
<1>2. \E f \in [1 .. Cardinality(S) -> S] : IsInjective(f)
  BY <1>1 DEF ExistsBijection, Bijection, Injection
<1>3. SetToSeq(S) \in [1 .. Cardinality(S) -> S]
  BY <1>2 DEF SetToSeq
<1> QED
  BY <1>1, <1>3

LEMMA ListedFinite ==
  ASSUME NEW p, PanelType(p), NEW S, S \subseteq Listed(p)
  PROVE  IsFiniteSet(S)
<1>1. S \subseteq Variables
  BY DEF PanelType, Listed
<1> QED
  BY <1>1, FS_Subset, ClientAssumption

\* No card is closed: the variables that are gone have no tools.
CloseToolStep(c, r, tool) == CloseTool(r, c.variable, tool)

CloseToolGood(c, i, r) == r = c.panel

ClosingTools == INSTANCE FoldInduction WITH Step <- CloseToolStep, Good <- CloseToolGood

Closed(r, v, tools) == FoldLeft(LAMBDA q, tool : CloseTool(q, v, tool), r, tools)

CloseAllStep(c, r, v) == Closed(r, v, c.tools[v])

CloseAllGood(c, i, r) == r = c

ClosingAll == INSTANCE FoldInduction WITH Step <- CloseAllStep, Good <- CloseAllGood

LEMMA NoToolIsClosed ==
  ASSUME NEW p, NEW v
  PROVE  Closed(p, v, <<>>) = p
<1> DEFINE c == [variable |-> v, panel |-> p]
<1>1. Closed(p, v, <<>>) = ClosingTools!Fold(c, p, <<>>)
  BY DEF Closed, CloseToolStep, ClosingTools!Fold, FoldLeft, MapThenFoldSet, ClosingTools!FoldLeft,
     ClosingTools!MapThenFoldSet, Max, ClosingTools!Max
<1>2. CloseToolGood(c, 0, p) /\ c.panel = p
  BY DEF CloseToolGood
<1> HIDE DEF c
<1>3. DOMAIN <<>> = 1 .. 0 /\ 0 \in Nat
  OBVIOUS
<1>4. \A r : \A i \in 1 .. 0 : CloseToolGood(c, i - 1, r) => CloseToolGood(c, i, CloseToolStep(c, r, <<>>[i]))
  OBVIOUS
<1>5. CloseToolGood(c, 0, ClosingTools!Fold(c, p, <<>>))
  BY <1>2, <1>3, <1>4, ClosingTools!FoldKeeps
<1> QED
  BY <1>1, <1>2, <1>5 DEF CloseToolGood

LEMMA NoCardIsClosed ==
  ASSUME NEW p, PanelType(p), NEW new
  PROVE  removeOldCards(p, new) = p
<1> DEFINE gone == {v \in Listed(p) \ new : p.tools[v] = <<>>}
           n == Cardinality(gone)
           list == SetToSeq(gone)
<1>1. removeOldCards(p, new) = ClosingAll!Fold(p, p, list)
  BY DEF removeOldCards, CloseAllStep, Closed, ClosingAll!Fold, FoldLeft, MapThenFoldSet, ClosingAll!FoldLeft,
     ClosingAll!MapThenFoldSet, Max, ClosingAll!Max
<1>2. n \in Nat /\ DOMAIN list = 1 .. n /\ \A i \in 1 .. n : list[i] \in gone
  <2>1. IsFiniteSet(gone)
    BY ListedFinite
  <2> HIDE DEF gone
  <2> QED
    BY <2>1, SetAsSeq
<1>3. \A i \in 1 .. n : p.tools[list[i]] = <<>>
  BY <1>2
<1> HIDE DEF gone, n, list
<1>4. CloseAllGood(p, 0, p)
  BY DEF CloseAllGood
<1>5. ASSUME NEW r, NEW i \in 1 .. n, CloseAllGood(p, i - 1, r)
      PROVE  CloseAllGood(p, i, CloseAllStep(p, r, list[i]))
  <2>1. CloseAllStep(p, r, list[i]) = Closed(p, list[i], <<>>)
    BY <1>3, <1>5 DEF CloseAllStep, CloseAllGood
  <2> QED
    BY <2>1, NoToolIsClosed DEF CloseAllGood
<1>6. CloseAllGood(p, n, ClosingAll!Fold(p, p, list))
  BY <1>2, <1>4, <1>5, ClosingAll!FoldKeeps
<1> QED
  BY <1>1, <1>6 DEF CloseAllGood

\* What the tools of settings.json make of a panel: tools for listed variables,
\* and the start of the monitoring of those that had none.
Asked(q, v) == \E k \in 1 .. Len(q.calls) : q.calls[k] = StartRequest(v)

Displayed(p, q) ==
  /\ WellMade(q) /\ Listed(q) = Listed(p) /\ Broken(p) \subseteq Broken(q)
  /\ \A k \in 1 .. Len(q.calls) : \E v \in Listed(p) : q.calls[k] = StartRequest(v)
  /\ \A v \in Listed(p) \ Broken(q) :
       v \in Shown(q) <=> v \in Shown(p) \/ Asked(q, v)

LEMMA BuildDisplays ==
  ASSUME NEW p, NEW q, Displayed(p, q), NEW v \in Listed(p), NEW type \in Kinds
  PROVE  Displayed(p, buildCard(q, v, type))
<1> DEFINE r == buildCard(q, v, type)
<1>1. WellMade(q) /\ Listed(q) = Listed(p) /\ Broken(p) \subseteq Broken(q) /\ q.calls \in Seq(Calls)
  BY DEF Displayed, WellMade, PanelType
<1>2. /\ WellMade(r) /\ Settling(q, r, v)
      /\ r.calls \in {q.calls, Append(q.calls, StartRequest(v))}
  BY <1>1, BuildSettles
<1> HIDE DEF r
<1>3. Listed(r) = Listed(q) /\ \A w \in Listed(q) : w # v => r.tools[w] = q.tools[w]
  BY <1>2 DEF Settling, OnlyTools
<1>4. \A w \in Listed(p) : w # v =>
        (w \in Broken(r) <=> w \in Broken(q)) /\ (w \in Shown(r) <=> w \in Shown(q))
  BY <1>1, <1>3 DEF Broken, Shown
<1>5. Broken(p) \subseteq Broken(r)
  BY <1>1, <1>2, <1>4 DEF Settling, Broken
<1>6. CASE r.calls = q.calls
  <2>1. \A request \in Calls : r.calls # Append(q.calls, request)
    <3>1. \A request \in Calls : Len(Append(q.calls, request)) = Len(q.calls) + 1
      BY <1>1
    <3>2. Len(q.calls) \in Nat
      BY <1>1
    <3> QED
      BY <1>6, <3>1, <3>2 DEF Asked
  <2>2. v \in Variables => StartRequest(v) \in Calls /\ StopRequest(v) \in Calls
    BY DEF Calls
  <2>3. v \in Broken(r) \/ (v \in Shown(r) <=> v \in Shown(q))
    BY <1>2, <2>1, <2>2 DEF Settling
  <2>4. WellMade(r) /\ Listed(r) = Listed(p)
    BY <1>1, <1>2, <1>3
  <2>5. \A k \in 1 .. Len(r.calls) : \E w \in Listed(p) : r.calls[k] = StartRequest(w)
    BY <1>6 DEF Displayed
  <2>6. ASSUME NEW w \in Listed(p) \ Broken(r)
        PROVE  w \in Shown(r) <=> w \in Shown(p) \/ Asked(r, w)
    <3>1. w \notin Broken(q) /\ (w \in Shown(r) <=> w \in Shown(q))
      BY <1>2, <1>4, <2>3, <2>6 DEF Settling
    <3>2. w \in Shown(q) <=> w \in Shown(p) \/ Asked(q, w)
      BY <2>6, <3>1 DEF Displayed
    <3> QED
      BY <1>6, <3>1, <3>2 DEF Asked
  <2> QED
    BY <1>5, <2>4, <2>5, <2>6 DEF Displayed, r
<1>7. CASE r.calls = Append(q.calls, StartRequest(v))
  <2> DEFINE n == Len(q.calls)
  <2>1. v \in Variables /\ StartRequest(v) \in Calls /\ StopRequest(v) \in Calls
    BY <1>1 DEF Calls, WellMade, PanelType, Listed
  <2>2. /\ n \in Nat /\ Len(r.calls) = n + 1 /\ r.calls[n + 1] = StartRequest(v)
        /\ \A k \in 1 .. n : r.calls[k] = q.calls[k]
        /\ \A k \in 1 .. n + 1 : k \in 1 .. n \/ k = n + 1
        /\ \A k \in 1 .. n : k \in 1 .. n + 1
        /\ n + 1 \in 1 .. n + 1
    BY <1>1, <1>7, <2>1
  <2>3. Append(q.calls, StopRequest(v))[n + 1] = StopRequest(v)
    BY <1>1, <2>1
  <2>4. StartRequest(v) # StopRequest(v) /\ \A w : StartRequest(w) = StartRequest(v) => w = v
    BY DEF StartRequest, StopRequest
  <2> HIDE DEF n
  <2>5. v \in Shown(r)
    <3>1. r.calls # q.calls /\ r.calls # Append(q.calls, StopRequest(v))
      BY <2>2, <2>3, <2>4 DEF n
    <3> QED
      BY <1>2, <3>1 DEF Settling
  <2>6. \A k \in 1 .. Len(r.calls) : \E w \in Listed(p) : r.calls[k] = StartRequest(w)
    BY <2>2 DEF Displayed, n
  <2>7. ASSUME NEW w \in Listed(p) \ Broken(r)
        PROVE  w \in Shown(r) <=> w \in Shown(p) \/ Asked(r, w)
    <3>1. CASE w = v
      BY <2>2, <2>5, <3>1 DEF Asked
    <3>2. CASE w # v
      <4>1. Asked(r, w) <=> Asked(q, w)
        BY <2>2, <2>4, <3>2 DEF Asked, n
      <4>2. w \in Shown(q) <=> w \in Shown(p) \/ Asked(q, w)
        BY <1>4, <2>7, <3>2 DEF Displayed
      <4> QED
        BY <1>4, <3>2, <4>1, <4>2
    <3> QED
      BY <3>1, <3>2
  <2>8. WellMade(r) /\ Listed(r) = Listed(p)
    BY <1>1, <1>2, <1>3
  <2> QED
    BY <1>5, <2>6, <2>7, <2>8 DEF Displayed, r
<1> QED
  BY <1>2, <1>6, <1>7 DEF r

\* The fold over the tools of one variable, and the one over the variables.
BuildStep(c, r, type) == Of(r, LAMBDA x : buildCard(x, c.variable, type))

BuildGood(c, i, r) == Displayed(c.panel, r)

Building == INSTANCE FoldInduction WITH Step <- BuildStep, Good <- BuildGood

DisplayStep(c, r, v) == displayVariable(r, v)

DisplayGood(c, i, r) == Displayed(c, r)

Displaying == INSTANCE FoldInduction WITH Step <- DisplayStep, Good <- DisplayGood

LEMMA VariableIsDisplayed ==
  ASSUME NEW p, NEW q, Displayed(p, q), NEW v \in Listed(p)
  PROVE  Displayed(p, displayVariable(q, v))
<1>1. CASE v \notin DOMAIN DefaultTools
  BY <1>1 DEF displayVariable
<1>2. CASE v \in DOMAIN DefaultTools
  <2> DEFINE c == [variable |-> v, panel |-> p]
             types == DefaultTools[v]
             n == Len(types)
  <2>1. displayVariable(q, v) = Building!Fold(c, q, types)
    BY <1>2 DEF displayVariable, BuildStep, Building!Fold, FoldLeft, MapThenFoldSet, Building!FoldLeft,
       Building!MapThenFoldSet, Max, Building!Max
  <2>2. c.variable = v /\ c.panel = p
    OBVIOUS
  <2>3. n \in Nat /\ DOMAIN types = 1 .. n /\ \A i \in 1 .. n : types[i] \in Kinds
    <3>1. types \in Seq(Kinds)
      BY <1>2, SettingsAssumption
    <3> HIDE DEF types
    <3> QED
      BY <3>1
  <2> HIDE DEF c, n, types
  <2>4. BuildGood(c, 0, q)
    BY <2>2 DEF BuildGood
  <2>5. ASSUME NEW r, NEW i \in 1 .. n, BuildGood(c, i - 1, r)
        PROVE  BuildGood(c, i, BuildStep(c, r, types[i]))
    <3>1. Displayed(p, r)
      BY <2>2, <2>5 DEF BuildGood
    <3>2. BuildStep(c, r, types[i]) = buildCard(r, c.variable, types[i])
      BY DEF BuildStep, Of
    <3>3. types[i] \in Kinds
      BY <2>3
    <3> QED
      BY <2>2, <3>1, <3>2, <3>3, BuildDisplays DEF BuildGood
  <2>6. BuildGood(c, n, Building!Fold(c, q, types))
    BY <2>3, <2>4, <2>5, Building!FoldKeeps
  <2> QED
    BY <2>1, <2>2, <2>6 DEF BuildGood
<1> QED
  BY <1>1, <1>2

LEMMA AllAreDisplayed ==
  ASSUME NEW p, WellMade(p), p.calls = <<>>
  PROVE  Displayed(p, defaultDisplay(p))
<1> DEFINE S == Listed(p)
           n == Cardinality(S)
           list == SetToSeq(S)
<1>1. Displayed(p, p)
  <2>1. Len(p.calls) = 0
    OBVIOUS
  <2> QED
    BY <2>1 DEF Displayed, Asked
<1>2. CASE ~init
  BY <1>1, <1>2 DEF defaultDisplay
<1>3. CASE init
  <2>1. defaultDisplay(p) = Displaying!Fold(p, p, list)
    BY <1>3 DEF defaultDisplay, DisplayStep, Displaying!Fold, FoldLeft, MapThenFoldSet, Displaying!FoldLeft,
       Displaying!MapThenFoldSet, Max, Displaying!Max
  <2>2. n \in Nat /\ DOMAIN list = 1 .. n /\ \A i \in 1 .. n : list[i] \in S
    <3>1. IsFiniteSet(S)
      BY ListedFinite DEF WellMade
    <3> HIDE DEF S
    <3> QED
      BY <3>1, SetAsSeq
  <2> HIDE DEF n, list
  <2>3. DisplayGood(p, 0, p)
    BY <1>1 DEF DisplayGood
  <2>4. ASSUME NEW r, NEW i \in 1 .. n, DisplayGood(p, i - 1, r)
        PROVE  DisplayGood(p, i, DisplayStep(p, r, list[i]))
    BY <2>2, <2>4, VariableIsDisplayed DEF DisplayGood, DisplayStep
  <2>5. DisplayGood(p, n, Displaying!Fold(p, p, list))
    BY <2>2, <2>3, <2>4, Displaying!FoldKeeps
  <2> QED
    BY <2>1, <2>5 DEF DisplayGood
<1> QED
  BY <1>2, <1>3

\* What a new list leaves behind.
Relisted(p, new, q) ==
  /\ WellMade(q) /\ Listed(q) = new /\ Broken(p) \cap new \subseteq Broken(q)
  /\ \A k \in 1 .. Len(q.calls) : \E v \in new : q.calls[k] = StartRequest(v)
  /\ \A v \in new \ Broken(q) : v \in Shown(q) <=> v \in Shown(p) \/ Asked(q, v)

LEMMA ListIsMerged ==
  ASSUME NEW p, WellMade(p), p.calls = <<>>, NEW new \in SUBSET Variables
  PROVE  LET q == [p EXCEPT !.tools = mergeToolsIntoNewList(p, new)] IN
         /\ WellMade(q) /\ Listed(q) = new /\ q.calls = <<>>
         /\ Broken(q) = Broken(p) \cap new /\ Shown(q) = Shown(p) \cap new
<1> DEFINE merged == mergeToolsIntoNewList(p, new)
           q == [p EXCEPT !.tools = merged]
<1>1. PanelType(p) /\ BoardGood(p, {}) /\ ToolsGood(p, NoTool, NoTool)
  BY DEF WellMade
<1>2. /\ DOMAIN merged = new
      /\ \A v \in new : merged[v] = IF v \in Listed(p) THEN p.tools[v] ELSE <<>>
      /\ merged \in [new -> Seq(Tools)]
  <2>1. merged = [v \in new |-> IF v \in Listed(p) THEN p.tools[v] ELSE <<>>]
    BY DEF mergeToolsIntoNewList
  <2>2. \A v \in Listed(p) : p.tools[v] \in Seq(Tools)
    BY <1>1 DEF PanelType, Listed
  <2>3. <<>> \in Seq(Tools)
    OBVIOUS
  <2> HIDE DEF merged
  <2> QED
    BY <2>1, <2>2, <2>3
<1> HIDE DEF merged
<1>3. /\ DOMAIN q = DOMAIN p /\ q.board = p.board /\ q.cardIds = p.cardIds /\ q.lost = p.lost
      /\ q.tableList = p.tableList /\ q.calls = p.calls /\ q.thrown = p.thrown
      /\ q.tools = merged
  BY <1>1 DEF PanelType
<1> HIDE DEF q
<1>4. PanelType(q) /\ Listed(q) = new
  <2>1. Listed(q) = new /\ DOMAIN q.tools = new /\ q.tools \in [new -> Seq(Tools)]
    BY <1>2, <1>3 DEF Listed
  <2> QED
    BY <1>1, <1>3, <2>1 DEF PanelType
<1>5. BoardGood(q, {}) /\ \A w, t : OnBoard(p, w, t) <=> OnBoard(q, w, t)
  BY <1>1, <1>3, SameBoard
<1>6. /\ \A v \in new \cap Listed(p) : q.tools[v] = p.tools[v]
      /\ \A v \in new \ Listed(p) : q.tools[v] = <<>>
  BY <1>2, <1>3
<1>7. Broken(q) = Broken(p) \cap new /\ Shown(q) = Shown(p) \cap new
  <2>1. Range(<<>>) = {}
    BY DEF Range
  <2>2. \A v \in new : v \in Broken(q) <=> v \in Broken(p)
    BY <1>4, <1>6, <2>1 DEF Broken
  <2>3. \A v \in new : v \in Shown(q) <=> v \in Shown(p)
    BY <1>4, <1>6 DEF Shown
  <2>4. Broken(q) \subseteq new /\ Shown(q) \subseteq new
    BY <1>4 DEF Broken, Shown
  <2> QED
    BY <2>2, <2>3, <2>4
<1>8. ToolsGood(q, NoTool, NoTool)
  <2> SUFFICES ASSUME NEW w \in new \ Broken(q), NEW t \in Range(q.tools[w])
               PROVE  OnBoard(q, w, t)
    BY <1>4 DEF ToolsGood
  <2>1. w \in Listed(p)
    <3>1. Range(<<>>) = {}
      BY DEF Range
    <3> QED
      BY <1>6, <3>1
  <2>2. w \notin Broken(p) /\ t \in Range(p.tools[w])
    BY <1>6, <1>7, <2>1
  <2>3. t.id # NoTool
    BY <1>1, <2>1, <2>2, ToolIds
  <2> QED
    BY <1>1, <1>5, <2>1, <2>2, <2>3 DEF ToolsGood
<1> QED
  BY <1>3, <1>4, <1>5, <1>7, <1>8 DEF WellMade, q, merged

LEMMA NewListIs ==
  ASSUME NEW p, WellMade(p), p.calls = <<>>, p.thrown = FALSE, NEW new \in SUBSET Variables
  PROVE  Relisted(p, new, NewVariableList(p, new))
<1> DEFINE q == [p EXCEPT !.tools = mergeToolsIntoNewList(p, new)]
           r == defaultDisplay(q)
<1>1. NewVariableList(p, new) = r
  <2>1. removeOldCards(p, new) = p
    BY NoCardIsClosed DEF WellMade
  <2> QED
    BY <2>1 DEF NewVariableList
<1>2. /\ WellMade(q) /\ Listed(q) = new /\ q.calls = <<>>
      /\ Broken(q) = Broken(p) \cap new /\ Shown(q) = Shown(p) \cap new
  BY ListIsMerged
<1> HIDE DEF q
<1>3. Displayed(q, r)
  BY <1>2, AllAreDisplayed
<1> HIDE DEF r
<1>4. WellMade(r) /\ Listed(r) = new /\ Broken(p) \cap new \subseteq Broken(r)
  BY <1>2, <1>3 DEF Displayed
<1>5. \A k \in 1 .. Len(r.calls) : \E v \in new : r.calls[k] = StartRequest(v)
  BY <1>2, <1>3 DEF Displayed
<1>6. \A v \in new \ Broken(r) : v \in Shown(r) <=> v \in Shown(p) \/ Asked(r, v)
  BY <1>2, <1>3 DEF Displayed
<1> QED
  BY <1>1, <1>4, <1>5, <1>6 DEF Relisted

-----------------------------------------------------------------------------
(* The invariant.                                                          *)

LEMMA InitIsGood == Init => ClientInv /\ PanelInv
<1> SUFFICES ASSUME Init PROVE ClientInv /\ PanelInv
  OBVIOUS
<1>1. ClientInit /\ PanelInit
  BY DEF Init
<1>2. ClientInv
  <2>1. \A v \in Variables : Count(<<>>, v) = 0
    <3> SUFFICES ASSUME NEW v \in Variables PROVE Count(<<>>, v) = 0
      OBVIOUS
    <3>1. <<>> \in Seq(Variables) /\ Range(<<>>) = {}
      BY DEF Range
    <3> DEFINE list == <<>>
    <3> HIDE DEF list
    <3>2. Count(list, v) = 0 <=> v \notin Range(list)
      BY <3>1, CountType DEF list
    <3> QED
      BY <3>1, <3>2 DEF list
  <2> QED
    BY <1>1, <2>1, ClientAssumption DEF ClientInv, ClientInit, ClientTypeOK
<1>3. PanelInv
  <2>1. /\ DOMAIN panel = {"tools", "board", "cardIds", "tableList", "calls", "thrown", "lost"}
        /\ panel.tools = <<>> /\ panel.board = <<>> /\ panel.cardIds = {}
        /\ panel.tableList = <<>> /\ panel.calls = <<>> /\ panel.thrown = FALSE
        /\ init = TRUE /\ missed = {} /\ panel.lost = {}
    BY <1>1 DEF PanelInit
  <2>2. DOMAIN panel.tools = {} /\ panel.tools \in [DOMAIN panel.tools -> Seq(Tools)]
    <3>1. DOMAIN <<>> = {} /\ <<>> = [x \in {} |-> <<>>]
      OBVIOUS
    <3> QED
      BY <2>1, <3>1
  <2>3. PanelType(panel)
    <3>1. <<>> \in Seq(Cards) /\ <<>> \in Seq(Ids) /\ <<>> \in Seq(Calls)
      OBVIOUS
    <3>2. {} \subseteq Ids /\ {} \subseteq Variables /\ FALSE \in BOOLEAN
      OBVIOUS
    <3> QED
      BY <2>1, <2>2, <3>1, <3>2 DEF PanelType
  <2>4. BoardGood(panel, {})
    <3>1. Len(<<>>) = 0 /\ Range(<<>>) = {}
      BY DEF Range
    <3> QED
      BY <2>1, <3>1 DEF BoardGood
  <2>5. ToolsGood(panel, NoTool, NoTool)
    BY <2>2 DEF ToolsGood, Listed
  <2> QED
    BY <2>1, <2>3, <2>4, <2>5 DEF PanelInv
<1> QED
  BY <1>2, <1>3

LEMMA FinishIs ==
  ASSUME NEW q, WellMade(q), Finish(q)
  PROVE  /\ WellMade(panel)' /\ panel'.tools = q.tools
         /\ panel'.calls = <<>> /\ panel'.thrown = FALSE
<1> DEFINE r == [q EXCEPT !.calls = <<>>, !.thrown = FALSE]
<1>1. panel' = r /\ PanelType(q)
  BY DEF Finish, WellMade
<1>2. /\ DOMAIN r = DOMAIN q /\ r.tools = q.tools /\ r.board = q.board /\ r.cardIds = q.cardIds
      /\ r.lost = q.lost /\ r.tableList = q.tableList /\ r.calls = <<>> /\ r.thrown = FALSE
  BY <1>1 DEF PanelType
<1> HIDE DEF r
<1>3. PanelType(r)
  <2>1. <<>> \in Seq(Calls) /\ FALSE \in BOOLEAN
    OBVIOUS
  <2>2. PanelType(q)
    BY DEF WellMade
  <2> QED
    BY <1>2, <2>1, <2>2 DEF PanelType
<1>4. BoardGood(r, {}) /\ \A w, t : OnBoard(q, w, t) <=> OnBoard(r, w, t)
  BY <1>2, SameBoard DEF WellMade
<1>5. Listed(r) = Listed(q) /\ Broken(r) = Broken(q)
  BY <1>2 DEF Listed, Broken
<1>6. ToolsGood(r, NoTool, NoTool)
  BY <1>2, <1>4, <1>5 DEF ToolsGood, WellMade
<1>7. WellMade(r)
  BY <1>3, <1>4, <1>6 DEF WellMade
<1>8. WellMade(panel') /\ panel'.tools = q.tools /\ panel'.calls = <<>> /\ panel'.thrown = FALSE
  BY <1>1, <1>2, <1>7
<1> QED
  BY <1>8 DEF WellMade, PanelType, BoardGood, ToolsGood, OnBoard, Listed, Broken

LEMMA CardOf ==
  ASSUME NEW p, PanelType(p), NEW i \in 1 .. Len(p.board)
  PROVE  p.board[i].owner \in Variables \cup {Table} /\ p.board[i].rows \in Seq(Variables)
<1>1. p.board[i] \in Cards
  BY DEF PanelType
<1> QED
  BY <1>1 DEF Cards

\* A click is about one variable.
LEMMA UserClicks ==
  ASSUME PanelInv, User
  PROVE  \E v \in Variables : \E q : WellMade(q) /\ Settling(panel, q, v) /\ Clicked(q)
<1>1. WellMade(panel) /\ panel.thrown = FALSE /\ PanelType(panel)
  BY DEF PanelInv, WellMade
<1>2. ASSUME NEW v \in Variables, NEW type \in Kinds, callbackFromDialog(v, type)
      PROVE  \E q : WellMade(q) /\ Settling(panel, q, v) /\ Clicked(q)
  BY <1>1, <1>2, BuildSettles DEF callbackFromDialog
<1>3. ASSUME NEW i \in 1 .. Len(panel.board), CloseCard(i)
      PROVE  \E v \in Variables : \E q : WellMade(q) /\ Settling(panel, q, v) /\ Clicked(q)
  <2>1. panel.board[i].owner # Table /\ panel.board[i].owner \in Variables
    <3>1. panel.board[i].owner # Table
      BY <1>3 DEF CloseCard
    <3> QED
      BY <1>1, <3>1, CardOf
  <2> DEFINE q == handleClickCloseCard(panel, panel.board[i].owner, panel.board[i].id)
  <2>2. WellMade(q) /\ Settling(panel, q, panel.board[i].owner)
    BY <1>1, <2>1, CardIsClosed
  <2>3. Clicked(q)
    BY <1>3 DEF CloseCard
  <2> HIDE DEF q
  <2> QED
    BY <2>1, <2>2, <2>3
<1>4. ASSUME NEW i \in 1 .. Len(panel.board), NEW v \in Variables, CloseRow(i, v)
      PROVE  \E q : WellMade(q) /\ Settling(panel, q, v) /\ Clicked(q)
  <2> DEFINE q == handleClickCloseTableRow(panel, v, panel.board[i].id)
  <2>1. WellMade(q) /\ Settling(panel, q, v)
    BY <1>1, RowIsClosed
  <2>2. Clicked(q)
    BY <1>4 DEF CloseRow
  <2> HIDE DEF q
  <2> QED
    BY <2>1, <2>2
<1>5. DOMAIN panel.board = 1 .. Len(panel.board)
  BY <1>1 DEF PanelType
<1> QED
  BY <1>2, <1>3, <1>4, <1>5 DEF User

\* The value info that is received is about the variables there are, and the
\* new list has some of them.
LEMMA NewListComes ==
  ASSUME ClientInv, PanelInv, ValueInfoReceived
  PROVE  \E new \in SUBSET served :
           /\ served \subseteq Variables
           /\ ListBuilt(new)
           /\ Relisted(panel, new, NewVariableList(panel, new))
           /\ NewVariableList(panel, new).calls \in Seq(Calls)
           /\ Finish(NewVariableList(panel, new))
           /\ missed' = missed \cup (Shown(panel) \cap (served \ new))
<1>0. Head(toClient).variables = served /\ served \subseteq Variables
  <2>1. readyState = "OPEN" /\ toClient # <<>> /\ Head(toClient).type = "VALUEINFO_RESPONSE"
    BY DEF ValueInfoReceived, Receives
  <2>2. toClient \in Seq(Responses) /\ served \subseteq Variables /\ HandshakeGood(monitoringVariableList, toClient, served)
    BY <2>1 DEF ClientInv, ClientTypeOK, ClientGood
  <2>3. 1 \in 1 .. Len(toClient) /\ Head(toClient) = toClient[1]
    BY <2>1, <2>2
  <2>4. Shakes(toClient[1])
    BY <2>1, <2>3 DEF Shakes
  <2> QED
    BY <2>2, <2>3, <2>4 DEF HandshakeGood
<1>1. PICK new \in SUBSET served : ListBuilt(new)
  BY <1>0 DEF ValueInfoReceived
<1>2. Relisted(panel, new, NewVariableList(panel, new))
  <2>1. new \in SUBSET Variables
    BY <1>0
  <2> QED
    BY <2>1, NewListIs DEF PanelInv, WellMade
<1>3. NewVariableList(panel, new).calls \in Seq(Calls)
  BY <1>2 DEF Relisted, WellMade, PanelType
<1>4. /\ Finish(NewVariableList(panel, new))
      /\ missed' = missed \cup (Shown(panel) \cap (served \ new))
  BY <1>0, <1>1 DEF ListBuilt
<1> QED
  BY <1>0, <1>1, <1>2, <1>3, <1>4

LEMMA StepIsGood == ClientInv /\ PanelInv /\ [Next]_vars => ClientInv' /\ PanelInv'
<1> SUFFICES ASSUME ClientInv, PanelInv, [Next]_vars PROVE ClientInv' /\ PanelInv'
  OBVIOUS
<1>0. UNCHANGED panelVars /\ missed' \subseteq Variables => PanelInv'
  <2> SUFFICES ASSUME UNCHANGED panelVars, missed' \subseteq Variables PROVE PanelInv'
    OBVIOUS
  <2>1. panel' = panel /\ init' = init
    BY DEF panelVars
  <2>2. PanelType(panel)'
    <3>1. PanelType(panel)
      BY DEF PanelInv
    <3>2. PanelType(panel) /\ panel' = panel => PanelType(panel')
      OBVIOUS
    <3>3. PanelType(panel')
      BY <2>1, <3>1, <3>2
    <3> QED
      BY <3>3 DEF PanelType
  <2>3. BoardGood(panel, {})'
    BY <2>1 DEF PanelInv, BoardGood
  <2>4. ToolsGood(panel, NoTool, NoTool)'
    BY <2>1 DEF PanelInv, ToolsGood, OnBoard, Listed, Broken
  <2> QED
    BY <2>1, <2>2, <2>3, <2>4 DEF PanelInv
<1>1. CASE webSocket_onopen
  BY <1>0, <1>1, ClientOpens DEF webSocket_onopen, PanelInv
<1>2. CASE ValueListReceived
  BY <1>0, <1>2, ClientGetsValueList DEF ValueListReceived, PanelInv
<1>3. CASE ValueInfoReceived
  <2>0. PICK new \in SUBSET served :
          /\ served \subseteq Variables
          /\ ListBuilt(new)
          /\ Relisted(panel, new, NewVariableList(panel, new))
          /\ NewVariableList(panel, new).calls \in Seq(Calls)
          /\ Finish(NewVariableList(panel, new))
          /\ missed' = missed \cup (Shown(panel) \cap (served \ new))
    BY <1>3, NewListComes
  <2> DEFINE q == NewVariableList(panel, new)
  <2>1. WellMade(q) /\ q.calls \in Seq(Calls) /\ Finish(q)
    BY <2>0 DEF Relisted
  <2>2. ClientInv'
    BY <1>3, <2>0, <2>1, ClientGetsValueInfo
  <2> HIDE DEF q
  <2>3. init' = FALSE /\ missed' \subseteq Variables
    BY <1>3, <2>0 DEF ValueInfoReceived, PanelInv
  <2>4. PanelInv'
    BY <2>1, <2>3, FinishIs DEF PanelInv, WellMade
  <2> QED
    BY <2>2, <2>4
<1>4. CASE StartReceived
  BY <1>0, <1>4, ClientGetsStart DEF StartReceived, PanelInv
<1>5. CASE StopReceived
  BY <1>0, <1>5, ClientGetsStop DEF StopReceived, PanelInv
<1>6. CASE ServerCloses \/ Restart \/ UNCHANGED vars
  BY <1>0, <1>6, ClientRests DEF ServerCloses, Restart, vars, PanelInv, panelVars
<1>7. CASE CloseCompletes \/ ConnectionLost
  <2>1. webSocket_onclose
    BY <1>7 DEF CloseCompletes, ConnectionLost
  <2>2. missed' \subseteq Variables /\ UNCHANGED panelVars
    BY <2>1 DEF webSocket_onclose, Unsettled, PanelInv
  <2> QED
    BY <1>0, <2>1, <2>2, ClientCloses
<1>8. CASE User
  <2>1. PICK v \in Variables : \E q : WellMade(q) /\ Settling(panel, q, v) /\ Clicked(q)
    BY <1>8, UserClicks
  <2>2. PICK q : WellMade(q) /\ Settling(panel, q, v) /\ Clicked(q)
    BY <2>1
  <2>3. q.calls \in Seq(Calls) /\ Finish(q) /\ init' = init /\ missed' = missed \cup MissedBy(q.calls)
    BY <2>2 DEF WellMade, PanelType, Clicked
  <2>4. MissedBy(q.calls) \subseteq Variables
    <3>1. \A c \in Range(q.calls) : c.variable \in Variables
      BY <2>3 DEF Range, Calls, StartRequest, StopRequest
    <3> QED
      BY <3>1 DEF MissedBy
  <2>5. PanelInv'
    BY <2>2, <2>3, <2>4, FinishIs DEF PanelInv, WellMade
  <2> QED
    BY <2>2, <2>3, <2>5, ClientSends
<1> QED
  BY <1>1, <1>2, <1>3, <1>4, <1>5, <1>6, <1>7, <1>8 DEF Next, webSocket_onmessage

\* The client and the board keep their invariants.
THEOREM PanelIsGood == Spec => [](ClientInv /\ PanelInv)
<1>1. Init => ClientInv /\ PanelInv
  BY InitIsGood
<1>2. ClientInv /\ PanelInv /\ [Next]_vars => (ClientInv /\ PanelInv)'
  BY StepIsGood
<1> QED
  BY <1>1, <1>2, PTL DEF Spec

\* The type invariant.
THEOREM PanelTypes == Spec => []TypeOK
<1>1. ClientInv /\ PanelInv => TypeOK
  <2> SUFFICES ASSUME ClientInv, PanelInv PROVE TypeOK
    OBVIOUS
  <2>1. \A v \in Listed(panel) : panel.tools[v] \in Seq(Tools)
    BY DEF PanelInv, PanelType, Listed
  <2> QED
    BY <2>1 DEF ClientInv, PanelInv, PanelType, TypeOK, Listed
<1> QED
  BY <1>1, PanelIsGood, PTL

-----------------------------------------------------------------------------
(* What follows from it.                                                   *)

\* f tells the elements of S from 1 to n.
Numbers(f, n, S) ==
  /\ \A i, j \in 1 .. n : f[i] = f[j] => i = j
  /\ \A i \in 1 .. n : f[i] \in S
  /\ \A s \in S : \E i \in 1 .. n : f[i] = s

LEMMA DistinctCount ==
  ASSUME NEW n \in Nat, NEW f, NEW S, Numbers(f, n, S)
  PROVE  Cardinality(S) = n
<1> DEFINE g == [i \in 1 .. n |-> f[i]]
<1>1. g \in [1 .. n -> S] /\ \A i \in 1 .. n : g[i] = f[i]
  BY DEF Numbers
<1> HIDE DEF g
<1>2. g \in Bijection(1 .. n, S)
  BY <1>1 DEF Numbers, Bijection, Injection, Surjection, IsInjective
<1>3. ExistsBijection(1 .. n, S)
  BY <1>2 DEF ExistsBijection
<1> QED
  BY <1>3, FS_CountingElements

\* The ids in use, but for those lost to cards without a size, the list of tables
\* and the cards of the page tell the same after every callback, also after one
\* that an exception has cut short.
THEOREM BoardsAgree == Spec => []BoardAgrees
<1>1. ClientInv /\ PanelInv => BoardAgrees
  <2> SUFFICES ASSUME PanelInv PROVE BoardAgrees
    OBVIOUS
  <2> DEFINE n == Len(panel.board)
             t == panel.tableList
             ids == [i \in 1 .. n |-> panel.board[i].id]
  <2>1. /\ PanelType(panel) /\ BoardGood(panel, {}) /\ n \in Nat /\ DOMAIN panel.board = 1 .. n
        /\ t \in Seq(Ids) /\ DOMAIN t = 1 .. Len(t) /\ Len(t) \in Nat
    BY DEF PanelInv, PanelType
  <2>2. /\ \A i, j \in 1 .. n : panel.board[i].id = panel.board[j].id => i = j
        /\ panel.cardIds = {panel.board[i].id : i \in 1 .. n} \cup panel.lost
        /\ \A i \in 1 .. n : panel.board[i].id \notin panel.lost
        /\ \A k, l \in 1 .. Len(t) : t[k] = t[l] => k = l
        /\ Range(t) = {panel.board[i].id : i \in {j \in 1 .. n : panel.board[j].owner = Table}}
        /\ \A i \in 1 .. n : panel.board[i].owner = Table =>
             Len(panel.board[i].rows) <= MaxRows /\ panel.board[i].rows # <<>>
    BY <2>1 DEF BoardGood
  <2>3. /\ \A i \in 1 .. n : ids[i] = panel.board[i].id
        /\ \A i, j \in 1 .. n : ids[i] = ids[j] => i = j
        /\ BoardIds = {panel.board[i].id : i \in 1 .. n}
    BY <2>1, <2>2 DEF BoardIds
  <2>4. panel.cardIds = BoardIds \cup panel.lost /\ BoardIds \cap panel.lost = {}
    BY <2>2, <2>3
  <2>5. Cardinality(BoardIds) = n
    <3> HIDE DEF ids, n
    <3>1. Numbers(ids, n, BoardIds)
      BY <2>3 DEF Numbers
    <3> QED
      BY <2>1, <3>1, DistinctCount
  <2>6. TableIds = Range(t)
    BY <2>1, <2>2 DEF TableIds
  <2>7. Cardinality(Range(t)) = Len(t)
    <3>1. Numbers(t, Len(t), Range(t))
      BY <2>1, <2>2 DEF Range, Numbers
    <3> HIDE DEF t
    <3> QED
      BY <2>1, <3>1, DistinctCount
  <2>8. ASSUME NEW id \in TableIds
        PROVE  Len(RowsOf(panel, id)) \in 1 .. MaxRows
    <3>1. PICK i \in 1 .. n : panel.board[i].owner = Table /\ panel.board[i].id = id
      BY <2>1, <2>8 DEF TableIds
    <3>2. RowsOf(panel, id) = panel.board[i].rows
      BY <2>1, <3>1, CardAtIs
    <3>3. panel.board[i].rows \in Seq(Variables)
      BY <2>1, CardOf
    <3>4. Len(panel.board[i].rows) <= MaxRows /\ panel.board[i].rows # <<>>
      BY <2>2, <3>1
    <3> QED
      BY <3>2, <3>3, <3>4, BoardAssumption
  <2> QED
    BY <2>4, <2>5, <2>6, <2>7, <2>8 DEF BoardAgrees
<1> QED
  BY <1>1, PanelIsGood, PTL

\* Every tool of a variable without a null tool is on the board.
THEOREM EveryToolHasItsCard == Spec => []ToolsHaveCards
<1>1. ClientInv /\ PanelInv => ToolsHaveCards
  <2> SUFFICES ASSUME PanelInv, NEW v \in Listed(panel) \ Broken(panel), NEW tool \in Range(panel.tools[v])
               PROVE  /\ tool.id \in BoardIds
                      /\ LET card == panel.board[CardAt(panel, tool.id)] IN
                           IF tool.type = "TABLE" THEN card.owner = Table /\ v \in Range(card.rows)
                           ELSE card.owner = v
    BY DEF ToolsHaveCards
  <2>1. PanelType(panel) /\ BoardGood(panel, {}) /\ DOMAIN panel.board = 1 .. Len(panel.board)
    BY DEF PanelInv, PanelType
  <2>2. tool.id # NoTool
    BY <2>1, ToolIds
  <2>3. PICK i \in 1 .. Len(panel.board) : Holds(panel.board[i], v, tool)
    BY <2>2 DEF PanelInv, ToolsGood, OnBoard
  <2>4. panel.board[i].id = tool.id
    BY <2>3 DEF Holds
  <2>5. CardAt(panel, tool.id) = i
    BY <2>1, <2>4, CardAtIs
  <2> QED
    BY <2>1, <2>3, <2>4, <2>5 DEF BoardIds, Holds
<1> QED
  BY <1>1, PanelIsGood, PTL

\* When nothing is on its way, the client's list has the variables the server
\* monitors, each at most once per connection.
THEOREM ListsAgree == Spec => []ListAgrees
<1>1. ClientInv /\ PanelInv => ListAgrees
  <2> SUFFICES ASSUME ClientInv PROVE ListAgrees
    OBVIOUS
  <2>1. ASSUME Quiet
        PROVE  Range(monitoringVariableList) = monitors
    <3> DEFINE list == monitoringVariableList
    <3>1. toClient = <<>> /\ Len(toClient) = 0
      BY <2>1 DEF Quiet
    <3>2. /\ AllAgree(list, toClient, monitors, connections) /\ AllSettled(list, toClient, monitors)
          /\ monitors \subseteq served /\ served \subseteq Variables
      BY <2>1 DEF ClientInv, ClientTypeOK, ClientGood, Quiet
    <3>3. ASSUME NEW v \in monitors PROVE v \in Range(list)
      <4>1. Agree(v, v \in Range(list), Count(list, v), toClient, v \in monitors, connections)
        BY <3>2, <3>3 DEF AllAgree
      <4> QED
        BY <3>1, <3>3, <4>1 DEF Agree
    <3>4. ASSUME NEW v \in Range(list) PROVE v \in monitors
      <4>1. Settled(v, toClient, v \in monitors)
        BY <3>1, <3>2, <3>4 DEF AllSettled
      <4> QED
        BY <3>1, <4>1 DEF Settled
    <3> QED
      BY <3>3, <3>4
  <2> QED
    BY <2>1 DEF ListAgrees, ClientInv
<1> QED
  BY <1>1, PanelIsGood, PTL

-----------------------------------------------------------------------------
(* What is shown and what is monitored.                                    *)

Starting(msgs, v) == \E i \in 1 .. Len(msgs) : Started(msgs[i], v)
Leaving(msgs, v)  == \E i \in 1 .. Len(msgs) : Stopped(msgs[i], v)
Shaking(msgs)     == \E i \in 1 .. Len(msgs) : Shakes(msgs[i])

\* The variable is listed, or will be when all messages have been received.
Coming(list, msgs, v) == v \in Range(list) \/ Starting(msgs, v)

\* On an open connection: until the value info is received, what is shown is
\* what the client will start again, and no stop is on its way; from then on
\* what is shown is what the server monitors, and only what it has is listed.
\* A variable with tools that the parser leaves out is in lost from then on.
OpenShown(v, p, list, msgs, mons, has, lost) ==
  LET well == v \notin lost /\ v \notin Broken(p)
      shown == v \in Shown(p) IN
  /\ Shaking(msgs) /\ Leaving(msgs, v) => v \in lost
  /\ Shaking(msgs) /\ well /\ v \in has => (shown <=> Coming(list, msgs, v))
  /\ ~Shaking(msgs) /\ v \in Listed(p) => v \in has
  /\ ~Shaking(msgs) /\ well => (shown <=> v \in mons)

\* Between connections: what is shown is what will be started again.
ClosedShown(v, p, list, lost) ==
  v \notin lost /\ v \notin Broken(p) => (v \in Shown(p) <=> v \in Range(list))

ShownInv ==
  \A v \in Variables :
    /\ readyState = "CONNECTING" => ClosedShown(v, panel, monitoringVariableList, missed)
    /\ readyState = "OPEN" =>
         OpenShown(v, panel, monitoringVariableList, toClient, monitors, served, missed)

\* The first message and the rest.
LEMMA RestHas ==
  ASSUME NEW msgs \in Seq(Responses), msgs # <<>>, NEW v
  PROVE  /\ Starting(msgs, v) <=> Started(Head(msgs), v) \/ Starting(Tail(msgs), v)
         /\ Leaving(msgs, v) <=> Stopped(Head(msgs), v) \/ Leaving(Tail(msgs), v)
         /\ Shaking(msgs) <=> Shakes(Head(msgs)) \/ Shaking(Tail(msgs))
<1> DEFINE rest == Tail(msgs)
           m == Head(msgs)
<1>1. m = msgs[1] /\ IsRest(rest, msgs)
  BY TailOf
<1> HIDE DEF rest, m
<1>2. /\ \A i \in 1 .. Len(rest) : i + 1 \in 1 .. Len(msgs) /\ rest[i] = msgs[i + 1]
      /\ \A j \in 1 .. Len(msgs) : j = 1 \/ (j - 1 \in 1 .. Len(rest) /\ rest[j - 1] = msgs[j])
      /\ 1 \in 1 .. Len(msgs)
  BY <1>1 DEF IsRest
<1>3. Starting(msgs, v) <=> Started(m, v) \/ Starting(rest, v)
  BY <1>1, <1>2 DEF Starting
<1>4. Leaving(msgs, v) <=> Stopped(m, v) \/ Leaving(rest, v)
  BY <1>1, <1>2 DEF Leaving
<1>5. Shaking(msgs) <=> Shakes(m) \/ Shaking(rest)
  BY <1>1, <1>2 DEF Shaking
<1> QED
  BY <1>3, <1>4, <1>5 DEF m, rest

\* The answers to requests that are sent.
LEMMA AnswersHave ==
  ASSUME NEW waiting \in Seq(Responses), NEW requests \in Seq(Requests), served \subseteq Variables, NEW v
  PROVE  LET all == waiting \o Answers(requests) IN
         /\ Starting(all, v) <=> \/ Starting(waiting, v)
                                 \/ \E k \in 1 .. Len(requests) :
                                      requests[k] = StartRequest(v) /\ v \in served
                                        /\ v \notin MonitorsUntil(requests, k - 1)
         /\ Leaving(all, v) <=> Leaving(waiting, v) \/ \E k \in 1 .. Len(requests) : requests[k] = StopRequest(v)
         /\ (\A k \in 1 .. Len(requests) : requests[k] \in Calls) => (Shaking(all) <=> Shaking(waiting))
<1> DEFINE all == waiting \o Answers(requests)
           n == Len(waiting)
           m == Len(requests)
           A(k) == Answer(MonitorsUntil(requests, k - 1), requests[k])
<1>1. /\ Len(all) = n + m
      /\ \A i \in 1 .. n : all[i] = waiting[i]
      /\ \A k \in 1 .. m : all[n + k] = A(k)
  BY AnswersAreSent
<1>2. n \in Nat /\ m \in Nat
  OBVIOUS
<1>3. \A k \in 1 .. m :
        /\ Started(A(k), v) <=> requests[k] = StartRequest(v) /\ v \in served
                                  /\ v \notin MonitorsUntil(requests, k - 1)
        /\ Stopped(A(k), v) <=> requests[k] = StopRequest(v)
        /\ requests[k] \in Calls => ~Shakes(A(k))
  <2> SUFFICES ASSUME NEW k \in 1 .. m
               PROVE  /\ Started(A(k), v) <=> requests[k] = StartRequest(v) /\ v \in served
                                               /\ v \notin MonitorsUntil(requests, k - 1)
                      /\ Stopped(A(k), v) <=> requests[k] = StopRequest(v)
                      /\ requests[k] \in Calls => ~Shakes(A(k))
    OBVIOUS
  <2>1. requests[k] \in Requests
    OBVIOUS
  <2>2. requests[k] \in Calls => \E w : requests[k] \in {StartRequest(w), StopRequest(w)}
    BY DEF Calls
  <2> QED
    BY <2>1, <2>2, AnswerOf
<1> HIDE DEF all, n, m, A
<1>4. /\ \A i \in 1 .. n : i \in 1 .. n + m
      /\ \A k \in 1 .. m : n + k \in 1 .. n + m
      /\ \A j \in 1 .. n + m : j \in 1 .. n \/ (j - n \in 1 .. m /\ j = n + (j - n))
  BY <1>2
<1>5. \A j \in 1 .. Len(all) : \/ j \in 1 .. n /\ all[j] = waiting[j]
                               \/ j - n \in 1 .. m /\ all[j] = A(j - n)
  BY <1>1, <1>4
<1>6. /\ \A i \in 1 .. n : \E j \in 1 .. Len(all) : all[j] = waiting[i]
      /\ \A k \in 1 .. m : \E j \in 1 .. Len(all) : all[j] = A(k)
  BY <1>1, <1>4
<1>7. Starting(all, v) <=> Starting(waiting, v) \/ \E k \in 1 .. m : Started(A(k), v)
  BY <1>5, <1>6 DEF Starting, n
<1>8. Leaving(all, v) <=> Leaving(waiting, v) \/ \E k \in 1 .. m : Stopped(A(k), v)
  BY <1>5, <1>6 DEF Leaving, n
<1>9. Shaking(all) <=> Shaking(waiting) \/ \E k \in 1 .. m : Shakes(A(k))
  BY <1>5, <1>6 DEF Shaking, n
<1> QED
  BY <1>3, <1>7, <1>8, <1>9 DEF all, m

\* Starts only add monitors.
LEMMA StartsAdd ==
  ASSUME NEW requests \in Seq(Calls), monitors \subseteq served, NEW v,
         \A k \in 1 .. Len(requests) : \E w : requests[k] = StartRequest(w)
  PROVE  v \in MonitorsAfter(monitors, requests)
           <=> v \in served /\ (v \in monitors \/ \E k \in 1 .. Len(requests) : requests[k] = StartRequest(v))
<1> DEFINE A == {i \in DOMAIN requests : requests[i] \in {StartRequest(v), StopRequest(v)}}
<1>1. v \in MonitorsAfter(monitors, requests)
        <=> v \in served /\ (IF A = {} THEN v \in monitors ELSE requests[Max(A)] = StartRequest(v))
  BY DEF MonitorsAfter
<1>2. DOMAIN requests = 1 .. Len(requests) /\ Len(requests) \in Nat
  OBVIOUS
<1>3. \A i \in 1 .. Len(requests) : requests[i] # StopRequest(v)
  BY RequestsDiffer
<1>4. A = {i \in 1 .. Len(requests) : requests[i] = StartRequest(v)}
  BY <1>2, <1>3
<1>5. A # {} => Max(A) \in A
  <2>1. A \in SUBSET (1 .. Len(requests))
    BY <1>4
  <2> HIDE DEF A
  <2> QED
    BY <1>2, <2>1, MaxIn
<1> HIDE DEF A
<1> QED
  BY <1>1, <1>4, <1>5

\* One request of a callback.
LEMMA OneCall ==
  ASSUME NEW waiting \in Seq(Responses), served \subseteq Variables, monitors \subseteq served,
         NEW x \in Variables, NEW r \in {StartRequest(x), StopRequest(x)}, NEW v
  PROVE  LET all == waiting \o Answers(<<r>>)
             after == MonitorsAfter(monitors, <<r>>) IN
         /\ Starting(all, v) <=> Starting(waiting, v) \/ (r = StartRequest(v) /\ v \in served /\ v \notin monitors)
         /\ Leaving(all, v) <=> Leaving(waiting, v) \/ r = StopRequest(v)
         /\ Shaking(all) <=> Shaking(waiting)
         /\ r = StartRequest(v) => (v \in after <=> v \in served)
         /\ r = StopRequest(v) => v \notin after
         /\ v # x => (v \in after <=> v \in monitors)
<1> DEFINE requests == <<r>>
<1>1. r \in Requests /\ r \in Calls
  BY DEF Requests, Calls
<1>2. requests \in Seq(Requests) /\ Len(requests) = 1 /\ requests[1] = r /\ 1 \in 1 .. 1
  BY <1>1
<1> HIDE DEF requests
<1>3. \A k \in 1 .. Len(requests) : k = 1
  BY <1>2
<1>4. MonitorsUntil(requests, 0) = monitors /\ MonitorsUntil(requests, 1) = MonitorsAfter(monitors, requests)
  BY <1>2, MonitorsAtEnds DEF MonitorsUntil
<1>5. /\ r = StartRequest(v) => (v \in MonitorsUntil(requests, 1) <=> v \in served)
      /\ r = StopRequest(v) => v \notin MonitorsUntil(requests, 1)
      /\ r # StartRequest(v) /\ r # StopRequest(v)
           => (v \in MonitorsUntil(requests, 1) <=> v \in MonitorsUntil(requests, 0))
  <2>1. 1 \in 1 .. Len(requests) /\ 1 - 1 = 0
    BY <1>2
  <2>2. /\ requests[1] = StartRequest(v) => (v \in MonitorsUntil(requests, 1) <=> v \in served)
        /\ requests[1] = StopRequest(v) => v \notin MonitorsUntil(requests, 1)
        /\ requests[1] # StartRequest(v) /\ requests[1] # StopRequest(v)
             => (v \in MonitorsUntil(requests, 1) <=> v \in MonitorsUntil(requests, 1 - 1))
    BY <1>2, <2>1, MonitorsStep DEF MonitorsUntil
  <2> QED
    BY <1>2, <2>1, <2>2
<1>6. v # x => r # StartRequest(v) /\ r # StopRequest(v)
  BY RequestsDiffer
<1> DEFINE all == waiting \o Answers(requests)
<1>7. /\ Starting(all, v) <=> \/ Starting(waiting, v)
                              \/ \E k \in 1 .. Len(requests) :
                                   requests[k] = StartRequest(v) /\ v \in served
                                     /\ v \notin MonitorsUntil(requests, k - 1)
      /\ Leaving(all, v) <=> Leaving(waiting, v) \/ \E k \in 1 .. Len(requests) : requests[k] = StopRequest(v)
      /\ (\A k \in 1 .. Len(requests) : requests[k] \in Calls) => (Shaking(all) <=> Shaking(waiting))
  BY <1>2, AnswersHave
<1> HIDE DEF all
<1>8. /\ Starting(all, v) <=> Starting(waiting, v) \/ (r = StartRequest(v) /\ v \in served /\ v \notin monitors)
      /\ Leaving(all, v) <=> Leaving(waiting, v) \/ r = StopRequest(v)
      /\ Shaking(all) <=> Shaking(waiting)
  <2>1. 1 - 1 = 0 /\ 1 \in 1 .. Len(requests)
    BY <1>2
  <2> QED
    BY <1>1, <1>2, <1>3, <1>4, <1>7, <2>1
<1> QED
  BY <1>4, <1>5, <1>6, <1>8 DEF all, requests

LEMMA AgreeIs ==
  ASSUME ClientInv, readyState = "OPEN", NEW v \in Variables
  PROVE  /\ v \in monitors => Coming(monitoringVariableList, toClient, v)
         /\ Starting(toClient, v) /\ ~Leaving(toClient, v) => v \in monitors
<1> DEFINE here == v \in Range(monitoringVariableList)
           there == v \in monitors
           c == Count(monitoringVariableList, v)
<1>1. Agree(v, here, c, toClient, there, connections)
  BY WhenOpen DEF AllAgree
<1> HIDE DEF here, there, c
<1>2. there => here \/ Starting(toClient, v)
  BY <1>1 DEF Agree, Starting
<1>3. Starting(toClient, v) /\ ~Leaving(toClient, v) => there
  BY <1>1 DEF Agree, Starting, Leaving
<1> QED
  BY <1>2, <1>3 DEF Coming, here, there

LEMMA ShownOpens == ClientInv /\ PanelInv /\ ShownInv /\ webSocket_onopen => ShownInv'
<1> SUFFICES ASSUME ClientInv, ShownInv, webSocket_onopen PROVE ShownInv'
  OBVIOUS
<1> DEFINE list == monitoringVariableList
           requests == <<ValueListRequest>>
           all == toClient \o Answers(requests)
<1>1. /\ readyState = "CONNECTING" /\ readyState' = "OPEN" /\ monitoringVariableList' = list
      /\ panel' = panel /\ missed' = missed /\ served' = served
      /\ toClient' = all
  BY DEF webSocket_onopen, Sends, panelVars
<1>2. toClient = <<>> /\ toClient \in Seq(Responses) /\ Len(toClient) = 0 /\ served \subseteq Variables
  BY <1>1 DEF ClientInv, ClientTypeOK
<1>3. requests \in Seq(Requests) /\ Len(requests) = 1 /\ requests[1] = ValueListRequest
  <2>1. ValueListRequest \in Requests
    BY DEF Requests
  <2> QED
    BY <2>1
<1> HIDE DEF requests
<1>4. Shaking(all)
  <2>1. /\ Len(all) = Len(toClient) + Len(requests)
        /\ \A k \in 1 .. Len(requests) :
             all[Len(toClient) + k] = Answer(MonitorsUntil(requests, k - 1), requests[k])
    BY <1>2, <1>3, AnswersAreSent
  <2>2. all[1] = Answer(MonitorsUntil(requests, 1 - 1), ValueListRequest) /\ 1 \in 1 .. Len(all)
    <3>1. 1 \in 1 .. Len(requests) /\ Len(toClient) + 1 = 1 /\ Len(toClient) + Len(requests) = 1
      BY <1>2, <1>3
    <3> HIDE DEF all
    <3> QED
      BY <1>3, <2>1, <3>1
  <2>3. Answer(MonitorsUntil(requests, 1 - 1), ValueListRequest) = ValueListResponse(served)
    BY <1>2, AnswerOf DEF Requests
  <2>4. Shakes(ValueListResponse(served))
    BY DEF Shakes, ValueListResponse
  <2> HIDE DEF all
  <2> QED
    BY <2>2, <2>3, <2>4 DEF Shaking
<1>5. ASSUME NEW v \in Variables
      PROVE  ~Starting(all, v) /\ ~Leaving(all, v)
  <2>1. /\ Starting(all, v) <=> \/ Starting(toClient, v)
                                \/ \E k \in 1 .. Len(requests) :
                                     requests[k] = StartRequest(v) /\ v \in served
                                       /\ v \notin MonitorsUntil(requests, k - 1)
        /\ Leaving(all, v) <=> Leaving(toClient, v) \/ \E k \in 1 .. Len(requests) : requests[k] = StopRequest(v)
    BY <1>2, <1>3, AnswersHave, ZenonT(30)
  <2>2. \A k \in 1 .. Len(requests) : requests[k] # StartRequest(v) /\ requests[k] # StopRequest(v)
    <3>1. \A k \in 1 .. Len(requests) : k = 1
      BY <1>3
    <3> QED
      BY <1>3, <3>1, RequestsDiffer
  <2>3. ~Starting(toClient, v) /\ ~Leaving(toClient, v)
    BY <1>2 DEF Starting, Leaving
  <2> HIDE DEF all
  <2> QED
    BY <2>1, <2>2, <2>3
<1> HIDE DEF all, list
<1>6. ASSUME NEW v \in Variables
      PROVE  OpenShown(v, panel, list, all, monitors', served, missed)
  <2>1. ClosedShown(v, panel, list, missed)
    BY <1>1 DEF ShownInv, list
  <2> QED
    BY <1>4, <1>5, <2>1 DEF OpenShown, ClosedShown, Coming
<1>7. \A v \in Variables : OpenShown(v, panel', monitoringVariableList', toClient', monitors', served', missed')
  BY <1>1, <1>6 DEF list
<1>8. readyState' # "CONNECTING"
  BY <1>1
<1> QED
  BY <1>7, <1>8 DEF ShownInv, OpenShown, Shown, Listed, Broken

LEMMA ShownValueList == ClientInv /\ PanelInv /\ ShownInv /\ ValueListReceived => ShownInv'
<1> SUFFICES ASSUME ClientInv, ShownInv, ValueListReceived PROVE ShownInv'
  OBVIOUS
<1> DEFINE list == monitoringVariableList
           m == Head(toClient)
           rest == Tail(toClient)
           requests == <<ValueInfoRequest(m.variables)>>
           all == rest \o Answers(requests)
           new == checkOldMonitorVariables(list, m.variables)
<1>1. /\ readyState = "OPEN" /\ readyState' = "OPEN" /\ monitoringVariableList' = new
      /\ panel' = panel /\ missed' = missed /\ served' = served
      /\ toClient' = all /\ toClient # <<>> /\ m.type = "VALUELIST_RESPONSE"
  BY DEF ValueListReceived, Receives, Sends, panelVars
<1>2. /\ toClient \in Seq(Responses) /\ rest \in Seq(Responses) /\ served \subseteq Variables
      /\ list \in Seq(Variables) /\ HandshakeGood(list, toClient, served)
  BY <1>1, WhenOpen
<1>3. Shakes(m) /\ m.variables = served /\ \A v : ~Started(m, v) /\ ~Stopped(m, v)
  <2>1. 1 \in 1 .. Len(toClient) /\ m = toClient[1]
    BY <1>1, <1>2
  <2>2. Shakes(m) /\ \A v : ~Started(m, v) /\ ~Stopped(m, v)
    BY <1>1 DEF Shakes, Started, Stopped
  <2> HIDE DEF m
  <2> QED
    BY <1>2, <2>1, <2>2 DEF HandshakeGood
<1>4. requests \in Seq(Requests) /\ Len(requests) = 1 /\ requests[1] = ValueInfoRequest(served)
  <2>1. ValueInfoRequest(served) \in Requests
    BY <1>2 DEF Requests
  <2> HIDE DEF m
  <2> QED
    BY <1>3, <2>1
<1>5. Range(new) = Range(list) \cap served
  BY <1>2, <1>3, KeepRange DEF checkOldMonitorVariables
<1>6. Shaking(toClient) /\ \A v : /\ Starting(toClient, v) <=> Starting(rest, v)
                                  /\ Leaving(toClient, v) <=> Leaving(rest, v)
  BY <1>1, <1>2, <1>3, RestHas
<1> HIDE DEF requests, rest, new, m, list
<1>7. ASSUME NEW v \in Variables
      PROVE  (Starting(all, v) <=> Starting(rest, v)) /\ (Leaving(all, v) <=> Leaving(rest, v))
  <2>1. /\ Starting(all, v) <=> \/ Starting(rest, v)
                                \/ \E k \in 1 .. Len(requests) :
                                     requests[k] = StartRequest(v) /\ v \in served
                                       /\ v \notin MonitorsUntil(requests, k - 1)
        /\ Leaving(all, v) <=> Leaving(rest, v) \/ \E k \in 1 .. Len(requests) : requests[k] = StopRequest(v)
    BY <1>2, <1>4, AnswersHave
  <2>2. \A k \in 1 .. Len(requests) : requests[k] # StartRequest(v) /\ requests[k] # StopRequest(v)
    <3>1. \A k \in 1 .. Len(requests) : k = 1
      BY <1>4
    <3> QED
      BY <1>4, <3>1, RequestsDiffer
  <2> HIDE DEF all
  <2> QED
    BY <2>1, <2>2
<1>8. Shaking(all)
  <2> DEFINE n == Len(rest)
  <2>1. /\ Len(all) = n + Len(requests) /\ n \in Nat
        /\ \A k \in 1 .. Len(requests) :
             all[n + k] = Answer(MonitorsUntil(requests, k - 1), requests[k])
    BY <1>2, <1>4, AnswersAreSent, SMTT(30)
  <2> HIDE DEF all, n
  <2>2. all[n + 1] = Answer(MonitorsUntil(requests, 1 - 1), ValueInfoRequest(served)) /\ n + 1 \in 1 .. Len(all)
    <3>1. 1 \in 1 .. Len(requests)
      BY <1>4
    <3> QED
      BY <1>4, <2>1, <3>1
  <2>3. Answer(MonitorsUntil(requests, 1 - 1), ValueInfoRequest(served)) = ValueInfoResponse(served)
    <3>1. ValueInfoRequest(served) \in Requests
      BY <1>2 DEF Requests
    <3> QED
      BY <1>2, <3>1, AnswerOf
  <2>4. Shakes(ValueInfoResponse(served))
    BY DEF Shakes, ValueInfoResponse
  <2> QED
    BY <2>2, <2>3, <2>4 DEF Shaking
<1> HIDE DEF all
<1>9. ASSUME NEW v \in Variables
      PROVE  OpenShown(v, panel, new, all, monitors', served, missed)
  <2>1. OpenShown(v, panel, list, toClient, monitors, served, missed)
    BY <1>1 DEF ShownInv, list
  <2> QED
    BY <1>5, <1>6, <1>7, <1>8, <2>1 DEF OpenShown, Coming
<1>10. \A v \in Variables : OpenShown(v, panel', monitoringVariableList', toClient', monitors', served', missed')
  BY <1>1, <1>9
<1>11. readyState' # "CONNECTING"
  BY <1>1
<1> QED
  BY <1>10, <1>11 DEF ShownInv, OpenShown, Shown, Listed, Broken

\* The answer to a start or a stop.
LEMMA ShownStart == ClientInv /\ PanelInv /\ ShownInv /\ StartReceived => ShownInv'
<1> SUFFICES ASSUME ClientInv, ShownInv, StartReceived PROVE ShownInv'
  OBVIOUS
<1> DEFINE list == monitoringVariableList
           m == Head(toClient)
           rest == Tail(toClient)
           new == RecordStart(list, m)
<1>1. /\ readyState = "OPEN" /\ readyState' = "OPEN" /\ monitoringVariableList' = new
      /\ panel' = panel /\ missed' = missed /\ served' = served /\ monitors' = monitors
      /\ toClient' = rest /\ toClient # <<>> /\ m.type = "MONITORSTART_RESPONSE"
  BY DEF StartReceived, Receives, panelVars, serverVars
<1>2. toClient \in Seq(Responses) /\ list \in Seq(Variables)
  BY <1>1, WhenOpen
<1>3. m \in Responses /\ m.variable \in Variables /\ m.ok \in BOOLEAN
  <2>1. m \in Responses
    BY <1>1, <1>2
  <2> QED
    BY <1>1, <2>1 DEF Responses, ValueListResponse, ValueInfoResponse, StartResponse, StopResponse
<1>4. ~Shakes(m) /\ \A v : ~Stopped(m, v) /\ (Started(m, v) <=> v = m.variable /\ m.ok = TRUE)
  BY <1>1 DEF Shakes, Stopped, Started
<1>5. Range(new) = IF m.ok THEN Range(list) \cup {m.variable} ELSE Range(list)
  <2>1. CASE m.ok
    <3>1. new = Append(list, m.variable)
      BY <2>1 DEF RecordStart
    <3>2. Range(Append(list, m.variable)) = Range(list) \cup {m.variable}
      BY <1>2, <1>3, CountAppend
    <3> HIDE DEF new, list, m
    <3> QED
      BY <2>1, <3>1, <3>2
  <2>2. CASE ~m.ok
    BY <2>2 DEF RecordStart
  <2> QED
    BY <2>1, <2>2
<1>6. \A v : /\ Starting(toClient, v) <=> Started(m, v) \/ Starting(rest, v)
             /\ Leaving(toClient, v) <=> Stopped(m, v) \/ Leaving(rest, v)
             /\ Shaking(toClient) <=> Shakes(m) \/ Shaking(rest)
  BY <1>1, <1>2, RestHas
<1> HIDE DEF rest, new, m, list
<1>7. ASSUME NEW v \in Variables
      PROVE  OpenShown(v, panel, new, rest, monitors, served, missed)
  <2>1. OpenShown(v, panel, list, toClient, monitors, served, missed)
    BY <1>1 DEF ShownInv, list
  <2>2. Coming(new, rest, v) <=> Coming(list, toClient, v)
    BY <1>3, <1>4, <1>5, <1>6 DEF Coming
  <2>3. (Leaving(rest, v) <=> Leaving(toClient, v)) /\ (Shaking(rest) <=> Shaking(toClient))
    BY <1>4, <1>6
  <2> QED
    BY <2>1, <2>2, <2>3 DEF OpenShown
<1>8. \A v \in Variables : OpenShown(v, panel', monitoringVariableList', toClient', monitors', served', missed')
  BY <1>1, <1>7
<1>9. readyState' # "CONNECTING"
  BY <1>1
<1> QED
  BY <1>8, <1>9 DEF ShownInv, OpenShown, Shown, Listed, Broken

LEMMA ShownStop == ClientInv /\ PanelInv /\ ShownInv /\ StopReceived => ShownInv'
<1> SUFFICES ASSUME ClientInv, ShownInv, StopReceived PROVE ShownInv'
  OBVIOUS
<1> DEFINE list == monitoringVariableList
           m == Head(toClient)
           rest == Tail(toClient)
           new == removeMonitoringVariableFromArray(list, m.variable)
<1>1. /\ readyState = "OPEN" /\ readyState' = "OPEN" /\ monitoringVariableList' = new
      /\ panel' = panel /\ missed' = missed /\ served' = served /\ monitors' = monitors
      /\ toClient' = rest /\ toClient # <<>> /\ m.type = "MONITORSTOP_RESPONSE"
  BY DEF StopReceived, Receives, panelVars, serverVars
<1>2. toClient \in Seq(Responses) /\ list \in Seq(Variables)
  BY <1>1, WhenOpen
<1>3. ~Shakes(m) /\ \A v : ~Started(m, v) /\ (Stopped(m, v) <=> v = m.variable)
  BY <1>1 DEF Shakes, Stopped, Started
<1>4. Range(new) = Range(list) \ {m.variable}
  <2>1. Range(new) = Range(list) \cap (Variables \ {m.variable})
    BY <1>2, KeepRange DEF removeMonitoringVariableFromArray
  <2>2. Range(list) \subseteq Variables
    BY <1>2 DEF Range
  <2> QED
    BY <2>1, <2>2
<1>5. \A v : /\ Starting(toClient, v) <=> Started(m, v) \/ Starting(rest, v)
             /\ Leaving(toClient, v) <=> Stopped(m, v) \/ Leaving(rest, v)
             /\ Shaking(toClient) <=> Shakes(m) \/ Shaking(rest)
  BY <1>1, <1>2, RestHas
<1> HIDE DEF rest, new, m, list
<1>6. ASSUME NEW v \in Variables
      PROVE  OpenShown(v, panel, new, rest, monitors, served, missed)
  <2>1. OpenShown(v, panel, list, toClient, monitors, served, missed)
    BY <1>1 DEF ShownInv, list
  <2>2. v # m.variable => (Coming(new, rest, v) <=> Coming(list, toClient, v))
    BY <1>3, <1>4, <1>5 DEF Coming
  <2>3. /\ Leaving(rest, v) => Leaving(toClient, v)
        /\ v = m.variable => Leaving(toClient, v)
        /\ Shaking(rest) <=> Shaking(toClient)
    BY <1>3, <1>5
  <2> QED
    BY <2>1, <2>2, <2>3 DEF OpenShown
<1>7. \A v \in Variables : OpenShown(v, panel', monitoringVariableList', toClient', monitors', served', missed')
  BY <1>1, <1>6
<1>8. readyState' # "CONNECTING"
  BY <1>1
<1> QED
  BY <1>7, <1>8 DEF ShownInv, OpenShown, Shown, Listed, Broken

AllStarts(calls) == \A k \in 1 .. Len(calls) : \E w : calls[k] = StartRequest(w)

\* A start of the variable is among the requests.
StartIn(calls, v) == \E k \in 1 .. Len(calls) : calls[k] = StartRequest(v)

\* The list of requests that the client sends for the old monitors.
LEMMA RestartsAre ==
  ASSUME NEW list \in Seq(Variables), NEW calls \in Seq(Calls),
         AllStarts(calls)
  PROVE  LET all == startOldMonitorVariables(list) \o calls IN
         /\ all \in Seq(Calls)
         /\ AllStarts(all)
         /\ \A v : StartIn(all, v) <=> v \in Range(list) \/ StartIn(calls, v)
<1> DEFINE old == startOldMonitorVariables(list)
           n == Len(list)
           m == Len(calls)
           all == old \o calls
<1>1. DOMAIN list = 1 .. n /\ n \in Nat /\ m \in Nat
  OBVIOUS
<1>2. /\ DOMAIN old = 1 .. n /\ \A i \in 1 .. n : old[i] = StartRequest(list[i])
      /\ old = [i \in 1 .. n |-> old[i]]
  BY <1>1 DEF startOldMonitorVariables
<1> HIDE DEF old
<1>3. \A i \in 1 .. n : old[i] \in Calls
  BY <1>2 DEF Calls
<1>4. old \in Seq(Calls) /\ Len(old) = n
  BY <1>1, <1>2, <1>3
<1>5. /\ all \in Seq(Calls) /\ Len(all) = n + m
      /\ \A i \in 1 .. n : all[i] = old[i]
      /\ \A k \in 1 .. m : all[n + k] = calls[k]
  BY <1>4
<1>6. /\ \A i \in 1 .. n : i \in 1 .. n + m
      /\ \A k \in 1 .. m : n + k \in 1 .. n + m
      /\ \A j \in 1 .. n + m : j \in 1 .. n \/ (j - n \in 1 .. m /\ j = n + (j - n))
  BY <1>1
<1> HIDE DEF n, m, all
<1>7. \A j \in 1 .. Len(all) : \/ j \in 1 .. n /\ all[j] = StartRequest(list[j])
                               \/ j - n \in 1 .. m /\ all[j] = calls[j - n]
  BY <1>2, <1>5, <1>6
<1>8. /\ \A i \in 1 .. n : \E j \in 1 .. Len(all) : all[j] = StartRequest(list[i])
      /\ \A k \in 1 .. m : \E j \in 1 .. Len(all) : all[j] = calls[k]
  BY <1>2, <1>5, <1>6
<1>9. \A k \in 1 .. Len(all) : \E w : all[k] = StartRequest(w)
  BY <1>7 DEF m, AllStarts
<1>10. ASSUME NEW v
       PROVE  (\E k \in 1 .. Len(all) : all[k] = StartRequest(v))
                <=> v \in Range(list) \/ \E k \in 1 .. m : calls[k] = StartRequest(v)
  <2>1. \A w : StartRequest(w) = StartRequest(v) <=> w = v
    BY RequestsDiffer
  <2>2. v \in Range(list) <=> \E i \in 1 .. n : list[i] = v
    BY <1>1 DEF Range
  <2>3. ASSUME NEW k \in 1 .. Len(all), all[k] = StartRequest(v)
        PROVE  v \in Range(list) \/ \E j \in 1 .. m : calls[j] = StartRequest(v)
    BY <1>7, <2>1, <2>2, <2>3
  <2>4. ASSUME NEW i \in 1 .. n, list[i] = v
        PROVE  \E k \in 1 .. Len(all) : all[k] = StartRequest(v)
    BY <1>8, <2>4
  <2>5. ASSUME NEW j \in 1 .. m, calls[j] = StartRequest(v)
        PROVE  \E k \in 1 .. Len(all) : all[k] = StartRequest(v)
    BY <1>8, <2>5
  <2> QED
    BY <2>2, <2>3, <2>4, <2>5
<1> QED
  BY <1>5, <1>9, <1>10 DEF all, old, m, AllStarts, StartIn

LEMMA CallsAreRequests == \A list \in Seq(Calls) : list \in Seq(Requests)
<1>1. Calls \subseteq Requests
  BY DEF Calls, Requests
<1> QED
  BY <1>1

\* From now on the panel shows what the server monitors.
LEMMA ShownValueInfo == ClientInv /\ PanelInv /\ ShownInv /\ ValueInfoReceived => ShownInv'
<1> SUFFICES ASSUME ClientInv, PanelInv, ShownInv, ValueInfoReceived PROVE ShownInv'
  OBVIOUS
<1>0. PICK new \in SUBSET served :
        /\ served \subseteq Variables
        /\ ListBuilt(new)
        /\ Relisted(panel, new, NewVariableList(panel, new))
        /\ NewVariableList(panel, new).calls \in Seq(Calls)
        /\ Finish(NewVariableList(panel, new))
        /\ missed' = missed \cup (Shown(panel) \cap (served \ new))
  BY NewListComes
<1> DEFINE list == monitoringVariableList
           m == Head(toClient)
           rest == Tail(toClient)
           q == NewVariableList(panel, new)
           requests == startOldMonitorVariables(list) \o q.calls
           all == rest \o Answers(requests)
<1>1. /\ readyState = "OPEN" /\ readyState' = "OPEN" /\ monitoringVariableList' = list
      /\ missed \subseteq missed' /\ served' = served /\ toClient' = all
      /\ monitors' = MonitorsAfter(monitors, requests)
      /\ toClient # <<>> /\ m.type = "VALUEINFO_RESPONSE"
  BY <1>0 DEF ValueInfoReceived, ListBuilt, Receives, Sends, clientVars
<1>2. /\ toClient \in Seq(Responses) /\ rest \in Seq(Responses) /\ served \subseteq Variables
      /\ list \in Seq(Variables) /\ HandshakeGood(list, toClient, served) /\ monitors \subseteq served
  BY <1>1, WhenOpen
<1>3. /\ Relisted(panel, new, q) /\ q.calls \in Seq(Calls) /\ Finish(q)
  BY <1>0
<1>4. panel'.tools = q.tools
  BY <1>3, FinishIs DEF Relisted
<1>5. Shakes(m) /\ \A v : ~Started(m, v) /\ ~Stopped(m, v)
  BY <1>1 DEF Shakes, Started, Stopped
<1>6. Shaking(toClient) /\ ~Shaking(rest)
  <2>1. Shaking(toClient) <=> Shakes(m) \/ Shaking(rest)
    BY <1>1, <1>2, RestHas
  <2>2. \A i \in 1 .. Len(rest) : ~Shakes(rest[i])
    BY <1>1, <1>2, <1>5, HandshakeRest DEF NoHandshake
  <2> QED
    BY <1>5, <2>1, <2>2 DEF Shaking
<1> HIDE DEF q
<1>7. \A k \in 1 .. Len(q.calls) : \E w : q.calls[k] = StartRequest(w)
  BY <1>3 DEF Relisted
<1> DEFINE calls == q.calls
<1> HIDE DEF calls, list, m, rest
<1>8. /\ requests \in Seq(Calls)
      /\ AllStarts(requests)
      /\ \A v : StartIn(requests, v) <=> v \in Range(list) \/ StartIn(calls, v)
  <2>1. requests = startOldMonitorVariables(list) \o calls
    BY DEF calls
  <2>2. calls \in Seq(Calls) /\ AllStarts(calls)
    BY <1>3, <1>7 DEF calls, AllStarts
  <2> DEFINE sent == startOldMonitorVariables(list) \o calls
  <2>3. /\ sent \in Seq(Calls) /\ AllStarts(sent)
        /\ \A v : StartIn(sent, v) <=> v \in Range(list) \/ StartIn(calls, v)
    BY <1>2, <2>2, RestartsAre
  <2> HIDE DEF requests, sent
  <2>4. requests = sent
    BY <2>1 DEF sent
  <2> QED
    BY <2>3, <2>4
<1> HIDE DEF requests
<1>9. ~Shaking(all)
  <2>1. requests \in Seq(Requests) /\ \A k \in 1 .. Len(requests) : requests[k] \in Calls
    BY <1>8, CallsAreRequests
  <2>2. Shaking(all) <=> Shaking(rest)
    BY <1>2, <2>1, AnswersHave
  <2> QED
    BY <1>6, <2>2
<1> HIDE DEF all
<1>10. ASSUME NEW v \in Variables
       PROVE  /\ v \in Listed(q) => v \in served
              /\ v \notin missed' /\ v \notin Broken(q) => (v \in Shown(q) <=> v \in monitors')
  <2>1. v \in Listed(q) <=> v \in new
    BY <1>3 DEF Relisted
  <2>2. v \in monitors' <=> v \in served /\ (v \in monitors \/ v \in Range(list) \/ Asked(q, v))
    <3>1. v \in MonitorsAfter(monitors, requests)
            <=> v \in served /\ (v \in monitors \/ \E k \in 1 .. Len(requests) : requests[k] = StartRequest(v))
      BY <1>2, <1>8, StartsAdd DEF AllStarts
    <3> QED
      BY <1>1, <1>8, <3>1 DEF Asked, calls, StartIn
  <2>3. ASSUME v \in served, v \notin missed', v \notin Broken(panel)
        PROVE  /\ v \in Shown(panel) <=> Coming(list, toClient, v)
               /\ v \in monitors => Coming(list, toClient, v)
               /\ Starting(toClient, v) => v \in monitors
    <3>1. OpenShown(v, panel, list, toClient, monitors, served, missed)
      BY <1>1 DEF ShownInv, list
    <3>2. (v \in Shown(panel) <=> Coming(list, toClient, v)) /\ ~Leaving(toClient, v)
      BY <1>1, <1>6, <2>3, <3>1 DEF OpenShown
    <3> QED
      BY <1>1, <3>2, AgreeIs DEF list
  <2>4. CASE v \in new /\ v \notin missed' /\ v \notin Broken(q)
    <3>1. v \notin Broken(panel) /\ (v \in Shown(q) <=> v \in Shown(panel) \/ Asked(q, v))
      BY <1>3, <2>4 DEF Relisted
    <3>2. v \in served
      BY <2>4
    <3> QED
      BY <2>1, <2>2, <2>3, <2>4, <3>1, <3>2 DEF Coming
  <2>5. CASE v \notin served
    BY <2>1, <2>2, <2>5 DEF Shown
  <2>6. CASE v \in served \ new /\ v \notin missed'
    <3>1. v \notin Shown(panel) /\ v \notin Shown(q)
      BY <1>0, <2>1, <2>6 DEF Shown
    <3>2. v \notin Broken(panel)
      <4>1. Range(<<>>) = {}
        BY DEF Range
      <4> QED
        BY <3>1, <4>1 DEF Shown, Broken
    <3>3. ~Asked(q, v)
      <4>1. \A w : StartRequest(w) = StartRequest(v) => w = v
        BY DEF StartRequest
      <4> QED
        BY <1>3, <2>6, <4>1 DEF Relisted, Asked
    <3> QED
      BY <2>2, <2>3, <2>6, <3>1, <3>2, <3>3 DEF Coming
  <2> QED
    BY <2>1, <2>4, <2>5, <2>6
<1>11. ASSUME NEW v \in Variables
       PROVE  OpenShown(v, q, list, all, monitors', served, missed')
  BY <1>9, <1>10 DEF OpenShown
<1>12. Shown(q) = Shown(panel') /\ Listed(q) = Listed(panel') /\ Broken(q) = Broken(panel')
  BY <1>4 DEF Shown, Listed, Broken
<1>13. \A v \in Variables : OpenShown(v, panel', monitoringVariableList', toClient', monitors', served', missed')
  BY <1>1, <1>11, <1>12 DEF OpenShown
<1>14. readyState' # "CONNECTING"
  BY <1>1
<1> QED
  BY <1>13, <1>14 DEF ShownInv, OpenShown, Shown, Listed, Broken

LEMMA ShownRests ==
  ASSUME ShownInv, ServerCloses \/ Restart \/ webSocket_onclose \/ UNCHANGED vars
  PROVE  ShownInv'
<1>1. CASE ServerCloses
  BY <1>1 DEF ShownInv, ServerCloses
<1>2. CASE webSocket_onclose
  <2>1. readyState' # "OPEN" /\ panel' = panel /\ monitoringVariableList' = monitoringVariableList
        /\ missed' = missed \cup Unsettled
    BY <1>2 DEF webSocket_onclose, AfterClose, panelVars
  <2>2. \A v \in Variables : ClosedShown(v, panel, monitoringVariableList, missed')
    BY <2>1 DEF ClosedShown, Unsettled
  <2> QED
    BY <2>1, <2>2 DEF ShownInv, ClosedShown, Shown, Listed, Broken
<1>3. CASE Restart
  <2>1. /\ readyState = "CONNECTING" /\ readyState' = "CONNECTING" /\ panel' = panel
        /\ monitoringVariableList' = monitoringVariableList /\ missed' = missed
    BY <1>3 DEF Restart, ServerRestart, clientVars, panelVars
  <2> QED
    BY <2>1 DEF ShownInv, ClosedShown, Shown, Listed, Broken
<1>4. CASE UNCHANGED vars
  <2>1. /\ readyState' = readyState /\ panel' = panel /\ toClient' = toClient /\ served' = served
        /\ monitors' = monitors /\ monitoringVariableList' = monitoringVariableList /\ missed' = missed
    BY <1>4 DEF vars, clientVars, serverVars, panelVars
  <2>2. \A v \in Variables :
          /\ readyState' = "CONNECTING" => ClosedShown(v, panel', monitoringVariableList', missed')
          /\ readyState' = "OPEN" =>
               OpenShown(v, panel', monitoringVariableList', toClient', monitors', served', missed')
    BY <2>1 DEF ShownInv
  <2> QED
    BY <2>2 DEF ShownInv, ClosedShown, OpenShown, Shown, Listed, Broken
<1> QED
  BY <1>1, <1>2, <1>3, <1>4

\* A click: the tools of one variable change, with at most one request.
LEMMA ShownClicks ==
  ASSUME ClientInv, PanelInv, ShownInv,
         NEW x \in Variables, NEW q, WellMade(q), Settling(panel, q, x), Clicked(q)
  PROVE  ShownInv'
<1> DEFINE list == monitoringVariableList
<1>1. /\ panel.calls = <<>> /\ Finish(q) /\ Sends(toClient, readyState, q.calls)
      /\ missed' = missed \cup MissedBy(q.calls)
      /\ readyState' = readyState /\ monitoringVariableList' = list /\ served' = served
  BY DEF PanelInv, Clicked, clientVars
<1>2. /\ Listed(panel') = Listed(panel) /\ Listed(q) = Listed(panel)
      /\ Shown(panel') = Shown(q) /\ Broken(panel') = Broken(q)
  <2>1. panel'.tools = q.tools
    BY <1>1, FinishIs
  <2> QED
    BY <2>1 DEF Settling, OnlyTools, Shown, Broken, Listed
<1>3. /\ \A w : w # x => /\ w \in Shown(q) <=> w \in Shown(panel)
                         /\ w \in Broken(q) <=> w \in Broken(panel)
      /\ x \in Broken(panel) => x \in Broken(q)
  <2>1. \A w \in Listed(panel) : w # x => q.tools[w] = panel.tools[w]
    BY DEF Settling, OnlyTools
  <2> QED
    BY <1>2, <2>1 DEF Settling, Shown, Broken
<1>4. \/ q.calls = <<>> /\ (x \in Broken(q) \/ (x \in Shown(q) <=> x \in Shown(panel)))
      \/ q.calls = <<StartRequest(x)>> /\ x \in Shown(q)
      \/ q.calls = <<StopRequest(x)>> /\ x \notin Shown(q)
  <2>1. \A r : Append(<<>>, r) = <<r>>
    OBVIOUS
  <2> QED
    BY <1>1, <2>1 DEF Settling
<1>5. missed \subseteq missed'
  BY <1>1
<1>6. ASSUME NEW r \in {StartRequest(x), StopRequest(x)}, q.calls = <<r>>, readyState # "OPEN" \/ Overtaken(r)
      PROVE  x \in missed'
  <2>1. r \in Range(q.calls)
    <3>1. Range(<<r>>) = {r}
      BY DEF Range
    <3> QED
      BY <1>6, <3>1
  <2>2. r.variable = x
    BY DEF StartRequest, StopRequest
  <2>3. r.variable \in MissedBy(q.calls)
    BY <1>6, <2>1 DEF MissedBy
  <2> QED
    BY <1>1, <2>2, <2>3
<1>7. CASE readyState = "CONNECTING"
  <2>1. ASSUME NEW v \in Variables
        PROVE  ClosedShown(v, q, list, missed')
    <3>1. ClosedShown(v, panel, list, missed)
      BY <1>7 DEF ShownInv
    <3>2. CASE v # x
      BY <1>3, <1>5, <3>1, <3>2 DEF ClosedShown
    <3>3. CASE v = x /\ q.calls = <<>>
      <4>1. <<>> # <<StartRequest(x)>> /\ <<>> # <<StopRequest(x)>>
        OBVIOUS
      <4> QED
        BY <1>3, <1>4, <1>5, <3>1, <3>3, <4>1 DEF ClosedShown
    <3>4. CASE v = x /\ q.calls # <<>>
      BY <1>4, <1>6, <1>7, <3>4 DEF ClosedShown
    <3> QED
      BY <3>2, <3>3, <3>4
  <2>2. \A v \in Variables : ClosedShown(v, panel', monitoringVariableList', missed')
    BY <1>1, <1>2, <2>1 DEF ClosedShown
  <2>3. readyState' # "OPEN"
    BY <1>1, <1>7
  <2> QED
    BY <2>2, <2>3 DEF ShownInv, ClosedShown, Shown, Listed, Broken
<1>8. CASE readyState = "OPEN"
  <2>1. /\ toClient' = toClient \o Answers(q.calls) /\ monitors' = MonitorsAfter(monitors, q.calls)
    BY <1>1, <1>8 DEF Sends
  <2>2. /\ toClient \in Seq(Responses) /\ served \subseteq Variables /\ monitors \subseteq served
        /\ list \in Seq(Variables)
    BY <1>8, WhenOpen
  <2>3. \A v \in Variables : OpenShown(v, panel, list, toClient, monitors, served, missed)
    BY <1>8 DEF ShownInv
  <2>4. ASSUME q.calls = <<>>, NEW v \in Variables
        PROVE  OpenShown(v, q, list, toClient', monitors', served, missed')
    <3>1. toClient' = toClient
      <4>1. DOMAIN <<>> = {}
        OBVIOUS
      <4>2. Answers(<<>>) = <<>>
        BY <4>1 DEF Answers
      <4> QED
        BY <2>1, <2>2, <2>4, <4>2
    <3>2. monitors' = monitors
      <4>1. DOMAIN <<>> = {}
        OBVIOUS
      <4>2. MonitorsAfter(monitors, <<>>) = {w \in served : w \in monitors}
        BY <4>1 DEF MonitorsAfter
      <4> QED
        BY <2>1, <2>2, <2>4, <4>2
    <3>3. v \notin Broken(q) => (v \in Shown(q) <=> v \in Shown(panel)) /\ v \notin Broken(panel)
      <4>1. <<>> # <<StartRequest(x)>> /\ <<>> # <<StopRequest(x)>>
        OBVIOUS
      <4> QED
        BY <1>3, <1>4, <2>4, <4>1
    <3>4. OpenShown(v, q, list, toClient, monitors, served, missed')
      BY <1>2, <1>5, <2>3, <3>3 DEF OpenShown
    <3> QED
      BY <3>1, <3>2, <3>4
  <2>5. ASSUME NEW r \in {StartRequest(x), StopRequest(x)}, q.calls = <<r>>, NEW v \in Variables
        PROVE  OpenShown(v, q, list, toClient', monitors', served, missed')
    <3>1. /\ Starting(toClient', v) <=> Starting(toClient, v) \/ (r = StartRequest(v) /\ v \in served /\ v \notin monitors)
          /\ Leaving(toClient', v) <=> Leaving(toClient, v) \/ r = StopRequest(v)
          /\ Shaking(toClient') <=> Shaking(toClient)
          /\ r = StartRequest(v) => (v \in monitors' <=> v \in served)
          /\ r = StopRequest(v) => v \notin monitors'
          /\ v # x => (v \in monitors' <=> v \in monitors)
      BY <2>1, <2>2, <2>5, OneCall
    <3>2. OpenShown(v, panel, list, toClient, monitors, served, missed)
      BY <2>3
    <3>3. CASE v # x
      <4>1. r # StartRequest(v) /\ r # StopRequest(v)
        BY <3>3, RequestsDiffer
      <4>2. Coming(list, toClient', v) <=> Coming(list, toClient, v)
        BY <3>1, <4>1 DEF Coming
      <4> QED
        BY <1>2, <1>3, <1>5, <3>1, <3>2, <3>3, <4>1, <4>2 DEF OpenShown
    <3>4. CASE v = x /\ r = StartRequest(x)
      <4>1. x \in Shown(q) /\ x \in Listed(panel) /\ r # StopRequest(x)
        <5>1. r # StopRequest(x)
          BY <3>4, RequestsDiffer
        <5>2. <<r>> # <<>> /\ (<<r>> = <<StopRequest(x)>> => r = StopRequest(x))
          OBVIOUS
        <5> QED
          BY <1>2, <1>4, <2>5, <5>1, <5>2 DEF Shown
      <4>2. x \in served => Coming(list, toClient', x)
        <5>1. x \in monitors => Coming(list, toClient, x)
          BY <1>8, AgreeIs
        <5> QED
          BY <3>1, <3>4, <5>1 DEF Coming
      <4> QED
        BY <1>2, <1>5, <3>1, <3>2, <3>4, <4>1, <4>2 DEF OpenShown
    <3>5. CASE v = x /\ r = StopRequest(x)
      <4>1. x \notin Shown(q)
        <5>1. r # StartRequest(x)
          BY <3>5, RequestsDiffer
        <5>2. <<r>> # <<>> /\ (<<r>> = <<StartRequest(x)>> => r = StartRequest(x))
          OBVIOUS
        <5> QED
          BY <1>4, <2>5, <5>1, <5>2
      <4>2. Shaking(toClient) => x \in missed'
        <5>1. Shaking(toClient) => Handshaking
          BY <2>2, HandshakingIs DEF Shaking
        <5>2. Shaking(toClient) => Overtaken(r)
          BY <3>5, <5>1 DEF Overtaken, StopRequest
        <5> QED
          BY <1>6, <2>5, <5>2
      <4> QED
        BY <1>2, <1>5, <3>1, <3>2, <3>5, <4>1, <4>2 DEF OpenShown
    <3> QED
      BY <3>3, <3>4, <3>5
  <2>6. \A v \in Variables : OpenShown(v, q, list, toClient', monitors', served, missed')
    BY <1>4, <2>4, <2>5
  <2>7. \A v \in Variables :
          OpenShown(v, panel', monitoringVariableList', toClient', monitors', served', missed')
    BY <1>1, <1>2, <2>6 DEF OpenShown
  <2>8. readyState' # "CONNECTING"
    BY <1>1, <1>8
  <2> QED
    BY <2>7, <2>8 DEF ShownInv, OpenShown, Shown, Listed, Broken
<1> QED
  BY <1>1, <1>7, <1>8 DEF ShownInv

\* The inductive invariant of ShownIsMonitored: between connections what is
\* shown is what will be started again, during the handshake also what a start
\* on its way will add, and from the value info on what the server monitors;
\* whatever variables the parser leaves out of the new list, because the ones
\* that had tools, and only these, are among the missed from then on.
THEOREM PanelShowsWhatComes == Spec => []ShownInv
<1>1. Init => ShownInv
  <2>1. ASSUME Init
        PROVE  /\ readyState = "CONNECTING" /\ Range(monitoringVariableList) = {}
               /\ Shown(panel) = {}
    <3>1. DOMAIN <<>> = {}
      OBVIOUS
    <3>2. panel.tools = <<>> /\ monitoringVariableList = <<>> /\ readyState = "CONNECTING"
      BY <2>1 DEF Init, PanelInit, ClientInit
    <3> QED
      BY <3>1, <3>2 DEF Shown, Listed, Range
  <2> QED
    BY <2>1 DEF ShownInv, ClosedShown
<1>2. ClientInv /\ PanelInv /\ ShownInv /\ [Next]_vars => ShownInv'
  <2> SUFFICES ASSUME ClientInv, PanelInv, ShownInv, [Next]_vars PROVE ShownInv'
    OBVIOUS
  <2>1. CASE webSocket_onopen
    BY <2>1, ShownOpens
  <2>2. CASE webSocket_onmessage
    BY <2>2, ShownValueList, ShownValueInfo, ShownStart, ShownStop DEF webSocket_onmessage
  <2>3. CASE ServerCloses \/ Restart \/ CloseCompletes \/ ConnectionLost \/ UNCHANGED vars
    BY <2>3, ShownRests DEF CloseCompletes, ConnectionLost
  <2>4. CASE User
    BY <2>4, UserClicks, ShownClicks
  <2> QED
    BY <2>1, <2>2, <2>3, <2>4 DEF Next
<1> QED
  BY <1>1, <1>2, PanelIsGood, PTL DEF Spec

\* When nothing is on its way, the variables that have a tool are the ones the
\* server monitors, but for the ones in missed (see History in ControlPanel:
\* also the ones that lost their tools because the parser could not read their
\* value info) or with a null tool: after any reconnects, restarts of the
\* server, unreadable value infos and clicks in between.
THEOREM ToolsAreMonitored == Spec => []ShownIsMonitored
<1>1. ShownInv => ShownIsMonitored
  <2> SUFFICES ASSUME ShownInv, Quiet, NEW v \in Variables \ (missed \cup Broken(panel))
               PROVE  v \in Shown(panel) <=> v \in monitors
    BY DEF ShownIsMonitored
  <2>1. OpenShown(v, panel, monitoringVariableList, toClient, monitors, served, missed)
    BY DEF ShownInv, Quiet
  <2>2. ~Shaking(toClient)
    <3>1. toClient = <<>> /\ Len(<<>>) = 0 /\ ~ \E i \in 1 .. 0 : TRUE
      BY DEF Quiet
    <3> QED
      BY <3>1 DEF Shaking
  <2> QED
    BY <2>1, <2>2 DEF OpenShown
<1> QED
  BY <1>1, PanelShowsWhatComes, PTL

=============================================================================
