--------------------------- MODULE EventLoopProofs ---------------------------
(***************************************************************************)
(* Proofs about EventLoop, for every number of timers, descriptors and     *)
(* events: the list of time events however callbacks create and delete     *)
(* timers in the middle of a pass, the bits of select, the list of file    *)
(* events, and the turns whose select fails.                               *)
(***************************************************************************)
EXTENDS EventLoop, NaturalMinimum, SequenceTheorems, TLAPS

Timer == [id : Nat, when : Nat \union {-1}]

Descends(l) == \A i, j \in DOMAIN l : i < j => l[i].id > l[j].id
Below(l, n) == \A i \in DOMAIN l : l[i].id < n

TInv == /\ timeEvents \in Seq(Timer) /\ timeEventNextId \in Nat /\ maxId \in Int
        /\ Descends(timeEvents) /\ Below(timeEvents, timeEventNextId)

----------------------------------------------------------------------------
(* The operations on the list *)

LEMMA FunctionIsSeq ==
    ASSUME NEW S, NEW n \in Nat, NEW f \in [1..n -> S]
    PROVE  f \in Seq(S) /\ Len(f) = n
OBVIOUS

LEMMA TimersOf ==
    ASSUME NEW l \in Seq(Timer)
    PROVE  /\ Len(l) \in Nat /\ DOMAIN l = 1..Len(l)
           /\ \A i \in DOMAIN l : l[i] \in Timer /\ l[i].id \in Nat
<1>1. Len(l) \in Nat /\ DOMAIN l = 1..Len(l)
  BY LenProperties
<1>2. \A i \in DOMAIN l : l[i] \in Timer
  BY <1>1, ElementOfSeq
<1>3. \A t \in Timer : t.id \in Nat
  BY DEF Timer
<1> QED BY <1>1, <1>2, <1>3

(* The time that passes changes nothing but the milliseconds that are      *)
(* left, and these only down.                                              *)
LEMMA LaterTimers ==
    ASSUME NEW l \in Seq(Timer), NEW d \in Nat
    PROVE  /\ Later(l, d) \in Seq(Timer) /\ DOMAIN Later(l, d) = DOMAIN l
           /\ \A i \in DOMAIN l : /\ Later(l, d)[i].id = l[i].id
                                  /\ Later(l, d)[i].when <= l[i].when
                                  /\ Later(l, d)[i].when >= l[i].when - d
<1> DEFINE w(i) == IF l[i].when >= d THEN l[i].when - d ELSE -1
           m == [i \in DOMAIN l |-> [l[i] EXCEPT !.when = w(i)]]
<1>1. Later(l, d) = m
  BY DEF Later
<1>2. Len(l) \in Nat /\ DOMAIN l = 1..Len(l)
  BY LenProperties
<1>3. ASSUME NEW i \in DOMAIN l
      PROVE  /\ [l[i] EXCEPT !.when = w(i)] \in Timer
             /\ [l[i] EXCEPT !.when = w(i)].id = l[i].id
             /\ [l[i] EXCEPT !.when = w(i)].when <= l[i].when
             /\ [l[i] EXCEPT !.when = w(i)].when >= l[i].when - d
  <2>1. l[i] \in Timer
    BY <1>2, ElementOfSeq
  <2>2. w(i) \in Nat \union {-1} /\ w(i) <= l[i].when /\ w(i) >= l[i].when - d
    BY <2>1 DEF Timer
  <2> HIDE DEF w
  <2> QED BY <2>1, <2>2 DEF Timer
<1> HIDE DEF w
<1>4. m \in Seq(Timer)
  <2>1. m \in [1..Len(l) -> Timer]
    BY <1>2, <1>3
  <2> HIDE DEF m
  <2> QED BY <1>2, <2>1, FunctionIsSeq
<1>5. DOMAIN m = DOMAIN l /\ \A i \in DOMAIN l : m[i] = [l[i] EXCEPT !.when = w(i)]
  OBVIOUS
<1> HIDE DEF m
<1> QED BY <1>1, <1>3, <1>4, <1>5

LEMMA WithoutOne ==
    ASSUME NEW S, NEW l \in Seq(S), NEW i \in 1..Len(l)
    PROVE  /\ Without(l, i) \in Seq(S) /\ Len(Without(l, i)) = Len(l) - 1
           /\ \A j \in 1..(Len(l) - 1) :
                Without(l, i)[j] = l[IF j < i THEN j ELSE j + 1]
<1>1. Len(l) \in Nat /\ i \in Nat /\ 1 <= i /\ i <= Len(l)
  BY LenProperties
<1>2. \A j \in 1..Len(l) : l[j] \in S
  BY ElementOfSeq
<1> DEFINE a == SubSeq(l, 1, i - 1)
           b == SubSeq(l, i + 1, Len(l))
<1>3. /\ a \in Seq(S) /\ Len(a) = i - 1
      /\ \A j \in 1..(i - 1) : a[j] = l[j]
  BY <1>1, <1>2, SubSeqProperties
<1>4. /\ b \in Seq(S) /\ Len(b) = Len(l) - i
      /\ \A j \in 1..(Len(l) - i) : b[j] = l[i + j]
  <2>1. \A j \in (i + 1)..Len(l) : l[j] \in S
    BY <1>1, <1>2
  <2>2. /\ b \in Seq(S)
        /\ Len(b) = IF i + 1 <= Len(l) THEN Len(l) - (i + 1) + 1 ELSE 0
        /\ \A j \in 1..(Len(l) - (i + 1) + 1) : b[j] = l[i + 1 + j - 1]
    BY <1>1, <2>1, SubSeqProperties
  <2> HIDE DEF b
  <2> QED BY <1>1, <2>2
<1>5. Without(l, i) = a \o b
  BY DEF Without
<1> HIDE DEF a, b
<1>6. /\ a \o b \in Seq(S) /\ Len(a \o b) = Len(a) + Len(b)
      /\ \A j \in 1..(Len(a) + Len(b)) :
            (a \o b)[j] = IF j <= Len(a) THEN a[j] ELSE b[j - Len(a)]
  BY <1>3, <1>4, ConcatProperties
<1> QED BY <1>1, <1>3, <1>4, <1>5, <1>6

(* What aeDeleteTimeEvent leaves behind, keeps its order, and loses.       *)
LEMMA DeleteTimer ==
    ASSUME NEW l \in Seq(Timer), NEW id \in Nat
    PROVE  LET m == aeDeleteTimeEvent(l, id)
           IN  /\ m \in Seq(Timer)
               /\ \A j \in DOMAIN m : \E i \in DOMAIN l : m[j] = l[i]
               /\ \A i \in DOMAIN l : l[i].id # id => \E j \in DOMAIN m : m[j] = l[i]
               /\ Descends(l) => Descends(m) /\ \A j \in DOMAIN m : m[j].id # id
<1> DEFINE m == aeDeleteTimeEvent(l, id)
           same == {i \in DOMAIN l : l[i].id = id}
<1>1. Len(l) \in Nat /\ DOMAIN l = 1..Len(l)
  BY LenProperties
<1>2. CASE same = {}
  <2>1. \A j \in DOMAIN l : l[j].id # id
    BY <1>2
  <2> HIDE DEF same
  <2>2. m = l
    BY <1>2 DEF aeDeleteTimeEvent, same
  <2> QED BY <2>1, <2>2
<1>3. CASE same # {}
  <2>1. \E i \in same : \A j \in same : i <= j
    <3>1. same \in SUBSET Nat
      BY <1>1
    <3> HIDE DEF same
    <3> QED BY <1>3, <3>1, NatMin
  <2>2. Least(same) \in same
    BY <2>1 DEF Least
  <2> DEFINE k == Least(same)
  <2>3. m = Without(l, k)
    BY <1>3 DEF aeDeleteTimeEvent
  <2>4. k \in 1..Len(l) /\ l[k].id = id
    BY <2>2, <1>1
  <2> HIDE DEF k, m, same
  <2>5. /\ m \in Seq(Timer) /\ Len(m) = Len(l) - 1
        /\ \A j \in 1..(Len(l) - 1) : m[j] = l[IF j < k THEN j ELSE j + 1]
    BY <2>3, <2>4, WithoutOne
  <2>6. DOMAIN m = 1..(Len(l) - 1)
    BY <2>5, LenProperties
  <2>7. ASSUME NEW j \in DOMAIN m PROVE \E i \in DOMAIN l : m[j] = l[i]
    <3>1. (IF j < k THEN j ELSE j + 1) \in DOMAIN l
      BY <1>1, <2>4, <2>6
    <3> QED BY <2>5, <2>6, <3>1
  <2>8. ASSUME NEW i \in DOMAIN l, l[i].id # id PROVE \E j \in DOMAIN m : m[j] = l[i]
    <3>1. i # k
      BY <2>4, <2>8
    <3>2. CASE i < k
      <4>1. i \in 1..(Len(l) - 1)
        BY <1>1, <2>4, <3>2
      <4> QED BY <2>5, <2>6, <4>1, <3>2
    <3>3. CASE i > k
      <4>1. i - 1 \in 1..(Len(l) - 1) /\ ~(i - 1 < k) /\ (i - 1) + 1 = i
        BY <1>1, <2>4, <3>3
      <4>2. m[i - 1] = l[i]
        BY <2>5, <4>1
      <4> QED BY <2>6, <4>1, <4>2
    <3> QED BY <1>1, <2>4, <3>1, <3>2, <3>3
  <2>9. ASSUME Descends(l) PROVE Descends(m)
    <3> SUFFICES ASSUME NEW x \in DOMAIN m, NEW y \in DOMAIN m, x < y
                 PROVE  m[x].id > m[y].id
      BY DEF Descends
    <3> DEFINE f(j) == IF j < k THEN j ELSE j + 1
    <3>1. f(x) \in DOMAIN l /\ f(y) \in DOMAIN l /\ f(x) < f(y)
      BY <1>1, <2>4, <2>6
    <3>2. m[x] = l[f(x)] /\ m[y] = l[f(y)]
      BY <2>5, <2>6
    <3> HIDE DEF f
    <3> QED BY <2>9, <3>1, <3>2 DEF Descends
  <2>10. ASSUME Descends(l), NEW j \in DOMAIN m PROVE m[j].id # id
    <3> DEFINE f == IF j < k THEN j ELSE j + 1
    <3>1. f \in DOMAIN l /\ k \in DOMAIN l /\ (f < k \/ k < f)
      BY <1>1, <2>4, <2>6
    <3>2. m[j] = l[f]
      BY <2>5, <2>6
    <3> HIDE DEF f
    <3>3. l[f].id \in Nat /\ l[k].id \in Nat
      BY <3>1, TimersOf
    <3> QED BY <2>4, <2>10, <3>1, <3>2, <3>3 DEF Descends
  <2> QED BY <2>5, <2>7, <2>8, <2>9, <2>10 DEF m
<1> QED BY <1>2, <1>3

LEMMA CreateTimer ==
    ASSUME NEW l \in Seq(Timer), NEW id \in Nat, NEW ms \in Nat, Descends(l), Below(l, id)
    PROVE  LET m == aeCreateTimeEvent(l, id, ms)
           IN  /\ m \in Seq(Timer) /\ Descends(m) /\ Below(m, id + 1)
               /\ \A j \in DOMAIN m : m[j].id # id => \E i \in DOMAIN l : m[j] = l[i]
               /\ \A i \in DOMAIN l : \E j \in DOMAIN m : m[j] = l[i]
<1> DEFINE m == aeCreateTimeEvent(l, id, ms)
           h == <<[id |-> id, when |-> ms]>>
<1>1. Len(l) \in Nat /\ DOMAIN l = 1..Len(l)
  BY LenProperties
<1>2. h \in Seq(Timer) /\ Len(h) = 1 /\ h[1].id = id
  BY DEF Timer
<1>3. m = h \o l
  BY DEF aeCreateTimeEvent
<1> HIDE DEF h, m
<1>4. /\ m \in Seq(Timer) /\ Len(m) = 1 + Len(l)
      /\ \A j \in 1..(1 + Len(l)) : m[j] = IF j <= 1 THEN h[j] ELSE l[j - 1]
  <2>1. /\ h \o l \in Seq(Timer) /\ Len(h \o l) = Len(h) + Len(l)
        /\ \A j \in 1..(Len(h) + Len(l)) :
             (h \o l)[j] = IF j <= Len(h) THEN h[j] ELSE l[j - Len(h)]
    BY <1>2, ConcatProperties
  <2> QED BY <1>2, <1>3, <2>1
<1>5. DOMAIN m = 1..(1 + Len(l))
  BY <1>4, LenProperties
<1>6. m[1].id = id
  BY <1>1, <1>2, <1>4
<1>7. ASSUME NEW i \in DOMAIN l PROVE i + 1 \in DOMAIN m /\ m[i + 1] = l[i]
  <2>1. i + 1 \in 1..(1 + Len(l)) /\ ~(i + 1 <= 1) /\ (i + 1) - 1 = i
    BY <1>1
  <2> QED BY <1>4, <1>5, <2>1
<1>8. ASSUME NEW j \in DOMAIN m, j # 1 PROVE j - 1 \in DOMAIN l /\ m[j] = l[j - 1]
  <2>1. j \in 1..(1 + Len(l)) /\ ~(j <= 1) /\ j - 1 \in DOMAIN l
    BY <1>1, <1>5, <1>8
  <2> QED BY <1>4, <2>1
<1>9. \A i \in DOMAIN l : l[i].id \in Nat /\ l[i].id < id
  BY TimersOf DEF Below
<1>10. Descends(m)
  <2> SUFFICES ASSUME NEW x \in DOMAIN m, NEW y \in DOMAIN m, x < y
               PROVE  m[x].id > m[y].id
    BY DEF Descends
  <2>1. y # 1 /\ x \in Nat /\ y \in Nat /\ y - 1 \in DOMAIN l /\ m[y] = l[y - 1]
    BY <1>1, <1>5, <1>8
  <2>2. CASE x = 1
    BY <1>6, <1>9, <2>1, <2>2
  <2>3. CASE x # 1
    BY <1>8, <2>1, <2>3 DEF Descends
  <2> QED BY <2>2, <2>3
<1>11. Below(m, id + 1)
  <2> SUFFICES ASSUME NEW j \in DOMAIN m PROVE m[j].id < id + 1
    BY DEF Below
  <2>1. CASE j = 1
    BY <1>6, <2>1
  <2>2. CASE j # 1
    BY <1>8, <1>9, <2>2
  <2> QED BY <2>1, <2>2
<1> QED BY <1>4, <1>6, <1>7, <1>8, <1>10, <1>11 DEF m

(* What comes of the list when the callback of event id returned r.        *)
LEMMA RearmSets ==
    ASSUME NEW l \in Seq(Timer), NEW id \in Nat, NEW r \in Nat \union {NOMORE},
           Rearm(l, id, r)
    PROVE  /\ timeEvents' \in Seq(Timer)
           /\ \A j \in DOMAIN timeEvents' : \E i \in DOMAIN l :
                  /\ timeEvents'[j].id = l[i].id
                  /\ l[i].id # id => timeEvents'[j].when = l[i].when
           /\ Descends(l) => Descends(timeEvents')
           /\ Descends(l) => \A j \in DOMAIN timeEvents' :
                  timeEvents'[j].id = id => r # NOMORE /\ timeEvents'[j].when = r
           /\ (r # NOMORE => \E i \in DOMAIN l : l[i].id = id) => (wild' => wild)
<1>1. CASE r = NOMORE
  <2>1. timeEvents' = aeDeleteTimeEvent(l, id) /\ wild' = wild
    BY <1>1 DEF Rearm
  <2>2. /\ timeEvents' \in Seq(Timer)
        /\ \A j \in DOMAIN timeEvents' : \E i \in DOMAIN l : timeEvents'[j] = l[i]
        /\ Descends(l) => Descends(timeEvents') /\ \A j \in DOMAIN timeEvents' : timeEvents'[j].id # id
    <3> DEFINE m == aeDeleteTimeEvent(l, id)
    <3>1. /\ m \in Seq(Timer)
          /\ \A j \in DOMAIN m : \E i \in DOMAIN l : m[j] = l[i]
          /\ Descends(l) => Descends(m) /\ \A j \in DOMAIN m : m[j].id # id
      BY DeleteTimer
    <3>2. timeEvents' = m
      BY <2>1
    <3> HIDE DEF m
    <3> QED BY <3>1, <3>2 DEF Descends
  <2> QED BY <1>1, <2>1, <2>2
<1>2. CASE r # NOMORE
  <2> DEFINE t(i) == IF l[i].id = id THEN [l[i] EXCEPT !.when = r] ELSE l[i]
  <2>1. timeEvents' = [i \in DOMAIN l |-> t(i)]
    BY <1>2 DEF Rearm
  <2>2. wild' = (wild \/ \A i \in DOMAIN l : l[i].id # id)
    BY <1>2 DEF Rearm
  <2>3. ASSUME NEW i \in DOMAIN l
        PROVE  /\ t(i) \in Timer /\ t(i).id = l[i].id
               /\ t(i).when = IF l[i].id = id THEN r ELSE l[i].when
    <3>1. l[i] \in Timer /\ r \in Nat
      BY <1>2, TimersOf DEF NOMORE
    <3> QED BY <3>1 DEF Timer
  <2> HIDE DEF t
  <2>4. Len(l) \in Nat /\ DOMAIN l = 1..Len(l)
    BY TimersOf
  <2>5. timeEvents' \in Seq(Timer)
    <3>1. timeEvents' \in [1..Len(l) -> Timer]
      BY <2>1, <2>3, <2>4
    <3> QED BY <2>4, <3>1, FunctionIsSeq
  <2>6. DOMAIN timeEvents' = DOMAIN l /\ \A i \in DOMAIN l : timeEvents'[i] = t(i)
    BY <2>1
  <2>7. ASSUME Descends(l) PROVE Descends(timeEvents')
    BY <2>3, <2>6, <2>7 DEF Descends
  <2>8. \A j \in DOMAIN timeEvents' : /\ timeEvents'[j].id = l[j].id
                                      /\ timeEvents'[j].when = IF l[j].id = id THEN r ELSE l[j].when
    BY <2>3, <2>6
  <2>9. (\E i \in DOMAIN l : l[i].id = id) => (wild' => wild)
    BY <2>2
  <2> QED BY <1>2, <2>5, <2>6, <2>7, <2>8, <2>9
<1> QED BY <1>1, <1>2

(* The same, as far as the steps that only follow the ids need it. *)
LEMMA RearmTimer ==
    ASSUME NEW l \in Seq(Timer), Descends(l), NEW id \in Nat, NEW r \in Nat \union {NOMORE},
           Rearm(l, id, r), r # NOMORE => \E i \in DOMAIN l : l[i].id = id
    PROVE  /\ timeEvents' \in Seq(Timer) /\ Descends(timeEvents') /\ (wild' => wild)
           /\ \A j \in DOMAIN timeEvents' : \E i \in DOMAIN l :
                  /\ timeEvents'[j].id = l[i].id
                  /\ l[i].id # id => timeEvents'[j].when = l[i].when
BY RearmSets

----------------------------------------------------------------------------
(* A callback *)

(* The list a callback leaves to processedTimeEvent: l, with ids below n,  *)
(* and the event it was called for, unless it deleted that itself.         *)
Left(l, n, id, r) ==
    /\ l \in Seq(Timer) /\ Descends(l) /\ Below(l, n)
    /\ \A j \in DOMAIN l : l[j].id < timeEventNextId
          => \E i \in DOMAIN timeEvents : /\ l[j].id = timeEvents[i].id
                                         /\ l[j].when <= timeEvents[i].when
                                         /\ l[j].when >= timeEvents[i].when - Slow
    /\ r # NOMORE => \E i \in DOMAIN l : l[i].id = id

LEMMA DueTimer ==
    ASSUME TInv, Due # {}
    PROVE  /\ Least(Due) \in DOMAIN timeEvents
           /\ timeEvents[Least(Due)].id <= maxId /\ timeEvents[Least(Due)].when < 0
<1>1. Due \in SUBSET Nat
  BY TimersOf DEF Due, TInv
<1>2. \E i \in Due : \A j \in Due : i <= j
  <2> HIDE DEF Due
  <2> QED BY <1>1, NatMin
<1>3. Least(Due) \in Due
  BY <1>2 DEF Least
<1> QED BY <1>3 DEF Due

LEMMA LaterLeft ==
    ASSUME TInv, NEW d \in 0..Slow, NEW k \in DOMAIN timeEvents, NEW r
    PROVE  Left(Later(timeEvents, d), timeEventNextId, timeEvents[k].id, r)
<1> DEFINE l == Later(timeEvents, d)
<1>1. /\ l \in Seq(Timer) /\ DOMAIN l = DOMAIN timeEvents
      /\ \A i \in DOMAIN timeEvents : /\ l[i].id = timeEvents[i].id
                                      /\ l[i].when <= timeEvents[i].when
                                      /\ l[i].when >= timeEvents[i].when - Slow
  <2>1. d \in Nat /\ d <= Slow /\ Slow \in Nat
    BY LoopAssumption
  <2>2. /\ l \in Seq(Timer) /\ DOMAIN l = DOMAIN timeEvents
        /\ \A i \in DOMAIN timeEvents : /\ l[i].id = timeEvents[i].id
                                        /\ l[i].when <= timeEvents[i].when
                                        /\ l[i].when >= timeEvents[i].when - d
    BY <2>1, LaterTimers DEF TInv
  <2> HIDE DEF l
  <2>3. \A i \in DOMAIN timeEvents : timeEvents[i].when \in Int /\ l[i].when \in Int
    <3>1. \A t \in Timer : t.when \in Int
      BY DEF Timer
    <3> QED BY <2>2, <3>1, TimersOf DEF TInv
  <2> QED BY <2>1, <2>2, <2>3
<1> HIDE DEF l
<1>2. Descends(l) /\ Below(l, timeEventNextId)
  BY <1>1 DEF TInv, Descends, Below
<1>3. Left(l, timeEventNextId, timeEvents[k].id, r)
  BY <1>1, <1>2 DEF Left
<1> QED BY <1>3 DEF l

LEMMA CreatedLeft ==
    ASSUME TInv, NEW d \in 0..Slow, NEW k \in DOMAIN timeEvents, NEW r, NEW ms \in Nat
    PROVE  Left(Later(aeCreateTimeEvent(timeEvents, timeEventNextId, ms), d),
                timeEventNextId + 1, timeEvents[k].id, r)
<1> DEFINE m == aeCreateTimeEvent(timeEvents, timeEventNextId, ms)
           l == Later(m, d)
<1>1. /\ m \in Seq(Timer) /\ Descends(m) /\ Below(m, timeEventNextId + 1)
      /\ \A j \in DOMAIN m : m[j].id # timeEventNextId => \E i \in DOMAIN timeEvents : m[j] = timeEvents[i]
      /\ \A i \in DOMAIN timeEvents : \E j \in DOMAIN m : m[j] = timeEvents[i]
  BY CreateTimer DEF TInv
<1> HIDE DEF m
<1>2. /\ l \in Seq(Timer) /\ DOMAIN l = DOMAIN m
      /\ \A i \in DOMAIN m : /\ l[i].id = m[i].id
                             /\ l[i].when <= m[i].when /\ l[i].when >= m[i].when - d
  <2>1. d \in Nat
    BY LoopAssumption
  <2> QED BY <1>1, <2>1, LaterTimers
<1> HIDE DEF l
<1>3. Descends(l) /\ Below(l, timeEventNextId + 1)
  BY <1>1, <1>2 DEF Descends, Below
<1>4. ASSUME NEW j \in DOMAIN l, l[j].id < timeEventNextId
      PROVE  \E i \in DOMAIN timeEvents : /\ l[j].id = timeEvents[i].id
                                          /\ l[j].when <= timeEvents[i].when
                                          /\ l[j].when >= timeEvents[i].when - Slow
  <2>1. m[j].id # timeEventNextId
    BY <1>2, <1>4 DEF TInv
  <2>2. PICK i \in DOMAIN timeEvents : m[j] = timeEvents[i]
    BY <1>1, <1>2, <2>1
  <2>3. m[j].when \in Int /\ l[j].when \in Int /\ d \in Nat /\ Slow \in Nat /\ d <= Slow
    <3>1. \A t \in Timer : t.when \in Int
      BY DEF Timer
    <3> QED BY <1>1, <1>2, <3>1, TimersOf, LoopAssumption
  <2>4. l[j].when >= m[j].when - Slow
    BY <1>2, <2>3
  <2> QED BY <1>2, <2>2, <2>4
<1>5. \E i \in DOMAIN l : l[i].id = timeEvents[k].id
  BY <1>1, <1>2
<1>6. Left(l, timeEventNextId + 1, timeEvents[k].id, r)
  BY <1>2, <1>3, <1>4, <1>5 DEF Left
<1> QED BY <1>6 DEF l, m

LEMMA DeletedLeft ==
    ASSUME TInv, NEW d \in 0..Slow, NEW k \in DOMAIN timeEvents, NEW r,
           NEW x \in DOMAIN timeEvents,
           timeEvents[x].id = timeEvents[k].id => r = NOMORE
    PROVE  Left(aeDeleteTimeEvent(Later(timeEvents, d), timeEvents[x].id),
                timeEventNextId, timeEvents[k].id, r)
<1> DEFINE m == Later(timeEvents, d)
           l == aeDeleteTimeEvent(m, timeEvents[x].id)
<1>1. Left(m, timeEventNextId, timeEvents[k].id, 0)
  BY LaterLeft
<1>2. timeEvents[x].id \in Nat
  BY TimersOf DEF TInv
<1> HIDE DEF m
<1>3. /\ l \in Seq(Timer)
      /\ \A j \in DOMAIN l : \E i \in DOMAIN m : l[j] = m[i]
      /\ \A i \in DOMAIN m : m[i].id # timeEvents[x].id => \E j \in DOMAIN l : l[j] = m[i]
      /\ Descends(m) => Descends(l)
  BY <1>1, <1>2, DeleteTimer DEF Left
<1> HIDE DEF l
<1>4. Descends(l) /\ Below(l, timeEventNextId)
  BY <1>1, <1>3 DEF Left, Below
<1>5. ASSUME r # NOMORE PROVE \E i \in DOMAIN l : l[i].id = timeEvents[k].id
  <2>1. timeEvents[x].id # timeEvents[k].id /\ 0 # NOMORE
    BY <1>5 DEF NOMORE
  <2>2. \E i \in DOMAIN m : m[i].id = timeEvents[k].id
    BY <1>1, <2>1 DEF Left
  <2> QED BY <1>3, <2>1, <2>2
<1>6. Left(l, timeEventNextId, timeEvents[k].id, r)
  BY <1>1, <1>3, <1>4, <1>5, SMTT(30) DEF Left
<1> QED BY <1>6 DEF l, m

(* TimeCall rearms or deletes the event it was called for in a list that a *)
(* callback left.                                                          *)
LEMMA TimeCallLeaves ==
    ASSUME TInv, NEW d \in 0..Slow, TimeCall(d)
    PROVE  \E l, r : LET id == timeEvents[Least(Due)].id
                    IN  /\ Left(l, timeEventNextId', id, r)
                        /\ r \in Nat \union {NOMORE} /\ r \in Delays \union {NOMORE}
                        /\ Rearm(l, id, r)
<1>1. Due # {} /\ d \in Nat
  BY LoopAssumption DEF TimeCall
<1> DEFINE k == Least(Due)
           id == timeEvents[k].id
           l == Later(timeEvents, d)
<1>2. k \in DOMAIN timeEvents
  BY <1>1, DueTimer
<1>3. PICK r \in Delays \union {NOMORE} :
       \/ /\ Callback(Fds, {})
          /\ Rearm(l, id, r)
          /\ UNCHANGED timeEventNextId
       \/ \E ms \in NewDelays :
          /\ timeEventNextId < MaxTimers
          /\ Rearm(Later(aeCreateTimeEvent(timeEvents, timeEventNextId, ms), d), id, r)
          /\ timeEventNextId' = timeEventNextId + 1
          /\ UNCHANGED <<fileEvents, open>>
       \/ \E i \in DOMAIN timeEvents :
          /\ timeEvents[i].id = id => r = NOMORE
          /\ Rearm(aeDeleteTimeEvent(l, timeEvents[i].id), id, r)
          /\ UNCHANGED <<timeEventNextId, fileEvents, open>>
  BY DEF TimeCall
<1> HIDE DEF k, l
<1>4. r \in Nat \union {NOMORE}
  BY LoopAssumption
<1>5. ASSUME NEW ms \in NewDelays,
             Rearm(Later(aeCreateTimeEvent(timeEvents, timeEventNextId, ms), d), id, r),
             timeEventNextId' = timeEventNextId + 1
      PROVE  \E m : Left(m, timeEventNextId', id, r) /\ Rearm(m, id, r)
  <2>1. ms \in Nat
    BY LoopAssumption
  <2>2. Left(Later(aeCreateTimeEvent(timeEvents, timeEventNextId, ms), d),
             timeEventNextId', id, r)
    BY <1>1, <1>2, <1>5, <2>1, CreatedLeft
  <2> QED BY <1>5, <2>2
<1>6. ASSUME NEW i \in DOMAIN timeEvents, timeEvents[i].id = id => r = NOMORE,
             Rearm(aeDeleteTimeEvent(l, timeEvents[i].id), id, r),
             UNCHANGED timeEventNextId
      PROVE  \E m : Left(m, timeEventNextId', id, r) /\ Rearm(m, id, r)
  <2>1. Left(aeDeleteTimeEvent(l, timeEvents[i].id), timeEventNextId', id, r)
    BY <1>1, <1>2, <1>6, DeletedLeft DEF l
  <2> QED BY <1>6, <2>1
<1>7. \E m : Left(m, timeEventNextId', id, r) /\ Rearm(m, id, r)
  <2>1. CASE Rearm(l, id, r) /\ UNCHANGED timeEventNextId
    <3>1. Left(l, timeEventNextId', id, r)
      BY <1>1, <1>2, <2>1, LaterLeft DEF l
    <3> QED BY <2>1, <3>1
  <2> QED BY <1>3, <1>5, <1>6, <2>1
<1> QED BY <1>4, <1>7 DEF k

LEMMA TimeCallKeeps ==
    ASSUME TInv, ~wild, NEW d \in 0..Slow, TimeCall(d)
    PROVE  TInv' /\ ~wild'
<1> DEFINE id == timeEvents[Least(Due)].id
<1>1. PICK l, r : /\ Left(l, timeEventNextId', id, r)
                  /\ r \in Nat \union {NOMORE}
                  /\ Rearm(l, id, r)
  BY TimeCallLeaves
<1>2. id \in Nat
  <2>1. Least(Due) \in DOMAIN timeEvents
    BY DueTimer DEF TimeCall
  <2> QED BY <2>1, TimersOf DEF TInv
<1> HIDE DEF id
<1>3. /\ timeEvents' \in Seq(Timer) /\ Descends(timeEvents')
      /\ \A j \in DOMAIN timeEvents' : \E i \in DOMAIN l : timeEvents'[j].id = l[i].id
      /\ wild' => wild
  <2>1. l \in Seq(Timer) /\ Descends(l) /\ (r # NOMORE => \E i \in DOMAIN l : l[i].id = id)
    BY <1>1 DEF Left
  <2> QED BY <1>1, <1>2, <2>1, RearmTimer
<1>4. Below(timeEvents, timeEventNextId)'
  BY <1>1, <1>3 DEF Left, Below
<1>5. timeEventNextId' \in Nat /\ maxId' \in Int
  BY DEF TimeCall, TInv
<1> QED BY <1>3, <1>4, <1>5 DEF TInv, Descends

LEMMA LaterKeeps ==
    ASSUME TInv, ~wild, NEW d \in Nat, timeEvents' = Later(timeEvents, d),
           UNCHANGED <<timeEventNextId, wild>>, maxId' \in {maxId, timeEventNextId - 1}
    PROVE  TInv' /\ ~wild'
<1>1. /\ timeEvents' \in Seq(Timer) /\ DOMAIN timeEvents' = DOMAIN timeEvents
      /\ \A i \in DOMAIN timeEvents : timeEvents'[i].id = timeEvents[i].id
  BY LaterTimers DEF TInv
<1> QED BY <1>1 DEF TInv, Descends, Below

LEMMA UnchangedKeeps ==
    ASSUME TInv, ~wild, UNCHANGED <<timeEvents, timeEventNextId, wild>>,
           maxId' \in {maxId, timeEventNextId - 1}
    PROVE  TInv' /\ ~wild'
BY DEF TInv, Descends, Below

(* The other steps of a turn let time pass, or do not touch the list.      *)
LEMMA OtherSteps ==
    ASSUME [Next]_vars, \A d \in 0..Slow : ~TimeCall(d)
    PROVE  /\ UNCHANGED <<timeEventNextId, wild>>
           /\ maxId' \in {maxId, timeEventNextId - 1}
           /\ UNCHANGED timeEvents \/ \E d \in Nat : timeEvents' = Later(timeEvents, d)
<1>1. ASSUME NEW f \in FlagSets, NEW d \in {0, 1}, Begin(f, d)
      PROVE  /\ timeEvents' = Later(timeEvents, d) /\ UNCHANGED <<timeEventNextId, wild>>
             /\ maxId' \in {maxId, timeEventNextId - 1}
  BY <1>1 DEF Begin, ToTimers
<1>2. ASSUME NEW d \in {0, 1}, SelectTimeout(d)
      PROVE  /\ timeEvents' = Later(timeEvents, d) /\ UNCHANGED <<timeEventNextId, wild>>
             /\ maxId' \in {maxId, timeEventNextId - 1}
  BY <1>2 DEF SelectTimeout, ToTimers
<1>3. ASSUME NEW d \in 0..Slow, FileCall(d)
      PROVE  timeEvents' = Later(timeEvents, d) /\ UNCHANGED <<timeEventNextId, wild, maxId>>
  BY <1>3 DEF FileCall
<1>4. CASE SelectReady \/ FilesDone \/ TimersDone \/ BecomeReady \/ UNCHANGED vars
  BY <1>4 DEF SelectReady, FilesDone, TimersDone, BecomeReady, ToTimers, vars, loop
<1>5. CASE Wait
  BY <1>5 DEF Wait
<1>6. {0, 1} \subseteq Nat /\ 0..Slow \subseteq Nat
  BY LoopAssumption
<1>7. CASE Turn
  BY <1>1, <1>2, <1>3, <1>4, <1>6, <1>7 DEF Turn
<1> QED BY <1>4, <1>5, <1>7 DEF Next

LEMMA NextTInv == TInv /\ ~wild /\ [Next]_vars => TInv' /\ ~wild'
<1> SUFFICES ASSUME TInv, ~wild, [Next]_vars PROVE TInv' /\ ~wild'
  OBVIOUS
<1>1. CASE \E d \in 0..Slow : TimeCall(d)
  BY <1>1, TimeCallKeeps
<1>2. CASE \A d \in 0..Slow : ~TimeCall(d)
  BY <1>2, OtherSteps, LaterKeeps, UnchangedKeeps
<1> QED BY <1>1, <1>2

LEMMA InitTInv == Init => TInv /\ ~wild
<1> SUFFICES ASSUME Init PROVE TInv
  BY DEF Init
<1>1. PICK ms \in NewDelays : timeEvents = aeCreateTimeEvent(<<>>, 0, ms)
  BY DEF Init
<1>2. <<>> \in Seq(Timer) /\ Descends(<<>>) /\ Below(<<>>, 0)
  BY DEF Descends, Below
<1>3. ms \in Nat
  BY LoopAssumption
<1>4. /\ timeEvents \in Seq(Timer) /\ Descends(timeEvents) /\ Below(timeEvents, 0 + 1)
  BY <1>1, <1>2, <1>3, CreateTimer
<1> QED BY <1>4 DEF Init, TInv

----------------------------------------------------------------------------
(* The theorems *)

(* The list of time events stays well formed under every callback.         *)
THEOREM TimersInvariance == Spec => [](TInv /\ ~wild)
BY InitTInv, NextTInv, PTL DEF Spec

(* No freed time event is written to, whatever callbacks delete.           *)
THEOREM NoWriteToFreed == Spec => []NoFreedTimer
<1>1. ~wild => NoFreedTimer
  BY DEF NoFreedTimer
<1> QED BY <1>1, TimersInvariance, PTL

(* Ids stay unique and in order, so maxId tells the pass from what it      *)
(* created.                                                                *)
THEOREM IdsInOrder == Spec => []IdsDescend
<1>1. TInv => IdsDescend
  BY DEF TInv, IdsDescend, Descends, Below
<1> QED BY <1>1, TimersInvariance, PTL

(* A timer that a callback created is not called in the same pass, for     *)
(* every delay and however long callbacks take.                            *)
THEOREM NewTimersAreLeft == Spec => NewTimersWait
<1> DEFINE A == phase = "timers" /\ Due # {} /\ phase' = "timers"
                => \A i \in DOMAIN timeEvents :
                     timeEvents[i].id > maxId
                     => \A j \in DOMAIN timeEvents' :
                          timeEvents'[j].id = timeEvents[i].id
                          => timeEvents'[j].when <= timeEvents[i].when
<1>1. TInv /\ [Next]_vars => A
  <2> SUFFICES ASSUME TInv, [Next]_vars, phase = "timers", Due # {}, phase' = "timers",
                      NEW i \in DOMAIN timeEvents, timeEvents[i].id > maxId,
                      NEW j \in DOMAIN timeEvents', timeEvents'[j].id = timeEvents[i].id
               PROVE  timeEvents'[j].when <= timeEvents[i].when
    OBVIOUS
  <2>1. timeEvents[i].id < timeEventNextId
    BY DEF TInv, Below
  <2>2. ASSUME NEW k \in DOMAIN timeEvents, timeEvents[k].id = timeEvents[i].id PROVE k = i
    <3>1. k \in Nat /\ i \in Nat /\ timeEvents[k].id \in Nat
      BY TimersOf DEF TInv
    <3>2. ~(k < i) /\ ~(i < k)
      BY <2>2, <3>1 DEF TInv, Descends
    <3> QED BY <3>1, <3>2
  <2>3. CASE \E d \in 0..Slow : TimeCall(d)
    <3> DEFINE id == timeEvents[Least(Due)].id
    <3>1. PICK l, r : /\ Left(l, timeEventNextId', id, r)
                      /\ r \in Nat \union {NOMORE}
                      /\ Rearm(l, id, r)
      BY <2>3, TimeCallLeaves
    <3>2. id \in Nat /\ id <= maxId
      BY DueTimer, TimersOf DEF TInv
    <3> HIDE DEF id
    <3>3. PICK a \in DOMAIN l :
            /\ timeEvents'[j].id = l[a].id
            /\ l[a].id # id => timeEvents'[j].when = l[a].when
      <4>1. l \in Seq(Timer) /\ Descends(l) /\ (r # NOMORE => \E x \in DOMAIN l : l[x].id = id)
        BY <3>1 DEF Left
      <4>2. \A y \in DOMAIN timeEvents' : \E a \in DOMAIN l :
              /\ timeEvents'[y].id = l[a].id
              /\ l[a].id # id => timeEvents'[y].when = l[a].when
        BY <3>1, <3>2, <4>1, RearmTimer
      <4> QED BY <4>2
    <3>4. l[a].id = timeEvents[i].id /\ l[a].id # id /\ timeEvents'[j].when = l[a].when
      <4>1. timeEvents[i].id \in Nat /\ maxId \in Int
        BY TimersOf DEF TInv
      <4> QED BY <3>2, <3>3, <4>1
    <3>5. PICK b \in DOMAIN timeEvents : /\ l[a].id = timeEvents[b].id
                                        /\ l[a].when <= timeEvents[b].when
      BY <2>1, <3>1, <3>4 DEF Left
    <3> QED BY <2>2, <3>4, <3>5
  <2>4. CASE \A d \in 0..Slow : ~TimeCall(d)
    <3>1. CASE UNCHANGED timeEvents
      <4>1. timeEvents[i] \in Timer /\ j = i
        BY <2>2, <3>1, TimersOf DEF TInv
      <4>2. timeEvents[i].when \in Int
        BY <4>1 DEF Timer
      <4> QED BY <3>1, <4>1, <4>2
    <3>2. CASE \E d \in Nat : timeEvents' = Later(timeEvents, d)
      <4>1. /\ DOMAIN timeEvents' = DOMAIN timeEvents
            /\ \A k \in DOMAIN timeEvents : /\ timeEvents'[k].id = timeEvents[k].id
                                            /\ timeEvents'[k].when <= timeEvents[k].when
        BY <3>2, LaterTimers, ZenonT(60) DEF TInv
      <4> QED BY <2>2, <4>1
    <3> QED BY <2>4, <3>1, <3>2, OtherSteps
  <2> QED BY <2>3, <2>4
<1>2. TInv /\ [Next]_vars => [A]_vars
  BY <1>1
<1> QED BY <1>2, TimersInvariance, PTL DEF Spec, NewTimersWait

----------------------------------------------------------------------------
(* The bits of select *)

SInv == /\ ready \subseteq open \X Kinds
        /\ set \subseteq ready
        /\ phase # "files" => set = {}

(* What a callback on fd closes and uses up has its bits cleared.          *)
LEMMA FileCallKeeps == ASSUME SInv, NEW d, FileCall(d) PROVE SInv'
<1>1. PICK fd : Callback({fd}, {fd}) /\ Consume({fd}) /\ set' = FdClear(fd)
  BY DEF FileCall
<1>2. open \ {fd} \subseteq open'
  BY <1>1 DEF Callback
<1>3. PICK used \in SUBSET ({fd} \X Kinds) :
        ready' = {p \in ready \ used : p[1] \in open \intersect open'}
  BY <1>1 DEF Consume
<1>4. ready' \subseteq open' \X Kinds
  BY <1>3 DEF SInv
<1>5. set' \subseteq ready'
  <2> SUFFICES ASSUME NEW p \in set' PROVE p \in ready'
    OBVIOUS
  <2>1. p \in set /\ p[1] # fd
    BY <1>1 DEF FdClear
  <2>2. p \in ready /\ p[1] \in open
    BY <2>1 DEF SInv
  <2>3. p \notin used
    BY <2>1, <1>3
  <2> QED BY <1>2, <1>3, <2>1, <2>2, <2>3
<1> QED BY <1>4, <1>5 DEF SInv, FileCall

LEMMA NextSInv == SInv /\ [Next]_vars => SInv'
<1> SUFFICES ASSUME SInv, [Next]_vars PROVE SInv'
  OBVIOUS
<1>1. ASSUME NEW f \in FlagSets, NEW d \in {0, 1}, Begin(f, d) PROVE SInv'
  BY <1>1 DEF SInv, Begin, ToTimers
<1>2. CASE SelectReady
  BY <1>2 DEF SInv, SelectReady
<1>3. ASSUME NEW d \in {0, 1}, SelectTimeout(d) PROVE SInv'
  BY <1>3 DEF SInv, SelectTimeout, ToTimers
<1>4. ASSUME NEW d \in 0..Slow, FileCall(d) PROVE SInv'
  BY <1>4, FileCallKeeps
<1>5. CASE FilesDone \/ TimersDone \/ Wait \/ UNCHANGED vars
  BY <1>5 DEF SInv, FilesDone, TimersDone, Wait, ToTimers, vars, loop
<1>6. ASSUME NEW d \in 0..Slow, TimeCall(d) PROVE SInv'
  <2>1. set = {} /\ set' = {} /\ phase' = "timers"
    BY <1>6 DEF SInv, TimeCall
  <2>2. ready' \subseteq open' \X Kinds
    BY <1>6 DEF SInv, TimeCall, Consume
  <2> QED BY <2>1, <2>2 DEF SInv
<1>7. CASE BecomeReady
  <2>1. PICK p \in open \X Kinds : ready' = ready \union {p}
    BY <1>7 DEF BecomeReady
  <2> QED BY <1>7, <2>1 DEF SInv, BecomeReady
<1> QED BY <1>1, <1>2, <1>3, <1>4, <1>5, <1>6, <1>7 DEF Next, Turn

(* The handler that is called finds its descriptor ready, whatever was     *)
(* closed and opened under the same number since select returned.          *)
THEOREM HandlersFindReady == Spec => []NoStaleReadiness
<1>1. Init => SInv
  BY DEF Init, SInv
<1>2. SInv => NoStaleReadiness
  BY DEF SInv, NoStaleReadiness, Hits, Hit
<1> QED BY <1>1, <1>2, NextSInv, PTL DEF Spec

----------------------------------------------------------------------------
(* The list of file events *)

Watch == [fd : Fds, mask : SUBSET Kinds, data : Data]

WInv == fileEvents \in Seq(Watch) /\ WatchedAreOpen

LEMMA NthMember ==
    ASSUME NEW b \in Nat, NEW S \in SUBSET (0..b), NEW n \in 1..Cardinality(S)
    PROVE  Nth(S, n) \in S
<1> DEFINE Upto(i) == {j \in S : j <= i}
           B == {i \in S : n <= Cardinality(Upto(i))}
<1>1. IsFiniteSet(S) /\ S \in SUBSET Nat
  <2>1. IsFiniteSet(0..b) /\ 0..b \subseteq Nat
    BY FS_Interval
  <2>2. IsFiniteSet(S)
    BY <2>1, FS_Subset
  <2> QED BY <2>1, <2>2
<1>2. \A T \in SUBSET S : IsFiniteSet(T) /\ Cardinality(T) \in Nat
  BY <1>1, FS_Subset, FS_CardinalityType
<1>3. \A T \in SUBSET S : T # {} => \E x \in T : \A y \in T : x >= y
  BY NatMax
<1>4. n \in Nat /\ n >= 1 /\ n <= Cardinality(S)
  BY <1>2
<1>5. B # {}
  <2>1. S # {}
    BY <1>4, FS_EmptySet
  <2>2. PICK m \in S : \A y \in S : m >= y
    BY <1>3, <2>1
  <2>3. Upto(m) = S
    BY <1>1, <2>2
  <2> HIDE DEF Upto
  <2> QED BY <1>4, <2>2, <2>3
<1>6. PICK i \in B : \A y \in B : i <= y
  <2>1. B \in SUBSET Nat
    BY <1>1
  <2> HIDE DEF B
  <2> QED BY <1>5, <2>1, NatMin
<1>7. Cardinality(Upto(i)) = n
  <2> SUFFICES ASSUME Cardinality(Upto(i)) # n PROVE FALSE
    OBVIOUS
  <2> DEFINE D == Upto(i) \ {i}
  <2>1. Upto(i) \in SUBSET S /\ D \in SUBSET S /\ i \in Upto(i) /\ i \in Nat
    BY <1>1
  <2>2. Cardinality(D) = Cardinality(Upto(i)) - 1
    <3>1. IsFiniteSet(Upto(i)) /\ i \in Upto(i)
      BY <1>2, <2>1
    <3> HIDE DEF Upto
    <3> QED BY <3>1, FS_RemoveElement
  <2>3. n <= Cardinality(D)
    <3>1. n <= Cardinality(Upto(i)) /\ Cardinality(Upto(i)) \in Nat
      BY <1>2, <2>1
    <3> HIDE DEF Upto, D
    <3> QED BY <1>4, <2>2, <3>1
  <2>4. D # {}
    <3> HIDE DEF D
    <3> QED BY <1>4, <2>3, FS_EmptySet
  <2>5. PICK k \in D : \A y \in D : k >= y
    <3> HIDE DEF D
    <3> QED BY <1>3, <2>1, <2>4
  <2>6. k \in S /\ k < i
    BY <1>1
  <2>7. Upto(k) = D
    <3>1. \A j \in S : j \in Nat
      BY <1>1
    <3>2. \A j \in S : j <= k => j <= i /\ j # i
      BY <2>1, <2>6, <3>1
    <3>3. \A j \in S : j <= i /\ j # i => j <= k
      BY <2>5
    <3> QED BY <3>2, <3>3
  <2>8. k \in B
    <3> HIDE DEF Upto, D
    <3> QED BY <2>3, <2>6, <2>7
  <2>9. i <= k
    BY <1>6, <2>8
  <2> QED BY <1>1, <2>6, <2>9
<1>8. i \in S /\ Cardinality({j \in S : j <= i}) = n
  BY <1>7
<1> QED BY <1>8 DEF Nth

(* What stays are events that were there, on other descriptors. *)
LEMMA OthersStay ==
    ASSUME NEW l \in Seq(Watch), NEW fds
    PROVE  /\ Others(l, fds) \in Seq(Watch)
           /\ \A j \in DOMAIN Others(l, fds) : \E i \in DOMAIN l :
                Others(l, fds)[j] = l[i] /\ l[i].fd \notin fds
<1> DEFINE stay == {i \in DOMAIN l : l[i].fd \notin fds}
           c == Cardinality(stay)
           m == [n \in 1..c |-> l[Nth(stay, n)]]
<1>1. Len(l) \in Nat /\ DOMAIN l = 1..Len(l) /\ \A i \in DOMAIN l : l[i] \in Watch
  BY LenProperties, ElementOfSeq
<1>2. stay \in SUBSET (0..Len(l))
  BY <1>1
<1>3. c \in Nat
  <2>1. IsFiniteSet(0..Len(l))
    BY <1>1, FS_Interval
  <2> HIDE DEF stay
  <2> QED BY <1>2, <2>1, FS_Subset, FS_CardinalityType
<1>4. \A n \in 1..c : Nth(stay, n) \in stay
  <2> HIDE DEF stay
  <2> QED BY <1>1, <1>2, NthMember
<1>5. \A i \in stay : i \in DOMAIN l /\ l[i].fd \notin fds
  OBVIOUS
<1>6. Others(l, fds) = m
  BY DEF Others
<1> HIDE DEF stay, c
<1>7. m \in Seq(Watch)
  <2>1. m \in [1..c -> Watch]
    BY <1>1, <1>4, <1>5
  <2> HIDE DEF m
  <2> QED BY <1>3, <2>1, FunctionIsSeq
<1>8. \A j \in DOMAIN m : m[j] = l[Nth(stay, j)] /\ Nth(stay, j) \in stay
  BY <1>4
<1> HIDE DEF m
<1> QED BY <1>5, <1>6, <1>7, <1>8

LEMMA DeletedStay ==
    ASSUME NEW l \in Seq(Watch), NEW fd, NEW mask
    PROVE  LET m == aeDeleteFileEvent(l, fd, mask)
           IN  /\ m \in Seq(Watch)
               /\ \A j \in DOMAIN m : \E i \in DOMAIN l : m[j] = l[i]
<1> DEFINE same == {i \in DOMAIN l : l[i].fd = fd /\ l[i].mask = mask}
           m == aeDeleteFileEvent(l, fd, mask)
<1>1. Len(l) \in Nat /\ DOMAIN l = 1..Len(l)
  BY LenProperties
<1>2. CASE same = {}
  BY <1>2 DEF aeDeleteFileEvent
<1>3. CASE same # {}
  <2>1. same \in SUBSET Nat /\ same \subseteq 1..Len(l)
    BY <1>1
  <2>2. m = Without(l, Least(same))
    BY <1>3 DEF aeDeleteFileEvent
  <2> HIDE DEF same, m
  <2>3. \E i \in same : \A j \in same : i <= j
    BY <1>3, <2>1, NatMin
  <2>4. Least(same) \in 1..Len(l)
    BY <2>1, <2>3 DEF Least
  <2> DEFINE k == Least(same)
  <2> HIDE DEF k
  <2>5. /\ m \in Seq(Watch) /\ Len(m) = Len(l) - 1 /\ k \in 1..Len(l)
        /\ \A j \in 1..(Len(l) - 1) : m[j] = l[IF j < k THEN j ELSE j + 1]
    BY <2>2, <2>4, WithoutOne DEF k
  <2>6. DOMAIN m = 1..(Len(l) - 1)
    BY <2>5, LenProperties
  <2>7. \A j \in DOMAIN m : (IF j < k THEN j ELSE j + 1) \in DOMAIN l
    BY <1>1, <2>5, <2>6
  <2>8. \A j \in DOMAIN m : \E i \in DOMAIN l : m[j] = l[i]
    BY <2>5, <2>6, <2>7
  <2> QED BY <2>5, <2>8 DEF m
<1> QED BY <1>2, <1>3

LEMMA CreatedStay ==
    ASSUME NEW l \in Seq(Watch), NEW fd \in Fds, NEW kind \in Kinds, NEW data \in Data
    PROVE  LET m == aeCreateFileEvent(l, fd, {kind}, data)
           IN  /\ m \in Seq(Watch)
               /\ \A j \in DOMAIN m : m[j].fd = fd \/ \E i \in DOMAIN l : m[j] = l[i]
<1> DEFINE e == [fd |-> fd, mask |-> {kind}, data |-> data]
           m == <<e>> \o l
<1>1. Len(l) \in Nat /\ DOMAIN l = 1..Len(l)
  BY LenProperties
<1>2. e \in Watch /\ e.fd = fd
  BY DEF Watch
<1> HIDE DEF e
<1>3. <<e>> \in Seq(Watch) /\ Len(<<e>>) = 1 /\ <<e>>[1] = e
  BY <1>2
<1>4. /\ m \in Seq(Watch) /\ Len(m) = 1 + Len(l)
      /\ \A j \in 1..(1 + Len(l)) : m[j] = IF j <= 1 THEN <<e>>[j] ELSE l[j - 1]
  <2>1. /\ <<e>> \o l \in Seq(Watch) /\ Len(<<e>> \o l) = Len(<<e>>) + Len(l)
        /\ \A j \in 1..(Len(<<e>>) + Len(l)) :
             (<<e>> \o l)[j] = IF j <= Len(<<e>>) THEN <<e>>[j] ELSE l[j - Len(<<e>>)]
    BY <1>3, ConcatProperties
  <2> QED BY <1>3, <2>1
<1>5. m = aeCreateFileEvent(l, fd, {kind}, data)
  BY DEF aeCreateFileEvent, e
<1> HIDE DEF m
<1>6. DOMAIN m = 1..(1 + Len(l))
  BY <1>4, LenProperties
<1>7. ASSUME NEW j \in DOMAIN m PROVE m[j].fd = fd \/ \E i \in DOMAIN l : m[j] = l[i]
  <2>1. CASE j = 1
    BY <1>1, <1>2, <1>3, <1>4, <1>6, <2>1
  <2>2. CASE j # 1
    <3>1. j \in 1..(1 + Len(l)) /\ ~(j <= 1) /\ j - 1 \in DOMAIN l
      BY <1>1, <1>6, <2>2
    <3> QED BY <1>4, <3>1
  <2> QED BY <2>1, <2>2
<1> QED BY <1>4, <1>5, <1>7

(* The contract of a callback: no event is left on what it closed. *)
LEMMA CallbackKeeps ==
    ASSUME WInv, NEW closable, NEW mine \in SUBSET Fds, Callback(closable, mine)
    PROVE  WInv'
<1>1. fileEvents \in Seq(Watch) /\ \A i \in DOMAIN fileEvents : fileEvents[i].fd \in open
  BY DEF WInv, WatchedAreOpen
<1>2. PICK gone \in SUBSET (closable \intersect open) :
      LET kept  == Others(fileEvents, gone)
          fresh == Fds \ (open \ gone)
      IN  \/ fileEvents' = kept /\ open' = open \ gone
          \/ \E fd \in fresh \union mine, kind \in Kinds, data \in Data :
             /\ \A i \in DOMAIN kept : <<kept[i].fd, kept[i].mask>> # <<fd, {kind}>>
             /\ Len(kept) < MaxEvents
             /\ fileEvents' = aeCreateFileEvent(kept, fd, {kind}, data)
             /\ open' = (open \ gone) \union {fd}
          \/ \E w \in Watched :
             /\ gone = {} /\ w[1] \in mine
             /\ fileEvents' = aeDeleteFileEvent(fileEvents, w[1], {w[2]})
             /\ open' = open
  BY DEF Callback
<1> DEFINE kept == Others(fileEvents, gone)
<1>3. kept \in Seq(Watch) /\ \A j \in DOMAIN kept : kept[j].fd \in open \ gone
  <2>1. /\ kept \in Seq(Watch)
        /\ \A j \in DOMAIN kept : \E i \in DOMAIN fileEvents :
             kept[j] = fileEvents[i] /\ fileEvents[i].fd \notin gone
    BY <1>1, OthersStay
  <2> HIDE DEF kept
  <2> QED BY <1>1, <2>1
<1> HIDE DEF kept
<1>4. CASE fileEvents' = kept /\ open' = open \ gone
  BY <1>3, <1>4 DEF WInv, WatchedAreOpen
<1>5. ASSUME NEW fd \in (Fds \ (open \ gone)) \union mine, NEW kind \in Kinds, NEW data \in Data,
             fileEvents' = aeCreateFileEvent(kept, fd, {kind}, data),
             open' = (open \ gone) \union {fd}
      PROVE  WInv'
  <2> DEFINE m == aeCreateFileEvent(kept, fd, {kind}, data)
  <2>1. fd \in Fds
    OBVIOUS
  <2>2. /\ m \in Seq(Watch)
        /\ \A j \in DOMAIN m : m[j].fd = fd \/ \E i \in DOMAIN kept : m[j] = kept[i]
    BY <1>3, <2>1, CreatedStay
  <2>3. fileEvents' = m
    BY <1>5
  <2> HIDE DEF m
  <2>4. \A j \in DOMAIN m : m[j].fd \in open'
    BY <1>3, <1>5, <2>2
  <2> QED BY <2>2, <2>3, <2>4 DEF WInv, WatchedAreOpen
<1>6. ASSUME NEW w \in Watched, fileEvents' = aeDeleteFileEvent(fileEvents, w[1], {w[2]}),
             open' = open
      PROVE  WInv'
  <2> DEFINE m == aeDeleteFileEvent(fileEvents, w[1], {w[2]})
  <2>1. /\ m \in Seq(Watch)
        /\ \A j \in DOMAIN m : \E i \in DOMAIN fileEvents : m[j] = fileEvents[i]
    <3> DEFINE fd == w[1]
               mask == {w[2]}
    <3>1. m = aeDeleteFileEvent(fileEvents, fd, mask)
      OBVIOUS
    <3> HIDE DEF m, fd, mask
    <3> QED BY <1>1, <3>1, DeletedStay
  <2>2. fileEvents' = m
    BY <1>6
  <2> HIDE DEF m
  <2> QED BY <1>1, <1>6, <2>1, <2>2 DEF WInv, WatchedAreOpen
<1>7. \/ fileEvents' = kept /\ open' = open \ gone
      \/ \E fd \in (Fds \ (open \ gone)) \union mine, kind \in Kinds, data \in Data :
           /\ fileEvents' = aeCreateFileEvent(kept, fd, {kind}, data)
           /\ open' = (open \ gone) \union {fd}
      \/ \E w \in Watched : /\ fileEvents' = aeDeleteFileEvent(fileEvents, w[1], {w[2]})
                            /\ open' = open
  BY <1>2, Zenon DEF kept
<1> QED BY <1>4, <1>5, <1>6, <1>7

LEMMA NextWInv == WInv /\ [Next]_vars => WInv'
<1> SUFFICES ASSUME WInv, [Next]_vars PROVE WInv'
  OBVIOUS
<1>1. CASE UNCHANGED <<fileEvents, open>>
  BY <1>1 DEF WInv, WatchedAreOpen
<1>2. ASSUME NEW d \in 0..Slow, FileCall(d) PROVE WInv'
  <2> DEFINE fd == fileEvents[Least(Hits)].fd
  <2>1. Hits # {} /\ Callback({fd}, {fd})
    BY <1>2 DEF FileCall
  <2>2. Least(Hits) \in DOMAIN fileEvents
    <3>1. Hits \in SUBSET Nat
      BY LenProperties DEF Hits, WInv
    <3>2. \E i \in Hits : \A j \in Hits : i <= j
      BY <2>1, <3>1, NatMin
    <3> QED BY <3>2 DEF Least, Hits
  <2>3. fd \in Fds
    <3>1. fileEvents[Least(Hits)] \in Watch
      BY <2>2, LenProperties, ElementOfSeq DEF WInv
    <3> QED BY <3>1 DEF Watch
  <2> HIDE DEF fd
  <2> QED BY <2>1, <2>3, CallbackKeeps
<1>3. ASSUME NEW d \in 0..Slow, TimeCall(d) PROVE WInv'
  <2>1. Callback(Fds, {}) \/ UNCHANGED <<fileEvents, open>>
    BY <1>3 DEF TimeCall
  <2> QED BY <1>1, <2>1, CallbackKeeps
<1>4. ASSUME \/ \E f \in FlagSets, d \in {0, 1} : Begin(f, d)
             \/ \E d \in {0, 1} : SelectTimeout(d)
             \/ SelectReady \/ FilesDone \/ TimersDone \/ Wait \/ BecomeReady
             \/ UNCHANGED vars
      PROVE  UNCHANGED <<fileEvents, open>>
  BY <1>4 DEF Begin, SelectTimeout, SelectReady, FilesDone, TimersDone, Wait, BecomeReady, vars, loop
<1> QED BY <1>1, <1>2, <1>3, <1>4 DEF Next, Turn

LEMMA InitWInv == Init => WInv
<1> SUFFICES ASSUME Init PROVE WInv
  OBVIOUS
<1>1. PICK fd \in Fds, data \in Data :
        open = {fd} /\ fileEvents = aeCreateFileEvent(<<>>, fd, {"r"}, data)
  BY DEF Init
<1> DEFINE m == aeCreateFileEvent(<<>>, fd, {"r"}, data)
<1>2. /\ m \in Seq(Watch)
      /\ \A j \in DOMAIN m : m[j].fd = fd \/ \E i \in DOMAIN <<>> : m[j] = <<>>[i]
  <2>1. <<>> \in Seq(Watch) /\ "r" \in Kinds
    BY DEF Kinds
  <2> QED BY <2>1, CreatedStay
<1> HIDE DEF m
<1>3. \A j \in DOMAIN m : m[j].fd = fd
  BY <1>2
<1> QED BY <1>1, <1>2, <1>3 DEF WInv, WatchedAreOpen, m

(* select is never given a descriptor that was closed: a callback that     *)
(* closes one leaves no event on it, whoever it belongs to.                *)
THEOREM OpenIsWatched == Spec => []WatchedAreOpen
<1>1. WInv => WatchedAreOpen
  BY DEF WInv
<1> QED BY <1>1, InitWInv, NextWInv, PTL DEF Spec

----------------------------------------------------------------------------
(* Turns whose select fails *)

(* A timer that ran since select last returned waits longer than the other *)
(* timers and the clock can take until each of them ran, too: Slack is     *)
(* what is left of that time after n of them.                              *)
LongDelays == \A r \in Delays : r > (1 + Slow) * (MaxTimers - 1)
Slack(n) == (1 + Slow) * (MaxTimers - n)

ServedSets == SUBSET (0..(timeEventNextId - 1))
Rested(P, e) == \A i \in DOMAIN timeEvents :
    timeEvents[i].id \in P => timeEvents[i].when > Slack(Cardinality(P)) - e

(* Each failing turn has a timer of its own in P, except that the one of   *)
(* the current turn may still be due.                                      *)
Spared == \E P \in ServedSets : Rested(P, 0) /\ skips <= Cardinality(P)
Spent == \E P \in ServedSets : /\ Rested(P, 1) /\ skips <= Cardinality(P) + 1
                               /\ \E i \in Due : timeEvents[i].id \notin P

KInv == /\ skips \in Nat /\ timeEventNextId <= MaxTimers
        /\ phase \in {"top", "select", "files", "timers"}
        /\ phase = "select" => skips <= MaxTimers
        /\ phase = "files" => skips = 0
        /\ phase = "top" => Spared
        /\ phase = "timers" => Spared \/ Spent

LEMMA SlackFacts ==
    ASSUME NEW n \in Nat, n <= MaxTimers
    PROVE  /\ Slack(n) \in Int /\ Slack(n) >= 0
           /\ Slack(n) = Slack(n + 1) + 1 + Slow
           /\ n >= 1 => Slack(n) <= Slack(1)
<1>1. Slow \in Nat /\ MaxTimers \in Nat
  BY LoopAssumption
<1> DEFINE a == 1 + Slow
<1>2. a \in Nat /\ a = 1 + Slow
  BY <1>1
<1>3. \A x \in Int : Slack(x) = a * (MaxTimers - x)
  BY DEF Slack
<1> HIDE DEF a
<1>4. \A x \in Nat : a * x \in Nat /\ a * (x + 1) = a * x + a
  BY <1>2
<1>5. MaxTimers - n \in Nat
  BY <1>1
<1>6. Slack(n) \in Int /\ Slack(n) >= 0
  BY <1>3, <1>4, <1>5
<1>7. Slack(n) = Slack(n + 1) + 1 + Slow
  <2>1. MaxTimers - (n + 1) \in Int /\ MaxTimers - n = (MaxTimers - (n + 1)) + 1
    BY <1>1
  <2>2. \A x \in Int : a * x \in Int /\ a * (x + 1) = a * x + a
    BY <1>2
  <2>3. n \in Int /\ n + 1 \in Int
    OBVIOUS
  <2> QED BY <1>1, <1>2, <1>3, <2>1, <2>2, <2>3
<1>8. ASSUME n >= 1 PROVE Slack(n) <= Slack(1)
  <2>1. n - 1 \in Nat /\ MaxTimers - 1 = (MaxTimers - n) + (n - 1)
    BY <1>1, <1>8
  <2>2. \A x, y \in Nat : a * x \in Nat /\ a * y \in Nat /\ a * (x + y) = a * x + a * y
    BY <1>2
  <2>3. a * (MaxTimers - 1) >= a * (MaxTimers - n)
    BY <1>5, <2>1, <2>2, SMTT(60)
  <2> QED BY <1>3, <2>3
<1> QED BY <1>6, <1>7, <1>8

LEMMA ServedFacts ==
    ASSUME timeEventNextId \in Nat, timeEventNextId <= MaxTimers, NEW P \in ServedSets
    PROVE  /\ Cardinality(P) \in Nat /\ Cardinality(P) <= MaxTimers
           /\ \A x \in 0..(timeEventNextId - 1) : x \notin P =>
                /\ Cardinality(P \union {x}) = Cardinality(P) + 1
                /\ Cardinality(P) + 1 <= MaxTimers
<1> DEFINE I == 0..(timeEventNextId - 1)
<1>1. IsFiniteSet(I) /\ Cardinality(I) = timeEventNextId
  BY FS_Interval
<1>2. \A T \in SUBSET I : IsFiniteSet(T) /\ Cardinality(T) \in Nat /\ Cardinality(T) <= timeEventNextId
  <2> HIDE DEF I
  <2> QED BY <1>1, FS_Subset, FS_CardinalityType
<1>3. MaxTimers \in Nat /\ P \in SUBSET I
  BY LoopAssumption DEF ServedSets
<1>4. ASSUME NEW x \in I, x \notin P
      PROVE  Cardinality(P \union {x}) = Cardinality(P) + 1 /\ Cardinality(P) + 1 <= MaxTimers
  <2>1. Cardinality(P \union {x}) = Cardinality(P) + 1
    <3> HIDE DEF I
    <3> QED BY <1>2, <1>3, <1>4, FS_AddElement
  <2>2. P \union {x} \in SUBSET I
    BY <1>3
  <2>3. Cardinality(P \union {x}) <= timeEventNextId /\ Cardinality(P) \in Nat
    BY <1>2, <1>3, <2>2
  <2> QED BY <1>3, <2>1, <2>3
<1>5. Cardinality(P) \in Nat /\ Cardinality(P) <= MaxTimers
  BY <1>2, <1>3
<1> QED BY <1>4, <1>5

(* The timer that is called has not run before. *)
LEMMA TimeCallServes ==
    ASSUME LongDelays, TInv, timeEventNextId <= MaxTimers,
           NEW P \in ServedSets, NEW e \in {0, 1}, Rested(P, e),
           NEW d \in 0..Slow, TimeCall(d)
    PROVE  \E Q \in ServedSets' : Rested(Q, 0)' /\ Cardinality(Q) = Cardinality(P) + 1
<1> DEFINE k == Least(Due)
           n == Cardinality(P)
<1>1. Due # {} /\ Slow \in Nat /\ timeEventNextId \in Nat
  BY LoopAssumption DEF TimeCall, TInv
<1>2. k \in DOMAIN timeEvents /\ timeEvents[k].when < 0
  BY <1>1, DueTimer
<1>3. \A i \in DOMAIN timeEvents : timeEvents[i].id \in 0..(timeEventNextId - 1) /\ timeEvents[i].when \in Int
  <2>1. \A t \in Timer : t.id \in Nat /\ t.when \in Int
    BY DEF Timer
  <2>2. \A i \in DOMAIN timeEvents : timeEvents[i] \in Timer /\ timeEvents[i].id < timeEventNextId
    BY TimersOf DEF TInv, Below
  <2> QED BY <1>1, <2>1, <2>2
<1>4. n \in Nat /\ n <= MaxTimers
  BY <1>1, ServedFacts
<1>18. PICK id : id = timeEvents[k].id
  OBVIOUS
<1> DEFINE Q == P \union {id}
<1>5. id \notin P
  <2> SUFFICES ASSUME id \in P PROVE FALSE
    OBVIOUS
  <2>1. timeEvents[k].when > Slack(n) - e
    BY <1>2, <1>18 DEF Rested
  <2>2. Slack(n) \in Int /\ Slack(n) >= 0
    BY <1>4, SlackFacts
  <2> HIDE DEF k, n
  <2> QED BY <1>2, <1>3, <2>1, <2>2
<1>6. Cardinality(Q) = n + 1 /\ n + 1 <= MaxTimers
  BY <1>1, <1>2, <1>3, <1>5, <1>18, ServedFacts
<1>7. timeEventNextId' \in Nat /\ timeEventNextId <= timeEventNextId'
  <2>1. timeEventNextId' \in {timeEventNextId, timeEventNextId + 1}
    BY DEF TimeCall
  <2> QED BY <1>1, <2>1
<1>8. Q \in ServedSets'
  <2>1. 0..(timeEventNextId - 1) \subseteq 0..(timeEventNextId' - 1)
    <3>1. \A a, b \in Nat : a <= b => 0..(a - 1) \subseteq 0..(b - 1)
      OBVIOUS
    <3>2. timeEventNextId \in Nat /\ timeEventNextId' \in Nat /\ timeEventNextId <= timeEventNextId'
      BY <1>1, <1>7
    <3> QED BY <3>1, <3>2
  <2>2. Q \subseteq 0..(timeEventNextId - 1)
    BY <1>2, <1>3, <1>18 DEF ServedSets
  <2> QED BY <2>1, <2>2 DEF ServedSets
<1>9. PICK l, r : /\ Left(l, timeEventNextId', id, r)
                  /\ r \in Nat \union {NOMORE} /\ r \in Delays \union {NOMORE}
                  /\ Rearm(l, id, r)
  BY <1>18, TimeCallLeaves
<1>10. id \in Nat
  BY <1>2, <1>3, <1>18
<1>11. Slack(n) \in Int /\ Slack(n + 1) \in Int /\ Slack(n) = Slack(n + 1) + 1 + Slow
       /\ Slack(n + 1) <= Slack(1)
  <2>1. n + 1 \in Nat /\ n + 1 >= 1
    BY <1>4
  <2> QED BY <1>4, <1>6, <2>1, SlackFacts
<1>12. Slack(1) = (1 + Slow) * (MaxTimers - 1) /\ Slack(1) \in Int
  BY <1>1, LoopAssumption DEF Slack
<1> HIDE DEF k, n
<1>13. /\ l \in Seq(Timer) /\ Descends(l)
       /\ \A j \in DOMAIN l : l[j].id < timeEventNextId
             => \E i \in DOMAIN timeEvents : /\ l[j].id = timeEvents[i].id
                                            /\ l[j].when >= timeEvents[i].when - Slow
  BY <1>9 DEF Left
<1>14. /\ \A j \in DOMAIN timeEvents' : \E i \in DOMAIN l :
              /\ timeEvents'[j].id = l[i].id
              /\ l[i].id # id => timeEvents'[j].when = l[i].when
       /\ \A j \in DOMAIN timeEvents' :
              timeEvents'[j].id = id => r # NOMORE /\ timeEvents'[j].when = r
  BY <1>9, <1>10, <1>13, RearmSets
<1>15. ASSUME NEW j \in DOMAIN timeEvents', timeEvents'[j].id \in Q
       PROVE  timeEvents'[j].when > Slack(n + 1)
  <2>1. CASE timeEvents'[j].id = id
    <3>1. r \in Delays /\ r \in Nat /\ timeEvents'[j].when = r
      BY <1>9, <1>14, <2>1
    <3>2. r > Slack(1)
      BY <1>12, <3>1 DEF LongDelays
    <3> QED BY <1>11, <1>12, <3>1, <3>2
  <2>2. CASE timeEvents'[j].id # id
    <3>1. PICK a \in DOMAIN l : timeEvents'[j].id = l[a].id /\ timeEvents'[j].when = l[a].when
      BY <1>14, <2>2
    <3>2. l[a].id \in P
      BY <1>15, <2>2, <3>1
    <3>3. l[a].id < timeEventNextId
      BY <1>1, <3>2 DEF ServedSets
    <3>4. PICK b \in DOMAIN timeEvents : /\ l[a].id = timeEvents[b].id
                                        /\ l[a].when >= timeEvents[b].when - Slow
      BY <1>13, <3>3
    <3>5. timeEvents[b].when > Slack(n) - e /\ timeEvents[b].when \in Int
      BY <1>3, <3>2, <3>4 DEF Rested, n
    <3>6. l[a].when \in Int
      BY <1>13, TimersOf DEF Timer
    <3> QED BY <1>1, <1>11, <3>1, <3>4, <3>5, <3>6
  <2> QED BY <2>1, <2>2
<1>16. Rested(Q, 0)'
  <2>1. Cardinality(Q) = n + 1 /\ Slack(n + 1) - 0 = Slack(n + 1)
    BY <1>6, <1>11
  <2> HIDE DEF Q
  <2> QED BY <1>15, <2>1 DEF Rested, Slack
<1> QED BY <1>6, <1>8, <1>16 DEF n

(* A millisecond more or less until fillSelectTimeout reads the clock. *)
LEMMA LaterRested ==
    ASSUME TInv, timeEventNextId <= MaxTimers, NEW P \in ServedSets, Rested(P, 0),
           NEW d \in {0, 1}, timeEvents' = Later(timeEvents, d)
    PROVE  Rested(P, 1)' /\ \A i \in DOMAIN timeEvents' :
               timeEvents'[i].when < 0 => timeEvents'[i].id \notin P
<1> DEFINE n == Cardinality(P)
           l == Later(timeEvents, d)
<1>1. n \in Nat /\ n <= MaxTimers
  BY ServedFacts DEF TInv
<1>2. Slack(n) \in Int /\ Slack(n) >= 0
  BY <1>1, SlackFacts
<1>3. /\ l \in Seq(Timer) /\ DOMAIN l = DOMAIN timeEvents
      /\ \A i \in DOMAIN timeEvents : /\ l[i].id = timeEvents[i].id
                                      /\ l[i].when >= timeEvents[i].when - d
  <2>1. d \in Nat
    OBVIOUS
  <2> QED BY <2>1, LaterTimers DEF TInv
<1>4. \A i \in DOMAIN timeEvents : timeEvents[i].when \in Int
  BY TimersOf DEF TInv, Timer
<1> HIDE DEF l
<1>5. \A i \in DOMAIN l : l[i].when \in Int
  BY <1>3, TimersOf DEF Timer
<1>6. ASSUME NEW i \in DOMAIN l, l[i].id \in P PROVE l[i].when > Slack(n) - 1
  <2>1. timeEvents[i].when > Slack(n) - 0
    BY <1>3, <1>6 DEF Rested
  <2> HIDE DEF n
  <2> QED BY <1>2, <1>3, <1>4, <1>5, <2>1
<1>7. timeEvents' = l
  BY DEF l
<1>8. Rested(P, 1)'
  BY <1>6, <1>7 DEF Rested, Slack
<1>9. \A i \in DOMAIN l : l[i].when < 0 => l[i].id \notin P
  <2> HIDE DEF n
  <2> QED BY <1>2, <1>5, <1>6
<1> QED BY <1>7, <1>8, <1>9

(* A select that fails leaves the overdue timer it failed on to the pass.  *)
LEMMA BeginKeeps ==
    ASSUME KInv, TInv, TInv', WInv, NEW f, FileSet(f), NEW d \in {0, 1}, Begin(f, d)
    PROVE  KInv'
<1>1. /\ phase = "top" /\ skips \in Nat /\ timeEventNextId \in Nat /\ MaxTimers \in Nat
      /\ timeEventNextId <= MaxTimers /\ timeEventNextId' = timeEventNextId
      /\ timeEvents' = Later(timeEvents, d)
  BY LoopAssumption DEF Begin, KInv, TInv
<1>2. PICK P \in ServedSets : Rested(P, 0) /\ skips <= Cardinality(P)
  BY <1>1 DEF KInv, Spared
<1>3. Cardinality(P) \in Nat /\ Cardinality(P) <= MaxTimers
  BY <1>1, ServedFacts
<1>4. Rested(P, 1)' /\ \A i \in DOMAIN timeEvents' : timeEvents'[i].when < 0 => timeEvents'[i].id \notin P
  BY <1>1, <1>2, LaterRested
<1>5. CASE SelectFails(f)
  <2>1. phase' = "timers" /\ maxId' = timeEventNextId - 1 /\ skips' = Least({skips + 1, MaxTimers + 1})
    BY <1>5 DEF Begin, ToTimers
  <2>2. skips' \in Nat /\ skips' <= Cardinality(P) + 1
    <3>1. Least({skips + 1, MaxTimers + 1}) \in {skips + 1, MaxTimers + 1}
          /\ Least({skips + 1, MaxTimers + 1}) <= skips + 1
      <4> DEFINE S == {skips + 1, MaxTimers + 1}
      <4>1. S \in SUBSET Nat /\ S # {} /\ skips + 1 \in S
        BY <1>1
      <4> HIDE DEF S
      <4>2. Least(S) \in S /\ \A y \in S : Least(S) <= y
        BY <4>1, NatMin DEF Least
      <4> QED BY <4>1, <4>2 DEF S
    <3> QED BY <1>1, <1>2, <1>3, <2>1, <3>1
  <2>3. Overdue(timeEvents')
    <3>1. \A w \in Watched : w[1] \in open
      BY DEF Watched, WInv, WatchedAreOpen
    <3> QED BY <1>5, <3>1 DEF SelectFails
  <2>4. PICK i \in DOMAIN timeEvents' : timeEvents'[i].when < 0
    BY <2>3 DEF Overdue
  <2>5. timeEvents'[i].id \in Nat /\ timeEvents'[i].id < timeEventNextId
    BY <1>1, TimersOf DEF TInv, Below
  <2>6. i \in Due' /\ timeEvents'[i].id \notin P
    BY <1>1, <1>4, <2>1, <2>4, <2>5 DEF Due
  <2>7. P \in ServedSets'
    BY <1>1 DEF ServedSets
  <2>8. Spent'
    BY <1>4, <2>2, <2>6, <2>7 DEF Spent
  <2> QED BY <1>1, <2>1, <2>2, <2>8 DEF KInv
<1>6. CASE ~SelectFails(f)
  BY <1>1, <1>2, <1>3, <1>6 DEF Begin, KInv
<1> QED BY <1>5, <1>6

(* When select has returned, the count begins again. *)
LEMMA NoneSkipped ==
    ASSUME TInv', skips' = 0, timeEventNextId' <= MaxTimers,
           phase' \in {"select", "files", "timers"}
    PROVE  KInv'
<1>1. {} \in ServedSets' /\ Rested({}, 0)' /\ Cardinality({}) = 0
  BY FS_EmptySet DEF ServedSets, Rested
<1>2. Spared'
  BY <1>1 DEF Spared
<1>3. 0 <= MaxTimers
  BY LoopAssumption
<1> QED BY <1>2, <1>3 DEF KInv

LEMMA NextKInv ==
    ASSUME LongDelays, \A f \in FlagSets : FileSet(f)
    PROVE  KInv /\ TInv /\ TInv' /\ WInv /\ [Next]_vars => KInv'
<1> SUFFICES ASSUME KInv, TInv, TInv', WInv, [Next]_vars PROVE KInv'
  OBVIOUS
<1>1. ASSUME NEW f \in FlagSets, NEW d \in {0, 1}, Begin(f, d) PROVE KInv'
  BY <1>1, BeginKeeps
<1>2. CASE SelectReady
  BY <1>2, NoneSkipped DEF SelectReady, KInv
<1>3. ASSUME NEW d \in {0, 1}, SelectTimeout(d) PROVE KInv'
  BY <1>3, NoneSkipped DEF SelectTimeout, ToTimers, KInv
<1>4. ASSUME NEW d \in 0..Slow, FileCall(d) PROVE KInv'
  BY <1>4 DEF FileCall, KInv
<1>5. CASE FilesDone
  BY <1>5, NoneSkipped DEF FilesDone, ToTimers, KInv
<1>6. ASSUME NEW d \in 0..Slow, TimeCall(d) PROVE KInv'
  <2>1. phase = "timers" /\ phase' = "timers" /\ skips' = skips
    BY <1>6 DEF TimeCall
  <2>2. timeEventNextId \in Nat /\ MaxTimers \in Nat /\ skips \in Nat /\ timeEventNextId <= MaxTimers
    BY LoopAssumption DEF KInv, TInv
  <2>3. timeEventNextId' <= MaxTimers
    BY <1>6, <2>2 DEF TimeCall
  <2>4. PICK P \in ServedSets, e \in {0, 1} : Rested(P, e) /\ skips <= Cardinality(P) + 1
    <3>1. \A P \in ServedSets : Cardinality(P) \in Nat
      BY <2>2, ServedFacts
    <3>2. CASE Spared
      <4>1. PICK P \in ServedSets : Rested(P, 0) /\ skips <= Cardinality(P)
        BY <3>2 DEF Spared
      <4>2. skips <= Cardinality(P) + 1
        BY <2>2, <3>1, <4>1
      <4> QED BY <4>1, <4>2
    <3>3. CASE Spent
      BY <3>3 DEF Spent
    <3> QED BY <2>1, <3>2, <3>3 DEF KInv
  <2>5. PICK Q \in ServedSets' : Rested(Q, 0)' /\ Cardinality(Q) = Cardinality(P) + 1
    BY <1>6, <2>2, <2>4, TimeCallServes
  <2>6. Spared'
    BY <2>1, <2>4, <2>5 DEF Spared
  <2> QED BY <2>1, <2>2, <2>3, <2>6 DEF KInv
<1>7. CASE TimersDone
  <2>1. phase = "timers" /\ Due = {} /\ phase' = "top" /\ UNCHANGED <<timeEvents, timeEventNextId, skips>>
    BY <1>7 DEF TimersDone
  <2>2. Spared
    BY <2>1 DEF KInv, Spent
  <2>3. Spared'
    BY <2>1, <2>2 DEF Spared, ServedSets, Rested
  <2> QED BY <2>1, <2>3 DEF KInv
<1>8. CASE Wait
  BY <1>8 DEF Wait, KInv
<1>9. CASE BecomeReady \/ UNCHANGED vars
  <2>1. UNCHANGED <<timeEvents, timeEventNextId, phase, maxId, skips>>
    BY <1>9 DEF BecomeReady, vars, loop
  <2> QED BY <2>1 DEF KInv, Spared, Spent, ServedSets, Rested, Due
<1> QED BY <1>1, <1>2, <1>3, <1>4, <1>5, <1>6, <1>7, <1>8, <1>9 DEF Next, Turn

LEMMA InitKInv == Init => KInv
<1> SUFFICES ASSUME Init PROVE KInv
  OBVIOUS
<1>1. skips = 0 /\ phase = "top" /\ timeEventNextId = 1 /\ 1 <= MaxTimers
  BY LoopAssumption DEF Init
<1>2. {} \in ServedSets /\ Rested({}, 0) /\ Cardinality({}) = 0
  BY FS_EmptySet DEF ServedSets, Rested
<1>3. Spared
  BY <1>1, <1>2 DEF Spared
<1> QED BY <1>1, <1>3 DEF KInv

LEMMA KInvIsFew == KInv /\ TInv => FewSkips
<1> SUFFICES ASSUME KInv, TInv PROVE skips <= MaxTimers
  BY DEF FewSkips
<1>1. skips \in Nat /\ timeEventNextId \in Nat /\ timeEventNextId <= MaxTimers /\ MaxTimers \in Nat
  BY LoopAssumption DEF KInv, TInv
<1>2. CASE Spared
  BY <1>1, <1>2, ServedFacts DEF Spared
<1>3. CASE Spent
  <2>1. PICK P \in ServedSets, i \in Due : skips <= Cardinality(P) + 1 /\ timeEvents[i].id \notin P
    BY <1>3 DEF Spent
  <2>2. timeEvents[i].id \in 0..(timeEventNextId - 1)
    <3>1. i \in DOMAIN timeEvents
      BY DEF Due
    <3>2. timeEvents[i].id \in Nat /\ timeEvents[i].id < timeEventNextId
      BY <3>1, TimersOf DEF TInv, Below
    <3> QED BY <1>1, <3>2
  <2>3. Cardinality(P) + 1 <= MaxTimers /\ Cardinality(P) \in Nat
    BY <1>1, <2>1, <2>2, ServedFacts
  <2> QED BY <1>1, <2>1, <2>3
<1>4. CASE phase \in {"select", "files"}
  BY <1>1, <1>4 DEF KInv
<1> QED BY <1>2, <1>3, <1>4 DEF KInv

(* Turns that serve no descriptor because select is handed a negative      *)
(* timeout end after as many as there are timers, for every number of      *)
(* timers and descriptors, if no timer is set again sooner than the other  *)
(* timers take to run.  (With shorter delays they need not end.)  aeMain   *)
(* always asks for file events.                                            *)
THEOREM SkipsAreFew ==
    ASSUME LongDelays, \A f \in FlagSets : FileSet(f)
    PROVE  Spec => []FewSkips
<1>1. Init => KInv /\ WInv
  BY InitKInv, InitWInv
<1>2. KInv /\ TInv /\ TInv' /\ WInv /\ [Next]_vars => KInv' /\ WInv'
  BY NextKInv, NextWInv
<1> QED BY <1>1, <1>2, TimersInvariance, KInvIsFew, PTL DEF Spec
=============================================================================
