---------------------------- MODULE SkipListProofs ----------------------------
(***************************************************************************)
(* Proofs about SkipList: searches from both ends and over sub maps find   *)
(* what is stored, and the linked nodes implement the map they stand for,  *)
(* for all keys, values, levels and heights.                               *)
(***************************************************************************)
EXTENDS SkipList, NaturalMinimum, SequenceTheorems

Node == DataNode \union {head, tail}

(* The order of the nodes; a null ends a level as the tail does.           *)
Before(a, b) ==
    \/ a = head /\ b # head
    \/ IsData(a) /\ b \in {tail, Null}
    \/ IsData(a) /\ IsData(b) /\ a[1] < b[1]

(* The nodes of N on level i.                                              *)
Of(N, nxt, i) == {n \in N : i \in DOMAIN nxt[n]}

Shape(nxt, prv, N) ==
    /\ IsFiniteSet(DOMAIN nxt) /\ DOMAIN prv = DOMAIN nxt
    /\ {head, tail} \subseteq DOMAIN nxt /\ DOMAIN nxt \subseteq Node
    /\ N \subseteq DOMAIN nxt /\ N \subseteq DataNode
    /\ DOMAIN nxt[head] = Levels /\ DOMAIN nxt[tail] = Levels
    /\ \A n \in DOMAIN nxt : /\ DOMAIN prv[n] = DOMAIN nxt[n]
                             /\ \E h \in 1..MAX_LEVEL : DOMAIN nxt[n] = 0..(h - 1)
    /\ \A m, n \in N : m[1] = n[1] => m = n

(* m is what follows n on level i: the least of the nodes above n.         *)
Follows(nxt, N, end, i, n, m) ==
    /\ m = end \/ m \in Of(N, nxt, i)
    /\ Before(n, m)
    /\ \A x \in Of(N, nxt, i) : ~(Before(n, x) /\ Before(x, m))

Forward(nxt, N, end) ==
    \A i \in Levels : \A n \in Of(N \union {head}, nxt, i) :
        Follows(nxt, N, end, i, n, nxt[n][i])
(* The links back are the links forward, the other way round.              *)
Backward(nxt, prv, N, end) ==
    \A i \in Levels : \A n \in Of(N \union ({end} \ {Null}), nxt, i) :
        prv[n][i] \in Of(N \union {head}, nxt, i) /\ nxt[prv[n][i]][i] = n
(* Nodes that only the tail leads to, since a clear.                       *)
Stale(nxt, prv, N) ==
    /\ \A n \in DOMAIN nxt \ (N \union {head}) : \A i \in DOMAIN nxt[n] : nxt[n][i] = Null
    /\ \A i \in Levels : prv[tail][i] \in DOMAIN nxt

Linked(nxt, prv, N, end) ==
    /\ end \in {tail, Null}
    /\ Shape(nxt, prv, N)
    /\ Forward(nxt, N, end) /\ Backward(nxt, prv, N, end)
    /\ Stale(nxt, prv, N)

End == IF harm = "none" THEN tail ELSE Null
KeysOf(N) == {n[1] : n \in N}

(* N are the nodes of the map.                                             *)
Stored(N) ==
    /\ Linked(next, prev, N, End)
    /\ level \in 0..(MAX_LEVEL - 1) /\ \A n \in N : \A i \in DOMAIN next[n] : i < level
    /\ size = Cardinality(KeysOf(N))
    /\ DOMAIN value = DOMAIN next \ {head, tail} /\ \A n \in N : value[n] \in Val

(* There are nodes that the map holds, until a removal after a clear.      *)
SkipInv ==
    /\ harm \in {"none", "cleared", "lost"}
    /\ harm # "lost" => \E N \in SUBSET DataNode : Stored(N)

----------------------------------------------------------------------------
(* The order *)

LEMMA Sentinels ==
    /\ head # tail /\ Null \notin Node /\ head \notin DataNode /\ tail \notin DataNode
    /\ \A n \in DataNode : IsData(n) /\ n[1] \in Key /\ n[1] \in Int
<1>1. head # tail
  BY DEF head, tail
<1>2. \A n \in DataNode : n # head /\ n # tail
  <2>1. \A k \in Key, g \in {0, 1} : <<k, g>> # head /\ <<k, g>> # tail
    BY DEF head, tail
  <2> QED BY <2>1 DEF DataNode
<1>3. Null \notin Node
  BY SkipListAssumption DEF Node
<1>4. \A n \in DataNode : n[1] \in Key /\ n[1] \in Int
  BY SkipListAssumption DEF DataNode
<1> QED BY <1>1, <1>2, <1>3, <1>4 DEF IsData, Node

LEMMA BeforeOrders ==
    /\ \A a \in Node : ~Before(a, a) /\ ~Before(a, head) /\ ~Before(tail, a)
    /\ \A a, b \in Node, c \in Node \union {Null} : Before(a, b) /\ Before(b, c) => Before(a, c)
    /\ \A a \in DataNode : Before(head, a) /\ Before(a, tail) /\ Before(a, Null)
    /\ Before(head, tail) /\ Before(head, Null)
    /\ \A a, b \in DataNode : Before(a, b) <=> a[1] < b[1]
<1> USE Sentinels DEF Node, Before, IsData
<1>1. \A a \in Node : ~Before(a, a) /\ ~Before(a, head) /\ ~Before(tail, a)
  OBVIOUS
<1>2. \A a, b \in Node, c \in Node \union {Null} : Before(a, b) /\ Before(b, c) => Before(a, c)
  OBVIOUS
<1>3. \A a \in DataNode : Before(head, a) /\ Before(a, tail) /\ Before(a, Null)
  OBVIOUS
<1>4. \A a, b \in DataNode : Before(a, b) <=> a[1] < b[1]
  OBVIOUS
<1>5. Before(head, tail) /\ Before(head, Null)
  OBVIOUS
<1> QED BY <1>1, <1>2, <1>3, <1>4, <1>5

(* Keys of finitely many nodes have bounds.                                *)
Bounded(T) == \E lo, hi \in Int : lo < hi /\ \A d \in T : lo < d[1] /\ d[1] < hi

LEMMA FiniteBounded ==
    ASSUME NEW E \in SUBSET DataNode, IsFiniteSet(E)
    PROVE  Bounded(E)
<1> DEFINE P == {T \in SUBSET E : Bounded(T)}
<1>1. {} \in P
  <2>1. Bounded({})
    <3>1. 0 \in Int /\ 1 \in Int /\ 0 < 1
      OBVIOUS
    <3> QED BY <3>1 DEF Bounded
  <2> QED BY <2>1
<1>2. ASSUME NEW T \in SUBSET E, T # {}, \A x \in T : T \ {x} \in P
      PROVE  T \in P
  <2>1. PICK x \in T : Bounded(T \ {x})
    BY <1>2
  <2>2. PICK lo \in Int, hi \in Int :
            lo < hi /\ \A d \in T \ {x} : lo < d[1] /\ d[1] < hi
    BY <2>1 DEF Bounded
  <2>3. x[1] \in Int /\ \A d \in T : d[1] \in Int
    BY Sentinels
  <2>4. PICK lo2 \in Int, hi2 \in Int :
            lo2 < lo /\ lo2 < x[1] /\ hi < hi2 /\ x[1] < hi2
    <3>1. CASE lo < x[1] /\ x[1] < hi
      <4>1. lo - 1 \in Int /\ hi + 1 \in Int /\ lo - 1 < lo /\ lo - 1 < x[1] /\ hi < hi + 1
            /\ x[1] < hi + 1
        BY <2>2, <2>3, <3>1
      <4> QED BY <4>1
    <3>2. CASE lo >= x[1]
      <4>1. x[1] - 1 \in Int /\ hi + 1 \in Int /\ x[1] - 1 < lo /\ x[1] - 1 < x[1] /\ hi < hi + 1
            /\ x[1] < hi + 1
        BY <2>2, <2>3, <3>2
      <4> QED BY <4>1
    <3>3. CASE x[1] >= hi
      <4>1. lo - 1 \in Int /\ x[1] + 1 \in Int /\ lo - 1 < lo /\ lo - 1 < x[1] /\ hi < x[1] + 1
            /\ x[1] < x[1] + 1
        BY <2>2, <2>3, <3>3
      <4> QED BY <4>1
    <3> QED BY <2>3, <3>1, <3>2, <3>3
  <2>5. \A d \in T : lo2 < d[1] /\ d[1] < hi2
    BY <2>2, <2>3, <2>4
  <2>6. lo2 < hi2
    BY <2>2, <2>4
  <2>7. Bounded(T)
    BY <2>5, <2>6 DEF Bounded
  <2> QED BY <2>7
<1>3. SUBSET E \subseteq P
  <2> HIDE DEF P
  <2> QED BY <1>1, <1>2, SubsetInduction
<1> QED BY <1>3

(* rank counts down along the order.                                       *)
RankOf(D, n, rank) ==
    n \in Nat /\ rank \in [D -> 0..n] /\ \A a, b \in D : Before(a, b) => rank[b] < rank[a]

LEMMA Ranks ==
    ASSUME NEW D \in SUBSET Node, IsFiniteSet(D)
    PROVE  \E n, rank : RankOf(D, n, rank)
<1> DEFINE E == D \intersect DataNode
<1>1. PICK lo \in Int, hi \in Int : lo < hi /\ \A d \in E : lo < d[1] /\ d[1] < hi
  <2>1. IsFiniteSet(E) /\ E \in SUBSET DataNode
    BY FS_Intersection
  <2> HIDE DEF E
  <2>2. Bounded(E)
    BY <2>1, FiniteBounded
  <2> QED BY <2>2 DEF Bounded
<1> DEFINE n == hi - lo
           rank == [d \in D |-> IF d = head THEN n ELSE IF d = tail THEN 0 ELSE hi - d[1]]
<1>2. n \in Nat
  BY <1>1
<1>3. ASSUME NEW d \in E PROVE d # head /\ d # tail /\ hi - d[1] \in 1..(n - 1) /\ d[1] \in Int
  BY <1>1, Sentinels
<1>4. D \subseteq E \union {head, tail}
  BY DEF Node
<1>5. rank \in [D -> 0..n]
  BY <1>2, <1>3, <1>4
<1>6. ASSUME NEW a \in D, NEW b \in D, Before(a, b) PROVE rank[b] < rank[a]
  <2>1. b # head /\ a # tail
    BY <1>6, BeforeOrders
  <2>2. CASE a = head
    <3>1. rank[a] = n /\ rank[b] < n
      BY <1>1, <1>2, <1>3, <1>4, <2>1, <2>2
    <3> QED BY <3>1
  <2>3. CASE a \in E /\ b = tail
    BY <1>3, <2>3, Sentinels
  <2>4. CASE a \in E /\ b \in E
    <3>1. a[1] < b[1]
      BY <1>6, <2>4, BeforeOrders
    <3> QED BY <1>3, <2>4, <3>1
  <2> QED BY <1>4, <2>1, <2>2, <2>3, <2>4
<1>7. RankOf(D, n, rank)
  <2> HIDE DEF n, rank
  <2> QED BY <1>2, <1>5, <1>6 DEF RankOf
<1> QED BY <1>7

(* What holds of a node when it holds of all that come later holds of all. *)
LEMMA LaterInduction ==
    ASSUME NEW D \in SUBSET Node, IsFiniteSet(D), NEW P,
           \A d \in D : (\A e \in D : Before(d, e) => e \in P) => d \in P
    PROVE  D \subseteq P
<1>1. PICK n, rank : RankOf(D, n, rank)
  BY Ranks
<1> DEFINE Bad == {rank[d] : d \in D \ P}
<1>2. SUFFICES ASSUME Bad # {} PROVE FALSE
  OBVIOUS
<1>3. Bad \in SUBSET Nat
  BY <1>1 DEF RankOf
<1>4. PICK r \in Bad : \A q \in Bad : r <= q
  <2> HIDE DEF Bad
  <2> QED BY <1>2, <1>3, NatMin
<1>5. PICK d \in D \ P : r = rank[d]
  BY <1>4
<1>6. ASSUME NEW e \in D, Before(d, e), e \notin P PROVE FALSE
  <2>1. rank[e] \in Bad /\ rank[e] < rank[d] /\ rank[e] \in Int /\ rank[d] \in Int
    BY <1>1, <1>5, <1>6 DEF RankOf
  <2> HIDE DEF Bad
  <2> QED BY <1>3, <1>4, <1>5, <2>1
<1> QED BY <1>5, <1>6

(* A function whose value at a node is made from its values at later ones. *)
FromLaterNodes(D, X, op) ==
    /\ D \subseteq Node /\ IsFiniteSet(D) /\ op \in [D \X [D -> X] -> X]
    /\ \A d \in D : \A g, h \in [D -> X] :
           (\A e \in D : Before(d, e) => g[e] = h[e]) => op[<<d, g>>] = op[<<d, h>>]

LEMMA NodeRecursion ==
    ASSUME NEW D, NEW X, NEW op, FromLaterNodes(D, X, op), X # {}
    PROVE  \E f \in [D -> X] : f = [d \in D |-> op[<<d, f>>]]
<1>1. /\ D \in SUBSET Node /\ IsFiniteSet(D) /\ op \in [D \X [D -> X] -> X]
      /\ \A d \in D : \A g, h \in [D -> X] :
           (\A e \in D : Before(d, e) => g[e] = h[e]) => op[<<d, g>>] = op[<<d, h>>]
  BY DEF FromLaterNodes
<1>2. PICK n, rank : RankOf(D, n, rank)
  BY <1>1, Ranks
<1>3. /\ n \in Nat /\ rank \in [D -> 0..n]
      /\ \A d, e \in D : Before(d, e) => rank[e] < rank[d]
  BY <1>2 DEF RankOf
<1>4. Ranked(D, X, n, rank, op)
  BY <1>1, <1>3 DEF Ranked
<1>5. Solvable(D, X, op)
  BY <1>4, RankedRecursion, Zenon
<1> QED BY <1>5 DEF Solvable

----------------------------------------------------------------------------
(* Nodes that are linked *)

LEMMA Total ==
    ASSUME NEW nxt, NEW prv, NEW N, Shape(nxt, prv, N)
    PROVE  \A m, n \in N \union {head} : m = n \/ Before(m, n) \/ Before(n, m)
<1>1. N \subseteq DataNode /\ \A m, n \in N : m[1] = n[1] => m = n
  BY DEF Shape
<1>2. \A m, n \in N : m[1] \in Int /\ n[1] \in Int
  BY <1>1, Sentinels
<1>3. \A m, n \in N : m = n \/ Before(m, n) \/ Before(n, m)
  BY <1>1, <1>2, BeforeOrders
<1> QED BY <1>1, <1>3, BeforeOrders

(* Links lead upwards on their level.                                      *)
Ascends(nxt, i) ==
    \A n \in On(nxt, i) :
        nxt[n][i] = Null \/ (nxt[n][i] \in On(nxt, i) /\ Before(n, nxt[n][i]))

LEMMA LinkedAscends ==
    ASSUME NEW nxt, NEW prv, NEW N, NEW end, Linked(nxt, prv, N, end), NEW i \in Levels
    PROVE  /\ Ascends(nxt, i) /\ On(nxt, i) \subseteq Node /\ IsFiniteSet(On(nxt, i))
           /\ Of(N \union {head}, nxt, i) \subseteq On(nxt, i) /\ tail \in On(nxt, i)
           /\ head \in Of(N \union {head}, nxt, i)
<1>1. /\ IsFiniteSet(DOMAIN nxt) /\ DOMAIN nxt \subseteq Node /\ N \subseteq DOMAIN nxt
      /\ head \in DOMAIN nxt /\ tail \in DOMAIN nxt
      /\ DOMAIN nxt[head] = Levels /\ DOMAIN nxt[tail] = Levels
  BY DEF Linked, Shape
<1>2. On(nxt, i) \subseteq DOMAIN nxt /\ IsFiniteSet(On(nxt, i))
  BY <1>1, FS_Subset DEF On
<1>3. Of(N \union {head}, nxt, i) \subseteq On(nxt, i) /\ tail \in On(nxt, i)
      /\ head \in Of(N \union {head}, nxt, i)
  BY <1>1 DEF Of, On
<1>4. ASSUME NEW n \in On(nxt, i)
      PROVE  nxt[n][i] = Null \/ (nxt[n][i] \in On(nxt, i) /\ Before(n, nxt[n][i]))
  <2>1. CASE n \in N \union {head}
    <3>1. Follows(nxt, N, end, i, n, nxt[n][i])
      BY <2>1 DEF Linked, Forward, Of, On
    <3>2. nxt[n][i] \in {tail, Null} \/ nxt[n][i] \in Of(N, nxt, i)
      BY <3>1 DEF Follows, Linked
    <3> QED BY <1>1, <1>3, <3>1, <3>2 DEF Follows, Of, On
  <2>2. CASE n \notin N \union {head}
    BY <2>2 DEF Linked, Stale, On
  <2> QED BY <2>1, <2>2
<1> QED BY <1>1, <1>2, <1>3, <1>4 DEF Ascends

LEMMA ChainIs ==
    ASSUME NEW nxt, NEW i, Ascends(nxt, i), On(nxt, i) \subseteq Node, IsFiniteSet(On(nxt, i))
    PROVE  \A n \in On(nxt, i) : Chain(nxt, i)[n] = ChainStep(nxt, i, Chain(nxt, i), n)
<1> DEFINE D == On(nxt, i)
           X == SUBSET Node
           op == [t \in D \X [D -> X] |-> ChainStep(nxt, i, t[2], t[1])]
<1>1. \A n \in D : nxt[n][i] = Null \/ (nxt[n][i] \in D /\ Before(n, nxt[n][i]))
  BY DEF Ascends
<1>2. ASSUME NEW n \in D, NEW g \in [D -> X] PROVE ChainStep(nxt, i, g, n) \in X
  BY <1>1 DEF ChainStep
<1>3. \A n \in D, g \in [D -> X] : op[<<n, g>>] = ChainStep(nxt, i, g, n)
  OBVIOUS
<1>4. op \in [D \X [D -> X] -> X]
  BY <1>2
<1>5. ASSUME NEW n \in D, NEW g \in [D -> X], NEW h \in [D -> X],
             \A e \in D : Before(n, e) => g[e] = h[e]
      PROVE  op[<<n, g>>] = op[<<n, h>>]
  <2> HIDE DEF op, D, X
  <2>1. ChainStep(nxt, i, g, n) = ChainStep(nxt, i, h, n)
    BY <1>1, <1>5 DEF ChainStep
  <2> QED BY <1>3, <2>1
<1>6. FromLaterNodes(D, X, op)
  <2> HIDE DEF op, X
  <2> QED BY <1>4, <1>5 DEF FromLaterNodes
<1>7. X # {}
  OBVIOUS
<1> HIDE DEF op, X, D
<1>8. \E f \in [D -> X] : f = [n \in D |-> op[<<n, f>>]]
  BY <1>6, <1>7, NodeRecursion
<1>9. PICK f : f = [n \in D |-> ChainStep(nxt, i, f, n)]
  BY <1>8 DEF op
<1> DEFINE g == Chain(nxt, i)
<1>10. g = [n \in D |-> ChainStep(nxt, i, g, n)]
  BY <1>9 DEF Chain, D
<1> HIDE DEF g
<1>11. \A n \in D : g[n] = ChainStep(nxt, i, g, n)
  BY <1>10
<1> QED BY <1>11 DEF g, D

(* A node of a level and all above it.                                     *)
Above(N, nxt, end, i, n) ==
    {x \in Of(N \union {head}, nxt, i) : x = n \/ Before(n, x)} \union ({end} \ {Null})

LEMMA NextAbove ==
    ASSUME NEW nxt, NEW prv, NEW N, NEW end, Linked(nxt, prv, N, end), NEW i \in Levels,
           NEW n \in Of(N \union {head}, nxt, i)
    PROVE  \/ /\ nxt[n][i] = end /\ end \in {tail, Null}
              /\ \A x \in Of(N \union {head}, nxt, i) : ~Before(n, x)
           \/ /\ nxt[n][i] \in Of(N, nxt, i) /\ nxt[n][i] # Null /\ Before(n, nxt[n][i])
              /\ \A x \in Of(N \union {head}, nxt, i) :
                    Before(n, x) => x = nxt[n][i] \/ Before(nxt[n][i], x)
<1> DEFINE m == nxt[n][i]
<1>1. N \subseteq DataNode /\ Shape(nxt, prv, N) /\ end \in {tail, Null}
  BY DEF Linked, Shape
<1>2. Follows(nxt, N, end, i, n, m)
  BY DEF Linked, Forward
<1> HIDE DEF m
<1>3. /\ m = end \/ m \in Of(N, nxt, i)
      /\ Before(n, m)
      /\ \A x \in Of(N, nxt, i) : ~(Before(n, x) /\ Before(x, m))
  BY <1>2 DEF Follows
<1>4. n \in Node
  BY <1>1 DEF Of, Node
<1>5. \A x \in Of(N \union {head}, nxt, i) : Before(n, x) => x \in Of(N, nxt, i) /\ x \in DataNode
  BY <1>1, <1>4, BeforeOrders DEF Of
<1>6. CASE m = end
  <2>1. \A x \in DataNode : Before(x, m)
    BY <1>1, <1>6, BeforeOrders
  <2> QED BY <1>1, <1>3, <1>5, <1>6, <2>1 DEF m
<1>7. CASE m \in Of(N, nxt, i)
  <2>1. m \in DataNode /\ m # Null /\ m \in N
    BY <1>1, <1>7, Sentinels DEF Of, Node
  <2>2. \A x \in Of(N \union {head}, nxt, i) : Before(n, x) => x = m \/ Before(m, x)
    <3>1. \A x \in Of(N, nxt, i) : x \in N
      BY DEF Of
    <3> QED BY <1>1, <1>3, <1>5, <2>1, <3>1, Total
  <2> QED BY <1>3, <1>7, <2>1, <2>2 DEF m
<1> QED BY <1>3, <1>6, <1>7

LEMMA ChainIsAbove ==
    ASSUME NEW nxt, NEW prv, NEW N, NEW end, Linked(nxt, prv, N, end), NEW i \in Levels
    PROVE  Chain(nxt, i)[head] = Of(N \union {head}, nxt, i) \union ({end} \ {Null})
<1> DEFINE D == On(nxt, i)
           C == Chain(nxt, i)
           P == {n \in D : n \in Of(N \union {head}, nxt, i) => C[n] = Above(N, nxt, end, i, n)}
<1>1. /\ Ascends(nxt, i) /\ D \subseteq Node /\ IsFiniteSet(D)
      /\ Of(N \union {head}, nxt, i) \subseteq D /\ tail \in D
      /\ head \in Of(N \union {head}, nxt, i)
  BY LinkedAscends
<1>2. \A n \in D : C[n] = {n} \union (IF nxt[n][i] = Null THEN {} ELSE C[nxt[n][i]])
  <2>1. \A n \in D : C[n] = ChainStep(nxt, i, C, n)
    BY <1>1, ChainIs
  <2> HIDE DEF C
  <2> QED BY <2>1 DEF ChainStep
<1>3. C[tail] = {tail} /\ tail # Null
  <2>1. nxt[tail][i] = Null
    <3>1. tail \in DOMAIN nxt /\ tail \notin N \union {head} /\ i \in DOMAIN nxt[tail]
      BY Sentinels DEF Linked, Shape
    <3> QED BY <3>1 DEF Linked, Stale
  <2> QED BY <1>1, <1>2, <2>1, Sentinels DEF Node
<1>4. ASSUME NEW n \in D, \A e \in D : Before(n, e) => e \in P PROVE n \in P
  <2>1. SUFFICES ASSUME n \in Of(N \union {head}, nxt, i) PROVE C[n] = Above(N, nxt, end, i, n)
    OBVIOUS
  <2> HIDE DEF C
  <2>2. CASE /\ nxt[n][i] = end /\ end \in {tail, Null}
             /\ \A x \in Of(N \union {head}, nxt, i) : ~Before(n, x)
    <3>1. C[n] = {n} \union ({end} \ {Null})
      BY <1>2, <1>3, <2>2
    <3> QED BY <2>1, <2>2, <3>1 DEF Above
  <2>3. CASE /\ nxt[n][i] \in Of(N, nxt, i) /\ nxt[n][i] # Null /\ Before(n, nxt[n][i])
             /\ \A x \in Of(N \union {head}, nxt, i) :
                    Before(n, x) => x = nxt[n][i] \/ Before(nxt[n][i], x)
    <3> DEFINE m == nxt[n][i]
    <3>1. m \in Of(N \union {head}, nxt, i) /\ m \in D
      BY <1>1, <2>3 DEF Of
    <3>2. C[m] = Above(N, nxt, end, i, m)
      BY <1>4, <2>3, <3>1
    <3>3. C[n] = {n} \union Above(N, nxt, end, i, m)
      BY <1>2, <2>3, <3>2
    <3> HIDE DEF m
    <3>4. Before(n, m) /\ \A x \in Of(N \union {head}, nxt, i) : Before(n, x) => x = m \/ Before(m, x)
      BY <2>3 DEF m
    <3>5. \A x \in Of(N \union {head}, nxt, i) : Before(m, x) => Before(n, x)
      BY <1>1, <3>1, <3>4, BeforeOrders
    <3> QED BY <2>1, <3>1, <3>3, <3>4, <3>5 DEF Above
  <2> QED BY <2>1, <2>2, <2>3, NextAbove
<1>5. D \subseteq P
  <2> HIDE DEF P, D
  <2> QED BY <1>1, <1>4, LaterInduction
<1>6. \A n \in Of(N \union {head}, nxt, i) : C[n] = Above(N, nxt, end, i, n)
  BY <1>1, <1>5
<1>7. Above(N, nxt, end, i, head) = Of(N \union {head}, nxt, i) \union ({end} \ {Null})
  <2>1. \A x \in Of(N \union {head}, nxt, i) : x = head \/ Before(head, x)
    BY BeforeOrders DEF Of, Linked, Shape
  <2> QED BY <2>1 DEF Above
<1> QED BY <1>1, <1>6, <1>7

----------------------------------------------------------------------------
(* Searching *)

LEMMA WalkIs ==
    ASSUME NEW N, NEW end, Linked(next, prev, N, end), NEW i \in Levels, NEW k
    PROVE  \A n \in DOMAIN next :
               Walk(i, k)[n] \in DOMAIN next /\ Walk(i, k)[n] = WalkStep(i, k, Walk(i, k), n)
<1> DEFINE D == DOMAIN next
           op == [t \in D \X [D -> D] |-> WalkStep(i, k, t[2], t[1])]
           Passes(n) == i \in DOMAIN next[n] /\ next[n][i] # Null /\ Less(next[n][i], k)
<1>1. D \subseteq Node /\ IsFiniteSet(D) /\ D # {}
  BY DEF Linked, Shape
<1>2. \A n \in D : i \in DOMAIN next[n] =>
          next[n][i] = Null \/ (next[n][i] \in D /\ Before(n, next[n][i]))
  <2>1. Ascends(next, i)
    BY LinkedAscends
  <2> QED BY <2>1 DEF Ascends, On
<1>3. ASSUME NEW g, NEW n PROVE WalkStep(i, k, g, n) = IF Passes(n) THEN g[next[n][i]] ELSE n
  BY DEF WalkStep
<1>4. \A n \in D : Passes(n) => next[n][i] \in D /\ Before(n, next[n][i])
  BY <1>2
<1> HIDE DEF Passes
<1>5. ASSUME NEW n \in D, NEW g \in [D -> D] PROVE WalkStep(i, k, g, n) \in D
  BY <1>3, <1>4
<1>6. \A n \in D, g \in [D -> D] : op[<<n, g>>] = WalkStep(i, k, g, n)
  OBVIOUS
<1>7. op \in [D \X [D -> D] -> D]
  BY <1>5
<1>8. ASSUME NEW n \in D, NEW g \in [D -> D], NEW h \in [D -> D],
             \A e \in D : Before(n, e) => g[e] = h[e]
      PROVE  op[<<n, g>>] = op[<<n, h>>]
  <2> HIDE DEF op, D
  <2>1. WalkStep(i, k, g, n) = WalkStep(i, k, h, n)
    BY <1>3, <1>4, <1>8
  <2> QED BY <1>6, <2>1
<1>9. FromLaterNodes(D, D, op)
  <2> HIDE DEF op, D
  <2> QED BY <1>1, <1>7, <1>8 DEF FromLaterNodes
<1> HIDE DEF op, D
<1>10. \E f \in [D -> D] : f = [n \in D |-> op[<<n, f>>]]
  BY <1>1, <1>9, NodeRecursion
<1>11. PICK f : f = [n \in D |-> WalkStep(i, k, f, n)]
  BY <1>10 DEF op
<1> DEFINE g == Walk(i, k)
<1>12. g = [n \in D |-> WalkStep(i, k, g, n)]
  BY <1>11 DEF Walk, D
<1> HIDE DEF g
<1>13. \A n \in D : g[n] = WalkStep(i, k, g, n)
  BY <1>12
<1> DEFINE P == {n \in D : g[n] \in D}
<1>14. ASSUME NEW n \in D, \A e \in D : Before(n, e) => e \in P PROVE n \in P
  BY <1>3, <1>4, <1>13, <1>14
<1>15. D \subseteq P
  <2> HIDE DEF P
  <2> QED BY <1>1, <1>14, LaterInduction
<1> QED BY <1>13, <1>15 DEF g, D

(* The last node of level i that is less than k.                           *)
Closest(N, i, k, m) ==
    /\ m \in Of(N \union {head}, next, i) /\ Less(m, k)
    /\ \A x \in Of(N, next, i) : Less(x, k) => ~Before(m, x)

LEMMA LessIs == \A k : Less(head, k) /\ ~Less(tail, k) /\ \A n \in DataNode : Less(n, k) <=> n[1] < k
BY Sentinels DEF Less, IsData, Node

LEMMA WalkEnds ==
    ASSUME NEW N, NEW end, Linked(next, prev, N, end), NEW i \in Levels, NEW k \in Int
    PROVE  \A n \in Of(N \union {head}, next, i) : Less(n, k) => Closest(N, i, k, Walk(i, k)[n])
<1> DEFINE D == Of(N \union {head}, next, i)
           W == Walk(i, k)
           P == {n \in D : Less(n, k) => Closest(N, i, k, W[n])}
<1>1. /\ D \subseteq Node /\ IsFiniteSet(D) /\ N \subseteq DataNode
      /\ \A n \in D : i \in DOMAIN next[n] /\ n \in DOMAIN next
  <2>1. On(next, i) \subseteq Node /\ IsFiniteSet(On(next, i)) /\ D \subseteq On(next, i)
    BY LinkedAscends
  <2>2. N \subseteq DataNode
    BY DEF Linked, Shape
  <2> HIDE DEF D
  <2>3. IsFiniteSet(D)
    BY <2>1, FS_Subset
  <2> QED BY <2>1, <2>2, <2>3 DEF On
<1>2. \A n \in D : W[n] = IF next[n][i] # Null /\ Less(next[n][i], k) THEN W[next[n][i]] ELSE n
  <2>1. \A n \in DOMAIN next : W[n] = WalkStep(i, k, W, n)
    BY WalkIs
  <2> HIDE DEF W, D
  <2> QED BY <1>1, <2>1 DEF WalkStep
<1>3. ASSUME NEW n \in D, \A e \in D : Before(n, e) => e \in P PROVE n \in P
  <2>1. SUFFICES ASSUME Less(n, k) PROVE Closest(N, i, k, W[n])
    OBVIOUS
  <2> HIDE DEF W
  <2>2. CASE /\ next[n][i] = end /\ end \in {tail, Null}
             /\ \A x \in D : ~Before(n, x)
    <3>1. W[n] = n
      BY <1>2, <2>2, LessIs
    <3> QED BY <2>1, <2>2, <3>1 DEF Closest, Of
  <2>3. CASE /\ next[n][i] \in Of(N, next, i) /\ next[n][i] # Null /\ Before(n, next[n][i])
             /\ \A x \in D : Before(n, x) => x = next[n][i] \/ Before(next[n][i], x)
    <3> DEFINE m == next[n][i]
    <3>1. m \in D /\ m \in DataNode /\ m # Null /\ Before(n, m)
      BY <1>1, <2>3 DEF Of
    <3>2. CASE Less(m, k)
      <4>1. W[n] = W[m]
        BY <1>2, <3>1, <3>2
      <4>2. Closest(N, i, k, W[m])
        BY <1>3, <3>1, <3>2
      <4> QED BY <4>1, <4>2
    <3>3. CASE ~Less(m, k)
      <4>1. W[n] = n
        BY <1>2, <3>1, <3>3
      <4>2. ASSUME NEW x \in Of(N, next, i), Less(x, k), Before(n, x) PROVE FALSE
        <5>1. x \in D /\ x \in DataNode
          BY <1>1 DEF Of
        <5>2. x = m \/ Before(m, x)
          BY <2>3, <4>2, <5>1
        <5>3. ~(m[1] < k) /\ x[1] < k /\ m[1] \in Int /\ x[1] \in Int
          BY <3>1, <3>3, <4>2, <5>1, LessIs, Sentinels
        <5> HIDE DEF m
        <5>4. x = m \/ m[1] < x[1]
          BY <3>1, <5>1, <5>2, BeforeOrders
        <5> QED BY <5>3, <5>4
      <4> QED BY <2>1, <4>1, <4>2 DEF Closest
    <3> QED BY <3>2, <3>3
  <2> QED BY <2>1, <2>2, <2>3, NextAbove
<1>4. D \subseteq P
  <2> HIDE DEF P, D
  <2> QED BY <1>1, <1>3, LaterInduction
<1> QED BY <1>4

LEMMA Heights ==
    ASSUME NEW nxt, NEW prv, NEW N, Shape(nxt, prv, N)
    PROVE  /\ \A n \in DOMAIN nxt : 0 \in DOMAIN nxt[n] /\ DOMAIN nxt[n] \subseteq Levels
           /\ \A n \in DOMAIN nxt, i \in Levels, j \in Levels :
                  i \in DOMAIN nxt[n] /\ j < i => j \in DOMAIN nxt[n]
           /\ 0 \in Levels /\ Of(N, nxt, 0) = N /\ Of(N \union {head}, nxt, 0) = N \union {head}
<1>1. MAX_LEVEL \in Nat \ {0}
  BY SkipListAssumption
<1>2. ASSUME NEW n \in DOMAIN nxt
      PROVE  /\ 0 \in DOMAIN nxt[n] /\ DOMAIN nxt[n] \subseteq Levels
             /\ \A i \in Levels, j \in Levels : i \in DOMAIN nxt[n] /\ j < i => j \in DOMAIN nxt[n]
  <2>1. PICK h \in 1..MAX_LEVEL : DOMAIN nxt[n] = 0..(h - 1)
    BY DEF Shape
  <2> QED BY <1>1, <2>1 DEF Levels
<1>3. 0 \in Levels
  BY <1>1 DEF Levels
<1>4. N \union {head} \subseteq DOMAIN nxt
  BY DEF Shape
<1>5. Of(N, nxt, 0) = N /\ Of(N \union {head}, nxt, 0) = N \union {head}
  BY <1>2, <1>4 DEF Of
<1> QED BY <1>2, <1>3, <1>5

LEMMA PathIs ==
    ASSUME NEW N, Stored(N), NEW k \in Int
    PROVE  /\ Path(k)[level] = head
           /\ \A i \in 0..(level - 1) : Closest(N, i, k, Path(k)[i])
<1> DEFINE D == DOMAIN next
           op == [t \in (0..level) \X [0..level -> D] |-> PathStep(k, t[2], t[1])]
<1>1. /\ level \in 0..(MAX_LEVEL - 1) /\ MAX_LEVEL \in Nat \ {0} /\ level \in Nat
      /\ Linked(next, prev, N, End) /\ head \in D /\ Shape(next, prev, N)
  BY SkipListAssumption DEF Stored, Linked, Shape
<1>2. \A i \in 0..level : i # level => i \in Levels /\ i + 1 \in 0..level /\ i + 1 > i
  BY <1>1 DEF Levels
<1>3. \A i \in Levels, n \in D : Walk(i, k)[n] \in D
  BY <1>1, WalkIs
<1>4. \A i \in 0..level, g \in [0..level -> D] : PathStep(k, g, i) \in D
  BY <1>1, <1>2, <1>3 DEF PathStep
<1>5. \A i \in 0..level, g \in [0..level -> D] : op[<<i, g>>] = PathStep(k, g, i)
  OBVIOUS
<1>6. op \in [(0..level) \X [0..level -> D] -> D]
  BY <1>4
<1>7. ASSUME NEW i \in 0..level, NEW g \in [0..level -> D], NEW h \in [0..level -> D],
             \A e \in 0..level : e > i => g[e] = h[e]
      PROVE  op[<<i, g>>] = op[<<i, h>>]
  <2> HIDE DEF op, D
  <2>1. PathStep(k, g, i) = PathStep(k, h, i)
    BY <1>2, <1>7 DEF PathStep
  <2> QED BY <1>5, <2>1
<1>8. FromLater(level, D, op)
  <2> HIDE DEF op, D
  <2> QED BY <1>1, <1>6, <1>7 DEF FromLater
<1> HIDE DEF op, D
<1>9. Definable(level, D, op)
  BY <1>1, <1>8, DownRecursion, Zenon
<1>10. PICK f : f = [i \in 0..level |-> PathStep(k, f, i)]
  BY <1>9 DEF op, Definable
<1> DEFINE g == Path(k)
<1>11. g = [i \in 0..level |-> PathStep(k, g, i)]
  BY <1>10 DEF Path
<1> HIDE DEF g
<1>12. \A i \in 0..level : g[i] = IF i = level THEN head ELSE Walk(i, k)[g[i + 1]]
  BY <1>11 DEF PathStep
<1>13. g[level] = head
  BY <1>1, <1>12
<1> DEFINE P == {i \in 0..level : i # level => Closest(N, i, k, g[i])}
<1>14. ASSUME NEW i \in 0..level, \A e \in 0..level : e > i => e \in P PROVE i \in P
  <2>1. SUFFICES ASSUME i # level PROVE Closest(N, i, k, g[i])
    OBVIOUS
  <2>2. i \in Levels /\ i + 1 \in 0..level /\ i + 1 > i /\ g[i] = Walk(i, k)[g[i + 1]]
    BY <1>2, <1>12, <2>1
  <2>3. g[i + 1] \in Of(N \union {head}, next, i) /\ Less(g[i + 1], k)
    <3>1. CASE i + 1 = level
      <4>1. head \in Of(N \union {head}, next, i)
        BY <1>1, <2>2, LinkedAscends
      <4> QED BY <1>13, <3>1, <4>1, LessIs
    <3>2. CASE i + 1 # level
      <4>1. i + 1 \in Levels
        BY <1>2, <2>2, <3>2
      <4>2. Closest(N, i + 1, k, g[i + 1])
        BY <1>14, <2>2, <3>2
      <4>3. g[i + 1] \in N \union {head} /\ i + 1 \in DOMAIN next[g[i + 1]] /\ Less(g[i + 1], k)
        BY <4>2 DEF Closest, Of
      <4>4. g[i + 1] \in DOMAIN next
        BY <1>1, <4>3 DEF Shape
      <4>5. i \in DOMAIN next[g[i + 1]]
        BY <1>1, <2>2, <4>1, <4>3, <4>4, Heights
      <4> QED BY <4>3, <4>5 DEF Of
    <3> QED BY <3>1, <3>2
  <2> HIDE DEF P
  <2> QED BY <1>1, <2>2, <2>3, WalkEnds
<1>15. \A i \in 0..level : i \in P
  <2> HIDE DEF P
  <2> QED BY <1>1, <1>14, DownInduction
<1>16. \A i \in 0..(level - 1) : i \in 0..level /\ i # level
  BY <1>1
<1> QED BY <1>13, <1>15, <1>16 DEF g

LEMMA LowerIs ==
    ASSUME NEW N, Stored(N), NEW k \in Int
    PROVE  /\ Path(k)[0] \in N \union {head} /\ Less(Path(k)[0], k)
           /\ \A x \in N : Less(x, k) => ~Before(Path(k)[0], x)
<1>1. /\ Shape(next, prev, N) /\ level \in 0..(MAX_LEVEL - 1) /\ MAX_LEVEL \in Nat
      /\ \A n \in N : \A i \in DOMAIN next[n] : i < level
  BY SkipListAssumption DEF Stored, Linked
<1>2. /\ \A n \in N : 0 \in DOMAIN next[n]
      /\ Of(N, next, 0) = N /\ Of(N \union {head}, next, 0) = N \union {head}
  <2>1. N \subseteq DOMAIN next
    BY <1>1 DEF Shape
  <2> QED BY <1>1, <2>1, Heights
<1>3. CASE level = 0
  <2>1. N = {}
    BY <1>1, <1>2, <1>3
  <2>2. Path(k)[0] = head
    BY <1>3, PathIs
  <2> QED BY <2>1, <2>2, LessIs
<1>4. CASE level # 0
  <2>1. 0 \in 0..(level - 1)
    BY <1>1, <1>4
  <2>2. Closest(N, 0, k, Path(k)[0])
    BY <2>1, PathIs
  <2> QED BY <1>2, <2>2 DEF Closest
<1> QED BY <1>3, <1>4

(* What findClosestNode answers to GE, LT and EQ.                          *)
LEMMA Finds ==
    ASSUME NEW N, Stored(N), NEW k \in Int
    PROVE  /\ \/ FindGE(k) = Null /\ \A x \in N : x[1] < k
              \/ /\ FindGE(k) \in N /\ k <= FindGE(k)[1]
                 /\ \A x \in N : k <= x[1] => FindGE(k)[1] <= x[1]
           /\ \/ FindLT(k) = Null /\ \A x \in N : k <= x[1]
              \/ /\ FindLT(k) \in N /\ FindLT(k)[1] < k
                 /\ \A x \in N : x[1] < k => x[1] <= FindLT(k)[1]
           /\ \/ FindEQ(k) = Null /\ \A x \in N : x[1] # k
              \/ FindEQ(k) \in N /\ FindEQ(k)[1] = k
<1> DEFINE p == Path(k)[0]
           q == next[p][0]
<1>1. /\ Linked(next, prev, N, End) /\ Shape(next, prev, N) /\ N \subseteq DataNode
  BY DEF Stored, Linked, Shape
<1>2. /\ p \in N \union {head} /\ Less(p, k)
      /\ \A x \in N : Less(x, k) => ~Before(p, x)
  BY LowerIs
<1> HIDE DEF p
<1>3. 0 \in Levels /\ Of(N, next, 0) = N /\ Of(N \union {head}, next, 0) = N \union {head}
  BY <1>1, Heights
<1>4. \/ q \in {tail, Null} /\ \A x \in N : ~Before(p, x)
      \/ /\ q \in N /\ Before(p, q)
         /\ \A x \in N : Before(p, x) => x = q \/ Before(q, x)
  <2>1. \/ next[p][0] = End /\ End \in {tail, Null} /\ \A x \in Of(N \union {head}, next, 0) : ~Before(p, x)
        \/ /\ next[p][0] \in Of(N, next, 0) /\ next[p][0] # Null /\ Before(p, next[p][0])
           /\ \A x \in Of(N \union {head}, next, 0) :
                  Before(p, x) => x = next[p][0] \/ Before(next[p][0], x)
    <3>1. p \in Of(N \union {head}, next, 0)
      BY <1>2, <1>3
    <3> QED BY <1>1, <1>3, <3>1, NextAbove
  <2> QED BY <1>3, <2>1
<1> HIDE DEF q
<1>5. /\ \A x \in N : x[1] \in Int /\ IsData(x) /\ x # Null /\ (Less(x, k) <=> x[1] < k)
      /\ \A x, y \in N : Before(x, y) <=> x[1] < y[1]
      /\ \A x \in N : Before(head, x) /\ head # x
      /\ ~IsData(head) /\ ~IsData(tail) /\ ~IsData(Null)
      /\ \A x, y \in N : x = y \/ Before(x, y) \/ Before(y, x)
      /\ \A x \in N : ~Before(x, head)
  <2>1. \A x \in N : x[1] \in Int /\ IsData(x) /\ x # Null /\ (Less(x, k) <=> x[1] < k)
    BY <1>1, Sentinels, LessIs DEF Node
  <2>2. \A x, y \in N : Before(x, y) <=> x[1] < y[1]
    BY <1>1, BeforeOrders
  <2>3. \A x \in N : Before(head, x) /\ head # x /\ ~Before(x, head)
    BY <1>1, Sentinels, BeforeOrders DEF Node
  <2>4. ~IsData(head) /\ ~IsData(tail) /\ ~IsData(Null)
    BY DEF IsData
  <2>5. \A x, y \in N : x = y \/ Before(x, y) \/ Before(y, x)
    BY <1>1, Total
  <2> QED BY <2>1, <2>2, <2>3, <2>4, <2>5
<1>6. FindGE(k) = (IF IsData(q) THEN q ELSE Null) /\ FindLT(k) = (IF IsData(p) THEN p ELSE Null)
  BY DEF FindGE, FindLT, DataNodeOrNull, p, q
<1>7. \A x \in N : x[1] < k \/ Before(p, x)
  <2>1. CASE p = head
    BY <1>5, <2>1
  <2>2. CASE p \in N
    BY <1>2, <1>5, <2>2
  <2> QED BY <1>2, <2>1, <2>2
<1>8. \/ FindGE(k) = Null /\ \A x \in N : x[1] < k
      \/ /\ FindGE(k) \in N /\ k <= FindGE(k)[1]
         /\ \A x \in N : k <= x[1] => FindGE(k)[1] <= x[1]
  <2>1. CASE q \in {tail, Null} /\ \A x \in N : ~Before(p, x)
    BY <1>5, <1>6, <1>7, <2>1
  <2>2. CASE /\ q \in N /\ Before(p, q)
             /\ \A x \in N : Before(p, x) => x = q \/ Before(q, x)
    <3>1. FindGE(k) = q /\ ~(q[1] < k) /\ q[1] \in Int
      BY <1>2, <1>5, <1>6, <2>2
    <3>2. ASSUME NEW x \in N, k <= x[1] PROVE q[1] <= x[1]
      <4>1. Before(p, x) /\ x[1] \in Int
        BY <1>5, <1>7, <3>2
      <4>2. x = q \/ q[1] < x[1]
        BY <1>5, <2>2, <4>1
      <4> QED BY <3>1, <4>1, <4>2
    <3> QED BY <2>2, <3>1, <3>2
  <2> QED BY <1>4, <2>1, <2>2
<1>9. \/ FindLT(k) = Null /\ \A x \in N : k <= x[1]
      \/ /\ FindLT(k) \in N /\ FindLT(k)[1] < k
         /\ \A x \in N : x[1] < k => x[1] <= FindLT(k)[1]
  <2>1. CASE p = head
    BY <1>2, <1>5, <1>6, <2>1
  <2>2. CASE p \in N
    <3>1. FindLT(k) = p /\ p[1] < k /\ p[1] \in Int
      BY <1>2, <1>5, <1>6, <2>2
    <3>2. \A x \in N : x[1] < k => x[1] <= p[1]
      BY <1>2, <1>5, <2>2, <3>1
    <3> QED BY <2>2, <3>1, <3>2
  <2> QED BY <1>2, <2>1, <2>2
<1>10. \/ FindEQ(k) = Null /\ \A x \in N : x[1] # k
       \/ FindEQ(k) \in N /\ FindEQ(k)[1] = k
  <2>1. FindEQ(k) = IF FindGE(k) # Null /\ FindGE(k)[1] = k THEN FindGE(k) ELSE Null
    BY DEF FindEQ
  <2>2. CASE FindGE(k) = Null /\ \A x \in N : x[1] < k
    BY <1>5, <2>1, <2>2
  <2>3. CASE /\ FindGE(k) \in N /\ k <= FindGE(k)[1]
             /\ \A x \in N : k <= x[1] => FindGE(k)[1] <= x[1]
    <3> DEFINE f == FindGE(k)
    <3>1. f \in N /\ f # Null /\ f[1] \in Int /\ k <= f[1] /\ \A x \in N : k <= x[1] => f[1] <= x[1]
      BY <1>5, <2>3
    <3>2. FindEQ(k) = IF f[1] = k THEN f ELSE Null
      BY <2>1, <3>1
    <3> HIDE DEF f
    <3>3. f[1] # k => \A x \in N : x[1] # k
      BY <1>5, <3>1
    <3> QED BY <3>1, <3>2, <3>3
  <2> QED BY <1>8, <2>2, <2>3
<1> QED BY <1>8, <1>9, <1>10

----------------------------------------------------------------------------
(* Nodes that are still kept *)

LEMMA KeptIs ==
    ASSUME NEW nxt, NEW prv, NEW N, NEW end, Linked(nxt, prv, N, end)
    PROVE  /\ Kept(nxt, prv) \subseteq DOMAIN nxt
           /\ N \union {head, tail} \subseteq Kept(nxt, prv)
           /\ \A i \in Levels : prv[tail][i] \in Kept(nxt, prv)
<1>1. /\ Shape(nxt, prv, N) /\ end \in {tail, Null} /\ N \union {head, tail} \subseteq DOMAIN nxt
      /\ Null \notin DOMAIN nxt
  BY Sentinels DEF Linked, Shape
<1>2. \A i \in Levels : prv[tail][i] \in DOMAIN nxt
  BY DEF Linked, Stale
<1>3. ASSUME NEW i \in Levels
      PROVE  Chain(nxt, i)[head] = Of(N \union {head}, nxt, i) \union ({end} \ {Null})
  BY ChainIsAbove
<1> DEFINE Part(i) == Chain(nxt, i)[head] \union ({prv[tail][i]} \ {Null})
<1>4. Kept(nxt, prv) = {tail} \union UNION {Part(i) : i \in Levels}
  BY DEF Kept
<1>5. \A i \in Levels : Part(i) \subseteq DOMAIN nxt
  BY <1>1, <1>2, <1>3 DEF Of
<1>6. 0 \in Levels /\ N \union {head} \subseteq Part(0)
  <2>1. 0 \in Levels /\ Of(N \union {head}, nxt, 0) = N \union {head}
    BY <1>1, Heights
  <2> QED BY <1>3, <2>1
<1>7. \A i \in Levels : prv[tail][i] \in Part(i)
  BY <1>1, <1>2
<1> HIDE DEF Part
<1> QED BY <1>1, <1>4, <1>5, <1>6, <1>7

LEMMA RestrictLinked ==
    ASSUME NEW nxt, NEW prv, NEW N, NEW end, Linked(nxt, prv, N, end),
           NEW K, K \subseteq DOMAIN nxt, N \union {head, tail} \subseteq K,
           \A i \in Levels : prv[tail][i] \in K
    PROVE  Linked([n \in K |-> nxt[n]], [n \in K |-> prv[n]], N, end)
<1> DEFINE nx == [n \in K |-> nxt[n]]
           pv == [n \in K |-> prv[n]]
<1>1. DOMAIN nx = K /\ DOMAIN pv = K /\ \A n \in K : nx[n] = nxt[n] /\ pv[n] = prv[n]
  OBVIOUS
<1> HIDE DEF nx, pv
<1>2. Shape(nxt, prv, N) /\ end \in {tail, Null} /\ head \in K /\ tail \in K /\ N \subseteq K
  BY DEF Linked
<1>3. Shape(nx, pv, N)
  <2>1. IsFiniteSet(K)
    BY <1>2, FS_Subset DEF Shape
  <2> QED BY <1>1, <1>2, <2>1 DEF Shape
<1>4. ASSUME NEW i \in Levels
      PROVE  /\ Of(N, nx, i) = Of(N, nxt, i) /\ Of(N \union {head}, nx, i) = Of(N \union {head}, nxt, i)
             /\ Of(N \union ({end} \ {Null}), nx, i) = Of(N \union ({end} \ {Null}), nxt, i)
             /\ Of(N \union {head}, nxt, i) \subseteq K /\ Of(N \union ({end} \ {Null}), nxt, i) \subseteq K
  BY <1>1, <1>2 DEF Of
<1>5. Forward(nx, N, end)
  <2>1. ASSUME NEW i \in Levels, NEW n \in Of(N \union {head}, nx, i)
        PROVE  Follows(nx, N, end, i, n, nx[n][i])
    <3>1. Follows(nxt, N, end, i, n, nxt[n][i])
      BY <1>4, <2>1 DEF Linked, Forward
    <3>2. nx[n][i] = nxt[n][i]
      BY <1>1, <1>4, <2>1
    <3> QED BY <1>4, <3>1, <3>2 DEF Follows
  <2> QED BY <2>1 DEF Forward
<1>6. Backward(nx, pv, N, end)
  <2>1. ASSUME NEW i \in Levels, NEW n \in Of(N \union ({end} \ {Null}), nx, i)
        PROVE  pv[n][i] \in Of(N \union {head}, nx, i) /\ nx[pv[n][i]][i] = n
    <3>1. prv[n][i] \in Of(N \union {head}, nxt, i) /\ nxt[prv[n][i]][i] = n /\ n \in K
      BY <1>4, <2>1 DEF Linked, Backward
    <3>2. pv[n][i] = prv[n][i] /\ prv[n][i] \in K
      BY <1>1, <1>4, <3>1
    <3> QED BY <1>1, <1>4, <3>1, <3>2
  <2> QED BY <2>1 DEF Backward
<1>7. Stale(nx, pv, N)
  <2>1. \A n \in K \ (N \union {head}) : \A i \in DOMAIN nxt[n] : nxt[n][i] = Null
    BY DEF Linked, Stale
  <2> QED BY <1>1, <1>2, <2>1 DEF Stale
<1>8. Linked(nx, pv, N, end)
  BY <1>2, <1>3, <1>5, <1>6, <1>7 DEF Linked
<1> QED BY <1>8 DEF nx, pv

LEMMA InitLinked == ASSUME Init PROVE Linked(next, prev, {}, tail)
<1>1. MAX_LEVEL \in Nat \ {0}
  BY SkipListAssumption
<1>2. /\ DOMAIN next = {head, tail} /\ DOMAIN prev = {head, tail}
      /\ \A n \in {head, tail} : DOMAIN next[n] = Levels /\ DOMAIN prev[n] = Levels
      /\ \A i \in Levels : next[head][i] = tail /\ next[tail][i] = Null /\ prev[tail][i] = head
  BY Sentinels DEF Init
<1>3. Shape(next, prev, {})
  <2>1. IsFiniteSet({head, tail})
    <3>1. IsFiniteSet({}) /\ {head, tail} = ({} \union {head}) \union {tail}
      BY FS_EmptySet
    <3>2. IsFiniteSet({} \union {head})
      BY <3>1, FS_AddElement
    <3>3. IsFiniteSet(({} \union {head}) \union {tail})
      BY <3>2, FS_AddElement
    <3> QED BY <3>1, <3>3
  <2>2. MAX_LEVEL \in 1..MAX_LEVEL /\ Levels = 0..(MAX_LEVEL - 1)
    BY <1>1 DEF Levels
  <2> QED BY <1>2, <2>1, <2>2 DEF Shape, Node
<1>4. \A i : Of({}, next, i) = {}
  BY DEF Of
<1>5. Forward(next, {}, tail)
  <2>1. ASSUME NEW i \in Levels, NEW n \in Of({} \union {head}, next, i)
        PROVE  Follows(next, {}, tail, i, n, next[n][i])
    <3>1. n = head /\ next[n][i] = tail
      BY <1>2, <2>1 DEF Of
    <3> QED BY <1>4, <3>1, BeforeOrders DEF Follows
  <2> QED BY <2>1 DEF Forward
<1>6. Backward(next, prev, {}, tail)
  <2>1. ASSUME NEW i \in Levels, NEW n \in Of({} \union ({tail} \ {Null}), next, i)
        PROVE  prev[n][i] \in Of({} \union {head}, next, i) /\ next[prev[n][i]][i] = n
    <3>1. n = tail
      BY <2>1 DEF Of
    <3> QED BY <1>2, <3>1 DEF Of
  <2> QED BY <2>1 DEF Backward
<1>7. Stale(next, prev, {})
  BY <1>2 DEF Stale
<1> QED BY <1>3, <1>5, <1>6, <1>7 DEF Linked

(* A new node that stands, on each of its levels, behind the last node     *)
(* before it.                                                              *)
Places(N, new, h, after) ==
    /\ h \in 1..MAX_LEVEL /\ DOMAIN after = 0..(h - 1)
    /\ \A i \in 0..(h - 1) :
        /\ after[i] \in Of(N \union {head}, next, i) /\ Before(after[i], new)
        /\ \A x \in Of(N, next, i) : Before(x, new) => ~Before(after[i], x)

LEMMA InsertLinked ==
    ASSUME NEW N, NEW end, Linked(next, prev, N, end),
           NEW new \in DataNode, new \notin DOMAIN next, \A x \in N : x[1] # new[1],
           NEW h, NEW after, Places(N, new, h, after)
    PROVE  Linked(LinkedNext(new, after), LinkedPrev(new, after), N \union {new}, end)
<1> DEFINE nx == LinkedNext(new, after)
           pv == LinkedPrev(new, after)
           D  == DOMAIN next
           M  == N \union {new}
<1>1. /\ Shape(next, prev, N) /\ end \in {tail, Null} /\ N \subseteq DataNode /\ N \subseteq D
      /\ head \in D /\ tail \in D /\ D \subseteq Node /\ DOMAIN prev = D
      /\ \A n \in D : DOMAIN prev[n] = DOMAIN next[n]
      /\ new # head /\ new # tail /\ new # Null /\ head # tail /\ new \in Node
  BY Sentinels DEF Linked, Shape, Node
<1>2. /\ h \in 1..MAX_LEVEL /\ DOMAIN after = 0..(h - 1) /\ MAX_LEVEL \in Nat
      /\ \A i \in DOMAIN after :
            /\ after[i] \in Of(N \union {head}, next, i) /\ Before(after[i], new)
            /\ \A x \in Of(N, next, i) : Before(x, new) => ~Before(after[i], x)
            /\ i \in Levels
  <2>1. /\ h \in 1..MAX_LEVEL /\ DOMAIN after = 0..(h - 1) /\ MAX_LEVEL \in Nat
        /\ \A i \in 0..(h - 1) :
            /\ after[i] \in Of(N \union {head}, next, i) /\ Before(after[i], new)
            /\ \A x \in Of(N, next, i) : Before(x, new) => ~Before(after[i], x)
    BY SkipListAssumption DEF Places
  <2>2. \A i \in 0..(h - 1) : i \in Levels
    BY <2>1 DEF Levels
  <2> QED BY <2>1, <2>2
<1>3. /\ DOMAIN nx = D \union {new} /\ DOMAIN nx[new] = DOMAIN after
      /\ \A i \in DOMAIN after : nx[new][i] = next[after[i]][i]
      /\ \A n \in D : DOMAIN nx[n] = DOMAIN next[n]
      /\ \A n \in D : \A i \in DOMAIN next[n] :
            nx[n][i] = IF i \in DOMAIN after /\ after[i] = n THEN new ELSE next[n][i]
  BY DEF LinkedNext
<1>4. /\ DOMAIN pv = D \union {new} /\ pv[new] = after
      /\ \A n \in D : DOMAIN pv[n] = DOMAIN next[n]
      /\ \A n \in D : \A i \in DOMAIN next[n] :
            pv[n][i] = IF i \in DOMAIN after /\ next[after[i]][i] = n THEN new ELSE prev[n][i]
  BY <1>1 DEF LinkedPrev
<1> HIDE DEF nx, pv, D
<1>5. \A i \in DOMAIN after : after[i] \in D /\ i \in DOMAIN next[after[i]] /\ after[i] \in N \union {head}
  BY <1>1, <1>2 DEF Of
<1>6. ASSUME NEW i \in Levels, NEW x
      PROVE  /\ x \in Of(M, nx, i) <=> x \in Of(N, next, i) \/ (x = new /\ i \in DOMAIN after)
             /\ x \in Of(M \union {head}, nx, i)
                <=> x \in Of(N \union {head}, next, i) \/ (x = new /\ i \in DOMAIN after)
  BY <1>1, <1>3 DEF Of, D
<1>7. Shape(nx, pv, M)
  <2>1. IsFiniteSet(D \union {new})
    BY FS_AddElement DEF Linked, Shape, D
  <2>2. D \union {new} \subseteq Node /\ M \subseteq D \union {new} /\ M \subseteq DataNode
    BY <1>1 DEF Node
  <2>3. DOMAIN nx[head] = Levels /\ DOMAIN nx[tail] = Levels
    BY <1>1, <1>3 DEF Shape
  <2>4. \A n \in D \union {new} : /\ DOMAIN pv[n] = DOMAIN nx[n]
                                  /\ \E l \in 1..MAX_LEVEL : DOMAIN nx[n] = 0..(l - 1)
    <3>1. \A n \in D : \E l \in 1..MAX_LEVEL : DOMAIN nx[n] = 0..(l - 1)
      BY <1>1, <1>3 DEF Shape, D
    <3> QED BY <1>2, <1>3, <1>4, <3>1
  <2>5. \A m, n \in M : m[1] = n[1] => m = n
    BY <1>1 DEF Shape
  <2> QED BY <1>1, <1>3, <1>4, <2>1, <2>2, <2>3, <2>4, <2>5 DEF Shape
<1>8. Forward(nx, M, end)
  <2>1. SUFFICES ASSUME NEW i \in Levels, NEW n \in Of(M \union {head}, nx, i)
                 PROVE  Follows(nx, M, end, i, n, nx[n][i])
    BY DEF Forward
  <2>2. ASSUME i \in DOMAIN after, n = new PROVE Follows(nx, M, end, i, n, nx[n][i])
    <3> DEFINE a == after[i]
               m == next[a][i]
    <3>1. nx[n][i] = m
      BY <1>3, <2>2
    <3>2. a \in Of(N \union {head}, next, i) /\ Before(a, new) /\ a \in Node
          /\ \A x \in Of(N, next, i) : Before(x, new) => ~Before(a, x)
      BY <1>1, <1>2, <1>5, <2>2 DEF Node
    <3>3. Follows(next, N, end, i, a, m)
      BY <3>2 DEF Linked, Forward
    <3> HIDE DEF a, m
    <3>4. m = end \/ m \in Of(N, next, i)
      BY <3>3 DEF Follows
    <3>5. Before(new, m)
      <4>1. CASE m = end
        BY <1>1, <4>1, BeforeOrders
      <4>2. CASE m \in Of(N, next, i)
        <5>1. ~Before(m, new) /\ m \in N /\ m \in DataNode
          BY <1>1, <3>2, <3>3, <4>2 DEF Follows, Of
        <5>2. m[1] # new[1] /\ m[1] \in Int /\ new[1] \in Int /\ ~(m[1] < new[1])
          BY <5>1, Sentinels, BeforeOrders
        <5> QED BY <5>1, <5>2, BeforeOrders
      <4> QED BY <3>4, <4>1, <4>2
    <3>6. ASSUME NEW x \in Of(M, nx, i), Before(new, x), Before(x, m) PROVE FALSE
      <4>1. x # new
        BY <1>1, <3>6, BeforeOrders
      <4>2. x \in Of(N, next, i) /\ x \in Node
        BY <1>1, <1>6, <4>1 DEF Of
      <4>3. Before(a, x)
        BY <1>1, <3>2, <3>6, <4>2, BeforeOrders
      <4> QED BY <3>3, <3>6, <4>2, <4>3 DEF Follows
    <3>7. m = end \/ m \in Of(M, nx, i)
      BY <1>6, <3>4
    <3> QED BY <2>2, <3>1, <3>5, <3>6, <3>7 DEF Follows
  <2>3. ASSUME i \in DOMAIN after, n = after[i] PROVE Follows(nx, M, end, i, n, nx[n][i])
    <3>1. nx[n][i] = new
      BY <1>3, <1>5, <2>3
    <3>2. new \in Of(M, nx, i) /\ Before(n, new)
      BY <1>2, <1>6, <2>3
    <3>3. \A x \in Of(M, nx, i) : ~(Before(n, x) /\ Before(x, new))
      <4>1. \A x \in Of(N, next, i) : ~(Before(n, x) /\ Before(x, new))
        BY <1>2, <2>3
      <4>2. ~Before(new, new)
        BY <1>1, BeforeOrders
      <4> QED BY <1>6, <4>1, <4>2
    <3> QED BY <3>1, <3>2, <3>3 DEF Follows
  <2>4. ASSUME n # new, ~(i \in DOMAIN after /\ n = after[i])
        PROVE  Follows(nx, M, end, i, n, nx[n][i])
    <3> DEFINE m == next[n][i]
    <3>1. n \in Of(N \union {head}, next, i)
      BY <1>6, <2>4
    <3>2. n \in N \union {head} /\ n \in D /\ n \in Node /\ i \in DOMAIN next[n]
      BY <1>1, <3>1 DEF Of, Node
    <3>3. nx[n][i] = m
      BY <1>3, <2>4, <3>2
    <3>4. Follows(next, N, end, i, n, m)
      BY <3>1 DEF Linked, Forward
    <3> HIDE DEF m
    <3>5. ASSUME i \in DOMAIN after, Before(n, new), Before(new, m) PROVE FALSE
      <4>1. after[i] \in N \union {head} /\ after[i] \in Of(N \union {head}, next, i) /\ after[i] \in Node
            /\ Before(after[i], new)
        BY <1>1, <1>2, <1>5, <3>5 DEF Node
      <4>2. m \in Node \union {Null}
        BY <1>1, <3>4 DEF Follows, Of, Node
      <4>3. Before(after[i], m)
        BY <1>1, <3>5, <4>1, <4>2, BeforeOrders
      <4>4. CASE Before(n, after[i])
        <5>1. after[i] \in Of(N, next, i)
          BY <3>2, <4>1, <4>4, BeforeOrders DEF Of
        <5> QED BY <3>4, <4>3, <4>4, <5>1 DEF Follows
      <4>5. CASE Before(after[i], n)
        <5>1. n \in Of(N, next, i)
          BY <3>1, <3>2, <4>1, <4>5, BeforeOrders DEF Of
        <5> QED BY <1>2, <3>5, <4>5, <5>1
      <4> QED BY <1>1, <2>4, <3>2, <3>5, <4>1, <4>4, <4>5, Total
    <3>6. \A x \in Of(M, nx, i) : ~(Before(n, x) /\ Before(x, m))
      BY <1>6, <3>4, <3>5 DEF Follows
    <3>7. m = end \/ m \in Of(M, nx, i)
      BY <1>6, <3>4 DEF Follows
    <3> QED BY <3>3, <3>4, <3>6, <3>7 DEF Follows
  <2>5. n = new => i \in DOMAIN after
    BY <1>1, <1>3, <2>1 DEF Of
  <2> QED BY <2>2, <2>3, <2>4, <2>5
<1>9. Backward(nx, pv, M, end)
  <2>1. SUFFICES ASSUME NEW i \in Levels, NEW n \in Of(M \union ({end} \ {Null}), nx, i)
                 PROVE  pv[n][i] \in Of(M \union {head}, nx, i) /\ nx[pv[n][i]][i] = n
    BY DEF Backward
  <2>2. CASE n = new
    <3>1. i \in DOMAIN after
      BY <1>3, <2>1, <2>2 DEF Of
    <3>2. pv[n][i] = after[i] /\ after[i] \in Of(M \union {head}, nx, i) /\ nx[after[i]][i] = new
      BY <1>2, <1>3, <1>4, <1>5, <1>6, <2>2, <3>1
    <3> QED BY <2>2, <3>2
  <2>3. CASE n # new
    <3>1. n \in Of(N \union ({end} \ {Null}), next, i) /\ n \in D /\ i \in DOMAIN next[n]
      BY <1>1, <1>3, <2>1, <2>3 DEF Of
    <3>2. CASE i \in DOMAIN after /\ next[after[i]][i] = n
      <4>1. pv[n][i] = new
        BY <1>4, <3>1, <3>2
      <4> QED BY <1>3, <1>6, <3>2, <4>1
    <3>3. CASE ~(i \in DOMAIN after /\ next[after[i]][i] = n)
      <4>1. pv[n][i] = prev[n][i]
        BY <1>4, <3>1, <3>3
      <4>2. prev[n][i] \in Of(N \union {head}, next, i) /\ next[prev[n][i]][i] = n
        BY <3>1 DEF Linked, Backward
      <4>3. prev[n][i] \in D /\ i \in DOMAIN next[prev[n][i]]
        BY <1>1, <4>2 DEF Of
      <4>4. nx[prev[n][i]][i] = n
        BY <1>3, <3>3, <4>2, <4>3
      <4> QED BY <1>6, <4>1, <4>2, <4>4
    <3> QED BY <3>2, <3>3
  <2> QED BY <2>2, <2>3
<1>10. Stale(nx, pv, M)
  <2>1. ASSUME NEW n \in DOMAIN nx \ (M \union {head}), NEW i \in DOMAIN nx[n] PROVE nx[n][i] = Null
    <3>1. n \in D \ (N \union {head}) /\ i \in DOMAIN next[n]
      BY <1>3, <2>1
    <3>2. next[n][i] = Null
      BY <3>1 DEF Linked, Stale, D
    <3> QED BY <1>3, <1>5, <3>1, <3>2
  <2>2. ASSUME NEW i \in Levels PROVE pv[tail][i] \in DOMAIN nx
    <3>1. prev[tail][i] \in D /\ i \in DOMAIN next[tail]
      BY DEF Linked, Stale, Shape, D
    <3>2. pv[tail][i] \in {new, prev[tail][i]}
      BY <1>1, <1>4, <3>1
    <3> QED BY <1>3, <3>1, <3>2
  <2> QED BY <2>1, <2>2 DEF Stale
<1>11. Linked(nx, pv, M, end)
  <2> HIDE DEF M
  <2> QED BY <1>1, <1>7, <1>8, <1>9, <1>10 DEF Linked
<1> QED BY <1>11 DEF nx, pv

LEMMA UnlinkLinked ==
    ASSUME NEW N, NEW end, Linked(next, prev, N, end), NEW r \in N
    PROVE  Linked(UnlinkedNext(r), UnlinkedPrev(r), N \ {r}, end)
<1> DEFINE nx == UnlinkedNext(r)
           pv == UnlinkedPrev(r)
           D  == DOMAIN next
           R  == DOMAIN next[r]
           M  == N \ {r}
<1>1. /\ Shape(next, prev, N) /\ end \in {tail, Null} /\ N \subseteq DataNode /\ N \subseteq D
      /\ head \in D /\ tail \in D /\ D \subseteq Node /\ DOMAIN prev = D
      /\ \A n \in D : DOMAIN prev[n] = DOMAIN next[n]
      /\ r # head /\ r # tail /\ r # Null /\ head # tail /\ r \in Node /\ r \in D
  BY Sentinels DEF Linked, Shape, Node
<1>2. /\ DOMAIN nx = D /\ \A n \in D : DOMAIN nx[n] = DOMAIN next[n]
      /\ \A n \in D : \A i \in DOMAIN next[n] :
            nx[n][i] = IF n = r THEN Null
                       ELSE IF i \in R /\ prev[r][i] = n THEN next[r][i] ELSE next[n][i]
  BY <1>1 DEF UnlinkedNext
<1>3. /\ DOMAIN pv = D /\ \A n \in D : DOMAIN pv[n] = DOMAIN next[n]
      /\ \A n \in D : \A i \in DOMAIN next[n] :
            pv[n][i] = IF n = r THEN Null
                       ELSE IF i \in R /\ next[r][i] = n THEN prev[r][i] ELSE prev[n][i]
  BY <1>1 DEF UnlinkedPrev
<1> HIDE DEF nx, pv
<1>4. ASSUME NEW i \in Levels, NEW x
      PROVE  /\ x \in Of(M, nx, i) <=> x \in Of(N, next, i) /\ x # r
             /\ x \in Of(M \union {head}, nx, i) <=> x \in Of(N \union {head}, next, i) /\ x # r
             /\ x \in Of(N \union {head}, next, i) => x \in D /\ x \in Node /\ i \in DOMAIN next[x]
             /\ x \in Of(N, next, i) => x \in Of(N \union {head}, next, i)
  BY <1>1, <1>2 DEF Of
<1>5. ASSUME NEW i \in R
      PROVE  /\ i \in Levels /\ r \in Of(N, next, i)
             /\ prev[r][i] \in Of(N \union {head}, next, i) /\ next[prev[r][i]][i] = r
             /\ Before(prev[r][i], r) /\ prev[r][i] # r
             /\ Follows(next, N, end, i, r, next[r][i])
  <2>1. i \in Levels
    BY <1>1, Heights
  <2>2. r \in Of(N, next, i) /\ r \in Of(N \union {head}, next, i)
        /\ r \in Of(N \union ({end} \ {Null}), next, i)
    BY DEF Of
  <2>3. prev[r][i] \in Of(N \union {head}, next, i) /\ next[prev[r][i]][i] = r
    BY <2>1, <2>2 DEF Linked, Backward
  <2>4. Follows(next, N, end, i, prev[r][i], r) /\ Follows(next, N, end, i, r, next[r][i])
    BY <2>1, <2>2, <2>3 DEF Linked, Forward
  <2> HIDE DEF D, R
  <2> QED BY <1>1, <2>1, <2>2, <2>3, <2>4, BeforeOrders DEF Follows
(* Only the node before r leads to it.                                     *)
<1>6. ASSUME NEW i \in Levels, NEW n \in Of(N \union {head}, next, i), next[n][i] = r
      PROVE  i \in R /\ prev[r][i] = n
  <2>1. Follows(next, N, end, i, n, r)
    BY <1>6 DEF Linked, Forward
  <2>2. i \in R
    BY <1>1, <2>1 DEF Follows, Of
  <2> DEFINE p == prev[r][i]
  <2>3. Follows(next, N, end, i, p, r) /\ p \in Of(N \union {head}, next, i) /\ p \in N \union {head}
    BY <1>5, <2>2 DEF Linked, Forward, Of
  <2> HIDE DEF p
  <2>4. n \in N \union {head} /\ n \in Node /\ p \in Node
    BY <1>1, <2>3 DEF Of, Node
  <2>5. CASE Before(n, p)
    <3>1. p \in Of(N, next, i)
      BY <2>3, <2>4, <2>5, BeforeOrders DEF Of
    <3> QED BY <2>1, <2>3, <2>5, <3>1 DEF Follows
  <2>6. CASE Before(p, n)
    <3>1. n \in Of(N, next, i)
      BY <2>3, <2>4, <2>6, BeforeOrders DEF Of
    <3> QED BY <2>1, <2>3, <2>6, <3>1 DEF Follows
  <2>7. CASE n = p
    BY <2>2, <2>7 DEF p
  <2> QED BY <1>1, <2>3, <2>4, <2>5, <2>6, <2>7, Total
<1> HIDE DEF D, R
<1>7. Shape(nx, pv, M)
  BY <1>1, <1>2, <1>3 DEF Shape, D
<1>8. Forward(nx, M, end)
  <2>1. SUFFICES ASSUME NEW i \in Levels, NEW n \in Of(M \union {head}, nx, i)
                 PROVE  Follows(nx, M, end, i, n, nx[n][i])
    BY DEF Forward
  <2>2. n \in Of(N \union {head}, next, i) /\ n # r /\ n \in D /\ n \in Node /\ i \in DOMAIN next[n]
    BY <1>4
  <2>3. CASE i \in R /\ prev[r][i] = n
    <3> DEFINE m == next[r][i]
    <3>1. nx[n][i] = m
      BY <1>2, <2>2, <2>3
    <3>2. Follows(next, N, end, i, r, m) /\ next[n][i] = r /\ Before(n, r) /\ r \in Of(N, next, i)
      BY <1>5, <2>3
    <3> HIDE DEF m
    <3>3. m \in Node \union {Null} /\ m # r
      <4>1. ~Before(r, r)
        BY <1>1, BeforeOrders
      <4> QED BY <1>1, <1>4, <3>2, <4>1 DEF Follows, Node
    <3>4. Before(n, m)
      BY <1>1, <2>2, <3>2, <3>3, BeforeOrders DEF Follows
    <3>5. ASSUME NEW x \in Of(M, nx, i), Before(n, x), Before(x, m) PROVE FALSE
      <4>1. x \in Of(N, next, i) /\ x # r /\ x \in Of(N \union {head}, next, i)
        BY <1>4
      <4>2. Before(r, x)
        BY <1>1, <2>2, <3>2, <3>5, <4>1, NextAbove
      <4> QED BY <3>2, <3>5, <4>1, <4>2 DEF Follows
    <3>6. m = end \/ m \in Of(M, nx, i)
      BY <1>4, <3>2, <3>3 DEF Follows
    <3> QED BY <3>1, <3>4, <3>5, <3>6 DEF Follows
  <2>4. CASE ~(i \in R /\ prev[r][i] = n)
    <3>1. nx[n][i] = next[n][i] /\ next[n][i] # r
      BY <1>2, <1>6, <2>2, <2>4
    <3>2. Follows(next, N, end, i, n, next[n][i])
      BY <2>2 DEF Linked, Forward
    <3> QED BY <1>4, <3>1, <3>2 DEF Follows
  <2> QED BY <2>3, <2>4
<1>9. Backward(nx, pv, M, end)
  <2>1. SUFFICES ASSUME NEW i \in Levels, NEW n \in Of(M \union ({end} \ {Null}), nx, i)
                 PROVE  pv[n][i] \in Of(M \union {head}, nx, i) /\ nx[pv[n][i]][i] = n
    BY DEF Backward
  <2>2. n \in Of(N \union ({end} \ {Null}), next, i) /\ n # r /\ n \in D /\ i \in DOMAIN next[n]
    BY <1>1, <1>2, <2>1 DEF Of
  <2>3. CASE i \in R /\ next[r][i] = n
    <3>1. pv[n][i] = prev[r][i] /\ prev[r][i] \in Of(N \union {head}, next, i) /\ prev[r][i] # r
      BY <1>3, <1>5, <2>2, <2>3
    <3>2. nx[prev[r][i]][i] = next[r][i]
      BY <1>2, <1>4, <2>3, <3>1
    <3> QED BY <1>4, <2>3, <3>1, <3>2
  <2>4. CASE ~(i \in R /\ next[r][i] = n)
    <3> DEFINE p == prev[n][i]
    <3>1. pv[n][i] = p
      BY <1>3, <2>2, <2>4
    <3>2. p \in Of(N \union {head}, next, i) /\ next[p][i] = n
      BY <2>2 DEF Linked, Backward
    <3> HIDE DEF p
    <3>3. p # r
      BY <2>4, <3>2 DEF Of, R
    <3>4. ~(i \in R /\ prev[r][i] = p)
      BY <1>5, <2>2, <3>2
    <3>5. nx[p][i] = n
      BY <1>2, <1>4, <3>2, <3>3, <3>4
    <3> QED BY <1>4, <3>1, <3>2, <3>3, <3>5
  <2> QED BY <2>3, <2>4
<1>10. Stale(nx, pv, M)
  <2>1. ASSUME NEW n \in DOMAIN nx \ (M \union {head}), NEW i \in DOMAIN nx[n] PROVE nx[n][i] = Null
    <3>1. n \in D /\ i \in DOMAIN next[n]
      BY <1>2, <2>1
    <3>2. CASE n # r
      <4>1. n \in D \ (N \union {head})
        BY <2>1, <3>1, <3>2
      <4>2. next[n][i] = Null
        BY <3>1, <4>1 DEF Linked, Stale, D
      <4>3. ~(i \in R /\ prev[r][i] = n)
        BY <1>5, <4>1 DEF Of
      <4> QED BY <1>2, <3>1, <3>2, <4>2, <4>3
    <3> QED BY <1>2, <3>1, <3>2
  <2>2. ASSUME NEW i \in Levels PROVE pv[tail][i] \in DOMAIN nx
    <3>1. prev[tail][i] \in D /\ i \in DOMAIN next[tail]
      BY DEF Linked, Stale, Shape, D
    <3>2. pv[tail][i] = IF i \in R /\ next[r][i] = tail THEN prev[r][i] ELSE prev[tail][i]
      BY <1>1, <1>3, <3>1
    <3>3. i \in R => prev[r][i] \in D
      BY <1>4, <1>5
    <3> QED BY <1>2, <3>1, <3>2, <3>3
  <2> QED BY <2>1, <2>2 DEF Stale
<1>11. Linked(nx, pv, M, end)
  <2> HIDE DEF M
  <2> QED BY <1>1, <1>7, <1>8, <1>9, <1>10 DEF Linked
<1> QED BY <1>11 DEF nx, pv

(* What clear leaves.                                                      *)
ClearedNext ==
    [n \in DOMAIN next |->
        [i \in DOMAIN next[n] |-> IF n \in Chain(next, i)[head] THEN Null ELSE next[n][i]]]

LEMMA ClearLinked ==
    ASSUME NEW N, NEW end, Linked(next, prev, N, end)
    PROVE  Linked(ClearedNext, prev, {}, Null)
<1> DEFINE nx == ClearedNext
           D  == DOMAIN next
<1>1. /\ Shape(next, prev, N) /\ N \subseteq D /\ head \in D /\ tail \in D
      /\ DOMAIN next[head] = Levels /\ DOMAIN next[tail] = Levels
  BY DEF Linked, Shape
<1>2. /\ DOMAIN nx = D /\ \A n \in D : DOMAIN nx[n] = DOMAIN next[n]
      /\ \A n \in D : \A i \in DOMAIN next[n] :
            nx[n][i] = IF n \in Chain(next, i)[head] THEN Null ELSE next[n][i]
  BY DEF ClearedNext
<1> HIDE DEF nx
<1>3. ASSUME NEW i \in Levels, NEW n \in Of(N \union {head}, next, i)
      PROVE  n \in Chain(next, i)[head]
  <2>1. Chain(next, i)[head] = Of(N \union {head}, next, i) \union ({end} \ {Null})
    BY ChainIsAbove
  <2> QED BY <2>1
<1>4. ASSUME NEW n \in D, NEW i \in DOMAIN next[n]
      PROVE  nx[n][i] = Null
  <2>1. i \in Levels
    BY <1>1, Heights
  <2>2. CASE n \in N \union {head}
    <3>1. n \in Of(N \union {head}, next, i)
      BY <2>2 DEF Of
    <3> QED BY <1>2, <1>3, <2>1, <3>1
  <2>3. CASE n \notin N \union {head}
    <3>1. next[n][i] = Null
      BY <2>3 DEF Linked, Stale
    <3> QED BY <1>2, <3>1
  <2> QED BY <2>2, <2>3
<1>5. Shape(nx, prev, {})
  BY <1>1, <1>2 DEF Shape
<1>6. Forward(nx, {}, Null)
  <2>1. ASSUME NEW i \in Levels, NEW n \in Of({} \union {head}, nx, i)
        PROVE  Follows(nx, {}, Null, i, n, nx[n][i])
    <3>1. n = head /\ nx[n][i] = Null
      BY <1>1, <1>2, <1>4, <2>1 DEF Of
    <3> QED BY <3>1, BeforeOrders DEF Follows, Of
  <2> QED BY <2>1 DEF Forward
<1>7. Backward(nx, prev, {}, Null)
  BY DEF Backward, Of
<1>8. Stale(nx, prev, {})
  BY <1>2, <1>4 DEF Linked, Stale
<1> QED BY <1>5, <1>6, <1>7, <1>8 DEF Linked, nx

----------------------------------------------------------------------------
(* What the nodes stand for *)

NodeOf(N, k) == CHOOSE n \in N : n[1] = k
MapOf(N, val) == [k \in KeysOf(N) |-> val[NodeOf(N, k)]]
ContentOf(nxt, val) == MapOf({n \in Chain(nxt, 0)[head] : IsData(n)}, val)

Distinct(N) == \A m, n \in N : m[1] = n[1] => m = n

LEMMA NodeOfIs ==
    ASSUME NEW N, Distinct(N)
    PROVE  /\ \A n \in N : NodeOf(N, n[1]) = n /\ n[1] \in KeysOf(N)
           /\ \A k \in KeysOf(N) : NodeOf(N, k) \in N /\ NodeOf(N, k)[1] = k
<1>1. ASSUME NEW k \in KeysOf(N) PROVE NodeOf(N, k) \in N /\ NodeOf(N, k)[1] = k
  <2>1. \E n \in N : n[1] = k
    BY DEF KeysOf
  <2> QED BY <2>1 DEF NodeOf
<1>2. \A n \in N : n[1] \in KeysOf(N)
  BY DEF KeysOf
<1> QED BY <1>1, <1>2 DEF Distinct

LEMMA LiveNodes ==
    ASSUME NEW nxt, NEW prv, NEW N, NEW end, Linked(nxt, prv, N, end)
    PROVE  /\ {n \in Chain(nxt, 0)[head] : IsData(n)} = N
           /\ Chain(nxt, 0)[head] \ {head, tail} = N
           /\ Distinct(N) /\ IsFiniteSet(KeysOf(N))
<1>1. Shape(nxt, prv, N) /\ N \subseteq DataNode /\ end \in {tail, Null} /\ N \subseteq DOMAIN nxt
      /\ IsFiniteSet(DOMAIN nxt) /\ Distinct(N)
  BY DEF Linked, Shape, Distinct
<1>2. 0 \in Levels /\ Of(N \union {head}, nxt, 0) = N \union {head}
  BY <1>1, Heights
<1>3. Chain(nxt, 0)[head] = N \union {head} \union ({end} \ {Null})
  BY <1>2, ChainIsAbove
<1>4. \A n \in N : IsData(n) /\ n # head /\ n # tail
  BY <1>1, Sentinels
<1>5. ~IsData(head) /\ ~IsData(tail)
  BY DEF IsData
<1>6. IsFiniteSet(KeysOf(N))
  <2> DEFINE f == [n \in N |-> n[1]]
  <2>1. IsFiniteSet(N)
    BY <1>1, FS_Subset
  <2>2. f \in Surjection(N, KeysOf(N))
    BY DEF KeysOf, Surjection
  <2> HIDE DEF f
  <2> QED BY <2>1, <2>2, FS_Surjection
<1> QED BY <1>1, <1>3, <1>4, <1>5, <1>6

LEMMA ContentIs ==
    ASSUME NEW nxt, NEW prv, NEW N, NEW end, Linked(nxt, prv, N, end), NEW val
    PROVE  ContentOf(nxt, val) = MapOf(N, val)
<1>1. {n \in Chain(nxt, 0)[head] : IsData(n)} = N
  BY LiveNodes
<1> QED BY <1>1 DEF ContentOf

LEMMA ContentNow == Content = ContentOf(next, value)
BY DEF Content, ContentOf, MapOf, NodeOf, KeysOf

----------------------------------------------------------------------------
(* Each operation, on the nodes and on what they stand for *)

PutMap(N, val, k, v) ==
    [x \in KeysOf(N) \union {k} |-> IF x = k THEN v ELSE MapOf(N, val)[x]]

LEMMA LinksLink ==
    ASSUME NEW nxt, NEW prv, NEW val, NEW M, NEW end, Linked(nxt, prv, M, end),
           Links(nxt, prv, val)
    PROVE  /\ Linked(next', prev', M, end)
           /\ M \union {head, tail} \subseteq DOMAIN next'
           /\ \A n \in M \union {head, tail} : next'[n] = nxt[n] /\ prev'[n] = prv[n]
           /\ DOMAIN value' = DOMAIN next' \ {head, tail}
           /\ \A n \in M : value'[n] = val[n]
<1> DEFINE K == Kept(nxt, prv)
<1>1. /\ next' = [n \in K |-> nxt[n]] /\ prev' = [n \in K |-> prv[n]]
      /\ value' = [n \in K \ {head, tail} |-> val[n]]
  BY DEF Links
<1>2. /\ K \subseteq DOMAIN nxt /\ M \union {head, tail} \subseteq K
      /\ \A i \in Levels : prv[tail][i] \in K
  BY KeptIs
<1> HIDE DEF K
<1>3. Linked([n \in K |-> nxt[n]], [n \in K |-> prv[n]], M, end)
  BY <1>2, RestrictLinked
<1>4. M \subseteq K \ {head, tail}
  <2>1. M \subseteq DataNode
    BY DEF Linked, Shape
  <2> QED BY <1>2, <2>1, Sentinels
<1> QED BY <1>1, <1>2, <1>3, <1>4

LEMMA SetValueStores ==
    ASSUME NEW N, Stored(N), NEW n \in N, NEW v \in Val, setValue(n, v)
    PROVE  Stored(N)' /\ MapOf(N, value') = PutMap(N, value, n[1], v)
           /\ n[1] \in KeysOf(N) /\ MapOf(N, value)[n[1]] = value[n]
<1>1. /\ value' = [value EXCEPT ![n] = v] /\ next' = next /\ prev' = prev
      /\ level' = level /\ size' = size /\ harm' = harm
  BY DEF setValue
<1>2. /\ Linked(next, prev, N, End) /\ N \subseteq DOMAIN value /\ Distinct(N)
      /\ DOMAIN value = DOMAIN next \ {head, tail} /\ \A x \in N : value[x] \in Val
  <2>1. N \subseteq DOMAIN next /\ N \subseteq DataNode /\ Distinct(N)
    BY DEF Stored, Linked, Shape, Distinct
  <2> QED BY <2>1, Sentinels DEF Stored
<1>3. DOMAIN value' = DOMAIN value /\ \A x \in N : value'[x] = IF x = n THEN v ELSE value[x]
  BY <1>1, <1>2
<1>4. Stored(N)'
  BY <1>1, <1>2, <1>3 DEF Stored, End
<1>5. /\ \A x \in N : NodeOf(N, x[1]) = x /\ x[1] \in KeysOf(N)
      /\ \A k \in KeysOf(N) : NodeOf(N, k) \in N /\ NodeOf(N, k)[1] = k
  BY <1>2, NodeOfIs
<1>6. MapOf(N, value)[n[1]] = value[n]
  BY <1>5 DEF MapOf
<1>7. \A k \in KeysOf(N) : value'[NodeOf(N, k)] = IF k = n[1] THEN v ELSE MapOf(N, value)[k]
  BY <1>3, <1>5 DEF MapOf
<1>8. KeysOf(N) \union {n[1]} = KeysOf(N)
  BY <1>5
<1>9. MapOf(N, value') = PutMap(N, value, n[1], v)
  <2>1. MapOf(N, value') = [k \in KeysOf(N) |-> value'[NodeOf(N, k)]]
    BY DEF MapOf
  <2> QED BY <1>7, <1>8, <2>1 DEF PutMap
<1> QED BY <1>4, <1>5, <1>6, <1>9

(* Where put links a new node.                                             *)
LEMMA PathPlaces ==
    ASSUME NEW N, Stored(N), NEW k \in Key, NEW new \in DataNode, new[1] = k,
           NEW h \in Drawn
    PROVE  Places(N, new, h, [i \in 0..(h - 1) |-> IF i < level THEN Path(k)[i] ELSE head])
<1> DEFINE after == [i \in 0..(h - 1) |-> IF i < level THEN Path(k)[i] ELSE head]
<1>1. /\ h \in 1..MAX_LEVEL /\ k \in Int /\ MAX_LEVEL \in Nat
      /\ level \in Nat /\ N \subseteq DataNode /\ Linked(next, prev, N, End)
      /\ \A n \in N : \A i \in DOMAIN next[n] : i < level
  BY SkipListAssumption DEF Stored, Linked, Shape
<1>2. ASSUME NEW i \in 0..(h - 1)
      PROVE  /\ after[i] \in Of(N \union {head}, next, i) /\ Before(after[i], new)
             /\ \A x \in Of(N, next, i) : Before(x, new) => ~Before(after[i], x)
  <2>1. i \in Levels
    BY <1>1 DEF Levels
  <2>2. CASE i < level
    <3>1. after[i] = Path(k)[i] /\ i \in 0..(level - 1)
      BY <1>1, <2>2
    <3> HIDE DEF after
    <3>2. Closest(N, i, k, after[i])
      BY <1>1, <3>1, PathIs
    <3>3. after[i] \in Of(N \union {head}, next, i) /\ after[i] \in N \union {head} /\ Less(after[i], k)
      BY <3>2 DEF Closest, Of
    <3>4. \A x \in N : Less(x, k) <=> Before(x, new)
      BY <1>1, LessIs, BeforeOrders
    <3>5. Before(after[i], new)
      BY <3>3, <3>4, BeforeOrders
    <3>6. \A x \in Of(N, next, i) : Before(x, new) => ~Before(after[i], x)
      BY <3>2, <3>4 DEF Closest, Of
    <3> QED BY <3>3, <3>5, <3>6
  <2>3. CASE ~(i < level)
    <3>1. after[i] = head
      BY <2>3
    <3> HIDE DEF after
    <3>2. head \in Of(N \union {head}, next, i)
      BY <1>1, <2>1, LinkedAscends
    <3>3. Of(N, next, i) = {}
      BY <1>1, <2>3 DEF Of
    <3> QED BY <3>1, <3>2, <3>3, BeforeOrders
  <2> QED BY <2>2, <2>3
<1>3. DOMAIN after = 0..(h - 1)
  OBVIOUS
<1> HIDE DEF after
<1>4. Places(N, new, h, after)
  BY <1>1, <1>2, <1>3 DEF Places
<1> QED BY <1>4 DEF after

LEMMA InsertStores ==
    ASSUME MAX_LEVEL \notin Drawn,
           NEW N, Stored(N), NEW k \in Key, NEW v \in Val, NEW h \in Drawn, Insert(k, v, h)
    PROVE  /\ k \notin KeysOf(N) /\ harm' = harm
           /\ \E M \in SUBSET DataNode :
                Stored(M)' /\ MapOf(M, value') = PutMap(N, value, k, v)
<1> DEFINE after == [i \in 0..(h - 1) |-> IF i < level THEN Path(k)[i] ELSE head]
<1>1. PICK g \in {0, 1} :
        /\ <<k, g>> \notin DOMAIN next
        /\ Links(LinkedNext(<<k, g>>, after), LinkedPrev(<<k, g>>, after),
                 [n \in DOMAIN value \union {<<k, g>>} |-> IF n = <<k, g>> THEN v ELSE value[n]])
  BY DEF Insert
<1> DEFINE new == <<k, g>>
           val == [n \in DOMAIN value \union {new} |-> IF n = new THEN v ELSE value[n]]
           M == N \union {new}
<1>2. /\ FindEQ(k) = Null /\ level' = (IF h > level THEN h ELSE level)
      /\ size' = size + 1 /\ harm' = harm
  BY DEF Insert
<1>3. Links(LinkedNext(new, after), LinkedPrev(new, after), val) /\ new \notin DOMAIN next
  BY <1>1
<1>4. new \in DataNode /\ new[1] = k
  BY DEF DataNode
<1>5. /\ Linked(next, prev, N, End) /\ N \subseteq DOMAIN next /\ N \subseteq DataNode /\ Distinct(N)
      /\ \A n \in N : n \in DOMAIN value /\ value[n] \in Val
      /\ level \in 0..(MAX_LEVEL - 1) /\ \A n \in N : \A i \in DOMAIN next[n] : i < level
      /\ size = Cardinality(KeysOf(N))
  <2>1. N \subseteq DOMAIN next /\ N \subseteq DataNode /\ Distinct(N)
    BY DEF Stored, Linked, Shape, Distinct
  <2> QED BY <2>1, Sentinels DEF Stored
<1>6. k \in Int /\ h \in 1..MAX_LEVEL /\ h # MAX_LEVEL /\ MAX_LEVEL \in Nat
  BY SkipListAssumption
<1>7. \A x \in N : x[1] # k
  <2>1. Null \notin N
    BY <1>5, Sentinels DEF Node
  <2> QED BY <1>2, <1>6, <2>1, Finds
<1>8. k \notin KeysOf(N)
  BY <1>7 DEF KeysOf
<1>9. Places(N, new, h, after)
  <2> HIDE DEF new
  <2> QED BY <1>4, PathPlaces
<1>10. DOMAIN after = 0..(h - 1)
  OBVIOUS
<1> HIDE DEF new, after
<1>11. Linked(LinkedNext(new, after), LinkedPrev(new, after), M, End)
  BY <1>3, <1>4, <1>5, <1>7, <1>9, InsertLinked
<1>12. /\ new \notin N /\ \A n \in N : val[n] = value[n]
       /\ val[new] = v /\ \A n \in M : val[n] \in Val
  BY <1>3, <1>5
<1> HIDE DEF val
<1>13. /\ Linked(next', prev', M, End)
       /\ \A n \in M : next'[n] = LinkedNext(new, after)[n] /\ value'[n] = val[n]
       /\ DOMAIN value' = DOMAIN next' \ {head, tail}
  <2> HIDE DEF M
  <2> QED BY <1>3, <1>11, LinksLink
<1>14. End' = End
  BY <1>2 DEF End
<1>15. level' \in 0..(MAX_LEVEL - 1) /\ \A n \in M : \A i \in DOMAIN next'[n] : i < level'
  <2>1. level' \in 0..(MAX_LEVEL - 1) /\ level <= level' /\ h <= level' /\ level' \in Nat
    BY <1>2, <1>5, <1>6
  <2>2. \A n \in N : DOMAIN next'[n] = DOMAIN next[n]
    BY <1>3, <1>5, <1>13 DEF LinkedNext
  <2>3. DOMAIN next'[new] = 0..(h - 1)
    BY <1>10, <1>13 DEF LinkedNext
  <2>4. \A n \in N : \A i \in DOMAIN next[n] : i \in Int
    <3>1. Shape(next, prev, N)
      BY <1>5 DEF Linked
    <3>2. \A n \in DOMAIN next : DOMAIN next[n] \subseteq Levels
      BY <3>1, Heights
    <3>3. \A i \in Levels : i \in Int
      BY DEF Levels
    <3> QED BY <1>5, <3>2, <3>3
  <2>5. \A n \in N : \A i \in DOMAIN next'[n] : i < level'
    BY <1>5, <2>1, <2>2, <2>4
  <2>6. \A i \in DOMAIN next'[new] : i < level'
    BY <1>6, <2>1, <2>3
  <2> QED BY <2>1, <2>5, <2>6
<1>16. KeysOf(M) = KeysOf(N) \union {k}
  BY <1>4 DEF KeysOf
<1>17. size' = Cardinality(KeysOf(M))
  <2>1. IsFiniteSet(KeysOf(N))
    BY <1>5, LiveNodes
  <2>2. Cardinality(KeysOf(N) \union {k}) = Cardinality(KeysOf(N)) + 1
    BY <1>8, <2>1, FS_AddElement
  <2> QED BY <1>2, <1>5, <1>16, <2>2
<1>18. Stored(M)'
  <2>1. \A n \in M : value'[n] \in Val
    BY <1>12, <1>13
  <2> HIDE DEF M
  <2> QED BY <1>13, <1>14, <1>15, <1>17, <2>1 DEF Stored
<1>19. Distinct(M)
  BY <1>4, <1>5, <1>7 DEF Distinct
<1>20. MapOf(M, value') = PutMap(N, value, k, v)
  <2>1. /\ \A x \in KeysOf(M) : NodeOf(M, x) \in M /\ NodeOf(M, x)[1] = x
        /\ NodeOf(M, k) = new
    <3> HIDE DEF M
    <3>1. new \in M
      BY DEF M
    <3> QED BY <1>4, <1>19, <3>1, NodeOfIs
  <2>2. \A x \in KeysOf(N) : NodeOf(N, x) \in N /\ NodeOf(N, x)[1] = x
    BY <1>5, NodeOfIs
  <2>3. \A x \in KeysOf(N) : NodeOf(M, x) = NodeOf(N, x)
    <3>1. ASSUME NEW x \in KeysOf(N) PROVE NodeOf(M, x) = NodeOf(N, x)
      <4>1. NodeOf(N, x) \in M /\ NodeOf(M, x) \in M /\ NodeOf(N, x)[1] = x /\ NodeOf(M, x)[1] = x
        BY <1>16, <2>1, <2>2
      <4> HIDE DEF M
      <4> QED BY <1>19, <4>1 DEF Distinct
    <3> QED BY <3>1
  <2>4. \A x \in KeysOf(N) : x # k /\ value'[NodeOf(M, x)] = MapOf(N, value)[x]
    BY <1>8, <1>12, <1>13, <2>2, <2>3 DEF MapOf
  <2>5. value'[NodeOf(M, k)] = v
    BY <1>12, <1>13, <2>1
  <2>6. MapOf(M, value') = [x \in KeysOf(N) \union {k} |-> value'[NodeOf(M, x)]]
    BY <1>16 DEF MapOf
  <2> HIDE DEF M
  <2> QED BY <2>4, <2>5, <2>6 DEF PutMap
<1>21. M \in SUBSET DataNode
  BY <1>4, <1>5
<1> HIDE DEF M
<1> QED BY <1>2, <1>8, <1>18, <1>20, <1>21

LEMMA RemoveStores ==
    ASSUME MAX_LEVEL \notin Drawn,
           NEW N, Stored(N), NEW k \in Key, remove(k), FindEQ(k) # Null, harm = "none"
    PROVE  /\ k \in KeysOf(N) /\ harm' = "none"
           /\ reply' = [op |-> "remove", key |-> k, val |-> Null, res |-> MapOf(N, value)[k]]
           /\ \E M \in SUBSET DataNode :
                Stored(M)' /\ MapOf(M, value') = [x \in KeysOf(N) \ {k} |-> MapOf(N, value)[x]]
<1>0. PICK r \in N : r = FindEQ(k) /\ r[1] = k
  <2>1. k \in Int
    BY SkipListAssumption
  <2> QED BY <2>1, Finds
<1> DEFINE M == N \ {r}
<1>1. /\ Links(UnlinkedNext(r), UnlinkedPrev(r), value)
      /\ level' = LevelAfter(UnlinkedNext(r)) /\ size' = SizeAfter /\ harm' = "none"
      /\ reply' = [op |-> "remove", key |-> k, val |-> Null,
                   res |-> IF level = MAX_LEVEL THEN "thrown" ELSE value[r]]
  BY <1>0 DEF remove, Replies
<1>2. k \in Int /\ MAX_LEVEL \in Nat \ {0}
  BY SkipListAssumption
<1>3. r \in N /\ r[1] = k
  BY <1>0
<1>4. /\ Linked(next, prev, N, tail) /\ End = tail /\ N \subseteq DOMAIN next /\ N \subseteq DataNode
      /\ Distinct(N) /\ \A n \in N : value[n] \in Val
      /\ level \in 0..(MAX_LEVEL - 1) /\ \A n \in N : \A i \in DOMAIN next[n] : i < level
      /\ size = Cardinality(KeysOf(N)) /\ IsFiniteSet(KeysOf(N))
  <2>1. End = tail
    BY DEF End
  <2>2. Linked(next, prev, N, tail)
    BY <2>1 DEF Stored
  <2>3. N \subseteq DOMAIN next /\ N \subseteq DataNode /\ Distinct(N) /\ IsFiniteSet(KeysOf(N))
    BY <2>2, LiveNodes DEF Linked, Shape
  <2> QED BY <2>1, <2>2, <2>3 DEF Stored
<1>5. Linked(UnlinkedNext(r), UnlinkedPrev(r), M, tail)
  BY <1>3, <1>4, UnlinkLinked
<1>6. /\ Linked(next', prev', M, tail)
      /\ \A n \in M \union {head, tail} : next'[n] = UnlinkedNext(r)[n]
      /\ \A n \in M : value'[n] = value[n]
      /\ DOMAIN value' = DOMAIN next' \ {head, tail}
  <2> HIDE DEF M
  <2> QED BY <1>1, <1>5, LinksLink
<1>7. level # MAX_LEVEL /\ size' = size - 1 /\ level \in Levels /\ level \in Nat
  BY <1>1, <1>2, <1>4 DEF SizeAfter, Levels
(* The tail is on every level, so the loop that lowers it never runs.      *)
<1>8. level' = level
  <2> DEFINE nxt == UnlinkedNext(r)
  <2>1. nxt[head][level] # Null
    <3>1. head \in Of(M \union {head}, nxt, level)
      BY <1>5, <1>7, LinkedAscends
    <3>2. Follows(nxt, M, tail, level, head, nxt[head][level])
      BY <1>5, <1>7, <3>1 DEF Linked, Forward
    <3>3. M \subseteq DataNode
      BY <1>4
    <3> QED BY <3>2, <3>3, Sentinels DEF Follows, Of, Node
  <2> HIDE DEF nxt
  <2>2. LevelAfter(nxt) = CHOOSE l \in 0..level :
            /\ l > 0 => nxt[head][l] # Null
            /\ \A m \in (l + 1)..level : nxt[head][m] = Null
    BY <1>7 DEF LevelAfter
  <2> DEFINE Q(l) == /\ l > 0 => nxt[head][l] # Null
                     /\ \A m \in (l + 1)..level : nxt[head][m] = Null
  <2>3. level \in 0..level /\ Q(level)
    BY <1>7, <2>1
  <2>4. \A l \in 0..level : Q(l) => l = level
    <3>1. ASSUME NEW l \in 0..level, Q(l), l # level PROVE FALSE
      <4>1. level \in (l + 1)..level
        BY <1>7, <3>1
      <4> QED BY <2>1, <3>1, <4>1
    <3> QED BY <3>1
  <2>5. LevelAfter(nxt) = CHOOSE l \in 0..level : Q(l)
    BY <2>2
  <2> HIDE DEF Q
  <2>6. LevelAfter(nxt) = level
    BY <2>3, <2>4, <2>5
  <2> QED BY <1>1, <2>6 DEF nxt
<1>9. \A n \in M : DOMAIN next'[n] = DOMAIN next[n]
  BY <1>4, <1>6 DEF UnlinkedNext
<1>10. KeysOf(M) = KeysOf(N) \ {k} /\ k \in KeysOf(N)
  BY <1>3, <1>4 DEF KeysOf, Distinct
<1>11. size' = Cardinality(KeysOf(M))
  BY <1>4, <1>7, <1>10, FS_RemoveElement
<1>12. End' = tail
  BY <1>1 DEF End
<1>13. Stored(M)'
  <2>1. \A n \in M : value'[n] \in Val
    BY <1>4, <1>6
  <2>2. \A n \in M : \A i \in DOMAIN next'[n] : i < level'
    BY <1>4, <1>8, <1>9
  <2> HIDE DEF M
  <2> QED BY <1>4, <1>6, <1>8, <1>11, <1>12, <2>1, <2>2 DEF Stored
<1>14. Distinct(M)
  BY <1>4 DEF Distinct
<1>15. \A x \in KeysOf(N) : NodeOf(N, x) \in N /\ NodeOf(N, x)[1] = x
  BY <1>4, NodeOfIs
<1>16. \A x \in KeysOf(M) : NodeOf(M, x) \in M /\ NodeOf(M, x)[1] = x
  <2> HIDE DEF M
  <2> QED BY <1>14, NodeOfIs
<1>17. ASSUME NEW x \in KeysOf(M) PROVE value'[NodeOf(M, x)] = MapOf(N, value)[x]
  <2>1. NodeOf(M, x) \in M /\ NodeOf(M, x) \in N /\ NodeOf(M, x)[1] = x /\ x \in KeysOf(N)
    BY <1>10, <1>16
  <2>2. NodeOf(M, x) = NodeOf(N, x)
    BY <1>4, <1>15, <2>1 DEF Distinct
  <2> HIDE DEF M
  <2> QED BY <1>6, <2>1, <2>2 DEF MapOf
<1>18. MapOf(M, value') = [x \in KeysOf(N) \ {k} |-> MapOf(N, value)[x]]
  <2>1. MapOf(M, value') = [x \in KeysOf(M) |-> value'[NodeOf(M, x)]]
    BY DEF MapOf
  <2> HIDE DEF M
  <2> QED BY <1>10, <1>17, <2>1
<1>19. MapOf(N, value)[k] = value[r]
  <2>1. NodeOf(N, k) = r
    BY <1>3, <1>4, <1>10, <1>15 DEF Distinct
  <2> QED BY <1>10, <2>1 DEF MapOf
<1>20. M \in SUBSET DataNode
  BY <1>4
<1> HIDE DEF M
<1> QED BY <1>1, <1>7, <1>10, <1>13, <1>18, <1>19, <1>20

LEMMA ClearStores ==
    ASSUME NEW N, Stored(N), clear
    PROVE  Stored({})' /\ harm' = "cleared"
<1>1. /\ Links(ClearedNext, prev, value) /\ size' = 0 /\ harm' = "cleared" /\ level' = level
  BY DEF clear, ClearedNext
<1>2. Linked(ClearedNext, prev, {}, Null)
  BY ClearLinked DEF Stored
<1>3. Linked(next', prev', {}, Null) /\ DOMAIN value' = DOMAIN next' \ {head, tail}
  BY <1>1, <1>2, LinksLink
<1>4. End' = Null
  BY <1>1 DEF End
<1>5. KeysOf({}) = {} /\ Cardinality({}) = 0
  BY FS_EmptySet DEF KeysOf
<1> QED BY <1>1, <1>3, <1>4, <1>5 DEF Stored

LEMMA InitStores == ASSUME Init PROVE Stored({}) /\ harm = "none"
<1>1. Linked(next, prev, {}, tail)
  BY InitLinked
<1>2. /\ level = 0 /\ size = 0 /\ harm = "none" /\ DOMAIN value = {} /\ DOMAIN next = {head, tail}
  BY DEF Init
<1>3. End = tail /\ KeysOf({}) = {} /\ Cardinality({}) = 0
  BY <1>2, FS_EmptySet DEF KeysOf, End
<1>4. level \in 0..(MAX_LEVEL - 1)
  BY <1>2, SkipListAssumption
<1> QED BY <1>1, <1>2, <1>3, <1>4 DEF Stored


----------------------------------------------------------------------------
(* The steps *)

(* One call that KeyValue allows, from the nodes N to the nodes M.         *)
Calls(N, M) ==
    \/ \E k \in Key, v \in Val :
        /\ MapOf(M, value') = PutMap(N, value, k, v)
        /\ reply' = [op |-> "put", key |-> k, val |-> v,
                     res |-> IF k \in KeysOf(N) THEN MapOf(N, value)[k] ELSE Null]
    \/ \E k \in Key :
        /\ MapOf(M, value') = [x \in KeysOf(N) \ {k} |-> MapOf(N, value)[x]]
        /\ reply' = [op |-> "remove", key |-> k, val |-> Null,
                     res |-> IF k \in KeysOf(N) THEN MapOf(N, value)[k] ELSE Null]
    \/ M = {} /\ reply' = [op |-> "clear", key |-> Null, val |-> Null, res |-> Null]

Served(N) ==
    /\ harm' \in {"none", "cleared"}
    /\ \E M \in SUBSET DataNode : Stored(M)' /\ Calls(N, M)

LEMMA SetValueServes ==
    ASSUME NEW N \in SUBSET DataNode, Stored(N), harm \in {"none", "cleared"},
           NEW n \in N, NEW v \in Val, setValue(n, v)
    PROVE  Served(N)
<1>1. Stored(N)' /\ MapOf(N, value') = PutMap(N, value, n[1], v)
      /\ n[1] \in KeysOf(N) /\ MapOf(N, value)[n[1]] = value[n]
  BY SetValueStores
<1>2. n[1] \in Key
  BY Sentinels
<1>3. reply' = [op |-> "put", key |-> n[1], val |-> v, res |-> value[n]] /\ harm' = harm
  BY DEF setValue, Replies
<1>4. reply' = [op |-> "put", key |-> n[1], val |-> v,
                res |-> IF n[1] \in KeysOf(N) THEN MapOf(N, value)[n[1]] ELSE Null]
  BY <1>1, <1>3
<1>5. Calls(N, N)
  BY <1>1, <1>2, <1>4 DEF Calls
<1> QED BY <1>1, <1>3, <1>5 DEF Served

LEMMA PutServes ==
    ASSUME MAX_LEVEL \notin Drawn, NEW N \in SUBSET DataNode, Stored(N),
           harm \in {"none", "cleared"}, NEW k \in Key, NEW v \in Val, put(k, v)
    PROVE  Served(N)
<1>1. k \in Int
  BY SkipListAssumption
<1>2. CASE Overwrite(k, v)
  <2>1. FindEQ(k) # Null /\ setValue(FindEQ(k), v)
    BY <1>2 DEF Overwrite
  <2>2. PICK n \in N : n = FindEQ(k)
    BY <1>1, <2>1, Finds
  <2>3. setValue(n, v)
    BY <2>1, <2>2
  <2> QED BY <2>3, SetValueServes
<1>3. ASSUME NEW h \in Drawn, Insert(k, v, h) PROVE Served(N)
  <2>1. k \notin KeysOf(N) /\ harm' = harm
    BY <1>3, InsertStores
  <2>2. PICK M \in SUBSET DataNode : Stored(M)' /\ MapOf(M, value') = PutMap(N, value, k, v)
    BY <1>3, InsertStores
  <2>3. reply' = [op |-> "put", key |-> k, val |-> v, res |-> Null]
    BY <1>3 DEF Insert, Replies
  <2>4. reply' = [op |-> "put", key |-> k, val |-> v,
                  res |-> IF k \in KeysOf(N) THEN MapOf(N, value)[k] ELSE Null]
    BY <2>1, <2>3
  <2>5. Calls(N, M)
    BY <2>2, <2>4 DEF Calls
  <2> QED BY <2>1, <2>2, <2>5 DEF Served
<1> QED BY <1>2, <1>3 DEF put

LEMMA RemoveServes ==
    ASSUME MAX_LEVEL \notin Drawn, NEW N \in SUBSET DataNode, Stored(N),
           harm \in {"none", "cleared"}, NEW k \in Key, remove(k)
    PROVE  Served(N) \/ harm' = "lost"
<1>1. k \in Int
  BY SkipListAssumption
<1>2. CASE FindEQ(k) = Null
  <2>1. /\ UNCHANGED <<links, level, size, harm>>
        /\ reply' = [op |-> "remove", key |-> k, val |-> Null, res |-> Null]
    BY <1>2 DEF remove, Replies
  <2>2. Stored(N)'
    BY <2>1 DEF Stored, End, links
  <2>3. k \notin KeysOf(N)
    <3>1. \A x \in N : x # Null
      BY Sentinels DEF Node
    <3> QED BY <1>1, <1>2, <3>1, Finds DEF KeysOf
  <2>4. MapOf(N, value') = [x \in KeysOf(N) \ {k} |-> MapOf(N, value)[x]]
    <3>1. value' = value /\ KeysOf(N) \ {k} = KeysOf(N)
      BY <2>1, <2>3 DEF links
    <3> QED BY <3>1 DEF MapOf
  <2>5. reply' = [op |-> "remove", key |-> k, val |-> Null,
                  res |-> IF k \in KeysOf(N) THEN MapOf(N, value)[k] ELSE Null]
    BY <2>1, <2>3
  <2>6. Calls(N, N)
    BY <2>4, <2>5 DEF Calls
  <2> QED BY <2>1, <2>2, <2>6 DEF Served
<1>3. CASE FindEQ(k) # Null /\ harm = "none"
  <2>1. /\ k \in KeysOf(N) /\ harm' = "none"
        /\ reply' = [op |-> "remove", key |-> k, val |-> Null, res |-> MapOf(N, value)[k]]
    BY <1>3, RemoveStores
  <2>2. PICK M \in SUBSET DataNode :
            Stored(M)' /\ MapOf(M, value') = [x \in KeysOf(N) \ {k} |-> MapOf(N, value)[x]]
    BY <1>3, RemoveStores
  <2>3. reply' = [op |-> "remove", key |-> k, val |-> Null,
                  res |-> IF k \in KeysOf(N) THEN MapOf(N, value)[k] ELSE Null]
    BY <2>1
  <2>4. Calls(N, M)
    BY <2>2, <2>3 DEF Calls
  <2> QED BY <2>1, <2>2, <2>4 DEF Served
<1>4. CASE FindEQ(k) # Null /\ harm # "none"
  BY <1>4 DEF remove
<1> QED BY <1>2, <1>3, <1>4

LEMMA ClearServes ==
    ASSUME NEW N \in SUBSET DataNode, Stored(N), clear
    PROVE  Served(N)
<1>1. Stored({})' /\ harm' = "cleared"
  BY ClearStores
<1>2. reply' = [op |-> "clear", key |-> Null, val |-> Null, res |-> Null]
  BY DEF clear, Replies
<1>3. Calls(N, {})
  BY <1>2 DEF Calls
<1> QED BY <1>1, <1>3 DEF Served

LEMMA StepServes ==
    ASSUME MAX_LEVEL \notin Drawn, NEW N \in SUBSET DataNode, Stored(N),
           harm \in {"none", "cleared"}, Next
    PROVE  Served(N) \/ harm' = "lost"
<1>1. ASSUME NEW k \in Key, NEW v \in Val, put(k, v) PROVE Served(N)
  BY <1>1, PutServes
<1>2. ASSUME NEW n \in Chain(next, 0)[head] \ {head, tail}, NEW v \in Val, setValue(n, v)
      PROVE  Served(N)
  <2>1. n \in N
    BY LiveNodes DEF Stored
  <2> QED BY <1>2, <2>1, SetValueServes
<1>3. ASSUME NEW k \in Key, remove(k) PROVE Served(N) \/ harm' = "lost"
  BY <1>3, RemoveServes
<1>4. CASE clear
  BY <1>4, ClearServes
<1> QED BY <1>1, <1>2, <1>3, <1>4 DEF Next

LEMMA StutterStores ==
    ASSUME NEW N, Stored(N), UNCHANGED vars
    PROVE  Stored(N)' /\ harm' = harm
BY DEF Stored, End, vars, links

(* The list holds its nodes in order on every level, whatever was called.  *)
THEOREM InvariantHolds ==
    ASSUME MAX_LEVEL \notin Drawn
    PROVE  Spec => []SkipInv
<1>1. ASSUME Init PROVE SkipInv
  <2>1. Stored({}) /\ harm = "none"
    BY <1>1, InitStores
  <2> QED BY <2>1 DEF SkipInv
<1>2. ASSUME SkipInv, [Next]_vars PROVE SkipInv'
  <2>1. CASE harm = "lost"
    <3>1. harm' = harm
      BY <1>2, <2>1 DEF Next, vars
    <3> QED BY <2>1, <3>1 DEF SkipInv
  <2>2. CASE harm # "lost"
    <3>1. harm \in {"none", "cleared"}
      BY <1>2, <2>2 DEF SkipInv
    <3>2. PICK N \in SUBSET DataNode : Stored(N)
      BY <1>2, <2>2 DEF SkipInv
    <3>3. CASE Next
      BY <3>1, <3>2, <3>3, StepServes DEF Served, SkipInv
    <3>4. CASE UNCHANGED vars
      BY <3>1, <3>2, <3>4, StutterStores DEF SkipInv
    <3> QED BY <1>2, <3>3, <3>4
  <2> QED BY <2>1, <2>2
<1> QED BY <1>1, <1>2, PTL DEF Spec

(* The map that the nodes stand for changes and answers as KeyValue says   *)
(* it must, through all the levels, until a removal after a clear.         *)
THEOREM SortedMapImplemented ==
    ASSUME MAX_LEVEL \notin Drawn
    PROVE  Spec => ImplementsMap
<1> DEFINE now == IF harm # "lost" THEN Content ELSE [k \in {} |-> Null]
<1>1. ASSUME Init PROVE Map!Init
  <2>1. Stored({}) /\ harm = "none"
    BY <1>1, InitStores
  <2>2. Content = MapOf({}, value)
    BY <2>1, ContentIs, ContentNow DEF Stored
  <2>3. KeysOf({}) = {}
    BY DEF KeysOf
  <2>4. DOMAIN Content = {}
    BY <2>2, <2>3 DEF MapOf
  <2> QED BY <1>1, <2>1, <2>4 DEF Init, Map!Init
<1>2. ASSUME SkipInv, SkipInv', [Next]_vars PROVE [Map!Next]_Map!vars
  <2>1. CASE UNCHANGED vars
    <3>1. Content' = Content /\ harm' = harm /\ reply' = reply
      BY <2>1 DEF vars, links, Content, Chain, On, ChainStep
    <3> QED BY <3>1 DEF Map!vars
  <2>2. CASE Next
    <3>1. CASE harm' = "lost"
      BY <3>1 DEF Map!Next
    <3>2. CASE harm' # "lost"
      <4>1. harm \in {"none", "cleared"}
        BY <1>2, <2>2 DEF SkipInv, Next
      <4>2. PICK N \in SUBSET DataNode : Stored(N)
        BY <1>2, <4>1 DEF SkipInv
      <4>3. Served(N)
        BY <2>2, <3>2, <4>1, <4>2, StepServes
      <4>4. PICK M \in SUBSET DataNode : Stored(M)' /\ Calls(N, M)
        BY <4>3 DEF Served
      <4>5. Content = MapOf(N, value)
        BY <4>2, ContentIs, ContentNow DEF Stored
      <4>6. Content' = MapOf(M, value')
        <5>1. Linked(next', prev', M, End')
          BY <4>4 DEF Stored
        <5>2. ContentOf(next', value') = MapOf(M, value')
          BY <5>1, ContentIs
        <5>3. Content' = ContentOf(next', value')
          BY DEF Content, ContentOf, MapOf, NodeOf, KeysOf
        <5> QED BY <5>2, <5>3
      <4>7. DOMAIN MapOf(N, value) = KeysOf(N) /\ DOMAIN MapOf(M, value') = KeysOf(M)
        BY DEF MapOf
      <4>8. now = MapOf(N, value) /\ now' = MapOf(M, value')
        BY <3>2, <4>1, <4>5, <4>6
      <4> HIDE DEF now
      <4>9. CASE \E k \in Key, v \in Val :
                    /\ MapOf(M, value') = PutMap(N, value, k, v)
                    /\ reply' = [op |-> "put", key |-> k, val |-> v,
                                 res |-> IF k \in KeysOf(N) THEN MapOf(N, value)[k] ELSE Null]
        <5>1. PICK k \in Key, v \in Val :
                    /\ MapOf(M, value') = PutMap(N, value, k, v)
                    /\ reply' = [op |-> "put", key |-> k, val |-> v,
                                 res |-> IF k \in KeysOf(N) THEN MapOf(N, value)[k] ELSE Null]
          BY <4>9
        <5>2. now' = [x \in DOMAIN now \union {k} |-> IF x = k THEN v ELSE now[x]]
          BY <4>7, <4>8, <5>1 DEF PutMap
        <5>3. Map!Stored(k) = IF k \in KeysOf(N) THEN MapOf(N, value)[k] ELSE Null
          BY <4>7, <4>8 DEF Map!Stored, now
        <5>4. Map!Put(k, v)
          BY <5>1, <5>2, <5>3 DEF Map!Put, Map!Answer, now
        <5> QED BY <3>2, <4>1, <5>4 DEF Map!Next
      <4>10. CASE \E k \in Key :
                    /\ MapOf(M, value') = [x \in KeysOf(N) \ {k} |-> MapOf(N, value)[x]]
                    /\ reply' = [op |-> "remove", key |-> k, val |-> Null,
                                 res |-> IF k \in KeysOf(N) THEN MapOf(N, value)[k] ELSE Null]
        <5>1. PICK k \in Key :
                    /\ MapOf(M, value') = [x \in KeysOf(N) \ {k} |-> MapOf(N, value)[x]]
                    /\ reply' = [op |-> "remove", key |-> k, val |-> Null,
                                 res |-> IF k \in KeysOf(N) THEN MapOf(N, value)[k] ELSE Null]
          BY <4>10
        <5>2. now' = [x \in DOMAIN now \ {k} |-> now[x]]
          BY <4>7, <4>8, <5>1
        <5>3. Map!Stored(k) = IF k \in KeysOf(N) THEN MapOf(N, value)[k] ELSE Null
          BY <4>7, <4>8 DEF Map!Stored, now
        <5>4. Map!Remove(k)
          BY <5>1, <5>2, <5>3 DEF Map!Remove, Map!Answer, now
        <5> QED BY <3>2, <4>1, <5>4 DEF Map!Next
      <4>11. CASE M = {} /\ reply' = [op |-> "clear", key |-> Null, val |-> Null, res |-> Null]
        <5>1. DOMAIN now' = {}
          BY <4>7, <4>8, <4>11 DEF KeysOf
        <5>2. Map!Clear
          BY <4>11, <5>1 DEF Map!Clear, Map!Answer, now
        <5> QED BY <3>2, <4>1, <5>2 DEF Map!Next
      <4> QED BY <4>4, <4>9, <4>10, <4>11 DEF Calls
    <3> QED BY <3>1, <3>2
  <2> QED BY <1>2, <2>1, <2>2
<1>3. Spec => []SkipInv
  BY InvariantHolds
<1> QED BY <1>1, <1>2, <1>3, PTL DEF Spec, ImplementsMap, Map!Spec

----------------------------------------------------------------------------
(* What searches from both ends and iterations find *)

LEMMA NodesIs ==
    ASSUME NEW N, NEW end, Linked(next, prev, N, end), NEW b
    PROVE  \A n \in DOMAIN next : Nodes(b)[n] = IterateStep(b, Nodes(b), n)
<1> DEFINE D == DOMAIN next
           X == Seq(Node)
           op == [t \in D \X [D -> X] |-> IterateStep(b, t[2], t[1])]
           Ends(n) == n = b \/ next[n][0] = Null
<1>1. D \subseteq Node /\ IsFiniteSet(D) /\ Shape(next, prev, N)
  BY DEF Linked, Shape
<1>2. 0 \in Levels /\ \A n \in D : 0 \in DOMAIN next[n]
  BY <1>1, Heights
<1>3. \A n \in D : ~Ends(n) => next[n][0] \in D /\ Before(n, next[n][0])
  <2>1. Ascends(next, 0)
    BY <1>2, LinkedAscends
  <2> QED BY <1>2, <2>1 DEF Ascends, On
<1>4. ASSUME NEW g, NEW n
      PROVE  IterateStep(b, g, n) = <<n>> \o (IF Ends(n) THEN <<>> ELSE g[next[n][0]])
  BY DEF IterateStep
<1> HIDE DEF Ends
<1>5. ASSUME NEW n \in D, NEW g \in [D -> X] PROVE IterateStep(b, g, n) \in X
  <2>1. (IF Ends(n) THEN <<>> ELSE g[next[n][0]]) \in Seq(Node)
    BY <1>3, EmptySeq
  <2>2. <<n>> \in Seq(Node)
    BY <1>1
  <2> DEFINE rest == IF Ends(n) THEN <<>> ELSE g[next[n][0]]
  <2> HIDE DEF rest
  <2>3. <<n>> \o rest \in Seq(Node)
    BY <2>1, <2>2, ConcatProperties DEF rest
  <2> QED BY <1>4, <2>3 DEF rest
<1>6. \A n \in D, g \in [D -> X] : op[<<n, g>>] = IterateStep(b, g, n)
  OBVIOUS
<1>7. op \in [D \X [D -> X] -> X]
  BY <1>5
<1>8. ASSUME NEW n \in D, NEW g \in [D -> X], NEW h \in [D -> X],
             \A e \in D : Before(n, e) => g[e] = h[e]
      PROVE  op[<<n, g>>] = op[<<n, h>>]
  <2> HIDE DEF op, D, X
  <2>1. (IF Ends(n) THEN <<>> ELSE g[next[n][0]]) = (IF Ends(n) THEN <<>> ELSE h[next[n][0]])
    BY <1>3, <1>8
  <2>2. IterateStep(b, g, n) = IterateStep(b, h, n)
    BY <1>4, <2>1, Zenon
  <2> QED BY <1>6, <2>2
<1>9. FromLaterNodes(D, X, op)
  <2> HIDE DEF op, D, X
  <2> QED BY <1>1, <1>7, <1>8 DEF FromLaterNodes
<1>10. X # {}
  BY EmptySeq
<1> HIDE DEF op, D, X
<1>11. \E f \in [D -> X] : f = [n \in D |-> op[<<n, f>>]]
  BY <1>9, <1>10, NodeRecursion
<1>12. PICK f : f = [n \in D |-> IterateStep(b, f, n)]
  BY <1>11 DEF op
<1> DEFINE g == Nodes(b)
<1>13. g = [n \in D |-> IterateStep(b, g, n)]
  BY <1>12 DEF Nodes, D
<1> HIDE DEF g
<1>14. \A n \in D : g[n] = IterateStep(b, g, n)
  BY <1>13
<1> QED BY <1>14 DEF g, D

LEMMA PrependInOrder ==
    ASSUME NEW s \in Seq(DataNode), NEW n \in DataNode, NEW K, IsFiniteSet(K),
           InOrder(s, K), \A k \in K : n[1] < k
    PROVE  <<n>> \o s \in Seq(DataNode) /\ InOrder(<<n>> \o s, {n[1]} \union K)
<1> DEFINE t == <<n>> \o s
<1>1. <<n>> \in Seq(DataNode) /\ Len(<<n>>) = 1 /\ <<n>>[1] = n
  OBVIOUS
<1>2. /\ t \in Seq(DataNode) /\ Len(t) = 1 + Len(s) /\ t[1] = n /\ Len(s) \in Nat
      /\ \A i \in 2..Len(t) : t[i] = s[i - 1]
  BY <1>1, ConcatProperties, LenProperties
<1> HIDE DEF t
<1>3. DOMAIN t = 1..Len(t) /\ DOMAIN s = 1..Len(s)
  BY <1>2, LenProperties
<1>4. /\ {s[i][1] : i \in DOMAIN s} = K /\ Len(s) = Cardinality(K)
      /\ \A i, j \in DOMAIN s : i < j => s[i][1] < s[j][1]
  BY DEF InOrder
<1>5. n[1] \in Int /\ n[1] \notin K
  <2>1. n[1] \in Int
    BY Sentinels
  <2> QED BY <2>1
<1>6. Len(t) = Cardinality({n[1]} \union K)
  <2>1. Cardinality(K \union {n[1]}) = Cardinality(K) + 1
    BY <1>5, FS_AddElement
  <2>2. {n[1]} \union K = K \union {n[1]}
    OBVIOUS
  <2>3. Len(t) = Cardinality(K) + 1
    BY <1>2, <1>4
  <2>4. Len(t) = Cardinality(K \union {n[1]})
    BY <2>1, <2>3
  <2> QED BY <2>2, <2>4, Zenon
<1>7. {t[i][1] : i \in DOMAIN t} = {n[1]} \union K
  <2>1. ASSUME NEW i \in DOMAIN t PROVE t[i][1] \in {n[1]} \union K
    <3>1. CASE i = 1
      BY <1>2, <3>1
    <3>2. CASE i # 1
      <4>1. i \in 2..Len(t) /\ i - 1 \in DOMAIN s
        BY <1>2, <1>3, <3>2
      <4> QED BY <1>2, <1>4, <4>1
    <3> QED BY <3>1, <3>2
  <2>2. ASSUME NEW x \in {n[1]} \union K PROVE \E i \in DOMAIN t : t[i][1] = x
    <3>1. CASE x = n[1]
      <4>1. 1 \in DOMAIN t
        BY <1>2, <1>3
      <4> QED BY <1>2, <3>1, <4>1
    <3>2. CASE x \in K
      <4>1. PICK j \in DOMAIN s : s[j][1] = x
        BY <1>4, <3>2
      <4>2. j + 1 \in DOMAIN t /\ j + 1 \in 2..Len(t) /\ (j + 1) - 1 = j
        BY <1>2, <1>3
      <4>3. t[j + 1] = s[j]
        BY <1>2, <4>2
      <4> QED BY <4>1, <4>2, <4>3
    <3> QED BY <3>1, <3>2
  <2> QED BY <2>1, <2>2
<1>8. ASSUME NEW i \in DOMAIN t, NEW j \in DOMAIN t, i < j PROVE t[i][1] < t[j][1]
  <2>1. j \in 2..Len(t) /\ j - 1 \in DOMAIN s /\ t[j] = s[j - 1]
    BY <1>2, <1>3, <1>8
  <2>2. CASE i = 1
    <3>1. s[j - 1][1] \in K
      BY <1>4, <2>1
    <3> QED BY <1>2, <2>1, <2>2, <3>1
  <2>3. CASE i # 1
    <3>1. i \in 2..Len(t) /\ i - 1 \in DOMAIN s /\ t[i] = s[i - 1] /\ i - 1 < j - 1
      BY <1>2, <1>3, <1>8, <2>3
    <3> QED BY <1>4, <2>1, <3>1
  <2> QED BY <2>2, <2>3
<1>9. InOrder(t, {n[1]} \union K)
  BY <1>6, <1>7, <1>8 DEF InOrder
<1> QED BY <1>2, <1>9 DEF t

Between(N, a, b) == {k \in KeysOf(N) : a[1] <= k /\ k <= b[1]}

LEMMA IterateIs ==
    ASSUME NEW N, NEW end, Linked(next, prev, N, end), NEW a \in N, NEW b \in N, a[1] <= b[1]
    PROVE  InOrder(Iterate(a, b), Between(N, a, b))
<1> DEFINE g == Nodes(b)
           P == {n \in N : n[1] <= b[1] => g[n] \in Seq(DataNode) /\ InOrder(g[n], Between(N, n, b))}
<1>1. /\ Shape(next, prev, N) /\ N \subseteq DataNode /\ N \subseteq DOMAIN next
      /\ IsFiniteSet(N) /\ N \subseteq Node /\ IsFiniteSet(KeysOf(N)) /\ Distinct(N)
      /\ end \in {tail, Null}
  <2>1. Shape(next, prev, N) /\ N \subseteq DataNode /\ N \subseteq DOMAIN next
        /\ IsFiniteSet(DOMAIN next) /\ end \in {tail, Null}
    BY DEF Linked, Shape
  <2>2. IsFiniteSet(N)
    BY <2>1, FS_Subset
  <2>3. IsFiniteSet(KeysOf(N)) /\ Distinct(N)
    BY LiveNodes
  <2> QED BY <2>1, <2>2, <2>3 DEF Node
<1>2. 0 \in Levels /\ Of(N, next, 0) = N /\ Of(N \union {head}, next, 0) = N \union {head}
  BY <1>1, Heights
<1>3. /\ \A x \in N : x[1] \in Int /\ IsData(x) /\ x # Null
      /\ \A x, y \in N : Before(x, y) <=> x[1] < y[1]
  BY <1>1, Sentinels, BeforeOrders DEF Node
<1>4. \A n \in N : g[n] = IterateStep(b, g, n)
  BY <1>1, NodesIs
<1> HIDE DEF g
<1>5. ASSUME NEW n \in N, \A e \in N : Before(n, e) => e \in P PROVE n \in P
  <2>1. SUFFICES ASSUME n[1] <= b[1]
                 PROVE  g[n] \in Seq(DataNode) /\ InOrder(g[n], Between(N, n, b))
    OBVIOUS
  <2>2. <<>> \in Seq(DataNode) /\ InOrder(<<>>, {}) /\ IsFiniteSet({})
    <3>1. Cardinality({}) = 0 /\ IsFiniteSet({})
      BY FS_EmptySet
    <3>2. <<>> \in Seq(DataNode) /\ Len(<<>>) = 0 /\ DOMAIN <<>> = {}
      BY EmptySeq
    <3> QED BY <3>1, <3>2 DEF InOrder
  <2>3. CASE n = b
    <3>1. g[n] = <<n>> \o <<>>
      BY <1>4, <2>3 DEF IterateStep
    <3>2. Between(N, n, b) = {n[1]} \union {}
      BY <1>3, <2>3 DEF Between, KeysOf
    <3>3. <<n>> \o <<>> \in Seq(DataNode) /\ InOrder(<<n>> \o <<>>, {n[1]} \union {})
      BY <1>1, <2>2, PrependInOrder
    <3> QED BY <3>1, <3>2, <3>3
  <2>4. CASE n # b
    <3>1. n[1] < b[1] /\ Before(n, b)
      BY <1>1, <1>3, <2>1, <2>4 DEF Distinct
    <3> DEFINE m == next[n][0]
    <3>2. m \in N /\ m # Null /\ Before(n, m) /\ \A x \in N : Before(n, x) => x = m \/ Before(m, x)
      <4>1. n \in Of(N \union {head}, next, 0)
        BY <1>2
      <4>2. \/ /\ next[n][0] = end /\ end \in {tail, Null}
               /\ \A x \in Of(N \union {head}, next, 0) : ~Before(n, x)
            \/ /\ next[n][0] \in Of(N, next, 0) /\ next[n][0] # Null /\ Before(n, next[n][0])
               /\ \A x \in Of(N \union {head}, next, 0) :
                    Before(n, x) => x = next[n][0] \/ Before(next[n][0], x)
        BY <1>2, <4>1, NextAbove
      <4> QED BY <1>2, <3>1, <4>2
    <3>3. g[n] = <<n>> \o g[m]
      BY <1>4, <2>4, <3>2 DEF IterateStep
    <3> HIDE DEF m
    <3>4. n[1] < m[1] /\ m[1] <= b[1] /\ m[1] \in Int /\ n[1] \in Int /\ b[1] \in Int
      BY <1>3, <3>1, <3>2
    <3>5. g[m] \in Seq(DataNode) /\ InOrder(g[m], Between(N, m, b))
      BY <1>5, <3>2, <3>4
    <3>6. Between(N, n, b) = {n[1]} \union Between(N, m, b)
      <4>1. \A x \in N : n[1] <= x[1] <=> x = n \/ m[1] <= x[1]
        BY <1>1, <1>3, <3>2, <3>4 DEF Distinct
      <4> QED BY <1>3, <2>1, <4>1 DEF Between, KeysOf
    <3>7. IsFiniteSet(Between(N, m, b))
      BY <1>1, FS_Subset DEF Between
    <3>8. \A k \in Between(N, m, b) : n[1] < k
      BY <1>3, <3>4 DEF Between, KeysOf
    <3>9. <<n>> \o g[m] \in Seq(DataNode) /\ InOrder(<<n>> \o g[m], {n[1]} \union Between(N, m, b))
      BY <1>1, <3>5, <3>7, <3>8, PrependInOrder
    <3> QED BY <3>3, <3>6, <3>9
  <2> QED BY <2>3, <2>4
<1>6. N \subseteq P
  <2> HIDE DEF P
  <2> QED BY <1>1, <1>5, LaterInduction
<1>7. InOrder(g[a], Between(N, a, b))
  BY <1>6
<1>8. Iterate(a, b) = g[a]
  BY <1>3 DEF Iterate, g
<1> QED BY <1>7, <1>8

LEMMA FirstIs ==
    ASSUME NEW N, Stored(N)
    PROVE  IF N = {} THEN firstNode = Null
           ELSE firstNode \in N /\ \A x \in N : firstNode[1] <= x[1]
<1>1. Linked(next, prev, N, End) /\ Shape(next, prev, N) /\ N \subseteq DataNode
  BY DEF Stored, Linked, Shape
<1>2. 0 \in Levels /\ Of(N, next, 0) = N /\ Of(N \union {head}, next, 0) = N \union {head}
  BY <1>1, Heights
<1>3. \/ /\ next[head][0] = End /\ End \in {tail, Null}
         /\ \A x \in Of(N \union {head}, next, 0) : ~Before(head, x)
      \/ /\ next[head][0] \in Of(N, next, 0) /\ next[head][0] # Null /\ Before(head, next[head][0])
         /\ \A x \in Of(N \union {head}, next, 0) :
              Before(head, x) => x = next[head][0] \/ Before(next[head][0], x)
  <2>1. head \in Of(N \union {head}, next, 0)
    BY <1>2
  <2> QED BY <1>1, <1>2, <2>1, NextAbove
<1>4. /\ \A x \in N : x[1] \in Int /\ IsData(x) /\ Before(head, x)
      /\ \A x, y \in N : Before(x, y) <=> x[1] < y[1]
      /\ ~IsData(tail) /\ ~IsData(Null)
  <2>1. ~IsData(tail) /\ ~IsData(Null)
    BY DEF IsData
  <2> QED BY <1>1, <2>1, Sentinels, BeforeOrders
<1>5. CASE N = {}
  BY <1>2, <1>3, <1>4, <1>5 DEF firstNode, DataNodeOrNull
<1>6. CASE N # {}
  <2>1. /\ next[head][0] \in N
        /\ \A x \in N : x = next[head][0] \/ Before(next[head][0], x)
    BY <1>2, <1>3, <1>4, <1>6
  <2>2. firstNode = next[head][0]
    BY <1>4, <2>1 DEF firstNode, DataNodeOrNull
  <2> QED BY <1>4, <1>6, <2>1, <2>2
<1> QED BY <1>5, <1>6

(* The links back from the tail, while they are links forward the other    *)
(* way round.                                                              *)
LEMMA LastIs ==
    ASSUME NEW N, Stored(N), harm = "none"
    PROVE  IF N = {} THEN lastNode = Null
           ELSE lastNode \in N /\ \A x \in N : x[1] <= lastNode[1]
<1> DEFINE p == prev[tail][0]
<1>1. /\ Linked(next, prev, N, tail) /\ Shape(next, prev, N) /\ N \subseteq DataNode
      /\ tail \notin N /\ tail # Null
  <2>1. End = tail
    BY DEF End
  <2> QED BY <2>1, Sentinels DEF Stored, Linked, Shape, Node
<1>2. 0 \in Levels /\ Of(N, next, 0) = N /\ Of(N \union {head}, next, 0) = N \union {head}
  BY <1>1, Heights
<1>3. p \in N \union {head} /\ next[p][0] = tail
  <2>1. tail \in Of(N \union ({tail} \ {Null}), next, 0)
    BY <1>1, <1>2 DEF Of, Shape
  <2> QED BY <1>1, <1>2, <2>1 DEF Linked, Backward
<1> HIDE DEF p
<1>4. \A x \in N : ~Before(p, x)
  <2>1. p \in Of(N \union {head}, next, 0)
    BY <1>2, <1>3
  <2>2. \/ /\ next[p][0] = tail /\ tail \in {tail, Null}
           /\ \A x \in Of(N \union {head}, next, 0) : ~Before(p, x)
        \/ /\ next[p][0] \in Of(N, next, 0) /\ next[p][0] # Null /\ Before(p, next[p][0])
           /\ \A x \in Of(N \union {head}, next, 0) :
                Before(p, x) => x = next[p][0] \/ Before(next[p][0], x)
    BY <1>1, <1>2, <2>1, NextAbove
  <2> QED BY <1>1, <1>2, <1>3, <2>2
<1>5. /\ \A x \in N : x[1] \in Int /\ IsData(x) /\ Before(head, x)
      /\ \A x, y \in N : Before(x, y) <=> x[1] < y[1]
      /\ ~IsData(head)
  <2>1. ~IsData(head)
    BY DEF IsData
  <2> QED BY <1>1, <2>1, Sentinels, BeforeOrders
<1>6. lastNode = IF IsData(p) THEN p ELSE Null
  BY DEF lastNode, DataNodeOrNull, p
<1>7. CASE p = head
  <2>1. N = {}
    BY <1>4, <1>5, <1>7
  <2> QED BY <1>5, <1>6, <1>7, <2>1
<1>8. CASE p \in N
  <2>1. lastNode = p
    BY <1>5, <1>6, <1>8
  <2>2. \A x \in N : x[1] <= p[1]
    BY <1>4, <1>5, <1>8
  <2> QED BY <1>8, <2>1, <2>2
<1> QED BY <1>3, <1>7, <1>8

LEMMA EmptyKeys == ASSUME NEW N PROVE KeysOf(N) = {} <=> N = {}
BY DEF KeysOf

(* Sub maps, from keys to the nodes that searches find for their ends.     *)
LEMMA SubMaps ==
    ASSUME NEW N, Stored(N), harm = "none", NEW low \in Key, NEW high \in Key
    PROVE  LET Below == {k \in KeysOf(N) : k < high}
               From  == {k \in KeysOf(N) : low <= k}
           IN  /\ Below # {} => InOrder(headMap(high), Below)
               /\ From # {} => InOrder(tailMap(low), From)
               /\ Below \intersect From # {} => InOrder(subMap(low, high), Below \intersect From)
<1> DEFINE Below == {k \in KeysOf(N) : k < high}
           From  == {k \in KeysOf(N) : low <= k}
<1>1. /\ Linked(next, prev, N, End) /\ N \subseteq DataNode
      /\ low \in Int /\ high \in Int /\ \A x \in N : x[1] \in Int
  BY SkipListAssumption, Sentinels DEF Stored, Linked, Shape
<1>2. \A k \in KeysOf(N) : \E x \in N : k = x[1]
  BY DEF KeysOf
<1>3. Below # {} => /\ FindLT(high) \in N /\ FindLT(high)[1] < high
                    /\ \A x \in N : x[1] < high => x[1] <= FindLT(high)[1]
  <2>1. ASSUME Below # {} PROVE \E x \in N : ~(high <= x[1])
    BY <1>1, <1>2, <2>1
  <2>2. \/ FindLT(high) = Null /\ \A x \in N : high <= x[1]
        \/ /\ FindLT(high) \in N /\ FindLT(high)[1] < high
           /\ \A x \in N : x[1] < high => x[1] <= FindLT(high)[1]
    BY <1>1, Finds
  <2> QED BY <2>1, <2>2
<1>4. From # {} => /\ FindGE(low) \in N /\ low <= FindGE(low)[1]
                   /\ \A x \in N : low <= x[1] => FindGE(low)[1] <= x[1]
  <2>1. ASSUME From # {} PROVE \E x \in N : ~(x[1] < low)
    BY <1>1, <1>2, <2>1
  <2>2. \/ FindGE(low) = Null /\ \A x \in N : x[1] < low
        \/ /\ FindGE(low) \in N /\ low <= FindGE(low)[1]
           /\ \A x \in N : low <= x[1] => FindGE(low)[1] <= x[1]
    BY <1>1, Finds
  <2> QED BY <2>1, <2>2
<1>5. N # {} => /\ firstNode \in N /\ \A x \in N : firstNode[1] <= x[1]
                /\ lastNode \in N /\ \A x \in N : x[1] <= lastNode[1]
  BY FirstIs, LastIs
<1>6. ASSUME Below # {} PROVE InOrder(headMap(high), Below)
  <2>1. N # {}
    BY <1>2, <1>6
  <2> DEFINE a == firstNode
             b == FindLT(high)
  <2>2. /\ a \in N /\ b \in N /\ b[1] < high /\ \A x \in N : a[1] <= x[1]
        /\ \A x \in N : x[1] < high => x[1] <= b[1]
    BY <1>3, <1>5, <1>6, <2>1
  <2>3. headMap(high) = Iterate(a, b)
    BY DEF headMap
  <2> HIDE DEF a, b
  <2>4. InOrder(Iterate(a, b), Between(N, a, b))
    BY <1>1, <2>2, IterateIs
  <2>5. Between(N, a, b) = Below
    BY <1>1, <1>2, <2>2 DEF Between
  <2> QED BY <2>3, <2>4, <2>5
<1>7. ASSUME From # {} PROVE InOrder(tailMap(low), From)
  <2>1. N # {}
    BY <1>2, <1>7
  <2> DEFINE a == FindGE(low)
             b == lastNode
  <2>2. /\ a \in N /\ b \in N /\ low <= a[1] /\ \A x \in N : x[1] <= b[1]
        /\ \A x \in N : low <= x[1] => a[1] <= x[1]
    BY <1>4, <1>5, <1>7, <2>1
  <2>3. tailMap(low) = Iterate(a, b)
    BY DEF tailMap
  <2> HIDE DEF a, b
  <2>4. InOrder(Iterate(a, b), Between(N, a, b))
    BY <1>1, <2>2, IterateIs
  <2>5. Between(N, a, b) = From
    BY <1>1, <1>2, <2>2 DEF Between
  <2> QED BY <2>3, <2>4, <2>5
<1>8. ASSUME Below \intersect From # {}
      PROVE  InOrder(subMap(low, high), Below \intersect From)
  <2> DEFINE a == FindGE(low)
             b == FindLT(high)
  <2>1. Below # {} /\ From # {}
    BY <1>8
  <2>2. /\ a \in N /\ b \in N /\ low <= a[1] /\ b[1] < high
        /\ \A x \in N : low <= x[1] => a[1] <= x[1]
        /\ \A x \in N : x[1] < high => x[1] <= b[1]
    BY <1>3, <1>4, <2>1
  <2>3. subMap(low, high) = Iterate(a, b)
    BY DEF subMap
  <2>4. PICK x \in N : low <= x[1] /\ x[1] < high
    BY <1>2, <1>8
  <2> HIDE DEF a, b
  <2>5. a[1] <= b[1]
    BY <1>1, <2>2, <2>4
  <2>6. InOrder(Iterate(a, b), Between(N, a, b))
    BY <1>1, <2>2, <2>5, IterateIs
  <2>7. Between(N, a, b) = Below \intersect From
    BY <1>1, <1>2, <2>2 DEF Between
  <2> QED BY <2>3, <2>6, <2>7
<1> HIDE DEF Below, From
<1>9. /\ Below # {} => InOrder(headMap(high), Below)
      /\ From # {} => InOrder(tailMap(low), From)
      /\ Below \intersect From # {} => InOrder(subMap(low, high), Below \intersect From)
  BY <1>6, <1>7, <1>8
<1> QED BY <1>9 DEF Below, From

LEMMA StoredFound == SkipInv => FoundAsStored
<1> SUFFICES ASSUME SkipInv, harm # "lost" PROVE FoundAsStored
  BY DEF FoundAsStored
<1>1. PICK N \in SUBSET DataNode : Stored(N)
  BY DEF SkipInv
<1>2. Content = MapOf(N, value) /\ Keys = KeysOf(N)
  <2>1. Content = MapOf(N, value)
    BY <1>1, ContentIs, ContentNow DEF Stored
  <2> QED BY <2>1 DEF Keys, MapOf
<1>3. Distinct(N) /\ \A x \in N : x # Null /\ x[1] \in Int
  <2>1. N \subseteq DataNode /\ Distinct(N)
    BY <1>1 DEF Stored, Linked, Shape, Distinct
  <2> QED BY <2>1, Sentinels DEF Node
<1>4. /\ \A n \in N : NodeOf(N, n[1]) = n /\ n[1] \in KeysOf(N)
      /\ \A k \in KeysOf(N) : NodeOf(N, k) \in N /\ NodeOf(N, k)[1] = k
  BY <1>3, NodeOfIs
<1>5. ASSUME NEW k \in Keys PROVE get(k) = Content[k]
  <2>1. NodeOf(N, k) \in N /\ NodeOf(N, k)[1] = k /\ k \in Int
    BY <1>2, <1>3, <1>4
  <2>2. FindEQ(k) = NodeOf(N, k) /\ FindEQ(k) # Null
    BY <1>1, <1>3, <2>1, Finds DEF Distinct
  <2> QED BY <1>2, <2>2 DEF get, MapOf
<1>6. size = Cardinality(Keys)
  BY <1>1, <1>2 DEF Stored
<1>7. Keys = {} <=> N = {}
  BY <1>2, EmptyKeys
<1>8. IF Keys = {} THEN firstNode = Null ELSE firstNode # Null /\ firstNode[1] = Least(Keys)
  <2>1. IF N = {} THEN firstNode = Null
        ELSE firstNode \in N /\ \A x \in N : firstNode[1] <= x[1]
    BY <1>1, FirstIs
  <2>2. ASSUME N # {} PROVE firstNode # Null /\ firstNode[1] = Least(Keys)
    <3> DEFINE f == firstNode
    <3>1. f \in N /\ f # Null /\ f[1] \in Int /\ \A x \in N : f[1] <= x[1]
      BY <1>3, <2>1, <2>2
    <3> HIDE DEF f
    <3>2. f[1] \in Keys /\ \A k \in Keys : k \in Int /\ f[1] <= k
      BY <1>2, <1>3, <1>4, <3>1
    <3>3. \A k \in Keys : (\A j \in Keys : k <= j) => k = f[1]
      BY <3>1, <3>2
    <3>4. Least(Keys) = f[1]
      BY <3>2, <3>3 DEF Least
    <3> QED BY <3>1, <3>4 DEF f
  <2> QED BY <1>7, <2>1, <2>2
<1>9. ASSUME harm = "none"
      PROVE  IF Keys = {} THEN lastNode = Null
             ELSE lastNode # Null /\ \A k \in Keys : k <= lastNode[1]
  <2>1. IF N = {} THEN lastNode = Null
        ELSE lastNode \in N /\ \A x \in N : x[1] <= lastNode[1]
    BY <1>1, <1>9, LastIs
  <2> QED BY <1>2, <1>3, <1>4, <1>7, <2>1
<1>10. ASSUME harm = "none"
       PROVE  \A low, high \in Key :
                LET Below == {k \in Keys : k < high}
                    From  == {k \in Keys : low <= k}
                IN  /\ Below # {} => InOrder(headMap(high), Below)
                    /\ From # {} => InOrder(tailMap(low), From)
                    /\ Below \intersect From # {} => InOrder(subMap(low, high), Below \intersect From)
  BY <1>1, <1>2, <1>10, SubMaps
<1> QED BY <1>5, <1>6, <1>8, <1>9, <1>10 DEF FoundAsStored

(* Searches and iterations find what is stored: every key by any path      *)
(* through the levels, the ends from both sides, and sub maps in order.    *)
THEOREM FoundHolds ==
    ASSUME MAX_LEVEL \notin Drawn
    PROVE  Spec => []FoundAsStored
<1>1. Spec => []SkipInv
  BY InvariantHolds
<1> QED BY <1>1, StoredFound, PTL
=============================================================================
