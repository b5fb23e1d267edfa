----------------------------- MODULE DictProofs -----------------------------
(***************************************************************************)
(* Proofs about Dict: its types, the place of every entry, the count of    *)
(* entries, the walk of its iterator, the map it implements, and when it   *)
(* becomes sparse, for every set of keys, hash function and size limit.    *)
(***************************************************************************)
EXTENDS Dict, NaturalMinimum, FiniteSetTheorems, TLAPS

Placed(t, n) == \A s \in DOMAIN t : \A e \in t[s] : Slot(e.key, n) = s

Shape == /\ size \in Sizes \union {0}
         /\ table \in [0..(size - 1) -> SUBSET Entry]
         /\ used \in 0..MaxSize
         /\ WellPlaced
         /\ IsFiniteSet(Entries(table))
         /\ UsedIsCount

DInv == TypeOK /\ Shape

----------------------------------------------------------------------------
(* Sizes *)

LEMMA SizesType ==
    /\ MaxSize \in Nat \ {0} /\ MaxSize \in Sizes
    /\ InitialSize \in Sizes
    /\ \A n \in Sizes : n \in Nat \ {0} /\ n <= MaxSize
    /\ \A n \in Sizes : n = MaxSize \/ (2 * n \in Sizes /\ 2 * n <= MaxSize)
<1>1. \A n \in Sizes : n <= MaxSize
  <2> HIDE DEF MaxSize
  <2> QED BY DEF Sizes
<1> QED BY <1>1, PowerAssumption

(* _dictNextPower returns a table size, and one that is large enough. *)
LEMMA NextPower ==
    ASSUME NEW n \in 0..MaxSize
    PROVE  _dictNextPower(n) \in Sizes /\ _dictNextPower(n) >= n
<1>1. CASE n >= MaxSize
  BY <1>1, SizesType DEF _dictNextPower
<1>2. CASE ~(n >= MaxSize)
  <2> DEFINE S == {p \in Sizes : p >= n}
  <2>1. S \in SUBSET Nat /\ MaxSize \in S
    <3>1. \A p \in Sizes : p \in Nat
      BY SizesType
    <3>2. MaxSize \in Sizes /\ MaxSize >= n
      BY <1>2, SizesType
    <3> QED BY <3>1, <3>2
  <2>2. \E p \in S : \A q \in S : p <= q
    <3> HIDE DEF S
    <3> QED BY <2>1, NatMin
  <2>3. \E p \in Sizes : p >= n /\ \A q \in Sizes : q >= n => p <= q
    BY <2>2
  <2>4. _dictNextPower(n) = CHOOSE p \in Sizes : p >= n /\ \A q \in Sizes : q >= n => p <= q
    BY <1>2 DEF _dictNextPower
  <2> QED BY <2>3, <2>4
<1> QED BY <1>1, <1>2

(* Doubling a size that is not the largest; the largest wraps to 0. *)
LEMMA Doubling ==
    ASSUME NEW n \in Sizes
    PROVE  Unsigned(n * 2) = IF n = MaxSize THEN 0 ELSE n * 2
<1>1. n \in Nat \ {0} /\ (n = MaxSize \/ 2 * n <= MaxSize)
  BY SizesType
<1>2. MaxSize \in Nat \ {0} /\ Modulus = 2 * MaxSize
  BY PowerAssumption
<1> HIDE DEF MaxSize, Modulus
<1>3. CASE n = MaxSize
  BY <1>2, <1>3 DEF Unsigned
<1>4. CASE n # MaxSize
  <2>1. n * 2 \in 0..(Modulus - 1) /\ Modulus \in Nat \ {0}
    BY <1>1, <1>2, <1>4
  <2>2. (n * 2) % Modulus = n * 2
    BY <2>1
  <2> QED BY <1>4, <2>2 DEF Unsigned
<1> QED BY <1>3, <1>4

LEMMA SlotType ==
    ASSUME NEW k \in Key, NEW n \in Nat \ {0}
    PROVE  Slot(k, n) \in 0..(n - 1)
<1>1. Hash[k] \in Nat
  BY HashAssumption
<1> QED BY <1>1 DEF Slot

----------------------------------------------------------------------------
(* Tables *)

(* Rehashing keeps the entries and puts each where its slot now is. *)
LEMMA RehashKeeps ==
    ASSUME NEW m \in Nat, NEW t \in [0..(m - 1) -> SUBSET Entry], NEW n \in Nat \ {0}
    PROVE  /\ Rehash(t, n) \in [0..(n - 1) -> SUBSET Entry]
           /\ Entries(Rehash(t, n)) = Entries(t)
           /\ Placed(Rehash(t, n), n)
<1>1. Entries(t) \subseteq Entry
  BY DEF Entries
<1>2. Rehash(t, n) \in [0..(n - 1) -> SUBSET Entry]
  BY <1>1 DEF Rehash
<1>3. ASSUME NEW e \in Entries(t) PROVE e \in Entries(Rehash(t, n))
  <2>1. Slot(e.key, n) \in 0..(n - 1)
    BY <1>1, SlotType DEF Entry
  <2> QED BY <2>1 DEF Rehash, Entries
<1>4. ASSUME NEW e \in Entries(Rehash(t, n)) PROVE e \in Entries(t)
  BY DEF Rehash, Entries
<1>5. Placed(Rehash(t, n), n)
  BY DEF Rehash, Placed
<1> QED BY <1>2, <1>3, <1>4, <1>5

(* What _dictExpandIfNeeded leaves behind. *)
LEMMA Grow ==
    ASSUME Shape
    PROVE  /\ SizeAfter \in Sizes
           /\ TableAfter \in [0..(SizeAfter - 1) -> SUBSET Entry]
           /\ Entries(TableAfter) = Entries(table)
           /\ Placed(TableAfter, SizeAfter)
           /\ used <= SizeAfter
           /\ ~Refused => used < SizeAfter
<1>1. /\ size \in Sizes \union {0} /\ size \in Nat
      /\ used \in Nat /\ used <= size
      /\ table \in [0..(size - 1) -> SUBSET Entry]
      /\ Placed(table, size)
  BY SizesType DEF Shape, WellPlaced, UsedIsCount, Placed
<1>2. SizeAfter \in Sizes /\ used <= SizeAfter /\ (~Refused => used < SizeAfter)
  <2> HIDE DEF MaxSize, Modulus
  <2>1. CASE size = 0
    <3>1. Wanted = InitialSize /\ ~Refused /\ SizeAfter = _dictNextPower(InitialSize)
      BY <1>1, <2>1, SizesType DEF Wanted, Refused, SizeAfter
    <3>2. InitialSize \in 0..MaxSize /\ InitialSize > 0
      BY SizesType
    <3>3. _dictNextPower(InitialSize) \in Sizes /\ _dictNextPower(InitialSize) >= InitialSize
      BY <3>2, NextPower
    <3>4. SizeAfter \in Sizes /\ SizeAfter >= InitialSize
      BY <3>1, <3>3
    <3>5. SizeAfter \in Nat /\ InitialSize \in Nat /\ used = 0
      BY <1>1, <2>1, <3>4, SizesType
    <3> QED BY <3>2, <3>4, <3>5
  <2>2. CASE size # 0 /\ used # size
    BY <1>1, <2>2, SizesType DEF Wanted, Refused, SizeAfter
  <2>3. CASE size # 0 /\ used = size /\ size = MaxSize
    <3>1. Wanted = 0
      BY <1>1, <2>3, Doubling DEF Wanted
    <3> QED BY <1>1, <2>3, <3>1, SizesType DEF Refused, SizeAfter
  <2>4. CASE size # 0 /\ used = size /\ size # MaxSize
    <3>1. Wanted = size * 2
      BY <1>1, <2>4, Doubling DEF Wanted
    <3>2. size * 2 \in 0..MaxSize
      BY <1>1, <2>4, SizesType
    <3>3. _dictNextPower(size * 2) \in Sizes /\ _dictNextPower(size * 2) >= size * 2
      BY <3>2, NextPower
    <3>4. ~Refused /\ SizeAfter = _dictNextPower(size * 2)
      BY <1>1, <2>4, <3>1, SizesType DEF Refused, SizeAfter
    <3>5. SizeAfter \in Sizes /\ SizeAfter >= size * 2
      BY <3>3, <3>4
    <3>6. SizeAfter \in Nat /\ size \in Nat \ {0}
      BY <1>1, <2>4, <3>5, SizesType
    <3> QED BY <2>4, <3>5, <3>6
  <2> QED BY <2>1, <2>2, <2>3, <2>4
<1>3. CASE SizeAfter = size
  BY <1>1, <1>2, <1>3 DEF TableAfter
<1>4. CASE SizeAfter # size
  <2>1. SizeAfter \in Nat \ {0} /\ TableAfter = Rehash(table, SizeAfter)
    BY <1>2, <1>4, SizesType DEF TableAfter
  <2> QED BY <1>1, <1>2, <2>1, RehashKeeps
<1> QED BY <1>3, <1>4

(* In a table whose entries are in their slots, looking into one slot is   *)
(* looking everywhere.                                                     *)
LEMMA FindAll ==
    ASSUME NEW n \in Nat \ {0}, NEW t \in [0..(n - 1) -> SUBSET Entry], Placed(t, n),
           NEW k \in Key
    PROVE  Find(t, n, k) = {e \in Entries(t) : e.key = k}
<1>1. Slot(k, n) \in DOMAIN t
  BY SlotType
<1>2. ASSUME NEW e \in Entries(t), e.key = k PROVE e \in t[Slot(k, n)]
  BY <1>2 DEF Entries, Placed
<1> QED BY <1>1, <1>2 DEF Find, Entries

(* Exchanging entries of key k in its slot exchanges them in the table.    *)
(* The operators keep the instances of this lemma first-order.             *)
Table(t, n) == n \in Nat \ {0} /\ t \in [0..(n - 1) -> SUBSET Entry] /\ Placed(t, n)
OfKey(c, k) == c \in SUBSET Entry /\ \A e \in c : e.key = k
Swap(c, out, in) == (c \ out) \union in
Exchange(t, n, k, out, in) == [t EXCEPT ![Slot(k, n)] = Swap(@, out, in)]

LEMMA SetChain ==
    ASSUME NEW n, NEW t, Table(t, n), NEW k \in Key,
           NEW out, OfKey(out, k), NEW in, OfKey(in, k)
    PROVE  /\ Table(Exchange(t, n, k, out, in), n)
           /\ Entries(Exchange(t, n, k, out, in)) = Swap(Entries(t), out, in)
<1>0. /\ n \in Nat \ {0} /\ t \in [0..(n - 1) -> SUBSET Entry] /\ Placed(t, n)
      /\ out \in SUBSET Entry /\ in \in SUBSET Entry
      /\ \A e \in in \union out : e.key = k
  BY DEF Table, OfKey
<1> DEFINE s == Slot(k, n)
           u == Exchange(t, n, k, out, in)
<1>1. s \in 0..(n - 1) /\ s \in DOMAIN t
  BY <1>0, SlotType
<1>2. u \in [0..(n - 1) -> SUBSET Entry] /\ u[s] = (t[s] \ out) \union in
  BY <1>0, <1>1 DEF Exchange, Swap
<1>3. \A r \in 0..(n - 1) : r # s => u[r] = t[r]
  BY <1>0, <1>1 DEF Exchange, Swap
<1>4. ASSUME NEW r \in 0..(n - 1), r # s PROVE t[r] \cap out = {}
  <2> SUFFICES ASSUME NEW e \in t[r], e \in out PROVE FALSE
    OBVIOUS
  <2> QED BY <1>0, <1>4 DEF Placed
<1> HIDE DEF u
<1>5. Entries(u) = (Entries(t) \ out) \union in
  <2>1. ASSUME NEW e \in Entries(u) PROVE e \in (Entries(t) \ out) \union in
    <3>1. PICK r \in 0..(n - 1) : e \in u[r]
      BY <1>2 DEF Entries
    <3>2. CASE r = s
      BY <1>0, <1>1, <1>2, <3>1, <3>2 DEF Entries
    <3>3. CASE r # s
      BY <1>0, <1>3, <1>4, <3>1, <3>3 DEF Entries
    <3> QED BY <3>2, <3>3
  <2>2. ASSUME NEW e \in Entries(t), e \notin out PROVE e \in Entries(u)
    <3>1. PICK r \in 0..(n - 1) : e \in t[r]
      BY <1>0 DEF Entries
    <3>2. e \in u[r]
      BY <1>2, <1>3, <2>2, <3>1
    <3> QED BY <1>2, <3>2 DEF Entries
  <2>3. in \subseteq Entries(u)
    BY <1>1, <1>2 DEF Entries
  <2> QED BY <2>1, <2>2, <2>3
<1>6. Placed(u, n)
  <2> SUFFICES ASSUME NEW r \in 0..(n - 1), NEW e \in u[r] PROVE Slot(e.key, n) = r
    BY <1>2 DEF Placed
  <2>1. CASE r = s /\ e \in in
    BY <1>0, <2>1
  <2>2. CASE e \in t[r]
    BY <1>0, <2>2 DEF Placed
  <2> QED BY <1>2, <1>3, <2>1, <2>2
<1> QED BY <1>0, <1>2, <1>5, <1>6 DEF u, Table, Swap

----------------------------------------------------------------------------
(* Steps *)

(* A table built from one with the same entries but one for key k. *)
LEMMA ShapeOf ==
    ASSUME size' \in Sizes, table' \in [0..(size' - 1) -> SUBSET Entry],
           Placed(table', size'), IsFiniteSet(Entries(table')),
           \A e, f \in Entries(table') : e.key = f.key => e = f,
           used' = Cardinality(Entries(table')), used' <= size'
    PROVE  Shape'
<1>1. used' \in Nat /\ size' \in Nat /\ size' <= MaxSize
  BY FS_CardinalityType, SizesType
<1>2. used' \in 0..MaxSize
  BY <1>1, SizesType
<1> QED BY <1>2 DEF Shape, WellPlaced, UsedIsCount, Placed

LEMMA AddedShape ==
    ASSUME Shape, NEW k \in Key, NEW v \in Val, ~AddFails(k), Added(k, v)
    PROVE  Shape'
<1> DEFINE e == [key |-> k, val |-> v]
<1>1. /\ size' = SizeAfter /\ size' \in Sizes /\ size' \in Nat \ {0}
      /\ TableAfter \in [0..(size' - 1) -> SUBSET Entry]
      /\ Entries(TableAfter) = Entries(table) /\ Placed(TableAfter, size')
      /\ used < size' /\ used \in Nat
  BY Grow, SizesType DEF Added, AddFails, Shape
<1>2. \A f \in Entries(table) : f.key # k
  <2>1. Find(TableAfter, size', k) = {}
    BY <1>1 DEF AddFails
  <2> QED BY <1>1, <2>1, FindAll
<1>3. e \in Entry /\ e.key = k
  BY DEF Entry
<1>4. table' = Exchange(TableAfter, size', k, {}, {e})
  BY DEF Added, Exchange, Swap
<1>5. /\ table' \in [0..(size' - 1) -> SUBSET Entry]
      /\ Entries(table') = Entries(table) \union {e}
      /\ Placed(table', size')
  <2> HIDE DEF e
  <2>1. Table(TableAfter, size') /\ OfKey({}, k) /\ OfKey({e}, k)
    BY <1>1, <1>3 DEF Table, OfKey
  <2>2. Table(table', size') /\ Entries(table') = Swap(Entries(TableAfter), {}, {e})
    BY <1>4, <2>1, SetChain
  <2> QED BY <1>1, <2>2 DEF Table, Swap
<1>6. /\ IsFiniteSet(Entries(table))
      /\ used = Cardinality(Entries(table))
      /\ \A f, g \in Entries(table) : f.key = g.key => f = g
  BY DEF Shape, UsedIsCount, WellPlaced
<1>7. e \notin Entries(table)
  BY <1>2, <1>3
<1> HIDE DEF e
<1>8. /\ IsFiniteSet(Entries(table'))
      /\ Cardinality(Entries(table')) = used + 1
  BY <1>5, <1>6, <1>7, FS_AddElement
<1>9. \A f, g \in Entries(table') : f.key = g.key => f = g
  BY <1>2, <1>3, <1>5, <1>6
<1>10. used' = used + 1 /\ used' <= size'
  BY <1>1 DEF Added
<1> QED BY <1>1, <1>5, <1>8, <1>9, <1>10, ShapeOf

(* A call that only lets the table grow. *)
LEMMA GrownShape ==
    ASSUME Shape, size' = SizeAfter, table' = TableAfter, used' = used
    PROVE  Shape'
<1>1. /\ size' \in Sizes /\ table' \in [0..(size' - 1) -> SUBSET Entry]
      /\ Entries(table') = Entries(table) /\ Placed(table', size') /\ used' <= size'
  BY Grow
<1>2. /\ IsFiniteSet(Entries(table)) /\ used = Cardinality(Entries(table))
      /\ \A f, g \in Entries(table) : f.key = g.key => f = g
  BY DEF Shape, UsedIsCount, WellPlaced
<1> QED BY <1>1, <1>2, ShapeOf

Unique(S) == \A f, g \in S : f.key = g.key => f = g

(* Exchanging one entry of a key for another keeps the number of entries.  *)
LEMMA SwapOne ==
    ASSUME NEW S, IsFiniteSet(S), Unique(S), NEW f \in S, NEW e, e.key = f.key
    PROVE  LET T == Swap(S, {f}, {e}) IN
           IsFiniteSet(T) /\ Cardinality(T) = Cardinality(S) /\ Unique(T)
<1> DEFINE D == S \ {f}
<1>1. \A g \in D : g.key # e.key
  BY DEF Unique
<1>2. e \notin D /\ Unique(D)
  BY <1>1 DEF Unique
<1>3. IsFiniteSet(D) /\ Cardinality(D) = Cardinality(S) - 1 /\ Cardinality(S) \in Nat
  BY FS_RemoveElement, FS_CardinalityType
<1>4. Swap(S, {f}, {e}) = D \union {e}
  BY DEF Swap
<1> HIDE DEF D
<1>5. IsFiniteSet(D \union {e}) /\ Cardinality(D \union {e}) = Cardinality(D) + 1
  BY <1>2, <1>3, FS_AddElement
<1>6. Cardinality(D \union {e}) = Cardinality(S)
  BY <1>3, <1>5
<1>7. Unique(D \union {e})
  BY <1>1, <1>2 DEF Unique
<1> QED BY <1>4, <1>5, <1>6, <1>7

(* dictReplace of a key that is there. *)
LEMMA OverwrittenShape ==
    ASSUME Shape, NEW k \in Key, NEW v \in Val,
           Find(TableAfter, SizeAfter, k) # {},
           size' = SizeAfter, used' = used,
           table' = Exchange(TableAfter, size', k, Find(TableAfter, SizeAfter, k),
                             {[key |-> k, val |-> v]})
    PROVE  Shape'
<1> DEFINE e == [key |-> k, val |-> v]
           out == Find(TableAfter, SizeAfter, k)
<1>1. /\ size' \in Sizes /\ size' \in Nat \ {0}
      /\ TableAfter \in [0..(size' - 1) -> SUBSET Entry]
      /\ Entries(TableAfter) = Entries(table) /\ Placed(TableAfter, size')
      /\ used <= size'
  BY Grow, SizesType
<1>2. /\ IsFiniteSet(Entries(table)) /\ used = Cardinality(Entries(table))
      /\ Unique(Entries(table))
  BY DEF Shape, UsedIsCount, WellPlaced, Unique
<1>3. out = {f \in Entries(table) : f.key = k}
  BY <1>1, FindAll
<1>4. PICK f \in Entries(table) : f.key = k /\ out = {f}
  BY <1>2, <1>3 DEF Unique
<1>5. Entries(table) \subseteq Entry
  BY <1>1 DEF Entries
<1>6. e \in Entry /\ e.key = k
  BY DEF Entry
<1> HIDE DEF e, out
<1>7. Table(table', size') /\ Entries(table') = Swap(Entries(table), {f}, {e})
  <2>1. table' = Exchange(TableAfter, size', k, {f}, {e})
    BY <1>4 DEF e, out
  <2>2. Table(TableAfter, size') /\ OfKey({f}, k) /\ OfKey({e}, k)
    BY <1>1, <1>4, <1>5, <1>6 DEF Table, OfKey
  <2> QED BY <1>1, <2>1, <2>2, SetChain
<1>8. /\ IsFiniteSet(Entries(table')) /\ Cardinality(Entries(table')) = used
      /\ Unique(Entries(table'))
  BY <1>2, <1>4, <1>6, <1>7, SwapOne
<1> QED BY <1>1, <1>7, <1>8, ShapeOf DEF Table, Unique

LEMMA DeletedShape ==
    ASSUME Shape, NEW k \in Key, Find(table, size, k) # {},
           size' = size, used' = used - 1,
           table' = Exchange(table, size, k, Find(table, size, k), {})
    PROVE  Shape'
<1>1. size # 0 /\ size \in Sizes /\ size \in Nat \ {0}
  BY SizesType DEF Shape, Find
<1>2. /\ table \in [0..(size - 1) -> SUBSET Entry] /\ Placed(table, size)
      /\ used \in Nat /\ used <= size
      /\ IsFiniteSet(Entries(table)) /\ used = Cardinality(Entries(table))
      /\ \A f, g \in Entries(table) : f.key = g.key => f = g
  BY DEF Shape, UsedIsCount, WellPlaced, Placed
<1>3. Find(table, size, k) = {f \in Entries(table) : f.key = k}
  BY <1>1, <1>2, FindAll
<1>4. PICK f \in Entries(table) : f.key = k /\ Find(table, size, k) = {f}
  BY <1>2, <1>3
<1>5. Entries(table) \subseteq Entry
  BY <1>2 DEF Entries
<1>6. /\ table' \in [0..(size - 1) -> SUBSET Entry]
      /\ Entries(table') = Entries(table) \ {f}
      /\ Placed(table', size)
  <2>1. table' = Exchange(table, size, k, {f}, {})
    BY <1>4
  <2>2. Table(table, size) /\ OfKey({f}, k) /\ OfKey({}, k)
    BY <1>1, <1>2, <1>4, <1>5 DEF Table, OfKey
  <2>3. Table(table', size) /\ Entries(table') = Swap(Entries(table), {f}, {})
    BY <2>1, <2>2, SetChain
  <2> QED BY <2>3 DEF Table, Swap
<1>7. /\ IsFiniteSet(Entries(table'))
      /\ Cardinality(Entries(table')) = used - 1
  BY <1>2, <1>6, FS_RemoveElement
<1>8. used' <= size' /\ used' = Cardinality(Entries(table'))
  BY <1>1, <1>2, <1>7
<1>9. \A g, h \in Entries(table') : g.key = h.key => g = h
  BY <1>2, <1>6
<1>10. size' \in Sizes /\ table' \in [0..(size' - 1) -> SUBSET Entry] /\ Placed(table', size')
  BY <1>1, <1>6
<1> QED BY <1>7, <1>8, <1>9, <1>10, ShapeOf

LEMMA ResizedShape == Shape /\ redisDbResize => Shape'
<1> SUFFICES ASSUME Shape, redisDbResize PROVE Shape'
  OBVIOUS
<1> DEFINE want == IF used < InitialSize THEN InitialSize ELSE used
<1>1. want \in 0..MaxSize /\ want >= used /\ used \in Nat
  BY SizesType DEF Shape
<1>2. size' = _dictNextPower(want) /\ table' = Rehash(table, size') /\ used' = used
  BY DEF redisDbResize
<1> HIDE DEF want
<1>3. size' \in Sizes /\ size' >= want
  BY <1>1, <1>2, NextPower
<1>4. size' \in Nat \ {0} /\ used <= size'
  BY <1>1, <1>3, SizesType
<1>5. size \in Nat /\ table \in [0..(size - 1) -> SUBSET Entry]
  BY SizesType DEF Shape
<1>6. /\ table' \in [0..(size' - 1) -> SUBSET Entry]
      /\ Entries(table') = Entries(table) /\ Placed(table', size')
  BY <1>2, <1>4, <1>5, RehashKeeps
<1>7. /\ IsFiniteSet(Entries(table)) /\ used = Cardinality(Entries(table))
      /\ \A f, g \in Entries(table) : f.key = g.key => f = g
  BY DEF Shape, UsedIsCount, WellPlaced
<1> QED BY <1>2, <1>3, <1>4, <1>6, <1>7, ShapeOf

LEMMA EmptyShape == table = NoTable /\ size = 0 /\ used = 0 => Shape
<1> SUFFICES ASSUME table = NoTable, size = 0, used = 0 PROVE Shape
  OBVIOUS
<1>1. DOMAIN table = {} /\ Entries(table) = {}
  BY DEF NoTable, Entries
<1>2. table \in [0..(size - 1) -> SUBSET Entry]
  BY DEF NoTable
<1>3. IsFiniteSet(Entries(table)) /\ Cardinality(Entries(table)) = 0
  BY <1>1, FS_EmptySet
<1>4. used \in 0..MaxSize
  BY SizesType
<1> QED BY <1>1, <1>2, <1>3, <1>4 DEF Shape, WellPlaced, UsedIsCount

LEMMA InitDInv == Init => DInv
<1> SUFFICES ASSUME Init PROVE DInv
  OBVIOUS
<1>1. Shape
  BY EmptyShape DEF Init
<1>2. Closed \in [state : {"closed", "open", "done"}, index : -1..MaxSize,
                   entry : Key \union {Nil}, next : Key \union {Nil}, rest : SUBSET Key]
  <2>1. -1 \in -1..MaxSize
    BY SizesType
  <2> QED BY <2>1 DEF Closed
<1>3. TypeOK
  BY <1>1, <1>2 DEF Init, TypeOK, Shape
<1> QED BY <1>1, <1>3 DEF DInv

LEMMA SameShape == Shape /\ UNCHANGED dict => Shape'
BY DEF Shape, dict, WellPlaced, UsedIsCount

LEMMA AddShape ==
    ASSUME Shape, NEW k \in Key, NEW v \in Val, dictAdd(k, v) \/ dictReplace(k, v)
    PROVE  Shape'
<1>1. CASE ~AddFails(k) /\ Added(k, v)
  BY <1>1, AddedShape
<1>2. CASE size' = SizeAfter /\ table' = TableAfter /\ used' = used
  BY <1>2, GrownShape
<1>3. CASE /\ Find(TableAfter, SizeAfter, k) # {}
           /\ size' = SizeAfter /\ used' = used
           /\ table' = [TableAfter EXCEPT ![Slot(k, size')] =
                          (@ \ Find(TableAfter, SizeAfter, k)) \union {[key |-> k, val |-> v]}]
  <2>1. table' = Exchange(TableAfter, size', k, Find(TableAfter, SizeAfter, k),
                          {[key |-> k, val |-> v]})
    BY <1>3 DEF Exchange, Swap
  <2> QED BY <1>3, <2>1, OverwrittenShape
<1> QED BY <1>1, <1>2, <1>3 DEF dictAdd, dictReplace

LEMMA DeleteShape ==
    ASSUME Shape, NEW k \in Key, dictDelete(k)
    PROVE  Shape'
<1>1. CASE /\ Find(table, size, k) # {}
           /\ table' = [table EXCEPT ![Slot(k, size)] = @ \ Find(table, size, k)]
           /\ used' = used - 1
  <2>1. table' = Exchange(table, size, k, Find(table, size, k), {})
    BY <1>1 DEF Exchange, Swap
  <2>2. size' = size
    BY DEF dictDelete
  <2> QED BY <1>1, <2>1, <2>2, DeletedShape
<1>2. CASE UNCHANGED <<table, used>>
  <2>1. UNCHANGED dict
    BY <1>2 DEF dictDelete, dict
  <2> QED BY <2>1, SameShape
<1> QED BY <1>1, <1>2 DEF dictDelete

(* Every call keeps the table well formed. *)
LEMMA NextShape == Shape /\ [Next]_vars => Shape'
<1> SUFFICES ASSUME Shape, [Next]_vars PROVE Shape'
  OBVIOUS
<1>1. CASE \E k \in Key, v \in Val : dictAdd(k, v) \/ dictReplace(k, v)
  BY <1>1, AddShape
<1>2. CASE \E k \in Key : dictDelete(k)
  BY <1>2, DeleteShape
<1>3. CASE dictEmpty
  <2>1. table' = NoTable /\ size' = 0 /\ used' = 0
    BY <1>3 DEF dictEmpty
  <2>2. (table = NoTable /\ size = 0 /\ used = 0 => Shape)'
    BY EmptyShape, PTL
  <2> QED BY <2>1, <2>2
<1>4. CASE redisDbResize
  BY <1>4, ResizedShape
<1>5. CASE \/ \E k \in Key : dictFind(k)
           \/ dictGetIterator \/ dictNext \/ dictReleaseIterator
           \/ dictGetRandomKey \/ Probe \/ UNCHANGED vars
  <2>1. UNCHANGED dict
    BY <1>5 DEF dictFind, dictGetIterator, dictNext, dictReleaseIterator,
                dictGetRandomKey, Probe, vars
  <2> QED BY <2>1, SameShape
<1> QED BY <1>1, <1>2, <1>3, <1>4, <1>5 DEF Next

----------------------------------------------------------------------------
(* Types of the iterator and of the answers *)

IterType ==
    /\ it \in [state : {"closed", "open", "done"}, index : -1..MaxSize,
               entry : Key \union {Nil}, next : Key \union {Nil}, rest : SUBSET Key]
    /\ start \subseteq Key /\ seen \subseteq Key
    /\ probing \in BOOLEAN /\ crashed \in BOOLEAN
ReplyType ==
    reply \in [op : {"none", "add", "replace", "delete", "find", "empty", "random"},
               key : Key \union {Nil}, res : {"ok", "err", Nil} \union Val]

LEMMA EntriesType ==
    ASSUME Shape
    PROVE  /\ Entries(table) \subseteq Entry
           /\ \A s \in DOMAIN table : Keys(table[s]) \subseteq Key /\ s \in 0..MaxSize
           /\ Keys(Entries(table)) \subseteq Key
<1>1. table \in [0..(size - 1) -> SUBSET Entry] /\ size \in Nat /\ size <= MaxSize
  BY SizesType DEF Shape
<1>2. Entries(table) \subseteq Entry
  BY <1>1 DEF Entries
<1>3. \A s \in DOMAIN table : Keys(table[s]) \subseteq Key
  BY <1>1 DEF Keys, Entry
<1>4. \A s \in DOMAIN table : s \in 0..MaxSize
  BY <1>1, SizesType
<1> QED BY <1>2, <1>3, <1>4 DEF Keys, Entry

LEMMA ReturnType ==
    ASSUME IterType, NEW s \in -1..MaxSize, NEW k \in Key, NEW behind \in SUBSET Key,
           ReturnEntry(s, k, behind), UNCHANGED <<start, probing, crashed>>
    PROVE  IterType'
<1>1. PICK n \in IF behind = {} THEN {Nil} ELSE behind :
          it' = [it EXCEPT !.index = s, !.entry = k, !.next = n, !.rest = behind \ {n}]
  BY DEF ReturnEntry
<1>2. n \in Key \union {Nil} /\ behind \ {n} \in SUBSET Key
  BY <1>1
<1> QED BY <1>1, <1>2 DEF IterType, ReturnEntry

LEMMA NextIterType ==
    ASSUME Shape, IterType, [Next]_vars
    PROVE  IterType'
<1>1. CASE UNCHANGED <<iter, probing, crashed>>
  BY <1>1 DEF IterType, iter
<1>2. CASE dictGetIterator
  BY <1>2, EntriesType, SizesType DEF dictGetIterator, IterType, Closed
<1>3. CASE dictReleaseIterator
  BY <1>3, SizesType DEF dictReleaseIterator, IterType, Closed
<1>4. CASE dictNext
  <2>1. CASE it.next # Nil /\ ReturnEntry(it.index, it.next, it.rest)
    <3>1. it.index \in -1..MaxSize /\ it.next \in Key /\ it.rest \in SUBSET Key
      BY <2>1 DEF IterType
    <3> QED BY <1>4, <2>1, <3>1, ReturnType DEF dictNext
  <2>2. CASE \E s \in Ahead : \E k \in Keys(table[s]) :
                ReturnEntry(s, k, Keys(table[s]) \ {k})
    <3>0. PICK s \in Ahead : \E k \in Keys(table[s]) : ReturnEntry(s, k, Keys(table[s]) \ {k})
      BY <2>2
    <3>1. PICK k \in Keys(table[s]) : ReturnEntry(s, k, Keys(table[s]) \ {k})
      BY <3>0
    <3>2. s \in -1..MaxSize /\ k \in Key /\ Keys(table[s]) \ {k} \in SUBSET Key
      BY EntriesType, SizesType DEF Ahead
    <3> QED BY <1>4, <3>1, <3>2, ReturnType DEF dictNext
  <2>3. CASE it' = [it EXCEPT !.state = "done", !.entry = Nil] /\ UNCHANGED seen
    BY <1>4, <2>3 DEF dictNext, IterType
  <2> QED BY <1>4, <2>1, <2>2, <2>3 DEF dictNext
<1>5. CASE \E k \in Key, v \in Val : dictReplace(k, v)
  BY <1>5 DEF dictReplace, IterType, iter
<1>6. CASE dictGetRandomKey \/ Probe
  BY <1>6 DEF dictGetRandomKey, Probe, IterType, iter
<1>7. CASE \/ \E k \in Key, v \in Val : dictAdd(k, v)
           \/ \E k \in Key : dictDelete(k) \/ dictFind(k)
           \/ dictEmpty \/ redisDbResize \/ UNCHANGED vars
  <2>1. UNCHANGED <<iter, probing, crashed>>
    BY <1>7 DEF dictAdd, dictDelete, dictFind, dictEmpty, redisDbResize, vars
  <2> QED BY <1>1, <2>1
<1> QED BY <1>2, <1>3, <1>4, <1>5, <1>6, <1>7 DEF Next

LEMMA NextReplyType ==
    ASSUME Shape, ReplyType, [Next]_vars
    PROVE  ReplyType'
<1>1. CASE UNCHANGED reply
  BY <1>1 DEF ReplyType
<1>2. CASE \E k \in Key, v \in Val : dictAdd(k, v) \/ dictReplace(k, v)
  BY <1>2 DEF dictAdd, dictReplace, Answer, ReplyType
<1>3. CASE \E k \in Key : dictDelete(k)
  BY <1>3 DEF dictDelete, Answer, ReplyType
<1>4. CASE \E k \in Key : dictFind(k)
  <2>1. PICK k \in Key : dictFind(k)
    BY <1>4
  <2>2. \A e \in Find(table, size, k) : e.val \in Val
    <3>1. ASSUME size # 0 PROVE Slot(k, size) \in DOMAIN table
      BY <3>1, SlotType, SizesType DEF Shape
    <3> QED BY <3>1, EntriesType DEF Find, Entries, Entry
  <2> QED BY <2>1, <2>2 DEF dictFind, Answer, ReplyType
<1>5. CASE dictEmpty \/ dictGetRandomKey
  BY <1>5 DEF dictEmpty, dictGetRandomKey, Answer, ReplyType
<1>6. CASE Probe
  <2>1. \A s \in DOMAIN table : \A e \in table[s] : e.key \in Key /\ e.val \in Val
    BY EntriesType DEF Entries, Entry
  <2> QED BY <1>6, <2>1 DEF Probe, Answer, ReplyType
<1>7. CASE redisDbResize \/ dictGetIterator \/ dictNext \/ dictReleaseIterator \/ UNCHANGED vars
  BY <1>1, <1>7 DEF redisDbResize, dictGetIterator, dictNext, dictReleaseIterator, vars
<1> QED BY <1>2, <1>3, <1>4, <1>5, <1>6, <1>7 DEF Next

LEMMA NextDInv == DInv /\ [Next]_vars => DInv'
<1> SUFFICES ASSUME DInv, [Next]_vars PROVE DInv'
  OBVIOUS
<1>1. Shape /\ IterType /\ ReplyType
  BY DEF DInv, TypeOK, IterType, ReplyType
<1>2. Shape' /\ IterType' /\ ReplyType'
  BY <1>1, NextShape, NextIterType, NextReplyType
<1> QED BY <1>2 DEF DInv, TypeOK, Shape, IterType, ReplyType

----------------------------------------------------------------------------
(* Theorems *)

(* The invariant that carries the theorems below. *)
THEOREM DictInvariance == Spec => []DInv
BY InitDInv, NextDInv, PTL DEF Spec

(* The fields of the table, the iterator and every answer have their types *)
(* for any keys, hash function, sizes and width of an int.                 *)
THEOREM DictTypes == Spec => []TypeOK
<1>1. DInv => TypeOK
  BY DEF DInv
<1> QED BY <1>1, DictInvariance, PTL

(* Through all growing, shrinking, adding and deleting, dictFind looks     *)
(* where the entry is, and no key is in the table twice.                   *)
THEOREM EntriesPlaced == Spec => []WellPlaced
<1>1. DInv => WellPlaced
  BY DEF DInv, Shape
<1> QED BY <1>1, DictInvariance, PTL

(* used is the number of entries and at most the number of slots, also     *)
(* where the size can double no more.                                      *)
THEOREM UsedExact == Spec => []UsedIsCount
<1>1. DInv => UsedIsCount
  BY DEF DInv, Shape
<1> QED BY <1>1, DictInvariance, PTL

----------------------------------------------------------------------------
(* Walks: what dictNext returns while its caller deletes what it is given.  *)

Here == Keys(Entries(table))
(* What is left of the chain the iterator is in.                           *)
Pending == IF it.next = Nil THEN {} ELSE {it.next} \union it.rest

(* A key of the walk is gone only if it was returned; a key was returned   *)
(* only if its slot was reached, and if its slot was reached it was        *)
(* returned or is pending.                                                 *)
Walked ==
    /\ start # {} => size # 0
    /\ Here \subseteq start /\ seen \subseteq start /\ start \ Here \subseteq seen
    /\ it.entry \in seen \union {Nil}
    /\ it.next = Nil => it.rest = {}
    /\ it.next \notin it.rest
    /\ Pending \subseteq Here \ seen
    /\ \A k \in Pending : Slot(k, size) = it.index
    /\ it.index < SizeMask \/ it.index = -1
    /\ \A k \in seen : Slot(k, size) <= it.index
    /\ \A k \in start : Slot(k, size) <= it.index => k \in seen \union Pending
    /\ it.state = "done" =>
         it.next = Nil /\ \A k \in start : Slot(k, size) < SizeMask => k \in seen

WInv == IF it.state = "closed" THEN it.next = Nil ELSE Walked

----------------------------------------------------------------------------
(* Keys and slots *)

LEMMA KeysHere ==
    ASSUME Shape
    PROVE  /\ Here \subseteq Key
           /\ size \in Nat /\ (size # 0 => DOMAIN table = 0..(size - 1))
           /\ Here # {} => size # 0
           /\ \A s \in DOMAIN table : \A k \in Keys(table[s]) : k \in Here /\ Slot(k, size) = s
           /\ \A k \in Here : Slot(k, size) \in DOMAIN table /\ k \in Keys(table[Slot(k, size)])
<1>1. size \in Nat /\ table \in [0..(size - 1) -> SUBSET Entry] /\ Placed(table, size)
  BY SizesType DEF Shape, WellPlaced, Placed
<1>2. Here \subseteq Key
  BY EntriesType DEF Here
<1>3. ASSUME NEW s \in DOMAIN table, NEW k \in Keys(table[s])
      PROVE  k \in Here /\ Slot(k, size) = s
  <2>1. PICK e \in table[s] : e.key = k
    BY DEF Keys
  <2>2. e \in Entries(table)
    BY DEF Entries
  <2> QED BY <1>1, <2>1, <2>2 DEF Here, Keys, Placed
<1>4. ASSUME NEW k \in Here
      PROVE  size # 0 /\ Slot(k, size) \in DOMAIN table /\ k \in Keys(table[Slot(k, size)])
  <2>1. PICK e \in Entries(table) : e.key = k
    BY DEF Here, Keys
  <2>2. PICK s \in DOMAIN table : e \in table[s]
    BY DEF Entries
  <2>3. Slot(k, size) = s
    BY <1>1, <2>1, <2>2 DEF Placed
  <2>4. size # 0
    BY <1>1, <2>2
  <2> QED BY <2>1, <2>2, <2>3, <2>4 DEF Keys
<1> QED BY <1>1, <1>2, <1>3, <1>4

(* Deleting a key takes it, and nothing else, out of the table.            *)
LEMMA KeysDeleted ==
    ASSUME Shape, NEW k \in Key, dictDelete(k)
    PROVE  Here' = Here \ {k} /\ size' = size
<1>1. CASE UNCHANGED table /\ Find(table, size, k) = {}
  <2>1. k \notin Here
    <3>1. ASSUME k \in Here PROVE Find(table, size, k) # {}
      <4>1. size # 0 /\ k \in Keys(table[Slot(k, size)])
        BY <3>1, KeysHere
      <4> QED BY <4>1 DEF Find, Keys
    <3> QED BY <1>1, <3>1
  <2>2. Here' = Here
    BY <1>1 DEF Here
  <2> QED BY <2>1, <2>2 DEF dictDelete
<1>2. CASE /\ Find(table, size, k) # {}
           /\ table' = [table EXCEPT ![Slot(k, size)] = @ \ Find(table, size, k)]
  <2> DEFINE out == Find(table, size, k)
  <2>1. table' = Exchange(table, size, k, out, {})
    BY <1>2 DEF Exchange, Swap
  <2>2. size # 0 /\ size \in Nat
    BY <1>2, SizesType DEF Find, Shape
  <2>3. Table(table, size)
    BY <2>2 DEF Shape, WellPlaced, Placed, Table
  <2>4. out = {e \in Entries(table) : e.key = k} /\ Entries(table) \subseteq Entry
    BY <2>3, FindAll, EntriesType DEF Table
  <2>5. OfKey(out, k) /\ OfKey({}, k)
    BY <2>4 DEF OfKey
  <2> HIDE DEF out
  <2>6. Entries(table') = Swap(Entries(table), out, {})
    BY <2>1, <2>3, <2>5, SetChain
  <2>7. Entries(table') = {e \in Entries(table) : e.key # k}
    BY <2>4, <2>6 DEF Swap
  <2>8. Keys(Entries(table')) = Keys(Entries(table)) \ {k}
    BY <2>7 DEF Keys
  <2> QED BY <2>8 DEF Here, dictDelete
<1> QED BY <1>1, <1>2 DEF dictDelete

----------------------------------------------------------------------------
(* Steps of a walk *)

(* What is behind the entry that is returned becomes pending.              *)
LEMMA Returned ==
    ASSUME IterType, NEW s \in -1..MaxSize, NEW k \in Key, NEW behind \in SUBSET Key,
           ReturnEntry(s, k, behind)
    PROVE  /\ it'.state = it.state /\ it'.index = s /\ it'.entry = k
           /\ it'.next = Nil => it'.rest = {}
           /\ it'.next \notin it'.rest
           /\ Pending' = behind /\ seen' = seen \union {k}
<1>1. PICK n \in IF behind = {} THEN {Nil} ELSE behind :
          it' = [it EXCEPT !.index = s, !.entry = k, !.next = n, !.rest = behind \ {n}]
  BY DEF ReturnEntry
<1>2. /\ it'.state = it.state /\ it'.index = s /\ it'.entry = k
      /\ it'.next = n /\ it'.rest = behind \ {n}
  BY <1>1 DEF IterType
<1>3. n = Nil <=> behind = {}
  BY NilAssumption
<1>4. Pending' = behind
  BY <1>2, <1>3 DEF Pending
<1> QED BY <1>2, <1>3, <1>4 DEF ReturnEntry

LEMMA ReturnsPending ==
    ASSUME Shape, IterType, Walked, it.next # Nil,
           ReturnEntry(it.index, it.next, it.rest), UNCHANGED <<dict, start>>
    PROVE  Walked'
<1> DEFINE i == it.index
           k == it.next
           rest == it.rest
<1>1. i \in -1..MaxSize /\ k \in Key /\ rest \in SUBSET Key
  BY DEF IterType
<1>2. /\ it'.state = it.state /\ it'.index = i /\ it'.entry = k
      /\ it'.next = Nil => it'.rest = {}
      /\ it'.next \notin it'.rest
      /\ Pending' = rest /\ seen' = seen \union {k}
  BY <1>1, Returned
<1>3. Pending = {k} \union rest /\ k \notin rest
  BY DEF Pending, Walked
<1>4. /\ size' = size /\ start' = start /\ Here' = Here /\ SizeMask' = SizeMask
      /\ \A x : Slot(x, size)' = Slot(x, size)
  BY DEF dict, Here, SizeMask
<1>5. k \in Here /\ k \in start /\ Slot(k, size) = i /\ i \in Int
  BY <1>1, <1>3 DEF Walked
<1>6. it.state # "done"
  BY DEF Walked
<1> HIDE DEF i, k, rest
<1>7. Pending' \subseteq Here' \ seen'
  BY <1>2, <1>3, <1>4 DEF Walked
<1>8. \A x \in Pending' : Slot(x, size)' = it'.index
  BY <1>2, <1>3, <1>4 DEF Walked, i
<1>9. \A x \in seen' : Slot(x, size)' <= it'.index
  BY <1>2, <1>4, <1>5 DEF Walked, i
<1>10. \A x \in start' : Slot(x, size)' <= it'.index => x \in seen' \union Pending'
  BY <1>2, <1>3, <1>4 DEF Walked, i
<1>11. Here' \subseteq start' /\ seen' \subseteq start' /\ start' \ Here' \subseteq seen'
  BY <1>2, <1>4, <1>5 DEF Walked
<1> QED BY <1>2, <1>4, <1>6, <1>7, <1>8, <1>9, <1>10, <1>11 DEF Walked, i

LEMMA ReturnsFirst ==
    ASSUME Shape, IterType, Walked, it.next = Nil, it.state = "open",
           NEW s \in Ahead, \A t \in Ahead : s <= t,
           NEW k \in Keys(table[s]), ReturnEntry(s, k, Keys(table[s]) \ {k}),
           UNCHANGED <<dict, start>>
    PROVE  Walked'
<1> DEFINE rest == Keys(table[s]) \ {k}
<1>1. /\ s \in DOMAIN table /\ s > it.index /\ s < SizeMask
      /\ s \in -1..MaxSize /\ s \in Int /\ it.index \in Int
  BY EntriesType, SizesType DEF Ahead, IterType
<1>2. Keys(table[s]) \subseteq Key
  BY <1>1, EntriesType
<1>3. /\ it'.state = it.state /\ it'.index = s /\ it'.entry = k
      /\ it'.next = Nil => it'.rest = {}
      /\ it'.next \notin it'.rest
      /\ Pending' = rest /\ seen' = seen \union {k}
  BY <1>1, <1>2, Returned
<1>4. /\ size' = size /\ start' = start /\ Here' = Here /\ SizeMask' = SizeMask
      /\ \A x : Slot(x, size)' = Slot(x, size)
  BY DEF dict, Here, SizeMask
<1>5. \A x \in Keys(table[s]) : x \in Here /\ x \in start /\ Slot(x, size) = s
  BY <1>1, KeysHere DEF Walked
<1>6. Pending = {}
  BY DEF Pending
<1>7. \A x \in seen : Slot(x, size) <= it.index
  BY DEF Walked
<1>8. \A x \in Keys(table[s]) : x \notin seen
  BY <1>1, <1>5, <1>7
<1>9. ASSUME NEW x \in start, Slot(x, size) <= s PROVE x \in seen \union {k} \union rest
  <2>1. CASE x \in seen
    BY <2>1
  <2>2. CASE x \notin seen
    <3>1. x \in Here
      BY <2>2 DEF Walked
    <3>2. /\ Slot(x, size) \in DOMAIN table /\ x \in Keys(table[Slot(x, size)])
          /\ size \in Nat /\ DOMAIN table = 0..(size - 1)
      BY <3>1, KeysHere
    <3>3. ~(Slot(x, size) <= it.index)
      BY <1>6, <2>2 DEF Walked
    <3>4. table[Slot(x, size)] # {}
      BY <3>2 DEF Keys
    <3>5. SizeMask \in Int
      BY <3>2 DEF SizeMask
    <3>6. Slot(x, size) \in Ahead \/ ~(Slot(x, size) < SizeMask)
      BY <1>1, <3>2, <3>3, <3>4, <3>5 DEF Ahead
    <3>7. Slot(x, size) = s
      BY <1>1, <1>9, <3>2, <3>5, <3>6
    <3> QED BY <3>2, <3>7
  <2> QED BY <2>1, <2>2
<1> HIDE DEF rest
<1>10. rest \subseteq Keys(table[s]) /\ k \notin rest
  BY DEF rest
<1>11. Pending' \subseteq Here' \ seen'
  BY <1>3, <1>4, <1>5, <1>8, <1>10
<1>12. \A x \in Pending' : Slot(x, size)' = it'.index
  BY <1>3, <1>4, <1>5, <1>10
<1>13. \A x \in seen' : Slot(x, size)' <= it'.index
  <2> SUFFICES ASSUME NEW x \in seen' PROVE Slot(x, size) <= s
    BY <1>3, <1>4
  <2>1. CASE x = k
    BY <1>1, <1>5, <2>1
  <2>2. CASE x \in seen
    <3>1. x \in Key
      BY <2>2 DEF IterType
    <3>2. size \in Nat \ {0}
      BY <1>5, KeysHere DEF Walked
    <3>3. Slot(x, size) \in Int
      BY <3>1, <3>2, SlotType
    <3> QED BY <1>1, <1>7, <2>2, <3>3
  <2> QED BY <1>3, <2>1, <2>2
<1>14. \A x \in start' : Slot(x, size)' <= it'.index => x \in seen' \union Pending'
  BY <1>3, <1>4, <1>9
<1>15. Here' \subseteq start' /\ seen' \subseteq start' /\ start' \ Here' \subseteq seen'
  BY <1>3, <1>4, <1>5 DEF Walked
<1>16. it'.index < SizeMask' /\ (start' # {} => size' # 0)
  BY <1>1, <1>3, <1>4 DEF Walked
<1> QED BY <1>3, <1>11, <1>12, <1>13, <1>14, <1>15, <1>16 DEF Walked

LEMMA ReturnsNothing ==
    ASSUME Shape, IterType, Walked, it.next = Nil, Ahead = {},
           it' = [it EXCEPT !.state = "done", !.entry = Nil],
           UNCHANGED <<dict, start, seen>>
    PROVE  Walked'
<1>1. /\ it'.state = "done" /\ it'.index = it.index /\ it'.entry = Nil
      /\ it'.next = it.next /\ it'.rest = it.rest
  BY DEF IterType
<1>2. /\ size' = size /\ start' = start /\ seen' = seen /\ Here' = Here
      /\ SizeMask' = SizeMask /\ \A x : Slot(x, size)' = Slot(x, size)
  BY DEF dict, Here, SizeMask
<1>3. Pending' = Pending /\ Pending = {}
  BY <1>1 DEF Pending
<1>4. ASSUME NEW x \in start, Slot(x, size) < SizeMask PROVE x \in seen
  <2> SUFFICES ASSUME x \notin seen PROVE FALSE
    OBVIOUS
  <2>1. x \in Here
    BY DEF Walked
  <2>2. /\ Slot(x, size) \in DOMAIN table /\ x \in Keys(table[Slot(x, size)])
        /\ size \in Nat /\ DOMAIN table = 0..(size - 1)
    BY <2>1, KeysHere
  <2>3. ~(Slot(x, size) <= it.index) /\ it.index \in Int
    BY <1>3 DEF Walked, IterType
  <2>4. table[Slot(x, size)] # {}
    BY <2>2 DEF Keys
  <2>5. Slot(x, size) \in Ahead
    BY <1>4, <2>2, <2>3, <2>4 DEF Ahead
  <2> QED BY <2>5
<1> QED BY <1>1, <1>2, <1>3, <1>4 DEF Walked

LEMMA DeletesReturned ==
    ASSUME Shape, IterType, Walked, it.state = "open", NEW k \in Key, k = it.entry,
           dictDelete(k)
    PROVE  Walked'
<1>1. Here' = Here \ {k} /\ size' = size
  BY KeysDeleted
<1>2. /\ UNCHANGED <<it, start, seen>> /\ SizeMask' = SizeMask
      /\ \A x : Slot(x, size)' = Slot(x, size)
  BY <1>1 DEF dictDelete, iter, SizeMask
<1>3. Pending' = Pending
  BY <1>2 DEF Pending
<1>4. k \in seen
  BY NilAssumption DEF Walked
<1> QED BY <1>1, <1>2, <1>3, <1>4 DEF Walked

LEMMA Starts ==
    ASSUME Shape, dictGetIterator PROVE Walked'
<1>1. /\ it'.state = "open" /\ it'.index = -1 /\ it'.entry = Nil /\ it'.next = Nil
      /\ it'.rest = {} /\ start' = Here /\ seen' = {} /\ UNCHANGED dict
  BY DEF dictGetIterator, Closed, Here
<1>2. Here' = Here /\ size' = size /\ (Here # {} => size # 0)
  BY <1>1, KeysHere DEF dict, Here
<1>3. Pending' = {}
  BY <1>1 DEF Pending
<1>4. ASSUME NEW x \in start', Slot(x, size)' <= -1 PROVE FALSE
  <2>1. x \in Key /\ size' \in Nat \ {0}
    BY <1>1, <1>2, KeysHere
  <2>2. Slot(x, size') \in 0..(size' - 1)
    BY <2>1, SlotType
  <2> QED BY <1>4, <2>1, <2>2
<1> QED BY <1>1, <1>2, <1>3, <1>4 DEF Walked

----------------------------------------------------------------------------
(* The invariant *)

LEMMA NextWInv == DInv /\ WInv /\ [Next]_vars => WInv'
<1> SUFFICES ASSUME DInv, WInv, [Next]_vars PROVE WInv'
  OBVIOUS
<1>1. Shape /\ IterType
  BY DEF DInv, TypeOK, IterType
<1>2. CASE dictGetIterator
  <2>1. Walked' /\ it'.state = "open"
    BY <1>1, <1>2, Starts DEF dictGetIterator, Closed
  <2> QED BY <2>1 DEF WInv
<1>3. CASE dictReleaseIterator
  BY <1>3 DEF dictReleaseIterator, Closed, WInv
<1>4. CASE dictNext
  <2>1. Walked /\ it.state = "open" /\ UNCHANGED <<dict, start>>
    BY <1>4 DEF dictNext, WInv
  <2>2. CASE it.next # Nil /\ ReturnEntry(it.index, it.next, it.rest)
    <3>1. Walked'
      BY <1>1, <2>1, <2>2, ReturnsPending
    <3>2. it'.state = "open"
      BY <1>1, <2>1, <2>2 DEF ReturnEntry, IterType
    <3> QED BY <3>1, <3>2 DEF WInv
  <2>3. ASSUME it.next = Nil, NEW s \in Ahead, \A t \in Ahead : s <= t,
               NEW k \in Keys(table[s]), ReturnEntry(s, k, Keys(table[s]) \ {k})
        PROVE  WInv'
    <3>1. Walked'
      BY <1>1, <2>1, <2>3, ReturnsFirst
    <3>2. it'.state = "open"
      BY <1>1, <2>1, <2>3 DEF ReturnEntry, IterType
    <3> QED BY <3>1, <3>2 DEF WInv
  <2>4. CASE /\ it.next = Nil /\ Ahead = {}
             /\ it' = [it EXCEPT !.state = "done", !.entry = Nil]
             /\ UNCHANGED seen
    <3>1. Walked'
      BY <1>1, <2>1, <2>4, ReturnsNothing
    <3>2. it'.state = "done"
      BY <1>1, <2>4 DEF IterType
    <3> QED BY <3>1, <3>2 DEF WInv
  <2> QED BY <1>4, <2>2, <2>3, <2>4 DEF dictNext
<1>5. ASSUME NEW k \in Key, dictDelete(k) PROVE WInv'
  <2>1. UNCHANGED it
    BY <1>5 DEF dictDelete, iter
  <2>2. CASE it.state = "closed"
    BY <2>1, <2>2 DEF WInv
  <2>3. CASE it.state # "closed"
    <3>1. it.state = "open" /\ k = it.entry /\ Walked
      BY <1>5, <2>3 DEF dictDelete, WInv
    <3>2. Walked'
      BY <1>1, <1>5, <3>1, DeletesReturned
    <3> QED BY <2>1, <3>1, <3>2 DEF WInv
  <2> QED BY <2>2, <2>3
<1>6. CASE UNCHANGED <<dict, iter>>
  BY <1>6 DEF WInv, Walked, dict, iter, Here, Pending, SizeMask
<1>7. CASE it.state = "closed" /\ UNCHANGED iter
  BY <1>7 DEF WInv, iter
<1>8. CASE \E k \in Key : dictFind(k)
  BY <1>6, <1>8 DEF dictFind
<1>9. CASE \/ \E k \in Key, v \in Val : dictAdd(k, v) \/ dictReplace(k, v)
           \/ dictEmpty \/ redisDbResize
  BY <1>7, <1>9 DEF dictAdd, dictReplace, dictEmpty, redisDbResize, Idle
<1>10. CASE dictGetRandomKey \/ Probe \/ UNCHANGED vars
  BY <1>6, <1>10 DEF dictGetRandomKey, Probe, vars
<1> QED BY <1>2, <1>3, <1>4, <1>5, <1>8, <1>9, <1>10 DEF Next

(* Every walk keeps its books: returned, pending and not reached yet.      *)
THEOREM WalkInvariance == Spec => [](DInv /\ WInv)
<1>1. Init => DInv /\ WInv
  BY InitDInv DEF Init, Closed, WInv
<1>2. DInv /\ WInv /\ [Next]_vars => DInv' /\ WInv'
  BY NextDInv, NextWInv
<1> QED BY <1>1, <1>2, PTL DEF Spec

(* The saved next entry survives every deletion a walk may do.             *)
THEOREM SavedNextIsAlive == Spec => []NextIsAlive
<1>1. DInv /\ WInv => NextIsAlive
  <2> SUFFICES ASSUME DInv, WInv, it.next # Nil
               PROVE  it.next \in Keys(table[it.index]) \ seen
    BY DEF NextIsAlive
  <2>1. Walked /\ it.next \in Pending
    BY DEF WInv, Pending
  <2>2. it.next \in Here \ seen /\ Slot(it.next, size) = it.index
    BY <2>1 DEF Walked
  <2> QED BY <2>2, KeysHere DEF DInv
<1> QED BY <1>1, WalkInvariance, PTL

(* A finished walk has returned every key but those of the last slot.      *)
THEOREM WalkReturns == Spec => []WalkAllButLastSlot
<1>1. DInv /\ WInv => WalkAllButLastSlot
  <2> SUFFICES ASSUME DInv, WInv, it.state = "done"
               PROVE  seen = {k \in start : Slot(k, size) # size - 1}
    BY DEF WalkAllButLastSlot
  <2>1. Walked /\ Shape /\ start \subseteq Key
    BY DEF DInv, TypeOK, WInv
  <2>2. ASSUME NEW k \in start
        PROVE  size \in Nat \ {0} /\ Slot(k, size) \in 0..(size - 1) /\ SizeMask = size - 1
    <3>1. size \in Nat \ {0}
      BY <2>1, KeysHere DEF Walked
    <3>2. Slot(k, size) \in 0..(size - 1)
      BY <2>1, <3>1, SlotType
    <3> QED BY <3>1, <3>2 DEF SizeMask
  <2>3. ASSUME NEW k \in seen PROVE k \in start /\ Slot(k, size) # size - 1
    <3>1. k \in start /\ Slot(k, size) <= it.index
      BY <2>1 DEF Walked
    <3>2. it.index < SizeMask \/ it.index = -1
      BY <2>1 DEF Walked
    <3>3. it.index \in Int
      BY DEF DInv, TypeOK
    <3> QED BY <2>2, <3>1, <3>2, <3>3
  <2>4. ASSUME NEW k \in start, Slot(k, size) # size - 1 PROVE k \in seen
    <3>1. Slot(k, size) < SizeMask
      BY <2>2, <2>4
    <3> QED BY <2>1, <3>1 DEF Walked
  <2> QED BY <2>3, <2>4
<1> QED BY <1>1, WalkInvariance, PTL

----------------------------------------------------------------------------
(* The map: Dict implements KeyMap through all changes of size.             *)

(* The map a set of entries stands for. *)
MapOf(S) == [k \in Keys(S) |-> (CHOOSE e \in S : e.key = k).val]
All == Entries(table)
M == MapOf(All)

----------------------------------------------------------------------------
(* Maps and entries *)

LEMMA MapEntry ==
    ASSUME NEW S, Unique(S), NEW e \in S
    PROVE  e.key \in Keys(S) /\ MapOf(S)[e.key] = e.val
<1>1. e.key \in Keys(S)
  BY DEF Keys
<1>2. (CHOOSE f \in S : f.key = e.key) = e
  BY DEF Unique
<1> QED BY <1>1, <1>2 DEF MapOf

(* Two sets of entries with the same entry for a key agree on it. *)
LEMMA MapAgrees ==
    ASSUME NEW S, Unique(S), NEW T, Unique(T), NEW k \in Keys(S),
           \A e \in S : e.key = k => e \in T
    PROVE  k \in Keys(T) /\ MapOf(T)[k] = MapOf(S)[k]
<1>1. PICK e \in S : e.key = k
  BY DEF Keys
<1> QED BY <1>1, MapEntry

With(S, e)    == {f \in S : f.key # e.key} \union {e}
Without(S, k) == {f \in S : f.key # k}

LEMMA MapPut ==
    ASSUME NEW S, Unique(S), NEW e, Unique(With(S, e))
    PROVE  MapOf(With(S, e)) = [x \in Keys(S) \union {e.key} |->
                                  IF x = e.key THEN e.val ELSE MapOf(S)[x]]
<1> DEFINE T == With(S, e)
<1>1. Keys(T) = Keys(S) \union {e.key}
  BY DEF Keys, With
<1>2. MapOf(T)[e.key] = e.val
  BY MapEntry DEF With
<1>3. ASSUME NEW x \in Keys(S), x # e.key PROVE MapOf(T)[x] = MapOf(S)[x]
  <2>1. \A f \in S : f.key = x => f \in T
    BY <1>3 DEF With
  <2> QED BY <1>3, <2>1, MapAgrees
<1>4. DOMAIN MapOf(T) = Keys(T) /\ MapOf(T) = [x \in Keys(T) |-> MapOf(T)[x]]
  BY DEF MapOf
<1> HIDE DEF T
<1> QED BY <1>1, <1>2, <1>3, <1>4 DEF T

LEMMA MapRemove ==
    ASSUME NEW S, Unique(S), NEW k
    PROVE  /\ Keys(Without(S, k)) = Keys(S) \ {k}
           /\ MapOf(Without(S, k)) = [x \in Keys(S) \ {k} |-> MapOf(S)[x]]
<1> DEFINE T == Without(S, k)
<1>1. Keys(T) = Keys(S) \ {k} /\ Unique(T)
  BY DEF Keys, Without, Unique
<1>2. ASSUME NEW x \in Keys(T) PROVE MapOf(T)[x] = MapOf(S)[x]
  <2>1. \A f \in T : f.key = x => f \in S
    BY DEF Without
  <2> HIDE DEF T
  <2> QED BY <1>1, <2>1, MapAgrees
<1>3. MapOf(T) = [x \in Keys(T) |-> MapOf(T)[x]]
  BY DEF MapOf
<1> HIDE DEF T
<1> QED BY <1>1, <1>2, <1>3 DEF T

----------------------------------------------------------------------------
(* Tables *)

(* With fewer keys than slots in the largest table, the table can always   *)
(* grow.                                                                   *)
LEMMA NeverRefused ==
    ASSUME Shape, IsFiniteSet(Key), Cardinality(Key) < MaxSize
    PROVE  ~Refused
<1> DEFINE f == [e \in All |-> e.key]
<1>1. All \subseteq Entry /\ Unique(All) /\ used = Cardinality(All) /\ used \in Nat
      /\ used <= size /\ size \in Sizes \union {0}
  BY EntriesType DEF All, Shape, WellPlaced, UsedIsCount, Unique
<1>2. f \in Injection(All, Key)
  BY <1>1 DEF Unique, Injection, IsInjective, Entry
<1>3. used <= Cardinality(Key) /\ Cardinality(Key) \in Nat
  BY <1>1, <1>2, FS_Injection, FS_CardinalityType
<1> HIDE DEF MaxSize
<1>4. used < MaxSize /\ MaxSize \in Nat
  BY <1>1, <1>3, SizesType
<1>5. CASE size = 0
  BY <1>1, <1>5, SizesType DEF Refused, Wanted
<1>6. CASE size # 0 /\ used = size
  <2>1. size \in Sizes /\ size \in Nat /\ size # MaxSize
    BY <1>1, <1>4, <1>6, SizesType
  <2>2. Wanted = size * 2
    BY <1>6, <2>1, Doubling DEF Wanted
  <2> QED BY <1>6, <2>1, <2>2 DEF Refused
<1>7. CASE size # 0 /\ used # size
  BY <1>1, <1>7, SizesType DEF Refused, Wanted
<1> QED BY <1>5, <1>6, <1>7

(* Looking for a key, before and after growing. *)
LEMMA Looked ==
    ASSUME Shape, NEW k \in Key
    PROVE  /\ Find(table, size, k) = {e \in All : e.key = k}
           /\ Find(TableAfter, SizeAfter, k) = {e \in All : e.key = k}
           /\ Entries(TableAfter) = All
<1>1. Find(TableAfter, SizeAfter, k) = {e \in All : e.key = k} /\ Entries(TableAfter) = All
  <2>1. /\ SizeAfter \in Nat \ {0} /\ TableAfter \in [0..(SizeAfter - 1) -> SUBSET Entry]
        /\ Placed(TableAfter, SizeAfter) /\ Entries(TableAfter) = Entries(table)
    BY Grow, SizesType
  <2> QED BY <2>1, FindAll DEF All
<1>2. CASE size = 0
  <2>1. All = {}
    BY <1>2 DEF Shape, All, Entries
  <2> QED BY <1>1, <1>2, <2>1 DEF Find
<1>3. CASE size # 0
  BY <1>1, <1>3, FindAll, SizesType DEF Shape, WellPlaced, Placed, All
<1> QED BY <1>2, <1>3

LEMMA AllUnique == Shape => Unique(All)
BY DEF Shape, WellPlaced, All, Unique

----------------------------------------------------------------------------
(* Calls, over the map *)

Put(k, v) == M' = [x \in DOMAIN M \union {k} |-> IF x = k THEN v ELSE M[x]]

MapAdd(k, v) ==
    \/ k \notin DOMAIN M /\ Put(k, v) /\ Answer("add", k, "ok")
    \/ k \in DOMAIN M /\ M' = M /\ Answer("add", k, "err")
MapReplace(k, v) == Put(k, v) /\ Answer("replace", k, "ok")
MapDelete(k) ==
    /\ M' = [x \in DOMAIN M \ {k} |-> M[x]]
    /\ Answer("delete", k, IF k \in DOMAIN M THEN "ok" ELSE "err")
MapFind(k) == M' = M /\ Answer("find", k, IF k \in DOMAIN M THEN M[k] ELSE Nil)
MapEmpty   == M' = [k \in {} |-> Nil] /\ Answer("empty", Nil, "ok")
MapRandom  ==
    /\ M' = M
    /\ \/ DOMAIN M = {} /\ Answer("random", Nil, Nil)
       \/ \E k \in DOMAIN M : Answer("random", k, M[k])
MapStutter == M' = M /\ reply' = reply

LEMMA MType == DOMAIN M = Keys(All)
BY DEF M, MapOf

(* An entry that was put into the table, beside or instead of another. *)
LEMMA PutMap ==
    ASSUME Shape, Shape', NEW k \in Key, NEW v \in Val,
           All' = With(All, [key |-> k, val |-> v])
    PROVE  Put(k, v)
<1> DEFINE e == [key |-> k, val |-> v]
<1>1. Unique(All) /\ Unique(All')
  <2>1. Unique(All)
    BY AllUnique
  <2>2. (Shape => Unique(All))'
    BY AllUnique, PTL
  <2> QED BY <2>1, <2>2 DEF Unique
<1>2. e.key = k /\ e.val = v
  OBVIOUS
<1>3. M' = MapOf(All')
  BY DEF M
<1> HIDE DEF e
<1>4. M' = [x \in Keys(All) \union {e.key} |-> IF x = e.key THEN e.val ELSE MapOf(All)[x]]
  BY <1>1, <1>3, MapPut, SMTT(60) DEF e
<1> QED BY <1>2, <1>4, MType DEF Put, M

LEMMA AddMap ==
    ASSUME Shape, Shape', IsFiniteSet(Key), Cardinality(Key) < MaxSize,
           NEW k \in Key, NEW v \in Val, dictAdd(k, v) \/ dictReplace(k, v)
    PROVE  MapAdd(k, v) \/ MapReplace(k, v)
<1> DEFINE e == [key |-> k, val |-> v]
           out == Find(TableAfter, SizeAfter, k)
<1>1. /\ out = {f \in All : f.key = k} /\ Entries(TableAfter) = All /\ ~Refused
      /\ Table(TableAfter, SizeAfter) /\ e \in Entry /\ e.key = k
  BY Looked, NeverRefused, Grow, SizesType DEF Table, Entry
<1>2. AddFails(k) <=> k \in Keys(All)
  BY <1>1 DEF AddFails, Keys
<1>3. OfKey(out, k) /\ OfKey({}, k) /\ OfKey({e}, k)
  BY <1>1, EntriesType DEF OfKey, All
<1>4. ASSUME ~AddFails(k), Added(k, v) PROVE k \notin Keys(All) /\ Put(k, v)
  <2>1. table' = Exchange(TableAfter, SizeAfter, k, {}, {e})
    BY <1>4 DEF Added, Exchange, Swap
  <2> HIDE DEF e, out
  <2>2. All' = Swap(All, {}, {e})
    BY <1>1, <1>3, <2>1, SetChain DEF All
  <2>3. All' = With(All, e)
    BY <1>1, <1>2, <1>4, <2>2 DEF With, Swap, Keys
  <2> QED BY <1>2, <1>4, <2>3, PutMap DEF e
<1>5. ASSUME size' = SizeAfter,
             table' = [TableAfter EXCEPT ![Slot(k, size')] =
                         (@ \ Find(TableAfter, SizeAfter, k)) \union {[key |-> k, val |-> v]}]
      PROVE  Put(k, v)
  <2>1. table' = Exchange(TableAfter, SizeAfter, k, out, {e})
    BY <1>5 DEF Exchange, Swap
  <2> HIDE DEF e, out
  <2>2. All' = Swap(All, out, {e})
    BY <1>1, <1>3, <2>1, SetChain DEF All
  <2>3. All' = With(All, e)
    BY <1>1, <2>2 DEF With, Swap
  <2> QED BY <2>3, PutMap DEF e
<1>6. table' = TableAfter => M' = M
  BY <1>1 DEF All, M
<1>7. ~(AddFails(k) /\ out = {})
  BY <1>1 DEF AddFails
<1>8. CASE dictAdd(k, v)
  BY <1>2, <1>4, <1>6, <1>8, MType DEF dictAdd, MapAdd
<1>9. CASE dictReplace(k, v)
  <2>1. CASE ~AddFails(k) /\ Added(k, v) /\ Answer("replace", k, "ok")
    BY <1>4, <2>1 DEF MapReplace
  <2>2. CASE /\ size' = SizeAfter
             /\ table' = [TableAfter EXCEPT ![Slot(k, size')] =
                            (@ \ Find(TableAfter, SizeAfter, k)) \union {[key |-> k, val |-> v]}]
             /\ Answer("replace", k, "ok")
    BY <1>5, <2>2 DEF MapReplace
  <2> QED BY <1>7, <1>9, <2>1, <2>2 DEF dictReplace
<1> QED BY <1>8, <1>9

LEMMA DeleteMap ==
    ASSUME Shape, NEW k \in Key, dictDelete(k)
    PROVE  MapDelete(k)
<1> DEFINE out == Find(table, size, k)
<1>1. out = {e \in All : e.key = k} /\ Unique(All) /\ All \subseteq Entry
  BY Looked, AllUnique, EntriesType DEF All
<1>2. (out # {} <=> k \in Keys(All)) /\ Without(All, k) = All \ out
  BY <1>1 DEF Keys, Without
<1>3. All' = Without(All, k)
  <2>1. CASE out = {} /\ UNCHANGED table
    BY <1>2, <2>1 DEF All
  <2>2. CASE out # {} /\ table' = [table EXCEPT ![Slot(k, size)] = @ \ out]
    <3>1. table' = Exchange(table, size, k, out, {})
      BY <2>2 DEF Exchange, Swap
    <3>2. size # 0
      BY <2>2 DEF Find
    <3>3. Table(table, size) /\ OfKey(out, k) /\ OfKey({}, k)
      BY <1>1, <3>2, SizesType DEF Shape, WellPlaced, Placed, Table, OfKey
    <3> HIDE DEF out
    <3>4. All' = Swap(All, out, {})
      BY <3>1, <3>3, SetChain DEF All
    <3> QED BY <1>2, <3>4 DEF Swap
  <2> QED BY <2>1, <2>2 DEF dictDelete
<1>4. M' = MapOf(Without(All, k))
  BY <1>3 DEF M
<1>5. M' = [x \in Keys(All) \ {k} |-> M[x]]
  BY <1>1, <1>4, MapRemove DEF M
<1>6. Answer("delete", k, IF k \in Keys(All) THEN "ok" ELSE "err")
  BY <1>2 DEF dictDelete
<1> QED BY <1>5, <1>6, MType DEF MapDelete

LEMMA FindMap ==
    ASSUME Shape, NEW k \in Key, dictFind(k)
    PROVE  MapFind(k)
<1>1. Find(table, size, k) = {e \in All : e.key = k} /\ Unique(All)
  BY Looked, AllUnique
<1>2. M' = M
  BY DEF dictFind, dict, M, All
<1>3. CASE Find(table, size, k) = {} /\ Answer("find", k, Nil)
  <2>1. k \notin Keys(All)
    BY <1>1, <1>3 DEF Keys
  <2> QED BY <1>2, <1>3, <2>1, MType DEF MapFind
<1>4. CASE \E e \in Find(table, size, k) : Answer("find", k, e.val)
  <2>1. PICK e \in All : e.key = k /\ Answer("find", k, e.val)
    BY <1>1, <1>4
  <2>2. k \in Keys(All) /\ M[k] = e.val
    BY <1>1, <2>1, MapEntry DEF M
  <2> QED BY <1>2, <2>1, <2>2, MType DEF MapFind
<1> QED BY <1>3, <1>4 DEF dictFind

LEMMA ResizeMap == ASSUME Shape, redisDbResize PROVE MapStutter
<1> DEFINE want == IF used < InitialSize THEN InitialSize ELSE used
<1>1. want \in 0..MaxSize
  BY SizesType DEF Shape
<1>2. size' = _dictNextPower(want) /\ table' = Rehash(table, size')
  BY DEF redisDbResize
<1> HIDE DEF want
<1>3. size' \in Nat \ {0}
  BY <1>1, <1>2, NextPower, SizesType
<1>4. size \in Nat /\ table \in [0..(size - 1) -> SUBSET Entry]
  BY SizesType DEF Shape
<1>5. Entries(table') = Entries(table)
  BY <1>2, <1>3, <1>4, RehashKeeps
<1> QED BY <1>5 DEF M, All, MapStutter, redisDbResize

LEMMA NoEntries ==
    ASSUME Shape, size = 0
    PROVE  All = {} /\ M = [k \in {} |-> Nil]
<1>1. All = {}
  BY DEF Shape, All, Entries
<1>2. Keys(All) = {}
  BY <1>1 DEF Keys
<1> QED BY <1>1, <1>2 DEF M, MapOf

LEMMA EmptyMap ==
    ASSUME Shape', dictEmpty
    PROVE  MapEmpty
<1>1. (Shape /\ size = 0 => M = [k \in {} |-> Nil])'
  BY NoEntries, PTL
<1>2. M' = [k \in {} |-> Nil]
  BY <1>1 DEF dictEmpty
<1> QED BY <1>2 DEF MapEmpty, dictEmpty

(* The random key, and what changes nothing. *)
LEMMA RandomMap ==
    ASSUME Shape, dictGetRandomKey \/ Probe
    PROVE  MapRandom \/ MapStutter
<1>1. M' = M
  BY DEF dictGetRandomKey, Probe, dict, M, All
<1>2. CASE size = 0 /\ Answer("random", Nil, Nil)
  <2>1. DOMAIN M = {}
    BY <1>2, NoEntries
  <2> QED BY <1>1, <1>2, <2>1 DEF MapRandom
<1>3. CASE reply' = reply
  BY <1>1, <1>3 DEF MapStutter
<1>4. CASE Probe
  <2>1. PICK e \in All : Answer("random", e.key, e.val)
    BY <1>4 DEF Probe, All, Entries
  <2>2. e.key \in DOMAIN M /\ M[e.key] = e.val
    BY AllUnique, MapEntry, MType DEF M
  <2> QED BY <1>1, <2>1, <2>2 DEF MapRandom
<1> QED BY <1>2, <1>3, <1>4 DEF dictGetRandomKey

----------------------------------------------------------------------------
(* The refinement *)

MapNext == \/ \E k \in Key : MapDelete(k) \/ MapFind(k)
           \/ \E k \in Key, v \in Val : MapAdd(k, v) \/ MapReplace(k, v)
           \/ MapEmpty \/ MapRandom

(* Every step of the table is a call on the map, or changes nothing of it. *)
LEMMA NextMap ==
    ASSUME Shape, Shape', IsFiniteSet(Key), Cardinality(Key) < MaxSize, [Next]_vars
    PROVE  MapNext \/ MapStutter
<1>1. CASE \E k \in Key, v \in Val : dictAdd(k, v) \/ dictReplace(k, v)
  BY <1>1, AddMap DEF MapNext
<1>2. CASE \E k \in Key : dictDelete(k) \/ dictFind(k)
  BY <1>2, DeleteMap, FindMap DEF MapNext
<1>3. CASE dictEmpty
  BY <1>3, EmptyMap DEF MapNext
<1>4. CASE redisDbResize
  BY <1>4, ResizeMap
<1>5. CASE dictGetRandomKey \/ Probe
  BY <1>5, RandomMap DEF MapNext
<1>6. CASE dictGetIterator \/ dictNext \/ dictReleaseIterator \/ UNCHANGED vars
  BY <1>6 DEF dictGetIterator, dictNext, dictReleaseIterator, vars, dict, MapStutter, M, All
<1> QED BY <1>1, <1>2, <1>3, <1>4, <1>5, <1>6 DEF Next

(* The hash table is a finite map: whatever sizes it goes through, every   *)
(* call changes and answers what the same call on the map would, for every *)
(* hash function, if there are fewer keys than slots in the largest table, *)
(* so that dictExpand never refuses.                                       *)
THEOREM MapImplemented ==
    ASSUME IsFiniteSet(Key), Cardinality(Key) < MaxSize
    PROVE  Spec => ImplementsMap
<1>1. Init => Map!Init
  <2> SUFFICES ASSUME Init PROVE Map!Init
    OBVIOUS
  <2>1. Shape /\ size = 0
    BY EmptyShape DEF Init
  <2>2. M = [k \in {} |-> Nil]
    BY <2>1, NoEntries
  <2> QED BY <2>2 DEF Init, Map!Init, M, MapOf, All
<1>2. ASSUME DInv, DInv', [Next]_vars PROVE [Map!Next]_(Map!vars)
  <2>1. MapNext \/ MapStutter
    BY <1>2, NextMap DEF DInv
  <2>2. CASE MapStutter
    BY <2>2 DEF MapStutter, M, MapOf, All, Map!vars
  <2>3. CASE MapNext
    <3>1. Map!Next
      BY <2>3, ZenonT(60) DEF MapNext, MapAdd, MapReplace, MapDelete, MapFind, MapEmpty, MapRandom, Put,
                  Answer, M, MapOf, All, Map!Next, Map!Add, Map!Replace, Map!Delete, Map!Find,
                  Map!Empty, Map!RandomKey, Map!Put, Map!Answer
    <3> QED BY <3>1
  <2> QED BY <2>1, <2>2, <2>3
<1>3. DInv /\ DInv' /\ [Next]_vars => [Map!Next]_(Map!vars)
  BY <1>2
<1> QED BY <1>1, <1>3, DictInvariance, PTL DEF Spec, ImplementsMap, Map!Spec

----------------------------------------------------------------------------
(* When the table becomes sparse *)

LEMMA NextPowerOfSize ==
    ASSUME NEW n \in Sizes
    PROVE  _dictNextPower(n) = n
<1>1. /\ n \in Nat /\ MaxSize \in Nat /\ n <= MaxSize
      /\ \A q \in Sizes : q \in Nat
  BY SizesType
<1>2. CASE n >= MaxSize
  BY <1>1, <1>2 DEF _dictNextPower
<1>3. CASE ~(n >= MaxSize)
  <2> DEFINE P(p) == p >= n /\ \A q \in Sizes : q >= n => p <= q
  <2>1. P(n)
    BY <1>1
  <2>2. \A p \in Sizes : P(p) => p = n
    BY <1>1
  <2>3. _dictNextPower(n) = CHOOSE p \in Sizes : P(p)
    BY <1>3 DEF _dictNextPower
  <2> QED BY <2>1, <2>2, <2>3
<1> QED BY <1>2, <1>3

(* _dictExpandIfNeeded doubles a full table and leaves every other alone.  *)
LEMMA GrowsFull ==
    ASSUME Shape, size # 0
    PROVE  SizeAfter = size \/ (used = size /\ SizeAfter = 2 * size)
<1>1. size \in Sizes /\ size \in Nat /\ used \in Nat
  BY SizesType DEF Shape
<1>2. CASE used # size
  BY <1>1, <1>2 DEF Wanted, SizeAfter
<1>3. CASE used = size /\ size = MaxSize
  BY <1>1, <1>3, Doubling, SizesType DEF Wanted, Refused, SizeAfter
<1>4. CASE used = size /\ size # MaxSize
  <2>1. Wanted = 2 * size
    BY <1>1, <1>4, Doubling DEF Wanted
  <2>2. 2 * size \in Sizes
    BY <1>1, <1>4, SizesType
  <2>3. _dictNextPower(2 * size) = 2 * size
    BY <2>2, NextPowerOfSize
  <2> QED BY <1>4, <2>1, <2>3 DEF SizeAfter
<1> QED BY <1>2, <1>3, <1>4

LEMMA SignedSmall ==
    ASSUME NEW n \in Nat, n < MaxSize
    PROVE  Signed(n) = n
<1>1. MaxSize \in Nat \ {0} /\ Modulus = 2 * MaxSize
  BY PowerAssumption
<1> HIDE DEF MaxSize, Modulus
<1>2. n \in 0..(Modulus - 1) /\ Modulus \in Nat \ {0}
  BY <1>1
<1>3. n % Modulus = n
  BY <1>2
<1> QED BY <1>3 DEF Signed, Unsigned

(* The sums in TooSparse, for u and then v entries. *)
LEMMA Times100 ==
    ASSUME NEW u \in Nat, NEW v \in Nat, u <= v, NEW max \in Nat, v * 100 < max
    PROVE  /\ u * 100 \in Nat /\ u * 100 < max /\ v * 100 \in Nat
           /\ \A m \in Nat : v * 100 < m => u * 100 < m
OBVIOUS

LEMMA TwiceIsDense ==
    ASSUME NEW u \in Nat, NEW v \in Nat, u <= v, NEW f \in 0..50
    PROVE  ~(v * 100 < f * (2 * u))
<1>1. f * u \in Nat /\ (50 - f) * u \in Nat
  OBVIOUS
<1>2. f * u + (50 - f) * u = 50 * u
  OBVIOUS
<1>3. f * (2 * u) = 2 * (f * u)
  OBVIOUS
<1> QED BY <1>1, <1>2, <1>3

(* used or one more entries in a table that kept its size, or doubled      *)
(* because it was full, are not too few if used was not.                   *)
LEMMA StaysDense ==
    ASSUME Shape, used > 0, MinFill <= 50,
           size' = size \/ (used = size /\ size' = 2 * size),
           used' \in {used, used + 1}, used' * 100 < MaxSize
    PROVE  TooSparse' => TooSparse
<1>1. /\ used \in Nat /\ used' \in Nat /\ used <= used' /\ size \in Nat
      /\ MinFill \in 0..50 /\ MaxSize \in Nat
  BY SizesType, FillAssumption DEF Shape
<1> HIDE DEF MaxSize
<1>2. /\ used * 100 \in Nat /\ used * 100 < MaxSize /\ used' * 100 \in Nat
      /\ \A m \in Nat : used' * 100 < m => used * 100 < m
  BY <1>1, Times100
<1>3. Signed(used * 100) = used * 100 /\ Signed(used' * 100) = used' * 100
  BY <1>2, SignedSmall
<1>4. CASE size' = size
  <2>1. MinFill * size \in Nat
    BY <1>1
  <2>2. used' * 100 < MinFill * size => used * 100 < MinFill * size
    BY <1>2, <2>1
  <2>3. Signed(used' * 100) < MinFill * size => Signed(used * 100) < MinFill * size
    BY <1>3, <2>2
  <2>4. Signed(size') = Signed(size)
    BY <1>4 DEF Signed, Unsigned
  <2> QED BY <1>4, <2>3, <2>4, Zenon DEF TooSparse
<1>5. CASE used = size /\ size' = 2 * size
  <2>1. ~(used' * 100 < MinFill * (2 * used))
    BY <1>1, TwiceIsDense
  <2>2. ~(Signed(used' * 100) < MinFill * size')
    BY <1>3, <1>5, <2>1
  <2> QED BY <2>2, Zenon DEF TooSparse
<1> QED BY <1>4, <1>5

(* Growing never makes the table sparse enough to be shrunk, nor does any  *)
(* other call but a deletion, if REDIS_HT_MINFILL is at most half: the     *)
(* cron's resizing and the doubling of dictExpand do not chase each other. *)
THEOREM SparseByDeletion ==
    ASSUME MinFill <= 50
    PROVE  Spec => OnlyDeletesMakeSparse
<1> DEFINE Step == used > 0 /\ used' * 100 < MaxSize /\ ~TooSparse /\ TooSparse'
                     => used' < used
<1>1. ASSUME DInv, [Next]_vars PROVE Step
  <2> SUFFICES ASSUME used > 0, used' * 100 < MaxSize, ~TooSparse, TooSparse'
               PROVE  used' < used
    OBVIOUS
  <2> HIDE DEF Step
  <2>0. Shape /\ used \in Nat \ {0} /\ size \in Nat \ {0} /\ MaxSize \in Nat
    BY <1>1, SizesType DEF DInv, Shape, UsedIsCount
  <2>1. ASSUME used' \in {used, used + 1}, size' \in {size, SizeAfter} PROVE FALSE
    <3>1. size' = size \/ (used = size /\ size' = 2 * size)
      BY <2>0, <2>1, GrowsFull
    <3> QED BY <2>0, <2>1, <3>1, StaysDense
  <2>2. CASE \E k \in Key, v \in Val : dictAdd(k, v) \/ dictReplace(k, v)
    <3>1. used' \in {used, used + 1} /\ size' \in {size, SizeAfter}
      BY <2>2 DEF dictAdd, dictReplace, Added
    <3> QED BY <2>1, <3>1
  <2>3. CASE \E k \in Key : dictDelete(k)
    <3>1. used' = used - 1 \/ (used' = used /\ size' = size)
      BY <2>3 DEF dictDelete
    <3> QED BY <2>0, <2>1, <3>1
  <2>4. CASE dictEmpty
    BY <2>0, <2>4 DEF dictEmpty
  <2>5. CASE redisDbResize
    BY <2>5 DEF redisDbResize
  <2>6. CASE UNCHANGED dict
    <3>1. used' = used /\ size' = size
      BY <2>6 DEF dict
    <3> QED BY <2>1, <3>1
  <2>7. UNCHANGED dict \/ dictEmpty \/ redisDbResize
        \/ (\E k \in Key : dictDelete(k))
        \/ (\E k \in Key, v \in Val : dictAdd(k, v) \/ dictReplace(k, v))
    BY <1>1 DEF Next, dictFind, dictGetIterator, dictNext, dictReleaseIterator,
                dictGetRandomKey, Probe, vars
  <2> QED BY <2>2, <2>3, <2>4, <2>5, <2>6, <2>7
<1>2. DInv /\ [Next]_vars => [Step]_vars
  BY <1>1
<1> QED BY <1>2, DictInvariance, PTL DEF Spec, OnlyDeletesMakeSparse

=============================================================================
