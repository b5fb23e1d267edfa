--------------------------- MODULE KeyspaceProofs ---------------------------
(***************************************************************************)
(* Proofs about Keyspace: reference counts are the number of holders, for  *)
(* any strings, databases, objects and replies.                            *)
(*                                                                         *)
(* In the middle of a command references are pending: the command holds    *)
(* them without a place in the data, or has stored them and not counted    *)
(* them yet.  The proof follows the functions a command is composed of;    *)
(* each changes the heap, a database or the replies, and what is pending.  *)
(***************************************************************************)
EXTENDS Keyspace, NaturalMinimum, SequenceTheorems

Entries == [key : Oid, val : Oid]

IsStr(h, o) == h[o].type = "string"
Contents(h, o) == ToSet(h[o].elems) \union h[o].members

(* An object by itself. *)
Shaped(obj) ==
    /\ obj \in Object
    /\ obj.type = "free" => obj = Dead
    /\ obj.type = "string" => obj.str \in Str /\ obj.elems = <<>> /\ obj.members = {}
    /\ obj.type = "list" => obj.members = {}
    /\ obj.type = "set" => obj.elems = <<>>
    /\ obj.ref = 0 => obj = Dead

(* The objects with each other: contents are strings, and no two nodes have *)
(* the same one.                                                            *)
HeapOK(h) ==
    /\ h \in [Oid -> Object]
    /\ \A o \in Oid : Shaped(h[o])
    /\ \A o \in Oid : \A x \in Contents(h, o) : IsStr(h, x)
    /\ \A o \in Oid : IsInjective(h[o].elems)
    /\ \A o, q \in Oid : \A x \in Oid : x \in ToSet(h[o].elems) /\ x \in ToSet(h[q].elems) => o = q

(* Entries do not share objects. *)
DbOK(h, D) ==
    /\ D \in [Db -> SUBSET Entries]
    /\ \A d \in Db : \A e \in D[d] : IsStr(h, e.key) /\ h[e.val].type # "free"
    /\ \A c, d \in Db : \A e \in D[c], f \in D[d] :
        /\ e.key # f.val
        /\ e.key = f.key \/ e.val = f.val => c = d /\ e = f

ReplyOK(h, r) == r \in Seq(Oid) /\ \A i \in DOMAIN r : IsStr(h, r[i])

(* Who holds an object: an entry, a node, sets and replies. *)
Owned(D) == {x \in Oid : \E d \in Db : \E e \in D[d] : x = e.key \/ x = e.val}
Nodes(h) == {x \in Oid : \E o \in Oid : x \in ToSet(h[o].elems)}
SetsWith(h, x) == {s \in Oid : x \in h[s].members}
Spots(r, x) == {i \in DOMAIN r : r[i] = x}
One(S, x) == IF x \in S THEN 1 ELSE 0
Held(h, D, r, x) ==
    One(Owned(D), x) + One(Nodes(h), x) + Cardinality(SetsWith(h, x)) + Cardinality(Spots(r, x))

(* pend: the references that are pending. *)
Exact(h, D, r, pend) ==
    /\ pend \in [Oid -> Int]
    /\ \A x \in Oid : h[x].ref = Held(h, D, r, x) + pend[x]

Fine(h, D, r, pend) == HeapOK(h) /\ DbOK(h, D) /\ ReplyOK(h, r) /\ Exact(h, D, r, pend)

None == [x \in Oid |-> 0]
Plus(pend, S) == [x \in Oid |-> pend[x] + One(S, x)]
Minus(pend, S) == [x \in Oid |-> pend[x] - One(S, x)]

KInv == /\ Fine(heap, db, reply, None) /\ dirty \in 0..1 /\ fate \in {"up", "aborted", "wild"}

----------------------------------------------------------------------------
(* Counting *)

LEMMA OidFinite ==
    /\ IsFiniteSet(Oid) /\ Oid \subseteq Nat
    /\ \A S \in SUBSET Oid : IsFiniteSet(S) /\ Cardinality(S) \in Nat
<1>1. MaxObj \in Nat
  BY BoundAssumption
<1>2. IsFiniteSet(Oid)
  BY <1>1, FS_Interval DEF Oid
<1>3. \A S \in SUBSET Oid : IsFiniteSet(S) /\ Cardinality(S) \in Nat
  <2> HIDE DEF Oid
  <2> QED BY <1>2, FS_Subset, FS_CardinalityType
<1> QED BY <1>1, <1>2, <1>3 DEF Oid

LEMMA SpotsFinite ==
    ASSUME NEW r \in Seq(Oid), NEW x
    PROVE  IsFiniteSet(Spots(r, x)) /\ Cardinality(Spots(r, x)) \in Nat
<1>1. IsFiniteSet(1..Len(r))
  BY FS_Interval
<1>2. Spots(r, x) \in SUBSET (1..Len(r))
  BY DEF Spots
<1> QED BY <1>1, <1>2, FS_Subset, FS_CardinalityType

LEMMA HeldType ==
    ASSUME NEW h, NEW D, NEW r \in Seq(Oid), NEW x
    PROVE  /\ One(Owned(D), x) \in Nat /\ One(Nodes(h), x) \in Nat
           /\ Cardinality(SetsWith(h, x)) \in Nat /\ Cardinality(Spots(r, x)) \in Nat
           /\ Held(h, D, r, x) \in Nat
<1>1. One(Owned(D), x) \in Nat /\ One(Nodes(h), x) \in Nat
  BY DEF One
<1>2. Cardinality(SetsWith(h, x)) \in Nat
  BY OidFinite DEF SetsWith
<1>3. Cardinality(Spots(r, x)) \in Nat
  BY SpotsFinite
<1> QED BY <1>1, <1>2, <1>3 DEF Held

(* Nobody holds what Held counts 0 of. *)
LEMMA NotHeld ==
    ASSUME NEW h, NEW D, NEW r \in Seq(Oid), NEW x, Held(h, D, r, x) = 0
    PROVE  x \notin Owned(D) /\ x \notin Nodes(h) /\ SetsWith(h, x) = {} /\ Spots(r, x) = {}
<1>1. /\ One(Owned(D), x) = 0 /\ One(Nodes(h), x) = 0
      /\ Cardinality(SetsWith(h, x)) = 0 /\ Cardinality(Spots(r, x)) = 0
  BY HeldType DEF Held
<1>2. SetsWith(h, x) \in SUBSET Oid
  BY DEF SetsWith
<1>3. IsFiniteSet(SetsWith(h, x)) /\ IsFiniteSet(Spots(r, x))
  BY <1>2, OidFinite, SpotsFinite
<1> QED BY <1>1, <1>3, FS_EmptySet DEF One

LEMMA SpotsJoin ==
    ASSUME NEW r \in Seq(Oid), NEW s \in Seq(Oid), NEW x
    PROVE  Cardinality(Spots(r \o s, x)) = Cardinality(Spots(r, x)) + Cardinality(Spots(s, x))
<1> DEFINE A == Spots(r, x)
           B == Spots(s, x)
           n == Len(r)
           C == {n + i : i \in B}
<1>1. A \in SUBSET (1..n) /\ B \in SUBSET (1..Len(s)) /\ n \in Nat /\ Len(s) \in Nat
  BY DEF Spots
<1>2. Spots(r \o s, x) = A \union C
  <2> DEFINE t == r \o s
  <2>1. /\ t \in Seq(Oid) /\ Len(t) = n + Len(s)
        /\ \A i \in 1..n : t[i] = r[i]
        /\ \A i \in 1..Len(s) : t[n + i] = s[i]
    OBVIOUS
  <2> HIDE DEF t
  <2>2. /\ DOMAIN t = 1..(n + Len(s)) /\ DOMAIN r = 1..n /\ DOMAIN s = 1..Len(s)
    BY <2>1
  <2>3. ASSUME NEW i \in Spots(t, x) PROVE i \in A \union C
    <3>1. i \in 1..(n + Len(s)) /\ t[i] = x
      BY <2>2 DEF Spots
    <3>2. CASE i <= n
      BY <2>1, <2>2, <3>1, <3>2 DEF Spots
    <3>3. CASE ~(i <= n)
      <4>1. i - n \in 1..Len(s) /\ n + (i - n) = i
        BY <1>1, <3>1, <3>3
      <4>2. i - n \in B
        BY <2>1, <2>2, <3>1, <4>1 DEF Spots
      <4> QED BY <4>1, <4>2
    <3> QED BY <3>2, <3>3
  <2>4. ASSUME NEW i \in A PROVE i \in Spots(t, x)
    BY <1>1, <2>1, <2>2 DEF Spots
  <2>5. ASSUME NEW i \in B PROVE n + i \in Spots(t, x)
    BY <1>1, <2>1, <2>2 DEF Spots
  <2> QED BY <2>3, <2>4, <2>5 DEF t
<1>3. IsFiniteSet(A) /\ IsFiniteSet(B) /\ Cardinality(A) \in Nat /\ Cardinality(B) \in Nat
  BY SpotsFinite
<1> HIDE DEF A, B, n
<1>4. IsFiniteSet(C) /\ Cardinality(C) = Cardinality(B)
  <2> DEFINE f == [i \in B |-> n + i]
  <2>1. f \in Bijection(B, C)
    <3>1. f \in [B -> C] /\ \A i, j \in B : f[i] = f[j] => i = j
      BY <1>1
    <3>2. \A c \in C : \E i \in B : f[i] = c
      OBVIOUS
    <3> QED BY <3>1, <3>2 DEF Bijection, Injection, Surjection, IsInjective
  <2> QED BY <1>3, <2>1, FS_Bijection DEF ExistsBijection
<1>5. A \cap C = {}
  BY <1>1
<1>6. Cardinality(A \union C) = Cardinality(A) + Cardinality(C) - Cardinality({})
  BY <1>3, <1>4, <1>5, FS_Union
<1>7. Cardinality({}) = 0
  BY FS_EmptySet
<1> QED BY <1>2, <1>3, <1>4, <1>6, <1>7 DEF A, B

----------------------------------------------------------------------------
(* Counts *)

SameButRef(a, b) ==
    a.type = b.type /\ a.str = b.str /\ a.elems = b.elems /\ a.members = b.members

(* Another heap with the same contents has the same holders. *)
LEMMA SameHolders ==
    ASSUME NEW h, NEW g, NEW D, NEW r, NEW x,
           \A o \in Oid : g[o].elems = h[o].elems /\ g[o].members = h[o].members
    PROVE  Held(g, D, r, x) = Held(h, D, r, x)
<1>1. Nodes(g) = Nodes(h) /\ SetsWith(g, x) = SetsWith(h, x)
  BY DEF Nodes, SetsWith
<1> QED BY <1>1 DEF Held

LEMMA Recounted ==
    ASSUME NEW h, NEW D, NEW r, NEW pend, Fine(h, D, r, pend),
           NEW g \in [Oid -> Object], NEW pend2 \in [Oid -> Int],
           \A o \in Oid : /\ SameButRef(g[o], h[o]) /\ Shaped(g[o])
                          /\ g[o].ref = h[o].ref + pend2[o] - pend[o]
    PROVE  Fine(g, D, r, pend2)
<1>1. HeapOK(h) /\ DbOK(h, D) /\ ReplyOK(h, r) /\ Exact(h, D, r, pend)
  BY DEF Fine
<1>2. \A o \in Oid : SameButRef(g[o], h[o])
  OBVIOUS
<1>3. \A o \in Oid : Contents(g, o) = Contents(h, o)
  BY <1>2 DEF Contents, SameButRef
<1>4. \A x \in Oid : IsStr(g, x) <=> IsStr(h, x)
  BY <1>2 DEF IsStr, SameButRef
<1>5. \A o \in Oid : Contents(h, o) \subseteq Oid
  BY <1>1 DEF HeapOK, Object, Contents, ToSet
<1>6. HeapOK(g)
  <2>1. \A o \in Oid : \A x \in Contents(g, o) : IsStr(g, x)
    BY <1>1, <1>3, <1>4, <1>5 DEF HeapOK
  <2>2. \A o \in Oid : IsInjective(g[o].elems)
    BY <1>1, <1>2 DEF HeapOK, SameButRef
  <2>3. \A o, q \in Oid : \A x \in Oid : x \in ToSet(g[o].elems) /\ x \in ToSet(g[q].elems) => o = q
    BY <1>1, <1>2 DEF HeapOK, SameButRef
  <2> QED BY <2>1, <2>2, <2>3 DEF HeapOK
<1>7. DbOK(g, D)
  <2>1. \A d \in Db : \A e \in D[d] : e.key \in Oid /\ e.val \in Oid
    BY <1>1 DEF DbOK, Entries
  <2>2. \A o \in Oid : g[o].type = h[o].type
    BY <1>2 DEF SameButRef
  <2> QED BY <1>1, <1>4, <2>1, <2>2 DEF DbOK
<1>8. ReplyOK(g, r)
  <2>1. \A i \in DOMAIN r : r[i] \in Oid
    BY <1>1 DEF ReplyOK
  <2> QED BY <1>1, <1>4, <2>1 DEF ReplyOK
<1>9. Exact(g, D, r, pend2)
  <2>1. ASSUME NEW x \in Oid PROVE g[x].ref = Held(g, D, r, x) + pend2[x]
    <3>1. Held(g, D, r, x) = Held(h, D, r, x)
      BY <1>2, SameHolders DEF SameButRef
    <3>2. h[x].ref = Held(h, D, r, x) + pend[x] /\ Held(h, D, r, x) \in Nat /\ pend[x] \in Int
      BY <1>1, HeldType DEF Exact, ReplyOK
    <3> QED BY <3>1, <3>2
  <2> QED BY <2>1 DEF Exact
<1> QED BY <1>6, <1>7, <1>8, <1>9 DEF Fine

(* What is pending is a function: two that agree are the same. *)
LEMMA SamePending ==
    ASSUME NEW h, NEW D, NEW r, NEW pend, Fine(h, D, r, pend), NEW pend2 \in [Oid -> Int],
           \A x \in Oid : pend[x] = pend2[x]
    PROVE  Fine(h, D, r, pend2)
<1>1. pend \in [Oid -> Int]
  BY DEF Fine, Exact
<1>2. pend = pend2
  BY <1>1
<1> QED BY <1>2

LEMMA PendingType ==
    ASSUME NEW pend \in [Oid -> Int], NEW S
    PROVE  /\ Plus(pend, S) \in [Oid -> Int] /\ Minus(pend, S) \in [Oid -> Int]
           /\ \A x \in Oid : /\ Plus(pend, S)[x] = pend[x] + One(S, x)
                             /\ Minus(pend, S)[x] = pend[x] - One(S, x)
           /\ \A x : One(S, x) \in 0..1
BY DEF Plus, Minus, One

(* Objects as they are in a fine heap. *)
LEMMA FineType ==
    ASSUME NEW h, NEW D, NEW r, NEW pend, Fine(h, D, r, pend)
    PROVE  /\ h \in [Oid -> Object] /\ \A o \in Oid : Shaped(h[o]) /\ h[o].ref \in Nat
           /\ r \in Seq(Oid) /\ pend \in [Oid -> Int]
           /\ D \in [Db -> SUBSET Entries]
           /\ \A o \in Oid : Contents(h, o) \subseteq Oid
           /\ \A x \in Oid : /\ h[x].ref = Held(h, D, r, x) + pend[x]
                             /\ Held(h, D, r, x) \in Nat /\ pend[x] \in Int
<1>1. HeapOK(h) /\ DbOK(h, D) /\ ReplyOK(h, r) /\ Exact(h, D, r, pend)
  BY DEF Fine
<1>2. h \in [Oid -> Object] /\ \A o \in Oid : Shaped(h[o]) /\ h[o].ref \in Nat
  BY <1>1 DEF HeapOK, Object
<1>3. \A o \in Oid : Contents(h, o) \subseteq Oid
  BY <1>2 DEF Object, Contents, ToSet
<1>4. r \in Seq(Oid) /\ pend \in [Oid -> Int] /\ D \in [Db -> SUBSET Entries]
  BY <1>1 DEF ReplyOK, Exact, DbOK
<1>5. \A x \in Oid : h[x].ref = Held(h, D, r, x) + pend[x]
  BY <1>1 DEF Exact
<1>6. \A x \in Oid : Held(h, D, r, x) \in Nat /\ pend[x] \in Int
  BY <1>4, HeldType
<1> QED BY <1>2, <1>3, <1>4, <1>5, <1>6

Counting(obj, n) == [obj EXCEPT !.ref = n]

LEMMA CountingShape ==
    ASSUME NEW obj, Shaped(obj), obj.type # "free", NEW n \in Nat \ {0}
    PROVE  /\ Shaped(Counting(obj, n)) /\ SameButRef(Counting(obj, n), obj)
           /\ Counting(obj, n).ref = n
<1>1. obj \in Object
  BY DEF Shaped
<1>2. SameButRef(Counting(obj, n), obj) /\ Counting(obj, n).ref = n
  BY <1>1 DEF Object, SameButRef, Counting
<1>3. Counting(obj, n) \in Object
  BY <1>1 DEF Object, Counting
<1> QED BY <1>2, <1>3 DEF Shaped, SameButRef

(* Objects of S gain a reference that is pending. *)
LEMMA UpFine ==
    ASSUME NEW h, NEW D, NEW r, NEW pend, Fine(h, D, r, pend), NEW S \in SUBSET Oid,
           \A o \in S : h[o].type # "free"
    PROVE  /\ Fine(Up(h, S), D, r, Plus(pend, S))
           /\ \A o \in Oid : SameButRef(Up(h, S)[o], h[o])
<1> DEFINE g == Up(h, S)
           pend2 == Plus(pend, S)
<1>1. /\ h \in [Oid -> Object] /\ \A o \in Oid : Shaped(h[o]) /\ h[o].ref \in Nat
      /\ pend \in [Oid -> Int]
  BY FineType
<1>2. /\ pend2 \in [Oid -> Int] /\ \A x \in Oid : pend2[x] = pend[x] + One(S, x)
  BY <1>1, PendingType
<1>3. ASSUME NEW o \in Oid
      PROVE  /\ SameButRef(g[o], h[o]) /\ Shaped(g[o])
             /\ g[o].ref = h[o].ref + One(S, o)
  <2>1. CASE o \in S
    <3>1. g[o] = Counting(h[o], h[o].ref + 1)
      BY <2>1 DEF Up, Counting
    <3>2. h[o].ref + 1 \in Nat \ {0}
      BY <1>1
    <3>3. /\ Shaped(g[o]) /\ SameButRef(g[o], h[o]) /\ g[o].ref = h[o].ref + 1
      BY <1>1, <2>1, <3>1, <3>2, CountingShape
    <3> QED BY <2>1, <3>3 DEF One
  <2>2. CASE o \notin S
    <3>1. g[o] = h[o]
      BY <2>2 DEF Up
    <3> QED BY <1>1, <2>2, <3>1 DEF One, SameButRef
  <2> QED BY <2>1, <2>2
<1>4. g \in [Oid -> Object]
  <2>1. \A o \in Oid : g[o] \in Object
    BY <1>3 DEF Shaped
  <2>2. g = [o \in Oid |-> g[o]]
    BY DEF Up
  <2> HIDE DEF g
  <2> QED BY <2>1, <2>2
<1>5. \A o \in Oid : g[o].ref = h[o].ref + pend2[o] - pend[o]
  <2>1. \A o \in Oid : One(S, o) \in Int /\ pend[o] \in Int
    BY <1>1 DEF One
  <2> HIDE DEF g, pend2
  <2> QED BY <1>1, <1>2, <1>3, <2>1
<1> HIDE DEF g, pend2
<1>6. Fine(g, D, r, pend2)
  BY <1>2, <1>3, <1>4, <1>5, Recounted
<1> QED BY <1>3, <1>6 DEF g, pend2

(* addReply of the strings os counts them and puts them into the replies. *)
LEMMA HoldingFine ==
    ASSUME NEW h, NEW D, NEW r, NEW pend, Fine(h, D, r, pend), NEW os \in Seq(Oid),
           \A i \in DOMAIN os : IsStr(h, os[i])
    PROVE  Fine(Holding(h, os), D, r \o os, pend)
<1> DEFINE g == Holding(h, os)
           N(o) == Cardinality(Spots(os, o))
           pend2 == [o \in Oid |-> pend[o] + N(o)]
<1>1. /\ h \in [Oid -> Object] /\ \A o \in Oid : Shaped(h[o]) /\ h[o].ref \in Nat
      /\ pend \in [Oid -> Int] /\ r \in Seq(Oid)
      /\ \A x \in Oid : h[x].ref = Held(h, D, r, x) + pend[x]
      /\ \A x \in Oid : Held(h, D, r, x) \in Nat
  BY FineType
<1>2. \A o : N(o) \in Nat
  BY SpotsFinite
<1>3. \A o \in Oid : g[o] = Counting(h[o], h[o].ref + N(o))
  BY DEF Holding, Counting, Spots
<1>4. ASSUME NEW o \in Oid, h[o].type = "free" PROVE N(o) = 0
  <2>1. Spots(os, o) = {}
    BY <1>4 DEF Spots, IsStr
  <2> QED BY <2>1, FS_EmptySet
<1> HIDE DEF N
<1>5. ASSUME NEW o \in Oid
      PROVE  /\ SameButRef(g[o], h[o]) /\ Shaped(g[o]) /\ g[o].ref = h[o].ref + N(o)
  <2>1. CASE N(o) = 0
    <3>1. h[o] \in Object /\ h[o].ref + N(o) = h[o].ref
      BY <1>1, <2>1
    <3>2. g[o] = h[o]
      <4>1. g[o] = Counting(h[o], h[o].ref)
        BY <1>3, <3>1
      <4> QED BY <3>1, <4>1 DEF Counting, Object
    <3> QED BY <1>1, <3>1, <3>2 DEF SameButRef
  <2>2. CASE N(o) # 0
    <3>1. h[o].ref + N(o) \in Nat \ {0} /\ h[o].type # "free"
      BY <1>1, <1>2, <1>4, <2>2
    <3> QED BY <1>1, <1>3, <3>1, CountingShape
  <2> QED BY <2>1, <2>2
<1>6. g \in [Oid -> Object]
  <2>1. \A o \in Oid : g[o] \in Object
    BY <1>5 DEF Shaped
  <2>2. g = [o \in Oid |-> g[o]]
    BY DEF Holding
  <2> HIDE DEF g
  <2> QED BY <2>1, <2>2
<1>7. pend2 \in [Oid -> Int] /\ \A o \in Oid : g[o].ref = h[o].ref + pend2[o] - pend[o]
  <2> HIDE DEF g
  <2> QED BY <1>1, <1>2, <1>5
<1> HIDE DEF g, pend2
<1>8. Fine(g, D, r, pend2)
  BY <1>5, <1>6, <1>7, Recounted
<1>9. Exact(g, D, r \o os, pend)
  <2>1. ASSUME NEW x \in Oid PROVE g[x].ref = Held(g, D, r \o os, x) + pend[x]
    <3>1. Cardinality(Spots(r \o os, x)) = Cardinality(Spots(r, x)) + N(x)
      BY <1>1, SpotsJoin DEF N
    <3>2. g[x].ref = Held(g, D, r, x) + pend2[x] /\ pend2[x] = pend[x] + N(x)
      BY <1>8, FineType DEF pend2
    <3>3. Held(g, D, r \o os, x) = Held(g, D, r, x) + N(x)
      <4>1. /\ One(Owned(D), x) \in Nat /\ One(Nodes(g), x) \in Nat
            /\ Cardinality(SetsWith(g, x)) \in Nat /\ Cardinality(Spots(r, x)) \in Nat
        BY <1>1, HeldType
      <4> QED BY <1>2, <3>1, <4>1 DEF Held
    <3>4. Held(g, D, r, x) \in Nat /\ N(x) \in Nat /\ pend[x] \in Int
      BY <1>1, <1>2, HeldType
    <3> QED BY <3>2, <3>3, <3>4
  <2> QED BY <1>1, <2>1 DEF Exact
<1>10. ReplyOK(g, r \o os)
  <2> DEFINE t == r \o os
  <2>1. /\ t \in Seq(Oid) /\ Len(t) = Len(r) + Len(os)
        /\ \A i \in 1..Len(r) : t[i] = r[i]
        /\ \A i \in 1..Len(os) : t[Len(r) + i] = os[i]
    BY <1>1
  <2>2. \A i \in 1..Len(r) : IsStr(g, r[i])
    <3>1. DOMAIN r = 1..Len(r)
      BY <1>1
    <3> QED BY <1>8, <3>1 DEF Fine, ReplyOK
  <2>3. \A i \in 1..Len(os) : IsStr(g, os[i])
    <3>1. \A i \in 1..Len(os) : os[i] \in Oid /\ IsStr(h, os[i])
      OBVIOUS
    <3> QED BY <1>5, <3>1 DEF SameButRef, IsStr
  <2> HIDE DEF t
  <2>4. ASSUME NEW i \in 1..Len(t) PROVE IsStr(g, t[i])
    <3>1. CASE i <= Len(r)
      <4>1. i \in 1..Len(r)
        BY <1>1, <3>1
      <4> QED BY <2>1, <2>2, <4>1
    <3>2. CASE ~(i <= Len(r))
      <4>1. i - Len(r) \in 1..Len(os) /\ Len(r) + (i - Len(r)) = i
        <5>1. Len(r) \in Nat /\ Len(os) \in Nat
          BY <1>1
        <5> QED BY <2>1, <3>2, <5>1
      <4> QED BY <2>1, <2>3, <4>1
    <3> QED BY <3>1, <3>2
  <2> QED BY <2>1, <2>4 DEF ReplyOK, t
<1> QED BY <1>8, <1>9, <1>10 DEF Fine, g

(* An object without contents, created where there was none. *)
LEMMA CreatedFine ==
    ASSUME NEW h, NEW D, NEW r, NEW pend, Fine(h, D, r, pend), NEW o \in Oid,
           h[o].type = "free", NEW obj, Shaped(obj), obj.ref = 1,
           obj.elems = <<>>, obj.members = {}
    PROVE  LET g == [h EXCEPT ![o] = obj] IN
           /\ Fine(g, D, r, Plus(pend, {o})) /\ g[o] = obj
           /\ \A x \in Oid \ {o} : g[x] = h[x]
<1> DEFINE g == [h EXCEPT ![o] = obj]
           pend2 == Plus(pend, {o})
<1>1. /\ HeapOK(h) /\ DbOK(h, D) /\ ReplyOK(h, r)
      /\ h \in [Oid -> Object] /\ pend \in [Oid -> Int]
  BY FineType DEF Fine
<1>2. g \in [Oid -> Object] /\ g[o] = obj /\ \A x \in Oid : x # o => g[x] = h[x]
  BY <1>1 DEF Shaped
<1>3. h[o] = Dead /\ h[o].elems = <<>> /\ h[o].members = {} /\ h[o].ref = 0
  BY <1>1 DEF HeapOK, Shaped, Dead
<1> HIDE DEF g
<1>4. \A x \in Oid : g[x].elems = h[x].elems /\ g[x].members = h[x].members
  BY <1>2, <1>3
<1>5. \A x \in Oid : IsStr(h, x) => IsStr(g, x)
  <2>1. ~IsStr(h, o)
    BY DEF IsStr
  <2> QED BY <1>2, <2>1 DEF IsStr
<1>6. HeapOK(g)
  <2>1. \A x \in Oid : Shaped(g[x])
    BY <1>1, <1>2 DEF HeapOK
  <2>2. \A x \in Oid : Contents(g, x) = Contents(h, x) /\ Contents(h, x) \subseteq Oid
    BY <1>4, FineType DEF Contents
  <2>3. \A x \in Oid : \A y \in Contents(g, x) : IsStr(g, y)
    BY <1>1, <1>5, <2>2 DEF HeapOK
  <2> QED BY <1>1, <1>2, <1>4, <2>1, <2>3 DEF HeapOK
<1>7. DbOK(g, D)
  <2>1. \A d \in Db : \A e \in D[d] : e.key \in Oid /\ e.val \in Oid
    BY <1>1 DEF DbOK, Entries
  <2>2. \A d \in Db : \A e \in D[d] : IsStr(g, e.key)
    BY <1>1, <1>5, <2>1 DEF DbOK
  <2>3. \A d \in Db : \A e \in D[d] : g[e.val].type # "free"
    BY <1>1, <1>2, <2>1 DEF DbOK
  <2> QED BY <1>1, <2>2, <2>3 DEF DbOK
<1>8. ReplyOK(g, r)
  <2>1. \A i \in DOMAIN r : r[i] \in Oid
    BY <1>1 DEF ReplyOK
  <2> QED BY <1>1, <1>5, <2>1 DEF ReplyOK
<1>9. Exact(g, D, r, pend2)
  <2>1. /\ pend2 \in [Oid -> Int] /\ \A x \in Oid : pend2[x] = pend[x] + One({o}, x)
    BY <1>1, PendingType
  <2> HIDE DEF pend2
  <2>2. ASSUME NEW x \in Oid PROVE g[x].ref = Held(g, D, r, x) + pend2[x]
    <3>1. Held(g, D, r, x) = Held(h, D, r, x)
      BY <1>4, SameHolders
    <3>2. /\ h[x].ref = Held(h, D, r, x) + pend[x] /\ Held(h, D, r, x) \in Nat
          /\ pend[x] \in Int
      BY FineType
    <3>3. g[x].ref = h[x].ref + One({o}, x)
      <4>1. CASE x = o
        BY <1>2, <1>3, <4>1 DEF One
      <4>2. CASE x # o
        <5>1. h[x].ref \in Nat
          BY FineType
        <5> QED BY <1>2, <4>2, <5>1 DEF One
      <4> QED BY <4>1, <4>2
    <3>4. One({o}, x) \in Int /\ pend2[x] = pend[x] + One({o}, x)
      BY <2>1 DEF One
    <3> QED BY <3>1, <3>2, <3>3, <3>4
  <2> QED BY <2>1, <2>2 DEF Exact
<1> HIDE DEF pend2
<1> QED BY <1>2, <1>6, <1>7, <1>8, <1>9 DEF Fine, g, pend2

LEMMA DeadShape ==
    /\ Shaped(Dead) /\ Dead.ref = 0 /\ Dead.elems = <<>> /\ Dead.members = {}
    /\ Dead.type = "free"
BY DEF Shaped, Dead, Object

LEMMA DroppedShape ==
    ASSUME NEW obj, Shaped(obj), obj.ref \in Nat, obj.ref >= 1
    PROVE  /\ Shaped(Dropped(obj)) /\ Dropped(obj).ref = obj.ref - 1
           /\ Dropped(obj) = Dead \/ SameButRef(Dropped(obj), obj)
           /\ obj.ref > 1 => SameButRef(Dropped(obj), obj)
           /\ obj.ref = 1 => Dropped(obj) = Dead
<1>1. CASE obj.ref = 1
  BY <1>1, DeadShape DEF Dropped
<1>2. CASE obj.ref # 1
  <2>1. obj.type # "free"
    BY DeadShape DEF Shaped
  <2>2. Dropped(obj) = Counting(obj, obj.ref - 1) /\ obj.ref - 1 \in Nat \ {0}
    BY <1>2 DEF Dropped, Counting
  <2> QED BY <1>2, <2>1, <2>2, CountingShape
<1> QED BY <1>1, <1>2

(* One reference of many is given up. *)
LEMMA DownFine ==
    ASSUME NEW h, NEW D, NEW r, NEW pend, Fine(h, D, r, pend), NEW o \in Oid,
           h[o].ref > 1
    PROVE  /\ Fine(Down(h, {o}), D, r, Minus(pend, {o}))
           /\ \A x \in Oid : SameButRef(Down(h, {o})[x], h[x])
           /\ \A x \in Oid : x # o => Down(h, {o})[x] = h[x]
<1> DEFINE g == Down(h, {o})
           pend2 == Minus(pend, {o})
<1>1. /\ h \in [Oid -> Object] /\ \A x \in Oid : Shaped(h[x]) /\ h[x].ref \in Nat
      /\ pend \in [Oid -> Int]
  BY FineType
<1>2. /\ pend2 \in [Oid -> Int] /\ \A x \in Oid : pend2[x] = pend[x] - One({o}, x)
  BY <1>1, PendingType
<1>3. ASSUME NEW x \in Oid
      PROVE  /\ SameButRef(g[x], h[x]) /\ Shaped(g[x]) /\ g[x].ref = h[x].ref - One({o}, x)
             /\ x # o => g[x] = h[x]
  <2>1. CASE x = o
    <3>1. g[x] = Dropped(h[o]) /\ h[o].ref >= 1
      BY <1>1, <2>1 DEF Down
    <3>2. Shaped(g[x]) /\ g[x].ref = h[o].ref - 1 /\ SameButRef(g[x], h[o])
      BY <1>1, <3>1, DroppedShape
    <3> QED BY <2>1, <3>2 DEF One
  <2>2. CASE x # o
    <3>1. g[x] = h[x]
      BY <2>2 DEF Down
    <3> QED BY <1>1, <2>2, <3>1 DEF One, SameButRef
  <2> QED BY <2>1, <2>2
<1>4. g \in [Oid -> Object]
  <2>1. \A x \in Oid : g[x] \in Object
    BY <1>3 DEF Shaped
  <2>2. g = [x \in Oid |-> g[x]]
    BY DEF Down
  <2> HIDE DEF g
  <2> QED BY <2>1, <2>2
<1>5. ASSUME NEW x \in Oid PROVE g[x].ref = h[x].ref + pend2[x] - pend[x]
  <2>1. One({o}, x) \in Int /\ pend[x] \in Int /\ h[x].ref \in Int
    BY <1>1 DEF One
  <2>2. g[x].ref = h[x].ref - One({o}, x)
    BY <1>3
  <2>3. pend2[x] = pend[x] - One({o}, x)
    BY <1>2
  <2> HIDE DEF g, pend2
  <2> QED BY <2>1, <2>2, <2>3
<1> HIDE DEF g, pend2
<1>6. Fine(g, D, r, pend2)
  BY <1>2, <1>3, <1>4, <1>5, Recounted
<1> QED BY <1>3, <1>6 DEF g, pend2

(* The last reference is given up: the object is freed with all it holds. *)
LEMMA FreedFine ==
    ASSUME NEW h, NEW D, NEW r, NEW pend, Fine(h, D, r, pend), NEW o \in Oid,
           h[o].ref = 1, pend[o] >= 1,
           \A x \in Contents(h, o) : pend[x] >= 0 \/ h[x].ref >= 2
    PROVE  LET g == Down(Down(h, {o}), Contents(h, o)) IN
           /\ Fine(g, D, r, Minus(pend, {o}))
           /\ \A x \in Oid : g[x] = Dead \/ SameButRef(g[x], h[x])
           /\ \A x \in Oid : x # o /\ ~IsStr(h, x) => g[x] = h[x]
<1> DEFINE C == Contents(h, o)
           g == Down(Down(h, {o}), C)
           pend2 == Minus(pend, {o})
<1>1. /\ HeapOK(h) /\ DbOK(h, D) /\ ReplyOK(h, r)
      /\ h \in [Oid -> Object] /\ \A x \in Oid : Shaped(h[x]) /\ h[x].ref \in Nat
      /\ pend \in [Oid -> Int] /\ r \in Seq(Oid) /\ C \subseteq Oid
      /\ \A x \in Oid : /\ h[x].ref = Held(h, D, r, x) + pend[x]
                        /\ Held(h, D, r, x) \in Nat /\ pend[x] \in Int
  BY FineType DEF Fine
<1>2. Held(h, D, r, o) = 0 /\ pend[o] = 1
  BY <1>1
<1>3. o \notin Owned(D) /\ o \notin Nodes(h) /\ SetsWith(h, o) = {} /\ Spots(r, o) = {}
  BY <1>1, <1>2, NotHeld
<1>4. o \notin C
  BY <1>3 DEF Contents, Nodes, SetsWith
<1>5. /\ g[o] = Dead
      /\ \A x \in C : g[x] = Dropped(h[x])
      /\ \A x \in Oid : x # o /\ x \notin C => g[x] = h[x]
  BY <1>1, <1>4 DEF Down, Dropped
<1>6. \A x \in C : IsStr(h, x) /\ h[x].elems = <<>> /\ h[x].members = {}
  BY <1>1 DEF HeapOK, Shaped, IsStr
<1>7. g = [x \in Oid |-> g[x]]
  BY DEF Down
<1> HIDE DEF g
(* The reference of the object it was in is counted. *)
<1>8. ASSUME NEW x \in C
      PROVE  /\ One(ToSet(h[o].elems), x) + One(h[o].members, x) = 1
             /\ One(ToSet(h[o].elems), x) \in 0..1 /\ One(h[o].members, x) \in 0..1
  <2>1. h[o].elems = <<>> \/ h[o].members = {}
    BY <1>1, DeadShape DEF Shaped, Object
  <2>2. ToSet(<<>>) = {}
    BY DEF ToSet
  <2> QED BY <2>1, <2>2 DEF Contents, One, C
<1> HIDE DEF C
<1>9. \A x \in Oid : /\ ToSet(g[x].elems) = IF x = o THEN {} ELSE ToSet(h[x].elems)
                     /\ g[x].members = IF x = o THEN {} ELSE h[x].members
  <2>1. ToSet(<<>>) = {}
    BY DEF ToSet
  <2>2. ASSUME NEW x \in C PROVE g[x].elems = <<>> /\ g[x].members = {}
    <3>1. h[x] \in Object /\ g[x] = Dropped(h[x]) /\ h[x].elems = <<>> /\ h[x].members = {}
      BY <1>1, <1>5, <1>6
    <3>2. CASE h[x].ref = 1
      BY <3>1, <3>2, DeadShape DEF Dropped
    <3>3. CASE h[x].ref # 1
      BY <3>1, <3>3 DEF Dropped, Object
    <3> QED BY <3>2, <3>3
  <2> QED BY <1>5, <1>6, <2>1, <2>2, DeadShape
<1>10. ASSUME NEW x \in Oid
       PROVE  Held(g, D, r, x) + One(C, x) = Held(h, D, r, x)
  <2>1. One(Nodes(g), x) + One(ToSet(h[o].elems), x) = One(Nodes(h), x)
    <3>1. x \in Nodes(h) <=> x \in Nodes(g) \/ x \in ToSet(h[o].elems)
      BY <1>9 DEF Nodes
    <3>2. ~(x \in Nodes(g) /\ x \in ToSet(h[o].elems))
      BY <1>1, <1>9 DEF Nodes, HeapOK
    <3> QED BY <3>1, <3>2 DEF One
  <2>2. Cardinality(SetsWith(g, x)) + One(h[o].members, x) = Cardinality(SetsWith(h, x))
    <3>1. SetsWith(g, x) = SetsWith(h, x) \ {o} /\ (o \in SetsWith(h, x) <=> x \in h[o].members)
      BY <1>9 DEF SetsWith
    <3>2. IsFiniteSet(SetsWith(h, x)) /\ Cardinality(SetsWith(h, x)) \in Nat
      BY OidFinite DEF SetsWith
    <3>3. Cardinality(SetsWith(h, x) \ {o}) = IF o \in SetsWith(h, x)
             THEN Cardinality(SetsWith(h, x)) - 1 ELSE Cardinality(SetsWith(h, x))
      BY <3>2, FS_RemoveElement
    <3> QED BY <3>1, <3>2, <3>3 DEF One
  <2>3. One(ToSet(h[o].elems), x) + One(h[o].members, x) = One(C, x)
    <3>1. CASE x \in C
      BY <1>8, <3>1 DEF One
    <3>2. CASE x \notin C
      BY <3>2 DEF One, C, Contents
    <3> QED BY <3>1, <3>2
  <2>4. /\ One(Nodes(g), x) \in Nat /\ Cardinality(SetsWith(g, x)) \in Nat
        /\ One(Nodes(h), x) \in Nat /\ Cardinality(SetsWith(h, x)) \in Nat
        /\ One(Owned(D), x) \in Nat /\ Cardinality(Spots(r, x)) \in Nat
    <3>1. r \in Seq(Oid)
      BY <1>1
    <3>2. /\ One(Nodes(g), x) \in Nat /\ Cardinality(SetsWith(g, x)) \in Nat
          /\ One(Owned(D), x) \in Nat /\ Cardinality(Spots(r, x)) \in Nat
      BY <3>1, HeldType
    <3>3. One(Nodes(h), x) \in Nat /\ Cardinality(SetsWith(h, x)) \in Nat
      BY <3>1, HeldType
    <3> QED BY <3>2, <3>3
  <2>5. One(ToSet(h[o].elems), x) \in Nat /\ One(h[o].members, x) \in Nat /\ One(C, x) \in Nat
    BY DEF One
  <2> QED BY <2>1, <2>2, <2>3, <2>4, <2>5 DEF Held
<1>11. ASSUME NEW x \in C
       PROVE  /\ h[x].ref >= 1 /\ Shaped(g[x]) /\ g[x].ref = h[x].ref - 1
              /\ g[x] = Dead \/ SameButRef(g[x], h[x])
              /\ h[x].ref > 1 => SameButRef(g[x], h[x])
  <2>1. x \in Oid /\ h[x].ref \in Nat /\ h[x].type # "free"
    BY <1>1, <1>6 DEF IsStr
  <2>2. h[x].ref # 0
    BY <1>1, <2>1, DeadShape DEF Shaped
  <2>3. h[x].ref >= 1
    BY <2>1, <2>2
  <2> QED BY <1>1, <1>5, <2>1, <2>3, DroppedShape
(* What is freed with it is held by nobody else. *)
<1>12. ASSUME NEW x \in C, h[x].ref = 1
       PROVE  x \notin Owned(D) /\ x \notin Nodes(g) /\ SetsWith(g, x) = {} /\ Spots(r, x) = {}
  <2>1. x \in Oid /\ pend[x] >= 0 /\ pend[x] \in Int
    BY <1>1, <1>12 DEF C
  <2>2. Held(g, D, r, x) + 1 = Held(h, D, r, x) /\ Held(g, D, r, x) \in Nat
    BY <1>1, <1>10, <2>1, HeldType DEF One
  <2>3. Held(g, D, r, x) = 0
    BY <1>1, <1>12, <2>1, <2>2
  <2> QED BY <1>1, <2>3, NotHeld
<1>13. ASSUME NEW x \in Oid
       PROVE  /\ Shaped(g[x])
              /\ g[x] = Dead \/ SameButRef(g[x], h[x])
              /\ g[x].ref = h[x].ref - One({o}, x) - One(C, x)
  <2>1. CASE x = o
    BY <1>4, <1>5, <2>1, DeadShape DEF One
  <2>2. CASE x \in C
    BY <1>1, <1>4, <1>11, <2>2 DEF One
  <2>3. CASE x # o /\ x \notin C
    BY <1>1, <1>5, <2>3 DEF One, SameButRef
  <2> QED BY <2>1, <2>2, <2>3
(* Whoever is held is as before. *)
<1>14. ASSUME NEW x \in Oid,
              x \in Owned(D) \/ x \in Nodes(g) \/ SetsWith(g, x) # {} \/ Spots(r, x) # {}
       PROVE  SameButRef(g[x], h[x])
  <2>1. x # o
    <3>1. o \notin Nodes(g) /\ SetsWith(g, o) = {}
      BY <1>3, <1>9 DEF Nodes, SetsWith
    <3> QED BY <1>3, <1>14, <3>1
  <2>2. CASE x \in C
    <3>1. h[x].ref # 1
      BY <1>12, <1>14, <2>2
    <3>2. h[x].ref \in Nat
      BY <1>1
    <3> QED BY <1>11, <2>2, <3>1, <3>2
  <2>3. CASE x \notin C
    BY <1>5, <2>1, <2>3 DEF SameButRef
  <2> QED BY <2>2, <2>3
<1>15. HeapOK(g)
  <2>1. g \in [Oid -> Object]
    <3>1. \A x \in Oid : g[x] \in Object
      BY <1>13 DEF Shaped
    <3> QED BY <1>7, <3>1
  <2>2. ASSUME NEW q \in Oid, NEW x \in Contents(g, q) PROVE IsStr(g, x)
    <3>1. q # o /\ x \in Contents(h, q)
      BY <1>9 DEF Contents
    <3>2. IsStr(h, x) /\ x \in Oid
      BY <1>1, <3>1, FineType DEF HeapOK
    <3>3. x \in Nodes(g) \/ SetsWith(g, x) # {}
      BY <2>2, <3>2 DEF Contents, Nodes, SetsWith
    <3> QED BY <1>14, <3>2, <3>3 DEF IsStr, SameButRef
  <2>3. ASSUME NEW q \in Oid PROVE IsInjective(g[q].elems)
    <3>1. g[q].elems = <<>> \/ g[q].elems = h[q].elems
      BY <1>13, DeadShape DEF SameButRef
    <3> QED BY <1>1, <3>1 DEF HeapOK, IsInjective
  <2>4. \A p, q \in Oid : \A x \in Oid : x \in ToSet(g[p].elems) /\ x \in ToSet(g[q].elems) => p = q
    BY <1>1, <1>9 DEF HeapOK
  <2> QED BY <1>13, <2>1, <2>2, <2>3, <2>4 DEF HeapOK
<1>16. DbOK(g, D)
  <2>1. ASSUME NEW d \in Db, NEW e \in D[d] PROVE IsStr(g, e.key) /\ g[e.val].type # "free"
    <3>1. e.key \in Owned(D) /\ e.val \in Owned(D) /\ e.key \in Oid /\ e.val \in Oid
      BY <1>1 DEF DbOK, Entries, Owned
    <3>2. SameButRef(g[e.key], h[e.key]) /\ SameButRef(g[e.val], h[e.val])
      BY <1>14, <3>1
    <3> QED BY <1>1, <3>2 DEF DbOK, IsStr, SameButRef
  <2> QED BY <1>1, <2>1 DEF DbOK
<1>17. ReplyOK(g, r)
  <2>1. ASSUME NEW i \in DOMAIN r PROVE IsStr(g, r[i])
    <3>1. r[i] \in Oid /\ Spots(r, r[i]) # {}
      BY <1>1 DEF Spots
    <3>2. SameButRef(g[r[i]], h[r[i]])
      BY <1>14, <3>1
    <3> QED BY <1>1, <3>2 DEF ReplyOK, IsStr, SameButRef
  <2> QED BY <1>1, <2>1 DEF ReplyOK
<1>18. Exact(g, D, r, pend2)
  <2>1. /\ pend2 \in [Oid -> Int] /\ \A x \in Oid : pend2[x] = pend[x] - One({o}, x)
    BY <1>1, PendingType
  <2> HIDE DEF pend2
  <2>2. ASSUME NEW x \in Oid PROVE g[x].ref = Held(g, D, r, x) + pend2[x]
    <3>1. Held(g, D, r, x) + One(C, x) = Held(h, D, r, x) /\ Held(g, D, r, x) \in Nat
      BY <1>1, <1>10, HeldType
    <3>2. h[x].ref = Held(h, D, r, x) + pend[x] /\ pend[x] \in Int /\ pend2[x] = pend[x] - One({o}, x)
      BY <1>1, <2>1
    <3>3. g[x].ref = h[x].ref - One({o}, x) - One(C, x)
      BY <1>13
    <3>4. One({o}, x) \in Int /\ One(C, x) \in Int
      BY DEF One
    <3> QED BY <3>1, <3>2, <3>3, <3>4
  <2> QED BY <2>1, <2>2 DEF Exact
<1>19. \A x \in Oid : x # o /\ ~IsStr(h, x) => g[x] = h[x]
  BY <1>5, <1>6
<1> HIDE DEF pend2
<1>20. Fine(g, D, r, pend2)
  BY <1>15, <1>16, <1>17, <1>18 DEF Fine
<1> QED BY <1>13, <1>19, <1>20 DEF g, pend2, C

(* decrRefCount gives up a pending reference. *)
LEMMA DecrFine ==
    ASSUME NEW h, NEW D, NEW r, NEW pend, Fine(h, D, r, pend), NEW o \in Oid,
           pend[o] >= 1 \/ h[o].ref > 1,
           \A x \in Contents(h, o) : pend[x] >= 0 \/ h[x].ref >= 2
    PROVE  LET g == decrRefCount(h, o) IN
           /\ Fine(g, D, r, Minus(pend, {o}))
           /\ \A x \in Oid : g[x] = Dead \/ SameButRef(g[x], h[x])
           /\ \A x \in Oid : x # o /\ ~IsStr(h, x) => g[x] = h[x]
<1>1. h[o].ref >= 1 /\ h[o].ref \in Nat
  <2>1. h[o].ref = Held(h, D, r, o) + pend[o] /\ Held(h, D, r, o) \in Nat /\ pend[o] \in Int
    BY FineType
  <2> QED BY <2>1
<1>2. CASE h[o].ref > 1
  <2>1. decrRefCount(h, o) = Down(h, {o})
    BY <1>2 DEF decrRefCount
  <2> QED BY <1>2, <2>1, DownFine
<1>3. CASE h[o].ref = 1
  <2>1. decrRefCount(h, o) = Down(Down(h, {o}), Contents(h, o))
    BY <1>3 DEF decrRefCount, Contents
  <2>2. pend[o] >= 1
    BY <1>3
  <2> QED BY <1>3, <2>1, <2>2, FreedFine
<1> QED BY <1>1, <1>2, <1>3

----------------------------------------------------------------------------
(* References of several objects *)

(* Heaps that decrRefCount stays in. *)
Loose ==
    [type : {"free", "string", "list", "set"}, ref : Int, str : Str \union {Nil},
     elems : Seq(Oid), members : SUBSET Oid]
Heaps == [Oid -> Loose]

LEMMA DecrLoose ==
    ASSUME NEW h \in Heaps, NEW o \in Oid
    PROVE  decrRefCount(h, o) \in Heaps
<1>1. Dead \in Loose
  BY DEF Loose, Dead
<1>2. ASSUME NEW obj \in Loose PROVE Dropped(obj) \in Loose
  BY <1>1 DEF Dropped, Loose
<1>3. ASSUME NEW g \in Heaps, NEW S PROVE Down(g, S) \in Heaps
  <2> HIDE DEF Loose
  <2> QED BY <1>2 DEF Down, Heaps
<1> HIDE DEF Heaps
<1> QED BY <1>3 DEF decrRefCount

(* decrAll drops the references one after the other. *)
LEMMA DecrAllReaches ==
    ASSUME NEW h \in Heaps, NEW S \in SUBSET Oid, NEW P, <<{}, h>> \in P,
           \A T \in SUBSET S : \A x \in S \ T : \A g \in Heaps :
               <<T, g>> \in P => <<T \union {x}, decrRefCount(g, x)>> \in P
    PROVE  <<S, decrAll(h, S)>> \in P
<1> DEFINE Pick(T) == CHOOSE x \in T : TRUE
           ch == [T \in SUBSET S |-> Pick(T)]
           op == [p \in S \X Heaps |-> decrRefCount(p[2], p[1])]
           Walk(f, T) == IF T = {} THEN h ELSE decrRefCount(f[T \ {Pick(T)}], Pick(T))
           iter == CHOOSE f : f = [T \in SUBSET S |-> Walk(f, T)]
           Good == {T \in SUBSET S : iter[T] \in Heaps /\ <<T, iter[T]>> \in P}
<1>1. IsFiniteSet(S)
  BY OidFinite
<1>2. ASSUME NEW T \in SUBSET S, T # {} PROVE Pick(T) \in T
  BY <1>2
<1> HIDE DEF Pick
<1>3. op \in [S \X Heaps -> Heaps]
  <2> HIDE DEF Heaps
  <2>1. \A p \in S \X Heaps : decrRefCount(p[2], p[1]) \in Heaps
    BY DecrLoose
  <2> QED BY <2>1
<1> HIDE DEF Heaps
<1>4. \E f \in [SUBSET S -> Heaps] : f = [T \in SUBSET S |-> Walk(f, T)]
  <2>1. \A T \in SUBSET S : T # {} => ch[T] \in T
    BY <1>2
  <2> HIDE DEF op, ch
  <2>2. PICK f \in [SUBSET S -> Heaps] : FoldsOver(f, S, h, op, ch)
    BY <1>1, <1>3, <2>1, SubsetRecursion
  <2>3. ASSUME NEW T \in SUBSET S
        PROVE  (IF T = {} THEN h ELSE op[<<ch[T], f[T \ {ch[T]}]>>]) = Walk(f, T)
    <3>1. CASE T = {}
      BY <3>1
    <3>2. CASE T # {}
      <4>1. ch[T] = Pick(T) /\ ch[T] \in S /\ f[T \ {ch[T]}] \in Heaps
        BY <2>1, <3>2 DEF ch
      <4>2. op[<<ch[T], f[T \ {ch[T]}]>>] = decrRefCount(f[T \ {ch[T]}], ch[T])
        BY <4>1 DEF op
      <4> QED BY <3>2, <4>1, <4>2
    <3> QED BY <3>1, <3>2
  <2> HIDE DEF Walk
  <2>4. f = [T \in SUBSET S |-> Walk(f, T)]
    BY <2>2, <2>3 DEF FoldsOver
  <2> QED BY <2>4
<1>5. iter = [T \in SUBSET S |-> Walk(iter, T)]
  <2> HIDE DEF Walk
  <2> QED BY <1>4
<1>6. decrAll(h, S) = iter[S]
  BY DEF decrAll, FoldSet, MapThenFoldSet, Pick
<1> HIDE DEF iter
<1>7. \A T \in SUBSET S : T # {} /\ (\A x \in T : T \ {x} \in Good) => T \in Good
  <2> TAKE T \in SUBSET S
  <2> HAVE T # {} /\ \A x \in T : T \ {x} \in Good
  <2> DEFINE x == Pick(T)
             g == iter[T \ {x}]
  <2>1. x \in T /\ g \in Heaps /\ <<T \ {x}, g>> \in P
    <3>1. x \in T
      BY <1>2
    <3> QED BY <3>1
  <2>2. iter[T] = decrRefCount(g, x)
    <3>1. iter[T] = Walk(iter, T)
      <4> HIDE DEF Walk
      <4> QED BY <1>5
    <3> QED BY <3>1
  <2> HIDE DEF x, g
  <2>3. iter[T] \in Heaps
    BY <2>1, <2>2, DecrLoose
  <2>4. <<T, iter[T]>> \in P
    <3>1. T \ {x} \in SUBSET S /\ x \in S \ (T \ {x}) /\ (T \ {x}) \union {x} = T
      BY <2>1
    <3> QED BY <2>1, <2>2, <3>1
  <2> QED BY <2>3, <2>4
<1>8. {} \in Good
  <2>1. iter[{}] = Walk(iter, {})
    <3> HIDE DEF Walk
    <3> QED BY <1>5
  <2> QED BY <2>1
<1>9. S \in Good
  <2> HIDE DEF Good
  <2> QED BY <1>1, <1>7, <1>8, SubsetInduction
<1> QED BY <1>6, <1>9

(* What a command has as its own, by what is pending: the shield of an      *)
(* object whose references are not counted yet are two sets that have it    *)
(* and stay.                                                                *)
Shielded(h, S, x) ==
    \E s, t \in Oid \ S : /\ s # t /\ h[s].type = "set" /\ h[t].type = "set"
                          /\ x \in h[s].members /\ x \in h[t].members

Releasable(h, pend, S) ==
    /\ \A x \in S : pend[x] >= 1 \/ (pend[x] >= 0 /\ Shielded(h, S, x))
    /\ \A x \in Oid : pend[x] >= 0 \/ (pend[x] >= -1 /\ Shielded(h, S, x))

(* After some of the references are given up. *)
Along(h, D, r, pend, T, g) ==
    /\ Fine(g, D, r, Minus(pend, T))
    /\ \A x \in Oid : g[x] = Dead \/ SameButRef(g[x], h[x])
    /\ \A x \in Oid : x \notin T /\ ~IsStr(h, x) => g[x] = h[x]

LEMMA AlongNext ==
    ASSUME NEW h, NEW D, NEW r, NEW pend \in [Oid -> Int], NEW S \in SUBSET Oid,
           Releasable(h, pend, S), NEW T \in SUBSET S, NEW o \in S \ T, NEW g,
           Along(h, D, r, pend, T, g)
    PROVE  Along(h, D, r, pend, T \union {o}, decrRefCount(g, o))
<1> DEFINE p == Minus(pend, T)
           k == decrRefCount(g, o)
<1>1. /\ p \in [Oid -> Int] /\ \A x \in Oid : p[x] = pend[x] - One(T, x)
  BY PendingType
<1>2. Fine(g, D, r, p) /\ o \in Oid
  BY DEF Along
<1> HIDE DEF p
<1>3. p[o] >= 1 \/ g[o].ref > 1
  <2>1. p[o] = pend[o] - One(T, o) /\ One(T, o) = 0 /\ pend[o] \in Int
    BY <1>1 DEF One
  <2>2. CASE pend[o] >= 1
    BY <2>1, <2>2
  <2>3. CASE pend[o] >= 0 /\ Shielded(h, S, o)
    <3>1. PICK s \in Oid \ S, t \in Oid \ S :
             /\ s # t /\ h[s].type = "set" /\ h[t].type = "set"
             /\ o \in h[s].members /\ o \in h[t].members
      BY <2>3 DEF Shielded
    <3>2. g[s] = h[s] /\ g[t] = h[t]
      BY <3>1 DEF Along, IsStr
    <3>3. {s} \union {t} \in SUBSET SetsWith(g, o) /\ SetsWith(g, o) \in SUBSET Oid
      BY <3>1, <3>2 DEF SetsWith
    <3>4. IsFiniteSet(SetsWith(g, o)) /\ Cardinality(SetsWith(g, o)) \in Nat
      BY <3>3, OidFinite
    <3>5. Cardinality({s} \union {t}) = 2
      <4>1. Cardinality({s}) = 1 /\ IsFiniteSet({s}) /\ t \notin {s}
        BY <3>1, FS_Singleton
      <4>2. Cardinality({s} \union {t}) = Cardinality({s}) + 1
        BY <4>1, FS_AddElement
      <4> QED BY <4>1, <4>2
    <3>6. Cardinality(SetsWith(g, o)) >= 2
      <4>1. Cardinality({s} \union {t}) <= Cardinality(SetsWith(g, o))
        BY <3>3, <3>4, FS_Subset
      <4> QED BY <3>4, <3>5, <4>1
    <3>7. Held(g, D, r, o) >= 2
      <4>1. r \in Seq(Oid)
        BY <1>2, FineType
      <4>2. /\ One(Owned(D), o) \in Nat /\ One(Nodes(g), o) \in Nat
            /\ Cardinality(SetsWith(g, o)) \in Nat /\ Cardinality(Spots(r, o)) \in Nat
        BY <1>2, <4>1, HeldType
      <4> QED BY <3>6, <4>2 DEF Held
    <3>8. g[o].ref = Held(g, D, r, o) + p[o] /\ Held(g, D, r, o) \in Nat
      BY <1>2, FineType
    <3> QED BY <2>1, <2>3, <3>7, <3>8
  <2> QED BY <2>2, <2>3 DEF Releasable
<1>4. ASSUME NEW x \in Contents(g, o) PROVE p[x] >= 0 \/ g[x].ref >= 2
  <2>1. x \in Oid /\ p[x] = pend[x] - One(T, x) /\ pend[x] \in Int
    BY <1>1, <1>2, FineType
  <2>2. p[x] >= 0 \/ (p[x] >= -1 /\ Shielded(h, S, x))
    <3>1. CASE x \in T
      <4>1. One(T, x) = 1 /\ (pend[x] >= 1 \/ (pend[x] >= 0 /\ Shielded(h, S, x)))
        BY <3>1 DEF Releasable, One
      <4> QED BY <2>1, <4>1
    <3>2. CASE x \notin T
      <4>1. One(T, x) = 0 /\ (pend[x] >= 0 \/ (pend[x] >= -1 /\ Shielded(h, S, x)))
        BY <2>1, <3>2 DEF Releasable, One
      <4> QED BY <2>1, <4>1
    <3> QED BY <3>1, <3>2
  <2>3. CASE p[x] >= -1 /\ Shielded(h, S, x)
    <3>1. Shielded(h, S, x)
      BY <2>3
    <3>2. PICK s \in Oid \ S, t \in Oid \ S :
             /\ s # t /\ h[s].type = "set" /\ h[t].type = "set"
             /\ x \in h[s].members /\ x \in h[t].members
      BY <3>1 DEF Shielded
    <3>3. g[s] = h[s] /\ g[t] = h[t]
      BY <3>2 DEF Along, IsStr
    <3>4. {s, t} \in SUBSET SetsWith(g, x) /\ SetsWith(g, x) \in SUBSET Oid
      BY <3>2, <3>3 DEF SetsWith
    <3>5. IsFiniteSet(SetsWith(g, x)) /\ Cardinality(SetsWith(g, x)) \in Nat
      BY <3>4, OidFinite
    <3>7. One(Nodes(g), x) + Cardinality(SetsWith(g, x)) >= 3
      <4>1. Cardinality({s, t}) = 2 /\ Cardinality({s, t} \union {o}) = 3
        <5>1. s # t /\ o # s /\ o # t
          BY <3>2
        <5>2. Cardinality({s}) = 1 /\ IsFiniteSet({s})
          BY FS_Singleton
        <5>3. Cardinality({s} \union {t}) = 1 + 1 /\ IsFiniteSet({s} \union {t})
          <6>1. t \notin {s}
            BY <5>1
          <6>2. /\ IsFiniteSet({s} \union {t})
                /\ Cardinality({s} \union {t}) = Cardinality({s}) + 1
            BY <5>2, <6>1, FS_AddElement
          <6> QED BY <5>2, <6>2
        <5>4. {s} \union {t} = {s, t}
          OBVIOUS
        <5>5. Cardinality({s, t} \union {o}) = 2 + 1
          <6> DEFINE W == {s} \union {t}
          <6>1. o \notin W
            BY <5>1
          <6>2. IsFiniteSet(W) /\ Cardinality(W) = 2
            BY <5>3
          <6> HIDE DEF W
          <6>3. Cardinality(W \union {o}) = Cardinality(W) + 1
            BY <6>1, <6>2, FS_AddElement
          <6> QED BY <5>4, <6>2, <6>3 DEF W
        <5> QED BY <5>3, <5>4, <5>5
      <4>2. CASE x \in ToSet(g[o].elems)
        <5>1. One(Nodes(g), x) = 1
          BY <1>2, <2>1, <4>2 DEF Nodes, One
        <5>2. Cardinality({s, t}) <= Cardinality(SetsWith(g, x))
          BY <3>4, <3>5, FS_Subset
        <5> QED BY <3>5, <4>1, <5>1, <5>2
      <4>3. CASE x \in g[o].members
        <5>1. {s, t} \union {o} \in SUBSET SetsWith(g, x)
          BY <1>2, <3>4, <4>3 DEF SetsWith
        <5>2. Cardinality({s, t} \union {o}) <= Cardinality(SetsWith(g, x))
          BY <3>5, <5>1, FS_Subset
        <5>3. One(Nodes(g), x) \in Nat
          BY DEF One
        <5>4. 3 <= Cardinality(SetsWith(g, x))
          BY <4>1, <5>2
        <5> HIDE <4>1, <5>1, <5>2
        <5> QED BY <3>5, <5>3, <5>4
      <4> QED BY <4>2, <4>3 DEF Contents
    <3>8. Held(g, D, r, x) >= 3
      <4>1. r \in Seq(Oid)
        BY <1>2, FineType
      <4>2. /\ One(Owned(D), x) \in Nat /\ One(Nodes(g), x) \in Nat
            /\ Cardinality(SetsWith(g, x)) \in Nat /\ Cardinality(Spots(r, x)) \in Nat
        BY <4>1, HeldType
      <4> QED BY <3>7, <4>2 DEF Held
    <3>9. g[x].ref = Held(g, D, r, x) + p[x] /\ Held(g, D, r, x) \in Nat
      BY <1>2, <2>1, FineType
    <3>10. p[x] \in Int
      BY <1>1, <2>1
    <3> QED BY <2>3, <3>8, <3>9, <3>10
  <2> QED BY <2>2, <2>3
<1>5. /\ Fine(k, D, r, Minus(p, {o}))
      /\ \A x \in Oid : k[x] = Dead \/ SameButRef(k[x], g[x])
      /\ \A x \in Oid : x # o /\ ~IsStr(g, x) => k[x] = g[x]
  BY <1>2, <1>3, <1>4, DecrFine
<1> HIDE DEF k
<1>6. Fine(k, D, r, Minus(pend, T \union {o}))
  <2>1. Minus(pend, T \union {o}) \in [Oid -> Int]
    BY PendingType
  <2>2. ASSUME NEW x \in Oid PROVE Minus(p, {o})[x] = Minus(pend, T \union {o})[x]
    <3>1. /\ Minus(p, {o})[x] = p[x] - One({o}, x) /\ p[x] = pend[x] - One(T, x)
          /\ Minus(pend, T \union {o})[x] = pend[x] - One(T \union {o}, x)
      BY <1>1, PendingType
    <3>2. One(T \union {o}, x) = One(T, x) + One({o}, x) /\ One(T, x) \in Int /\ One({o}, x) \in Int
      BY DEF One
    <3>3. pend[x] \in Int
      OBVIOUS
    <3> QED BY <3>1, <3>2, <3>3
  <2> QED BY <1>5, <2>1, <2>2, SamePending
<1>7. \A x \in Oid : k[x] = Dead \/ SameButRef(k[x], h[x])
  <2> TAKE x \in Oid
  <2>1. g[x] = Dead \/ SameButRef(g[x], h[x])
    BY DEF Along
  <2>2. CASE SameButRef(k[x], g[x]) /\ SameButRef(g[x], h[x])
    BY <2>2 DEF SameButRef
  <2>3. CASE SameButRef(k[x], g[x]) /\ g[x] = Dead
    <3>1. Shaped(k[x]) /\ k[x].type = "free"
      BY <1>5, <2>3, DeadShape, FineType DEF SameButRef
    <3> QED BY <3>1 DEF Shaped
  <2> QED BY <1>5, <2>1, <2>2, <2>3
<1>8. \A x \in Oid : x \notin T \union {o} /\ ~IsStr(h, x) => k[x] = h[x]
  <2> TAKE x \in Oid
  <2> HAVE x \notin T \union {o} /\ ~IsStr(h, x)
  <2>1. g[x] = h[x]
    BY DEF Along
  <2>2. k[x] = g[x]
    BY <1>5, <2>1 DEF IsStr
  <2> QED BY <2>1, <2>2
<1> QED BY <1>6, <1>7, <1>8 DEF Along, k

LEMMA DecrAllFine ==
    ASSUME NEW h, NEW D, NEW r, NEW pend, Fine(h, D, r, pend), NEW S \in SUBSET Oid,
           Releasable(h, pend, S)
    PROVE  LET g == decrAll(h, S) IN
           /\ Fine(g, D, r, Minus(pend, S))
           /\ \A x \in Oid : g[x] = Dead \/ SameButRef(g[x], h[x])
           /\ \A x \in Oid : x \notin S /\ ~IsStr(h, x) => g[x] = h[x]
<1> DEFINE P == {p \in (SUBSET S) \X Heaps : Along(h, D, r, pend, p[1], p[2])}
<1>1. h \in Heaps /\ pend \in [Oid -> Int]
  <2>1. h \in [Oid -> Object] /\ pend \in [Oid -> Int]
    BY FineType
  <2>2. Object \subseteq Loose
    BY DEF Object, Loose
  <2> QED BY <2>1, <2>2 DEF Heaps
<1>2. Along(h, D, r, pend, {}, h)
  <2>1. Minus(pend, {}) \in [Oid -> Int]
    BY <1>1, PendingType
  <2>2. ASSUME NEW x \in Oid PROVE pend[x] = Minus(pend, {})[x]
    BY <1>1 DEF Minus, One
  <2>3. Fine(h, D, r, Minus(pend, {}))
    BY <2>1, <2>2, SamePending
  <2> QED BY <2>3 DEF Along, SameButRef
<1>3. <<{}, h>> \in P
  BY <1>1, <1>2
<1>4. \A T \in SUBSET S : \A x \in S \ T : \A g \in Heaps :
          <<T, g>> \in P => <<T \union {x}, decrRefCount(g, x)>> \in P
  <2> SUFFICES ASSUME NEW T \in SUBSET S, NEW x \in S \ T, NEW g \in Heaps, <<T, g>> \in P
               PROVE  <<T \union {x}, decrRefCount(g, x)>> \in P
    OBVIOUS
  <2>1. Along(h, D, r, pend, T, g)
    OBVIOUS
  <2>2. Along(h, D, r, pend, T \union {x}, decrRefCount(g, x))
    BY <1>1, <2>1, AlongNext
  <2>3. decrRefCount(g, x) \in Heaps
    BY DecrLoose
  <2> QED BY <2>2, <2>3
<1> HIDE DEF P
<1>5. <<S, decrAll(h, S)>> \in P
  BY <1>1, <1>3, <1>4, DecrAllReaches
<1>6. Along(h, D, r, pend, S, decrAll(h, S))
  BY <1>5 DEF P
<1> QED BY <1>6 DEF Along

----------------------------------------------------------------------------
(* The databases, the lists, the sets and the replies give up references    *)
(* and take pending ones.                                                   *)

LEMMA UnboundFine ==
    ASSUME NEW h, NEW D, NEW r, NEW pend, Fine(h, D, r, pend),
           NEW D2 \in [Db -> SUBSET Entries], \A d \in Db : D2[d] \subseteq D[d]
    PROVE  Fine(h, D2, r, Plus(pend, Owned(D) \ Owned(D2)))
<1> DEFINE W == Owned(D) \ Owned(D2)
           pend2 == Plus(pend, W)
<1>1. HeapOK(h) /\ DbOK(h, D) /\ ReplyOK(h, r)
  BY DEF Fine
<1>2. DbOK(h, D2)
  <2>1. \A d \in Db : \A e \in D2[d] : e \in D[d]
    OBVIOUS
  <2>2. \A d \in Db : \A e \in D2[d] : IsStr(h, e.key) /\ h[e.val].type # "free"
    BY <1>1, <2>1 DEF DbOK
  <2>3. \A c, d \in Db : \A e \in D2[c], f \in D2[d] :
            /\ e.key # f.val
            /\ e.key = f.key \/ e.val = f.val => c = d /\ e = f
    BY <1>1, <2>1 DEF DbOK
  <2> QED BY <2>2, <2>3 DEF DbOK
<1>3. Exact(h, D2, r, pend2)
  <2>1. /\ pend \in [Oid -> Int] /\ r \in Seq(Oid)
        /\ \A x \in Oid : /\ h[x].ref = Held(h, D, r, x) + pend[x]
                          /\ Held(h, D, r, x) \in Nat /\ pend[x] \in Int
    BY FineType
  <2>2. pend2 \in [Oid -> Int] /\ \A x \in Oid : pend2[x] = pend[x] + One(W, x)
    BY <2>1, PendingType
  <2>3. Owned(D2) \subseteq Owned(D)
    BY DEF Owned
  <2> HIDE DEF pend2
  <2>4. ASSUME NEW x \in Oid PROVE h[x].ref = Held(h, D2, r, x) + pend2[x]
    <3>1. One(Owned(D2), x) + One(W, x) = One(Owned(D), x)
      BY <2>3 DEF One
    <3> HIDE DEF W
    <3>2. /\ One(Owned(D2), x) \in Nat /\ One(Nodes(h), x) \in Nat
          /\ Cardinality(SetsWith(h, x)) \in Nat /\ Cardinality(Spots(r, x)) \in Nat
      BY <2>1, HeldType
    <3>3. One(Owned(D), x) \in Nat /\ One(W, x) \in Nat
      BY DEF One
    <3>4. Held(h, D2, r, x) + One(W, x) = Held(h, D, r, x) /\ Held(h, D2, r, x) \in Nat
      BY <3>1, <3>2, <3>3 DEF Held
    <3>5. h[x].ref = Held(h, D, r, x) + pend[x] /\ pend[x] \in Int /\ pend2[x] = pend[x] + One(W, x)
      BY <2>1, <2>2
    <3> QED BY <3>3, <3>4, <3>5
  <2> QED BY <2>2, <2>4 DEF Exact
<1> QED BY <1>1, <1>2, <1>3 DEF Fine

KeysOf(E) == {e.key : e \in E}
ValsOf(E) == {e.val : e \in E}
Without(D, d, E) == [D EXCEPT ![d] = @ \ E]
With(D, d, e) == [D EXCEPT ![d] = @ \union {e}]

LEMMA UnbindFine ==
    ASSUME NEW h, NEW D, NEW r, NEW pend, Fine(h, D, r, pend), NEW d \in Db,
           NEW E \in SUBSET D[d]
    PROVE  LET D2 == Without(D, d, E) IN
           /\ Fine(h, D2, r, Plus(pend, KeysOf(E) \union ValsOf(E)))
           /\ Owned(D2) = Owned(D) \ (KeysOf(E) \union ValsOf(E))
<1> DEFINE D2 == Without(D, d, E)
<1>1. D \in [Db -> SUBSET Entries] /\ DbOK(h, D)
  BY FineType DEF Fine
<1>2. D2 \in [Db -> SUBSET Entries] /\ \A c \in Db : D2[c] \subseteq D[c]
  BY <1>1 DEF Without
<1>3. \A c \in Db : \A e \in Entries : e \in D2[c] <=> e \in D[c] /\ ~(c = d /\ e \in E)
  BY <1>1 DEF Without
<1>4. \A e \in E : e \in D[d] /\ e \in Entries /\ e.key \in Oid /\ e.val \in Oid
  BY <1>1 DEF Entries
<1> HIDE DEF D2
<1>5. ASSUME NEW x \in Owned(D2) PROVE x \in Owned(D) /\ x \notin KeysOf(E) /\ x \notin ValsOf(E)
  <2>1. PICK c \in Db : \E e \in D2[c] : x = e.key \/ x = e.val
    BY DEF Owned
  <2>2. PICK e \in D2[c] : x = e.key \/ x = e.val
    BY <2>1
  <2>3. e \in D[c] /\ ~(c = d /\ e \in E)
    BY <1>2, <1>3, <2>2
  <2>4. ASSUME NEW f \in E PROVE x # f.key /\ x # f.val
    <3>1. f \in D[d] /\ ~(c = d /\ e = f)
      BY <1>4, <2>3
    <3> QED BY <1>1, <2>2, <2>3, <3>1 DEF DbOK
  <2>5. x \in Owned(D)
    BY <2>2, <2>3 DEF Owned
  <2> QED BY <2>4, <2>5 DEF KeysOf, ValsOf
<1>6. ASSUME NEW x \in Owned(D), x \notin KeysOf(E), x \notin ValsOf(E) PROVE x \in Owned(D2)
  <2>1. PICK c \in Db : \E e \in D[c] : x = e.key \/ x = e.val
    BY DEF Owned
  <2>2. PICK e \in D[c] : x = e.key \/ x = e.val
    BY <2>1
  <2>3. e \notin E
    BY <1>6, <2>2 DEF KeysOf, ValsOf
  <2>4. e \in D2[c]
    BY <1>1, <1>3, <2>2, <2>3
  <2> QED BY <2>2, <2>4 DEF Owned
<1>7. KeysOf(E) \union ValsOf(E) \subseteq Owned(D)
  BY <1>4 DEF KeysOf, ValsOf, Owned
<1>8. /\ Owned(D2) = Owned(D) \ (KeysOf(E) \union ValsOf(E))
      /\ Owned(D) \ Owned(D2) = KeysOf(E) \union ValsOf(E)
  BY <1>5, <1>6, <1>7
<1>9. Fine(h, D2, r, Plus(pend, Owned(D) \ Owned(D2)))
  BY <1>2, UnboundFine
<1> QED BY <1>8, <1>9 DEF D2

LEMMA BindFine ==
    ASSUME NEW h, NEW D, NEW r, NEW pend, Fine(h, D, r, pend), NEW d \in Db,
           NEW k \in Oid, NEW v \in Oid, IsStr(h, k), h[v].type # "free", k # v,
           k \notin Owned(D), v \notin Owned(D)
    PROVE  Fine(h, With(D, d, Entry(k, v)), r, Minus(pend, {k, v}))
<1> DEFINE n == Entry(k, v)
           D2 == With(D, d, n)
           pend2 == Minus(pend, {k, v})
<1>1. /\ HeapOK(h) /\ DbOK(h, D) /\ ReplyOK(h, r) /\ D \in [Db -> SUBSET Entries]
      /\ pend \in [Oid -> Int] /\ r \in Seq(Oid)
      /\ \A x \in Oid : /\ h[x].ref = Held(h, D, r, x) + pend[x]
                        /\ Held(h, D, r, x) \in Nat /\ pend[x] \in Int
  BY FineType DEF Fine
<1>2. n \in Entries /\ n.key = k /\ n.val = v
  BY DEF Entries, Entry
<1> HIDE DEF n
<1>3. D2 \in [Db -> SUBSET Entries]
  BY <1>1, <1>2 DEF With
<1>4. \A c \in Db : \A e : e \in D2[c] <=> e \in D[c] \/ (c = d /\ e = n)
  BY <1>1 DEF With
<1> HIDE DEF D2
<1>5. \A c \in Db : \A e \in D[c] : /\ e.key \in Owned(D) /\ e.val \in Owned(D)
  BY <1>1 DEF Owned, Entries
<1>6. DbOK(h, D2)
  <2>1. \A c \in Db : \A e \in D2[c] : IsStr(h, e.key) /\ h[e.val].type # "free"
    BY <1>1, <1>2, <1>4 DEF DbOK
  <2>2. ASSUME NEW c \in Db, NEW b \in Db, NEW e \in D2[c], NEW f \in D2[b]
        PROVE  /\ e.key # f.val
               /\ e.key = f.key \/ e.val = f.val => c = b /\ e = f
    <3>1. CASE e \in D[c] /\ f \in D[b]
      BY <1>1, <3>1 DEF DbOK
    <3>2. CASE e \in D[c] /\ (b = d /\ f = n)
      BY <1>2, <1>5, <3>2
    <3>3. CASE f \in D[b] /\ (c = d /\ e = n)
      BY <1>2, <1>5, <3>3
    <3>4. CASE (c = d /\ e = n) /\ (b = d /\ f = n)
      BY <1>2, <3>4
    <3> QED BY <1>4, <3>1, <3>2, <3>3, <3>4
  <2> QED BY <1>3, <2>1, <2>2 DEF DbOK
<1>7. Owned(D2) = Owned(D) \union {k, v}
  BY <1>2, <1>4 DEF Owned
<1>8. Exact(h, D2, r, pend2)
  <2>1. pend2 \in [Oid -> Int] /\ \A x \in Oid : pend2[x] = pend[x] - One({k, v}, x)
    BY <1>1, PendingType
  <2> HIDE DEF pend2
  <2>2. ASSUME NEW x \in Oid PROVE h[x].ref = Held(h, D2, r, x) + pend2[x]
    <3>1. One(Owned(D2), x) = One(Owned(D), x) + One({k, v}, x)
      BY <1>7 DEF One
    <3>2. /\ One(Owned(D2), x) \in Nat /\ One(Nodes(h), x) \in Nat
          /\ Cardinality(SetsWith(h, x)) \in Nat /\ Cardinality(Spots(r, x)) \in Nat
      BY <1>1, HeldType
    <3>3. One(Owned(D), x) \in Nat /\ One({k, v}, x) \in Nat
      BY DEF One
    <3>4. Held(h, D2, r, x) = Held(h, D, r, x) + One({k, v}, x)
      BY <3>1, <3>2, <3>3 DEF Held
    <3>5. /\ h[x].ref = Held(h, D, r, x) + pend[x] /\ pend[x] \in Int /\ Held(h, D, r, x) \in Nat
          /\ pend2[x] = pend[x] - One({k, v}, x)
      BY <1>1, <2>1
    <3> QED BY <3>3, <3>4, <3>5
  <2> QED BY <2>1, <2>2 DEF Exact
<1> QED BY <1>1, <1>6, <1>8 DEF Fine, D2, n

AllStr(h, M) == \A x \in M : IsStr(h, x)

(* A list gets other elements: strings that were in it or in no list. *)
Relistable(h, l, es) ==
    /\ h[l].type = "list" /\ es \in Seq(Oid)
    /\ IsInjective(es) /\ AllStr(h, ToSet(es))
    /\ \A x \in ToSet(es) : x \in ToSet(h[l].elems) \/ x \notin Nodes(h)

LEMMA RelistFine ==
    ASSUME NEW h, NEW D, NEW r, NEW pend, Fine(h, D, r, pend), NEW l \in Oid,
           NEW es, Relistable(h, l, es)
    PROVE  LET g == SetElems(h, l, es) IN
           /\ Fine(g, D, r, Minus(Plus(pend, ToSet(h[l].elems)), ToSet(es)))
           /\ \A x \in Oid : g[x].type = h[x].type /\ g[x].ref = h[x].ref
           /\ \A x \in Oid : x # l => g[x] = h[x]
           /\ g[l].elems = es
<1> DEFINE g == SetElems(h, l, es)
           old == ToSet(h[l].elems)
           new == ToSet(es)
           pend2 == Minus(Plus(pend, old), new)
<1>1. /\ HeapOK(h) /\ DbOK(h, D) /\ ReplyOK(h, r) /\ D \in [Db -> SUBSET Entries]
      /\ h \in [Oid -> Object] /\ \A x \in Oid : Shaped(h[x])
      /\ pend \in [Oid -> Int] /\ r \in Seq(Oid)
      /\ \A x \in Oid : /\ h[x].ref = Held(h, D, r, x) + pend[x]
                        /\ Held(h, D, r, x) \in Nat /\ pend[x] \in Int
  BY FineType DEF Fine
<1>2. g[l] = [h[l] EXCEPT !.elems = es] /\ h[l] \in Object /\ es \in Seq(Oid)
  BY <1>1 DEF SetElems, Relistable
<1>3. /\ g[l] \in Object /\ g[l].type = h[l].type /\ g[l].ref = h[l].ref
      /\ g[l].elems = es /\ g[l].members = h[l].members
  BY <1>2 DEF Object
<1>4. /\ \A x \in Oid : x # l => g[x] = h[x]
      /\ g = [x \in Oid |-> g[x]]
  BY <1>1 DEF SetElems
<1> HIDE DEF g
<1>5. \A x \in Oid : g[x].type = h[x].type /\ g[x].ref = h[x].ref /\ g[x].members = h[x].members
  BY <1>3, <1>4
<1>6. new \in SUBSET Oid
  BY <1>2 DEF ToSet
<1>7. HeapOK(g)
  <2>1. \A x \in Oid : Shaped(g[x])
    <3>1. Shaped(g[l])
      <4>1. h[l].ref # 0 /\ h[l].members = {} /\ h[l].type = "list"
        BY <1>1, DeadShape DEF Shaped, Relistable
      <4> QED BY <1>3, <4>1 DEF Shaped
    <3> QED BY <1>1, <1>4, <3>1
  <2>2. g \in [Oid -> Object]
    <3>1. \A x \in Oid : g[x] \in Object
      BY <2>1 DEF Shaped
    <3> QED BY <1>4, <3>1
  <2>3. ASSUME NEW o \in Oid, NEW x \in Contents(g, o) PROVE IsStr(g, x)
    <3>1. x \in Oid
      BY <2>2 DEF Contents, Object, ToSet
    <3>2. IsStr(h, x)
      <4>1. CASE o = l
        <5>1. x \in new \/ x \in Contents(h, l)
          BY <1>3, <4>1 DEF Contents
        <5> QED BY <1>1, <5>1 DEF HeapOK, Relistable, AllStr
      <4>2. CASE o # l
        BY <1>1, <1>4, <4>2 DEF Contents, HeapOK
      <4> QED BY <4>1, <4>2
    <3> QED BY <1>5, <3>1, <3>2 DEF IsStr
  <2>4. \A o \in Oid : IsInjective(g[o].elems)
    BY <1>1, <1>3, <1>4 DEF HeapOK, Relistable
  <2>5. ASSUME NEW o \in Oid, NEW q \in Oid, NEW x \in Oid, x \in ToSet(g[o].elems), x \in ToSet(g[q].elems)
        PROVE  o = q
    <3>1. ASSUME NEW p \in Oid, p # l, x \in ToSet(g[p].elems) PROVE x \notin new
      <4>1. x \in ToSet(h[p].elems)
        BY <1>4, <3>1
      <4>2. x \in Nodes(h) /\ x \notin old
        BY <1>1, <3>1, <4>1 DEF Nodes, HeapOK
      <4> QED BY <4>2 DEF Relistable
    <3>2. CASE o # l /\ q # l
      BY <1>1, <1>4, <2>5, <3>2 DEF HeapOK
    <3> QED BY <1>3, <2>5, <3>1, <3>2
  <2> QED BY <2>1, <2>2, <2>3, <2>4, <2>5 DEF HeapOK
<1>8. DbOK(g, D)
  <2>1. \A d \in Db : \A e \in D[d] : e.key \in Oid /\ e.val \in Oid
    BY <1>1 DEF Entries
  <2> QED BY <1>1, <1>5, <2>1 DEF DbOK, IsStr
<1>9. ReplyOK(g, r)
  <2>1. \A i \in DOMAIN r : r[i] \in Oid
    BY <1>1
  <2> QED BY <1>1, <1>5, <2>1 DEF ReplyOK, IsStr
<1>10. Exact(g, D, r, pend2)
  <2>1. /\ pend2 \in [Oid -> Int]
        /\ \A x \in Oid : pend2[x] = pend[x] + One(old, x) - One(new, x)
    <3>1. Plus(pend, old) \in [Oid -> Int] /\ \A x \in Oid : Plus(pend, old)[x] = pend[x] + One(old, x)
      BY <1>1, PendingType
    <3>2. pend2 \in [Oid -> Int] /\ \A x \in Oid : pend2[x] = Plus(pend, old)[x] - One(new, x)
      BY <3>1, PendingType
    <3> HIDE DEF pend2
    <3>3. ASSUME NEW x \in Oid PROVE pend2[x] = pend[x] + One(old, x) - One(new, x)
      <4>1. pend[x] \in Int /\ One(old, x) \in Int /\ One(new, x) \in Int
        BY <1>1 DEF One
      <4>2. Plus(pend, old)[x] = pend[x] + One(old, x)
        BY <3>1
      <4>3. pend2[x] = Plus(pend, old)[x] - One(new, x)
        BY <3>2
      <4> QED BY <4>1, <4>2, <4>3
    <3> QED BY <3>2, <3>3
  <2> HIDE DEF pend2
  <2>2. ASSUME NEW x \in Oid PROVE g[x].ref = Held(g, D, r, x) + pend2[x]
    <3>1. One(Nodes(g), x) + One(old, x) = One(Nodes(h), x) + One(new, x)
      <4> DEFINE others == \E o \in Oid : o # l /\ x \in ToSet(h[o].elems)
      <4>1. x \in Nodes(h) <=> others \/ x \in old
        BY DEF Nodes
      <4>2. x \in Nodes(g) <=> others \/ x \in new
        BY <1>3, <1>4 DEF Nodes
      <4>3. others => x \notin old /\ x \notin new
        BY <1>1, <4>1 DEF HeapOK, Relistable
      <4> HIDE DEF others, old, new
      <4> QED BY <4>1, <4>2, <4>3 DEF One
    <3>2. SetsWith(g, x) = SetsWith(h, x)
      BY <1>5 DEF SetsWith
    <3>3. /\ One(Owned(D), x) \in Nat /\ One(Nodes(g), x) \in Nat
          /\ Cardinality(SetsWith(g, x)) \in Nat /\ Cardinality(Spots(r, x)) \in Nat
      BY <1>1, HeldType
    <3> HIDE DEF old, new
    <3>4. One(Nodes(h), x) \in Nat /\ One(old, x) \in Nat /\ One(new, x) \in Nat
      BY DEF One
    <3>5. Held(g, D, r, x) + One(old, x) = Held(h, D, r, x) + One(new, x)
      <4>1. /\ Held(g, D, r, x) = One(Owned(D), x) + One(Nodes(g), x)
                  + Cardinality(SetsWith(g, x)) + Cardinality(Spots(r, x))
            /\ Held(h, D, r, x) = One(Owned(D), x) + One(Nodes(h), x)
                  + Cardinality(SetsWith(g, x)) + Cardinality(Spots(r, x))
        BY <3>2 DEF Held
      <4> QED BY <3>1, <3>3, <3>4, <4>1
    <3>6. Held(g, D, r, x) \in Nat
      BY <1>1, HeldType
    <3>7. /\ g[x].ref = Held(h, D, r, x) + pend[x] /\ pend[x] \in Int /\ Held(h, D, r, x) \in Nat
          /\ pend2[x] = pend[x] + One(old, x) - One(new, x)
      BY <1>1, <1>5, <2>1
    <3> QED BY <3>4, <3>5, <3>6, <3>7
  <2> QED BY <2>1, <2>2 DEF Exact
<1> HIDE DEF pend2
<1>11. Fine(g, D, r, pend2)
  BY <1>7, <1>8, <1>9, <1>10 DEF Fine
<1> QED BY <1>3, <1>4, <1>5, <1>11 DEF g, pend2

(* A set gets other members. *)
LEMMA RememberFine ==
    ASSUME NEW h, NEW D, NEW r, NEW pend, Fine(h, D, r, pend), NEW s \in Oid,
           h[s].type = "set", NEW M \in SUBSET Oid, AllStr(h, M)
    PROVE  LET g == SetMembers(h, s, M) IN
           /\ Fine(g, D, r, Minus(Plus(pend, h[s].members), M))
           /\ \A x \in Oid : g[x].type = h[x].type /\ g[x].ref = h[x].ref
           /\ \A x \in Oid : x # s => g[x] = h[x]
           /\ g[s].members = M
<1> DEFINE g == SetMembers(h, s, M)
           old == h[s].members
           pend2 == Minus(Plus(pend, old), M)
<1>1. /\ HeapOK(h) /\ DbOK(h, D) /\ ReplyOK(h, r) /\ D \in [Db -> SUBSET Entries]
      /\ h \in [Oid -> Object] /\ \A x \in Oid : Shaped(h[x])
      /\ pend \in [Oid -> Int] /\ r \in Seq(Oid)
      /\ \A x \in Oid : /\ h[x].ref = Held(h, D, r, x) + pend[x]
                        /\ Held(h, D, r, x) \in Nat /\ pend[x] \in Int
  BY FineType DEF Fine
<1>2. g[s] = [h[s] EXCEPT !.members = M] /\ h[s] \in Object
  BY <1>1 DEF SetMembers
<1>3. /\ g[s] \in Object /\ g[s].type = h[s].type /\ g[s].ref = h[s].ref
      /\ g[s].elems = h[s].elems /\ g[s].members = M
  BY <1>2 DEF Object
<1>4. /\ \A x \in Oid : x # s => g[x] = h[x]
      /\ g = [x \in Oid |-> g[x]]
  BY <1>1 DEF SetMembers
<1> HIDE DEF g
<1>5. \A x \in Oid : g[x].type = h[x].type /\ g[x].ref = h[x].ref /\ g[x].elems = h[x].elems
  BY <1>3, <1>4
<1>6. HeapOK(g)
  <2>1. \A x \in Oid : Shaped(g[x])
    <3>1. Shaped(g[s])
      <4>1. h[s].ref # 0 /\ h[s].elems = <<>>
        BY <1>1, DeadShape DEF Shaped
      <4> QED BY <1>3, <4>1 DEF Shaped
    <3> QED BY <1>1, <1>4, <3>1
  <2>2. g \in [Oid -> Object]
    <3>1. \A x \in Oid : g[x] \in Object
      BY <2>1 DEF Shaped
    <3> QED BY <1>4, <3>1
  <2>3. ASSUME NEW o \in Oid, NEW x \in Contents(g, o) PROVE IsStr(g, x)
    <3>1. x \in Oid
      BY <2>2 DEF Contents, Object, ToSet
    <3>2. IsStr(h, x)
      <4>1. CASE o = s
        <5>1. x \in M \/ x \in Contents(h, s)
          BY <1>3, <4>1 DEF Contents
        <5> QED BY <1>1, <5>1 DEF HeapOK, AllStr
      <4>2. CASE o # s
        BY <1>1, <1>4, <4>2 DEF Contents, HeapOK
      <4> QED BY <4>1, <4>2
    <3> QED BY <1>5, <3>1, <3>2 DEF IsStr
  <2>4. \A o \in Oid : IsInjective(g[o].elems)
    BY <1>1, <1>5 DEF HeapOK
  <2>5. \A o, q \in Oid : \A x \in Oid : x \in ToSet(g[o].elems) /\ x \in ToSet(g[q].elems) => o = q
    BY <1>1, <1>5 DEF HeapOK
  <2> QED BY <2>1, <2>2, <2>3, <2>4, <2>5 DEF HeapOK
<1>7. DbOK(g, D)
  <2>1. \A d \in Db : \A e \in D[d] : e.key \in Oid /\ e.val \in Oid
    BY <1>1 DEF Entries
  <2> QED BY <1>1, <1>5, <2>1 DEF DbOK, IsStr
<1>8. ReplyOK(g, r)
  <2>1. \A i \in DOMAIN r : r[i] \in Oid
    BY <1>1
  <2> QED BY <1>1, <1>5, <2>1 DEF ReplyOK, IsStr
<1>9. Exact(g, D, r, pend2)
  <2>1. /\ pend2 \in [Oid -> Int]
        /\ \A x \in Oid : pend2[x] = pend[x] + One(old, x) - One(M, x)
    <3>1. Plus(pend, old) \in [Oid -> Int] /\ \A x \in Oid : Plus(pend, old)[x] = pend[x] + One(old, x)
      BY <1>1, PendingType
    <3>2. pend2 \in [Oid -> Int] /\ \A x \in Oid : pend2[x] = Plus(pend, old)[x] - One(M, x)
      BY <3>1, PendingType
    <3> HIDE DEF pend2
    <3>3. ASSUME NEW x \in Oid PROVE pend2[x] = pend[x] + One(old, x) - One(M, x)
      <4>1. pend[x] \in Int /\ One(old, x) \in Int /\ One(M, x) \in Int
        BY <1>1 DEF One
      <4>2. Plus(pend, old)[x] = pend[x] + One(old, x)
        BY <3>1
      <4>3. pend2[x] = Plus(pend, old)[x] - One(M, x)
        BY <3>2
      <4> QED BY <4>1, <4>2, <4>3
    <3> QED BY <3>2, <3>3
  <2> HIDE DEF pend2
  <2>2. ASSUME NEW x \in Oid PROVE g[x].ref = Held(g, D, r, x) + pend2[x]
    <3> DEFINE A == SetsWith(g, x)
               B == SetsWith(h, x)
    <3>1. /\ A \ {s} = B \ {s} /\ (s \in A <=> x \in M) /\ (s \in B <=> x \in old)
      BY <1>3, <1>4 DEF SetsWith
    <3>2. /\ IsFiniteSet(A) /\ IsFiniteSet(B) /\ Cardinality(A) \in Nat /\ Cardinality(B) \in Nat
      BY OidFinite DEF SetsWith
    <3> HIDE DEF A, B, old
    <3>3. /\ Cardinality(A \ {s}) = IF s \in A THEN Cardinality(A) - 1 ELSE Cardinality(A)
          /\ Cardinality(B \ {s}) = IF s \in B THEN Cardinality(B) - 1 ELSE Cardinality(B)
      BY <3>2, FS_RemoveElement
    <3>4. Cardinality(A) + One(old, x) = Cardinality(B) + One(M, x)
      BY <3>1, <3>2, <3>3 DEF One
    <3>5. Nodes(g) = Nodes(h)
      BY <1>5 DEF Nodes
    <3>6. /\ One(Owned(D), x) \in Nat /\ One(Nodes(h), x) \in Nat /\ Cardinality(Spots(r, x)) \in Nat
      BY <1>1, HeldType
    <3>7. One(old, x) \in Nat /\ One(M, x) \in Nat
      BY DEF One
    <3>8. Held(g, D, r, x) + One(old, x) = Held(h, D, r, x) + One(M, x)
      <4>1. /\ Held(g, D, r, x) = One(Owned(D), x) + One(Nodes(h), x)
                  + Cardinality(A) + Cardinality(Spots(r, x))
            /\ Held(h, D, r, x) = One(Owned(D), x) + One(Nodes(h), x)
                  + Cardinality(B) + Cardinality(Spots(r, x))
        BY <3>5 DEF Held, A, B
      <4> QED BY <3>2, <3>4, <3>6, <3>7, <4>1
    <3>9. Held(g, D, r, x) \in Nat
      BY <1>1, HeldType
    <3>10. /\ g[x].ref = Held(h, D, r, x) + pend[x] /\ pend[x] \in Int /\ Held(h, D, r, x) \in Nat
           /\ pend2[x] = pend[x] + One(old, x) - One(M, x)
      BY <1>1, <1>5, <2>1
    <3> QED BY <3>7, <3>8, <3>9, <3>10
  <2> QED BY <2>1, <2>2 DEF Exact
<1> HIDE DEF pend2
<1>10. Fine(g, D, r, pend2)
  BY <1>6, <1>7, <1>8, <1>9 DEF Fine
<1> QED BY <1>3, <1>4, <1>5, <1>10 DEF g, pend2

(* The first reply leaves the list. *)
LEMMA SentFine ==
    ASSUME NEW h, NEW D, NEW r, NEW pend, Fine(h, D, r, pend), r # <<>>
    PROVE  Fine(h, D, Tail(r), Plus(pend, {Head(r)})) /\ Head(r) \in Oid /\ IsStr(h, Head(r))
<1> DEFINE x0 == Head(r)
           s == Tail(r)
           pend2 == Plus(pend, {x0})
<1>1. /\ HeapOK(h) /\ DbOK(h, D) /\ ReplyOK(h, r)
      /\ pend \in [Oid -> Int] /\ r \in Seq(Oid)
      /\ \A x \in Oid : /\ h[x].ref = Held(h, D, r, x) + pend[x]
                        /\ Held(h, D, r, x) \in Nat /\ pend[x] \in Int
  BY FineType DEF Fine
<1>2. x0 \in Oid /\ s \in Seq(Oid) /\ r = <<x0>> \o s
  BY <1>1
<1>3. \A i \in DOMAIN s : i + 1 \in DOMAIN r /\ s[i] = r[i + 1]
  BY <1>1
<1>4. 1 \in DOMAIN r /\ r[1] = x0
  BY <1>1
<1> HIDE DEF x0, s
<1>5. ReplyOK(h, s)
  BY <1>1, <1>2, <1>3 DEF ReplyOK
<1>6. IsStr(h, x0)
  BY <1>1, <1>4 DEF ReplyOK
<1>7. Exact(h, D, s, pend2)
  <2>1. pend2 \in [Oid -> Int] /\ \A x \in Oid : pend2[x] = pend[x] + One({x0}, x)
    BY <1>1, PendingType
  <2> HIDE DEF pend2
  <2>2. ASSUME NEW x \in Oid PROVE h[x].ref = Held(h, D, s, x) + pend2[x]
    <3>1. <<x0>> \in Seq(Oid)
      BY <1>2
    <3>2. Cardinality(Spots(<<x0>> \o s, x)) = Cardinality(Spots(<<x0>>, x)) + Cardinality(Spots(s, x))
      BY <1>2, <3>1, SpotsJoin
    <3>3. Cardinality(Spots(<<x0>>, x)) = One({x0}, x)
      <4>1. CASE x = x0
        <5>1. Spots(<<x0>>, x) = {1}
          BY <4>1 DEF Spots
        <5> QED BY <4>1, <5>1, FS_Singleton DEF One
      <4>2. CASE x # x0
        <5>1. Spots(<<x0>>, x) = {}
          BY <4>2 DEF Spots
        <5> QED BY <4>2, <5>1, FS_EmptySet DEF One
      <4> QED BY <4>1, <4>2
    <3>4. Cardinality(Spots(r, x)) = One({x0}, x) + Cardinality(Spots(s, x))
      BY <1>2, <3>2, <3>3
    <3>5. /\ One(Owned(D), x) \in Nat /\ One(Nodes(h), x) \in Nat
          /\ Cardinality(SetsWith(h, x)) \in Nat /\ Cardinality(Spots(s, x)) \in Nat
      BY <1>2, HeldType
    <3>6. One({x0}, x) \in Nat
      BY DEF One
    <3>7. Held(h, D, s, x) + One({x0}, x) = Held(h, D, r, x) /\ Held(h, D, s, x) \in Nat
      BY <3>4, <3>5, <3>6 DEF Held
    <3>8. /\ h[x].ref = Held(h, D, r, x) + pend[x] /\ pend[x] \in Int
          /\ pend2[x] = pend[x] + One({x0}, x)
      BY <1>1, <2>1
    <3> QED BY <3>6, <3>7, <3>8
  <2> QED BY <2>1, <2>2 DEF Exact
<1> HIDE DEF pend2
<1>8. Fine(h, D, s, pend2)
  BY <1>1, <1>5, <1>7 DEF Fine
<1> QED BY <1>2, <1>6, <1>8 DEF x0, s, pend2

(* A command ends with the objects os in the replies and gives up what is   *)
(* still pending.                                                           *)
LEMMA AnsweredFine ==
    ASSUME NEW h, NEW D, NEW r, NEW pend, Fine(h, D, r, pend),
           NEW os \in Seq(Oid), AllStr(h, ToSet(os)),
           NEW S \in SUBSET Oid, \A x \in Oid : pend[x] = One(S, x)
    PROVE  Fine(decrAll(Holding(h, os), S), D, r \o os, None)
<1> DEFINE H == Holding(h, os)
<1>1. Fine(H, D, r \o os, pend)
  <2>1. \A i \in DOMAIN os : IsStr(h, os[i])
    BY DEF AllStr, ToSet
  <2> QED BY <2>1, HoldingFine
<1> HIDE DEF H
<1>2. pend \in [Oid -> Int]
  BY FineType
<1>3. Releasable(H, pend, S)
  <2>1. \A x \in S : pend[x] = 1
    BY DEF One
  <2>2. \A x \in Oid : pend[x] = 0 \/ pend[x] = 1
    BY DEF One
  <2> QED BY <2>1, <2>2 DEF Releasable
<1>4. Fine(decrAll(H, S), D, r \o os, Minus(pend, S))
  BY <1>1, <1>3, DecrAllFine
<1>5. ASSUME NEW x \in Oid PROVE Minus(pend, S)[x] = None[x]
  <2>1. Minus(pend, S)[x] = pend[x] - One(S, x) /\ pend[x] = One(S, x) /\ One(S, x) \in Int
    BY <1>2, PendingType DEF One
  <2> QED BY <2>1 DEF None
<1>6. None \in [Oid -> Int]
  BY DEF None
<1> QED BY <1>4, <1>5, <1>6, SamePending DEF H

----------------------------------------------------------------------------
(* Objects for arguments *)

(* The members of a set of naturals have ranks. *)
LEMMA RankExists ==
    ASSUME NEW n \in Nat, NEW F \in SUBSET (0..n), NEW i \in Nat, i < Cardinality(F)
    PROVE  \E o \in F : Cardinality({x \in F : x < o}) = i
<1> DEFINE Below(o) == {x \in F : x < o}
           T == {o \in F : Cardinality(Below(o)) >= i}
<1>1. IsFiniteSet(0..n)
  BY FS_Interval
<1>2. \A G \in SUBSET F : IsFiniteSet(G) /\ Cardinality(G) \in Nat
  BY <1>1, FS_Subset, FS_CardinalityType
(* Without its greatest member a set has one less. *)
<1>3. ASSUME NEW G \in SUBSET F, G # {}
      PROVE  \E m \in G : /\ \A y \in G : m >= y
                          /\ Cardinality({x \in G : x < m}) = Cardinality(G) - 1
  <2>1. PICK m \in G : \A y \in G : m >= y
    BY <1>3, NatMax
  <2>2. \A y \in G : y \in Int
    OBVIOUS
  <2>3. {x \in G : x < m} = G \ {m}
    <3>1. ASSUME NEW x \in G PROVE x < m <=> x # m
      BY <2>1, <2>2
    <3> QED BY <3>1
  <2>4. Cardinality(G \ {m}) = Cardinality(G) - 1
    BY <1>2, FS_RemoveElement
  <2> QED BY <2>1, <2>3, <2>4
<1>4. F # {}
  <2>1. F = {} => Cardinality(F) = 0
    BY FS_EmptySet
  <2> QED BY <2>1
<1>5. T # {}
  <2>1. PICK m \in F : Cardinality(Below(m)) = Cardinality(F) - 1
    BY <1>3, <1>4
  <2>2. Cardinality(Below(m)) >= i
    BY <1>2, <2>1
  <2> QED BY <2>2
<1>6. T \in SUBSET Nat
  <2>1. F \subseteq Nat
    OBVIOUS
  <2> HIDE DEF Below
  <2> QED BY <2>1
<1> HIDE DEF T
<1>7. PICK o \in T : \A y \in T : o <= y
  BY <1>5, <1>6, NatMin
<1>8. o \in F /\ Cardinality(Below(o)) >= i /\ Below(o) \in SUBSET F
  BY DEF T
<1>9. ~(Cardinality(Below(o)) > i)
  <2>1. SUFFICES ASSUME Cardinality(Below(o)) > i PROVE FALSE
    OBVIOUS
  <2>2. Below(o) # {}
    <3>1. Below(o) = {} => Cardinality(Below(o)) = 0
      BY FS_EmptySet
    <3> QED BY <2>1, <3>1
  <2>3. PICK m \in Below(o) : /\ \A y \in Below(o) : m >= y
                              /\ Cardinality({x \in Below(o) : x < m}) = Cardinality(Below(o)) - 1
    <3> HIDE DEF Below
    <3> QED BY <1>3, <1>8, <2>2
  <2>4. m \in F /\ m < o /\ o \in Int /\ m \in Int
    BY <1>8
  <2>5. {x \in Below(o) : x < m} = Below(m)
    <3>1. ASSUME NEW x \in F PROVE (x < o /\ x < m) <=> x < m
      <4>1. x \in Int
        OBVIOUS
      <4> QED BY <2>4, <4>1
    <3> QED BY <3>1
  <2>6. Cardinality(Below(m)) >= i
    <3>1. Cardinality(Below(o)) \in Nat
      BY <1>2, <1>8
    <3> HIDE DEF Below
    <3> QED BY <2>1, <2>3, <2>5, <3>1
  <2>7. m \in T
    BY <2>4, <2>6 DEF T
  <2> QED BY <1>7, <2>4, <2>7
<1>10. Cardinality(Below(o)) = i
  <2>1. Cardinality(Below(o)) \in Nat
    BY <1>2, <1>8
  <2> HIDE DEF Below
  <2> QED BY <1>8, <1>9, <2>1
<1> QED BY <1>8, <1>10

LEMMA SlotsFree ==
    ASSUME NEW n \in Nat, Begin(n)
    PROVE  /\ \A i \in 1..n : Slot(i) \in Oid /\ heap[Slot(i)].type = "free"
           /\ \A i, j \in 1..n : Slot(i) = Slot(j) => i = j
<1> DEFINE Rank(o) == Cardinality({x \in FreeSlots : x < o})
<1>1. FreeSlots \in SUBSET (0..MaxObj) /\ MaxObj \in Nat
  BY BoundAssumption DEF FreeSlots, Oid
<1>2. Cardinality(FreeSlots) >= n /\ Cardinality(FreeSlots) \in Nat
  BY OidFinite DEF Begin, FreeSlots
<1>3. ASSUME NEW i \in 1..n PROVE Slot(i) \in FreeSlots /\ Rank(Slot(i)) = i - 1
  <2>1. i - 1 \in Nat /\ i - 1 < Cardinality(FreeSlots)
    BY <1>2
  <2>2. \E o \in FreeSlots : Rank(o) = i - 1
    BY <1>1, <2>1, RankExists
  <2> HIDE DEF Rank
  <2>3. Slot(i) = CHOOSE o \in FreeSlots : Rank(o) = i - 1
    BY DEF Slot, Rank
  <2> QED BY <2>2, <2>3
<1> HIDE DEF Rank
<1>4. \A i \in 1..n : Slot(i) \in Oid /\ heap[Slot(i)].type = "free"
  BY <1>3 DEF FreeSlots
<1>5. ASSUME NEW i \in 1..n, NEW j \in 1..n, Slot(i) = Slot(j) PROVE i = j
  <2>1. i - 1 = j - 1
    BY <1>3, <1>5
  <2> QED BY <2>1
<1> QED BY <1>4, <1>5
----------------------------------------------------------------------------
(* New objects *)

(* An object without contents. *)
Plain(obj) == Shaped(obj) /\ obj.ref = 1 /\ obj.elems = <<>> /\ obj.members = {}

LEMMA NewShapes ==
    /\ \A s \in Str : Plain(String(s)) /\ String(s).type = "string"
    /\ Plain(List(<<>>)) /\ List(<<>>).type = "list"
    /\ Plain(Set({})) /\ Set({}).type = "set"
<1>1. Dead \in Object /\ Dead.elems = <<>> /\ Dead.members = {}
  BY DeadShape DEF Shaped
<1>2. ASSUME NEW s \in Str
      PROVE  Plain(String(s)) /\ String(s).type = "string"
  <2>1. /\ String(s) \in Object /\ String(s).ref = 1 /\ String(s).type = "string" /\ String(s).str = s
        /\ String(s).elems = <<>> /\ String(s).members = {}
    BY <1>1 DEF String, Object
  <2> QED BY <2>1 DEF Plain, Shaped
<1>3. Plain(List(<<>>)) /\ List(<<>>).type = "list"
  <2>1. /\ List(<<>>) \in Object /\ List(<<>>).ref = 1 /\ List(<<>>).type = "list"
        /\ List(<<>>).elems = <<>> /\ List(<<>>).members = {}
    BY <1>1 DEF List, Object
  <2> QED BY <2>1 DEF Plain, Shaped
<1>4. Plain(Set({})) /\ Set({}).type = "set"
  <2>1. /\ Set({}) \in Object /\ Set({}).ref = 1 /\ Set({}).type = "set"
        /\ Set({}).elems = <<>> /\ Set({}).members = {}
    BY <1>1 DEF Set, Object
  <2> QED BY <2>1 DEF Plain, Shaped
<1> QED BY <1>2, <1>3, <1>4

(* What is free is nowhere. *)
LEMMA FreeNowhere ==
    ASSUME NEW h, NEW D, NEW r, NEW pend, Fine(h, D, r, pend), NEW o \in Oid, h[o].type = "free"
    PROVE  o \notin Owned(D) /\ o \notin Nodes(h) /\ SetsWith(h, o) = {} /\ ~IsStr(h, o)
<1>1. HeapOK(h) /\ DbOK(h, D)
  BY DEF Fine
<1>2. ~IsStr(h, o)
  BY DEF IsStr
<1>3. o \notin Owned(D)
  BY <1>1, <1>2 DEF DbOK, Owned
<1>4. o \notin Nodes(h) /\ SetsWith(h, o) = {}
  BY <1>1, <1>2 DEF HeapOK, Contents, Nodes, SetsWith
<1> QED BY <1>2, <1>3, <1>4

(* A new object is nowhere yet. *)
New(h, D, o) == o \in Oid /\ o \notin Owned(D) /\ o \notin Nodes(h) /\ SetsWith(h, o) = {}

Put(h, o, obj) == [h EXCEPT ![o] = obj]

(* Other objects are as they were, and new ones stay new. *)
SameBut(g, h, S) == \A x \in Oid \ S : g[x] = h[x]
NewStay(g, h, D) == \A x \in Oid : New(h, D, x) => New(g, D, x)

LEMMA FreshFine ==
    ASSUME NEW h, NEW D, NEW r, NEW pend, Fine(h, D, r, pend), NEW o \in Oid, h[o].type = "free",
           NEW obj, Plain(obj)
    PROVE  LET g == Put(h, o, obj) IN
           /\ Fine(g, D, r, Plus(pend, {o})) /\ g[o] = obj
           /\ SameBut(g, h, {o})
           /\ New(g, D, o) /\ NewStay(g, h, D)
<1> DEFINE g == Put(h, o, obj)
<1>1. Fine(g, D, r, Plus(pend, {o})) /\ g[o] = obj /\ \A x \in Oid \ {o} : g[x] = h[x]
  BY CreatedFine DEF Put, Plain
<1>2. h[o].elems = <<>> /\ h[o].members = {}
  <2>1. Shaped(h[o])
    BY FineType
  <2> QED BY <2>1, DeadShape DEF Shaped
<1> HIDE DEF g
<1>3. \A x \in Oid : g[x].elems = h[x].elems /\ g[x].members = h[x].members
  BY <1>1, <1>2 DEF Plain
<1>4. Nodes(g) = Nodes(h) /\ \A x : SetsWith(g, x) = SetsWith(h, x)
  BY <1>3 DEF Nodes, SetsWith
<1>5. New(h, D, o)
  BY FreeNowhere DEF New
<1>6. SameBut(g, h, {o}) /\ New(g, D, o) /\ NewStay(g, h, D)
  BY <1>1, <1>4, <1>5 DEF New, SameBut, NewStay
<1> QED BY <1>1, <1>6 DEF g

LEMMA OneGiven ==
    ASSUME KInv, Begin(1), NEW v \in Str
    PROVE  LET a == Slot(1)
               h == Given(<<v>>) IN
           /\ a \in Oid /\ heap[a].type = "free"
           /\ h = Put(heap, a, String(v))
           /\ IsStr(h, a) /\ h[a] = String(v) /\ \A x \in Oid \ {a} : h[x] = heap[x]
           /\ Fine(h, db, reply, Plus(None, {a})) /\ New(h, db, a)
<1> DEFINE a == Slot(1)
           h == Given(<<v>>)
<1>1. a \in Oid /\ heap[a].type = "free"
  BY SlotsFree
<1>2. Fine(heap, db, reply, None) /\ heap \in [Oid -> Object]
  BY FineType DEF KInv
<1>3. h = Put(heap, a, String(v))
  <2>1. \A o : (\E i \in DOMAIN <<v>> : o = Slot(i)) <=> o = a
    OBVIOUS
  <2>2. \A o : o = a => (CHOOSE i \in DOMAIN <<v>> : o = Slot(i)) = 1
    OBVIOUS
  <2> HIDE DEF a
  <2>3. h = [o \in Oid |-> IF o = a THEN String(v) ELSE heap[o]]
    BY <2>1, <2>2 DEF Given
  <2> QED BY <1>1, <1>2, <2>3 DEF Put
<1> HIDE DEF h, a
<1>4. Plain(String(v)) /\ String(v).type = "string"
  BY NewShapes
<1>5. /\ Fine(h, db, reply, Plus(None, {a})) /\ h[a] = String(v)
      /\ \A x \in Oid \ {a} : h[x] = heap[x]
      /\ New(h, db, a)
  <2> DEFINE s == String(v)
  <2>1. Plain(s) /\ h = Put(heap, a, s)
    BY <1>3, <1>4
  <2>2. Fine(heap, db, reply, None)
    BY <1>2
  <2> HIDE DEF s
  <2>3. /\ Fine(h, db, reply, Plus(None, {a})) /\ h[a] = s
        /\ SameBut(h, heap, {a})
        /\ New(h, db, a)
    <3>1. Plain(s) /\ a \in Oid /\ heap[a].type = "free" /\ Fine(heap, db, reply, None)
      BY <1>1, <2>1, <2>2
    <3>2. /\ Fine(Put(heap, a, s), db, reply, Plus(None, {a})) /\ Put(heap, a, s)[a] = s
          /\ SameBut(Put(heap, a, s), heap, {a})
          /\ New(Put(heap, a, s), db, a)
      BY <3>1, FreshFine
    <3> QED BY <2>1, <3>2
  <2> QED BY <2>3 DEF s, SameBut
<1>6. IsStr(h, a)
  BY <1>4, <1>5 DEF IsStr
<1> QED BY <1>1, <1>3, <1>5, <1>6 DEF h, a

LEMMA TwoGiven ==
    ASSUME KInv, NEW n \in {2, 3}, Begin(n), NEW k \in Str, NEW v \in Str
    PROVE  LET a == Slot(1)
               b == Slot(2)
               h == Given(<<k, v>>) IN
           /\ a \in Oid /\ heap[a].type = "free" /\ b \in Oid /\ heap[b].type = "free" /\ a # b
           /\ h[a] = String(k) /\ h[b] = String(v)
           /\ IsStr(h, a) /\ IsStr(h, b) /\ \A x \in Oid \ {a, b} : h[x] = heap[x]
           /\ Fine(h, db, reply, Plus(Plus(None, {a}), {b}))
           /\ New(h, db, a) /\ New(h, db, b)
<1> DEFINE a == Slot(1)
           b == Slot(2)
           h == Given(<<k, v>>)
           g == Put(heap, a, String(k))
           p == Plus(None, {a})
<1>1. a \in Oid /\ heap[a].type = "free" /\ b \in Oid /\ heap[b].type = "free" /\ a # b
  <2>1. n \in Nat /\ 1 \in 1..n /\ 2 \in 1..n
    OBVIOUS
  <2> QED BY <2>1, SlotsFree
<1>2. Fine(heap, db, reply, None) /\ heap \in [Oid -> Object]
  BY FineType DEF KInv
<1>3. h = Put(g, b, String(v))
  <2> DEFINE s == <<k, v>>
  <2>1. DOMAIN s = {1, 2} /\ s[1] = k /\ s[2] = v
    OBVIOUS
  <2> HIDE DEF s, a, b
  <2>2. \A o : (\E i \in DOMAIN s : o = Slot(i)) <=> o = a \/ o = b
    BY <2>1 DEF a, b
  <2>3. (CHOOSE i \in DOMAIN s : a = Slot(i)) = 1
    BY <1>1, <2>1 DEF a, b
  <2>4. (CHOOSE i \in DOMAIN s : b = Slot(i)) = 2
    BY <1>1, <2>1 DEF a, b
  <2>5. h = [o \in Oid |-> IF \E i \in DOMAIN s : o = Slot(i)
                           THEN String(s[CHOOSE i \in DOMAIN s : o = Slot(i)]) ELSE heap[o]]
    BY DEF Given, s
  <2>6. ASSUME NEW o \in Oid
        PROVE  h[o] = IF o = b THEN String(v) ELSE IF o = a THEN String(k) ELSE heap[o]
    <3>1. CASE o = a
      BY <1>1, <2>1, <2>2, <2>3, <2>5, <3>1
    <3>2. CASE o = b
      BY <1>1, <2>1, <2>2, <2>4, <2>5, <3>2
    <3>3. CASE o # a /\ o # b
      BY <2>2, <2>5, <3>3
    <3> QED BY <3>1, <3>2, <3>3
  <2>7. h = [o \in Oid |-> h[o]]
    BY <2>5
  <2> HIDE DEF h
  <2> QED BY <1>1, <1>2, <2>6, <2>7 DEF Put
<1> HIDE DEF h, a, b
<1>4. \A s \in Str : Plain(String(s)) /\ String(s).type = "string"
  BY NewShapes
<1>5. /\ Fine(g, db, reply, p) /\ g[a] = String(k)
      /\ \A x \in Oid \ {a} : g[x] = heap[x]
      /\ New(g, db, a)
  <2> DEFINE s == String(k)
  <2>1. Plain(s) /\ g = Put(heap, a, s)
    BY <1>4
  <2>2. Fine(heap, db, reply, None)
    BY <1>2
  <2> HIDE DEF s, g
  <2>3. /\ Fine(g, db, reply, Plus(None, {a})) /\ g[a] = s
        /\ SameBut(g, heap, {a})
        /\ New(g, db, a)
    BY <1>1, <2>1, <2>2, FreshFine
  <2> QED BY <2>3 DEF s, SameBut
<1> HIDE DEF g, p
<1>6. g[b].type = "free"
  BY <1>1, <1>5
<1>7. /\ Fine(h, db, reply, Plus(p, {b})) /\ h[b] = String(v)
      /\ \A x \in Oid \ {b} : h[x] = g[x]
      /\ New(h, db, b) /\ New(h, db, a)
  <2> DEFINE s == String(v)
  <2>1. Plain(s) /\ h = Put(g, b, s)
    BY <1>3, <1>4
  <2>2. b \in Oid /\ a \in Oid
    BY <1>1
  <2> HIDE DEF s
  <2>3. /\ Fine(h, db, reply, Plus(p, {b})) /\ h[b] = s
        /\ SameBut(h, g, {b}) /\ New(h, db, b) /\ NewStay(h, g, db)
    <3>1. Fine(g, db, reply, p)
      BY <1>5
    <3> QED BY <1>6, <2>1, <2>2, <3>1, FreshFine
  <2> QED BY <1>5, <2>2, <2>3 DEF s, SameBut, NewStay
<1>8. h[a] = String(k)
  BY <1>1, <1>5, <1>7
<1>9. IsStr(h, a) /\ IsStr(h, b)
  BY <1>4, <1>7, <1>8 DEF IsStr
<1>10. \A x \in Oid \ {a, b} : h[x] = heap[x]
  BY <1>5, <1>7
<1> QED BY <1>1, <1>7, <1>8, <1>9, <1>10 DEF h, a, b, p

----------------------------------------------------------------------------
(* Commands *)

LEMMA Settled ==
    ASSUME KInv, Fine(heap', db', reply', None), fate' = fate, Counted \/ Uncounted
    PROVE  KInv'
<1>1. dirty' \in 0..1 /\ fate' \in {"up", "aborted", "wild"}
  BY DEF KInv, Counted, Uncounted
<1> QED BY <1>1 DEF KInv

LEMMA AnswerKeeps ==
    ASSUME KInv, NEW h, NEW pend, Fine(h, db', reply, pend),
           NEW os \in Seq(Oid), AllStr(h, ToSet(os)),
           NEW S \in SUBSET Oid, \A x \in Oid : pend[x] = One(S, x),
           Answer(h, os, S), Counted \/ Uncounted
    PROVE  KInv'
<1>1. Fine(decrAll(Holding(h, os), S), db', reply \o os, None)
  BY AnsweredFine
<1>2. heap' = decrAll(Holding(h, os), S) /\ reply' = reply \o os /\ fate' = fate
  BY DEF Answer
<1> QED BY <1>1, <1>2, Settled

LEMMA EmptyAnswer ==
    ASSUME NEW h
    PROVE  <<>> \in Seq(Oid) /\ AllStr(h, ToSet(<<>>))
BY DEF AllStr, ToSet

LEMMA OneAnswer ==
    ASSUME NEW o \in Oid
    PROVE  /\ <<o>> \in Seq(Oid) /\ ToSet(<<o>>) = {o}
           /\ \A h : IsStr(h, o) => AllStr(h, ToSet(<<o>>))
<1>1. <<o>> \in Seq(Oid) /\ ToSet(<<o>>) = {o}
  BY DEF ToSet
<1> QED BY <1>1 DEF AllStr

(* A command that only answers, with strings of the data. *)
LEMMA ReadKeeps ==
    ASSUME KInv, SameKeys, Uncounted, NEW os \in Seq(Oid), AllStr(heap, ToSet(os)),
           Answer(heap, os, {})
    PROVE  KInv'
<1>1. Fine(heap, db', reply, None)
  BY DEF KInv, SameKeys
<1>2. \A x \in Oid : None[x] = One({}, x)
  BY DEF None, One
<1> QED BY <1>1, <1>2, AnswerKeeps

LEMMA NoneFine ==
    ASSUME NEW h, NEW D, NEW r, NEW pend, Fine(h, D, r, pend), \A x \in Oid : pend[x] = 0
    PROVE  Fine(h, D, r, None)
<1>1. None \in [Oid -> Int] /\ \A x \in Oid : pend[x] = None[x]
  BY DEF None
<1> QED BY <1>1, SamePending

LEMMA RebindFine ==
    ASSUME NEW h, NEW D, NEW r, NEW pend, Fine(h, D, r, pend), NEW d \in Db,
           NEW E \in SUBSET D[d], NEW k \in Oid, NEW v \in Oid,
           IsStr(h, k), h[v].type # "free", k # v,
           k \notin Owned(D) \/ k \in KeysOf(E) \union ValsOf(E),
           v \notin Owned(D) \/ v \in KeysOf(E) \union ValsOf(E)
    PROVE  Fine(h, [D EXCEPT ![d] = (@ \ E) \union {Entry(k, v)}], r,
                Minus(Plus(pend, KeysOf(E) \union ValsOf(E)), {k, v}))
<1> DEFINE W == KeysOf(E) \union ValsOf(E)
           D1 == Without(D, d, E)
           D2 == With(D1, d, Entry(k, v))
<1>1. Fine(h, D1, r, Plus(pend, W)) /\ Owned(D1) = Owned(D) \ W
  BY UnbindFine
<1>2. D2 = [D EXCEPT ![d] = (@ \ E) \union {Entry(k, v)}]
  <2>1. D \in [Db -> SUBSET Entries]
    BY FineType
  <2> QED BY <2>1 DEF Without, With
<1> HIDE DEF D1, W
<1>3. k \notin Owned(D1) /\ v \notin Owned(D1)
  BY <1>1 DEF W
<1>4. Fine(h, D2, r, Minus(Plus(pend, W), {k, v}))
  BY <1>1, <1>3, BindFine
<1> QED BY <1>2, <1>4 DEF W

LEMMA EntryFacts ==
    ASSUME KInv, NEW d \in Db, NEW e \in db[d]
    PROVE  /\ e.key \in Oid /\ e.val \in Oid /\ e.key # e.val
           /\ IsStr(heap, e.key) /\ heap[e.val].type # "free"
           /\ e.key \in Owned(db) /\ e.val \in Owned(db)
           /\ KeysOf({e}) \union ValsOf({e}) = {e.key, e.val}
<1>1. DbOK(heap, db)
  BY DEF KInv, Fine
<1>2. e \in Entries
  BY <1>1 DEF DbOK
<1>3. e.key \in Oid /\ e.val \in Oid
  BY <1>2 DEF Entries
<1>4. e.key # e.val /\ IsStr(heap, e.key) /\ heap[e.val].type # "free"
  BY <1>1 DEF DbOK
<1>5. e.key \in Owned(db) /\ e.val \in Owned(db)
  BY <1>3 DEF Owned
<1> QED BY <1>3, <1>4, <1>5 DEF KeysOf, ValsOf

(* SET and INCR of a key that exists replace its value by the new string. *)
LEMMA ReplacedFine ==
    ASSUME KInv, Begin(1), NEW d \in Db, NEW v \in Str, NEW e \in db[d],
           Rebind(d, {e}, {Entry(e.key, Slot(1))})
    PROVE  LET g == decrRefCount(Given(<<v>>), e.val) IN
           Fine(g, db', reply, None) /\ Slot(1) \in Oid /\ IsStr(g, Slot(1))
<1> DEFINE a == Slot(1)
           h == Given(<<v>>)
           P == Plus(None, {a})
           Q == Minus(Plus(P, {e.key, e.val}), {e.key, a})
           g == decrRefCount(h, e.val)
<1>1. /\ e.key \in Oid /\ e.val \in Oid /\ e.key # e.val
      /\ IsStr(heap, e.key) /\ heap[e.val].type # "free"
      /\ e.key \in Owned(db) /\ e.val \in Owned(db)
      /\ KeysOf({e}) \union ValsOf({e}) = {e.key, e.val}
  BY EntryFacts
<1>2. /\ a \in Oid /\ IsStr(h, a) /\ \A x \in Oid \ {a} : h[x] = heap[x]
      /\ Fine(h, db, reply, P) /\ New(h, db, a)
  BY OneGiven
<1> HIDE DEF h
<1>3. db' = [db EXCEPT ![d] = (@ \ {e}) \union {Entry(e.key, a)}]
  BY DEF Rebind
<1> HIDE DEF a
<1>4. /\ a # e.key /\ a # e.val /\ a \notin Owned(db)
      /\ h[a].type # "free" /\ IsStr(h, e.key)
  BY <1>1, <1>2 DEF New, IsStr
<1>5. Fine(h, db', reply, Q)
  <2>1. {e} \in SUBSET db[d]
    OBVIOUS
  <2>2. Fine(h, [db EXCEPT ![d] = (@ \ {e}) \union {Entry(e.key, a)}], reply,
             Minus(Plus(P, KeysOf({e}) \union ValsOf({e})), {e.key, a}))
    BY <1>1, <1>2, <1>4, <2>1, RebindFine
  <2> QED BY <1>1, <1>3, <2>2
<1>6. /\ Q[e.val] = 1
      /\ \A x \in Oid : Q[x] = One({e.val}, x)
  BY <1>1, <1>4 DEF Plus, Minus, None, One
<1> HIDE DEF Q
<1>7. Fine(g, db', reply, Minus(Q, {e.val})) /\ \A x \in Oid : g[x] = Dead \/ SameButRef(g[x], h[x])
  <2>1. ASSUME NEW x \in Contents(h, e.val) PROVE Q[x] >= 0
    <3>1. x \in Oid
      BY <1>1, <1>5, FineType
    <3> QED BY <1>6, <3>1 DEF One
  <2> QED BY <1>1, <1>5, <1>6, <2>1, DecrFine
<1>8. IsStr(g, a)
  <2>1. DbOK(g, db')
    BY <1>7 DEF Fine
  <2>2. Entry(e.key, a) \in db'[d]
    <3>1. db \in [Db -> SUBSET Entries]
      BY <1>2, FineType
    <3> QED BY <1>3, <3>1
  <2>3. g[a].type # "free"
    BY <2>1, <2>2 DEF DbOK, Entry
  <2> QED BY <1>2, <1>7, <2>3, DeadShape DEF IsStr, SameButRef
<1>9. Fine(g, db', reply, None)
  <2>1. \A x \in Oid : Minus(Q, {e.val})[x] = 0
    BY <1>6 DEF Minus, One
  <2> QED BY <1>7, <2>1, NoneFine
<1> QED BY <1>2, <1>8, <1>9 DEF g, h, a

(* SET and INCR of a new key. *)
LEMMA CreatedEntryFine ==
    ASSUME KInv, Begin(2), NEW d \in Db, NEW k \in Str, NEW v \in Str,
           Rebind(d, {}, {Entry(Slot(1), Slot(2))})
    PROVE  LET h == Given(<<k, v>>) IN
           /\ Fine(h, db', reply, None) /\ Slot(1) \in Oid /\ Slot(2) \in Oid /\ Slot(1) # Slot(2)
           /\ IsStr(h, Slot(1)) /\ IsStr(h, Slot(2))
<1> DEFINE a == Slot(1)
           b == Slot(2)
           h == Given(<<k, v>>)
           P == Plus(Plus(None, {a}), {b})
           W == KeysOf({}) \union ValsOf({})
           Q == Minus(Plus(P, W), {a, b})
<1>1. /\ a \in Oid /\ b \in Oid /\ a # b
      /\ IsStr(h, a) /\ IsStr(h, b) /\ Fine(h, db, reply, P)
      /\ New(h, db, a) /\ New(h, db, b)
  BY TwoGiven
<1>2. db' = [db EXCEPT ![d] = (@ \ {}) \union {Entry(a, b)}]
  BY DEF Rebind
<1> HIDE DEF h, a, b
<1>3. Fine(h, db', reply, Q)
  <2>1. {} \in SUBSET db[d] /\ a \notin Owned(db) /\ b \notin Owned(db) /\ h[b].type # "free"
    BY <1>1 DEF New, IsStr
  <2>2. Fine(h, [db EXCEPT ![d] = (@ \ {}) \union {Entry(a, b)}], reply, Q)
    BY <1>1, <2>1, RebindFine
  <2> QED BY <1>2, <2>2
<1>4. ASSUME NEW x \in Oid PROVE Q[x] = 0
  BY <1>1 DEF Plus, Minus, None, One, KeysOf, ValsOf
<1> HIDE DEF Q
<1>5. Fine(h, db', reply, None)
  BY <1>3, <1>4, NoneFine
<1> QED BY <1>1, <1>5 DEF h, a, b

LEMMA echoKeeps ==
    ASSUME KInv, NEW m \in Str, echoCommand(m)
    PROVE  KInv'
<1> DEFINE a == Slot(1)
           h == Given(<<m>>)
           os == Slots(1)
<1>1. Begin(1) /\ SameKeys /\ Uncounted /\ Answer(h, os, ToSet(os))
  BY DEF echoCommand
<1>2. a \in Oid /\ IsStr(h, a) /\ Fine(h, db, reply, Plus(None, {a}))
  BY <1>1, OneGiven
<1>3. os \in Seq(Oid) /\ ToSet(os) = {a}
  <2>1. os = <<a>>
    BY DEF Slots
  <2> HIDE DEF os
  <2> QED BY <1>2, <2>1 DEF ToSet
<1> HIDE DEF h, os, a
<1>4. AllStr(h, ToSet(os)) /\ ToSet(os) \in SUBSET Oid
  BY <1>2, <1>3 DEF AllStr
<1>5. \A x \in Oid : Plus(None, {a})[x] = One(ToSet(os), x)
  BY <1>3 DEF Plus, None, One
<1>6. Fine(h, db', reply, Plus(None, {a}))
  BY <1>1, <1>2 DEF SameKeys
<1> QED BY <1>1, <1>3, <1>4, <1>5, <1>6, AnswerKeeps

LEMMA setGenericKeeps ==
    ASSUME KInv, NEW d \in Db, NEW k \in Str, NEW v \in Str, NEW nx,
           setGenericCommand(d, k, v, nx)
    PROVE  KInv'
<1> DEFINE a == Slot(1)
           b == Slot(2)
<1>1. Slots(2)[1] = a /\ Slots(2)[2] = b /\ Slots(1)[1] = a
  BY DEF Slots
<1>2. CASE /\ Begin(2) /\ Counted
           /\ Rebind(d, {}, {Entry(a, b)})
           /\ Answer(Up(Given(<<k, v>>), {a, b}), <<>>, {a, b})
  <2> DEFINE h == Given(<<k, v>>)
  <2>1. /\ Fine(h, db', reply, None) /\ a \in Oid /\ b \in Oid
        /\ IsStr(h, a) /\ IsStr(h, b)
    BY <1>2, CreatedEntryFine
  <2> HIDE DEF h, a, b
  <2>2. Fine(Up(h, {a, b}), db', reply, Plus(None, {a, b}))
    BY <2>1, UpFine DEF IsStr
  <2>3. ASSUME NEW x \in Oid PROVE Plus(None, {a, b})[x] = One({a, b}, x)
    BY DEF Plus, None, One
  <2> QED BY <1>2, <2>1, <2>2, <2>3, EmptyAnswer, AnswerKeeps DEF h
<1>3. ASSUME Begin(1), Counted, NEW e \in Named(d, k),
             Rebind(d, {e}, {Entry(e.key, a)}),
             Answer(incrRefCount(decrRefCount(Given(<<v>>), e.val), a), <<>>, {a})
      PROVE  KInv'
  <2> DEFINE g == decrRefCount(Given(<<v>>), e.val)
  <2>1. Fine(g, db', reply, None) /\ a \in Oid /\ IsStr(g, a)
    BY <1>3, ReplacedFine DEF Named
  <2> HIDE DEF g, a
  <2>2. Fine(Up(g, {a}), db', reply, Plus(None, {a}))
    BY <2>1, UpFine DEF IsStr
  <2>3. ASSUME NEW x \in Oid PROVE Plus(None, {a})[x] = One({a}, x)
    BY DEF Plus, None, One
  <2> QED BY <1>3, <2>1, <2>2, <2>3, EmptyAnswer, AnswerKeeps DEF incrRefCount, g
<1> QED BY <1>1, <1>2, <1>3 DEF setGenericCommand

LEMMA getKeeps ==
    ASSUME KInv, NEW d \in Db, NEW k, getCommand(d, k)
    PROVE  KInv'
<1>1. PICK e \in Typed(d, k, "string") : Answer(heap, <<e.val>>, {})
  BY DEF getCommand
<1>2. e \in db[d] /\ heap[e.val].type = "string"
  BY DEF Typed, Named
<1>3. e.val \in Oid /\ IsStr(heap, e.val)
  BY <1>2, EntryFacts DEF IsStr
<1>4. SameKeys /\ Uncounted
  BY DEF getCommand
<1> QED BY <1>1, <1>3, <1>4, OneAnswer, ReadKeeps

LEMMA incrDecrKeeps ==
    ASSUME KInv, NEW d \in Db, NEW k \in Str, incrDecrCommand(d, k)
    PROVE  KInv'
<1> DEFINE a == Slot(1)
           b == Slot(2)
           old == {heap[e.val].str : e \in Typed(d, k, "string")}
           new == Bumped[IF old = {} THEN Nil ELSE CHOOSE s \in old : TRUE]
<1>1. Slots(2)[1] = a /\ Slots(2)[2] = b
  BY DEF Slots
<1>2. new \in Str
  <2>1. \A e \in Typed(d, k, "string") : heap[e.val].str \in Str
    <3> TAKE e \in Typed(d, k, "string")
    <3>1. e \in db[d] /\ heap[e.val].type = "string"
      BY DEF Typed, Named
    <3>2. Shaped(heap[e.val])
      BY <3>1, EntryFacts, FineType DEF KInv
    <3> QED BY <3>1, <3>2 DEF Shaped
  <2> QED BY <2>1, BumpedAssumption
<1> HIDE DEF new
<1>3. CASE /\ Begin(2) /\ Counted
           /\ Rebind(d, {}, {Entry(a, b)})
           /\ Answer(incrRefCount(Given(<<k, new>>), a), <<b>>, {a})
  <2> DEFINE h == Given(<<k, new>>)
  <2>1. /\ Fine(h, db', reply, None) /\ a \in Oid /\ b \in Oid
        /\ IsStr(h, a) /\ IsStr(h, b)
    BY <1>2, <1>3, CreatedEntryFine
  <2> HIDE DEF h, a, b
  <2>2. Fine(Up(h, {a}), db', reply, Plus(None, {a})) /\ IsStr(Up(h, {a}), b)
    <3>1. /\ Fine(Up(h, {a}), db', reply, Plus(None, {a}))
          /\ \A o \in Oid : SameButRef(Up(h, {a})[o], h[o])
      BY <2>1, UpFine DEF IsStr
    <3> QED BY <2>1, <3>1 DEF IsStr, SameButRef
  <2>3. ASSUME NEW x \in Oid PROVE Plus(None, {a})[x] = One({a}, x)
    BY DEF Plus, None, One
  <2> QED BY <1>3, <2>1, <2>2, <2>3, OneAnswer, AnswerKeeps, ZenonT(60) DEF incrRefCount, h
<1>4. ASSUME Begin(1), Counted, NEW e \in Named(d, k),
             Rebind(d, {e}, {Entry(e.key, a)}),
             Answer(decrRefCount(Given(<<new>>), e.val), <<a>>, {})
      PROVE  KInv'
  <2> DEFINE g == decrRefCount(Given(<<new>>), e.val)
  <2>1. Fine(g, db', reply, None) /\ a \in Oid /\ IsStr(g, a)
    BY <1>2, <1>4, ReplacedFine DEF Named
  <2> HIDE DEF g, a
  <2>2. ASSUME NEW x \in Oid PROVE None[x] = One({}, x)
    BY DEF None, One
  <2> QED BY <1>4, <2>1, <2>2, OneAnswer, AnswerKeeps DEF g
<1> QED BY <1>1, <1>3, <1>4 DEF incrDecrCommand, new

LEMMA delKeeps ==
    ASSUME KInv, NEW d \in Db, NEW k, delCommand(d, k)
    PROVE  KInv'
<1>1. PICK e \in Named(d, k) : Rebind(d, {e}, {}) /\ Answer(heap, <<>>, {e.key, e.val})
  BY DEF delCommand
<1>2. Counted /\ e \in db[d]
  BY DEF delCommand, Named
<1> DEFINE W == {e.key, e.val}
<1>3. W \in SUBSET Oid /\ KeysOf({e}) \union ValsOf({e}) = W
  BY <1>2, EntryFacts
<1>4. Fine(heap, db, reply, None)
  BY DEF KInv
<1>5. Fine(heap, db', reply, Plus(None, W))
  <2>1. {e} \in SUBSET db[d]
    BY <1>2
  <2>2. Fine(heap, Without(db, d, {e}), reply, Plus(None, W))
    BY <1>3, <1>4, <2>1, UnbindFine
  <2>3. db' = Without(db, d, {e})
    <3>1. db \in [Db -> SUBSET Entries]
      BY <1>4, FineType
    <3> QED BY <1>1, <3>1 DEF Rebind, Without
  <2> QED BY <2>2, <2>3
<1>6. ASSUME NEW x \in Oid PROVE Plus(None, W)[x] = One(W, x)
  BY DEF Plus, None, One
<1> HIDE DEF W
<1>7. Answer(heap, <<>>, W)
  BY <1>1 DEF W
<1> QED BY <1>2, <1>3, <1>5, <1>6, <1>7, EmptyAnswer, AnswerKeeps

(* An entry moves to another database. *)
LEMMA RestoredFine ==
    ASSUME NEW h, NEW D, NEW r, NEW pend, Fine(h, D, r, pend), NEW d \in Db, NEW to \in Db,
           NEW E \in SUBSET D[d], NEW k \in Oid, NEW v \in Oid, IsStr(h, k), h[v].type # "free",
           k # v, NEW W, KeysOf(E) \union ValsOf(E) = W, {k, v} = W
    PROVE  Fine(h, With(Without(D, d, E), to, Entry(k, v)), r, Minus(Plus(pend, W), W))
<1> DEFINE V == KeysOf(E) \union ValsOf(E)
           D1 == Without(D, d, E)
<1>1. Fine(h, D1, r, Plus(pend, V)) /\ Owned(D1) = Owned(D) \ V
  BY UnbindFine
<1>2. V = W
  OBVIOUS
<1> HIDE DEF D1, V
<1>3. k \notin Owned(D1) /\ v \notin Owned(D1)
  BY <1>1, <1>2
<1>4. Fine(h, With(D1, to, Entry(k, v)), r, Minus(Plus(pend, V), {k, v}))
  BY <1>1, <1>3, BindFine
<1> QED BY <1>2, <1>4 DEF D1

LEMMA moveKeeps ==
    ASSUME KInv, NEW d \in Db, NEW to \in Db, NEW k, moveCommand(d, k, to)
    PROVE  KInv'
<1>1. PICK e \in Named(d, k) :
         /\ db' = [db EXCEPT ![d] = @ \ {e}, ![to] = @ \union {e}]
         /\ Answer(Up(heap, {e.key, e.val}), <<>>, {e.key, e.val})
  BY DEF moveCommand
<1>2. Counted /\ d # to /\ e \in db[d]
  BY DEF moveCommand, Named
<1> DEFINE W == {e.key, e.val}
           D == Without(db, d, {e})
           P == Plus(None, W)
           Q == Minus(P, W)
<1>3. /\ W \in SUBSET Oid /\ KeysOf({e}) \union ValsOf({e}) = W
      /\ e.key \in Oid /\ e.val \in Oid /\ e.key # e.val
      /\ IsStr(heap, e.key) /\ heap[e.val].type # "free"
  BY <1>2, EntryFacts
<1>4. Fine(heap, db, reply, None) /\ db \in [Db -> SUBSET Entries]
  BY FineType DEF KInv
<1>5. Fine(heap, With(D, to, Entry(e.key, e.val)), reply, Q)
  <2>1. {e} \in SUBSET db[d]
    BY <1>2
  <2> HIDE DEF W, P, Q, D
  <2>2. /\ Fine(heap, db, reply, None)
        /\ e.key \in Oid /\ e.val \in Oid /\ e.key # e.val
        /\ IsStr(heap, e.key) /\ heap[e.val].type # "free"
        /\ KeysOf({e}) \union ValsOf({e}) = W /\ {e.key, e.val} = W
    BY <1>3, <1>4 DEF W
  <2> DEFINE k0 == e.key
             v0 == e.val
             E == {e}
  <2>3. Fine(heap, With(Without(db, d, E), to, Entry(k0, v0)), reply, Minus(Plus(None, W), W))
    <3> HIDE DEF k0, v0, E
    <3>1. /\ Fine(heap, db, reply, None)
          /\ k0 \in Oid /\ v0 \in Oid /\ k0 # v0
          /\ IsStr(heap, k0) /\ heap[v0].type # "free"
          /\ KeysOf(E) \union ValsOf(E) = W /\ {k0, v0} = W /\ E \in SUBSET db[d]
      BY <2>1, <2>2 DEF k0, v0, E
    <3> QED BY <3>1, RestoredFine
  <2> QED BY <2>3 DEF D, P, Q
<1>6. db' = With(D, to, Entry(e.key, e.val))
  <2>1. Entry(e.key, e.val) = e
    BY <1>2, <1>4 DEF Entry, Entries
  <2> QED BY <1>1, <1>2, <1>4, <2>1 DEF With, Without
<1> HIDE DEF D, W
<1>8. ASSUME NEW x \in Oid PROVE Plus(Q, W)[x] = One(W, x)
  BY DEF Plus, Minus, None, One
<1>9. Fine(Up(heap, W), db', reply, Plus(Q, W))
  <2>1. \A o \in W : heap[o].type # "free"
    BY <1>3 DEF W, IsStr
  <2> QED BY <1>3, <1>5, <1>6, <2>1, UpFine
<1>10. Answer(Up(heap, W), <<>>, W)
  BY <1>1 DEF W
<1> HIDE DEF Q
<1> QED BY <1>2, <1>3, <1>8, <1>9, <1>10, EmptyAnswer, AnswerKeeps

LEMMA randomkeyKeeps ==
    ASSUME KInv, NEW d \in Db, randomkeyCommand(d)
    PROVE  KInv'
<1>1. PICK e \in db[d] : Answer(heap, <<e.key>>, {})
  BY DEF randomkeyCommand
<1>2. e.key \in Oid /\ IsStr(heap, e.key)
  BY EntryFacts
<1>3. SameKeys /\ Uncounted
  BY DEF randomkeyCommand
<1> QED BY <1>1, <1>2, <1>3, OneAnswer, ReadKeeps

(* What a walk returns. *)
LEMMA WalkAnswer ==
    ASSUME NEW S \in SUBSET Oid, NEW os \in BoundedSeq(S, MaxAnswer), NEW h, AllStr(h, S)
    PROVE  os \in Seq(Oid) /\ AllStr(h, ToSet(os))
<1>1. os \in Seq(S)
  <2>1. MaxAnswer \in Nat
    BY BoundAssumption
  <2>2. os \in UNION {[1..m -> S] : m \in 0..MaxAnswer}
    BY DEF BoundedSeq, SeqOf
  <2>3. PICK m \in 0..MaxAnswer : os \in [1..m -> S]
    BY <2>2
  <2> QED BY <2>1, <2>3
<1>2. ToSet(os) \subseteq S
  BY <1>1 DEF ToSet
<1>3. os \in Seq(Oid)
  BY <1>1
<1> QED BY <1>2, <1>3 DEF AllStr

LEMMA keysKeeps ==
    ASSUME KInv, NEW d \in Db, keysCommand(d)
    PROVE  KInv'
<1> DEFINE S == {e.key : e \in db[d]}
<1>1. PICK os \in Walks(S) : Answer(heap, os, {})
  BY DEF keysCommand
<1>2. S \in SUBSET Oid /\ AllStr(heap, S)
  BY EntryFacts DEF AllStr
<1> HIDE DEF S
<1>3. os \in Seq(Oid) /\ AllStr(heap, ToSet(os))
  <2>1. os \in BoundedSeq(S, MaxAnswer)
    BY DEF Walks
  <2> QED BY <1>2, <2>1, WalkAnswer
<1>4. SameKeys /\ Uncounted
  BY DEF keysCommand
<1> QED BY <1>1, <1>3, <1>4, ReadKeeps

LEMMA EmptiedKeeps ==
    ASSUME KInv, NEW C \in SUBSET Db, Emptied(C)
    PROVE  KInv'
<1> DEFINE gone == UNION {db[d] : d \in C}
           W == KeysOf(gone) \union ValsOf(gone)
<1>1. /\ Uncounted /\ db' = [d \in Db |-> IF d \in C THEN {} ELSE db[d]]
      /\ Answer(heap, <<>>, W)
  BY DEF Emptied, KeysOf, ValsOf
<1>2. /\ Fine(heap, db, reply, None) /\ db \in [Db -> SUBSET Entries] /\ DbOK(heap, db)
  BY FineType DEF KInv, Fine
<1>3. \A e \in gone : \E d \in C : e \in db[d]
  OBVIOUS
<1>4. \A e \in gone : e.key \in Oid /\ e.val \in Oid
  BY <1>3, EntryFacts
<1> HIDE DEF gone
<1>5. W \in SUBSET Oid
  BY <1>4 DEF KeysOf, ValsOf
<1>6. Owned(db) \ Owned(db') = W
  <2>1. ASSUME NEW x \in W PROVE x \in Owned(db) /\ x \notin Owned(db')
    <3>1. PICK e \in gone : x = e.key \/ x = e.val
      BY DEF KeysOf, ValsOf
    <3>2. PICK d \in C : e \in db[d]
      BY <1>3
    <3>3. x \in Owned(db)
      BY <1>5, <3>1, <3>2 DEF Owned
    <3>4. ASSUME NEW c \in Db, NEW f \in db'[c] PROVE x # f.key /\ x # f.val
      <4>1. c \notin C /\ f \in db[c]
        BY <1>1
      <4>2. c # d
        BY <3>2, <4>1
      <4> QED BY <1>2, <3>1, <3>2, <4>1, <4>2 DEF DbOK
    <3> QED BY <3>3, <3>4 DEF Owned
  <2>2. ASSUME NEW x \in Owned(db), x \notin Owned(db') PROVE x \in W
    <3>1. PICK d \in Db : \E e \in db[d] : x = e.key \/ x = e.val
      BY DEF Owned
    <3>2. PICK e \in db[d] : x = e.key \/ x = e.val
      BY <3>1
    <3>3. e \notin db'[d]
      BY <2>2, <3>2 DEF Owned
    <3>4. d \in C
      BY <1>1, <3>3
    <3>5. e \in gone
      BY <3>4 DEF gone
    <3> QED BY <3>2, <3>5 DEF KeysOf, ValsOf
  <2> QED BY <2>1, <2>2
<1>7. Fine(heap, db', reply, Plus(None, W))
  <2>1. db' \in [Db -> SUBSET Entries] /\ \A d \in Db : db'[d] \subseteq db[d]
    BY <1>1, <1>2
  <2> HIDE DEF W
  <2> QED BY <1>2, <1>6, <2>1, UnboundFine
<1> HIDE DEF W
<1>8. ASSUME NEW x \in Oid PROVE Plus(None, W)[x] = One(W, x)
  BY DEF Plus, None, One
<1> QED BY <1>1, <1>5, <1>7, <1>8, EmptyAnswer, AnswerKeeps

(* The memory of a process that starts. *)
LEMMA StartFine ==
    Fine(NoObjects, Nothing, <<>>, None)
<1>1. /\ \A o \in Oid : NoObjects[o] = Dead
      /\ Shaped(Dead) /\ Dead.ref = 0 /\ Dead.elems = <<>> /\ Dead.members = {}
      /\ Dead \in Object
  BY DeadShape DEF NoObjects, Shaped
<1>2. NoObjects \in [Oid -> Object]
  BY <1>1 DEF NoObjects
<1>3. \A o \in Oid : ToSet(NoObjects[o].elems) = {} /\ NoObjects[o].members = {}
  BY <1>1 DEF ToSet
<1>4. HeapOK(NoObjects)
  <2>1. \A o \in Oid : Contents(NoObjects, o) = {}
    BY <1>3 DEF Contents
  <2>2. IsInjective(<<>>)
    BY DEF IsInjective
  <2> QED BY <1>1, <1>2, <1>3, <2>1, <2>2 DEF HeapOK
<1>5. DbOK(NoObjects, Nothing)
  BY DEF DbOK, Nothing
<1>6. ReplyOK(NoObjects, <<>>)
  BY DEF ReplyOK
<1>7. Exact(NoObjects, Nothing, <<>>, None)
  <2>1. ASSUME NEW x \in Oid PROVE NoObjects[x].ref = Held(NoObjects, Nothing, <<>>, x) + None[x]
    <3>1. /\ One(Owned(Nothing), x) = 0 /\ One(Nodes(NoObjects), x) = 0
          /\ SetsWith(NoObjects, x) = {} /\ Spots(<<>>, x) = {}
      BY <1>3 DEF Owned, Nothing, Nodes, SetsWith, Spots, One
    <3>2. Cardinality({}) = 0
      BY FS_EmptySet
    <3>3. Held(NoObjects, Nothing, <<>>, x) = 0 + 0 + 0 + 0
      BY <3>1, <3>2 DEF Held
    <3> QED BY <1>1, <3>3 DEF None
  <2>2. None \in [Oid -> Int]
    BY DEF None
  <2> QED BY <2>1, <2>2 DEF Exact
<1> QED BY <1>4, <1>5, <1>6, <1>7 DEF Fine

LEMMA EndsKeeps ==
    ASSUME NEW how \in {"aborted", "wild"}, Ends(how)
    PROVE  KInv'
<1>1. Fine(heap', db', reply', None) /\ dirty' \in 0..1 /\ fate' \in {"up", "aborted", "wild"}
  BY StartFine DEF Ends
<1> QED BY <1>1 DEF KInv

LEMMA sendReplyKeeps ==
    ASSUME KInv, sendReplyToClient
    PROVE  KInv'
<1> DEFINE o == Head(reply)
           P == Plus(None, {o})
<1>1. /\ reply # <<>> /\ reply' = Tail(reply) /\ heap' = decrRefCount(heap, o)
      /\ db' = db /\ dirty' = dirty /\ fate' = fate
  BY DEF sendReplyToClient
<1>2. Fine(heap, db, reply', P) /\ o \in Oid
  BY <1>1, SentFine DEF KInv
<1> HIDE DEF o
<1>3. \A x \in Oid : P[x] = One({o}, x)
  BY DEF Plus, None, One
<1>4. P[o] >= 1 /\ \A x \in Contents(heap, o) : P[x] >= 0
  <2>1. Contents(heap, o) \subseteq Oid
    BY <1>2, FineType
  <2> QED BY <1>2, <1>3, <2>1 DEF One
<1> HIDE DEF P
<1>5. Fine(heap', db', reply', Minus(P, {o}))
  <2>1. Fine(decrRefCount(heap, o), db, reply', Minus(P, {o}))
    BY <1>2, <1>4, DecrFine
  <2> QED BY <1>1, <2>1
<1>6. Fine(heap', db', reply', None)
  <2>1. \A x \in Oid : Minus(P, {o})[x] = 0
    BY <1>3 DEF Minus, One
  <2> QED BY <1>5, <2>1, NoneFine
<1> QED BY <1>1, <1>6, Settled DEF Uncounted

(* RENAME to a key that exists: a value gains a reference and another one   *)
(* loses one.                                                               *)
Swap(Q, W, v, w) == \A x \in Oid : Q[x] + One({v}, x) = One(W, x) + One({w}, x)

LEMMA SwappedKeeps ==
    ASSUME KInv, NEW Q, Fine(heap, db', reply, Q), NEW v \in Oid, heap[v].type # "free",
           NEW w \in Oid, NEW W \in SUBSET Oid,
           Swap(Q, W, v, w),
           Answer(decrRefCount(incrRefCount(heap, v), w), <<>>, W), Counted
    PROVE  KInv'
<1> DEFINE g == Up(heap, {v})
           R == Plus(Q, {v})
           g2 == decrRefCount(g, w)
<1>1. Fine(g, db', reply, R)
  BY UpFine
<1>2. ASSUME NEW x \in Oid PROVE R[x] = One(W, x) + One({w}, x)
  <2>1. R[x] = Q[x] + One({v}, x)
    BY DEF Plus
  <2> QED BY <2>1 DEF Swap
<1> HIDE DEF g, R
<1>3. ASSUME NEW x \in Oid PROVE R[x] \in Nat /\ (x = w => R[x] >= 1)
  BY <1>2 DEF One
<1>4. \A x \in Contents(g, w) : R[x] >= 0
  <2>1. Contents(g, w) \subseteq Oid
    BY <1>1, FineType
  <2> QED BY <1>3, <2>1
<1>5. Fine(g2, db', reply, Minus(R, {w}))
  BY <1>1, <1>3, <1>4, DecrFine
<1>6. ASSUME NEW x \in Oid PROVE Minus(R, {w})[x] = One(W, x)
  <2>1. R[x] = One(W, x) + One({w}, x) /\ Minus(R, {w})[x] = R[x] - One({w}, x)
    BY <1>2 DEF Minus
  <2> QED BY <2>1 DEF One
<1>7. Answer(g2, <<>>, W)
  BY DEF g, incrRefCount
<1> HIDE DEF g2
<1> QED BY <1>5, <1>6, <1>7, EmptyAnswer, AnswerKeeps

LEMMA renameKeeps ==
    ASSUME KInv, NEW d \in Db, NEW k \in Str, NEW l \in Str, NEW nx,
           renameGenericCommand(d, k, l, nx)
    PROVE  KInv'
<1> DEFINE a == Slot(1)
<1>1. ASSUME NEW e \in Named(d, k), Begin(1), Counted,
             Rebind(d, {e}, {Entry(a, e.val)}),
             Answer(Up(Given(<<l>>), {e.val, a}), <<>>, {e.key, e.val, a})
      PROVE  KInv'
  <2> DEFINE h == Given(<<l>>)
             k0 == e.key
             v0 == e.val
             E == {e}
             P == Plus(None, {a})
             Q == Minus(Plus(P, {k0, v0}), {a, v0})
             R == Plus(Q, {v0, a})
  <2>1. /\ k0 \in Oid /\ v0 \in Oid /\ k0 # v0 /\ heap[v0].type # "free"
        /\ k0 \in Owned(db) /\ v0 \in Owned(db)
        /\ KeysOf(E) \union ValsOf(E) = {k0, v0} /\ E \in SUBSET db[d]
    <3>1. e \in db[d]
      BY DEF Named
    <3> QED BY <3>1, EntryFacts
  <2>2. /\ a \in Oid /\ IsStr(h, a) /\ \A x \in Oid \ {a} : h[x] = heap[x]
        /\ Fine(h, db, reply, P) /\ New(h, db, a)
    BY <1>1, OneGiven
  <2>3. db' = [db EXCEPT ![d] = (@ \ E) \union {Entry(a, v0)}]
    BY <1>1 DEF Rebind
  <2>4. Answer(Up(h, {v0, a}), <<>>, {k0, v0, a})
    BY <1>1
  <2> HIDE DEF h, a, E, k0, v0
  <2>5. /\ a # k0 /\ a # v0 /\ a \notin Owned(db) /\ h[v0].type # "free" /\ h[a].type # "free"
    BY <2>1, <2>2 DEF New, IsStr
  <2>6. Fine(h, db', reply, Q)
    <3>1. Fine(h, [db EXCEPT ![d] = (@ \ E) \union {Entry(a, v0)}], reply,
               Minus(Plus(P, KeysOf(E) \union ValsOf(E)), {a, v0}))
      BY <2>1, <2>2, <2>5, RebindFine
    <3> QED BY <2>1, <2>3, <3>1
  <2>7. ASSUME NEW x \in Oid PROVE R[x] = One({k0, v0, a}, x)
    BY <2>1, <2>5 DEF Plus, Minus, None, One
  <2> HIDE DEF Q
  <2>8. Fine(Up(h, {v0, a}), db', reply, R)
    BY <2>1, <2>2, <2>5, <2>6, UpFine
  <2> HIDE DEF R
  <2>9. {k0, v0, a} \in SUBSET Oid
    BY <2>1, <2>2
  <2> QED BY <1>1, <2>4, <2>7, <2>8, <2>9, EmptyAnswer, AnswerKeeps
<1>2. ASSUME NEW e \in Named(d, k), NEW f \in Named(d, l), Counted,
             Rebind(d, {e, f}, IF e = f THEN {} ELSE {Entry(f.key, e.val)}),
             Answer(decrRefCount(incrRefCount(heap, e.val), f.val), <<>>, {e.key, e.val})
      PROVE  KInv'
  <2>1. e \in db[d] /\ f \in db[d] /\ Fine(heap, db, reply, None)
    BY DEF Named, KInv
  <2> DEFINE k0 == e.key
             v0 == e.val
             k1 == f.key
             v1 == f.val
             E == {e, f}
  <2>2. /\ k0 \in Oid /\ v0 \in Oid /\ k0 # v0 /\ heap[v0].type # "free"
        /\ k1 \in Oid /\ v1 \in Oid /\ k1 # v1 /\ IsStr(heap, k1)
        /\ KeysOf(E) \union ValsOf(E) = {k0, v0, k1, v1}
    <3>1. KeysOf(E) \union ValsOf(E) = {e.key, e.val, f.key, f.val}
      BY DEF KeysOf, ValsOf
    <3> QED BY <2>1, <3>1, EntryFacts
  <2>3. E \in SUBSET db[d]
    BY <2>1
  <2>4. CASE e = f
    <3> DEFINE Q == Plus(None, {k0, v0})
    <3>1. v0 = v1 /\ k0 = k1
      BY <2>4
    <3>2. db' = Without(db, d, E)
      <4>1. db \in [Db -> SUBSET Entries]
        BY <2>1, FineType
      <4> QED BY <1>2, <2>4, <4>1 DEF Rebind, Without
    <3>3. Answer(decrRefCount(incrRefCount(heap, v0), v0), <<>>, {k0, v0})
      BY <1>2, <3>1
    <3>4. KeysOf(E) \union ValsOf(E) = {k0, v0}
      BY <2>2, <3>1
    <3> HIDE DEF E, k0, v0, k1, v1
    <3>5. Fine(heap, db', reply, Q)
      <4>1. Fine(heap, Without(db, d, E), reply, Plus(None, KeysOf(E) \union ValsOf(E)))
        BY <2>1, <2>3, UnbindFine
      <4> QED BY <3>2, <3>4, <4>1
    <3>6. ASSUME NEW x \in Oid PROVE Q[x] + One({v0}, x) = One({k0, v0}, x) + One({v0}, x)
      BY DEF Plus, None, One
    <3> HIDE DEF Q
    <3> DEFINE W == {k0, v0}
    <3>7. /\ W \in SUBSET Oid /\ v0 \in Oid /\ heap[v0].type # "free" /\ Counted
          /\ Swap(Q, W, v0, v0) /\ Answer(decrRefCount(incrRefCount(heap, v0), v0), <<>>, W)
      BY <1>2, <2>2, <3>3, <3>6 DEF Swap
    <3> HIDE DEF W
    <3> QED BY <3>5, <3>7, SwappedKeeps
  <2>5. CASE e # f
    <3> DEFINE Q == Minus(Plus(None, {k0, v0, k1, v1}), {k1, v0})
    <3>1. k0 # v1 /\ k0 # k1 /\ v0 # v1 /\ v0 # k1
      BY <2>1, <2>5 DEF Fine, DbOK
    <3>2. db' = [db EXCEPT ![d] = (@ \ E) \union {Entry(k1, v0)}]
      BY <1>2, <2>5 DEF Rebind
    <3>3. Answer(decrRefCount(incrRefCount(heap, v0), v1), <<>>, {k0, v0})
      BY <1>2
    <3> HIDE DEF E, k0, v0, k1, v1
    <3>4. Fine(heap, db', reply, Q)
      <4>1. Fine(heap, [db EXCEPT ![d] = (@ \ E) \union {Entry(k1, v0)}], reply,
                 Minus(Plus(None, KeysOf(E) \union ValsOf(E)), {k1, v0}))
        BY <2>1, <2>2, <2>3, <3>1, RebindFine
      <4> QED BY <2>2, <3>2, <4>1
    <3>5. ASSUME NEW x \in Oid PROVE Q[x] + One({v0}, x) = One({k0, v0}, x) + One({v1}, x)
      BY <2>2, <3>1 DEF Plus, Minus, None, One
    <3> HIDE DEF Q
    <3> DEFINE W == {k0, v0}
    <3>6. /\ W \in SUBSET Oid /\ v0 \in Oid /\ v1 \in Oid /\ heap[v0].type # "free" /\ Counted
          /\ Swap(Q, W, v0, v1) /\ Answer(decrRefCount(incrRefCount(heap, v0), v1), <<>>, W)
      BY <1>2, <2>2, <3>3, <3>5 DEF Swap
    <3> HIDE DEF W
    <3> QED BY <3>4, <3>6, SwappedKeeps
  <2> QED BY <2>4, <2>5
<1> QED BY <1>1, <1>2 DEF renameGenericCommand

----------------------------------------------------------------------------
(* Lists and sets that grow *)

Exactly(P, S) == \A x \in Oid : P[x] = One(S, x)

LEMMA AppendFacts ==
    ASSUME NEW es \in Seq(Oid), IsInjective(es), NEW a \in Oid, a \notin ToSet(es)
    PROVE  /\ Append(es, a) \in Seq(Oid) /\ IsInjective(Append(es, a))
           /\ ToSet(Append(es, a)) = ToSet(es) \union {a}
<1> DEFINE fs == Append(es, a)
           n == Len(es)
<1>1. /\ n \in Nat /\ DOMAIN es = 1..n /\ DOMAIN fs = 1..(n + 1) /\ fs \in Seq(Oid)
      /\ fs[n + 1] = a /\ \A i \in 1..n : fs[i] = es[i]
  OBVIOUS
<1> HIDE DEF fs, n
<1>2. \A i \in 1..(n + 1) : i \in 1..n \/ i = n + 1
  BY <1>1
<1>3. \A i \in 1..n : i \in 1..(n + 1) /\ es[i] # a
  BY <1>1 DEF ToSet
<1>4. n + 1 \in 1..(n + 1)
  BY <1>1
<1>5. IsInjective(fs)
  <2> SUFFICES ASSUME NEW i \in 1..(n + 1), NEW j \in 1..(n + 1), fs[i] = fs[j] PROVE i = j
    BY <1>1 DEF IsInjective
  <2>1. CASE i \in 1..n /\ j \in 1..n
    BY <1>1, <2>1 DEF IsInjective
  <2>2. CASE i = n + 1 \/ j = n + 1
    BY <1>1, <1>2, <1>3, <2>2
  <2> QED BY <1>2, <2>1, <2>2
<1>6. ASSUME NEW x PROVE x \in ToSet(fs) <=> x \in ToSet(es) \/ x = a
  <2>1. ASSUME x \in ToSet(fs) PROVE x \in ToSet(es) \/ x = a
    <3>1. PICK i \in 1..(n + 1) : x = fs[i]
      BY <1>1, <2>1 DEF ToSet
    <3> QED BY <1>1, <1>2, <3>1 DEF ToSet
  <2>2. ASSUME x \in ToSet(es) PROVE x \in ToSet(fs)
    <3>1. PICK i \in 1..n : x = es[i]
      BY <1>1, <2>2 DEF ToSet
    <3> QED BY <1>1, <1>3, <3>1 DEF ToSet
  <2>3. a \in ToSet(fs)
    BY <1>1, <1>4 DEF ToSet
  <2> QED BY <2>1, <2>2, <2>3
<1> QED BY <1>1, <1>5, <1>6 DEF fs

(* The argument is held by what it was added to, and then by no one else. *)
LEMMA HeldKeeps ==
    ASSUME KInv, NEW g, NEW P, Fine(g, db, reply, P), NEW a \in Oid, g[a].type # "free",
           Exactly(P, {}), SameKeys, Counted, Answer(incrRefCount(g, a), <<>>, {a})
    PROVE  KInv'
<1>1. Fine(Up(g, {a}), db', reply, Plus(P, {a}))
  <2>1. {a} \in SUBSET Oid /\ \A o \in {a} : g[o].type # "free"
    OBVIOUS
  <2>2. Fine(Up(g, {a}), db, reply, Plus(P, {a}))
    BY <2>1, UpFine
  <2> QED BY <2>2 DEF SameKeys
<1>2. ASSUME NEW x \in Oid PROVE Plus(P, {a})[x] = One({a}, x)
  <2>1. P[x] = 0
    BY DEF Exactly, One
  <2> QED BY <2>1 DEF Plus, One
<1> QED BY <1>1, <1>2, EmptyAnswer, AnswerKeeps DEF incrRefCount

(* A new key gets a new list or set. *)
LEMMA ContainerFine ==
    ASSUME KInv, Begin(3), NEW k \in Str, NEW v \in Str, NEW obj, Plain(obj)
    PROVE  LET a == Slot(1)
               b == Slot(2)
               c == Slot(3)
               g == Put(Given(<<k, v>>), c, obj) IN
           /\ a \in Oid /\ b \in Oid /\ c \in Oid /\ a # b /\ a # c /\ b # c
           /\ Fine(g, db, reply, Plus(Plus(Plus(None, {a}), {b}), {c}))
           /\ g[c] = obj /\ IsStr(g, a) /\ IsStr(g, b)
           /\ New(g, db, a) /\ New(g, db, b) /\ New(g, db, c)
<1> DEFINE a == Slot(1)
           b == Slot(2)
           c == Slot(3)
           h == Given(<<k, v>>)
           g == Put(h, c, obj)
           P == Plus(Plus(None, {a}), {b})
<1>1. c \in Oid /\ heap[c].type = "free" /\ a # c /\ b # c
  <2>1. 1 \in 1..3 /\ 2 \in 1..3 /\ 3 \in 1..3 /\ 3 \in Nat
    OBVIOUS
  <2> QED BY <2>1, SlotsFree
<1>2. /\ a \in Oid /\ b \in Oid /\ a # b
      /\ IsStr(h, a) /\ IsStr(h, b) /\ \A x \in Oid \ {a, b} : h[x] = heap[x]
      /\ Fine(h, db, reply, P)
      /\ New(h, db, a) /\ New(h, db, b)
  <2>1. 3 \in {2, 3}
    OBVIOUS
  <2> QED BY <2>1, TwoGiven
<1> HIDE DEF h, a, b, c, P
<1>3. h[c].type = "free"
  BY <1>1, <1>2
<1>4. /\ Fine(g, db, reply, Plus(P, {c})) /\ g[c] = obj
      /\ SameBut(g, h, {c})
      /\ New(g, db, c) /\ NewStay(g, h, db)
  BY <1>1, <1>2, <1>3, FreshFine
<1>5. IsStr(g, a) /\ IsStr(g, b)
  BY <1>1, <1>2, <1>4 DEF SameBut, IsStr
<1>6. New(g, db, a) /\ New(g, db, b)
  BY <1>2, <1>4 DEF NewStay
<1> QED BY <1>1, <1>2, <1>4, <1>5, <1>6 DEF h, a, b, c, P

LEMMA ContainerKeeps ==
    ASSUME KInv, NEW d \in Db, NEW g, NEW R, Fine(g, db, reply, R),
           NEW a \in Oid, NEW b \in Oid, NEW c \in Oid, a # c,
           IsStr(g, a), IsStr(g, b), g[c].type # "free",
           a \notin Owned(db), c \notin Owned(db), Exactly(R, {a, c}),
           Rebind(d, {}, {Entry(a, c)}), Counted, Answer(Up(g, {a, b}), <<>>, {a, b})
    PROVE  KInv'
<1> DEFINE W == KeysOf({}) \union ValsOf({})
           Q == Minus(Plus(R, W), {a, c})
<1>1. db' = [db EXCEPT ![d] = (@ \ {}) \union {Entry(a, c)}]
  BY DEF Rebind
<1>2. Fine(g, db', reply, Q)
  <2>1. {} \in SUBSET db[d]
    OBVIOUS
  <2>2. Fine(g, [db EXCEPT ![d] = (@ \ {}) \union {Entry(a, c)}], reply, Q)
    BY <2>1, RebindFine
  <2> QED BY <1>1, <2>2
<1>3. ASSUME NEW x \in Oid PROVE Plus(Q, {a, b})[x] = One({a, b}, x)
  <2>1. R[x] = One({a, c}, x)
    BY DEF Exactly
  <2> QED BY <2>1 DEF Plus, Minus, One, KeysOf, ValsOf
<1> HIDE DEF Q
<1>4. {a, b} \in SUBSET Oid /\ \A o \in {a, b} : g[o].type # "free"
  BY DEF IsStr
<1>5. Fine(Up(g, {a, b}), db', reply, Plus(Q, {a, b}))
  BY <1>2, <1>4, UpFine
<1> QED BY <1>3, <1>4, <1>5, EmptyAnswer, AnswerKeeps

LEMMA pushTailKeeps ==
    ASSUME KInv, NEW d \in Db, NEW k \in Str, NEW v \in Str, pushTail(d, k, v)
    PROVE  KInv'
<1> DEFINE a == Slot(1)
           b == Slot(2)
           c == Slot(3)
<1>1. Slots(3)[1] = a /\ Slots(3)[2] = b /\ Slots(3)[3] = c
  BY DEF Slots
<1>2. ASSUME Begin(3), Counted, Rebind(d, {}, {Entry(a, c)}),
             Answer(Up([Given(<<k, v>>) EXCEPT ![c] = List(<<b>>)], {a, b}), <<>>, {a, b})
      PROVE  KInv'
  <2> DEFINE obj == List(<<>>)
             g0 == Put(Given(<<k, v>>), c, obj)
             P == Plus(Plus(Plus(None, {a}), {b}), {c})
             es == <<b>>
             g == SetElems(g0, c, es)
             R == Minus(Plus(P, ToSet(g0[c].elems)), ToSet(es))
  <2>1. Plain(obj) /\ obj.type = "list" /\ obj.elems = <<>>
    BY NewShapes DEF Plain
  <2>2. g = [Given(<<k, v>>) EXCEPT ![c] = List(<<b>>)]
    <3>1. [List(<<>>) EXCEPT !.elems = <<b>>] = List(<<b>>)
      BY DEF List, Dead
    <3>2. DOMAIN Given(<<k, v>>) = Oid
      BY DEF Given
    <3> HIDE DEF a, b, c
    <3> QED BY <3>1, <3>2 DEF SetElems, Put
  <2>3. /\ a \in Oid /\ b \in Oid /\ c \in Oid /\ a # b /\ a # c /\ b # c
        /\ Fine(g0, db, reply, P)
        /\ g0[c] = obj /\ IsStr(g0, a) /\ IsStr(g0, b)
        /\ New(g0, db, a) /\ New(g0, db, b) /\ New(g0, db, c)
    <3> HIDE DEF obj
    <3> QED BY <1>2, <2>1, ContainerFine
  <2> HIDE DEF obj, g0, a, b, c, P
  <2>4. ToSet(es) = {b} /\ ToSet(g0[c].elems) = {}
    BY <2>1, <2>3 DEF ToSet
  <2>5. Relistable(g0, c, es)
    <3>1. es \in Seq(Oid) /\ IsInjective(es)
      BY <2>3 DEF IsInjective
    <3> QED BY <2>1, <2>3, <2>4, <3>1 DEF Relistable, AllStr, New
  <2> HIDE DEF es
  <2>6. /\ Fine(g, db, reply, R)
        /\ \A x \in Oid : g[x].type = g0[x].type
    BY <2>3, <2>5, RelistFine
  <2>7. Exactly(R, {a, c})
    <3> SUFFICES ASSUME NEW x \in Oid PROVE R[x] = One({a, c}, x)
      BY DEF Exactly
    <3> QED BY <2>3, <2>4 DEF P, Plus, Minus, None, One
  <2>8. Answer(Up(g, {a, b}), <<>>, {a, b})
    BY <1>2, <2>2 DEF a, b, c
  <2>9. IsStr(g, a) /\ IsStr(g, b) /\ g[c].type # "free" /\ a \notin Owned(db) /\ c \notin Owned(db)
    BY <2>1, <2>3, <2>6 DEF IsStr, New
  <2>10. Rebind(d, {}, {Entry(a, c)})
    BY <1>2 DEF a, c
  <2> HIDE DEF g, R
  <2> QED BY <1>2, <2>3, <2>6, <2>7, <2>8, <2>9, <2>10, ContainerKeeps
<1>3. ASSUME Begin(1), SameKeys, Counted, NEW e \in Typed(d, k, "list"),
             Answer(incrRefCount(SetElems(Given(<<v>>), e.val, Append(heap[e.val].elems, a)), a),
                    <<>>, {a})
      PROVE  KInv'
  <2> DEFINE h == Given(<<v>>)
             l == e.val
             es == heap[l].elems
             fs == Append(es, a)
             g == SetElems(h, l, fs)
             R == Minus(Plus(Plus(None, {a}), ToSet(h[l].elems)), ToSet(fs))
  <2>1. l \in Oid /\ heap[l].type = "list"
    BY EntryFacts DEF Typed, Named
  <2>2. /\ a \in Oid /\ heap[a].type = "free" /\ IsStr(h, a)
        /\ \A x \in Oid \ {a} : h[x] = heap[x]
        /\ Fine(h, db, reply, Plus(None, {a})) /\ New(h, db, a)
    BY <1>3, OneGiven
  <2>3. Answer(incrRefCount(g, a), <<>>, {a})
    BY <1>3
  <2> HIDE DEF h, a, l
  <2>4. l # a /\ h[l] = heap[l] /\ h[l].elems = es
    BY <2>1, <2>2
  <2>5. es \in Seq(Oid) /\ IsInjective(es) /\ a \notin ToSet(es) /\ AllStr(h, ToSet(es))
    <3>1. HeapOK(h) /\ Shaped(h[l])
      BY <2>1, <2>2, FineType DEF Fine
    <3>2. es \in Seq(Oid) /\ IsInjective(es)
      BY <2>1, <2>4, <3>1 DEF HeapOK, Shaped, Object
    <3>3. a \notin ToSet(es)
      BY <2>1, <2>2, <2>4 DEF New, Nodes
    <3>4. AllStr(h, ToSet(es))
      BY <2>1, <2>4, <3>1 DEF HeapOK, Contents, AllStr
    <3> QED BY <3>2, <3>3, <3>4
  <2> HIDE DEF es
  <2>6. fs \in Seq(Oid) /\ IsInjective(fs) /\ ToSet(fs) = ToSet(es) \union {a}
    BY <2>2, <2>5, AppendFacts
  <2> HIDE DEF fs
  <2>7. Relistable(h, l, fs)
    BY <2>1, <2>2, <2>4, <2>5, <2>6 DEF Relistable, AllStr, New
  <2>8. Fine(g, db, reply, R) /\ \A x \in Oid : g[x].type = h[x].type
    BY <2>1, <2>2, <2>7, RelistFine
  <2>9. Exactly(R, {})
    <3> SUFFICES ASSUME NEW x \in Oid PROVE R[x] = One({}, x)
      BY DEF Exactly
    <3> QED BY <2>4, <2>5, <2>6 DEF Plus, Minus, None, One
  <2>10. g[a].type # "free"
    BY <2>2, <2>8 DEF IsStr
  <2>11. Answer(incrRefCount(g, a), <<>>, {a})
    BY <2>3 DEF fs, es
  <2> HIDE DEF g, R
  <2> QED BY <1>3, <2>2, <2>8, <2>9, <2>10, <2>11, HeldKeeps
<1> QED BY <1>1, <1>2, <1>3 DEF pushTail

LEMMA saddKeeps ==
    ASSUME KInv, NEW d \in Db, NEW k \in Str, NEW m \in Str, saddCommand(d, k, m)
    PROVE  KInv'
<1> DEFINE a == Slot(1)
           b == Slot(2)
           c == Slot(3)
<1>1. Slots(3)[1] = a /\ Slots(3)[2] = b /\ Slots(3)[3] = c
  BY DEF Slots
<1>2. ASSUME Begin(3), Counted, Rebind(d, {}, {Entry(a, c)}),
             Answer(Up([Given(<<k, m>>) EXCEPT ![c] = Set({b})], {a, b}), <<>>, {a, b})
      PROVE  KInv'
  <2> DEFINE obj == Set({})
             g0 == Put(Given(<<k, m>>), c, obj)
             P == Plus(Plus(Plus(None, {a}), {b}), {c})
             es == {b}
             g == SetMembers(g0, c, es)
             R == Minus(Plus(P, g0[c].members), es)
  <2>1. Plain(obj) /\ obj.type = "set" /\ obj.members = {}
    BY NewShapes DEF Plain
  <2>2. g = [Given(<<k, m>>) EXCEPT ![c] = Set({b})]
    <3>1. [Set({}) EXCEPT !.members = {b}] = Set({b})
      BY DEF Set, Dead
    <3>2. DOMAIN Given(<<k, m>>) = Oid
      BY DEF Given
    <3> HIDE DEF a, b, c
    <3> QED BY <3>1, <3>2 DEF SetMembers, Put
  <2>3. /\ a \in Oid /\ b \in Oid /\ c \in Oid /\ a # b /\ a # c /\ b # c
        /\ Fine(g0, db, reply, P)
        /\ g0[c] = obj /\ IsStr(g0, a) /\ IsStr(g0, b)
        /\ New(g0, db, a) /\ New(g0, db, b) /\ New(g0, db, c)
    <3> HIDE DEF obj
    <3> QED BY <1>2, <2>1, ContainerFine
  <2> HIDE DEF obj, g0, a, b, c, P
  <2>4. es = {b} /\ g0[c].members = {}
    BY <2>1, <2>3
  <2>5. es \in SUBSET Oid /\ AllStr(g0, es) /\ g0[c].type = "set"
    BY <2>1, <2>3, <2>4 DEF AllStr
  <2> HIDE DEF es
  <2>6. /\ Fine(g, db, reply, R)
        /\ \A x \in Oid : g[x].type = g0[x].type
    BY <2>3, <2>5, RememberFine
  <2>7. Exactly(R, {a, c})
    <3> SUFFICES ASSUME NEW x \in Oid PROVE R[x] = One({a, c}, x)
      BY DEF Exactly
    <3> QED BY <2>3, <2>4 DEF P, Plus, Minus, None, One
  <2>8. Answer(Up(g, {a, b}), <<>>, {a, b})
    BY <1>2, <2>2 DEF a, b, c
  <2>9. IsStr(g, a) /\ IsStr(g, b) /\ g[c].type # "free" /\ a \notin Owned(db) /\ c \notin Owned(db)
    BY <2>1, <2>3, <2>6 DEF IsStr, New
  <2>10. Rebind(d, {}, {Entry(a, c)})
    BY <1>2 DEF a, c
  <2> HIDE DEF g, R
  <2> QED BY <1>2, <2>3, <2>6, <2>7, <2>8, <2>9, <2>10, ContainerKeeps
<1>3. ASSUME Begin(1), SameKeys, Counted, NEW e \in Typed(d, k, "set"),
             Answer(incrRefCount(SetMembers(Given(<<m>>), e.val, heap[e.val].members \union {a}), a),
                    <<>>, {a})
      PROVE  KInv'
  <2> DEFINE h == Given(<<m>>)
             l == e.val
             es == heap[l].members
             fs == es \union {a}
             g == SetMembers(h, l, fs)
             R == Minus(Plus(Plus(None, {a}), h[l].members), fs)
  <2>1. l \in Oid /\ heap[l].type = "set"
    BY EntryFacts DEF Typed, Named
  <2>2. /\ a \in Oid /\ heap[a].type = "free" /\ IsStr(h, a)
        /\ \A x \in Oid \ {a} : h[x] = heap[x]
        /\ Fine(h, db, reply, Plus(None, {a})) /\ New(h, db, a)
    BY <1>3, OneGiven
  <2>3. Answer(incrRefCount(g, a), <<>>, {a})
    BY <1>3
  <2> HIDE DEF h, a, l
  <2>4. l # a /\ h[l] = heap[l] /\ h[l].members = es
    BY <2>1, <2>2
  <2>5. es \in SUBSET Oid /\ a \notin es /\ AllStr(h, es)
    <3>1. HeapOK(h) /\ Shaped(h[l])
      BY <2>1, <2>2, FineType DEF Fine
    <3>2. es \in SUBSET Oid
      BY <2>4, <3>1 DEF Shaped, Object
    <3>3. a \notin es
      BY <2>1, <2>2, <2>4 DEF New, SetsWith
    <3>4. AllStr(h, es)
      BY <2>1, <2>4, <3>1 DEF HeapOK, Contents, AllStr
    <3> QED BY <3>2, <3>3, <3>4
  <2> HIDE DEF es
  <2>6. fs \in SUBSET Oid /\ AllStr(h, fs) /\ fs = es \union {a}
    BY <2>2, <2>5 DEF AllStr
  <2> HIDE DEF fs
  <2>7. h[l].type = "set"
    BY <2>1, <2>4
  <2>8. Fine(g, db, reply, R) /\ \A x \in Oid : g[x].type = h[x].type
    <3>1. l \in Oid /\ Fine(h, db, reply, Plus(None, {a}))
      BY <2>1, <2>2
    <3>2. fs \in SUBSET Oid /\ AllStr(h, fs)
      BY <2>6
    <3> QED BY <2>7, <3>1, <3>2, RememberFine
  <2>9. Exactly(R, {})
    <3> SUFFICES ASSUME NEW x \in Oid PROVE R[x] = One({}, x)
      BY DEF Exactly
    <3> QED BY <2>4, <2>5, <2>6 DEF Plus, Minus, None, One
  <2>10. g[a].type # "free"
    BY <2>2, <2>8 DEF IsStr
  <2>11. Answer(incrRefCount(g, a), <<>>, {a})
    BY <2>3 DEF fs, es
  <2> HIDE DEF g, R
  <2> QED BY <1>3, <2>2, <2>8, <2>9, <2>10, <2>11, HeldKeeps
<1> QED BY <1>1, <1>2, <1>3 DEF saddCommand

(* Parts of lists *)

LEMMA SliceFacts ==
    ASSUME NEW es \in Seq(Oid), IsInjective(es), NEW m \in Nat, m >= 1, NEW n \in Nat, n <= Len(es)
    PROVE  LET fs == SubSeq(es, m, n) IN
           /\ fs \in Seq(Oid) /\ IsInjective(fs)
           /\ \A x : x \in ToSet(fs) <=> \E i \in m..n : x = es[i]
<1> DEFINE fs == SubSeq(es, m, n)
<1>1. CASE m > n
  <2>1. fs = <<>>
    BY <1>1
  <2>2. m..n = {}
    BY <1>1
  <2> HIDE DEF fs
  <2>3. fs \in Seq(Oid) /\ IsInjective(fs) /\ ToSet(fs) = {}
    BY <2>1 DEF IsInjective, ToSet
  <2> QED BY <2>2, <2>3 DEF fs
<1>2. CASE m <= n
  <2>1. /\ fs \in Seq(Oid) /\ Len(fs) = n - m + 1 /\ n - m + 1 \in Nat
        /\ \A i \in 1..(n - m + 1) : fs[i] = es[m + i - 1]
    BY <1>2
  <2> HIDE DEF fs
  <2>2. DOMAIN fs = 1..(n - m + 1) /\ DOMAIN es = 1..Len(es) /\ Len(es) \in Nat
    BY <2>1
  <2>3. \A i \in 1..(n - m + 1) : m + i - 1 \in m..n /\ m + i - 1 \in DOMAIN es
    BY <1>2, <2>2
  <2>4. IsInjective(fs)
    <3> SUFFICES ASSUME NEW i \in 1..(n - m + 1), NEW j \in 1..(n - m + 1), fs[i] = fs[j] PROVE i = j
      BY <2>2 DEF IsInjective
    <3>1. es[m + i - 1] = es[m + j - 1]
      BY <2>1
    <3>2. m + i - 1 = m + j - 1
      BY <2>3, <3>1 DEF IsInjective
    <3> QED BY <3>2
  <2>5. ASSUME NEW x PROVE x \in ToSet(fs) <=> \E i \in m..n : x = es[i]
    <3>1. ASSUME x \in ToSet(fs) PROVE \E i \in m..n : x = es[i]
      <4>1. PICK i \in 1..(n - m + 1) : x = fs[i]
        BY <2>2, <3>1 DEF ToSet
      <4> QED BY <2>1, <2>3, <4>1
    <3>2. ASSUME NEW i \in m..n, x = es[i] PROVE x \in ToSet(fs)
      <4>1. i - m + 1 \in 1..(n - m + 1) /\ m + (i - m + 1) - 1 = i
        OBVIOUS
      <4>2. fs[i - m + 1] = x
        BY <2>1, <3>2, <4>1
      <4> QED BY <2>2, <4>1, <4>2 DEF ToSet
    <3> QED BY <3>1, <3>2
  <2> QED BY <2>1, <2>4, <2>5 DEF fs
<1> QED BY <1>1, <1>2

LEMMA BetweenFacts ==
    ASSUME NEW es \in Seq(Oid), IsInjective(es), NEW i \in Int, NEW j \in Int
    PROVE  LET fs == Between(es, i, j) IN
           fs \in Seq(Oid) /\ IsInjective(fs) /\ ToSet(fs) \subseteq ToSet(es)
<1> DEFINE n == Len(es)
           start == lindexToPositive(i, n)
           end == lindexToPositive(j, n)
           m == start + 1
           q == IF end >= n THEN n ELSE end + 1
           fs == SubSeq(es, m, q)
<1>1. n \in Nat /\ DOMAIN es = 1..n
  OBVIOUS
<1>2. start \in Nat /\ end \in Nat
  BY <1>1 DEF lindexToPositive
<1>3. m \in Nat /\ m >= 1 /\ q \in Nat /\ q <= n
  BY <1>1, <1>2
<1>4. fs = Between(es, i, j)
  BY DEF Between
<1> HIDE DEF m, q
<1>5. fs \in Seq(Oid) /\ IsInjective(fs) /\ \A x : x \in ToSet(fs) <=> \E p \in m..q : x = es[p]
  BY <1>3, SliceFacts
<1> HIDE DEF fs
<1>6. ToSet(fs) \subseteq ToSet(es)
  <2>1. \A p \in m..q : p \in 1..n
    BY <1>1, <1>3
  <2> QED BY <1>1, <1>5, <2>1 DEF ToSet
<1> QED BY <1>4, <1>5, <1>6

LEMMA JoinFacts ==
    ASSUME NEW a \in Seq(Oid), NEW b \in Seq(Oid), IsInjective(a), IsInjective(b),
           ToSet(a) \cap ToSet(b) = {}
    PROVE  a \o b \in Seq(Oid) /\ ToSet(a \o b) = ToSet(a) \union ToSet(b) /\ IsInjective(a \o b)
<1> DEFINE n == Len(a)
           q == Len(b)
           t == a \o b
<1>1. /\ t \in Seq(Oid) /\ Len(t) = n + q /\ n \in Nat /\ q \in Nat
      /\ \A i \in 1..n : t[i] = a[i]
      /\ \A i \in 1..q : t[n + i] = b[i]
  OBVIOUS
<1> HIDE DEF t
<1>2. DOMAIN t = 1..(n + q) /\ DOMAIN a = 1..n /\ DOMAIN b = 1..q
  BY <1>1
<1> HIDE DEF n, q
<1>3. ASSUME NEW i \in 1..(n + q), i \notin 1..n PROVE i - n \in 1..q /\ n + (i - n) = i
  BY <1>1, <1>3
<1>4. ASSUME NEW i \in 1..(n + q)
      PROVE  \/ i \in 1..n /\ t[i] = a[i] /\ t[i] \in ToSet(a)
             \/ i - n \in 1..q /\ t[i] = b[i - n] /\ t[i] \in ToSet(b)
  <2>1. CASE i \in 1..n
    BY <1>1, <1>2, <2>1 DEF ToSet
  <2>2. CASE i \notin 1..n
    <3>1. i - n \in 1..q /\ n + (i - n) = i
      BY <1>3, <2>2
    <3>2. t[n + (i - n)] = b[i - n]
      BY <1>1, <3>1
    <3> QED BY <1>2, <3>1, <3>2 DEF ToSet
  <2> QED BY <2>1, <2>2
<1>5. IsInjective(t)
  <2> SUFFICES ASSUME NEW i \in 1..(n + q), NEW j \in 1..(n + q), t[i] = t[j] PROVE i = j
    BY <1>2 DEF IsInjective
  <2>1. \/ i \in 1..n /\ j \in 1..n /\ a[i] = a[j]
        \/ i - n \in 1..q /\ j - n \in 1..q /\ b[i - n] = b[j - n]
    BY <1>4
  <2>2. CASE i \in 1..n /\ j \in 1..n /\ a[i] = a[j]
    BY <1>2, <2>2 DEF IsInjective
  <2>3. CASE i - n \in 1..q /\ j - n \in 1..q /\ b[i - n] = b[j - n]
    <3>1. i - n = j - n
      BY <1>2, <2>3 DEF IsInjective
    <3> QED BY <1>1, <3>1
  <2> QED BY <2>1, <2>2, <2>3
<1>6. ASSUME NEW x PROVE x \in ToSet(t) <=> x \in ToSet(a) \union ToSet(b)
  <2>1. ASSUME x \in ToSet(t) PROVE x \in ToSet(a) \union ToSet(b)
    <3>1. PICK i \in 1..(n + q) : x = t[i]
      BY <1>2, <2>1 DEF ToSet
    <3> QED BY <1>4, <3>1
  <2>2. ASSUME x \in ToSet(a) PROVE x \in ToSet(t)
    <3>1. PICK i \in 1..n : x = a[i]
      BY <1>2, <2>2 DEF ToSet
    <3>2. i \in 1..(n + q) /\ t[i] = x
      BY <1>1, <3>1
    <3> QED BY <1>2, <3>2 DEF ToSet
  <2>3. ASSUME x \in ToSet(b) PROVE x \in ToSet(t)
    <3>1. PICK i \in 1..q : x = b[i]
      BY <1>2, <2>3 DEF ToSet
    <3>2. n + i \in 1..(n + q) /\ t[n + i] = x
      BY <1>1, <3>1
    <3> QED BY <1>2, <3>2 DEF ToSet
  <2> QED BY <2>1, <2>2, <2>3
<1> QED BY <1>1, <1>5, <1>6 DEF t

LEMMA RemoveAtFacts ==
    ASSUME NEW es \in Seq(Oid), IsInjective(es), NEW p \in DOMAIN es
    PROVE  LET fs == RemoveAt(es, p) IN
           fs \in Seq(Oid) /\ IsInjective(fs) /\ ToSet(fs) = ToSet(es) \ {es[p]}
<1> DEFINE n == Len(es)
           a == SubSeq(es, 1, p - 1)
           b == SubSeq(es, p + 1, n)
           fs == a \o b
<1>1. n \in Nat /\ DOMAIN es = 1..n /\ p \in 1..n
  OBVIOUS
<1>2. /\ a \in Seq(Oid) /\ IsInjective(a)
      /\ \A x : x \in ToSet(a) <=> \E i \in 1..(p - 1) : x = es[i]
  <2>1. p - 1 \in Nat /\ 1 \in Nat /\ 1 >= 1 /\ p - 1 <= Len(es)
    BY <1>1
  <2> QED BY <2>1, SliceFacts
<1>3. /\ b \in Seq(Oid) /\ IsInjective(b)
      /\ \A x : x \in ToSet(b) <=> \E i \in (p + 1)..n : x = es[i]
  <2>1. p + 1 \in Nat /\ p + 1 >= 1 /\ n \in Nat /\ n <= Len(es)
    BY <1>1
  <2> QED BY <2>1, SliceFacts
<1> HIDE DEF a, b, n
<1>4. \A i \in 1..(p - 1) : i \in 1..n /\ i # p
  BY <1>1
<1>5. \A i \in (p + 1)..n : i \in 1..n /\ i # p /\ i \notin 1..(p - 1)
  BY <1>1
<1>6. \A i \in 1..n : i # p => i \in 1..(p - 1) \/ i \in (p + 1)..n
  BY <1>1
<1>7. ToSet(a) \cap ToSet(b) = {}
  <2> SUFFICES ASSUME NEW x \in ToSet(a), x \in ToSet(b) PROVE FALSE
    OBVIOUS
  <2>1. PICK i \in 1..(p - 1) : x = es[i]
    BY <1>2
  <2>2. PICK j \in (p + 1)..n : x = es[j]
    BY <1>3
  <2> QED BY <1>1, <1>4, <1>5, <2>1, <2>2 DEF IsInjective
<1>8. ASSUME NEW x PROVE x \in ToSet(a) \union ToSet(b) <=> x \in ToSet(es) /\ x # es[p]
  <2>1. x \in ToSet(es) <=> \E i \in 1..n : x = es[i]
    BY <1>1 DEF ToSet
  <2>2. \A i \in 1..n : es[i] = es[p] => i = p
    BY <1>1 DEF IsInjective
  <2>3. ASSUME x \in ToSet(a) PROVE x \in ToSet(es) /\ x # es[p]
    <3>1. PICK i \in 1..(p - 1) : x = es[i]
      BY <1>2, <2>3
    <3> QED BY <1>4, <2>1, <2>2, <3>1
  <2>4. ASSUME x \in ToSet(b) PROVE x \in ToSet(es) /\ x # es[p]
    <3>1. PICK i \in (p + 1)..n : x = es[i]
      BY <1>3, <2>4
    <3> QED BY <1>5, <2>1, <2>2, <3>1
  <2>5. ASSUME x \in ToSet(es), x # es[p] PROVE x \in ToSet(a) \union ToSet(b)
    <3>1. PICK i \in 1..n : x = es[i]
      BY <2>1, <2>5
    <3>2. i \in 1..(p - 1) \/ i \in (p + 1)..n
      BY <1>6, <2>5, <3>1
    <3> QED BY <1>2, <1>3, <3>1, <3>2
  <2> QED BY <2>3, <2>4, <2>5
<1>9. fs \in Seq(Oid) /\ ToSet(fs) = ToSet(a) \union ToSet(b) /\ IsInjective(fs)
  BY <1>2, <1>3, <1>7, JoinFacts
<1>10. fs = RemoveAt(es, p)
  BY DEF RemoveAt, a, b, n
<1> HIDE DEF fs
<1> QED BY <1>8, <1>9, <1>10

LEMMA ReplaceAtFacts ==
    ASSUME NEW es \in Seq(Oid), IsInjective(es), NEW p \in DOMAIN es, NEW a \in Oid, a \notin ToSet(es)
    PROVE  LET fs == ReplaceAt(es, p, a) IN
           /\ fs \in Seq(Oid) /\ IsInjective(fs)
           /\ ToSet(fs) = (ToSet(es) \ {es[p]}) \union {a} /\ es[p] \in ToSet(es)
<1> DEFINE n == Len(es)
           fs == ReplaceAt(es, p, a)
<1>1. n \in Nat /\ DOMAIN es = 1..n /\ p \in 1..n
  OBVIOUS
<1>2. /\ fs \in Seq(Oid) /\ DOMAIN fs = 1..n
      /\ fs[p] = a /\ \A i \in 1..n : i # p => fs[i] = es[i]
  BY <1>1 DEF ReplaceAt
<1> HIDE DEF fs, n
<1>3. \A i \in 1..n : es[i] \in ToSet(es)
  BY <1>1 DEF ToSet
<1>4. \A i \in 1..n : es[i] # a
  BY <1>3
<1>5. \A i, j \in 1..n : es[i] = es[j] => i = j
  BY <1>1 DEF IsInjective
<1>6. IsInjective(fs)
  BY <1>1, <1>2, <1>4, <1>5 DEF IsInjective
<1>7. ASSUME NEW x PROVE x \in ToSet(fs) <=> x = a \/ (x \in ToSet(es) /\ x # es[p])
  <2>1. x \in ToSet(fs) <=> \E i \in 1..n : x = fs[i]
    BY <1>2 DEF ToSet
  <2>2. x \in ToSet(es) <=> \E i \in 1..n : x = es[i]
    BY <1>1 DEF ToSet
  <2> QED BY <1>1, <1>2, <1>4, <1>5, <2>1, <2>2
<1> QED BY <1>1, <1>2, <1>3, <1>6, <1>7 DEF fs

----------------------------------------------------------------------------
(* Commands over lists *)

LEMMA ListFacts ==
    ASSUME KInv, NEW d \in Db, NEW k, NEW e \in Typed(d, k, "list")
    PROVE  LET es == heap[e.val].elems IN
           /\ e.val \in Oid /\ heap[e.val].type = "list"
           /\ es \in Seq(Oid) /\ IsInjective(es) /\ AllStr(heap, ToSet(es)) /\ ToSet(es) \subseteq Oid
<1>1. e.val \in Oid /\ heap[e.val].type = "list"
  BY EntryFacts DEF Typed, Named
<1>2. HeapOK(heap) /\ Shaped(heap[e.val])
  BY <1>1, FineType DEF KInv, Fine
<1>3. heap[e.val].elems \in Seq(Oid) /\ IsInjective(heap[e.val].elems)
  BY <1>1, <1>2 DEF HeapOK, Shaped, Object
<1>4. AllStr(heap, ToSet(heap[e.val].elems))
  BY <1>1, <1>2 DEF HeapOK, Contents, AllStr
<1> DEFINE es == heap[e.val].elems
<1> HIDE DEF es
<1>5. ToSet(es) \subseteq Oid
  <2>1. es \in Seq(Oid)
    BY <1>3 DEF es
  <2> QED BY <2>1 DEF ToSet
<1> QED BY <1>1, <1>3, <1>4, <1>5 DEF es

(* A command that keeps a part of a list. *)
LEMMA KeptFine ==
    ASSUME KInv, NEW d \in Db, NEW k, NEW e \in Typed(d, k, "list"),
           NEW fs \in Seq(Oid), IsInjective(fs), ToSet(fs) \subseteq ToSet(heap[e.val].elems)
    PROVE  LET g == SetElems(heap, e.val, fs)
               S == ToSet(heap[e.val].elems) \ ToSet(fs)
               P == Minus(Plus(None, ToSet(heap[e.val].elems)), ToSet(fs)) IN
           /\ Fine(g, db, reply, P) /\ Exactly(P, S) /\ S \in SUBSET Oid
           /\ \A x : IsStr(heap, x) => IsStr(g, x)
<1> DEFINE l == e.val
           es == heap[l].elems
           g == SetElems(heap, l, fs)
           S == ToSet(es) \ ToSet(fs)
           P == Minus(Plus(None, ToSet(heap[l].elems)), ToSet(fs))
<1>1. /\ l \in Oid /\ heap[l].type = "list"
      /\ es \in Seq(Oid) /\ AllStr(heap, ToSet(es)) /\ ToSet(es) \subseteq Oid
  BY ListFacts
<1>2. /\ ToSet(fs) \subseteq ToSet(es)
      /\ g = [heap EXCEPT ![l].elems = fs] /\ heap \in [Oid -> Object] /\ Fine(heap, db, reply, None)
  BY FineType DEF SetElems, KInv
<1> HIDE DEF l
<1>3. Relistable(heap, l, fs)
  BY <1>1, <1>2 DEF Relistable, AllStr
<1> HIDE DEF g
<1>4. Fine(g, db, reply, P)
  <2>1. Fine(SetElems(heap, l, fs), db, reply, P)
    BY <1>1, <1>2, <1>3, RelistFine
  <2> QED BY <2>1 DEF g
<1>5. Exactly(P, S)
  <2> SUFFICES ASSUME NEW x \in Oid PROVE P[x] = One(S, x)
    BY DEF Exactly
  <2> QED BY <1>2 DEF Plus, Minus, None, One
<1>6. ASSUME NEW x, IsStr(heap, x) PROVE IsStr(g, x)
  <2>1. x # l
    BY <1>1, <1>6 DEF IsStr
  <2> QED BY <1>1, <1>2, <1>6, <2>1 DEF IsStr
<1> QED BY <1>1, <1>4, <1>5, <1>6 DEF g, l

LEMMA lindexKeeps ==
    ASSUME KInv, NEW d \in Db, NEW k, NEW i, lindexCommand(d, k, i)
    PROVE  KInv'
<1>1. PICK e \in Typed(d, k, "list") :
        \E p \in listIndex(heap[e.val].elems, i) : Answer(heap, <<heap[e.val].elems[p]>>, {})
  BY DEF lindexCommand
<1> DEFINE es == heap[e.val].elems
<1>2. PICK p \in listIndex(es, i) : Answer(heap, <<es[p]>>, {})
  BY <1>1
<1>3. AllStr(heap, ToSet(es)) /\ ToSet(es) \subseteq Oid /\ p \in DOMAIN es
  BY ListFacts DEF listIndex
<1> HIDE DEF es
<1>4. es[p] \in ToSet(es)
  BY <1>3 DEF ToSet
<1> DEFINE o == es[p]
<1>5. o \in Oid /\ IsStr(heap, o)
  BY <1>3, <1>4 DEF AllStr
<1>6. SameKeys /\ Uncounted
  BY DEF lindexCommand
<1> HIDE DEF o
<1>7. Answer(heap, <<o>>, {})
  BY <1>2 DEF o
<1> QED BY <1>5, <1>6, <1>7, OneAnswer, ReadKeeps

LEMMA lrangeKeeps ==
    ASSUME KInv, NEW d \in Db, NEW k, NEW i \in Int, NEW j \in Int, lrangeCommand(d, k, i, j)
    PROVE  KInv'
<1>1. PICK e \in Typed(d, k, "list") : Answer(heap, Between(heap[e.val].elems, i, j), {})
  BY DEF lrangeCommand
<1> DEFINE es == heap[e.val].elems
           fs == Between(es, i, j)
<1>2. es \in Seq(Oid) /\ IsInjective(es) /\ AllStr(heap, ToSet(es))
  BY ListFacts
<1> HIDE DEF es
<1>3. fs \in Seq(Oid) /\ ToSet(fs) \subseteq ToSet(es)
  BY <1>2, BetweenFacts
<1>4. Answer(heap, fs, {})
  BY <1>1 DEF es
<1> HIDE DEF fs
<1>5. AllStr(heap, ToSet(fs))
  BY <1>2, <1>3 DEF AllStr
<1>6. SameKeys /\ Uncounted
  BY DEF lrangeCommand
<1> QED BY <1>3, <1>4, <1>5, <1>6, ReadKeeps

LEMMA ltrimKeeps ==
    ASSUME KInv, NEW d \in Db, NEW k, NEW i \in Int, NEW j \in Int, ltrimCommand(d, k, i, j)
    PROVE  KInv'
<1>1. PICK e \in Typed(d, k, "list") :
        LET es   == heap[e.val].elems
            kept == Between(es, i, j)
        IN  Answer(SetElems(heap, e.val, kept), <<>>, ToSet(es) \ ToSet(kept))
  BY DEF ltrimCommand
<1> DEFINE es == heap[e.val].elems
           fs == Between(es, i, j)
           g == SetElems(heap, e.val, fs)
           S == ToSet(es) \ ToSet(fs)
           P == Minus(Plus(None, ToSet(es)), ToSet(fs))
<1>2. fs \in Seq(Oid) /\ IsInjective(fs) /\ ToSet(fs) \subseteq ToSet(es)
  <2>1. es \in Seq(Oid) /\ IsInjective(es)
    BY ListFacts
  <2> HIDE DEF es
  <2> QED BY <2>1, BetweenFacts
<1>3. Answer(g, <<>>, S)
  BY <1>1
<1> HIDE DEF fs
<1>4. Fine(g, db, reply, P) /\ Exactly(P, S) /\ S \in SUBSET Oid
  BY <1>2, KeptFine
<1>5. SameKeys /\ Counted
  BY DEF ltrimCommand
<1> HIDE DEF g, P, S
<1>6. Fine(g, db', reply, P) /\ \A x \in Oid : P[x] = One(S, x)
  BY <1>4, <1>5 DEF SameKeys, Exactly
<1> QED BY <1>3, <1>4, <1>5, <1>6, EmptyAnswer, AnswerKeeps

LEMMA popKeeps ==
    ASSUME KInv, NEW d \in Db, NEW k, NEW head, popGenericCommand(d, k, head)
    PROVE  KInv'
<1>1. PICK e \in Typed(d, k, "list") :
        LET es == heap[e.val].elems IN
        \E p \in listIndex(es, IF head THEN 0 ELSE -1) :
           Answer(SetElems(heap, e.val, RemoveAt(es, p)), <<es[p]>>, {es[p]})
  BY DEF popGenericCommand
<1> DEFINE es == heap[e.val].elems
<1>2. PICK p \in listIndex(es, IF head THEN 0 ELSE -1) :
           Answer(SetElems(heap, e.val, RemoveAt(es, p)), <<es[p]>>, {es[p]})
  BY <1>1
<1>3. p \in DOMAIN es
  BY DEF listIndex
<1> DEFINE fs == RemoveAt(es, p)
           o == es[p]
           g == SetElems(heap, e.val, fs)
           S == ToSet(es) \ ToSet(fs)
           P == Minus(Plus(None, ToSet(es)), ToSet(fs))
<1>4. /\ fs \in Seq(Oid) /\ IsInjective(fs) /\ ToSet(fs) = ToSet(es) \ {o}
      /\ o \in Oid /\ IsStr(heap, o) /\ S = {o}
  <2>1. es \in Seq(Oid) /\ IsInjective(es) /\ AllStr(heap, ToSet(es)) /\ ToSet(es) \subseteq Oid
    BY ListFacts
  <2> HIDE DEF es
  <2>2. fs \in Seq(Oid) /\ IsInjective(fs) /\ ToSet(fs) = ToSet(es) \ {o}
    BY <1>3, <2>1, RemoveAtFacts
  <2>3. o \in ToSet(es)
    BY <1>3 DEF ToSet
  <2> QED BY <2>1, <2>2, <2>3 DEF AllStr
<1>5. Answer(g, <<o>>, {o})
  BY <1>2
<1> HIDE DEF fs, o
<1>6. Fine(g, db, reply, P) /\ Exactly(P, S) /\ \A x : IsStr(heap, x) => IsStr(g, x)
  <2>1. ToSet(fs) \subseteq ToSet(es)
    BY <1>4
  <2> QED BY <1>4, <2>1, KeptFine
<1>7. SameKeys /\ Counted
  BY DEF popGenericCommand
<1> HIDE DEF g, P, S
<1>8. Fine(g, db', reply, P) /\ \A x \in Oid : P[x] = One({o}, x)
  BY <1>4, <1>6, <1>7 DEF SameKeys, Exactly
<1>9. <<o>> \in Seq(Oid) /\ AllStr(g, ToSet(<<o>>)) /\ {o} \in SUBSET Oid
  BY <1>4, <1>6, OneAnswer
<1> QED BY <1>5, <1>7, <1>8, <1>9, AnswerKeeps

(* LSET drops the old element before it stores the new one: that is the     *)
(* same as after it.                                                        *)
LEMMA DecrString ==
    ASSUME NEW h, h = [x \in Oid |-> h[x]], NEW o \in Oid, h[o].elems = <<>>, h[o].members = {}
    PROVE  decrRefCount(h, o) = Down(h, {o})
<1>1. ToSet(h[o].elems) \union h[o].members = {}
  BY DEF ToSet
<1>2. Down(Down(h, {o}), {}) = Down(h, {o})
  BY DEF Down
<1> QED BY <1>1, <1>2 DEF decrRefCount

LEMMA SetElemsDecr ==
    ASSUME NEW h \in [Oid -> Object], NEW l \in Oid, NEW o \in Oid, o # l,
           h[o].elems = <<>>, h[o].members = {}, NEW fs
    PROVE  SetElems(decrRefCount(h, o), l, fs) = decrRefCount(SetElems(h, l, fs), o)
<1> DEFINE g == SetElems(h, l, fs)
<1>1. /\ g = [x \in Oid |-> IF x = l THEN [h[l] EXCEPT !.elems = fs] ELSE h[x]]
      /\ g = [x \in Oid |-> g[x]] /\ h = [x \in Oid |-> h[x]]
  BY DEF SetElems
<1> HIDE DEF g
<1>2. decrRefCount(g, o) = Down(g, {o}) /\ decrRefCount(h, o) = Down(h, {o})
  <2>1. g[o] = h[o]
    BY <1>1
  <2> QED BY <1>1, <2>1, DecrString
<1>3. SetElems(Down(h, {o}), l, fs) = Down(g, {o})
  <2>1. ASSUME NEW x \in Oid PROVE SetElems(Down(h, {o}), l, fs)[x] = Down(g, {o})[x]
    BY <1>1 DEF SetElems, Down
  <2>2. SetElems(Down(h, {o}), l, fs) = [x \in Oid |-> SetElems(Down(h, {o}), l, fs)[x]]
    BY DEF SetElems, Down
  <2>3. Down(g, {o}) = [x \in Oid |-> Down(g, {o})[x]]
    BY DEF Down
  <2> QED BY <2>1, <2>2, <2>3
<1> QED BY <1>2, <1>3 DEF g

LEMMA lsetKeeps ==
    ASSUME KInv, NEW d \in Db, NEW k, NEW i, NEW v \in Str, lsetCommand(d, k, i, v)
    PROVE  KInv'
<1> DEFINE a == Slot(1)
           h == Given(<<v>>)
<1>1. Slots(1)[1] = a
  BY DEF Slots
<1>2. Begin(1) /\ SameKeys /\ Counted
  BY DEF lsetCommand
<1>3. PICK e \in Typed(d, k, "list") :
        \E p \in listIndex(heap[e.val].elems, 0) :
          LET es == heap[e.val].elems IN
          Answer(incrRefCount(SetElems(decrRefCount(h, es[p]), e.val, ReplaceAt(es, p, a)), a),
                 <<>>, {a})
  BY <1>1 DEF lsetCommand
<1> DEFINE l == e.val
           es == heap[l].elems
<1>4. PICK p \in listIndex(es, 0) :
         Answer(incrRefCount(SetElems(decrRefCount(h, es[p]), l, ReplaceAt(es, p, a)), a), <<>>, {a})
  BY <1>3
<1> DEFINE o == es[p]
           fs == ReplaceAt(es, p, a)
           g == SetElems(h, l, fs)
           R == Minus(Plus(Plus(None, {a}), ToSet(h[l].elems)), ToSet(fs))
           g2 == decrRefCount(g, o)
           R2 == Minus(R, {o})
<1>5. /\ l \in Oid /\ heap[l].type = "list"
      /\ es \in Seq(Oid) /\ IsInjective(es) /\ AllStr(heap, ToSet(es)) /\ ToSet(es) \subseteq Oid
      /\ p \in DOMAIN es
  BY ListFacts DEF listIndex
<1>6. /\ a \in Oid /\ heap[a].type = "free" /\ IsStr(h, a) /\ \A x \in Oid \ {a} : h[x] = heap[x]
      /\ Fine(h, db, reply, Plus(None, {a})) /\ New(h, db, a)
  BY <1>2, OneGiven
<1>7. Answer(incrRefCount(SetElems(decrRefCount(h, o), l, fs), a), <<>>, {a})
  BY <1>4
<1> HIDE DEF a, h, l
<1>8. l # a /\ h[l] = heap[l] /\ h[l].elems = es
  BY <1>5, <1>6
<1>9. a \notin ToSet(es)
  BY <1>5, <1>6, <1>8 DEF New, Nodes
<1> HIDE DEF es
<1>10. /\ fs \in Seq(Oid) /\ IsInjective(fs)
       /\ ToSet(fs) = (ToSet(es) \ {o}) \union {a} /\ o \in ToSet(es)
  BY <1>5, <1>6, <1>9, ReplaceAtFacts
<1> HIDE DEF o, fs
<1>11. o \in Oid /\ o # a /\ o # l /\ IsStr(h, o)
  BY <1>5, <1>6, <1>9, <1>10 DEF AllStr, IsStr
<1>12. Relistable(h, l, fs)
  <2>1. ASSUME NEW x \in ToSet(fs) PROVE IsStr(h, x) /\ (x \in ToSet(es) \/ x \notin Nodes(h))
    BY <1>5, <1>6, <1>9, <1>10, <2>1 DEF AllStr, IsStr, New
  <2> QED BY <1>5, <1>8, <1>10, <2>1 DEF Relistable, AllStr
<1>13. /\ Fine(g, db, reply, R) /\ \A x \in Oid : g[x].type = h[x].type
       /\ \A x \in Oid : x # l => g[x] = h[x]
  BY <1>5, <1>6, <1>12, RelistFine
<1>14. ASSUME NEW x \in Oid PROVE R[x] = One({o}, x)
  BY <1>8, <1>9, <1>10, <1>11 DEF Plus, Minus, None, One
<1>15. SetElems(decrRefCount(h, o), l, fs) = g2
  <2>1. h \in [Oid -> Object] /\ Shaped(h[o])
    BY <1>6, <1>11, FineType
  <2>2. h[o].elems = <<>> /\ h[o].members = {}
    BY <1>11, <2>1 DEF Shaped, IsStr
  <2> QED BY <1>5, <1>11, <2>1, <2>2, SetElemsDecr
<1>16. IsStr(g, a) /\ IsStr(g, o)
  BY <1>6, <1>11, <1>13 DEF IsStr
<1> HIDE DEF g, R
<1>17. Fine(g2, db, reply, R2) /\ \A x \in Oid : g2[x] = Dead \/ SameButRef(g2[x], g[x])
  <2>1. R[o] >= 1 /\ \A x \in Oid : R[x] >= 0
    BY <1>11, <1>14 DEF One
  <2>2. Contents(g, o) \subseteq Oid
    BY <1>11, <1>13, FineType
  <2> QED BY <1>11, <1>13, <2>1, <2>2, DecrFine
<1>18. Exactly(R2, {})
  <2> SUFFICES ASSUME NEW x \in Oid PROVE R2[x] = One({}, x)
    BY DEF Exactly
  <2> QED BY <1>14 DEF Minus, One
<1>19. g2[a].type # "free"
  <2>1. a # o
    BY <1>11
  <2>2. g2[a].type = g[a].type
    <3>1. g[o].elems = <<>> /\ g[o].members = {} /\ g = [x \in Oid |-> g[x]]
      <4>1. Shaped(g[o]) /\ g \in [Oid -> Object]
        BY <1>11, <1>13, FineType
      <4> QED BY <1>16, <4>1 DEF Shaped, IsStr
    <3>2. g2 = Down(g, {o})
      BY <1>11, <3>1, DecrString
    <3> QED BY <1>6, <2>1, <3>2 DEF Down
  <2> QED BY <1>16, <2>2 DEF IsStr
<1>20. Answer(incrRefCount(g2, a), <<>>, {a})
  BY <1>7, <1>15
<1> HIDE DEF g2, R2
<1> QED BY <1>2, <1>6, <1>17, <1>18, <1>19, <1>20, HeldKeeps

----------------------------------------------------------------------------
(* Commands over sets *)

LEMMA SetFacts ==
    ASSUME KInv, NEW s \in Oid, heap[s].type = "set"
    PROVE  /\ heap[s].members \in SUBSET Oid /\ AllStr(heap, heap[s].members)
           /\ \A t \in Oid : IsStr(heap, t) => t # s
<1>1. HeapOK(heap) /\ Shaped(heap[s])
  BY FineType DEF KInv, Fine
<1> QED BY <1>1 DEF HeapOK, Shaped, Object, Contents, AllStr, IsStr

LEMMA sremKeeps ==
    ASSUME KInv, NEW d \in Db, NEW k, NEW m, sremCommand(d, k, m)
    PROVE  KInv'
<1>1. PICK e \in Typed(d, k, "set") :
        \E o \in Member(heap[e.val].members, m) :
          Answer(SetMembers(heap, e.val, heap[e.val].members \ {o}), <<>>, {o})
  BY DEF sremCommand
<1> DEFINE s == e.val
           M == heap[s].members
<1>2. PICK o \in Member(M, m) : Answer(SetMembers(heap, s, M \ {o}), <<>>, {o})
  BY <1>1
<1>3. s \in Oid /\ heap[s].type = "set"
  BY EntryFacts DEF Typed, Named
<1>4. Answer(SetMembers(heap, s, M \ {o}), <<>>, {o}) /\ o \in M
  BY <1>2 DEF Member
<1> HIDE DEF s
<1>5. M \in SUBSET Oid /\ AllStr(heap, M)
  BY <1>3, SetFacts
<1> DEFINE N == M \ {o}
           g == SetMembers(heap, s, N)
           P == Minus(Plus(None, M), N)
<1>6. N \in SUBSET Oid /\ AllStr(heap, N)
  BY <1>5 DEF AllStr
<1>7. ASSUME NEW x \in Oid PROVE P[x] = One({o}, x)
  BY <1>4 DEF Plus, Minus, None, One
<1>8. Fine(g, db, reply, P)
  <2>1. Fine(heap, db, reply, None)
    BY DEF KInv
  <2> HIDE DEF N
  <2> QED BY <1>3, <1>6, <2>1, RememberFine
<1>9. SameKeys /\ Counted
  BY DEF sremCommand
<1> HIDE DEF g, P
<1>10. Fine(g, db', reply, P) /\ {o} \in SUBSET Oid /\ Answer(g, <<>>, {o})
  BY <1>4, <1>5, <1>8, <1>9 DEF SameKeys, g
<1> QED BY <1>7, <1>9, <1>10, EmptyAnswer, AnswerKeeps

LEMMA SetsOfFacts ==
    ASSUME KInv, NEW d \in Db, NEW ks, NEW s \in SetsOf(d, ks)
    PROVE  s \in Oid /\ heap[s].type = "set" /\ s \in Owned(db)
<1>1. PICK k \in ks : s \in {e.val : e \in Typed(d, k, "set")}
  BY DEF SetsOf
<1>2. PICK e \in Typed(d, k, "set") : s = e.val
  BY <1>1
<1>3. e \in db[d] /\ heap[e.val].type = "set"
  BY DEF Typed, Named
<1> QED BY <1>2, <1>3, EntryFacts

LEMMA sinterKeeps ==
    ASSUME KInv, NEW d \in Db, NEW ks, sinterCommand(d, ks)
    PROVE  KInv'
<1>1. PICK s \in Smallest(SetsOf(d, ks)) :
        \E os \in Walks(Common(s, SetsOf(d, ks))) : Answer(heap, os, {})
  BY DEF sinterCommand
<1> DEFINE C == Common(s, SetsOf(d, ks))
<1>2. PICK os \in Walks(C) : Answer(heap, os, {})
  BY <1>1
<1>3. s \in Oid /\ heap[s].type = "set"
  BY SetsOfFacts DEF Smallest
<1>4. C \in SUBSET Oid /\ AllStr(heap, C)
  <2>1. heap[s].members \in SUBSET Oid /\ AllStr(heap, heap[s].members)
    BY <1>3, SetFacts
  <2>2. C \subseteq heap[s].members
    BY DEF Common
  <2> HIDE DEF C
  <2> QED BY <2>1, <2>2 DEF AllStr
<1> HIDE DEF C
<1>5. os \in Seq(Oid) /\ AllStr(heap, ToSet(os))
  <2>1. os \in BoundedSeq(C, MaxAnswer)
    BY DEF Walks
  <2> QED BY <1>4, <2>1, WalkAnswer
<1>6. SameKeys /\ Uncounted
  BY DEF sinterCommand
<1> QED BY <1>2, <1>5, <1>6, ReadKeeps

LEMMA sortKeeps ==
    ASSUME KInv, NEW d \in Db, NEW k, sortCommand(d, k)
    PROVE  KInv'
<1>1. PICK e \in Named(d, k) :
        LET vector  == ToSet(heap[e.val].elems) \union heap[e.val].members
            strings == {f.val : f \in {g \in db[d] : heap[g.val].type = "string"}}
        IN  \/ /\ \E os \in Walks(vector) \union BoundedSeq(strings, MaxAnswer) :
                    Answer(incrRefCount(heap, e.val), os, {e.val})
               /\ SameKeys /\ Uncounted
            \/ Ends("aborted")
  BY DEF sortCommand
<1> DEFINE v0 == e.val
           vector  == Contents(heap, v0)
           strings == {f.val : f \in {g \in db[d] : heap[g.val].type = "string"}}
           g0 == Up(heap, {v0})
           P == Plus(None, {v0})
<1>2. CASE Ends("aborted")
  BY <1>2, EndsKeeps
<1>3. ASSUME NEW os \in Walks(vector) \union BoundedSeq(strings, MaxAnswer),
             Answer(incrRefCount(heap, v0), os, {v0}), SameKeys, Uncounted
      PROVE  KInv'
  <2>1. v0 \in Oid /\ heap[v0].type # "free" /\ Fine(heap, db, reply, None)
    BY EntryFacts DEF Named, KInv
  <2>2. strings \in SUBSET Oid /\ AllStr(heap, strings)
    BY EntryFacts DEF AllStr, IsStr
  <2> HIDE DEF strings, v0
  <2>3. vector \in SUBSET Oid /\ AllStr(heap, vector)
    <3>1. HeapOK(heap) /\ vector \subseteq Oid
      BY <2>1, FineType DEF Fine
    <3> QED BY <2>1, <3>1 DEF HeapOK, AllStr
  <2> HIDE DEF vector
  <2>4. Fine(g0, db, reply, P) /\ \A o \in Oid : SameButRef(g0[o], heap[o])
    <3>1. {v0} \in SUBSET Oid /\ \A o \in {v0} : heap[o].type # "free"
      BY <2>1
    <3> QED BY <2>1, <3>1, UpFine
  <2>5. ASSUME NEW S \in SUBSET Oid, AllStr(heap, S) PROVE AllStr(g0, S)
    BY <2>4, <2>5 DEF AllStr, IsStr, SameButRef
  <2>6. AllStr(g0, strings) /\ AllStr(g0, vector)
    BY <2>2, <2>3, <2>5
  <2>7. os \in BoundedSeq(vector, MaxAnswer) \/ os \in BoundedSeq(strings, MaxAnswer)
    BY DEF Walks
  <2> HIDE DEF g0, P
  <2>8. os \in Seq(Oid) /\ AllStr(g0, ToSet(os))
    BY <2>2, <2>3, <2>6, <2>7, WalkAnswer
  <2>9. ASSUME NEW x \in Oid PROVE P[x] = One({v0}, x)
    BY DEF P, Plus, None, One
  <2>10. Fine(g0, db', reply, P) /\ {v0} \in SUBSET Oid /\ Answer(g0, os, {v0})
    BY <1>3, <2>1, <2>4 DEF SameKeys, g0, incrRefCount
  <2> QED BY <1>3, <2>8, <2>9, <2>10, AnswerKeeps
<1> QED BY <1>1, <1>2, <1>3 DEF Contents

(* SINTERSTORE makes its key and an empty set. *)
LEMMA DestinationFine ==
    ASSUME KInv, Begin(2), NEW k \in Str
    PROVE  LET a == Slot(1)
               b == Slot(2)
               g == Put(Given(<<k>>), b, Set({})) IN
           /\ a \in Oid /\ b \in Oid /\ a # b /\ heap[a].type = "free" /\ heap[b].type = "free"
           /\ Fine(g, db, reply, Plus(Plus(None, {a}), {b}))
           /\ g[b] = Set({}) /\ IsStr(g, a) /\ \A x \in Oid \ {a, b} : g[x] = heap[x]
           /\ New(g, db, a) /\ New(g, db, b)
<1> DEFINE a == Slot(1)
           b == Slot(2)
           h == Given(<<k>>)
           obj == Set({})
           g == Put(h, b, obj)
           P == Plus(None, {a})
<1>1. /\ a \in Oid /\ b \in Oid /\ a # b
      /\ heap[a].type = "free" /\ heap[b].type = "free"
  <2>1. 1 \in 1..2 /\ 2 \in 1..2 /\ 2 \in Nat
    OBVIOUS
  <2> QED BY <2>1, SlotsFree
<1>2. Begin(1)
  <2>1. FreeSlots \in SUBSET Oid
    BY DEF FreeSlots
  <2>2. Cardinality(FreeSlots) \in Nat
    BY <2>1, OidFinite
  <2> QED BY <2>2 DEF Begin
<1>3. /\ IsStr(h, a) /\ \A x \in Oid \ {a} : h[x] = heap[x]
      /\ Fine(h, db, reply, P) /\ New(h, db, a)
  BY <1>2, OneGiven
<1>4. Plain(obj)
  BY NewShapes
<1> HIDE DEF h, a, b, P, obj
<1>5. h[b].type = "free"
  BY <1>1, <1>3
<1>6. /\ Fine(g, db, reply, Plus(P, {b})) /\ g[b] = obj
      /\ SameBut(g, h, {b})
      /\ New(g, db, b) /\ NewStay(g, h, db)
  BY <1>1, <1>3, <1>4, <1>5, FreshFine
<1>7. IsStr(g, a) /\ New(g, db, a) /\ \A x \in Oid \ {a, b} : g[x] = heap[x]
  BY <1>1, <1>3, <1>6 DEF SameBut, NewStay, IsStr
<1> QED BY <1>1, <1>6, <1>7 DEF h, a, b, P, obj

(* What SINTERSTORE has found is in a set that stays. *)
LEMMA CommonStays ==
    ASSUME KInv, NEW d \in Db, NEW ks, NEW to, NEW s \in SetsOf(d, ks),
           to \in ks => s \notin KeysOf(Named(d, to)) \union ValsOf(Named(d, to)),
           NEW M \in SUBSET (IF to \in ks THEN {} ELSE Common(s, SetsOf(d, ks)))
    PROVE  /\ s \in Oid /\ heap[s].type = "set"
           /\ M \subseteq heap[s].members /\ M \in SUBSET Oid /\ AllStr(heap, M)
           /\ s \notin KeysOf(Named(d, to)) \union ValsOf(Named(d, to))
<1>1. s \in Oid /\ heap[s].type = "set"
  BY SetsOfFacts
<1>2. M \subseteq heap[s].members
  BY DEF Common
<1>3. M \in SUBSET Oid /\ AllStr(heap, M)
  BY <1>1, <1>2, SetFacts DEF AllStr
<1>4. CASE to \notin ks
  <2>1. PICK k \in ks : s \in {e.val : e \in Typed(d, k, "set")}
    BY DEF SetsOf
  <2>2. PICK e \in Typed(d, k, "set") : s = e.val
    BY <2>1
  <2>3. e \in db[d] /\ heap[e.key].str = k /\ k # to
    BY <1>4, <2>1 DEF Typed, Named
  <2>4. DbOK(heap, db)
    BY DEF KInv, Fine
  <2>5. ASSUME NEW f \in Named(d, to) PROVE s # f.key /\ s # f.val
    <3>1. f \in db[d] /\ heap[f.key].str = to
      BY DEF Named
    <3> QED BY <2>2, <2>3, <2>4, <3>1 DEF DbOK
  <2> QED BY <1>1, <1>2, <1>3, <2>5 DEF KeysOf, ValsOf
<1> QED BY <1>1, <1>2, <1>3, <1>4

LEMMA storedKeeps ==
    ASSUME KInv, Begin(2), Uncounted, NEW d \in Db, NEW k \in Str, NEW N \in SUBSET db[d],
           NEW s \in Oid, heap[s].type = "set", NEW M \in SUBSET Oid, M \subseteq heap[s].members,
           AllStr(heap, M), s \notin KeysOf(N) \union ValsOf(N),
           Rebind(d, N, {Entry(Slot(1), Slot(2))}),
           Answer(Up(decrAll([Given(<<k>>) EXCEPT ![Slot(2)] = Set(M)], KeysOf(N) \union ValsOf(N)),
                     M \union {Slot(1)}),
                  <<>>, {Slot(1)})
    PROVE  KInv'
<1> DEFINE a == Slot(1)
           b == Slot(2)
           old == KeysOf(N) \union ValsOf(N)
           g0 == Put(Given(<<k>>), b, Set({}))
           g1 == SetMembers(g0, b, M)
           g2 == decrAll(g1, old)
           P0 == Plus(Plus(None, {a}), {b})
           P1 == Minus(Plus(P0, g0[b].members), M)
           P2 == Minus(Plus(P1, old), {a, b})
           P3 == Minus(P2, old)
           W == M \union {a}
<1>1. g1 = [Given(<<k>>) EXCEPT ![b] = Set(M)]
  <2>1. [Set({}) EXCEPT !.members = M] = Set(M)
    BY DEF Set, Dead
  <2>2. DOMAIN Given(<<k>>) = Oid
    BY DEF Given
  <2> HIDE DEF b
  <2> QED BY <2>1, <2>2 DEF SetMembers, Put
<1>2. Answer(Up(g2, W), <<>>, {a})
  BY <1>1
<1>3. /\ a \in Oid /\ b \in Oid /\ a # b /\ heap[a].type = "free" /\ heap[b].type = "free"
      /\ Fine(g0, db, reply, P0)
      /\ g0[b] = Set({}) /\ IsStr(g0, a) /\ \A x \in Oid \ {a, b} : g0[x] = heap[x]
      /\ New(g0, db, a) /\ New(g0, db, b)
  BY DestinationFine
<1>4. db' = [db EXCEPT ![d] = (@ \ N) \union {Entry(a, b)}]
  BY DEF Rebind
<1>5. g0[b].type = "set" /\ g0[b].members = {}
  BY <1>3, NewShapes DEF Plain
<1>6. old \in SUBSET Owned(db) /\ old \in SUBSET Oid
  BY EntryFacts DEF KeysOf, ValsOf
<1> HIDE DEF a, b, g0, P0
<1>7. /\ s # a /\ s # b /\ g0[s] = heap[s] /\ a \notin M /\ b \notin M
      /\ AllStr(g0, M) /\ a \notin old /\ b \notin old /\ a \notin Owned(db) /\ b \notin Owned(db)
  <2>1. s # a /\ s # b /\ a \notin M /\ b \notin M
    BY <1>3 DEF AllStr, IsStr
  <2> QED BY <1>3, <1>6, <2>1 DEF AllStr, IsStr, New
<1>8. /\ Fine(g1, db, reply, P1)
      /\ \A x \in Oid : g1[x].type = g0[x].type /\ g1[x].ref = g0[x].ref
      /\ \A x \in Oid : x # b => g1[x] = g0[x]
      /\ g1[b].members = M
  BY <1>3, <1>5, <1>7, RememberFine
<1> HIDE DEF g1, P1
<1>9. Fine(g1, db', reply, P2)
  <2>1. IsStr(g1, a) /\ g1[b].type # "free"
    BY <1>3, <1>5, <1>8 DEF IsStr
  <2>2. Fine(g1, [db EXCEPT ![d] = (@ \ N) \union {Entry(a, b)}], reply, P2)
    BY <1>3, <1>7, <1>8, <2>1, RebindFine
  <2> QED BY <1>4, <2>2
<1>10. ASSUME NEW x \in Oid PROVE P2[x] = One(old, x) - One(M, x)
  <2>1. x \in {a, b} => x \notin old /\ x \notin M
    BY <1>7
  <2> HIDE DEF old
  <2> QED BY <1>3, <1>5, <2>1 DEF P0, P1, Plus, Minus, None, One
<1> HIDE DEF P2
<1>11. ASSUME NEW x \in M PROVE Shielded(g1, old, x)
  <2>1. g1[s].type = "set" /\ x \in g1[s].members /\ g1[b].type = "set" /\ x \in g1[b].members
    BY <1>3, <1>5, <1>7, <1>8
  <2> QED BY <1>3, <1>7, <2>1 DEF Shielded
<1>12. Releasable(g1, P2, old)
  <2> HIDE DEF old
  <2>1. ASSUME NEW x \in old PROVE P2[x] >= 1 \/ (P2[x] >= 0 /\ Shielded(g1, old, x))
    <3>1. P2[x] = One(old, x) - One(M, x) /\ One(old, x) = 1
      BY <1>6, <1>10 DEF One
    <3> QED BY <1>11, <3>1 DEF One
  <2>2. ASSUME NEW x \in Oid PROVE P2[x] >= 0 \/ (P2[x] >= -1 /\ Shielded(g1, old, x))
    <3>1. P2[x] = One(old, x) - One(M, x) /\ One(old, x) \in Nat
      BY <1>10 DEF One
    <3> QED BY <1>11, <3>1 DEF One
  <2> QED BY <2>1, <2>2 DEF Releasable
<1>13. /\ Fine(g2, db', reply, P3)
       /\ \A x \in Oid : x \notin old /\ ~IsStr(g1, x) => g2[x] = g1[x]
  <2> HIDE DEF old
  <2> QED BY <1>6, <1>9, <1>12, DecrAllFine
<1> HIDE DEF g2
<1>14. \A x \in W : g2[x].type # "free"
  <2>1. HeapOK(g2) /\ DbOK(g2, db')
    BY <1>13 DEF Fine
  <2>2. g2[b] = g1[b]
    BY <1>3, <1>5, <1>7, <1>8, <1>13 DEF IsStr
  <2>3. \A x \in M : IsStr(g2, x)
    BY <1>3, <1>8, <2>1, <2>2 DEF HeapOK, Contents
  <2>4. IsStr(g2, a)
    <3>1. db \in [Db -> SUBSET Entries]
      BY <1>3, FineType
    <3>2. Entry(a, b) \in db'[d]
      BY <1>4, <3>1
    <3> QED BY <2>1, <3>2 DEF DbOK, Entry
  <2> QED BY <2>3, <2>4 DEF IsStr
<1>15. W \in SUBSET Oid
  BY <1>3
<1>16. ASSUME NEW x \in Oid PROVE Plus(P3, W)[x] = One({a}, x)
  <2>1. P2[x] = One(old, x) - One(M, x)
    BY <1>10
  <2> HIDE DEF old
  <2> QED BY <1>7, <2>1 DEF Plus, Minus, One
<1> HIDE DEF W, P3
<1>17. Fine(Up(g2, W), db', reply, Plus(P3, W))
  BY <1>13, <1>14, <1>15, UpFine
<1>18. {a} \in SUBSET Oid
  BY <1>3
<1> QED BY <1>2, <1>16, <1>17, <1>18, EmptyAnswer, AnswerKeeps

LEMMA sinterstoreKeeps ==
    ASSUME KInv, NEW d \in Db, NEW to \in Str, NEW ks, sinterstoreCommand(d, to, ks)
    PROVE  KInv'
<1> DEFINE S == SetsOf(d, ks)
           N == Named(d, to)
           old == KeysOf(N) \union ValsOf(N)
<1>1. CASE Ends("wild")
  BY <1>1, EndsKeeps
<1>2. ASSUME NEW s \in Smallest(S), Begin(2), Uncounted, to \in ks => s \notin old,
             Rebind(d, N, {Entry(Slot(1), Slot(2))}),
             NEW M \in SUBSET (IF to \in ks THEN {} ELSE Common(s, S)),
             Answer(Up(decrAll([Given(<<to>>) EXCEPT ![Slot(2)] = Set(M)], old), M \union {Slot(1)}),
                    <<>>, {Slot(1)})
      PROVE  KInv'
  <2>1. s \in S
    BY DEF Smallest
  <2>2. /\ s \in Oid /\ heap[s].type = "set"
        /\ M \subseteq heap[s].members /\ M \in SUBSET Oid /\ AllStr(heap, M)
        /\ s \notin old
    BY <1>2, <2>1, CommonStays
  <2>3. N \in SUBSET db[d]
    BY DEF Named
  <2> HIDE DEF N
  <2> QED BY <1>2, <2>2, <2>3, storedKeeps
<1>3. Slots(2)[1] = Slot(1) /\ Slots(2)[2] = Slot(2)
  BY DEF Slots
<1>4. {e.key : e \in N} \union {e.val : e \in N} = old
  BY DEF KeysOf, ValsOf
<1> HIDE DEF old
<1> QED BY <1>1, <1>2, <1>3, <1>4 DEF sinterstoreCommand

----------------------------------------------------------------------------
(* The invariant *)

LEMMA KInvStarts == Init => KInv
BY StartFine DEF Init, KInv

LEMMA KInvStays == KInv /\ [Next]_vars => KInv'
<1> SUFFICES ASSUME KInv, [Next]_vars PROVE KInv'
  OBVIOUS
<1>1. ASSUME NEW m \in Str, echoCommand(m) PROVE KInv'
  BY <1>1, echoKeeps
<1>2. ASSUME NEW d \in Db, NEW k \in Str, NEW v \in Str, NEW nx \in BOOLEAN, setGenericCommand(d, k, v, nx)
      PROVE  KInv'
  BY <1>2, setGenericKeeps
<1>3. ASSUME NEW d \in Db, NEW k \in Str, getCommand(d, k) PROVE KInv'
  BY <1>3, getKeeps
<1>4. ASSUME NEW d \in Db, NEW k \in Str, incrDecrCommand(d, k) PROVE KInv'
  BY <1>4, incrDecrKeeps
<1>5. ASSUME NEW d \in Db, NEW k \in Str, delCommand(d, k) PROVE KInv'
  BY <1>5, delKeeps
<1>6. ASSUME NEW d \in Db, NEW k \in Str, NEW l \in Str, NEW nx \in BOOLEAN,
             renameGenericCommand(d, k, l, nx)
      PROVE  KInv'
  BY <1>6, renameKeeps
<1>7. ASSUME NEW d \in Db, NEW to \in Db, NEW k \in Str, moveCommand(d, k, to) PROVE KInv'
  BY <1>7, moveKeeps
<1>8. ASSUME NEW d \in Db, keysCommand(d) PROVE KInv'
  BY <1>8, keysKeeps
<1>9. ASSUME NEW d \in Db, randomkeyCommand(d) PROVE KInv'
  BY <1>9, randomkeyKeeps
<1>10. ASSUME NEW d \in Db, flushdbCommand(d) PROVE KInv'
  <2>1. {d} \in SUBSET Db /\ Emptied({d})
    BY <1>10 DEF flushdbCommand
  <2> QED BY <2>1, EmptiedKeeps
<1>11. CASE flushallCommand
  <2>1. Db \in SUBSET Db /\ Emptied(Db)
    BY <1>11 DEF flushallCommand
  <2> QED BY <2>1, EmptiedKeeps
<1>12. ASSUME NEW d \in Db, NEW k \in Str, NEW v \in Str, pushTail(d, k, v) PROVE KInv'
  BY <1>12, pushTailKeeps
<1>13. ASSUME NEW d \in Db, NEW k \in Str, pushHead(d, k) PROVE KInv'
  BY <1>13, EndsKeeps DEF pushHead
<1>14. ASSUME NEW d \in Db, NEW k \in Str, NEW i \in Index, lindexCommand(d, k, i) PROVE KInv'
  BY <1>14, lindexKeeps
<1>15. ASSUME NEW d \in Db, NEW k \in Str, NEW v \in Str, NEW i \in Index, lsetCommand(d, k, i, v)
       PROVE  KInv'
  BY <1>15, lsetKeeps
<1>16. ASSUME NEW d \in Db, NEW k \in Str, NEW head \in BOOLEAN, popGenericCommand(d, k, head)
       PROVE  KInv'
  BY <1>16, popKeeps
<1>17. ASSUME NEW d \in Db, NEW k \in Str, NEW i \in Index, NEW j \in Index, lrangeCommand(d, k, i, j)
       PROVE  KInv'
  BY <1>17, IndexAssumption, lrangeKeeps
<1>18. ASSUME NEW d \in Db, NEW k \in Str, NEW i \in Index, NEW j \in Index, ltrimCommand(d, k, i, j)
       PROVE  KInv'
  BY <1>18, IndexAssumption, ltrimKeeps
<1>19. ASSUME NEW d \in Db, NEW k \in Str, NEW m \in Str, saddCommand(d, k, m) PROVE KInv'
  BY <1>19, saddKeeps
<1>20. ASSUME NEW d \in Db, NEW k \in Str, NEW m \in Str, sremCommand(d, k, m) PROVE KInv'
  BY <1>20, sremKeeps
<1>21. ASSUME NEW d \in Db, NEW ks \in SUBSET Str, sinterCommand(d, ks) PROVE KInv'
  BY <1>21, sinterKeeps
<1>22. ASSUME NEW d \in Db, NEW to \in Str, NEW ks \in SUBSET Str, sinterstoreCommand(d, to, ks)
       PROVE  KInv'
  BY <1>22, sinterstoreKeeps
<1>23. ASSUME NEW d \in Db, NEW k \in Str, sortCommand(d, k) PROVE KInv'
  BY <1>23, sortKeeps
<1>24. CASE strayCommand
  BY <1>24, EndsKeeps DEF strayCommand
<1>25. CASE sendReplyToClient
  BY <1>25, sendReplyKeeps
<1>26. CASE UNCHANGED vars
  <2>1. heap' = heap /\ db' = db /\ reply' = reply /\ dirty' = dirty /\ fate' = fate
    BY <1>26 DEF vars
  <2> QED BY <2>1 DEF KInv
<1> QED
  BY <1>1, <1>2, <1>3, <1>4, <1>5, <1>6, <1>7, <1>8, <1>9, <1>10, <1>11, <1>12, <1>13, <1>14,
     <1>15, <1>16, <1>17, <1>18, <1>19, <1>20, <1>21, <1>22, <1>23, <1>24, <1>25, <1>26 DEF Next

LEMMA KInvAlways == Spec => []KInv
BY KInvStarts, KInvStays, PTL DEF Spec

(* The invariant has the types of every pointer in it. *)
LEMMA KInvTypes == KInv => TypeOK
<1> SUFFICES ASSUME KInv PROVE TypeOK
  OBVIOUS
<1>1. /\ HeapOK(heap) /\ DbOK(heap, db) /\ ReplyOK(heap, reply)
      /\ dirty \in 0..1 /\ fate \in {"up", "aborted", "wild"}
  BY DEF KInv, Fine
<1>2. ASSUME NEW o \in Oid, IsStr(heap, o) PROVE IsString(o)
  BY <1>1, <1>2 DEF HeapOK, Shaped, IsStr, IsString
<1>3. heap \in [Oid -> Object] /\ db \in [Db -> SUBSET [key : Oid, val : Oid]] /\ reply \in Seq(Oid)
  BY <1>1 DEF HeapOK, DbOK, ReplyOK, Entries
<1>4. \A d \in Db : \A e \in db[d] : IsString(e.key) /\ heap[e.val].type # "free"
  <2> TAKE d \in Db
  <2> TAKE e \in db[d]
  <2>1. e.key \in Oid
    BY <1>3
  <2> QED BY <1>1, <1>2, <2>1 DEF DbOK
<1>5. \A o \in Oid : \A x \in ToSet(heap[o].elems) \union heap[o].members : IsString(x)
  <2> TAKE o \in Oid
  <2>1. Contents(heap, o) \subseteq Oid
    BY FineType DEF KInv
  <2> QED BY <1>1, <1>2, <2>1 DEF HeapOK, Contents
<1>6. \A o \in ToSet(reply) : IsString(o)
  <2> TAKE o \in ToSet(reply)
  <2>1. PICK i \in DOMAIN reply : o = reply[i]
    BY DEF ToSet
  <2>2. o \in Oid /\ IsStr(heap, o)
    BY <1>1, <1>3, <2>1 DEF ReplyOK
  <2> QED BY <1>2, <2>2
<1> QED BY <1>1, <1>3, <1>4, <1>5, <1>6 DEF TypeOK

LEMMA AtMostOne ==
    ASSUME NEW S, \A x, y \in S : x = y
    PROVE  Cardinality(S) = IF S = {} THEN 0 ELSE 1
<1>1. CASE S = {}
  BY <1>1, FS_EmptySet
<1>2. CASE S # {}
  <2>1. PICK x \in S : S = {x}
    BY <1>2
  <2> QED BY <2>1, FS_Singleton
<1> QED BY <1>1, <1>2

(* Entries that are counted by key and by value are counted once. *)
LEMMA EntriesCount ==
    ASSUME KInv, NEW o \in Oid
    PROVE  LET entries == UNION {{<<d, e>> : e \in db[d]} : d \in Db}
               K == {x \in entries : x[2].key = o}
               V == {x \in entries : x[2].val = o} IN
           Cardinality(K) + Cardinality(V) = One(Owned(db), o)
<1> DEFINE entries == UNION {{<<d, e>> : e \in db[d]} : d \in Db}
           K == {x \in entries : x[2].key = o}
           V == {x \in entries : x[2].val = o}
<1>1. DbOK(heap, db)
  BY DEF KInv, Fine
<1>2. ASSUME NEW x \in entries PROVE \E d \in Db : \E e \in db[d] : x = <<d, e>>
  <2>1. PICK d \in Db : x \in {<<d, e>> : e \in db[d]}
    OBVIOUS
  <2> QED BY <2>1
<1>3. ASSUME NEW d \in Db, NEW e \in db[d] PROVE <<d, e>> \in entries /\ <<d, e>>[2] = e
  OBVIOUS
<1> HIDE DEF entries
<1>4. ASSUME NEW x \in entries, NEW y \in entries
      PROVE  /\ x[2].key # y[2].val
             /\ x[2].key = y[2].key \/ x[2].val = y[2].val => x = y
  <2>1. PICK c \in Db : \E e \in db[c] : x = <<c, e>>
    BY <1>2
  <2>2. PICK e \in db[c] : x = <<c, e>>
    BY <2>1
  <2>3. PICK d \in Db : \E f \in db[d] : y = <<d, f>>
    BY <1>2
  <2>4. PICK f \in db[d] : y = <<d, f>>
    BY <2>3
  <2>5. x[2] = e /\ y[2] = f
    BY <2>2, <2>4
  <2>6. /\ e.key # f.val
        /\ e.key = f.key \/ e.val = f.val => c = d /\ e = f
    BY <1>1 DEF DbOK
  <2> QED BY <2>2, <2>4, <2>5, <2>6
<1>5. Cardinality(K) = (IF K = {} THEN 0 ELSE 1) /\ Cardinality(V) = (IF V = {} THEN 0 ELSE 1)
  <2>1. (\A x, y \in K : x = y) /\ (\A x, y \in V : x = y)
    BY <1>4
  <2> HIDE DEF K, V
  <2> QED BY <2>1, AtMostOne
<1>6. K = {} \/ V = {}
  <2> SUFFICES ASSUME NEW x \in K, NEW y \in V PROVE FALSE
    OBVIOUS
  <2> QED BY <1>4
<1>7. (K # {} \/ V # {}) <=> o \in Owned(db)
  <2>1. ASSUME NEW x \in entries, x[2].key = o \/ x[2].val = o PROVE o \in Owned(db)
    <3>1. PICK c \in Db : \E e \in db[c] : x = <<c, e>>
      BY <1>2
    <3>2. PICK e \in db[c] : x = <<c, e>>
      BY <3>1
    <3>3. x[2] = e
      BY <3>2
    <3> QED BY <2>1, <3>3 DEF Owned
  <2>2. ASSUME o \in Owned(db) PROVE K # {} \/ V # {}
    <3>1. PICK d \in Db : \E e \in db[d] : o = e.key \/ o = e.val
      BY <2>2 DEF Owned
    <3>2. PICK e \in db[d] : o = e.key \/ o = e.val
      BY <3>1
    <3>3. <<d, e>> \in entries /\ <<d, e>>[2] = e
      BY <1>3
    <3> QED BY <3>2, <3>3
  <2> QED BY <2>1, <2>2
<1> HIDE DEF K, V
<1>8. Cardinality(K) + Cardinality(V) = One(Owned(db), o)
  BY <1>5, <1>6, <1>7 DEF One
<1> QED BY <1>8 DEF K, V, entries

LEMMA NodesCount ==
    ASSUME KInv, NEW o \in Oid
    PROVE  LET nodes == UNION {{<<l, p>> : p \in DOMAIN heap[l].elems} : l \in Oid}
               N == {x \in nodes : heap[x[1]].elems[x[2]] = o} IN
           Cardinality(N) = One(Nodes(heap), o)
<1> DEFINE nodes == UNION {{<<l, p>> : p \in DOMAIN heap[l].elems} : l \in Oid}
           N == {x \in nodes : heap[x[1]].elems[x[2]] = o}
<1>1. HeapOK(heap)
  BY DEF KInv, Fine
<1>2. ASSUME NEW x \in nodes PROVE \E l \in Oid : \E p \in DOMAIN heap[l].elems : x = <<l, p>>
  <2>1. PICK l \in Oid : x \in {<<l, p>> : p \in DOMAIN heap[l].elems}
    OBVIOUS
  <2> QED BY <2>1
<1>3. ASSUME NEW l \in Oid, NEW p \in DOMAIN heap[l].elems PROVE <<l, p>> \in nodes
  OBVIOUS
<1> HIDE DEF nodes
<1>4. ASSUME NEW x \in N
      PROVE  \E l \in Oid : \E p \in DOMAIN heap[l].elems :
                x = <<l, p>> /\ heap[l].elems[p] = o /\ o \in ToSet(heap[l].elems)
  <2>1. PICK l \in Oid : \E p \in DOMAIN heap[l].elems : x = <<l, p>>
    BY <1>2
  <2>2. PICK p \in DOMAIN heap[l].elems : x = <<l, p>>
    BY <2>1
  <2>3. x[1] = l /\ x[2] = p
    BY <2>2
  <2>4. heap[l].elems[p] = o
    BY <2>3
  <2>5. o \in ToSet(heap[l].elems)
    BY <2>4 DEF ToSet
  <2> QED BY <2>2, <2>4, <2>5
<1>5. \A x, y \in N : x = y
  <2> TAKE x, y \in N
  <2>1. PICK l \in Oid : \E p \in DOMAIN heap[l].elems :
           x = <<l, p>> /\ heap[l].elems[p] = o /\ o \in ToSet(heap[l].elems)
    BY <1>4
  <2>2. PICK p \in DOMAIN heap[l].elems :
           x = <<l, p>> /\ heap[l].elems[p] = o /\ o \in ToSet(heap[l].elems)
    BY <2>1
  <2>3. PICK m \in Oid : \E q \in DOMAIN heap[m].elems :
           y = <<m, q>> /\ heap[m].elems[q] = o /\ o \in ToSet(heap[m].elems)
    BY <1>4
  <2>4. PICK q \in DOMAIN heap[m].elems :
           y = <<m, q>> /\ heap[m].elems[q] = o /\ o \in ToSet(heap[m].elems)
    BY <2>3
  <2>5. l = m /\ IsInjective(heap[l].elems)
    BY <1>1, <2>2, <2>4 DEF HeapOK
  <2>6. p = q
    BY <2>2, <2>4, <2>5 DEF IsInjective
  <2> QED BY <2>2, <2>4, <2>5, <2>6
<1>6. N # {} <=> o \in Nodes(heap)
  <2>1. ASSUME NEW x \in N PROVE o \in Nodes(heap)
    BY <1>4 DEF Nodes
  <2>2. ASSUME o \in Nodes(heap) PROVE N # {}
    <3>1. PICK l \in Oid : o \in ToSet(heap[l].elems)
      BY <2>2 DEF Nodes
    <3>2. PICK p \in DOMAIN heap[l].elems : heap[l].elems[p] = o
      BY <3>1 DEF ToSet
    <3>3. <<l, p>> \in nodes /\ <<l, p>>[1] = l /\ <<l, p>>[2] = p
      BY <1>3
    <3> QED BY <3>2, <3>3
  <2> QED BY <2>1, <2>2
<1> HIDE DEF N
<1>7. Cardinality(N) = One(Nodes(heap), o)
  BY <1>5, <1>6, AtMostOne DEF One
<1> QED BY <1>7 DEF N, nodes

LEMMA KInvCounts == KInv => RefsExact
<1> SUFFICES ASSUME KInv, NEW o \in Oid
             PROVE  heap[o].ref = Holders(o) /\ (heap[o].ref = 0 <=> heap[o] = Dead)
  BY DEF RefsExact
<1> DEFINE entries == UNION {{<<d, e>> : e \in db[d]} : d \in Db}
           nodes   == UNION {{<<l, p>> : p \in DOMAIN heap[l].elems} : l \in Oid}
           k == Cardinality({x \in entries : x[2].key = o})
           v == Cardinality({x \in entries : x[2].val = o})
           n == Cardinality({x \in nodes : heap[x[1]].elems[x[2]] = o})
           s == Cardinality({t \in Oid : o \in heap[t].members})
           p == Cardinality({i \in DOMAIN reply : reply[i] = o})
<1>1. Holders(o) = k + v + n + s + p
  BY DEF Holders
<1>2. k + v = One(Owned(db), o)
  BY EntriesCount
<1>3. n = One(Nodes(heap), o)
  BY NodesCount
<1>4. s = Cardinality(SetsWith(heap, o)) /\ p = Cardinality(Spots(reply, o))
  BY DEF SetsWith, Spots
<1> HIDE DEF k, v, n, s, p
<1>5. Holders(o) = Held(heap, db, reply, o)
  BY <1>1, <1>2, <1>3, <1>4 DEF Held
<1>6. /\ heap[o].ref = Held(heap, db, reply, o) + None[o] /\ Held(heap, db, reply, o) \in Nat
      /\ Shaped(heap[o]) /\ None[o] = 0
  BY FineType DEF KInv, None
<1>7. heap[o].ref = 0 <=> heap[o] = Dead
  BY <1>6, DeadShape DEF Shaped, Dead
<1> QED BY <1>5, <1>6, <1>7

----------------------------------------------------------------------------

(* Every pointer leads to an object of the type its user casts it to, after *)
(* any commands: nothing that is held has been freed.                       *)
THEOREM PointersAreTyped == Spec => []TypeOK
BY KInvAlways, KInvTypes, PTL

(* The count of an object is the number of its holders after any commands:  *)
(* none is freed too early and none is leaked.                              *)
THEOREM CountsAreHolders == Spec => []RefsExact
BY KInvAlways, KInvCounts, PTL

----------------------------------------------------------------------------
(* What a command leaves as it was.  Freed or not, no function that counts *)
(* changes what an object says.                                            *)
Fades(h, g) == \A x \in Oid : g[x].type # "free" => SameButRef(g[x], h[x])

LEMMA FadesFurther ==
    ASSUME NEW f, NEW g, NEW h, Fades(f, g), Fades(g, h)
    PROVE  Fades(f, h)
BY DEF Fades, SameButRef

LEMMA LooseCounting ==
    ASSUME NEW obj \in Loose, NEW n \in Int
    PROVE  Counting(obj, n) \in Loose /\ SameButRef(Counting(obj, n), obj) /\ obj.ref \in Int
<1> DEFINE T == {"free", "string", "list", "set"}
           V == Str \union {Nil}
           E == Seq(Oid)
           M == SUBSET Oid
<1>1. Loose = [type : T, ref : Int, str : V, elems : E, members : M]
  BY DEF Loose
<1> HIDE DEF T, V, E, M
<1>2. Counting(obj, n) = [obj EXCEPT !.ref = n]
  BY DEF Counting
<1> QED BY <1>1, <1>2 DEF SameButRef

LEMMA UpFades ==
    ASSUME NEW h \in Heaps, NEW S
    PROVE  Up(h, S) \in Heaps /\ Fades(h, Up(h, S))
<1>1. \A o \in Oid : h[o].ref \in Int /\ h[o] \in Loose
  BY LooseCounting DEF Heaps
<1>2. \A o \in Oid : Up(h, S)[o] = IF o \in S THEN Counting(h[o], h[o].ref + 1) ELSE h[o]
  BY DEF Up, Counting
<1>3. \A o \in Oid : Up(h, S)[o] \in Loose /\ SameButRef(Up(h, S)[o], h[o])
  <2> TAKE o \in Oid
  <2>1. h[o] \in Loose /\ h[o].ref \in Int /\ h[o].ref + 1 \in Int
    BY <1>1
  <2>2. Counting(h[o], h[o].ref + 1) \in Loose /\ SameButRef(Counting(h[o], h[o].ref + 1), h[o])
    BY <2>1, LooseCounting
  <2> QED BY <1>2, <2>1, <2>2 DEF SameButRef
<1>4. Up(h, S) = [o \in Oid |-> Up(h, S)[o]]
  BY DEF Up
<1> QED BY <1>3, <1>4 DEF Heaps, Fades

(* Nor does addReply. *)
LEMMA HoldingFades ==
    ASSUME NEW h \in Heaps, NEW os \in Seq(Oid)
    PROVE  Holding(h, os) \in Heaps /\ Fades(h, Holding(h, os))
<1>1. \A x : Cardinality(Spots(os, x)) \in Nat
  BY SpotsFinite
<1>2. \A x : {i \in DOMAIN os : os[i] = x} = Spots(os, x)
  BY DEF Spots
<1>3. \A o \in Oid : h[o].ref \in Int /\ h[o] \in Loose
  BY LooseCounting DEF Heaps
<1>4. \A o \in Oid : Holding(h, os)[o] = Counting(h[o], h[o].ref + Cardinality(Spots(os, o)))
  BY <1>2 DEF Holding, Counting
<1>5. \A o \in Oid : Holding(h, os)[o] \in Loose /\ SameButRef(Holding(h, os)[o], h[o])
  BY <1>1, <1>3, <1>4, LooseCounting
<1>6. Holding(h, os) = [o \in Oid |-> Holding(h, os)[o]]
  BY DEF Holding
<1> QED BY <1>5, <1>6 DEF Heaps, Fades

(* Nor do Down, *)
LEMMA DownFades ==
    ASSUME NEW h \in Heaps, NEW S
    PROVE  Down(h, S) \in Heaps /\ Fades(h, Down(h, S))
<1>1. Dead \in Loose /\ Dead.type = "free"
  BY DEF Dead, Loose
<1>2. \A o \in Oid : /\ Dropped(h[o]) \in Loose
                     /\ Dropped(h[o]).type # "free" => SameButRef(Dropped(h[o]), h[o])
  <2> SUFFICES ASSUME NEW o \in Oid
               PROVE  /\ Dropped(h[o]) \in Loose
                      /\ Dropped(h[o]).type # "free" => SameButRef(Dropped(h[o]), h[o])
    OBVIOUS
  <2>1. h[o] \in Loose /\ h[o].ref \in Int
    BY LooseCounting DEF Heaps
  <2>2. Dropped(h[o]) = IF h[o].ref = 1 THEN Dead ELSE Counting(h[o], h[o].ref - 1)
    BY DEF Dropped, Counting
  <2> QED BY <1>1, <2>1, <2>2, LooseCounting
<1> QED BY <1>2 DEF Down, Heaps, Fades, SameButRef

(* decrRefCount *)
LEMMA DecrFades ==
    ASSUME NEW h \in Heaps, NEW o \in Oid
    PROVE  decrRefCount(h, o) \in Heaps /\ Fades(h, decrRefCount(h, o))
<1> DEFINE g == Down(h, {o})
           S == ToSet(h[o].elems) \union h[o].members
<1>1. g \in Heaps /\ Fades(h, g)
  BY DownFades
<1>2. Down(g, S) \in Heaps /\ Fades(g, Down(g, S))
  BY <1>1, DownFades
<1>3. Fades(h, Down(g, S))
  BY <1>1, <1>2, FadesFurther
<1> QED BY <1>1, <1>2, <1>3 DEF decrRefCount

(* and decrAll, in any order. *)
LEMMA DecrAllFades ==
    ASSUME NEW h \in Heaps, NEW S \in SUBSET Oid
    PROVE  decrAll(h, S) \in Heaps /\ Fades(h, decrAll(h, S))
<1> DEFINE P == {p \in (SUBSET Oid) \X Heaps : Fades(h, p[2])}
<1>1. <<{}, h>> \in P
  BY DEF Fades, SameButRef
<1>2. \A T \in SUBSET S : \A x \in S \ T : \A g \in Heaps :
         <<T, g>> \in P => <<T \union {x}, decrRefCount(g, x)>> \in P
  <2> SUFFICES ASSUME NEW T \in SUBSET S, NEW x \in S \ T, NEW g \in Heaps, Fades(h, g)
               PROVE  decrRefCount(g, x) \in Heaps /\ Fades(h, decrRefCount(g, x))
    OBVIOUS
  <2>1. decrRefCount(g, x) \in Heaps /\ Fades(g, decrRefCount(g, x))
    BY DecrFades
  <2> QED BY <2>1, FadesFurther
<1> HIDE DEF P
<1>3. <<S, decrAll(h, S)>> \in P
  BY <1>1, <1>2, DecrAllReaches
<1> QED BY <1>3 DEF P

(* So an answer leaves what its heap says. *)
LEMMA AnswerFades ==
    ASSUME NEW h \in Heaps, NEW os \in Seq(Oid), NEW S \in SUBSET Oid, Answer(h, os, S)
    PROVE  Fades(h, heap') /\ reply' = reply \o os
<1>1. Holding(h, os) \in Heaps /\ Fades(h, Holding(h, os))
  BY HoldingFades
<1>2. Fades(Holding(h, os), decrAll(Holding(h, os), S))
  BY <1>1, DecrAllFades
<1> QED BY <1>1, <1>2, FadesFurther DEF Answer

(* The entries of one database, as a function from names to values. *)
Val(h, o) ==
    CASE h[o].type = "list" -> <<"list", [i \in DOMAIN h[o].elems |-> h[h[o].elems[i]].str]>>
      [] h[o].type = "set"  -> <<"set", {h[m].str : m \in h[o].members}>>
      [] OTHER              -> <<h[o].type, h[o].str>>
\* The names of entries, and the content they make.
Names(h, E) == {h[e.key].str : e \in E}
Cont(h, E) == [k \in Names(h, E) |-> Val(h, (CHOOSE e \in {f \in E : h[f.key].str = k} : TRUE).val)]
\* Entries of one database have different names.
Distinct(h, E) == \A e, f \in E : h[e.key].str = h[f.key].str => e = f

(* The content is made of that. *)
LEMMA ContentIs ==
    /\ Content = [d \in Db |-> Cont(heap, db[d])]
    /\ Content' = [d \in Db |-> Cont(heap', db'[d])]
BY DEF Content, Cont, Names, Named, Value, Val

(* What an entry makes of its name. *)
LEMMA ContAt ==
    ASSUME NEW h, NEW E, Distinct(h, E), NEW e \in E
    PROVE  h[e.key].str \in DOMAIN Cont(h, E) /\ Cont(h, E)[h[e.key].str] = Val(h, e.val)
<1>1. (CHOOSE x \in {f \in E : h[f.key].str = h[e.key].str} : TRUE) = e
  BY DEF Distinct
<1> QED BY <1>1 DEF Cont, Names

(* A database of which the names in K have gone, and those of N have come. *)
Recast(h, X, K, N) == {f \in X : h[f.key].str \notin K} \union N

(* Entries of other names say what they said. *)
AlikeOutside(h, g, X, K) ==
    \A f \in X : h[f.key].str \notin K =>
        g[f.key].str = h[f.key].str /\ Val(g, f.val) = Val(h, f.val)

(* What the content old becomes by that. *)
Follows(new, old, K, g, N) ==
    /\ DOMAIN new = (DOMAIN old \ K) \union Names(g, N)
    /\ \A k \in DOMAIN old \ K : new[k] = old[k]
    /\ \A n \in N : new[g[n.key].str] = Val(g, n.val)

(* Content follows entries, when the ones that stay say what they said. *)
LEMMA RecastContent ==
    ASSUME NEW h, NEW g, NEW X, Distinct(h, X), NEW K, NEW N, Distinct(g, N),
           NEW Y, Y = Recast(h, X, K, N), Names(g, N) \subseteq K, AlikeOutside(h, g, X, K)
    PROVE  Distinct(g, Y) /\ Follows(Cont(g, Y), Cont(h, X), K, g, N)
<1> USE DEF AlikeOutside
<1>1. Distinct(g, Y)
  BY DEF Distinct, Recast, Names
<1>2. Names(g, Y) = (Names(h, X) \ K) \union Names(g, N)
  BY DEF Names, Recast
<1>3. DOMAIN Cont(g, Y) = Names(g, Y) /\ DOMAIN Cont(h, X) = Names(h, X)
  BY DEF Cont
<1>4. \A n \in N : Cont(g, Y)[g[n.key].str] = Val(g, n.val)
  BY <1>1, ContAt DEF Recast
<1>5. ASSUME NEW k \in DOMAIN Cont(h, X) \ K
      PROVE  Cont(g, Y)[k] = Cont(h, X)[k]
  <2>1. PICK f \in X : h[f.key].str = k
    BY <1>3 DEF Names
  <2>2. f \in Y /\ g[f.key].str = k /\ Val(g, f.val) = Val(h, f.val)
    BY <2>1 DEF Recast
  <2>3. Cont(g, Y)[k] = Val(g, f.val)
    BY <1>1, <2>2, ContAt
  <2>4. Cont(h, X)[k] = Val(h, f.val)
    BY <2>1, ContAt
  <2> QED BY <2>2, <2>3, <2>4
<1> QED BY <1>1, <1>2, <1>3, <1>4, <1>5 DEF Follows

----------------------------------------------------------------------------
(* What is carried through a command *)

(* What both heaps have outside T says the same in both. *)
Carried(h, g, T) ==
    \A x \in Oid \ T : h[x].type # "free" /\ g[x].type # "free" => SameButRef(g[x], h[x])

(* T has only lists and sets: no name or element is among them. *)
Containers(h, T) == \A x \in T : h[x].type \in {"list", "set"}

(* A command carries what its heap has from before. *)
LEMMA CarriedBy ==
    ASSUME NEW h, NEW b, NEW g, NEW T, Fades(b, g),
           \A x \in Oid \ T : h[x].type # "free" => SameButRef(b[x], h[x])
    PROVE  Carried(h, g, T)
BY DEF Fades, Carried, SameButRef

(* What is pointed at is alive. *)
LEMMA InUse ==
    ASSUME NEW h, NEW D, NEW r, NEW pend, Fine(h, D, r, pend)
    PROVE  /\ \A d \in Db : \A e \in D[d] :
                 e.key \in Oid /\ e.val \in Oid /\ IsStr(h, e.key) /\ h[e.val].type # "free"
           /\ \A o \in Oid : \A x \in Contents(h, o) : x \in Oid /\ IsStr(h, x)
           /\ \A o \in Oid : DOMAIN h[o].elems = 1..Len(h[o].elems) /\ h[o].elems \in Seq(Oid)
           /\ \A x \in ToSet(r) : x \in Oid /\ IsStr(h, x)
<1>1. D \in [Db -> SUBSET [key : Oid, val : Oid]] /\ r \in Seq(Oid) /\ h \in [Oid -> Object]
  BY FineType DEF Entries
<1>2. \A d \in Db : \A e \in D[d] : e.key \in Oid /\ e.val \in Oid
  BY <1>1
<1>3. \A d \in Db : \A e \in D[d] : IsStr(h, e.key) /\ h[e.val].type # "free"
  BY DEF Fine, DbOK
<1>4. \A o \in Oid : \A x \in Contents(h, o) : x \in Oid /\ IsStr(h, x)
  BY FineType DEF Fine, HeapOK
<1>5. \A o \in Oid : DOMAIN h[o].elems = 1..Len(h[o].elems) /\ h[o].elems \in Seq(Oid)
  BY <1>1 DEF Object
<1>6. \A x \in ToSet(r) : x \in Oid /\ IsStr(h, x)
  BY <1>1 DEF Fine, ReplyOK, ToSet
<1> QED BY <1>2, <1>3, <1>4, <1>5, <1>6

(* A string that is held before and after says the same. *)
LEMMA StrKept ==
    ASSUME NEW h, NEW g, NEW T, Carried(h, g, T), Containers(h, T),
           NEW x \in Oid, IsStr(h, x), IsStr(g, x)
    PROVE  g[x].str = h[x].str
BY DEF Carried, Containers, IsStr, SameButRef

(* So does a value that the command does not change. *)
LEMMA ValKept ==
    ASSUME NEW h, NEW D, NEW r, NEW pend, Fine(h, D, r, pend),
           NEW g, NEW E, NEW s, NEW pend2, Fine(g, E, s, pend2),
           NEW T, Carried(h, g, T), Containers(h, T),
           NEW o \in Oid \ T, h[o].type # "free", g[o].type # "free"
    PROVE  Val(g, o) = Val(h, o)
<1>1. /\ g[o].type = h[o].type /\ g[o].str = h[o].str
      /\ g[o].elems = h[o].elems /\ g[o].members = h[o].members
  BY DEF Carried, SameButRef
<1>2. \A x \in ToSet(h[o].elems) \union h[o].members : g[x].str = h[x].str
  <2>1. \A x \in Contents(h, o) : x \in Oid /\ IsStr(h, x)
    BY InUse
  <2>2. \A x \in Contents(g, o) : x \in Oid /\ IsStr(g, x)
    BY InUse
  <2> QED BY <1>1, <2>1, <2>2, StrKept DEF Contents
<1>3. \A i \in DOMAIN h[o].elems : g[g[o].elems[i]].str = h[h[o].elems[i]].str
  BY <1>1, <1>2 DEF ToSet
<1>4. {g[m].str : m \in g[o].members} = {h[m].str : m \in h[o].members}
  BY <1>1, <1>2
<1>5. [i \in DOMAIN g[o].elems |-> g[g[o].elems[i]].str] = [i \in DOMAIN h[o].elems |-> h[h[o].elems[i]].str]
  BY <1>1, <1>3
<1> QED BY <1>1, <1>4, <1>5 DEF Val

(* Members of a set have different strings. *)
Sole(h, s) == \A x, y \in h[s].members : h[x].str = h[y].str => x = y

(* The invariant for the values: names and members are different strings. *)
VInv == /\ KInv
        /\ \A d \in Db : Distinct(heap, db[d])
        /\ \A s \in Oid : Sole(heap, s)

(* Sets take their members from single ones, or are as they should be. *)
Gathered(h, b, g) ==
    \A s \in Oid : (\E t \in Oid : b[s].members \subseteq h[t].members) \/ Sole(g, s)

(* Sets keep different members, whatever else changes. *)
LEMMA SoleKept ==
    ASSUME VInv, KInv', NEW b, NEW T, Carried(heap, heap', T), Containers(heap, T), Fades(b, heap'),
           Gathered(heap, b, heap')
    PROVE  \A s \in Oid : Sole(heap', s)
<1> SUFFICES ASSUME NEW s \in Oid, NEW t \in Oid, b[s].members \subseteq heap[t].members,
                    NEW x \in heap'[s].members, NEW y \in heap'[s].members, heap'[x].str = heap'[y].str
             PROVE  x = y
  BY DEF Sole, Gathered
<1>1. Fine(heap, db, reply, None) /\ Fine(heap', db', reply', None')
  BY DEF VInv, KInv
<1>2. x \in Oid /\ y \in Oid /\ IsStr(heap', x) /\ IsStr(heap', y)
  BY <1>1, InUse DEF Contents
<1>3. heap'[s].members = b[s].members
  <2>1. CASE heap'[s].type = "free"
    <3>1. Shaped(heap'[s])
      BY <1>1, FineType
    <3> QED BY <2>1, <3>1, DeadShape DEF Shaped
  <2>2. CASE heap'[s].type # "free"
    BY <2>2 DEF Fades, SameButRef
  <2> QED BY <2>1, <2>2
<1>4. IsStr(heap, x) /\ IsStr(heap, y)
  BY <1>1, <1>3, InUse DEF Contents
<1>5. heap[x].str = heap[y].str
  BY <1>2, <1>4, StrKept
<1> QED BY <1>3, <1>5 DEF VInv, Sole

----------------------------------------------------------------------------
(* The databases after a command, by what it did to the entries. *)

ByName == \A d \in Db : Distinct(heap, db[d])

(* The values in T are those of entries that the names in K have here. *)
Covers(E, K, T) == \A f \in E : f.val \in T => heap[f.key].str \in K

(* A database after a command that recasts it, *)
LEMMA CastContent ==
    ASSUME VInv, KInv', NEW T, Carried(heap, heap', T), Containers(heap, T), NEW c \in Db,
           NEW K, NEW N, db'[c] = Recast(heap, db[c], K, N), Distinct(heap', N),
           Names(heap', N) \subseteq K, Covers(db[c], K, T)
    PROVE  Distinct(heap', db'[c]) /\ Follows(Content'[c], Content[c], K, heap', N)
<1>1. Fine(heap, db, reply, None) /\ Fine(heap', db', reply', None')
  BY DEF VInv, KInv
<1>2. Content[c] = Cont(heap, db[c]) /\ Content'[c] = Cont(heap', db'[c])
  BY ContentIs
<1>3. ASSUME NEW f \in db[c], heap[f.key].str \notin K
      PROVE  heap'[f.key].str = heap[f.key].str /\ Val(heap', f.val) = Val(heap, f.val)
  <2>1. f \in db'[c] /\ f.val \notin T
    BY <1>3 DEF Recast, Covers
  <2>2. f.key \in Oid /\ f.val \in Oid /\ IsStr(heap, f.key) /\ heap[f.val].type # "free"
    BY <1>1, InUse
  <2>3. IsStr(heap', f.key) /\ heap'[f.val].type # "free"
    BY <1>1, <2>1, InUse
  <2>4. heap'[f.key].str = heap[f.key].str
    BY <2>2, <2>3, StrKept
  <2>5. Val(heap', f.val) = Val(heap, f.val)
    BY <1>1, <2>1, <2>2, <2>3, ValKept
  <2> QED BY <2>4, <2>5
<1>4. Distinct(heap, db[c])
  BY DEF VInv
<1> DEFINE X == db[c]
           Y == db'[c]
           g == heap'
<1>5. Distinct(heap, X) /\ Distinct(g, N) /\ Y = Recast(heap, X, K, N)
  BY <1>4
<1>6. Names(g, N) \subseteq K
  OBVIOUS
<1>7. AlikeOutside(heap, g, X, K)
  BY <1>3 DEF AlikeOutside
<1> HIDE DEF X, Y, g
<1>8. Distinct(g, Y) /\ Follows(Cont(g, Y), Cont(heap, X), K, g, N)
  BY <1>5, <1>6, <1>7, RecastContent
<1> QED BY <1>2, <1>8 DEF X, Y, g

(* Contents are functions, to be compared by their values. *)
LEMMA ContentFun ==
    /\ \A c \in Db : Content[c] = [k \in DOMAIN Content[c] |-> Content[c][k]]
    /\ \A c \in Db : Content'[c] = [k \in DOMAIN Content'[c] |-> Content'[c][k]]
    /\ Content = [c \in Db |-> Content[c]] /\ Content' = [c \in Db |-> Content'[c]]
<1>1. \A c \in Db : /\ Content[c] = Cont(heap, db[c])
                    /\ Content'[c] = Cont(heap', db'[c])
  BY ContentIs
<1>2. \A h, E : Cont(h, E) = [k \in DOMAIN Cont(h, E) |-> Cont(h, E)[k]]
  BY DEF Cont
<1> QED BY <1>1, <1>2, ContentIs

(* one that no command touches, *)
LEMMA DbKept ==
    ASSUME VInv, KInv', NEW T, Carried(heap, heap', T), Containers(heap, T), NEW c \in Db,
           db'[c] = db[c], Covers(db[c], {}, T)
    PROVE  Content'[c] = Content[c] /\ Distinct(heap', db'[c])
<1>1. db'[c] = Recast(heap, db[c], {}, {}) /\ Distinct(heap', {}) /\ Names(heap', {}) = {}
  BY DEF Recast, Distinct, Names
<1>2. Distinct(heap', db'[c]) /\ Follows(Content'[c], Content[c], {}, heap', {})
  BY <1>1, CastContent
<1>3. DOMAIN Content'[c] = DOMAIN Content[c] /\ \A k \in DOMAIN Content[c] : Content'[c][k] = Content[c][k]
  BY <1>1, <1>2 DEF Follows
<1> QED BY <1>2, <1>3, ContentFun

(* Only entries of the name k in database d have values in T. *)
Only(d, k, T) ==
    \A c \in Db : \A f \in db[c] : f.val \in T => c = d /\ heap[f.key].str = k

(* The other databases have their entries. *)
Others(d) == \A c \in Db \ {d} : db'[c] = db[c]

(* one with one name bound, *)
LEMMA BoundContent ==
    ASSUME VInv, KInv', NEW T, Carried(heap, heap', T), Containers(heap, T), NEW d \in Db, NEW k,
           Only(d, k, T), Others(d),
           NEW n, db'[d] = Recast(heap, db[d], {k}, {n}), heap'[n.key].str = k
    PROVE  Store!Bind(d, k, Val(heap', n.val)) /\ ByName'
<1>1. \A c \in Db \ {d} : Content'[c] = Content[c] /\ Distinct(heap', db'[c])
  <2> TAKE c \in Db \ {d}
  <2>1. db'[c] = db[c] /\ Covers(db[c], {}, T)
    BY DEF Others, Only, Covers
  <2> QED BY <2>1, DbKept
<1>2. Distinct(heap', {n}) /\ Names(heap', {n}) = {k}
  BY DEF Distinct, Names
<1>3. Covers(db[d], {k}, T)
  BY DEF Only, Covers
<1>5. Distinct(heap', db'[d]) /\ Follows(Content'[d], Content[d], {k}, heap', {n})
  <2>1. Names(heap', {n}) \subseteq {k}
    BY <1>2
  <2> QED BY <1>2, <1>3, <2>1, CastContent
<1> DEFINE v == Val(heap', n.val)
<1>6. Content'[d][k] = v
  BY <1>5 DEF Follows
<1> HIDE DEF v
<1>7. Content'[d] = [x \in DOMAIN Content[d] \union {k} |-> IF x = k THEN v ELSE Content[d][x]]
  BY <1>2, <1>5, <1>6, ContentFun DEF Follows
<1>8. Content' = [Content EXCEPT ![d] = [x \in DOMAIN @ \union {k} |-> IF x = k THEN v ELSE @[x]]]
  BY <1>1, <1>7, ContentFun
<1> QED BY <1>1, <1>5, <1>8 DEF v, Store!Bind, Store!WithKey, ByName

(* and one with one name gone. *)
LEMMA GoneContent ==
    ASSUME VInv, KInv', Carried(heap, heap', {}), NEW d \in Db, NEW k,
           Others(d), db'[d] = Recast(heap, db[d], {k}, {})
    PROVE  Content' = [Content EXCEPT ![d] = Store!Without(@, k)] /\ ByName'
<1>1. \A c \in Db \ {d} : Content'[c] = Content[c] /\ Distinct(heap', db'[c])
  <2> TAKE c \in Db \ {d}
  <2>1. db'[c] = db[c] /\ Covers(db[c], {}, {}) /\ Containers(heap, {})
    BY DEF Others, Covers, Containers
  <2> QED BY <2>1, DbKept
<1>2. Distinct(heap', {}) /\ Names(heap', {}) = {} /\ Covers(db[d], {k}, {}) /\ Containers(heap, {})
  BY DEF Distinct, Names, Covers, Containers
<1>5. Distinct(heap', db'[d]) /\ Follows(Content'[d], Content[d], {k}, heap', {})
  <2>1. Names(heap', {}) \subseteq {k}
    BY <1>2
  <2> QED BY <1>2, <2>1, CastContent
<1>7. Content'[d] = [x \in DOMAIN Content[d] \ {k} |-> Content[d][x]]
  BY <1>2, <1>5, ContentFun DEF Follows
<1>8. Content' = [Content EXCEPT ![d] = [x \in DOMAIN @ \ {k} |-> @[x]]]
  BY <1>1, <1>7, ContentFun
<1> QED BY <1>1, <1>5, <1>8 DEF Store!Without, ByName

(* A command that leaves the entries and what they say. *)
LEMMA ReadContent ==
    ASSUME VInv, KInv', Carried(heap, heap', {}), db' = db
    PROVE  Content' = Content /\ ByName'
<1>1. \A c \in Db : Content'[c] = Content[c] /\ Distinct(heap', db'[c])
  <2> TAKE c \in Db
  <2>1. db'[c] = db[c] /\ Covers(db[c], {}, {}) /\ Containers(heap, {})
    BY DEF Covers, Containers
  <2> QED BY <2>1, DbKept
<1> QED BY <1>1, ContentFun DEF ByName

----------------------------------------------------------------------------
(* What the clients read. *)

Said(h, os) == [i \in DOMAIN os |-> h[os[i]].str]

(* What replies say is as long as they are. *)
LEMMA SaidType ==
    ASSUME NEW os \in Seq(Oid), NEW h
    PROVE  /\ DOMAIN Said(h, os) = 1..Len(os) /\ Len(Said(h, os)) = Len(os) /\ Len(os) \in Nat
           /\ \A S : (\A i \in 1..Len(os) : h[os[i]].str \in S) => Said(h, os) \in Seq(S)
           /\ \A i \in 1..Len(os) : Said(h, os)[i] = h[os[i]].str /\ os[i] \in Oid
<1>1. DOMAIN os = 1..Len(os) /\ Len(os) \in Nat /\ \A i \in 1..Len(os) : os[i] \in Oid
  OBVIOUS
<1>2. Said(h, os) = [i \in 1..Len(os) |-> h[os[i]].str]
  BY <1>1 DEF Said
<1> QED BY <1>1, <1>2

(* A sequence that goes on after another is their concatenation. *)
LEMMA Joined ==
    ASSUME NEW V, NEW a \in Seq(V), NEW b \in Seq(V), NEW c \in Seq(V), Len(c) = Len(a) + Len(b),
           \A i \in 1..Len(a) : c[i] = a[i],
           \A i \in 1..Len(b) : c[Len(a) + i] = b[i]
    PROVE  c = a \o b
<1>1. /\ a \o b \in Seq(V) /\ Len(a \o b) = Len(a) + Len(b) /\ Len(a) \in Nat /\ Len(b) \in Nat
      /\ \A i \in 1..(Len(a) + Len(b)) : (a \o b)[i] = IF i <= Len(a) THEN a[i] ELSE b[i - Len(a)]
  OBVIOUS
<1>2. ASSUME NEW i \in 1..Len(c) PROVE c[i] = (a \o b)[i]
  <2>1. CASE i <= Len(a)
    BY <1>1, <2>1
  <2>2. CASE i > Len(a)
    <3>1. i - Len(a) \in 1..Len(b) /\ Len(a) + (i - Len(a)) = i
      BY <1>1, <2>2
    <3>2. c[Len(a) + (i - Len(a))] = b[i - Len(a)]
      BY <3>1
    <3> QED BY <1>1, <2>2, <3>1, <3>2
  <2> QED BY <1>1, <2>1, <2>2
<1> QED BY <1>1, <1>2, SeqEqual

(* Replies with an answer say what both say. *)
LEMMA SaidJoin ==
    ASSUME NEW h, NEW g, NEW r \in Seq(Oid), NEW os \in Seq(Oid),
           \A i \in DOMAIN r : g[r[i]].str = h[r[i]].str
    PROVE  Said(g, r \o os) = Said(h, r) \o Said(g, os)
<1> DEFINE V == {h[x].str : x \in Oid} \union {g[x].str : x \in Oid}
           q == r \o os
<1>1. /\ Len(r) \in Nat /\ Len(os) \in Nat /\ DOMAIN r = 1..Len(r)
      /\ \A i \in 1..Len(r) : r[i] \in Oid
      /\ \A i \in 1..Len(os) : os[i] \in Oid
  OBVIOUS
<1>2. /\ q \in Seq(Oid) /\ Len(q) = Len(r) + Len(os)
      /\ \A i \in 1..Len(r) : q[i] = r[i]
      /\ \A i \in 1..Len(os) : q[Len(r) + i] = os[i]
      /\ \A i \in 1..Len(q) : q[i] \in Oid
  OBVIOUS
<1>3. \A x \in Oid : h[x].str \in V /\ g[x].str \in V
  OBVIOUS
<1> HIDE DEF V, q
<1>4. Said(h, r) \in Seq(V) /\ Len(Said(h, r)) = Len(r) /\ \A i \in 1..Len(r) : Said(h, r)[i] = h[r[i]].str
  BY <1>1, <1>3, SaidType
<1>5. Said(g, os) \in Seq(V) /\ Len(Said(g, os)) = Len(os) /\ \A i \in 1..Len(os) : Said(g, os)[i] = g[os[i]].str
  BY <1>1, <1>3, SaidType
<1>6. Said(g, q) \in Seq(V) /\ Len(Said(g, q)) = Len(q) /\ \A i \in 1..Len(q) : Said(g, q)[i] = g[q[i]].str
  BY <1>2, <1>3, SaidType, ZenonT(60)
<1>7. ASSUME NEW i \in 1..Len(r) PROVE Said(g, q)[i] = Said(h, r)[i]
  <2>1. i \in 1..Len(q) /\ q[i] = r[i] /\ g[r[i]].str = h[r[i]].str
    BY <1>1, <1>2
  <2> QED BY <1>4, <1>6, <2>1
<1>8. ASSUME NEW i \in 1..Len(os) PROVE Said(g, q)[Len(r) + i] = Said(g, os)[i]
  <2>1. Len(r) + i \in 1..Len(q) /\ q[Len(r) + i] = os[i]
    BY <1>1, <1>2
  <2> QED BY <1>5, <1>6, <2>1
<1>9. Said(g, q) = Said(h, r) \o Said(g, os)
  <2> DEFINE a == Said(h, r)
             b == Said(g, os)
             c == Said(g, q)
  <2>1. a \in Seq(V) /\ b \in Seq(V) /\ c \in Seq(V) /\ Len(a) = Len(r) /\ Len(b) = Len(os) /\ Len(c) = Len(a) + Len(b)
    BY <1>2, <1>4, <1>5, <1>6
  <2>2. \A i \in 1..Len(r) : c[i] = a[i]
    BY <1>7
  <2>3. \A i \in 1..Len(os) : c[Len(r) + i] = b[i]
    BY <1>8
  <2> HIDE DEF a, b, c
  <2>4. \A i \in 1..Len(a) : c[i] = a[i]
    BY <2>1, <2>2
  <2>5. \A i \in 1..Len(b) : c[Len(a) + i] = b[i]
    BY <2>1, <2>3
  <2>6. c = a \o b
    BY <2>1, <2>4, <2>5, Joined
  <2> QED BY <2>6 DEF a, b, c
<1> QED BY <1>9 DEF q

(* The replies that waited read as before, and the new ones follow. *)
LEMMA SaidAfter ==
    ASSUME KInv, KInv', NEW T, Carried(heap, heap', T), Containers(heap, T),
           NEW os \in Seq(Oid), reply' = reply \o os
    PROVE  Store!Say(Said(heap', os))
<1>1. Fine(heap, db, reply, None) /\ Fine(heap', db', reply', None') /\ reply \in Seq(Oid)
  BY FineType DEF KInv
<1>2. ASSUME NEW i \in DOMAIN reply PROVE heap'[reply[i]].str = heap[reply[i]].str
  <2>1. reply[i] \in ToSet(reply) /\ reply[i] \in ToSet(reply')
    <3>1. i \in DOMAIN reply' /\ reply'[i] = reply[i]
      BY <1>1
    <3> QED BY <3>1 DEF ToSet
  <2>2. reply[i] \in Oid /\ IsStr(heap, reply[i]) /\ IsStr(heap', reply[i])
    BY <1>1, <2>1, InUse
  <2> QED BY <2>2, StrKept
<1>3. Said(heap', reply') = Said(heap, reply) \o Said(heap', os)
  <2> DEFINE h == heap
             g == heap'
             p == reply
  <2>1. p \in Seq(Oid) /\ \A i \in DOMAIN p : g[p[i]].str = h[p[i]].str
    BY <1>1, <1>2
  <2> HIDE DEF g, h, p
  <2>2. Said(g, p \o os) = Said(h, p) \o Said(g, os)
    BY <2>1, SaidJoin, SMTT(60)
  <2> QED BY <2>2 DEF g, h, p
<1> QED BY <1>3 DEF Store!Say, Said

(* Objects of an answer that were there before say what they said. *)
LEMMA SaidSame ==
    ASSUME KInv, KInv', NEW T, Carried(heap, heap', T), Containers(heap, T),
           NEW os \in Seq(Oid), reply' = reply \o os, AllStr(heap, ToSet(os))
    PROVE  Said(heap', os) = Said(heap, os)
<1>1. Fine(heap', db', reply', None') /\ reply \in Seq(Oid)
  BY FineType DEF KInv
<1>2. ASSUME NEW i \in DOMAIN os PROVE heap'[os[i]].str = heap[os[i]].str
  <2>1. os[i] \in ToSet(os) /\ os[i] \in Oid
    BY DEF ToSet
  <2>2. os[i] \in ToSet(reply')
    <3>1. Len(reply) + i \in DOMAIN reply' /\ reply'[Len(reply) + i] = os[i]
      BY <1>1
    <3> QED BY <3>1 DEF ToSet
  <2>3. IsStr(heap', os[i]) /\ IsStr(heap, os[i])
    BY <1>1, <2>1, <2>2, InUse DEF AllStr
  <2> QED BY <2>1, <2>3, StrKept
<1> QED BY <1>2 DEF Said

(* No answer, no change for the clients. *)
LEMMA NothingSaid ==
    ASSUME KInv, KInv', NEW T, Carried(heap, heap', T), Containers(heap, T),
           reply' = reply \o <<>>
    PROVE  UNCHANGED [i \in DOMAIN reply |-> heap[reply[i]].str]
<1>1. Store!Say(Said(heap', <<>>))
  <2> DEFINE os == <<>>
  <2>1. os \in Seq(Oid) /\ reply' = reply \o os
    OBVIOUS
  <2> HIDE DEF os
  <2>2. Store!Say(Said(heap', os))
    BY <2>1, SaidAfter
  <2> QED BY <2>2 DEF os
<1>2. Said(heap', <<>>) = <<>>
  BY DEF Said
<1>3. Said(heap, reply) \in Seq({heap[x].str : x \in Oid})
  <2>1. reply \in Seq(Oid)
    BY FineType DEF KInv
  <2> QED BY <2>1, SaidType
<1>4. Said(heap', reply') = Said(heap, reply) \o <<>>
  BY <1>1, <1>2 DEF Store!Say, Said
<1>5. Said(heap', reply') = Said(heap, reply)
  BY <1>3, <1>4
<1> QED BY <1>5 DEF Said

(* A walk over objects that say different things says them in that order. *)
LEMMA SaidBounded ==
    ASSUME NEW h, NEW S \in SUBSET Oid, NEW os \in BoundedSeq(S, MaxAnswer), NEW V,
           \A x \in S : h[x].str \in V
    PROVE  /\ os \in Seq(Oid) /\ ToSet(os) \subseteq S
           /\ Said(h, os) \in BoundedSeq(V, MaxAnswer)
           /\ (\A x, y \in S : h[x].str = h[y].str => x = y) /\ IsInjective(os) => IsInjective(Said(h, os))
<1>1. PICK n \in 0..MaxAnswer : os \in [1..n -> S]
  BY DEF BoundedSeq, SeqOf
<1>2. Said(h, os) \in [1..n -> V]
  BY <1>1 DEF Said
<1>3. n \in Nat
  BY <1>1, BoundAssumption
<1>4. os \in Seq(Oid)
  BY <1>1, <1>3
<1>5. ToSet(os) \subseteq S
  BY <1>1 DEF ToSet
<1>6. Said(h, os) \in BoundedSeq(V, MaxAnswer)
  BY <1>1, <1>2 DEF BoundedSeq, SeqOf
<1>7. ASSUME \A x, y \in S : h[x].str = h[y].str => x = y, IsInjective(os)
      PROVE  IsInjective(Said(h, os))
  BY <1>1, <1>2, <1>7 DEF IsInjective, Said
<1> QED BY <1>4, <1>5, <1>6, <1>7

(* One object says its string. *)
LEMMA SaidOne ==
    ASSUME NEW h, NEW o
    PROVE  Said(h, <<o>>) = <<h[o].str>>
BY DEF Said

(* A slice says the slice of what is said. *)
LEMMA SaidSlice ==
    ASSUME NEW h, NEW es \in Seq(Oid), NEW m \in Nat, m >= 1, NEW n \in Nat, n <= Len(es)
    PROVE  Said(h, SubSeq(es, m, n)) = SubSeq(Said(h, es), m, n)
<1> DEFINE V == {h[es[i]].str : i \in 1..Len(es)}
           fs == SubSeq(es, m, n)
           A == Said(h, es)
<1>1. /\ A \in Seq(V) /\ Len(A) = Len(es) /\ Len(es) \in Nat
      /\ \A i \in 1..Len(es) : A[i] = h[es[i]].str
  BY SaidType
<1>2. /\ fs \in Seq(Oid) /\ Len(fs) = IF m <= n THEN n - m + 1 ELSE 0
      /\ \A i \in 1..(n - m + 1) : fs[i] = es[m + i - 1]
  BY SubSeqProperties
<1>3. Len(Said(h, fs)) = Len(fs) /\ DOMAIN Said(h, fs) = 1..Len(fs) /\ \A i \in 1..Len(fs) : Said(h, fs)[i] = h[fs[i]].str
  BY <1>2, SaidType
<1>4. Said(h, fs) = [i \in 1..Len(fs) |-> Said(h, fs)[i]]
  BY <1>3 DEF Said
<1> HIDE DEF A, V, fs
<1>5. /\ SubSeq(A, m, n) \in Seq(V) /\ Len(SubSeq(A, m, n)) = IF m <= n THEN n - m + 1 ELSE 0
      /\ \A i \in 1..(n - m + 1) : SubSeq(A, m, n)[i] = A[m + i - 1]
  BY <1>1, SubSeqProperties
<1>6. SubSeq(A, m, n) = [i \in 1..Len(fs) |-> SubSeq(A, m, n)[i]]
  BY <1>2, <1>5
<1>7. ASSUME NEW i \in 1..Len(fs) PROVE Said(h, fs)[i] = SubSeq(A, m, n)[i]
  <2>1. m <= n /\ i \in 1..(n - m + 1) /\ m + i - 1 \in 1..Len(es)
    BY <1>1, <1>2
  <2> QED BY <1>1, <1>2, <1>3, <1>5, <2>1
<1> QED BY <1>4, <1>6, <1>7 DEF fs, A

(* An entry, seen as what a command finds. *)
LEMMA LookedUp ==
    ASSUME VInv, NEW d \in Db, NEW k, NEW e \in Named(d, k)
    PROVE  /\ k \in DOMAIN Content[d] /\ Content[d][k] = Val(heap, e.val)
           /\ e \in db[d] /\ heap[e.key].str = k
           /\ {f \in db[d] : heap[f.key].str # k} = db[d] \ {e}
<1>1. e \in db[d] /\ heap[e.key].str = k /\ Distinct(heap, db[d]) /\ Content[d] = Cont(heap, db[d])
  BY ContentIs DEF Named, VInv
<1>2. {f \in db[d] : heap[f.key].str # k} = db[d] \ {e}
  BY <1>1 DEF Distinct
<1> QED BY <1>1, <1>2, ContAt

(* The value of an object by its type. *)
LEMMA ValIs ==
    ASSUME NEW h, NEW o
    PROVE  /\ h[o].type = "list" => Val(h, o) = <<"list", Said(h, h[o].elems)>>
           /\ h[o].type = "set" => Val(h, o) = <<"set", {h[m].str : m \in h[o].members}>>
           /\ h[o].type = "string" => Val(h, o) = <<"string", h[o].str>>
           /\ Val(h, o)[1] = h[o].type
BY DEF Val, Said

(* A typed entry is what the store has under that name. *)
LEMMA FoundTyped ==
    ASSUME VInv, NEW d \in Db, NEW k, NEW type, NEW e \in Typed(d, k, type)
    PROVE  Store!Is(d, k, type) /\ Store!Inside(d, k) = Val(heap, e.val)[2]
<1>1. e \in Named(d, k) /\ heap[e.val].type = type
  BY DEF Typed
<1>2. k \in DOMAIN Content[d] /\ Content[d][k] = Val(heap, e.val)
  BY <1>1, LookedUp
<1> QED BY <1>1, <1>2, ValIs DEF Store!Is, Store!Inside, Store!Keys

----------------------------------------------------------------------------
(* Commands that only read. *)

(* The two modules have their own copies of the community operators. *)
LEMMA Listed ==
    ASSUME NEW V, NEW s \in BoundedSeq(V, MaxAnswer)
    PROVE  s \in Store!Answers(V) /\ (IsInjective(s) => s \in Store!InOrder(V))
BY DEF Store!Answers, Store!InOrder, Store!BoundedSeq, Store!SeqOf, Store!IsInjective, BoundedSeq, SeqOf, IsInjective

(* The heap is one that counting stays in. *)
LEMMA HeapType ==
    ASSUME KInv
    PROVE  heap \in Heaps /\ heap \in [Oid -> Object] /\ \A o \in Oid : Shaped(heap[o])
<1>1. heap \in [Oid -> Object] /\ \A o \in Oid : Shaped(heap[o])
  BY FineType DEF KInv
<1>2. \A obj \in Object : obj \in Loose
  BY DEF Object, Loose
<1> QED BY <1>1, <1>2 DEF Heaps

(* A command that leaves entries and objects only answers, *)
LEMMA ReadStep ==
    ASSUME VInv, KInv', SameKeys, NEW b \in Heaps, \A x \in Oid : SameButRef(b[x], heap[x]),
           NEW os \in Seq(Oid), AllStr(heap, ToSet(os)), NEW S \in SUBSET Oid, Answer(b, os, S)
    PROVE  VInv' /\ Content' = Content /\ Store!Say(Said(heap, os))
<1>1. Fades(b, heap') /\ reply' = reply \o os
  BY AnswerFades
<1>2. Carried(heap, heap', {}) /\ Containers(heap, {}) /\ KInv
  BY <1>1, CarriedBy DEF Containers, VInv
<1>3. Content' = Content /\ ByName'
  BY <1>2, ReadContent DEF SameKeys
<1>4. \A s \in Oid : Sole(heap', s)
  <2>1. Gathered(heap, b, heap')
    BY DEF SameButRef, Gathered
  <2> QED BY <1>1, <1>2, <2>1, SoleKept
<1>5. Store!Say(Said(heap', os)) /\ Said(heap', os) = Said(heap, os)
  BY <1>1, <1>2, SaidAfter, SaidSame
<1>6. VInv'
  BY <1>3, <1>4 DEF VInv, ByName
<1>7. Store!Say(Said(heap, os))
  BY <1>5 DEF Store!Say
<1> QED BY <1>3, <1>6, <1>7

(* all the more when it counts nothing. *)
LEMMA PlainRead ==
    ASSUME VInv, KInv', SameKeys, NEW os \in Seq(Oid), AllStr(heap, ToSet(os)), Answer(heap, os, {})
    PROVE  VInv' /\ Content' = Content /\ Store!Say(Said(heap, os))
<1>1. heap \in Heaps /\ \A x \in Oid : SameButRef(heap[x], heap[x])
  BY HeapType DEF VInv, SameButRef
<1> QED BY <1>1, ReadStep

(* GET *)
LEMMA getReads ==
    ASSUME VInv, KInv', NEW d \in Db, NEW k \in Str, getCommand(d, k)
    PROVE  VInv' /\ Content' = Content /\ Store!Read
<1>1. PICK e \in Typed(d, k, "string") : Answer(heap, <<e.val>>, {})
  BY DEF getCommand
<1>2. e \in db[d] /\ heap[e.val].type = "string"
  BY <1>1 DEF Typed, Named
<1>3. e.val \in Oid /\ IsStr(heap, e.val)
  BY <1>2, EntryFacts DEF VInv, IsStr
<1>4. <<e.val>> \in Seq(Oid) /\ AllStr(heap, ToSet(<<e.val>>))
  BY <1>3, OneAnswer
<1>5. VInv' /\ Content' = Content /\ Store!Say(Said(heap, <<e.val>>))
  <2> DEFINE os == <<e.val>>
  <2>1. os \in Seq(Oid) /\ AllStr(heap, ToSet(os)) /\ Answer(heap, os, {}) /\ SameKeys
    BY <1>1, <1>4 DEF getCommand
  <2> HIDE DEF os
  <2>2. VInv' /\ Content' = Content /\ Store!Say(Said(heap, os))
    BY <2>1, PlainRead
  <2> QED BY <2>2 DEF os
<1>6. Said(heap, <<e.val>>) = <<heap[e.val].str>>
  BY SaidOne
<1>7. Store!Is(d, k, "string") /\ Store!Inside(d, k) = heap[e.val].str
  BY <1>1, <1>2, FoundTyped, ValIs
<1>8. Store!Get(d, k)
  BY <1>5, <1>6, <1>7 DEF Store!Get, Store!Say
<1> QED BY <1>5, <1>8 DEF Store!Read

(* RANDOMKEY *)
LEMMA randomkeyReads ==
    ASSUME VInv, KInv', NEW d \in Db, randomkeyCommand(d)
    PROVE  VInv' /\ Content' = Content /\ Store!Read
<1>1. PICK e \in db[d] : Answer(heap, <<e.key>>, {})
  BY DEF randomkeyCommand
<1>3. e.key \in Oid /\ IsStr(heap, e.key)
  BY EntryFacts DEF VInv
<1>4. <<e.key>> \in Seq(Oid) /\ AllStr(heap, ToSet(<<e.key>>))
  BY <1>3, OneAnswer
<1>5. VInv' /\ Content' = Content /\ Store!Say(Said(heap, <<e.key>>))
  <2> DEFINE os == <<e.key>>
  <2>1. os \in Seq(Oid) /\ AllStr(heap, ToSet(os)) /\ Answer(heap, os, {}) /\ SameKeys
    BY <1>1, <1>4 DEF randomkeyCommand
  <2> HIDE DEF os
  <2>2. VInv' /\ Content' = Content /\ Store!Say(Said(heap, os))
    BY <2>1, PlainRead
  <2> QED BY <2>2 DEF os
<1>6. Said(heap, <<e.key>>) = <<heap[e.key].str>>
  BY SaidOne
<1>7. heap[e.key].str \in Store!Keys(d)
  <2>1. e \in Named(d, heap[e.key].str)
    BY DEF Named
  <2> QED BY <2>1, LookedUp DEF Store!Keys
<1>8. Store!AnyKey(d)
  BY <1>5, <1>6, <1>7 DEF Store!AnyKey, Store!Say
<1> QED BY <1>5, <1>8 DEF Store!Read

(* KEYS *)
LEMMA keysReads ==
    ASSUME VInv, KInv', NEW d \in Db, keysCommand(d)
    PROVE  VInv' /\ Content' = Content /\ Store!Read
<1> DEFINE S == {e.key : e \in db[d]}
<1>1. PICK os \in Walks(S) : Answer(heap, os, {})
  BY DEF keysCommand
<1>2. \A e \in db[d] : e.key \in Oid /\ IsStr(heap, e.key)
  BY EntryFacts DEF VInv
<1>3. S \in SUBSET Oid /\ AllStr(heap, S) /\ os \in BoundedSeq(S, MaxAnswer) /\ IsInjective(os)
  BY <1>1, <1>2 DEF Walks, AllStr
<1>4. os \in Seq(Oid) /\ AllStr(heap, ToSet(os))
  BY <1>3, WalkAnswer
<1>5. VInv' /\ Content' = Content /\ Store!Say(Said(heap, os))
  BY <1>1, <1>4, PlainRead DEF keysCommand
<1>6. \A x \in S : heap[x].str \in Store!Keys(d)
  <2> SUFFICES ASSUME NEW e \in db[d] PROVE heap[e.key].str \in Store!Keys(d)
    OBVIOUS
  <2>1. e \in Named(d, heap[e.key].str)
    BY DEF Named
  <2> QED BY <2>1, LookedUp DEF Store!Keys
<1>7. \A x, y \in S : heap[x].str = heap[y].str => x = y
  BY DEF VInv, Distinct
<1> HIDE DEF S
<1>8. Said(heap, os) \in BoundedSeq(Store!Keys(d), MaxAnswer) /\ IsInjective(Said(heap, os))
  BY <1>3, <1>6, <1>7, SaidBounded
<1>9. Store!KeyNames(d)
  <2>1. Said(heap, os) \in Store!InOrder(Store!Keys(d))
    BY <1>8, Listed
  <2> QED BY <1>5, <2>1 DEF Store!KeyNames, Store!Say
<1> QED BY <1>5, <1>9 DEF Store!Read

(* LINDEX *)
LEMMA lindexReads ==
    ASSUME VInv, KInv', NEW d \in Db, NEW k \in Str, NEW i, lindexCommand(d, k, i)
    PROVE  VInv' /\ Content' = Content /\ Store!Read
<1>1. PICK e \in Typed(d, k, "list") :
         \E p \in listIndex(heap[e.val].elems, i) : Answer(heap, <<heap[e.val].elems[p]>>, {})
  BY DEF lindexCommand
<1> DEFINE es == heap[e.val].elems
<1>2. PICK p \in DOMAIN es : Answer(heap, <<es[p]>>, {})
  BY <1>1 DEF listIndex
<1>3. heap[e.val].type = "list" /\ es \in Seq(Oid) /\ AllStr(heap, ToSet(es))
  BY <1>1, ListFacts DEF VInv
<1>4. es[p] \in Oid /\ IsStr(heap, es[p])
  BY <1>3 DEF AllStr, ToSet
<1>5. <<es[p]>> \in Seq(Oid) /\ AllStr(heap, ToSet(<<es[p]>>))
  BY <1>4, OneAnswer
<1>6. VInv' /\ Content' = Content /\ Store!Say(Said(heap, <<es[p]>>))
  <2> DEFINE os == <<es[p]>>
  <2>1. os \in Seq(Oid) /\ AllStr(heap, ToSet(os)) /\ Answer(heap, os, {}) /\ SameKeys
    BY <1>2, <1>5 DEF lindexCommand
  <2> HIDE DEF os
  <2>2. VInv' /\ Content' = Content /\ Store!Say(Said(heap, os))
    BY <2>1, PlainRead
  <2> QED BY <2>2 DEF os
<1>7. Said(heap, <<es[p]>>) = <<heap[es[p]].str>>
  BY SaidOne
<1>8. Store!Is(d, k, "list") /\ Store!Inside(d, k) = Said(heap, es)
  BY <1>1, <1>3, FoundTyped, ValIs
<1>9. p \in DOMAIN Store!Inside(d, k) /\ Store!Inside(d, k)[p] = heap[es[p]].str
  BY <1>8 DEF Said
<1>10. Store!Element(d, k)
  BY <1>6, <1>7, <1>8, <1>9 DEF Store!Element, Store!Say
<1> QED BY <1>6, <1>10 DEF Store!Read

(* A range of objects says the range of what they say. *)
LEMMA BetweenSaid ==
    ASSUME NEW h, NEW es \in Seq(Oid), NEW i \in Int, NEW j \in Int
    PROVE  Said(h, Between(es, i, j)) = Store!Part(Said(h, es), i, j)
<1> DEFINE n == Len(es)
           start == lindexToPositive(i, n)
           end == lindexToPositive(j, n)
           m == start + 1
           q == IF end >= n THEN n ELSE end + 1
<1>1. n \in Nat
  OBVIOUS
<1>2. start \in Nat /\ end \in Nat
  BY <1>1 DEF lindexToPositive
<1>3. m \in Nat /\ m >= 1 /\ q \in Nat /\ q <= n
  BY <1>1, <1>2
<1>4. SubSeq(es, m, q) = Between(es, i, j)
  BY DEF Between
<1>5. Len(Said(h, es)) = n
  BY SaidType
<1>6. Store!Positive(i, n) = start /\ Store!Positive(j, n) = end
  BY <1>1 DEF lindexToPositive, Store!Positive
<1>7. q = IF end < n THEN end + 1 ELSE n
  BY <1>1, <1>2
<1> HIDE DEF q, n, start, end
<1>8. Store!Part(Said(h, es), i, j) = SubSeq(Said(h, es), m, q)
  BY <1>5, <1>6, <1>7 DEF Store!Part
<1> HIDE DEF m
<1>9. Said(h, SubSeq(es, m, q)) = SubSeq(Said(h, es), m, q)
  BY <1>3, SaidSlice DEF n
<1> QED BY <1>4, <1>8, <1>9

(* LRANGE *)
LEMMA lrangeReads ==
    ASSUME VInv, KInv', NEW d \in Db, NEW k \in Str, NEW i \in Index, NEW j \in Index, lrangeCommand(d, k, i, j)
    PROVE  VInv' /\ Content' = Content /\ Store!Read
<1>1. PICK e \in Typed(d, k, "list") : Answer(heap, Between(heap[e.val].elems, i, j), {})
  BY DEF lrangeCommand
<1> DEFINE es == heap[e.val].elems
           os == Between(es, i, j)
<1>2. i \in Int /\ j \in Int
  BY IndexAssumption
<1>3. heap[e.val].type = "list" /\ es \in Seq(Oid) /\ AllStr(heap, ToSet(es)) /\ IsInjective(es)
  BY <1>1, ListFacts DEF VInv
<1>4. os \in Seq(Oid) /\ ToSet(os) \subseteq ToSet(es)
  BY <1>2, <1>3, BetweenFacts
<1>5. AllStr(heap, ToSet(os))
  BY <1>3, <1>4 DEF AllStr
<1>6. Said(heap, os) = Store!Part(Said(heap, es), i, j)
  BY <1>2, <1>3, BetweenSaid
<1>7. Store!Is(d, k, "list") /\ Store!Inside(d, k) = Said(heap, es)
  BY <1>1, <1>3, FoundTyped, ValIs
<1>8. Answer(heap, os, {}) /\ SameKeys
  BY <1>1 DEF lrangeCommand
<1> HIDE DEF os
<1>9. VInv' /\ Content' = Content /\ Store!Say(Said(heap, os))
  BY <1>4, <1>5, <1>8, PlainRead
<1>10. Store!Slice(d, k, i, j)
  BY <1>6, <1>7, <1>9 DEF Store!Slice, Store!Say
<1> QED BY <1>9, <1>10 DEF Store!Read

(* ECHO *)
LEMMA echoReads ==
    ASSUME VInv, KInv', NEW m \in Str, echoCommand(m)
    PROVE  VInv' /\ Content' = Content /\ Store!Read
<1> DEFINE a == Slot(1)
           os == <<a>>
           b == Given(<<m>>)
<1>1. /\ a \in Oid /\ heap[a].type = "free" /\ b[a] = String(m)
      /\ \A x \in Oid \ {a} : b[x] = heap[x]
      /\ Fine(b, db, reply, Plus(None, {a}))
  BY OneGiven DEF VInv, echoCommand
<1>2. Slots(1) = os /\ ToSet(os) = {a} /\ os \in Seq(Oid)
  <2>1. Slots(1) = os
    BY DEF Slots
  <2> QED BY <1>1, <2>1, OneAnswer
<1>3. Answer(b, os, {a}) /\ db' = db
  BY <1>2 DEF echoCommand, SameKeys
<1>4. b \in Heaps
  <2>1. \A obj \in Object : obj \in Loose
    BY DEF Object, Loose
  <2> QED BY <1>1, <2>1, FineType DEF Heaps
<1> HIDE DEF b
<1>5. Fades(b, heap') /\ reply' = reply \o os
  BY <1>1, <1>2, <1>3, <1>4, AnswerFades
<1>6. Carried(heap, heap', {}) /\ Containers(heap, {}) /\ KInv
  <2>1. \A x \in Oid \ {} : heap[x].type # "free" => SameButRef(b[x], heap[x])
    BY <1>1 DEF SameButRef
  <2> QED BY <1>5, <2>1, CarriedBy DEF Containers, VInv
<1>7. Content' = Content /\ ByName'
  BY <1>3, <1>6, ReadContent
<1>8. \A s \in Oid : Sole(heap', s)
  <2>1. b[a].members = {}
    BY <1>1, NewShapes DEF Plain
  <2>2. Gathered(heap, b, heap')
    BY <1>1, <2>1 DEF Gathered
  <2> QED BY <1>5, <1>6, <2>2, SoleKept
<1>9. Said(heap', os) = <<m>>
  <2>1. a \in ToSet(reply')
    <3>1. reply \in Seq(Oid)
      BY <1>6, FineType DEF KInv
    <3>2. Len(reply) + 1 \in DOMAIN reply' /\ reply'[Len(reply) + 1] = a
      BY <1>1, <1>5, <3>1
    <3> QED BY <3>2 DEF ToSet
  <2>2. IsStr(heap', a)
    <3>1. Fine(heap', db', reply', None')
      BY DEF KInv
    <3> QED BY <2>1, <3>1, InUse
  <2>3. heap'[a].str = m
    <3>1. String(m).str = m
      BY DEF String, Dead
    <3> QED BY <1>1, <1>5, <2>2, <3>1 DEF Fades, IsStr, SameButRef
  <2> QED BY <2>3, SaidOne
<1>10. Store!Say(Said(heap', os))
  <2>1. os \in Seq(Oid) /\ reply' = reply \o os
    BY <1>2, <1>5
  <2> HIDE DEF os
  <2> QED BY <1>6, <2>1, SaidAfter
<1>11. Store!Echo
  BY <1>9, <1>10 DEF Store!Echo, Store!Say
<1> QED BY <1>7, <1>8, <1>11 DEF VInv, ByName, Store!Read

(* SINTER and SMEMBERS *)
LEMMA sinterReads ==
    ASSUME VInv, KInv', NEW d \in Db, NEW ks \in SUBSET Str, ks # {}, sinterCommand(d, ks)
    PROVE  VInv' /\ Content' = Content /\ Store!Read
<1> DEFINE S == SetsOf(d, ks)
<1>1. PICK s \in Smallest(S) : \E os \in Walks(Common(s, S)) : Answer(heap, os, {})
  BY DEF sinterCommand
<1>2. PICK os \in Walks(Common(s, S)) : Answer(heap, os, {})
  BY <1>1
<1>3. s \in Oid /\ heap[s].type = "set" /\ KInv
  <2>1. s \in S
    BY DEF Smallest
  <2> QED BY <2>1, SetsOfFacts DEF VInv
<1>4. heap[s].members \in SUBSET Oid /\ AllStr(heap, heap[s].members)
  BY <1>3, SetFacts
<1> DEFINE M == Common(s, S)
<1>5. M \subseteq heap[s].members /\ \A o \in M : \A t \in S : Member(heap[t].members, heap[o].str) # {}
  BY DEF Common
<1>6. AllSets(d, ks) /\ SameKeys
  BY DEF sinterCommand
<1>7. \A k \in ks : Store!Is(d, k, "set") /\ \A o \in M : heap[o].str \in Store!Inside(d, k)
  <2> SUFFICES ASSUME NEW k \in ks
               PROVE  Store!Is(d, k, "set") /\ \A o \in M : heap[o].str \in Store!Inside(d, k)
    OBVIOUS
  <2>1. PICK e \in Typed(d, k, "set") : TRUE
    BY <1>6 DEF AllSets
  <2>2. heap[e.val].type = "set" /\ e.val \in S
    BY DEF Typed, SetsOf
  <2>3. Store!Is(d, k, "set") /\ Store!Inside(d, k) = {heap[m].str : m \in heap[e.val].members}
    BY <2>2, FoundTyped, ValIs
  <2>4. \A o \in M : \E m \in heap[e.val].members : heap[m].str = heap[o].str
    BY <1>5, <2>2 DEF Member
  <2> QED BY <2>3, <2>4
<1>8. M \in SUBSET Oid /\ AllStr(heap, M) /\ os \in BoundedSeq(M, MaxAnswer) /\ IsInjective(os)
  BY <1>2, <1>4, <1>5 DEF AllStr, Walks
<1>9. os \in Seq(Oid) /\ AllStr(heap, ToSet(os))
  BY <1>8, WalkAnswer
<1>10. VInv' /\ Content' = Content /\ Store!Say(Said(heap, os))
  BY <1>2, <1>6, <1>9, PlainRead
<1> DEFINE V == {x \in Str : \A k \in ks : x \in Store!Inside(d, k)}
<1>11. \A o \in M : heap[o].str \in V
  <2>1. \A o \in M : heap[o].str \in Str
    BY <1>3, <1>8, HeapType DEF AllStr, IsStr, Shaped
  <2> QED BY <1>7, <2>1
<1>12. \A x, y \in M : heap[x].str = heap[y].str => x = y
  BY <1>3, <1>5 DEF VInv, Sole
<1>13. \A k \in ks : Store!Is(d, k, "set")
  BY <1>7
<1> HIDE DEF M
<1>14. Said(heap, os) \in BoundedSeq(V, MaxAnswer) /\ IsInjective(Said(heap, os))
  <2> HIDE DEF V
  <2> QED BY <1>8, <1>11, <1>12, SaidBounded
<1>15. Said(heap, os) \in Store!InOrder(V)
  <2> HIDE DEF V
  <2> QED BY <1>14, Listed
<1>16. Store!Inter(d, ks)
  BY <1>10, <1>13, <1>15 DEF Store!Inter, Store!Say
<1>17. ks \in (SUBSET Str) \ {{}}
  OBVIOUS
<1> QED BY <1>10, <1>16, <1>17 DEF Store!Read

(* SORT, when it does not abort *)
LEMMA sortReads ==
    ASSUME VInv, KInv', NEW d \in Db, NEW k \in Str, sortCommand(d, k), fate' = "up"
    PROVE  VInv' /\ Content' = Content /\ Store!Read
<1>1. PICK e \in Named(d, k) :
       LET vector  == Contents(heap, e.val)
           strings == {f.val : f \in {g \in db[d] : heap[g.val].type = "string"}}
       IN
       /\ heap[e.val].type # "string"
       /\ \/ \E os \in Walks(vector) \union BoundedSeq(strings, MaxAnswer) :
                   Answer(incrRefCount(heap, e.val), os, {e.val}) /\ SameKeys
          \/ Ends("aborted")
  BY DEF sortCommand, Contents
<1> DEFINE vector == Contents(heap, e.val)
           strings == {f.val : f \in {g \in db[d] : heap[g.val].type = "string"}}
           b == incrRefCount(heap, e.val)
<1>2. PICK os \in Walks(vector) \union BoundedSeq(strings, MaxAnswer) :
         Answer(b, os, {e.val}) /\ SameKeys
  BY <1>1 DEF Ends
<1>3. e \in db[d] /\ k \in Store!Keys(d) /\ Content[d][k] = Val(heap, e.val)
  BY LookedUp DEF Store!Keys
<1>4. e.val \in Oid /\ heap[e.val].type # "free" /\ KInv
  BY <1>3, EntryFacts DEF VInv
<1>5. heap \in Heaps /\ heap[e.val].type \in {"list", "set"} /\ Shaped(heap[e.val])
  BY <1>1, <1>4, HeapType DEF Shaped, Object
<1>6. b \in Heaps /\ \A x \in Oid : SameButRef(b[x], heap[x])
  <2>1. b = Up(heap, {e.val})
    BY DEF incrRefCount
  <2>2. heap \in [Oid -> Object] /\ Fine(heap, db, reply, None)
    BY <1>4, HeapType DEF KInv
  <2>3. \A x \in Oid : SameButRef(Up(heap, {e.val})[x], heap[x])
    BY <1>4, <2>2, UpFine
  <2>4. Up(heap, {e.val}) \in Heaps
    BY <1>5, UpFades
  <2> QED BY <2>1, <2>3, <2>4
<1>7. vector \in SUBSET Oid /\ AllStr(heap, vector) /\ strings \in SUBSET Oid /\ AllStr(heap, strings)
  <2>1. Fine(heap, db, reply, None)
    BY <1>4 DEF KInv
  <2>2. vector \in SUBSET Oid /\ AllStr(heap, vector)
    BY <1>4, <2>1, InUse DEF AllStr
  <2>3. strings \in SUBSET Oid /\ AllStr(heap, strings)
    BY <2>1, InUse DEF AllStr, IsStr
  <2> QED BY <2>2, <2>3
<1>8. os \in BoundedSeq(vector, MaxAnswer) \/ os \in BoundedSeq(strings, MaxAnswer)
  BY <1>2 DEF Walks
<1> HIDE DEF b
<1>9. \A x \in vector : heap[x].str \in Store!Elements(d, k)
  <2>1. CASE heap[e.val].type = "list"
    <3>1. e \in Typed(d, k, "list")
      BY <2>1 DEF Typed
    <3>2. Store!Is(d, k, "list") /\ Store!Inside(d, k) = Said(heap, heap[e.val].elems)
      BY <2>1, <3>1, FoundTyped, ValIs
    <3>3. heap[e.val].members = {}
      BY <1>5, <2>1 DEF Shaped
    <3>4. \A x \in ToSet(heap[e.val].elems) : heap[x].str \in ToSet(Said(heap, heap[e.val].elems))
      BY DEF ToSet, Said
    <3> QED BY <3>2, <3>3, <3>4 DEF Store!Elements, Store!ToSet, ToSet, Contents
  <2>2. CASE heap[e.val].type = "set"
    <3>1. e \in Typed(d, k, "set")
      BY <2>2 DEF Typed
    <3>2. Store!Is(d, k, "set") /\ Store!Inside(d, k) = {heap[m].str : m \in heap[e.val].members}
      BY <2>2, <3>1, FoundTyped, ValIs
    <3>3. heap[e.val].elems = <<>>
      BY <1>5, <2>2 DEF Shaped
    <3>4. ToSet(<<>>) = {}
      BY DEF ToSet
    <3>5. ~Store!Is(d, k, "list")
      BY <3>2 DEF Store!Is
    <3> QED BY <3>2, <3>3, <3>4, <3>5 DEF Store!Elements, Contents
  <2> QED BY <1>5, <2>1, <2>2
<1>10. \A x \in strings : heap[x].str \in Store!Strings(d)
  <2> SUFFICES ASSUME NEW f \in db[d], heap[f.val].type = "string"
               PROVE  heap[f.val].str \in Store!Strings(d)
    OBVIOUS
  <2> DEFINE n == heap[f.key].str
  <2>1. f \in Typed(d, n, "string") /\ f \in Named(d, n)
    BY DEF Typed, Named
  <2>2. Store!Is(d, n, "string") /\ Store!Inside(d, n) = heap[f.val].str
    BY <2>1, FoundTyped, ValIs
  <2>3. n \in Store!Keys(d)
    BY <2>2 DEF Store!Is
  <2> QED BY <2>2, <2>3 DEF Store!Strings
<1> HIDE DEF vector, strings
<1>11. os \in Seq(Oid) /\ AllStr(heap, ToSet(os))
  BY <1>7, <1>8, WalkAnswer
<1>12. VInv' /\ Content' = Content /\ Store!Say(Said(heap, os))
  <2>1. {e.val} \in SUBSET Oid
    BY <1>4
  <2> QED BY <1>2, <1>6, <1>11, <2>1, ReadStep
<1>13. Said(heap, os) \in BoundedSeq(Store!Elements(d, k), MaxAnswer)
         \/ Said(heap, os) \in BoundedSeq(Store!Strings(d), MaxAnswer)
  BY <1>7, <1>8, <1>9, <1>10, SaidBounded
<1>14. Said(heap, os) \in Store!Answers(Store!Elements(d, k)) \union Store!Answers(Store!Strings(d))
  BY <1>13, Listed
<1>15. Store!Is(d, k, "list") \/ Store!Is(d, k, "set")
  BY <1>3, <1>5, ValIs DEF Store!Is
<1>16. Store!Sorted(d, k)
  BY <1>12, <1>14, <1>15 DEF Store!Sorted, Store!Say
<1> QED BY <1>12, <1>16 DEF Store!Read

(* The network *)
LEMMA sendReplyDelivers ==
    ASSUME VInv, KInv', sendReplyToClient
    PROVE  VInv' /\ Content' = Content /\ Store!Deliver
<1>1. Fine(heap, db, reply, None) /\ Fine(heap', db', reply', None') /\ KInv
  BY DEF VInv, KInv
<1>2. /\ reply \in Seq(Oid) /\ reply # <<>> /\ reply' = Tail(reply) /\ db' = db /\ fate' = fate
      /\ heap' = decrRefCount(heap, Head(reply))
  BY <1>1, FineType DEF sendReplyToClient
<1>3. Fades(heap, heap')
  <2>1. Head(reply) \in Oid
    BY <1>2
  <2> QED BY <1>1, <1>2, <2>1, HeapType, DecrFades
<1>4. Carried(heap, heap', {}) /\ Containers(heap, {})
  BY <1>3 DEF Carried, Fades, Containers
<1>5. Content' = Content /\ ByName'
  BY <1>2, <1>4, ReadContent
<1>6. \A s \in Oid : Sole(heap', s)
  <2>1. Gathered(heap, heap, heap')
    BY DEF Gathered
  <2> QED BY <1>3, <1>4, <2>1, SoleKept
<1>7. DOMAIN reply = 1..Len(reply) /\ Len(reply) \in Nat \ {0} /\ Len(Tail(reply)) = Len(reply) - 1
      /\ \A i \in 1..(Len(reply) - 1) : Tail(reply)[i] = reply[i + 1]
      /\ DOMAIN Tail(reply) = 1..(Len(reply) - 1) /\ Tail(reply) \in Seq(Oid)
  BY <1>2
<1>8. ASSUME NEW i \in 1..(Len(reply) - 1) PROVE Said(heap', reply')[i] = Said(heap, reply)[i + 1]
  <2>1. i \in DOMAIN reply' /\ i + 1 \in DOMAIN reply /\ reply'[i] = reply[i + 1]
    BY <1>2, <1>7
  <2>2. reply'[i] \in ToSet(reply) /\ reply'[i] \in ToSet(reply')
    BY <2>1 DEF ToSet
  <2>3. heap'[reply'[i]].str = heap[reply'[i]].str
    BY <1>1, <1>4, <2>2, InUse, StrKept
  <2> QED BY <2>1, <2>3 DEF Said
<1> DEFINE V == {heap[x].str : x \in Oid} \union {heap'[x].str : x \in Oid}
<1>9. \A x \in Oid : heap[x].str \in V /\ heap'[x].str \in V
  OBVIOUS
<1> HIDE DEF V
<1>10. /\ Said(heap, reply) \in Seq(V) /\ Len(Said(heap, reply)) = Len(reply)
       /\ Said(heap', reply') \in Seq(V) /\ Len(Said(heap', reply')) = Len(reply) - 1
  <2>1. (\A i \in 1..Len(reply) : heap[reply[i]].str \in V)
    BY <1>2, <1>9
  <2>2. reply' \in Seq(Oid) /\ Len(reply') = Len(reply) - 1
    BY <1>2, <1>7
  <2>3. (\A i \in 1..Len(reply') : heap'[reply'[i]].str \in V)
    BY <1>9, <2>2
  <2> QED BY <1>2, <2>1, <2>2, <2>3, SaidType
<1>11. Said(heap', reply') = Tail(Said(heap, reply)) /\ Said(heap, reply) # <<>>
  <2> DEFINE a == Said(heap, reply)
             b == Said(heap', reply')
             n == Len(reply)
  <2>1. a \in Seq(V) /\ Len(a) = n /\ b \in Seq(V) /\ Len(b) = n - 1 /\ n \in Nat \ {0}
    BY <1>7, <1>10
  <2>2. \A i \in 1..(n - 1) : b[i] = a[i + 1]
    BY <1>8
  <2> HIDE DEF a, b, n
  <2>3. Tail(a) \in Seq(V) /\ Len(Tail(a)) = n - 1 /\ \A i \in 1..(n - 1) : Tail(a)[i] = a[i + 1]
    BY <2>1
  <2>4. b = Tail(a)
    BY <2>1, <2>2, <2>3, SeqEqual
  <2>5. a # <<>>
    BY <2>1
  <2> QED BY <2>4, <2>5 DEF a, b
<1>12. Store!Deliver
  BY <1>2, <1>5, <1>11 DEF Store!Deliver, Said
<1> QED BY <1>5, <1>6, <1>12 DEF VInv, ByName

(* A server that ends itself has nothing. *)
LEMMA EndsEnds ==
    ASSUME KInv', NEW how \in {"aborted", "wild"}, Ends(how)
    PROVE  VInv' /\ Store!End
<1>1. heap' = NoObjects /\ db' = Nothing /\ reply' = <<>> /\ fate' # "up"
  BY DEF Ends
<1>2. \A d \in Db : Distinct(heap', db'[d])
  BY <1>1 DEF Nothing, Distinct
<1>3. \A s \in Oid : Sole(heap', s)
  BY <1>1, DeadShape DEF NoObjects, Sole
<1>4. Content' = [d \in Db |-> <<>>]
  <2>1. \A h : Cont(h, {}) = <<>>
    BY DEF Cont, Names
  <2>2. \A d \in Db : db'[d] = {}
    BY <1>1 DEF Nothing
  <2> QED BY <2>1, <2>2, ContentIs
<1>5. [i \in DOMAIN reply |-> heap[reply[i]].str]' = <<>>
  BY <1>1
<1>6. Store!End
  BY <1>1, <1>4, <1>5 DEF Store!End, Store!Nothing
<1> QED BY <1>2, <1>3, <1>6 DEF VInv

----------------------------------------------------------------------------
(* Commands that change something. *)

(* Outside T, b says what h says of objects in use. *)
Agree(h, b, T) == \A x \in Oid \ T : h[x].type # "free" => SameButRef(b[x], h[x])

(* The clients have the same to read. *)
Quiet == UNCHANGED [i \in DOMAIN reply |-> heap[reply[i]].str]

(* What a command with heap b leaves, if b only counts what c says. *)
LEMMA ChangeLeaves ==
    ASSUME VInv, KInv', NEW c, NEW b \in Heaps, Fades(c, b), NEW T, Containers(heap, T),
           Agree(heap, c, T), NEW os \in Seq(Oid), NEW S \in SUBSET Oid, Answer(b, os, S)
    PROVE  Fades(c, heap') /\ Carried(heap, heap', T) /\ Store!Say(Said(heap', os))
<1>1. Fades(b, heap') /\ reply' = reply \o os
  BY AnswerFades
<1>2. Fades(c, heap')
  BY <1>1, FadesFurther
<1>3. Carried(heap, heap', T)
  BY <1>2, CarriedBy DEF Agree
<1> QED BY <1>1, <1>2, <1>3, SaidAfter DEF VInv

(* The same without an answer. *)
LEMMA SilentLeaves ==
    ASSUME VInv, KInv', NEW c, NEW b \in Heaps, Fades(c, b), NEW T, Containers(heap, T),
           Agree(heap, c, T), NEW S \in SUBSET Oid, Answer(b, <<>>, S)
    PROVE  Fades(c, heap') /\ Carried(heap, heap', T) /\ Quiet
<1> DEFINE os == <<>>
<1>1. os \in Seq(Oid) /\ Answer(b, os, S)
  OBVIOUS
<1>2. reply' = reply \o <<>>
  BY DEF Answer
<1> HIDE DEF os
<1>3. Fades(c, heap') /\ Carried(heap, heap', T)
  BY <1>1, ChangeLeaves
<1>4. UNCHANGED [i \in DOMAIN reply |-> heap[reply[i]].str]
  BY <1>2, <1>3, NothingSaid DEF VInv
<1> QED BY <1>3, <1>4 DEF Quiet

(* A heap fades to itself. *)
LEMMA FadesSelf ==
    ASSUME NEW h
    PROVE  Fades(h, h)
BY DEF Fades, SameButRef

(* What is alive in the end says what it said before counts were dropped. *)
LEMMA ValFades ==
    ASSUME KInv', NEW c, Fades(c, heap'), NEW o \in Oid, heap'[o].type # "free"
    PROVE  Val(heap', o) = Val(c, o)
<1>1. /\ heap'[o].type = c[o].type /\ heap'[o].str = c[o].str
      /\ heap'[o].elems = c[o].elems /\ heap'[o].members = c[o].members
  BY DEF Fades, SameButRef
<1>2. \A x \in ToSet(c[o].elems) \union c[o].members : heap'[x].str = c[x].str
  <2>1. Fine(heap', db', reply', None')
    BY DEF KInv
  <2>2. \A x \in Contents(heap', o) : x \in Oid /\ IsStr(heap', x)
    BY <2>1, InUse
  <2> QED BY <1>1, <2>2 DEF Contents, IsStr, Fades, SameButRef
<1> DEFINE h == heap'
<1>3. [i \in DOMAIN h[o].elems |-> h[h[o].elems[i]].str] = [i \in DOMAIN c[o].elems |-> c[c[o].elems[i]].str]
  BY <1>1, <1>2 DEF ToSet
<1>4. {h[m].str : m \in h[o].members} = {c[m].str : m \in c[o].members}
  BY <1>1, <1>2
<1> QED BY <1>1, <1>3, <1>4 DEF Val

(* An entry that is there in the end says what it was made of. *)
LEMMA LiveEntry ==
    ASSUME KInv', NEW c, Fades(c, heap'), NEW d \in Db, NEW n \in db'[d]
    PROVE  /\ n.key \in Oid /\ n.val \in Oid /\ heap'[n.val].type # "free"
           /\ heap'[n.key].str = c[n.key].str /\ Val(heap', n.val) = Val(c, n.val)
<1>1. Fine(heap', db', reply', None')
  BY DEF KInv
<1>2. n.key \in Oid /\ n.val \in Oid /\ IsStr(heap', n.key) /\ heap'[n.val].type # "free"
  BY <1>1, InUse
<1>3. heap'[n.key].str = c[n.key].str
  BY <1>2 DEF IsStr, Fades, SameButRef
<1> QED BY <1>2, <1>3, ValFades

(* Database d gets the entry n of the name k for those of that name. *)
Renews(d, k, n) == Others(d) /\ db'[d] = Recast(heap, db[d], {k}, {n}) /\ n \in db'[d]

(* A command that renews one entry binds its name. *)
LEMMA RenewStep ==
    ASSUME VInv, KInv', NEW c, NEW T, Fades(c, heap'), Carried(heap, heap', T), Containers(heap, T),
           Gathered(heap, c, heap'), NEW d \in Db, NEW k, NEW n, Renews(d, k, n), Only(d, k, T),
           c[n.key].str = k
    PROVE  VInv' /\ Store!Bind(d, k, Val(c, n.val))
<1>1. heap'[n.key].str = k /\ Val(heap', n.val) = Val(c, n.val)
  BY LiveEntry DEF Renews
<1>2. Store!Bind(d, k, Val(heap', n.val)) /\ ByName'
  BY <1>1, BoundContent DEF Renews
<1>3. \A s \in Oid : Sole(heap', s)
  BY SoleKept
<1>4. VInv'
  BY <1>2, <1>3 DEF VInv, ByName
<1>5. Store!Bind(d, k, Val(c, n.val))
  BY <1>1, <1>2 DEF Store!Bind
<1> QED BY <1>4, <1>5

(* The databases are functions, to be updated. *)
LEMMA DbType ==
    ASSUME KInv
    PROVE  db \in [Db -> SUBSET Entries] /\ db = [d \in Db |-> db[d]]
BY FineType DEF KInv

(* Renewing a name that was not there, *)
LEMMA RenewsNew ==
    ASSUME KInv, NEW d \in Db, NEW k, NEW n, Named(d, k) = {}, Rebind(d, {}, {n})
    PROVE  Renews(d, k, n)
<1>1. db'[d] = (db[d] \ {}) \union {n} /\ \A c \in Db \ {d} : db'[c] = db[c]
  BY DbType DEF Rebind
<1> QED BY <1>1 DEF Renews, Recast, Others, Named

(* one of which the entry is replaced, *)
LEMMA RenewsOld ==
    ASSUME VInv, NEW d \in Db, NEW k, NEW e \in Named(d, k), NEW n, Rebind(d, {e}, {n})
    PROVE  Renews(d, k, n)
<1>1. db'[d] = (db[d] \ {e}) \union {n} /\ \A c \in Db \ {d} : db'[c] = db[c]
  BY DbType DEF Rebind, VInv
<1>2. {f \in db[d] : heap[f.key].str # k} = db[d] \ {e}
  BY LookedUp
<1> QED BY <1>1, <1>2 DEF Renews, Recast, Others

(* and one of which the entry stays and its value changes. *)
LEMMA RenewsSame ==
    ASSUME VInv, NEW d \in Db, NEW k, NEW e \in Named(d, k), SameKeys
    PROVE  Renews(d, k, e)
<1>1. {f \in db[d] : heap[f.key].str # k} = db[d] \ {e} /\ e \in db[d]
  BY LookedUp
<1> QED BY <1>1 DEF Renews, Recast, Others, SameKeys

(* A value belongs to one entry only. *)
LEMMA OnlyThat ==
    ASSUME VInv, NEW d \in Db, NEW k, NEW e \in Named(d, k)
    PROVE  Only(d, k, {e.val}) /\ Only(d, k, {})
<1>1. e \in db[d] /\ heap[e.key].str = k
  BY LookedUp
<1>2. DbOK(heap, db)
  BY DEF VInv, KInv, Fine
<1> QED BY <1>1, <1>2 DEF Only, DbOK

(* The heap with new strings. *)
LEMMA OneNew ==
    ASSUME VInv, NEW n \in {1, 2, 3}, Begin(n), NEW v \in Str
    PROVE  LET a == Slot(1)
               h == Given(<<v>>) IN
           /\ a \in Oid /\ heap[a].type = "free" /\ h[a] = String(v)
           /\ \A x \in Oid \ {a} : h[x] = heap[x]
           /\ h \in Heaps /\ Agree(heap, h, {}) /\ \A s \in Oid : h[s].members \subseteq heap[s].members
           /\ h = [o \in Oid |-> h[o]]
<1> DEFINE a == Slot(1)
           h == Given(<<v>>)
<1>1. Begin(1)
  <2>1. FreeSlots \in SUBSET Oid
    BY DEF FreeSlots
  <2>2. Cardinality(FreeSlots) \in Nat
    BY <2>1, OidFinite
  <2> QED BY <2>2 DEF Begin
<1>2. /\ a \in Oid /\ heap[a].type = "free" /\ h[a] = String(v)
      /\ \A x \in Oid \ {a} : h[x] = heap[x]
      /\ Fine(h, db, reply, Plus(None, {a}))
  BY <1>1, OneGiven DEF VInv
<1>3. h \in Heaps
  <2>1. \A obj \in Object : obj \in Loose
    BY DEF Object, Loose
  <2> QED BY <1>2, <2>1, FineType DEF Heaps
<1> HIDE DEF h
<1>4. h[a].members = {}
  BY <1>2, NewShapes DEF Plain
<1>5. Agree(heap, h, {}) /\ \A s \in Oid : h[s].members \subseteq heap[s].members
  BY <1>2, <1>4 DEF Agree, SameButRef
<1>6. h = [o \in Oid |-> h[o]]
  BY <1>3 DEF Heaps
<1> QED BY <1>2, <1>3, <1>5, <1>6 DEF h

(* Two new strings at once. *)
LEMMA TwoNew ==
    ASSUME VInv, NEW n \in {2, 3}, Begin(n), NEW k \in Str, NEW v \in Str
    PROVE  LET a == Slot(1)
               b == Slot(2)
               h == Given(<<k, v>>) IN
           /\ a \in Oid /\ b \in Oid /\ a # b /\ heap[a].type = "free" /\ heap[b].type = "free"
           /\ h[a] = String(k) /\ h[b] = String(v)
           /\ \A x \in Oid \ {a, b} : h[x] = heap[x]
           /\ h \in Heaps /\ Agree(heap, h, {}) /\ \A s \in Oid : h[s].members \subseteq heap[s].members
<1> DEFINE a == Slot(1)
           b == Slot(2)
           h == Given(<<k, v>>)
<1>2. /\ a \in Oid /\ heap[a].type = "free" /\ b \in Oid /\ heap[b].type = "free" /\ a # b
      /\ h[a] = String(k) /\ h[b] = String(v)
      /\ \A x \in Oid \ {a, b} : h[x] = heap[x]
      /\ Fine(h, db, reply, Plus(Plus(None, {a}), {b}))
  BY TwoGiven DEF VInv
<1>3. h \in Heaps
  <2>1. \A obj \in Object : obj \in Loose
    BY DEF Object, Loose
  <2> QED BY <1>2, <2>1, FineType DEF Heaps
<1> HIDE DEF h
<1>4. h[a].members = {} /\ h[b].members = {}
  BY <1>2, NewShapes DEF Plain
<1>5. Agree(heap, h, {}) /\ \A s \in Oid : h[s].members \subseteq heap[s].members
  BY <1>2, <1>4 DEF Agree, SameButRef
<1> QED BY <1>2, <1>3, <1>5 DEF h

(* The value of a string. *)
LEMMA StringVal ==
    ASSUME NEW h, NEW o, NEW s, h[o] = String(s)
    PROVE  h[o].str = s /\ Val(h, o) = Store!String(s)
BY DEF String, Dead, Val, Store!String

----------------------------------------------------------------------------
(* Commands over strings *)

(* The slots by their numbers. *)
LEMMA SlotsAre ==
    /\ Slots(1)[1] = Slot(1)
    /\ Slots(2)[1] = Slot(1) /\ Slots(2)[2] = Slot(2)
    /\ Slots(3)[1] = Slot(1) /\ Slots(3)[2] = Slot(2) /\ Slots(3)[3] = Slot(3)
BY DEF Slots

(* The fields of an entry. *)
LEMMA EntryFields ==
    ASSUME NEW k, NEW v
    PROVE  Entry(k, v).key = k /\ Entry(k, v).val = v
BY DEF Entry

(* Nothing is no container. *)
LEMMA NoContainers ==
    Containers(heap, {}) /\ \A d, k : Only(d, k, {})
BY DEF Containers, Only

(* An entry found under its name. *)
LEMMA FoundEntry ==
    ASSUME VInv, NEW d \in Db, NEW k, NEW e \in Named(d, k)
    PROVE  /\ e \in db[d] /\ heap[e.key].str = k /\ e.key \in Oid /\ e.val \in Oid /\ e.key # e.val
           /\ IsStr(heap, e.key) /\ heap[e.val].type # "free"
<1>1. e \in db[d] /\ heap[e.key].str = k /\ KInv
  BY LookedUp DEF VInv
<1> QED BY <1>1, EntryFacts

(* A new entry of two new strings. *)
LEMMA FreshEntry ==
    ASSUME VInv, KInv', NEW d \in Db, NEW k \in Str, NEW v \in Str, Begin(2), Named(d, k) = {},
           Rebind(d, {}, {Entry(Slot(1), Slot(2))}),
           Fades(Given(<<k, v>>), heap')
    PROVE  VInv' /\ Store!Bind(d, k, Store!String(v))
<1> DEFINE a == Slot(1)
           b == Slot(2)
           c == Given(<<k, v>>)
           n == Entry(a, b)
<1>1. /\ c[a] = String(k) /\ c[b] = String(v) /\ Agree(heap, c, {})
      /\ \A s \in Oid : c[s].members \subseteq heap[s].members
  BY TwoNew
<1> HIDE DEF c
<1>2. c[n.key].str = k /\ Val(c, n.val) = Store!String(v)
  BY <1>1, StringVal, EntryFields
<1>3. Gathered(heap, c, heap')
  BY <1>1 DEF Gathered
<1>4. Fades(c, heap')
  BY DEF c
<1>5. Carried(heap, heap', {})
  BY <1>1, <1>4, CarriedBy DEF Agree
<1>6. Renews(d, k, n)
  BY RenewsNew DEF VInv
<1> HIDE DEF n
<1>7. VInv' /\ Store!Bind(d, k, Val(c, n.val))
  BY <1>2, <1>3, <1>4, <1>5, <1>6, NoContainers, RenewStep
<1> QED BY <1>2, <1>7 DEF Store!Bind

(* A new string as the value of an entry. *)
LEMMA FreshValue ==
    ASSUME VInv, KInv', NEW d \in Db, NEW k \in Str, NEW v \in Str, Begin(1), NEW e \in Named(d, k),
           Rebind(d, {e}, {Entry(e.key, Slot(1))}),
           Fades(Given(<<v>>), heap')
    PROVE  VInv' /\ Store!Bind(d, k, Store!String(v))
<1> DEFINE a == Slot(1)
           c == Given(<<v>>)
           n == Entry(e.key, a)
<1>1. /\ c[a] = String(v) /\ Agree(heap, c, {}) /\ heap[a].type = "free" /\ \A x \in Oid \ {a} : c[x] = heap[x]
      /\ \A s \in Oid : c[s].members \subseteq heap[s].members
  BY OneNew
<1> HIDE DEF c
<1>2. c[n.key].str = k /\ Val(c, n.val) = Store!String(v)
  <2>1. e.key # a /\ heap[e.key].str = k /\ e.key \in Oid
    BY <1>1, FoundEntry DEF IsStr
  <2> QED BY <1>1, <2>1, StringVal, EntryFields
<1>3. Gathered(heap, c, heap')
  BY <1>1 DEF Gathered
<1>4. Fades(c, heap')
  BY DEF c
<1>5. Carried(heap, heap', {})
  BY <1>1, <1>4, CarriedBy DEF Agree
<1>6. Renews(d, k, n)
  BY RenewsOld
<1> HIDE DEF n
<1>7. VInv' /\ Store!Bind(d, k, Val(c, n.val))
  BY <1>2, <1>3, <1>4, <1>5, <1>6, NoContainers, RenewStep
<1> QED BY <1>2, <1>7 DEF Store!Bind

(* SET and SETNX *)
LEMMA setGenericChanges ==
    ASSUME VInv, KInv', NEW d \in Db, NEW k \in Str, NEW v \in Str, NEW nx,
           setGenericCommand(d, k, v, nx)
    PROVE  VInv' /\ Store!Change
<1>1. ASSUME Begin(2), Named(d, k) = {}, Rebind(d, {}, {Entry(Slot(1), Slot(2))}),
             Answer(Up(Given(<<k, v>>), {Slot(1), Slot(2)}), <<>>, {Slot(1), Slot(2)})
      PROVE  VInv' /\ Quiet /\ Store!Put(d, k, v)
  <2> DEFINE c == Given(<<k, v>>)
             W == {Slot(1), Slot(2)}
  <2>1. c \in Heaps /\ Agree(heap, c, {}) /\ W \in SUBSET Oid
    BY <1>1, TwoNew
  <2>2. Up(c, W) \in Heaps /\ Fades(c, Up(c, W))
    BY <2>1, UpFades
  <2>3. Answer(Up(c, W), <<>>, W)
    BY <1>1
  <2> HIDE DEF c, W
  <2>4. Fades(c, heap') /\ Quiet
    BY <2>1, <2>2, <2>3, NoContainers, SilentLeaves
  <2>5. VInv' /\ Store!Bind(d, k, Store!String(v))
    BY <1>1, <2>4, FreshEntry DEF c
  <2> QED BY <2>4, <2>5 DEF Store!Put
<1>2. ASSUME Begin(1), NEW e \in Named(d, k), Rebind(d, {e}, {Entry(e.key, Slot(1))}),
             Answer(incrRefCount(decrRefCount(Given(<<v>>), e.val), Slot(1)), <<>>, {Slot(1)})
      PROVE  VInv' /\ Quiet /\ Store!Put(d, k, v)
  <2> DEFINE c == Given(<<v>>)
             W == {Slot(1)}
             g == decrRefCount(c, e.val)
  <2>1. c \in Heaps /\ Agree(heap, c, {}) /\ W \in SUBSET Oid
    BY <1>2, OneNew
  <2>2. g \in Heaps /\ Fades(c, g)
    BY <1>2, <2>1, DecrFades, FoundEntry
  <2>3. Answer(Up(g, W), <<>>, W)
    BY <1>2 DEF incrRefCount
  <2> HIDE DEF c, W, g
  <2>4. Up(g, W) \in Heaps /\ Fades(c, Up(g, W))
    BY <2>2, UpFades, FadesFurther
  <2>5. Fades(c, heap') /\ Quiet
    BY <2>1, <2>3, <2>4, NoContainers, SilentLeaves
  <2>6. VInv' /\ Store!Bind(d, k, Store!String(v))
    BY <1>2, <2>5, FreshValue DEF c
  <2> QED BY <2>5, <2>6 DEF Store!Put
<1>3. VInv' /\ Quiet /\ Store!Put(d, k, v)
  BY <1>1, <1>2, SlotsAre DEF setGenericCommand
<1> QED BY <1>3 DEF Store!Change, Quiet

(* INCR and its like *)
LEMMA incrDecrChanges ==
    ASSUME VInv, KInv', NEW d \in Db, NEW k \in Str, incrDecrCommand(d, k)
    PROVE  VInv' /\ Store!ReadAndChange
<1> DEFINE old == {heap[e.val].str : e \in Typed(d, k, "string")}
           v == Bumped[IF old = {} THEN Nil ELSE CHOOSE s \in old : TRUE]
<1>1. v = Bumped[IF Store!Is(d, k, "string") THEN Store!Inside(d, k) ELSE Nil]
  <2>1. CASE Typed(d, k, "string") = {}
    <3>1. ~Store!Is(d, k, "string")
      <4> SUFFICES ASSUME Store!Is(d, k, "string") PROVE FALSE
        OBVIOUS
      <4>1. k \in DOMAIN Content[d] /\ Content[d][k][1] = "string"
        BY DEF Store!Is, Store!Keys
      <4>2. PICK e \in Named(d, k) : TRUE
        <5>1. DOMAIN Content[d] = {heap[e.key].str : e \in db[d]}
          BY DEF Content
        <5> QED BY <4>1, <5>1 DEF Named
      <4>3. heap[e.val].type = "string"
        BY <4>1, <4>2, LookedUp, ValIs
      <4> QED BY <2>1, <4>3 DEF Typed
    <3>2. old = {}
      BY <2>1
    <3> QED BY <3>1, <3>2
  <2>2. ASSUME NEW e \in Typed(d, k, "string") PROVE v = Bumped[IF Store!Is(d, k, "string") THEN Store!Inside(d, k) ELSE Nil]
    <3>1. heap[e.val].type = "string" /\ e \in Named(d, k)
      BY <2>2 DEF Typed
    <3>2. Store!Is(d, k, "string") /\ Store!Inside(d, k) = heap[e.val].str
      BY <2>2, <3>1, FoundTyped, ValIs
    <3>3. \A f \in Typed(d, k, "string") : f = e
      BY <3>1, LookedUp DEF Typed, Named, VInv, Distinct
    <3>4. old = {heap[e.val].str}
      BY <3>3
    <3>5. (CHOOSE s \in old : TRUE) = heap[e.val].str
      BY <3>4
    <3> QED BY <3>2, <3>4, <3>5
  <2> QED BY <2>1, <2>2
<1>2. v \in Str
  <2>1. v \in Str \/ v \notin Str
    OBVIOUS
  <2>2. (IF old = {} THEN Nil ELSE CHOOSE s \in old : TRUE) \in Str \union {Nil}
    <3>1. old \subseteq Str \union {Nil}
      BY FoundEntry, HeapType DEF Typed, VInv, Object
    <3> QED BY <3>1
  <2> QED BY <2>2, BumpedAssumption
<1> HIDE DEF v
<1>3. ASSUME Begin(2), Named(d, k) = {}, Rebind(d, {}, {Entry(Slot(1), Slot(2))}),
             Answer(incrRefCount(Given(<<k, v>>), Slot(1)), <<Slot(2)>>, {Slot(1)})
      PROVE  VInv' /\ Store!Say(<<v>>) /\ Store!Bind(d, k, Store!String(v))
  <2> DEFINE c == Given(<<k, v>>)
             W == {Slot(1)}
             a == Slot(2)
             os == <<a>>
  <2>1. c \in Heaps /\ Agree(heap, c, {}) /\ W \in SUBSET Oid /\ a \in Oid /\ c[a] = String(v)
    BY <1>2, <1>3, TwoNew
  <2>2. Up(c, W) \in Heaps /\ Fades(c, Up(c, W))
    BY <2>1, UpFades
  <2>3. Answer(Up(c, W), os, W)
    BY <1>3 DEF incrRefCount
  <2>4. os \in Seq(Oid) /\ a \in ToSet(os) /\ reply' = reply \o os
    BY <2>1, <2>3, OneAnswer DEF Answer
  <2>5. Said(heap', os) = <<heap'[a].str>>
    BY SaidOne
  <2> HIDE DEF c, W, os, a
  <2>6. Fades(c, heap') /\ Store!Say(Said(heap', os))
    BY <2>1, <2>2, <2>3, <2>4, NoContainers, ChangeLeaves
  <2>7. VInv' /\ Store!Bind(d, k, Store!String(v))
    BY <1>2, <1>3, <2>6, FreshEntry DEF c
  <2>8. heap'[a].str = v
    <3>1. Entry(Slot(1), a) \in db'[d]
      <4>1. Renews(d, k, Entry(Slot(1), a))
        BY <1>3, RenewsNew DEF VInv, a
      <4> QED BY <4>1 DEF Renews
    <3>2. heap'[Entry(Slot(1), a).val].type # "free" /\ Entry(Slot(1), a).val = a
      BY <2>6, <3>1, LiveEntry, EntryFields
    <3> QED BY <2>1, <2>6, <3>2, StringVal DEF Fades, SameButRef
  <2> QED BY <2>5, <2>6, <2>7, <2>8 DEF Store!Say
<1>4. ASSUME Begin(1), NEW e \in Named(d, k), Rebind(d, {e}, {Entry(e.key, Slot(1))}),
             Answer(decrRefCount(Given(<<v>>), e.val), <<Slot(1)>>, {})
      PROVE  VInv' /\ Store!Say(<<v>>) /\ Store!Bind(d, k, Store!String(v))
  <2> DEFINE c == Given(<<v>>)
             a == Slot(1)
             os == <<a>>
             g == decrRefCount(c, e.val)
  <2>1. c \in Heaps /\ Agree(heap, c, {}) /\ a \in Oid /\ c[a] = String(v)
    BY <1>2, <1>4, OneNew
  <2>2. g \in Heaps /\ Fades(c, g)
    BY <1>4, <2>1, DecrFades, FoundEntry
  <2>3. Answer(g, os, {})
    BY <1>4
  <2>4. os \in Seq(Oid) /\ a \in ToSet(os) /\ reply' = reply \o os
    BY <2>1, <2>3, OneAnswer DEF Answer
  <2>5. Said(heap', os) = <<heap'[a].str>>
    BY SaidOne
  <2> HIDE DEF c, os, a, g
  <2>6. Fades(c, heap') /\ Store!Say(Said(heap', os))
    BY <2>1, <2>2, <2>3, <2>4, NoContainers, ChangeLeaves
  <2>7. VInv' /\ Store!Bind(d, k, Store!String(v))
    BY <1>2, <1>4, <2>6, FreshValue DEF c
  <2>8. heap'[a].str = v
    <3>1. Entry(e.key, a) \in db'[d]
      <4>1. Renews(d, k, Entry(e.key, a))
        BY <1>4, RenewsOld DEF a
      <4> QED BY <4>1 DEF Renews
    <3>2. heap'[Entry(e.key, a).val].type # "free" /\ Entry(e.key, a).val = a
      BY <2>6, <3>1, LiveEntry, EntryFields
    <3> QED BY <2>1, <2>6, <3>2, StringVal DEF Fades, SameButRef
  <2> QED BY <2>5, <2>6, <2>7, <2>8 DEF Store!Say
<1>5. VInv' /\ Store!Say(<<v>>) /\ Store!Bind(d, k, Store!String(v))
  BY <1>3, <1>4, SlotsAre DEF incrDecrCommand, v
<1>6. Store!Increment(d, k)
  BY <1>1, <1>5 DEF Store!Increment, Store!Say, Store!Bind
<1> QED BY <1>5, <1>6 DEF Store!ReadAndChange

----------------------------------------------------------------------------
(* Commands over databases *)

(* A command that sends nothing, over the heap as it is. *)
LEMMA HeapLeaves ==
    ASSUME VInv, KInv', NEW b \in Heaps, Fades(heap, b), NEW S \in SUBSET Oid, Answer(b, <<>>, S)
    PROVE  /\ Fades(heap, heap') /\ Carried(heap, heap', {}) /\ Containers(heap, {}) /\ Quiet
           /\ Gathered(heap, heap, heap')
<1>1. Agree(heap, heap, {}) /\ Containers(heap, {}) /\ Gathered(heap, heap, heap')
  BY DEF Agree, Containers, SameButRef, Gathered
<1> QED BY <1>1, SilentLeaves

(* The invariant, from the two parts a command can disturb. *)
LEMMA ByNameInv ==
    ASSUME VInv, KInv', ByName', NEW b, NEW T, Carried(heap, heap', T), Containers(heap, T), Fades(b, heap'),
           Gathered(heap, b, heap')
    PROVE  VInv'
<1>1. \A s \in Oid : Sole(heap', s)
  BY SoleKept
<1> QED BY <1>1 DEF VInv, ByName

(* DEL *)
LEMMA delChanges ==
    ASSUME VInv, KInv', NEW d \in Db, NEW k \in Str, delCommand(d, k)
    PROVE  VInv' /\ Store!Change
<1>1. PICK e \in Named(d, k) : Rebind(d, {e}, {}) /\ Answer(heap, <<>>, {e.key, e.val})
  BY DEF delCommand
<1>2. e \in db[d] /\ heap[e.key].str = k /\ e.key \in Oid /\ e.val \in Oid
  BY FoundEntry
<1>3. heap \in Heaps /\ Fades(heap, heap) /\ {e.key, e.val} \in SUBSET Oid
  BY <1>2, HeapType, FadesSelf DEF VInv
<1> DEFINE S == {e.key, e.val}
<1>4. Answer(heap, <<>>, S)
  BY <1>1
<1> HIDE DEF S
<1>5. /\ Fades(heap, heap') /\ Carried(heap, heap', {}) /\ Containers(heap, {}) /\ Quiet
      /\ Gathered(heap, heap, heap')
  BY <1>3, <1>4, HeapLeaves DEF S
<1>6. Others(d) /\ db'[d] = Recast(heap, db[d], {k}, {})
  <2>1. db'[d] = (db[d] \ {e}) \union {} /\ \A c \in Db \ {d} : db'[c] = db[c]
    BY <1>1, DbType DEF Rebind, VInv
  <2>2. {f \in db[d] : heap[f.key].str # k} = db[d] \ {e}
    BY LookedUp
  <2> QED BY <2>1, <2>2 DEF Recast, Others
<1>7. Content' = [Content EXCEPT ![d] = Store!Without(@, k)] /\ ByName'
  BY <1>5, <1>6, GoneContent
<1>8. VInv'
  BY <1>5, <1>7, ByNameInv
<1>9. k \in Store!Keys(d)
  BY LookedUp DEF Store!Keys
<1> QED BY <1>5, <1>7, <1>8, <1>9 DEF Store!Change, Store!Delete, Quiet

(* FLUSHDB and FLUSHALL *)
LEMMA EmptiedChanges ==
    ASSUME VInv, KInv', NEW D \in SUBSET Db, Emptied(D)
    PROVE  VInv' /\ Store!Change
<1> DEFINE S == {e.key : e \in UNION {db[d] : d \in D}} \union {e.val : e \in UNION {db[d] : d \in D}}
<1>1. Answer(heap, <<>>, S) /\ db' = [d \in Db |-> IF d \in D THEN {} ELSE db[d]]
  BY DEF Emptied
<1>2. S \in SUBSET Oid
  <2>1. KInv
    BY DEF VInv
  <2>2. \A d \in Db : \A e \in db[d] : e.key \in Oid /\ e.val \in Oid
    BY <2>1, EntryFacts
  <2> QED BY <2>2
<1>3. heap \in Heaps /\ Fades(heap, heap)
  BY HeapType, FadesSelf DEF VInv
<1> HIDE DEF S
<1>5. /\ Fades(heap, heap') /\ Carried(heap, heap', {}) /\ Containers(heap, {}) /\ Quiet
      /\ Gathered(heap, heap, heap')
  BY <1>1, <1>2, <1>3, HeapLeaves
<1>6. ASSUME NEW c \in Db
      PROVE  /\ Distinct(heap', db'[c])
             /\ Content'[c] = IF c \in D THEN <<>> ELSE Content[c]
  <2>1. CASE c \in D
    <3>1. db'[c] = {}
      BY <1>1, <2>1
    <3>2. Content'[c] = Cont(heap', {}) /\ Distinct(heap', {})
      BY <3>1, ContentIs DEF Distinct
    <3>3. Cont(heap', {}) = <<>>
      BY DEF Cont, Names
    <3> QED BY <2>1, <3>1, <3>2, <3>3
  <2>2. CASE c \notin D
    <3>1. db'[c] = db[c] /\ Covers(db[c], {}, {})
      BY <1>1, <2>2 DEF Covers
    <3> QED BY <1>5, <2>2, <3>1, DbKept
  <2> QED BY <2>1, <2>2
<1>7. ByName' /\ Content' = [d \in Db |-> IF d \in D THEN <<>> ELSE Content[d]]
  BY <1>6, ContentFun DEF ByName
<1>8. VInv'
  BY <1>5, <1>7, ByNameInv
<1> QED BY <1>5, <1>7, <1>8 DEF Store!Change, Store!Empty, Quiet

(* MOVE *)
LEMMA moveChanges ==
    ASSUME VInv, KInv', NEW d \in Db, NEW to \in Db, NEW k \in Str, moveCommand(d, k, to)
    PROVE  VInv' /\ Store!Change
<1>1. PICK e \in Named(d, k) :
         /\ db' = [db EXCEPT ![d] = @ \ {e}, ![to] = @ \union {e}]
         /\ Answer(Up(heap, {e.key, e.val}), <<>>, {e.key, e.val})
  BY DEF moveCommand
<1> DEFINE S == {e.key, e.val}
           b == Up(heap, S)
<1>2. e \in db[d] /\ heap[e.key].str = k /\ S \in SUBSET Oid /\ d # to /\ Named(to, k) = {}
  BY FoundEntry DEF moveCommand
<1>3. b \in Heaps /\ Fades(heap, b)
  BY HeapType, UpFades DEF VInv
<1>4. Answer(b, <<>>, S)
  BY <1>1
<1> HIDE DEF S, b
<1>5. /\ Fades(heap, heap') /\ Carried(heap, heap', {}) /\ Containers(heap, {}) /\ Quiet
      /\ Gathered(heap, heap, heap')
  BY <1>2, <1>3, <1>4, HeapLeaves
<1>6. /\ db'[d] = db[d] \ {e} /\ db'[to] = db[to] \union {e}
      /\ \A c \in Db \ {d, to} : db'[c] = db[c]
  BY <1>1, <1>2, DbType DEF VInv
<1>7. \A c \in Db \ {d, to} : Content'[c] = Content[c] /\ Distinct(heap', db'[c])
  <2> TAKE c \in Db \ {d, to}
  <2>1. db'[c] = db[c] /\ Covers(db[c], {}, {})
    BY <1>6 DEF Covers
  <2> QED BY <1>5, <2>1, DbKept
<1>8. e \in db'[to] /\ heap'[e.key].str = k /\ Val(heap', e.val) = Val(heap, e.val)
  BY <1>2, <1>5, <1>6, LiveEntry
<1>9. Distinct(heap', db'[d]) /\ Follows(Content'[d], Content[d], {k}, heap', {})
  <2>1. {f \in db[d] : heap[f.key].str # k} = db[d] \ {e}
    BY LookedUp
  <2>2. db'[d] = Recast(heap, db[d], {k}, {}) /\ Distinct(heap', {}) /\ Names(heap', {}) \subseteq {k}
    BY <1>6, <2>1 DEF Recast, Distinct, Names
  <2>3. Covers(db[d], {k}, {})
    BY DEF Covers
  <2> QED BY <1>5, <2>2, <2>3, CastContent
<1>10. Distinct(heap', db'[to]) /\ Follows(Content'[to], Content[to], {k}, heap', {e})
  <2>1. db'[to] = Recast(heap, db[to], {k}, {e}) /\ Distinct(heap', {e}) /\ Names(heap', {e}) \subseteq {k}
    BY <1>2, <1>6, <1>8 DEF Recast, Distinct, Names, Named
  <2>3. Covers(db[to], {k}, {})
    BY DEF Covers
  <2> QED BY <1>5, <2>1, <2>3, CastContent
<1>11. Content[d][k] = Val(heap, e.val) /\ k \in DOMAIN Content[d]
  BY LookedUp
<1>12. Content'[d] = [x \in DOMAIN Content[d] \ {k} |-> Content[d][x]]
  BY <1>9, ContentFun, ZenonT(60) DEF Follows, Names
<1>13. Content'[to] = [x \in DOMAIN Content[to] \union {k} |-> IF x = k THEN Content[d][k] ELSE Content[to][x]]
  <2>1. Names(heap', {e}) = {k}
    BY <1>8 DEF Names
  <2>2. Content'[to][k] = Content[d][k]
    BY <1>8, <1>10, <1>11 DEF Follows
  <2> QED BY <1>10, <2>1, <2>2, ContentFun DEF Follows
<1>14. Content' = [Content EXCEPT ![d] = Store!Without(@, k), ![to] = Store!WithKey(@, k, Content[d][k])]
  BY <1>2, <1>7, <1>12, <1>13, ContentFun DEF Store!Without, Store!WithKey
<1>15. k \in Store!Keys(d) \ Store!Keys(to)
  <2>1. DOMAIN Content[to] = Names(heap, db[to])
    BY ContentIs DEF Cont
  <2> QED BY <1>2, <1>11, <2>1 DEF Store!Keys, Names, Named
<1>16. ByName'
  BY <1>7, <1>9, <1>10 DEF ByName
<1>17. VInv'
  BY <1>5, <1>16, ByNameInv
<1>18. Store!Move(d, k, to)
  BY <1>14, <1>15 DEF Store!Move
<1> QED BY <1>5, <1>17, <1>18 DEF Store!Change, Quiet

(* What RENAME makes of a database. *)
Renamed(d, k, l) ==
    Content' = [Content EXCEPT ![d] = Store!WithKey(Store!Without(@, k), l, @[k])]

(* A database of which one entry has another name. *)
LEMMA RenamedContent ==
    ASSUME VInv, KInv', Carried(heap, heap', {}), Containers(heap, {}),
           NEW d \in Db, NEW k, NEW l, k # l, NEW e \in Named(d, k), Others(d),
           NEW n \in db'[d], n.val = e.val, heap'[n.key].str = l,
           db'[d] = Recast(heap, db[d], {k, l}, {n})
    PROVE  ByName' /\ Renamed(d, k, l)
<1>1. \A c \in Db \ {d} : Content'[c] = Content[c] /\ Distinct(heap', db'[c])
  <2> TAKE c \in Db \ {d}
  <2>1. db'[c] = db[c] /\ Covers(db[c], {}, {})
    BY DEF Others, Covers
  <2> QED BY <2>1, DbKept
<1>2. Distinct(heap', {n}) /\ Names(heap', {n}) = {l} /\ Covers(db[d], {k, l}, {})
  BY DEF Distinct, Names, Covers
<1>3. Distinct(heap', db'[d]) /\ Follows(Content'[d], Content[d], {k, l}, heap', {n})
  <2>1. Names(heap', {n}) \subseteq {k, l}
    BY <1>2
  <2> QED BY <1>2, <2>1, CastContent
<1>4. Val(heap', n.val) = Content[d][k] /\ k \in DOMAIN Content[d]
  <2>1. Fine(heap, db, reply, None) /\ Fine(heap', db', reply', None')
    BY DEF VInv, KInv
  <2>2. e.val \in Oid \ {} /\ heap[e.val].type # "free"
    BY FoundEntry
  <2>3. heap'[e.val].type # "free"
    BY <2>1, InUse
  <2>4. Val(heap', e.val) = Val(heap, e.val)
    BY <2>1, <2>2, <2>3, ValKept
  <2> QED BY <2>4, LookedUp
<1>5. Content'[d][l] = Content[d][k]
  BY <1>3, <1>4 DEF Follows
<1>6. DOMAIN Content'[d] = (DOMAIN Content[d] \ {k}) \union {l}
  BY <1>2, <1>3 DEF Follows
<1>7. Content'[d] = [x \in (DOMAIN Content[d] \ {k}) \union {l} |-> IF x = l THEN Content[d][k] ELSE Content[d][x]]
  BY <1>3, <1>5, <1>6, ContentFun DEF Follows
<1>8. Content'[d] = Store!WithKey(Store!Without(Content[d], k), l, Content[d][k])
  <2> DEFINE f == Store!Without(Content[d], k)
  <2>1. DOMAIN f = DOMAIN Content[d] \ {k} /\ \A x \in DOMAIN f : f[x] = Content[d][x]
    BY DEF Store!Without
  <2> HIDE DEF f
  <2>2. Content'[d] = [x \in DOMAIN f \union {l} |-> IF x = l THEN Content[d][k] ELSE f[x]]
    BY <1>7, <2>1
  <2> QED BY <2>2 DEF f, Store!WithKey
<1>9. Content' = [Content EXCEPT ![d] = Store!WithKey(Store!Without(@, k), l, @[k])]
  BY <1>1, <1>8, ContentFun
<1> QED BY <1>1, <1>3, <1>9 DEF ByName, Renamed

(* RENAME to a new name, *)
LEMMA renameNewChanges ==
    ASSUME VInv, KInv', NEW d \in Db, NEW k \in Str, NEW l \in Str, NEW e \in Named(d, k),
           Begin(1), Named(d, l) = {}, Rebind(d, {e}, {Entry(Slot(1), e.val)}),
           Answer(Up(Given(<<l>>), {e.val, Slot(1)}), <<>>, {e.key, e.val, Slot(1)})
    PROVE  VInv' /\ Quiet /\ Store!Rename(d, k, l)
<1> DEFINE a == Slot(1)
           c == Given(<<l>>)
           n == Entry(a, e.val)
           W == {e.val, a}
           S == {e.key, e.val, a}
           b == Up(c, W)
<1>1. /\ a \in Oid /\ c[a] = String(l) /\ Agree(heap, c, {})
      /\ c \in Heaps /\ \A s \in Oid : c[s].members \subseteq heap[s].members
  BY OneNew
<1>2. e \in db[d] /\ heap[e.key].str = k /\ S \in SUBSET Oid
  BY <1>1, FoundEntry
<1>3. b \in Heaps /\ Fades(c, b)
  BY <1>1, UpFades
<1>4. Answer(b, <<>>, S)
  OBVIOUS
<1>5. n.key = a /\ n.val = e.val
  BY DEF Entry
<1>6. db'[d] = (db[d] \ {e}) \union {n} /\ \A x \in Db \ {d} : db'[x] = db[x]
  BY DbType DEF Rebind, VInv
<1> HIDE DEF c, W, S, b, a, n
<1>7. Fades(c, heap') /\ Carried(heap, heap', {}) /\ Quiet
  BY <1>1, <1>2, <1>3, <1>4, NoContainers, SilentLeaves
<1>8. heap'[n.key].str = l /\ n \in db'[d]
  BY <1>1, <1>5, <1>6, <1>7, LiveEntry, StringVal, SMTT(30)
<1>9. k # l /\ Others(d) /\ db'[d] = Recast(heap, db[d], {k, l}, {n})
  <2>1. {f \in db[d] : heap[f.key].str # k} = db[d] \ {e}
    BY LookedUp
  <2>2. \A f \in db[d] : heap[f.key].str # l
    BY DEF Named
  <2> QED BY <1>2, <1>6, <2>1, <2>2 DEF Others, Recast
<1>10. ByName' /\ Renamed(d, k, l)
  BY <1>5, <1>7, <1>8, <1>9, NoContainers, RenamedContent
<1>11. Gathered(heap, c, heap')
  BY <1>1 DEF Gathered
<1>12. VInv'
  BY <1>7, <1>10, <1>11, NoContainers, ByNameInv
<1>13. k \in Store!Keys(d)
  BY LookedUp DEF Store!Keys
<1> QED BY <1>7, <1>9, <1>10, <1>12, <1>13 DEF Store!Rename, Renamed

(* to one that was there, itself included, *)
LEMMA renameOldChanges ==
    ASSUME VInv, KInv', NEW d \in Db, NEW k \in Str, NEW l \in Str, NEW e \in Named(d, k), NEW f \in Named(d, l),
           Rebind(d, {e, f}, IF e = f THEN {} ELSE {Entry(f.key, e.val)}),
           Answer(decrRefCount(incrRefCount(heap, e.val), f.val), <<>>, {e.key, e.val})
    PROVE  VInv' /\ Quiet /\ (Store!Rename(d, k, l) \/ Store!Delete(d, k))
<1> DEFINE S == {e.key, e.val}
           c == Up(heap, {e.val})
           b == decrRefCount(c, f.val)
<1>1. /\ e \in db[d] /\ heap[e.key].str = k /\ S \in SUBSET Oid
      /\ f \in db[d] /\ heap[f.key].str = l /\ f.val \in Oid /\ f.key \in Oid
      /\ {x \in db[d] : heap[x.key].str # k} = db[d] \ {e}
      /\ {x \in db[d] : heap[x.key].str # l} = db[d] \ {f}
      /\ k \in Store!Keys(d)
  BY FoundEntry, LookedUp DEF Store!Keys
<1>2. c \in Heaps /\ Fades(heap, c)
  BY HeapType, UpFades DEF VInv
<1>3. b \in Heaps /\ Fades(c, b)
  BY <1>1, <1>2, DecrFades
<1>4. Fades(heap, b)
  BY <1>2, <1>3, FadesFurther
<1>5. Answer(b, <<>>, S)
  BY DEF incrRefCount
<1> HIDE DEF S, b, c
<1>6. /\ Fades(heap, heap') /\ Carried(heap, heap', {}) /\ Containers(heap, {}) /\ Quiet
      /\ Gathered(heap, heap, heap')
  BY <1>1, <1>3, <1>4, <1>5, HeapLeaves
<1>7. CASE e = f
  <2>1. db'[d] = (db[d] \ {e}) /\ \A c2 \in Db \ {d} : db'[c2] = db[c2]
    BY <1>7, DbType DEF Rebind, VInv
  <2>2. Others(d) /\ db'[d] = Recast(heap, db[d], {k}, {})
    BY <1>1, <2>1 DEF Recast, Others
  <2>3. Content' = [Content EXCEPT ![d] = Store!Without(@, k)] /\ ByName'
    BY <1>6, <2>2, GoneContent
  <2>4. VInv'
    BY <1>6, <2>3, ByNameInv
  <2> QED BY <1>1, <1>6, <2>3, <2>4 DEF Store!Delete
<1>8. CASE e # f
  <2> DEFINE n == Entry(f.key, e.val)
  <2>1. db'[d] = (db[d] \ {e, f}) \union {n} /\ \A c2 \in Db \ {d} : db'[c2] = db[c2]
    BY <1>8, DbType DEF Rebind, VInv
  <2>2. n.key = f.key /\ n.val = e.val
    BY DEF Entry
  <2> HIDE DEF n
  <2>3. k # l
    BY <1>1, <1>8 DEF VInv, Distinct
  <2>4. Others(d) /\ db'[d] = Recast(heap, db[d], {k, l}, {n})
    <3>1. {x \in db[d] : heap[x.key].str \notin {k, l}} = db[d] \ {e, f}
      BY <1>1
    <3> QED BY <2>1, <3>1 DEF Recast, Others
  <2>5. n \in db'[d] /\ heap'[n.key].str = l
    BY <1>1, <1>6, <2>1, <2>2, LiveEntry
  <2>6. ByName' /\ Renamed(d, k, l)
    BY <1>6, <2>2, <2>3, <2>4, <2>5, RenamedContent
  <2>7. VInv'
    BY <1>6, <2>6, ByNameInv
  <2> QED BY <1>1, <1>6, <2>3, <2>6, <2>7 DEF Store!Rename, Renamed
<1> QED BY <1>7, <1>8

(* and both. *)
LEMMA renameChanges ==
    ASSUME VInv, KInv', NEW d \in Db, NEW k \in Str, NEW l \in Str, NEW nx,
           renameGenericCommand(d, k, l, nx)
    PROVE  VInv' /\ Store!Change
<1>1. VInv' /\ Quiet /\ (Store!Rename(d, k, l) \/ Store!Delete(d, k))
  BY renameNewChanges, renameOldChanges DEF renameGenericCommand
<1> QED BY <1>1 DEF Store!Change, Quiet

----------------------------------------------------------------------------
(* Commands over lists, as the store sees them *)

(* A command on the value that the entry e has and keeps. *)
LEMMA InPlace ==
    ASSUME VInv, KInv', NEW d \in Db, NEW k, NEW e \in Named(d, k),
           heap[e.val].type \in {"list", "set"}, SameKeys,
           NEW c, NEW b \in Heaps, Fades(c, b), Agree(heap, c, {e.val}),
           NEW os \in Seq(Oid), NEW S \in SUBSET Oid, Answer(b, os, S), Gathered(heap, c, heap')
    PROVE  /\ VInv' /\ Store!Bind(d, k, Val(c, e.val)) /\ Store!Say(Said(heap', os))
           /\ Carried(heap, heap', {e.val}) /\ Containers(heap, {e.val})
<1> DEFINE T == {e.val}
<1>1. Containers(heap, T) /\ Agree(heap, c, T) /\ Only(d, k, T)
  BY OnlyThat DEF Containers
<1>2. c[e.key].str = k
  <2>1. heap[e.key].str = k /\ e.key \in Oid \ T /\ heap[e.key].type # "free"
    BY FoundEntry DEF IsStr
  <2> QED BY <1>1, <2>1 DEF Agree, SameButRef
<1>3. Renews(d, k, e)
  BY RenewsSame
<1> HIDE DEF T
<1>4. Fades(c, heap') /\ Carried(heap, heap', T) /\ Store!Say(Said(heap', os))
  BY <1>1, ChangeLeaves
<1>5. VInv' /\ Store!Bind(d, k, Val(c, e.val))
  BY <1>1, <1>2, <1>3, <1>4, RenewStep
<1> QED BY <1>1, <1>4, <1>5 DEF T

(* The same without an answer. *)
LEMMA QuietInPlace ==
    ASSUME VInv, KInv', NEW d \in Db, NEW k, NEW e \in Named(d, k),
           heap[e.val].type \in {"list", "set"}, SameKeys,
           NEW c, NEW b \in Heaps, Fades(c, b), Agree(heap, c, {e.val}),
           NEW S \in SUBSET Oid, Answer(b, <<>>, S), Gathered(heap, c, heap')
    PROVE  VInv' /\ Store!Bind(d, k, Val(c, e.val)) /\ Quiet
<1> DEFINE os == <<>>
<1>1. os \in Seq(Oid) /\ Answer(b, os, S) /\ reply' = reply \o <<>>
  BY DEF Answer
<1> HIDE DEF os
<1>2. /\ VInv' /\ Store!Bind(d, k, Val(c, e.val))
      /\ Carried(heap, heap', {e.val}) /\ Containers(heap, {e.val})
  BY <1>1, InPlace
<1> DEFINE T == {e.val}
<1>3. Carried(heap, heap', T) /\ Containers(heap, T)
  BY <1>2
<1> HIDE DEF T
<1>4. UNCHANGED [i \in DOMAIN reply |-> heap[reply[i]].str]
  BY <1>1, <1>3, NothingSaid DEF VInv
<1> QED BY <1>2, <1>4 DEF Quiet

(* A list that gets other elements *)
LEMMA SetElemsFacts ==
    ASSUME NEW h \in Heaps, NEW l \in Oid, NEW es \in Seq(Oid)
    PROVE  LET g == SetElems(h, l, es) IN
           /\ g \in Heaps /\ \A x \in Oid \ {l} : g[x] = h[x]
           /\ \A x \in Oid : g[x].type = h[x].type /\ g[x].str = h[x].str /\ g[x].members = h[x].members
           /\ g[l].elems = es
<1> DEFINE T == {"free", "string", "list", "set"}
           V == Str \union {Nil}
           E == Seq(Oid)
           M == SUBSET Oid
<1>1. Heaps = [Oid -> [type : T, ref : Int, str : V, elems : E, members : M]]
  BY DEF Loose, Heaps
<1>2. es \in E
  OBVIOUS
<1> HIDE DEF T, V, E, M
<1> QED BY <1>1, <1>2 DEF SetElems

(* gets them before or after others are dropped. *)
LEMMA SetElemsFades ==
    ASSUME NEW h \in Heaps, NEW g \in Heaps, Fades(h, g), NEW l \in Oid, NEW es \in Seq(Oid)
    PROVE  Fades(SetElems(h, l, es), SetElems(g, l, es))
<1> DEFINE a == SetElems(h, l, es)
           b == SetElems(g, l, es)
<1>1. /\ \A x \in Oid \ {l} : a[x] = h[x]
      /\ \A x \in Oid : a[x].type = h[x].type /\ a[x].str = h[x].str /\ a[x].members = h[x].members
      /\ a[l].elems = es
  BY SetElemsFacts
<1>2. /\ \A x \in Oid \ {l} : b[x] = g[x]
      /\ \A x \in Oid : b[x].type = g[x].type /\ b[x].str = g[x].str /\ b[x].members = g[x].members
      /\ b[l].elems = es
  BY SetElemsFacts
<1> HIDE DEF a, b
<1>3. Fades(a, b)
  BY <1>1, <1>2 DEF Fades, SameButRef
<1> QED BY <1>3 DEF a, b

(* A list with strings that are in it or new. *)
LEMMA ListVal ==
    ASSUME NEW h, NEW l, h[l].type = "list"
    PROVE  Val(h, l) = Store!List(Said(h, h[l].elems))
BY ValIs DEF Store!List

(* Heaps that agree on strings say the same. *)
LEMMA SaidAgree ==
    ASSUME NEW h, NEW g, NEW es \in Seq(Oid), \A x \in ToSet(es) : g[x].str = h[x].str
    PROVE  Said(g, es) = Said(h, es)
<1>1. \A i \in DOMAIN es : g[es[i]].str = h[es[i]].str
  BY DEF ToSet
<1> QED BY <1>1 DEF Said

(* Replies that say the same in both heaps. *)
SaysSame(h, g, r) == \A i \in DOMAIN r : g[r[i]].str = h[r[i]].str

(* SaidJoin for an opaque premise. *)
LEMMA SaidJoined ==
    ASSUME NEW h, NEW g, NEW r \in Seq(Oid), NEW os \in Seq(Oid), SaysSame(h, g, r)
    PROVE  Said(g, r \o os) = Said(h, r) \o Said(g, os)
BY SaidJoin DEF SaysSame

(* RPUSH to a list that is there *)
LEMMA pushedChanges ==
    ASSUME VInv, KInv', NEW d \in Db, NEW k \in Str, NEW v \in Str, Begin(1), SameKeys,
           NEW e \in Typed(d, k, "list"),
           Answer(incrRefCount(SetElems(Given(<<v>>), e.val, Append(heap[e.val].elems, Slot(1))), Slot(1)),
                  <<>>, {Slot(1)})
    PROVE  VInv' /\ Quiet /\ Store!Push(d, k, v)
<1> DEFINE a == Slot(1)
           h == Given(<<v>>)
           es == heap[e.val].elems
           fs == Append(es, a)
           W == {a}
           c == SetElems(h, e.val, fs)
           b == Up(c, W)
<1>1. /\ a \in Oid /\ heap[a].type = "free" /\ h[a] = String(v)
      /\ \A x \in Oid \ {a} : h[x] = heap[x]
      /\ h \in Heaps /\ \A s \in Oid : h[s].members \subseteq heap[s].members
  BY OneNew
<1>2. /\ e.val \in Oid /\ heap[e.val].type = "list" /\ e \in Named(d, k)
      /\ es \in Seq(Oid) /\ AllStr(heap, ToSet(es)) /\ ToSet(es) \subseteq Oid
  BY ListFacts DEF VInv, Typed
<1>3. fs \in Seq(Oid) /\ W \in SUBSET Oid
  BY <1>1, <1>2
<1>4. Answer(b, <<>>, W)
  BY DEF incrRefCount
<1>5. fs = es \o <<a>> /\ <<a>> \in Seq(Oid)
  <2> HIDE DEF a, h, es, W
  <2>1. a \in Oid /\ es \in Seq(Oid)
    BY <1>1, <1>2
  <2>2. Append(es, a) = es \o <<a>> /\ <<a>> \in Seq(Oid)
    BY <2>1
  <2> QED BY <2>2
<1>6. h[e.val].type = "list"
  BY <1>1, <1>2
<1> HIDE DEF a, h, es, fs, W
<1>7. /\ c \in Heaps /\ \A x \in Oid \ {e.val} : c[x] = h[x]
      /\ \A x \in Oid : c[x].type = h[x].type /\ c[x].str = h[x].str /\ c[x].members = h[x].members
      /\ c[e.val].elems = fs
  BY <1>1, <1>2, <1>3, SetElemsFacts
<1> HIDE DEF c
<1>8. b \in Heaps /\ Fades(c, b)
  BY <1>7, UpFades
<1> HIDE DEF b
<1>9. Agree(heap, c, {e.val}) /\ Gathered(heap, c, heap')
  BY <1>1, <1>7 DEF Agree, SameButRef, Gathered
<1>10. VInv' /\ Store!Bind(d, k, Val(c, e.val)) /\ Quiet
  BY <1>2, <1>3, <1>4, <1>8, <1>9, QuietInPlace
<1>11. Said(c, fs) = Said(heap, es) \o <<v>>
  <2>1. SaysSame(heap, c, es)
    <3>1. \A x \in ToSet(es) : x \in Oid \ {a}
      BY <1>1, <1>2 DEF AllStr, IsStr
    <3> QED BY <1>1, <1>7, <3>1 DEF ToSet, SaysSame
  <2>2. c[a].str = v
    <3>1. h[a].str = v
      BY <1>1, StringVal
    <3> QED BY <1>1, <1>7, <3>1
  <2> DEFINE one == <<a>>
  <2>3. Said(c, one) = <<v>>
    BY <2>2, SaidOne
  <2>4. fs = es \o one /\ one \in Seq(Oid)
    BY <1>5
  <2> HIDE DEF one
  <2>5. Said(c, es \o one) = Said(heap, es) \o Said(c, one)
    BY <1>2, <2>1, <2>4, SaidJoined
  <2> QED BY <2>3, <2>4, <2>5
<1>12. Val(c, e.val) = Store!List(Append(Said(heap, es), v))
  <2>1. Val(c, e.val) = Store!List(Said(c, fs))
    BY <1>2, <1>6, <1>7, ListVal
  <2>2. Said(heap, es) \in Seq({heap[es[i]].str : i \in DOMAIN es})
    BY <1>2, SaidType
  <2>3. Append(Said(heap, es), v) = Said(heap, es) \o <<v>>
    BY <2>2
  <2> QED BY <1>11, <2>1, <2>3
<1>13. Store!Is(d, k, "list") /\ Store!Inside(d, k) = Said(heap, es)
  BY <1>2, FoundTyped, ValIs DEF es
<1>14. Store!Push(d, k, v)
  BY <1>10, <1>12, <1>13 DEF Store!Push, Store!Bind
<1> QED BY <1>10, <1>14

(* A list and a set of one object. *)
LEMMA ListShape ==
    ASSUME NEW o \in Oid
    PROVE  /\ List(<<o>>) \in Loose /\ List(<<o>>).members = {} /\ List(<<o>>).type = "list"
           /\ List(<<o>>).elems = <<o>>
           /\ Set({o}) \in Loose /\ Set({o}).members = {o} /\ Set({o}).type = "set"
<1> DEFINE one == <<o>>
           el == List(<<>>)
           es == Set({})
           ms == {o}
<1>1. one \in Seq(Oid) /\ ms \in SUBSET Oid
  OBVIOUS
<1>2. \A obj : Plain(obj) => obj \in Loose /\ obj.members = {}
  BY DEF Plain, Shaped, Object, Loose
<1>3. el \in Loose /\ el.type = "list" /\ el.members = {} /\ es \in Loose /\ es.type = "set"
  BY <1>2, NewShapes
<1>4. List(one) = [el EXCEPT !.elems = one]
  BY DEF List, Dead
<1>5. Set(ms) = [es EXCEPT !.members = ms]
  BY DEF Set, Dead
<1> HIDE DEF one, el, es, ms
<1>6. List(one) \in Loose /\ List(one).members = {} /\ List(one).type = "list" /\ List(one).elems = one
  BY <1>1, <1>3, <1>4 DEF Loose
<1>7. Set(ms) \in Loose /\ Set(ms).members = ms /\ Set(ms).type = "set"
  BY <1>1, <1>3, <1>5 DEF Loose
<1> QED BY <1>6, <1>7 DEF one, ms

(* A list or a set of one new string under a new name. *)
LEMMA ContainerChanges ==
    ASSUME VInv, KInv', NEW d \in Db, NEW k \in Str, NEW v \in Str, Begin(3), Named(d, k) = {},
           NEW obj \in {List(<<Slot(2)>>), Set({Slot(2)})},
           Rebind(d, {}, {Entry(Slot(1), Slot(3))}),
           Answer(Up([Given(<<k, v>>) EXCEPT ![Slot(3)] = obj], {Slot(1), Slot(2)}), <<>>, {Slot(1), Slot(2)})
    PROVE  /\ VInv' /\ Quiet
           /\ obj = List(<<Slot(2)>>) => Store!Bind(d, k, Store!List(<<v>>))
           /\ obj = Set({Slot(2)}) => Store!Bind(d, k, Store!Set({v}))
<1> DEFINE a == Slot(1)
           m == Slot(2)
           l == Slot(3)
           h == Given(<<k, v>>)
           c == [h EXCEPT ![l] = obj]
           W == {a, m}
           b == Up(c, W)
           n == Entry(a, l)
<1>1. /\ a \in Oid /\ m \in Oid /\ a # m /\ heap[a].type = "free" /\ heap[m].type = "free"
      /\ h[a] = String(k) /\ h[m] = String(v)
      /\ \A x \in Oid \ {a, m} : h[x] = heap[x]
      /\ h \in Heaps /\ Agree(heap, h, {}) /\ \A s \in Oid : h[s].members \subseteq heap[s].members
  BY TwoNew
<1>2. l \in Oid /\ heap[l].type = "free" /\ l # a /\ l # m
  BY SlotsFree
<1>3. /\ List(<<m>>) \in Loose /\ List(<<m>>).members = {} /\ List(<<m>>).type = "list"
      /\ List(<<m>>).elems = <<m>>
      /\ Set({m}) \in Loose /\ Set({m}).members = {m} /\ Set({m}).type = "set"
  BY <1>1, ListShape
<1>4. obj \in Loose /\ obj.members \subseteq {m}
  BY <1>3
<1>5. W \in SUBSET Oid /\ Answer(b, <<>>, W) /\ n.key = a /\ n.val = l
  BY <1>1 DEF Entry
<1>6. db'[d] = (db[d] \ {}) \union {n} /\ Renews(d, k, n)
  BY DbType, RenewsNew DEF Rebind, VInv
<1> HIDE DEF a, m, l, h, n, W
<1>7. c \in Heaps /\ c[l] = obj /\ \A x \in Oid \ {l} : c[x] = h[x]
  BY <1>1, <1>2, <1>4 DEF Heaps
<1> HIDE DEF c
<1>8. b \in Heaps /\ Fades(c, b)
  BY <1>7, UpFades
<1> HIDE DEF b
<1>9. Agree(heap, c, {})
  BY <1>1, <1>2, <1>7 DEF Agree
<1>10. Fades(c, heap') /\ Carried(heap, heap', {}) /\ Quiet
  BY <1>5, <1>8, <1>9, NoContainers, SilentLeaves
<1>11. Gathered(heap, c, heap')
  <2> SUFFICES ASSUME NEW s \in Oid PROVE (\E t \in Oid : c[s].members \subseteq heap[t].members) \/ Sole(heap', s)
    BY DEF Gathered
  <2>1. CASE s # l
    BY <1>1, <1>7, <2>1
  <2>2. CASE s = l
    <3>1. heap'[l].members \subseteq {m}
      <4>1. CASE heap'[l].type = "free"
        <5>1. heap'[l] = Dead
          <6>1. Fine(heap', db', reply', None')
            BY DEF KInv
          <6>2. Shaped(heap'[l])
            BY <1>2, <6>1, FineType
          <6> QED BY <4>1, <6>2 DEF Shaped
        <5> QED BY <5>1, DeadShape
      <4>2. CASE heap'[l].type # "free"
        BY <1>2, <1>4, <1>7, <1>10, <4>2 DEF Fades, SameButRef
      <4> QED BY <4>1, <4>2
    <3> QED BY <2>2, <3>1 DEF Sole
  <2> QED BY <2>1, <2>2
<1>12. c[n.key].str = k /\ c[m].str = v
  <2>1. c[a] = String(k) /\ c[m] = String(v)
    BY <1>1, <1>2, <1>7
  <2>2. c[a].str = k
    BY <2>1, StringVal
  <2>3. c[m].str = v
    BY <2>1, StringVal
  <2> QED BY <1>5, <2>2, <2>3
<1>13. VInv' /\ Store!Bind(d, k, Val(c, n.val))
  BY <1>6, <1>10, <1>11, <1>12, NoContainers, RenewStep
<1>14. ASSUME obj = List(<<m>>) PROVE Val(c, l) = Store!List(<<v>>)
  <2>1. c[l].type = "list" /\ c[l].elems = <<m>>
    BY <1>3, <1>7, <1>14
  <2>2. Val(c, l) = Store!List(Said(c, <<m>>))
    BY <2>1, ListVal
  <2> QED BY <1>12, <2>2, SaidOne
<1>15. ASSUME obj = Set({m}) PROVE Val(c, l) = Store!Set({v})
  <2>1. c[l].type = "set" /\ c[l].members = {m}
    BY <1>3, <1>7, <1>15
  <2>2. {c[x].str : x \in {m}} = {v}
    BY <1>12
  <2>3. Val(c, l) = <<"set", {c[x].str : x \in c[l].members}>>
    BY <2>1, ValIs
  <2> QED BY <2>1, <2>2, <2>3 DEF Store!Set
<1> QED BY <1>5, <1>10, <1>13, <1>14, <1>15 DEF Store!Bind, m

(* A name without an entry is none of the store. *)
LEMMA PushesNew ==
    ASSUME NEW d, NEW k, Named(d, k) = {}
    PROVE  d \in Db => k \notin Store!Keys(d)
<1> SUFFICES ASSUME d \in Db PROVE k \notin Store!Keys(d)
  OBVIOUS
<1>1. DOMAIN Content[d] = Names(heap, db[d])
  BY ContentIs DEF Cont
<1> QED BY <1>1 DEF Store!Keys, Names, Named

(* RPUSH *)
LEMMA pushTailChanges ==
    ASSUME VInv, KInv', NEW d \in Db, NEW k \in Str, NEW v \in Str, pushTail(d, k, v)
    PROVE  VInv' /\ Store!Change
<1>1. ASSUME Begin(3), Named(d, k) = {}, Rebind(d, {}, {Entry(Slot(1), Slot(3))}),
             Answer(Up([Given(<<k, v>>) EXCEPT ![Slot(3)] = List(<<Slot(2)>>)], {Slot(1), Slot(2)}),
                    <<>>, {Slot(1), Slot(2)})
      PROVE  VInv' /\ Quiet /\ Store!Push(d, k, v)
  <2>1. VInv' /\ Quiet /\ Store!Bind(d, k, Store!List(<<v>>))
    BY <1>1, ContainerChanges
  <2>2. k \notin Store!Keys(d)
    BY <1>1, PushesNew
  <2> QED BY <2>1, <2>2 DEF Store!Push
<1>2. VInv' /\ Quiet /\ Store!Push(d, k, v)
  <2>1. CASE Begin(3) /\ Named(d, k) = {} /\ Rebind(d, {}, {Entry(Slots(3)[1], Slots(3)[3])})
             /\ Answer(Up([Given(<<k, v>>) EXCEPT ![Slots(3)[3]] = List(<<Slots(3)[2]>>)], {Slots(3)[1], Slots(3)[2]}),
                    <<>>, {Slots(3)[1], Slots(3)[2]})
    BY <1>1, <2>1, SlotsAre
  <2>2. CASE /\ Begin(1) /\ SameKeys
             /\ \E e \in Typed(d, k, "list") :
                Answer(incrRefCount(SetElems(Given(<<v>>), e.val, Append(heap[e.val].elems, Slots(3)[1])), Slots(3)[1]),
                  <<>>, {Slots(3)[1]})
    BY <2>2, SlotsAre, pushedChanges
  <2> QED BY <2>1, <2>2 DEF pushTail
<1> QED BY <1>2 DEF Store!Change, Quiet

(* RemoveAt at both ends. *)
LEMMA CutEnds ==
    ASSUME NEW V, NEW s \in Seq(V), Len(s) >= 1
    PROVE  /\ RemoveAt(s, 1) = SubSeq(s, 2, Len(s))
           /\ RemoveAt(s, Len(s)) = SubSeq(s, 1, Len(s) - 1)
           /\ Tail(s) = SubSeq(s, 2, Len(s)) /\ Head(s) = s[1]
<1> DEFINE n == Len(s)
           a == SubSeq(s, 2, n)
           b == SubSeq(s, 1, n - 1)
<1>1. n \in Nat /\ n >= 1 /\ a \in Seq(V) /\ b \in Seq(V)
  BY SubSeqProperties
<1>2. SubSeq(s, 1, 0) = <<>>
  <2>1. SubSeq(s, 1, 0) \in Seq(V) /\ Len(SubSeq(s, 1, 0)) = 0
    BY SubSeqProperties
  <2> QED BY <2>1
<1>3. SubSeq(s, n + 1, n) = <<>>
  <2>1. SubSeq(s, n + 1, n) \in Seq(V) /\ Len(SubSeq(s, n + 1, n)) = 0
    BY <1>1, SubSeqProperties
  <2> QED BY <2>1
<1>4. <<>> \o a = a /\ b \o <<>> = b
  BY <1>1
<1>5. RemoveAt(s, 1) = <<>> \o a
  BY <1>2 DEF RemoveAt
<1>6. RemoveAt(s, n) = b \o <<>>
  BY <1>3 DEF RemoveAt
<1>7. Tail(s) = a
  <2>1. /\ Len(a) = n - 1 /\ \A i \in 1..(n - 1) : a[i] = s[i + 1]
    <3>1. /\ Len(a) = IF 2 <= n THEN n - 2 + 1 ELSE 0
          /\ \A i \in 1..(n - 2 + 1) : a[i] = s[2 + i - 1]
      BY <1>1, SubSeqProperties
    <3>2. Len(a) = n - 1 /\ n - 2 + 1 = n - 1
      <4> HIDE DEF a, b, n
      <4>1. \A x \in Nat : x >= 1 => (IF 2 <= x THEN x - 2 + 1 ELSE 0) = x - 1 /\ x - 2 + 1 = x - 1
        OBVIOUS
      <4> QED BY <1>1, <3>1, <4>1
    <3>3. ASSUME NEW i \in 1..(n - 1) PROVE a[i] = s[i + 1]
      <4>1. 2 + i - 1 = i + 1
        OBVIOUS
      <4> QED BY <3>1, <3>2, <4>1
    <3> QED BY <3>2, <3>3
  <2>2. Tail(s) \in Seq(V) /\ Len(Tail(s)) = n - 1 /\ \A i \in 1..(n - 1) : Tail(s)[i] = s[i + 1]
    BY <1>1
  <2> HIDE DEF a
  <2> QED BY <1>1, <2>1, <2>2, SeqEqual
<1> QED BY <1>1, <1>4, <1>5, <1>6, <1>7

(* The strings of a list that loses its first or its last element. *)
LEMMA SaidEnds ==
    ASSUME NEW h, NEW es \in Seq(Oid), Len(es) >= 1
    PROVE  LET A == Said(h, es) IN
           /\ A # <<>> /\ Head(A) = h[es[1]].str /\ Store!Last(A) = h[es[Len(es)]].str
           /\ Said(h, RemoveAt(es, 1)) = Tail(A)
           /\ Said(h, RemoveAt(es, Len(es))) = Store!Front(A)
<1> DEFINE V == {h[es[i]].str : i \in 1..Len(es)}
           A == Said(h, es)
           n == Len(es)
<1>1. /\ A \in Seq(V) /\ Len(A) = n /\ n \in Nat /\ n >= 1
      /\ \A i \in 1..n : A[i] = h[es[i]].str
  BY SaidType
<1>2. RemoveAt(es, 1) = SubSeq(es, 2, n) /\ RemoveAt(es, n) = SubSeq(es, 1, n - 1)
  BY CutEnds
<1> HIDE DEF V, A, n
<1>3. Tail(A) = SubSeq(A, 2, n) /\ Head(A) = A[1]
  BY <1>1, CutEnds
<1>4. Said(h, SubSeq(es, 2, n)) = SubSeq(A, 2, n)
  <2>1. 2 \in Nat /\ 2 >= 1 /\ n \in Nat /\ n <= Len(es)
    BY <1>1 DEF n
  <2>2. Said(h, SubSeq(es, 2, n)) = SubSeq(Said(h, es), 2, n)
    BY <2>1, SaidSlice
  <2> QED BY <2>2 DEF A
<1>5. Said(h, SubSeq(es, 1, n - 1)) = SubSeq(A, 1, n - 1)
  <2> DEFINE q == n - 1
  <2>1. 1 \in Nat /\ 1 >= 1 /\ q \in Nat /\ q <= Len(es)
    BY <1>1 DEF n
  <2> HIDE DEF q
  <2>2. Said(h, SubSeq(es, 1, q)) = SubSeq(Said(h, es), 1, q)
    BY <2>1, SaidSlice
  <2> QED BY <2>2 DEF A, q
<1>6. A # <<>> /\ 1 \in 1..n /\ n \in 1..n
  BY <1>1
<1> QED BY <1>1, <1>2, <1>3, <1>4, <1>5, <1>6 DEF Store!Last, Store!Front, A, n

(* The list of an entry is left with some of its elements. *)
LEMMA KeptSays ==
    ASSUME VInv, NEW d \in Db, NEW k, NEW e \in Typed(d, k, "list"),
           NEW fs \in Seq(Oid), ToSet(fs) \subseteq ToSet(heap[e.val].elems)
    PROVE  LET c == SetElems(heap, e.val, fs) IN
           /\ c \in Heaps /\ Agree(heap, c, {e.val}) /\ Gathered(heap, c, heap')
           /\ Val(c, e.val) = Store!List(Said(heap, fs)) /\ heap[e.val].type \in {"list", "set"}
           /\ e \in Named(d, k)
<1> DEFINE c == SetElems(heap, e.val, fs)
<1>1. /\ e.val \in Oid /\ heap[e.val].type = "list" /\ e \in Named(d, k)
      /\ ToSet(heap[e.val].elems) \subseteq Oid
  BY ListFacts DEF VInv, Typed
<1>2. heap \in Heaps
  BY HeapType DEF VInv
<1>3. /\ c \in Heaps /\ \A x \in Oid \ {e.val} : c[x] = heap[x]
      /\ \A x \in Oid : c[x].type = heap[x].type /\ c[x].str = heap[x].str /\ c[x].members = heap[x].members
      /\ c[e.val].elems = fs
  BY <1>1, <1>2, SetElemsFacts
<1> HIDE DEF c
<1>4. Agree(heap, c, {e.val}) /\ Gathered(heap, c, heap')
  BY <1>3 DEF Agree, SameButRef, Gathered
<1>5. Said(c, fs) = Said(heap, fs)
  <2>1. \A x \in ToSet(fs) : c[x].str = heap[x].str
    BY <1>1, <1>3
  <2> QED BY <2>1, SaidAgree
<1>6. Val(c, e.val) = Store!List(Said(c, fs))
  BY <1>1, <1>3, ListVal
<1> QED BY <1>1, <1>3, <1>4, <1>5, <1>6 DEF c

(* LTRIM *)
LEMMA ltrimChanges ==
    ASSUME VInv, KInv', NEW d \in Db, NEW k \in Str, NEW i \in Index, NEW j \in Index, ltrimCommand(d, k, i, j)
    PROVE  VInv' /\ Store!Change
<1>1. PICK e \in Typed(d, k, "list") :
         LET es == heap[e.val].elems IN
         Answer(SetElems(heap, e.val, Between(es, i, j)), <<>>, ToSet(es) \ ToSet(Between(es, i, j)))
  BY DEF ltrimCommand
<1> DEFINE es == heap[e.val].elems
           fs == Between(es, i, j)
           S == ToSet(es) \ ToSet(fs)
           c == SetElems(heap, e.val, fs)
<1>2. i \in Int /\ j \in Int
  BY IndexAssumption
<1>3. /\ heap[e.val].type = "list" /\ es \in Seq(Oid) /\ AllStr(heap, ToSet(es)) /\ IsInjective(es)
      /\ ToSet(es) \subseteq Oid
  BY <1>1, ListFacts DEF VInv
<1>4. fs \in Seq(Oid) /\ ToSet(fs) \subseteq ToSet(es) /\ S \in SUBSET Oid
  BY <1>2, <1>3, BetweenFacts
<1>5. Answer(c, <<>>, S) /\ SameKeys
  BY <1>1 DEF ltrimCommand
<1>6. Said(heap, fs) = Store!Part(Said(heap, es), i, j)
  BY <1>2, <1>3, BetweenSaid
<1>7. Store!Is(d, k, "list") /\ Store!Inside(d, k) = Said(heap, es)
  BY <1>1, <1>3, FoundTyped, ValIs
<1> HIDE DEF fs, S
<1>8. /\ c \in Heaps /\ Agree(heap, c, {e.val}) /\ Gathered(heap, c, heap')
      /\ Val(c, e.val) = Store!List(Said(heap, fs)) /\ heap[e.val].type \in {"list", "set"}
      /\ e \in Named(d, k)
  BY <1>4, KeptSays
<1> HIDE DEF c
<1>9. Fades(c, c)
  BY FadesSelf
<1>10. VInv' /\ Store!Bind(d, k, Val(c, e.val)) /\ Quiet
  BY <1>4, <1>5, <1>8, <1>9, QuietInPlace
<1>11. Store!Trim(d, k, i, j)
  BY <1>6, <1>7, <1>8, <1>10 DEF Store!Trim, Store!Bind
<1> QED BY <1>10, <1>11 DEF Store!Change, Quiet

(* LPOP and RPOP *)
LEMMA popChanges ==
    ASSUME VInv, KInv', NEW d \in Db, NEW k \in Str, NEW head \in BOOLEAN, popGenericCommand(d, k, head)
    PROVE  VInv' /\ Store!ReadAndChange
<1>1a. PICK e \in Typed(d, k, "list") :
         \E p \in listIndex(heap[e.val].elems, IF head THEN 0 ELSE -1) :
            Answer(SetElems(heap, e.val, RemoveAt(heap[e.val].elems, p)), <<heap[e.val].elems[p]>>, {heap[e.val].elems[p]})
  BY DEF popGenericCommand
<1>1. PICK p \in listIndex(heap[e.val].elems, IF head THEN 0 ELSE -1) :
            Answer(SetElems(heap, e.val, RemoveAt(heap[e.val].elems, p)), <<heap[e.val].elems[p]>>, {heap[e.val].elems[p]})
  BY <1>1a
<1> DEFINE es == heap[e.val].elems
           n == Len(es)
           o == es[p]
           fs == RemoveAt(es, p)
           os == <<o>>
           S == {o}
           c == SetElems(heap, e.val, fs)
<1>2. /\ heap[e.val].type = "list" /\ es \in Seq(Oid) /\ AllStr(heap, ToSet(es)) /\ IsInjective(es)
      /\ ToSet(es) \subseteq Oid /\ n \in Nat /\ DOMAIN es = 1..n
  BY <1>1, ListFacts DEF VInv
<1>3. p \in 1..n /\ n >= 1 /\ (p = 1 \/ p = n)
  <2>1. CASE head
    <3>1. p \in listIndex(es, 0)
      BY <1>1, <2>1
    <3> QED BY <1>2, <3>1 DEF listIndex
  <2>2. CASE ~head
    <3>1. p \in listIndex(es, -1)
      BY <1>1, <2>2
    <3> QED BY <1>2, <3>1 DEF listIndex
  <2> QED BY <2>1, <2>2
<1>4. fs \in Seq(Oid) /\ ToSet(fs) \subseteq ToSet(es)
  BY <1>2, <1>3, RemoveAtFacts
<1>5. o \in ToSet(es) /\ o \in Oid
  BY <1>2, <1>3 DEF ToSet
<1>6. os \in Seq(Oid) /\ AllStr(heap, ToSet(os)) /\ S \in SUBSET Oid
  BY <1>2, <1>5, OneAnswer DEF AllStr
<1>7. Answer(c, os, S) /\ SameKeys /\ reply' = reply \o os
  BY <1>1 DEF popGenericCommand, Answer
<1>8. Said(heap, os) = <<heap[o].str>>
  BY SaidOne
<1>9. Store!Is(d, k, "list") /\ Store!Inside(d, k) = Said(heap, es)
  BY <1>1, <1>2, FoundTyped, ValIs
<1>10. /\ Said(heap, es) # <<>>
       /\ \/ heap[o].str = Head(Said(heap, es)) /\ Said(heap, fs) = Tail(Said(heap, es))
          \/ heap[o].str = Store!Last(Said(heap, es)) /\ Said(heap, fs) = Store!Front(Said(heap, es))
  BY <1>2, <1>3, SaidEnds
<1> HIDE DEF fs, S, os, o
<1>11. /\ c \in Heaps /\ Agree(heap, c, {e.val}) /\ Gathered(heap, c, heap')
       /\ Val(c, e.val) = Store!List(Said(heap, fs)) /\ heap[e.val].type \in {"list", "set"}
       /\ e \in Named(d, k)
  BY <1>4, KeptSays
<1> HIDE DEF c
<1>12. Fades(c, c)
  BY FadesSelf
<1>13. /\ VInv' /\ Store!Bind(d, k, Val(c, e.val)) /\ Store!Say(Said(heap', os))
       /\ Carried(heap, heap', {e.val}) /\ Containers(heap, {e.val})
  BY <1>6, <1>7, <1>11, <1>12, InPlace
<1> DEFINE T == {e.val}
<1>14. Carried(heap, heap', T) /\ Containers(heap, T)
  BY <1>13
<1> HIDE DEF T
<1>15. Said(heap', os) = Said(heap, os)
  BY <1>6, <1>7, <1>14, SaidSame DEF VInv
<1>16. Store!Say(<<heap[o].str>>) /\ Store!Bind(d, k, Store!List(Said(heap, fs)))
  BY <1>8, <1>11, <1>13, <1>15 DEF Store!Say, Store!Bind
<1>17. Store!Pop(d, k)
  BY <1>9, <1>10, <1>16 DEF Store!Pop, Store!Say, Store!Bind
<1> QED BY <1>13, <1>17 DEF Store!ReadAndChange

----------------------------------------------------------------------------
(* Commands over sets, as the store sees them *)

(* A set that gets other members *)
LEMMA SetMembersFacts ==
    ASSUME NEW h \in Heaps, NEW l \in Oid, NEW ms \in SUBSET Oid
    PROVE  LET g == SetMembers(h, l, ms) IN
           /\ g \in Heaps /\ \A x \in Oid \ {l} : g[x] = h[x]
           /\ \A x \in Oid : g[x].type = h[x].type /\ g[x].str = h[x].str /\ g[x].elems = h[x].elems
           /\ g[l].members = ms
<1> DEFINE T == {"free", "string", "list", "set"}
           V == Str \union {Nil}
           E == Seq(Oid)
           M == SUBSET Oid
<1>1. Heaps = [Oid -> [type : T, ref : Int, str : V, elems : E, members : M]]
  BY DEF Loose, Heaps
<1>2. ms \in M
  OBVIOUS
<1> HIDE DEF T, V, E, M
<1> QED BY <1>1, <1>2 DEF SetMembers

(* has different ones still. *)
LEMMA SoleFades ==
    ASSUME KInv', NEW c, Fades(c, heap'), NEW s \in Oid, Sole(c, s)
    PROVE  Sole(heap', s)
<1>1. Fine(heap', db', reply', None')
  BY DEF KInv
<1>2. CASE heap'[s].type = "free"
  <2>1. Shaped(heap'[s])
    BY <1>1, FineType
  <2>2. heap'[s].members = {}
    BY <1>2, <2>1, DeadShape DEF Shaped
  <2> QED BY <2>2 DEF Sole
<1>3. CASE heap'[s].type # "free"
  <2>1. heap'[s].members = c[s].members
    BY <1>3 DEF Fades, SameButRef
  <2>2. \A x \in Contents(heap', s) : x \in Oid /\ IsStr(heap', x)
    BY <1>1, InUse
  <2>3. \A x \in c[s].members : heap'[x].str = c[x].str
    BY <2>1, <2>2 DEF Contents, IsStr, Fades, SameButRef
  <2> QED BY <2>1, <2>3 DEF Sole
<1> QED BY <1>2, <1>3

(* SREM *)
LEMMA sremChanges ==
    ASSUME VInv, KInv', NEW d \in Db, NEW k \in Str, NEW m \in Str, sremCommand(d, k, m)
    PROVE  VInv' /\ Store!Change
<1>1a. PICK e \in Typed(d, k, "set") :
         \E o \in Member(heap[e.val].members, m) :
            Answer(SetMembers(heap, e.val, heap[e.val].members \ {o}), <<>>, {o})
  BY DEF sremCommand
<1>1. PICK o \in Member(heap[e.val].members, m) :
         Answer(SetMembers(heap, e.val, heap[e.val].members \ {o}), <<>>, {o})
  BY <1>1a
<1> DEFINE l == e.val
           old == heap[l].members
           new == old \ {o}
           S == {o}
           c == SetMembers(heap, l, new)
<1>2. e \in Named(d, k) /\ heap[l].type = "set" /\ l \in Oid
  BY FoundEntry DEF Typed
<1>3. old \in SUBSET Oid /\ AllStr(heap, old) /\ \A t \in Oid : IsStr(heap, t) => t # l
  BY <1>2, SetFacts DEF VInv
<1>4. o \in old /\ heap[o].str = m /\ S \in SUBSET Oid /\ new \in SUBSET Oid
  BY <1>3 DEF Member
<1>5. Answer(c, <<>>, S) /\ SameKeys
  BY <1>1 DEF sremCommand
<1>6. Store!Is(d, k, "set") /\ Store!Inside(d, k) = {heap[x].str : x \in old}
  BY <1>2, FoundTyped, ValIs
<1>7. heap \in Heaps
  BY HeapType DEF VInv
<1> HIDE DEF S, new, old, l
<1>8. /\ c \in Heaps /\ \A x \in Oid \ {l} : c[x] = heap[x]
      /\ \A x \in Oid : c[x].type = heap[x].type /\ c[x].str = heap[x].str /\ c[x].elems = heap[x].elems
      /\ c[l].members = new
  BY <1>2, <1>4, <1>7, SetMembersFacts
<1> HIDE DEF c
<1>9. Agree(heap, c, {e.val})
  BY <1>8 DEF Agree, SameButRef, l
<1>10. Gathered(heap, c, heap')
  <2>1. \A s \in Oid : c[s].members \subseteq heap[s].members
    BY <1>8 DEF new, old
  <2> QED BY <2>1 DEF Gathered
<1>11. Fades(c, c)
  BY FadesSelf
<1>12. VInv' /\ Store!Bind(d, k, Val(c, e.val)) /\ Quiet
  BY <1>2, <1>4, <1>5, <1>8, <1>9, <1>10, <1>11, QuietInPlace DEF l
<1>13. Val(c, e.val) = Store!Set({heap[x].str : x \in old} \ {m})
  <2>1. {c[x].str : x \in new} = {heap[x].str : x \in new}
    BY <1>4, <1>8
  <2>2. \A x \in old : heap[x].str = m => x = o
    BY <1>2, <1>4 DEF VInv, Sole, old
  <2>3. {heap[x].str : x \in new} = {heap[x].str : x \in old} \ {m}
    BY <1>4, <2>2 DEF new
  <2>4. Val(c, l) = <<"set", {c[x].str : x \in c[l].members}>>
    BY <1>2, <1>8, ValIs
  <2> QED BY <1>8, <2>1, <2>3, <2>4 DEF Store!Set, l
<1>14. Store!Discard(d, k, m)
  BY <1>6, <1>12, <1>13 DEF Store!Discard, Store!Bind
<1> QED BY <1>12, <1>14 DEF Store!Change, Quiet

(* SADD to a set that is there *)
LEMMA addedChanges ==
    ASSUME VInv, KInv', NEW d \in Db, NEW k \in Str, NEW m \in Str, Begin(1), SameKeys,
           NEW e \in Typed(d, k, "set"), Member(heap[e.val].members, m) = {},
           Answer(incrRefCount(SetMembers(Given(<<m>>), e.val, heap[e.val].members \union {Slot(1)}), Slot(1)),
                  <<>>, {Slot(1)})
    PROVE  VInv' /\ Quiet /\ Store!Add(d, k, m)
<1> DEFINE a == Slot(1)
           h == Given(<<m>>)
           l == e.val
           old == heap[l].members
           new == old \union {a}
           W == {a}
           c == SetMembers(h, l, new)
           b == Up(c, W)
           os == <<>>
<1>1. /\ a \in Oid /\ heap[a].type = "free" /\ h[a] = String(m)
      /\ \A x \in Oid \ {a} : h[x] = heap[x]
      /\ h \in Heaps /\ \A s \in Oid : h[s].members \subseteq heap[s].members
  BY OneNew
<1>2. e \in Named(d, k) /\ heap[l].type = "set" /\ l \in Oid
  BY FoundEntry DEF Typed
<1>3. old \in SUBSET Oid /\ AllStr(heap, old) /\ \A t \in Oid : IsStr(heap, t) => t # l
  BY <1>2, SetFacts DEF VInv
<1>4. W \in SUBSET Oid /\ new \in SUBSET Oid /\ l # a
  BY <1>1, <1>2, <1>3
<1>5. Answer(b, <<>>, W)
  BY DEF incrRefCount
<1>6. Store!Is(d, k, "set") /\ Store!Inside(d, k) = {heap[x].str : x \in old}
  BY <1>2, FoundTyped, ValIs
<1>7. h[a].str = m
  BY <1>1, StringVal
<1>15. os \in Seq(Oid) /\ Answer(b, os, W)
  BY <1>5
<1>16. \A x \in old : x \in Oid /\ x # a /\ heap[x].str # m
  BY <1>1, <1>3 DEF AllStr, IsStr, Member
<1> HIDE DEF W, new, old, l, a, h, os
<1>8. /\ c \in Heaps /\ \A x \in Oid \ {l} : c[x] = h[x]
      /\ \A x \in Oid : c[x].type = h[x].type /\ c[x].str = h[x].str /\ c[x].elems = h[x].elems
      /\ c[l].members = new
  BY <1>1, <1>2, <1>4, SetMembersFacts
<1> HIDE DEF c
<1>9. b \in Heaps /\ Fades(c, b)
  BY <1>8, UpFades
<1> HIDE DEF b
<1>10. Agree(heap, c, {e.val})
  BY <1>1, <1>8 DEF Agree, SameButRef, l
<1>11. Gathered(heap, c, heap')
  <2>1. Fades(c, heap')
    <3>1. Fades(b, heap')
      BY <1>4, <1>9, <1>15, AnswerFades
    <3> QED BY <1>9, <3>1, FadesFurther
  <2>2. c[a].str = m /\ \A x \in old : c[x].str = heap[x].str
    BY <1>1, <1>7, <1>8, <1>16
  <2>3. \A x, y \in old : heap[x].str = heap[y].str => x = y
    BY <1>2 DEF VInv, Sole, old
  <2>4. Sole(c, l)
    BY <1>8, <1>16, <2>2, <2>3 DEF Sole, new
  <2>5. Sole(heap', l)
    BY <1>2, <2>1, <2>4, SoleFades
  <2>6. \A s \in Oid \ {l} : c[s].members \subseteq heap[s].members
    BY <1>1, <1>8
  <2> QED BY <2>5, <2>6 DEF Gathered
<1>12. VInv' /\ Store!Bind(d, k, Val(c, e.val)) /\ Quiet
  BY <1>2, <1>4, <1>5, <1>8, <1>9, <1>10, <1>11, QuietInPlace DEF l
<1>13. Val(c, e.val) = Store!Set({heap[x].str : x \in old} \union {m})
  <2>1. c[a].str = m /\ \A x \in old : c[x].str = heap[x].str
    BY <1>1, <1>7, <1>8, <1>16
  <2>2. {c[x].str : x \in new} = {heap[x].str : x \in old} \union {m}
    BY <2>1 DEF new
  <2>3. c[l].type = "set"
    BY <1>1, <1>2, <1>4, <1>8
  <2>4. Val(c, l) = <<"set", {c[x].str : x \in c[l].members}>>
    BY <2>3, ValIs
  <2> QED BY <1>8, <2>2, <2>4 DEF Store!Set, l
<1>14. Store!Add(d, k, m)
  BY <1>6, <1>12, <1>13 DEF Store!Add, Store!Bind
<1> QED BY <1>12, <1>14

(* SADD *)
LEMMA saddChanges ==
    ASSUME VInv, KInv', NEW d \in Db, NEW k \in Str, NEW m \in Str, saddCommand(d, k, m)
    PROVE  VInv' /\ Store!Change
<1>1. ASSUME Begin(3), Named(d, k) = {}, Rebind(d, {}, {Entry(Slot(1), Slot(3))}),
             Answer(Up([Given(<<k, m>>) EXCEPT ![Slot(3)] = Set({Slot(2)})], {Slot(1), Slot(2)}),
                    <<>>, {Slot(1), Slot(2)})
      PROVE  VInv' /\ Quiet /\ Store!Add(d, k, m)
  <2>1. VInv' /\ Quiet /\ Store!Bind(d, k, Store!Set({m}))
    BY <1>1, ContainerChanges
  <2>2. k \notin Store!Keys(d)
    BY <1>1, PushesNew
  <2> QED BY <2>1, <2>2 DEF Store!Add
<1>2. VInv' /\ Quiet /\ Store!Add(d, k, m)
  <2>1. CASE Begin(3) /\ Named(d, k) = {} /\ Rebind(d, {}, {Entry(Slots(3)[1], Slots(3)[3])})
             /\ Answer(Up([Given(<<k, m>>) EXCEPT ![Slots(3)[3]] = Set({Slots(3)[2]})], {Slots(3)[1], Slots(3)[2]}),
                    <<>>, {Slots(3)[1], Slots(3)[2]})
    BY <1>1, <2>1, SlotsAre
  <2>2. CASE /\ Begin(1) /\ SameKeys
             /\ \E e \in Typed(d, k, "set") :
                /\ Member(heap[e.val].members, m) = {}
                /\ Answer(incrRefCount(SetMembers(Given(<<m>>), e.val, heap[e.val].members \union {Slots(3)[1]}), Slots(3)[1]),
                          <<>>, {Slots(3)[1]})
    BY <2>2, SlotsAre, addedChanges
  <2> QED BY <2>1, <2>2 DEF saddCommand
<1> QED BY <1>2 DEF Store!Change, Quiet

(* LSET *)
LEMMA lsetChanges ==
    ASSUME VInv, KInv', NEW d \in Db, NEW k \in Str, NEW i, NEW v \in Str, lsetCommand(d, k, i, v)
    PROVE  VInv' /\ Store!Change
<1>1a. PICK e \in Typed(d, k, "list") :
         \E p \in listIndex(heap[e.val].elems, 0) :
            Answer(incrRefCount(SetElems(decrRefCount(Given(<<v>>), heap[e.val].elems[p]), e.val,
                                         ReplaceAt(heap[e.val].elems, p, Slot(1))), Slot(1)), <<>>, {Slot(1)})
  BY SlotsAre DEF lsetCommand
<1>1. PICK p \in listIndex(heap[e.val].elems, 0) :
            Answer(incrRefCount(SetElems(decrRefCount(Given(<<v>>), heap[e.val].elems[p]), e.val,
                                         ReplaceAt(heap[e.val].elems, p, Slot(1))), Slot(1)), <<>>, {Slot(1)})
  BY <1>1a
<1> DEFINE a == Slot(1)
           h == Given(<<v>>)
           l == e.val
           es == heap[l].elems
           n == Len(es)
           o == es[p]
           fs == ReplaceAt(es, p, a)
           W == {a}
           g == decrRefCount(h, o)
           c == SetElems(h, l, fs)
           f == SetElems(g, l, fs)
           b == Up(f, W)
<1>2. /\ a \in Oid /\ heap[a].type = "free" /\ h[a] = String(v)
      /\ \A x \in Oid \ {a} : h[x] = heap[x]
      /\ h \in Heaps /\ \A s \in Oid : h[s].members \subseteq heap[s].members
  BY OneNew DEF lsetCommand
<1>3. /\ l \in Oid /\ heap[l].type = "list" /\ e \in Named(d, k)
      /\ es \in Seq(Oid) /\ AllStr(heap, ToSet(es)) /\ ToSet(es) \subseteq Oid /\ IsInjective(es)
      /\ n \in Nat /\ DOMAIN es = 1..n
  BY ListFacts DEF VInv, Typed
<1>4. p = 1 /\ p \in DOMAIN es /\ 1 \in 1..n
  BY <1>3 DEF listIndex
<1>5. a \notin ToSet(es)
  BY <1>2, <1>3 DEF AllStr, IsStr
<1>6. fs \in Seq(Oid) /\ o \in Oid /\ W \in SUBSET Oid
  <2>1. fs \in Seq(Oid)
    BY <1>2, <1>3, <1>4, <1>5, ReplaceAtFacts
  <2> QED BY <1>2, <1>3, <1>4, <2>1
<1>7. DOMAIN fs = 1..n /\ fs[1] = a /\ \A x \in 2..n : fs[x] = es[x] /\ x \in 1..n
  BY <1>3, <1>4 DEF ReplaceAt
<1>8. Answer(b, <<>>, W) /\ SameKeys
  BY <1>1 DEF incrRefCount, lsetCommand
<1>9. Store!Is(d, k, "list") /\ Store!Inside(d, k) = Said(heap, es)
  BY <1>3, FoundTyped, ValIs
<1>10. h[a].str = v /\ l # a /\ h[l].type = "list"
  <2>1. h[a].str = v
    BY <1>2, StringVal
  <2> QED BY <1>2, <1>3, <2>1
<1> HIDE DEF a, h, es, fs, W, o, n
<1>11. g \in Heaps /\ Fades(h, g)
  BY <1>2, <1>6, DecrFades
<1> HIDE DEF g
<1>12. /\ c \in Heaps /\ \A x \in Oid \ {l} : c[x] = h[x]
       /\ \A x \in Oid : c[x].type = h[x].type /\ c[x].str = h[x].str /\ c[x].members = h[x].members
       /\ c[l].elems = fs
  <2>1. h \in Heaps /\ l \in Oid /\ fs \in Seq(Oid)
    BY <1>2, <1>3, <1>6
  <2> HIDE DEF l
  <2> QED BY <2>1, SetElemsFacts
<1>13. f \in Heaps
  BY <1>3, <1>6, <1>11, SetElemsFacts
<1>14. Fades(c, f)
  BY <1>2, <1>3, <1>6, <1>11, SetElemsFades
<1> HIDE DEF c, f, l
<1>15. b \in Heaps /\ Fades(f, b)
  BY <1>13, UpFades
<1>16. Fades(c, b)
  BY <1>14, <1>15, FadesFurther
<1> HIDE DEF b
<1>17. Agree(heap, c, {e.val}) /\ Gathered(heap, c, heap')
  BY <1>2, <1>12 DEF Agree, SameButRef, Gathered, l
<1>18. VInv' /\ Store!Bind(d, k, Val(c, e.val)) /\ Quiet
  BY <1>3, <1>6, <1>8, <1>15, <1>16, <1>17, QuietInPlace DEF l
<1>19. Said(c, fs) = Store!ReplaceAt(Said(heap, es), 1, v)
  <2>1. c[a].str = v
    BY <1>2, <1>10, <1>12
  <2>2. \A x \in 2..n : c[es[x]].str = heap[es[x]].str
    <3>1. \A x \in 2..n : es[x] \in ToSet(es)
      BY <1>3, <1>7 DEF ToSet
    <3> QED BY <1>2, <1>3, <1>5, <1>12, <3>1
  <2>3. Said(c, fs) = [x \in 1..n |-> IF x = 1 THEN v ELSE heap[es[x]].str]
    <3>1. \A x \in 1..n : x # 1 => x \in 2..n
      BY <1>3
    <3>2. Said(c, fs) = [x \in 1..n |-> c[fs[x]].str]
      BY <1>7 DEF Said
    <3> QED BY <1>7, <2>1, <2>2, <3>1, <3>2
  <2>4. Said(heap, es) = [x \in 1..n |-> heap[es[x]].str]
    BY <1>3 DEF Said
  <2> QED BY <1>4, <2>3, <2>4 DEF Store!ReplaceAt
<1>20. Val(c, e.val) = Store!List(Said(c, fs))
  BY <1>3, <1>10, <1>12, ListVal DEF l
<1>21. Said(heap, es) # <<>>
  <2>1. Len(Said(heap, es)) = n
    BY <1>3, SaidType DEF n
  <2>2. n >= 1
    BY <1>3, <1>4
  <2>3. Len(<<>>) = 0
    OBVIOUS
  <2> QED BY <1>3, <2>1, <2>2, <2>3
<1>22. Store!SetFirst(d, k, v)
  BY <1>9, <1>18, <1>19, <1>20, <1>21 DEF Store!SetFirst, Store!Bind
<1> QED BY <1>18, <1>22 DEF Store!Change, Quiet

(* A set of any objects. *)
LEMMA SetShape ==
    ASSUME NEW ms \in SUBSET Oid
    PROVE  Set(ms) \in Loose /\ Set(ms).members = ms /\ Set(ms).type = "set"
<1> DEFINE es == Set({})
<1>1. \A obj : Plain(obj) => obj \in Loose
  BY DEF Plain, Shaped, Object, Loose
<1>2. es \in Loose /\ es.type = "set"
  BY <1>1, NewShapes
<1>3. Set(ms) = [es EXCEPT !.members = ms]
  BY DEF Set, Dead
<1> HIDE DEF es
<1> QED BY <1>2, <1>3 DEF Loose

(* The strings that are in all of the sets. *)
InAll(d, ks) == {x \in Str : \A k \in ks : x \in Store!Inside(d, k)}

(* The members that SINTER finds are in all of the sets. *)
LEMMA CommonSaid ==
    ASSUME VInv, NEW d \in Db, NEW ks \in SUBSET Str, AllSets(d, ks), NEW s \in SetsOf(d, ks)
    PROVE  /\ \A k \in ks : Store!Is(d, k, "set")
           /\ \A o \in Common(s, SetsOf(d, ks)) : heap[o].str \in InAll(d, ks)
<1> DEFINE S == SetsOf(d, ks)
           M == Common(s, S)
<1>1. s \in Oid /\ heap[s].type = "set" /\ KInv
  BY SetsOfFacts DEF VInv
<1>2. heap[s].members \in SUBSET Oid /\ AllStr(heap, heap[s].members)
  BY <1>1, SetFacts
<1>3. M \subseteq heap[s].members /\ \A o \in M : \A t \in S : Member(heap[t].members, heap[o].str) # {}
  BY DEF Common
<1>4. \A k \in ks : Store!Is(d, k, "set") /\ \A o \in M : heap[o].str \in Store!Inside(d, k)
  <2> SUFFICES ASSUME NEW k \in ks
               PROVE  Store!Is(d, k, "set") /\ \A o \in M : heap[o].str \in Store!Inside(d, k)
    OBVIOUS
  <2>1. PICK e \in Typed(d, k, "set") : TRUE
    BY DEF AllSets
  <2>2. heap[e.val].type = "set" /\ e.val \in S
    BY DEF Typed, SetsOf
  <2>3. Store!Is(d, k, "set") /\ Store!Inside(d, k) = {heap[m].str : m \in heap[e.val].members}
    BY <2>2, FoundTyped, ValIs
  <2>4. \A o \in M : \E m \in heap[e.val].members : heap[m].str = heap[o].str
    BY <1>3, <2>2 DEF Member
  <2> QED BY <2>3, <2>4
<1>5. \A o \in M : heap[o].str \in Str
  BY <1>1, <1>2, <1>3, HeapType DEF AllStr, IsStr, Shaped
<1> QED BY <1>4, <1>5 DEF InAll

(* SINTERSTORE replaces whatever has the name. *)
LEMMA RenewsAll ==
    ASSUME VInv, NEW d \in Db, NEW k, NEW n, Rebind(d, Named(d, k), {n})
    PROVE  Renews(d, k, n)
<1>1. db'[d] = (db[d] \ Named(d, k)) \union {n} /\ \A c \in Db \ {d} : db'[c] = db[c]
  BY DbType DEF Rebind, VInv
<1>2. {f \in db[d] : heap[f.key].str # k} = db[d] \ Named(d, k)
  BY DEF Named
<1> QED BY <1>1, <1>2 DEF Renews, Recast, Others

(* What SINTERSTORE leaves under the destination. *)
LEMMA storedChanges ==
    ASSUME VInv, KInv', Begin(2), NEW d \in Db, NEW to \in Str, NEW s \in Oid,
           NEW M \in SUBSET Oid, M \subseteq heap[s].members, AllStr(heap, M),
           NEW old \in SUBSET Oid, Rebind(d, Named(d, to), {Entry(Slot(1), Slot(2))}),
           Answer(Up(decrAll([Given(<<to>>) EXCEPT ![Slot(2)] = Set(M)], old), M \union {Slot(1)}),
                  <<>>, {Slot(1)})
    PROVE  VInv' /\ Quiet /\ Store!Bind(d, to, Store!Set({heap[x].str : x \in M}))
<1> DEFINE a == Slot(1)
           b == Slot(2)
           h == Given(<<to>>)
           obj == Set(M)
           c == [h EXCEPT ![b] = obj]
           g == decrAll(c, old)
           W == M \union {a}
           S == {a}
           z == Up(g, W)
           n == Entry(a, b)
<1>1. /\ a \in Oid /\ heap[a].type = "free" /\ h[a] = String(to)
      /\ \A x \in Oid \ {a} : h[x] = heap[x]
      /\ h \in Heaps /\ Agree(heap, h, {}) /\ \A t \in Oid : h[t].members \subseteq heap[t].members
  BY OneNew
<1>2. b \in Oid /\ heap[b].type = "free" /\ a # b
  <2>1. 2 \in Nat
    OBVIOUS
  <2> QED BY <2>1, SlotsFree
<1>3. obj \in Loose /\ obj.members = M /\ obj.type = "set"
  BY SetShape
<1>4. Answer(z, <<>>, S) /\ S \in SUBSET Oid /\ W \in SUBSET Oid /\ n.key = a /\ n.val = b
  BY <1>1 DEF Entry
<1>5. Renews(d, to, n)
  BY RenewsAll
<1>6. \A x \in M : x \in Oid /\ x # a /\ x # b
  BY <1>1, <1>2 DEF AllStr, IsStr
<1> HIDE DEF a, b, h, obj, n, W, S
<1>7. c \in Heaps /\ c[b] = obj /\ \A x \in Oid \ {b} : c[x] = h[x]
  BY <1>1, <1>2, <1>3 DEF Heaps
<1> HIDE DEF c
<1>8. g \in Heaps /\ Fades(c, g)
  BY <1>7, DecrAllFades
<1> HIDE DEF g
<1>9. z \in Heaps /\ Fades(g, z)
  BY <1>8, UpFades
<1> HIDE DEF z
<1>10. Fades(c, z)
  BY <1>8, <1>9, FadesFurther
<1>11. Agree(heap, c, {})
  BY <1>1, <1>2, <1>7 DEF Agree
<1>12. Fades(c, heap') /\ Carried(heap, heap', {}) /\ Quiet
  BY <1>4, <1>9, <1>10, <1>11, NoContainers, SilentLeaves
<1>13. Gathered(heap, c, heap')
  <2>1. \A t \in Oid \ {b} : c[t].members \subseteq heap[t].members
    BY <1>1, <1>7
  <2>2. c[b].members \subseteq heap[s].members
    BY <1>3, <1>7
  <2> QED BY <2>1, <2>2 DEF Gathered
<1>14. c[n.key].str = to
  <2>1. c[a] = String(to)
    BY <1>1, <1>2, <1>7
  <2>2. c[a].str = to
    BY <2>1, StringVal
  <2> QED BY <1>4, <2>2
<1>15. VInv' /\ Store!Bind(d, to, Val(c, n.val))
  BY <1>5, <1>12, <1>13, <1>14, NoContainers, RenewStep
<1>16. Val(c, b) = Store!Set({heap[x].str : x \in M})
  <2>1. \A x \in M : c[x].str = heap[x].str
    BY <1>1, <1>6, <1>7
  <2>2. {c[x].str : x \in M} = {heap[x].str : x \in M}
    BY <2>1
  <2>3. Val(c, b) = <<"set", {c[x].str : x \in c[b].members}>>
    BY <1>3, <1>7, ValIs
  <2> QED BY <1>3, <1>7, <2>2, <2>3 DEF Store!Set
<1> QED BY <1>4, <1>12, <1>15, <1>16 DEF Store!Bind

(* SINTERSTORE, when it does not end the server *)
LEMMA sinterstoreChanges ==
    ASSUME VInv, KInv', NEW d \in Db, NEW to \in Str, NEW ks \in (SUBSET Str) \ {{}},
           sinterstoreCommand(d, to, ks), fate' = "up"
    PROVE  VInv' /\ Store!Change
<1> DEFINE S == SetsOf(d, ks)
           N == Named(d, to)
           old == KeysOf(N) \union ValsOf(N)
<1>1. ~Ends("wild")
  BY DEF Ends
<1>2. ASSUME NEW s \in Smallest(S), Begin(2), AllSets(d, ks), to \in ks => s \notin old,
             Rebind(d, N, {Entry(Slot(1), Slot(2))}),
             NEW M \in SUBSET (IF to \in ks THEN {} ELSE Common(s, S)),
             Answer(Up(decrAll([Given(<<to>>) EXCEPT ![Slot(2)] = Set(M)], old), M \union {Slot(1)}),
                    <<>>, {Slot(1)})
      PROVE  VInv' /\ Quiet /\ Store!Store(d, to, ks)
  <2>1. s \in S /\ ks \in SUBSET Str
    BY DEF Smallest
  <2>2. /\ s \in Oid /\ heap[s].type = "set"
        /\ M \subseteq heap[s].members /\ M \in SUBSET Oid /\ AllStr(heap, M)
    BY <1>2, <2>1, CommonStays DEF VInv
  <2>3. old \in SUBSET Oid
    <3>1. \A e \in N : e.key \in Oid /\ e.val \in Oid
      BY FoundEntry
    <3> QED BY <3>1 DEF KeysOf, ValsOf
  <2>4. /\ \A k \in ks : Store!Is(d, k, "set")
        /\ \A o \in Common(s, S) : heap[o].str \in InAll(d, ks)
    BY <1>2, <2>1, CommonSaid
  <2>5. M \subseteq Common(s, S)
    OBVIOUS
  <2> DEFINE ms == {heap[x].str : x \in M}
  <2>6. ms \in SUBSET InAll(d, ks)
    BY <2>4, <2>5
  <2> HIDE DEF old, S
  <2>7. VInv' /\ Quiet /\ Store!Bind(d, to, Store!Set(ms))
    BY <1>2, <2>2, <2>3, storedChanges
  <2> HIDE DEF ms
  <2> QED BY <2>4, <2>6, <2>7 DEF Store!Store, InAll
<1>3. {e.key : e \in N} \union {e.val : e \in N} = old
  BY DEF KeysOf, ValsOf
<1> HIDE DEF old
<1>4. VInv' /\ Quiet /\ Store!Store(d, to, ks)
  BY <1>1, <1>2, <1>3, SlotsAre DEF sinterstoreCommand
<1> QED BY <1>4 DEF Store!Change, Quiet

----------------------------------------------------------------------------
(* The steps of the server, as steps of the store *)

(* The invariant and the store begin together. *)
LEMMA VInvStarts == Init => VInv /\ Store!Init
<1> SUFFICES ASSUME Init PROVE VInv /\ Store!Init
  OBVIOUS
<1>1. KInv
  BY KInvStarts
<1>2. \A d \in Db : db[d] = {}
  BY DEF Init, Nothing
<1>3. \A s \in Oid : heap[s].members = {}
  BY DeadShape DEF Init, NoObjects
<1>4. VInv
  BY <1>1, <1>2, <1>3 DEF VInv, Distinct, Sole
<1>5. \A h : Cont(h, {}) = <<>>
  BY DEF Cont, Names
<1>6. Content = Store!Nothing
  BY <1>2, <1>5, ContentIs DEF Store!Nothing
<1>7. [i \in DOMAIN reply |-> heap[reply[i]].str] = <<>>
  BY DEF Init
<1> QED BY <1>4, <1>6, <1>7 DEF Store!Init, Init

(* The server is up before and after. *)
Serves == fate = "up" /\ fate' = "up"

(* What one step of the server is to the store. *)
Shows == VInv' /\ (Store!Next \/ UNCHANGED Store!vars)

(* A command that serves is a step of the store. *)
LEMMA ReadShown ==
    ASSUME Serves, VInv', Store!Read \/ Store!Change \/ Store!ReadAndChange
    PROVE  Shows
BY DEF Serves, Shows, Store!Next

(* So is the end of the server. *)
LEMMA EndShown ==
    ASSUME KInv', NEW how \in {"aborted", "wild"}, Ends(how)
    PROVE  Shows
<1>1. VInv' /\ Store!End
  BY EndsEnds
<1> QED BY <1>1 DEF Shows, Store!Next

(* GET, INCR, DEL *)
LEMMA oneKeyShown ==
    ASSUME VInv, KInv', NEW d \in Db, NEW k \in Str,
           getCommand(d, k) \/ incrDecrCommand(d, k) \/ delCommand(d, k)
    PROVE  Shows
<1>1. Serves
  BY DEF Serves, Begin, Answer, getCommand, incrDecrCommand, delCommand
<1>2. VInv' /\ (Store!Read \/ Store!Change \/ Store!ReadAndChange)
  BY getReads, incrDecrChanges, delChanges
<1> QED BY <1>1, <1>2, ReadShown

(* SET and RENAME *)
LEMMA keyAndFlagShown ==
    ASSUME VInv, KInv', NEW d \in Db, NEW k \in Str, NEW v \in Str, NEW nx \in BOOLEAN,
           setGenericCommand(d, k, v, nx) \/ renameGenericCommand(d, k, v, nx)
    PROVE  Shows
<1>1. Serves
  BY DEF Serves, Begin, Answer, setGenericCommand, renameGenericCommand
<1>2. VInv' /\ (Store!Read \/ Store!Change \/ Store!ReadAndChange)
  BY setGenericChanges, renameChanges
<1> QED BY <1>1, <1>2, ReadShown

(* RPUSH, SADD, SREM *)
LEMMA keyAndStringShown ==
    ASSUME VInv, KInv', NEW d \in Db, NEW k \in Str, NEW v \in Str,
           pushTail(d, k, v) \/ saddCommand(d, k, v) \/ sremCommand(d, k, v)
    PROVE  Shows
<1>1. Serves
  BY DEF Serves, Begin, Answer, pushTail, saddCommand, sremCommand
<1>2. VInv' /\ (Store!Read \/ Store!Change \/ Store!ReadAndChange)
  BY pushTailChanges, saddChanges, sremChanges
<1> QED BY <1>1, <1>2, ReadShown

(* LINDEX, LRANGE, LTRIM *)
LEMMA ofListsShown ==
    ASSUME VInv, KInv', NEW d \in Db, NEW k \in Str, NEW i \in Index, NEW j \in Index,
           lindexCommand(d, k, i) \/ lrangeCommand(d, k, i, j) \/ ltrimCommand(d, k, i, j)
    PROVE  Shows
<1>1. Serves
  BY DEF Serves, Begin, Answer, lindexCommand, lrangeCommand, ltrimCommand
<1>2. VInv' /\ (Store!Read \/ Store!Change \/ Store!ReadAndChange)
  BY lindexReads, lrangeReads, ltrimChanges
<1> QED BY <1>1, <1>2, ReadShown

(* LSET *)
LEMMA lsetShown ==
    ASSUME VInv, KInv', NEW d \in Db, NEW k \in Str, NEW v \in Str, NEW i,
           lsetCommand(d, k, i, v)
    PROVE  Shows
<1>1. Serves
  BY DEF Serves, Begin, Answer, lsetCommand
<1>2. VInv' /\ (Store!Read \/ Store!Change \/ Store!ReadAndChange)
  BY lsetChanges
<1> QED BY <1>1, <1>2, ReadShown

(* LPOP and RPOP *)
LEMMA popShown ==
    ASSUME VInv, KInv', NEW d \in Db, NEW k \in Str, NEW head \in BOOLEAN,
           popGenericCommand(d, k, head)
    PROVE  Shows
<1>1. Serves
  BY DEF Serves, Begin, Answer, popGenericCommand
<1>2. VInv' /\ (Store!Read \/ Store!Change \/ Store!ReadAndChange)
  BY popChanges
<1> QED BY <1>1, <1>2, ReadShown

(* MOVE *)
LEMMA moveShown ==
    ASSUME VInv, KInv', NEW d \in Db, NEW to \in Db, NEW k \in Str,
           moveCommand(d, k, to)
    PROVE  Shows
<1>1. Serves
  BY DEF Serves, Begin, Answer, moveCommand
<1>2. VInv' /\ (Store!Read \/ Store!Change \/ Store!ReadAndChange)
  BY moveChanges
<1> QED BY <1>1, <1>2, ReadShown

(* SINTER, SINTERSTORE and SORT, which may end the server *)
LEMMA SetsShown ==
    ASSUME VInv, KInv', NEW d \in Db, NEW k \in Str, NEW ks \in (SUBSET Str) \ {{}},
           sinterCommand(d, ks) \/ sinterstoreCommand(d, k, ks) \/ sortCommand(d, k)
    PROVE  Shows
<1>1. fate = "up"
  BY DEF Begin, sinterCommand, sinterstoreCommand, sortCommand
<1>2. fate' = "up" \/ Ends("wild") \/ Ends("aborted")
  BY <1>1 DEF Answer, sinterCommand, sinterstoreCommand, sortCommand
<1>3. CASE fate' = "up"
  <2>1. ks \in SUBSET Str /\ ks # {}
    OBVIOUS
  <2>2. VInv' /\ (Store!Read \/ Store!Change)
    BY <1>3, <2>1, sinterReads, sinterstoreChanges, sortReads
  <2> QED BY <1>1, <1>3, <2>2, ReadShown DEF Serves
<1>4. CASE Ends("wild") \/ Ends("aborted")
  BY <1>4, EndShown
<1> QED BY <1>2, <1>3, <1>4

(* Every step keeps the invariant and is one of the store, or none. *)
LEMMA VInvStays == VInv /\ [Next]_vars => VInv' /\ (Store!Next \/ UNCHANGED Store!vars)
<1> SUFFICES ASSUME VInv, [Next]_vars PROVE Shows
  BY DEF Shows
<1>1. KInv'
  BY KInvStays DEF VInv
<1>2. CASE Next
  <2>1. ASSUME NEW d \in Db, NEW k \in Str, pushHead(d, k) PROVE Shows
    BY <1>1, <2>1, EndShown DEF pushHead
  <2>2. CASE strayCommand
    BY <1>1, <2>2, EndShown DEF strayCommand
  <2>3. CASE sendReplyToClient
    <3>1. VInv' /\ Store!Deliver
      BY <1>1, <2>3, sendReplyDelivers
    <3> QED BY <3>1 DEF Shows, Store!Next
  <2>4. ASSUME NEW v \in Str, echoCommand(v) PROVE Shows
    <3>1. VInv' /\ Store!Read
      BY <1>1, <2>4, echoReads
    <3> QED BY <2>4, <3>1, ReadShown DEF Serves, echoCommand, Begin, Answer
  <2>5. CASE flushallCommand
    <3>1. Db \in SUBSET Db
      OBVIOUS
    <3>2. VInv' /\ Store!Change
      BY <1>1, <2>5, <3>1, EmptiedChanges DEF flushallCommand
    <3> QED BY <2>5, <3>2, ReadShown DEF Serves, flushallCommand, Emptied, Begin, Answer
  <2>6. ASSUME NEW d \in Db, \/ keysCommand(d) \/ randomkeyCommand(d) \/ flushdbCommand(d)
        PROVE  Shows
    <3>1. Serves
      BY <2>6 DEF Serves, Begin, Answer, keysCommand, randomkeyCommand, flushdbCommand, Emptied
    <3>2. {d} \in SUBSET Db
      OBVIOUS
    <3>3. VInv' /\ (Store!Read \/ Store!Change)
      BY <1>1, <2>6, <3>2, keysReads, randomkeyReads, EmptiedChanges DEF flushdbCommand
    <3> QED BY <3>1, <3>3, ReadShown
  <2>7. ASSUME NEW d \in Db, NEW ks \in (SUBSET Str) \ {{}}, sinterCommand(d, ks) PROVE Shows
    <3>1. PICK k \in Str : TRUE
      OBVIOUS
    <3> QED BY <1>1, <2>7, SetsShown
  <2>8. ASSUME NEW d \in Db, NEW k \in Str, sortCommand(d, k) PROVE Shows
    <3>1. {k} \in (SUBSET Str) \ {{}}
      OBVIOUS
    <3> QED BY <1>1, <2>8, <3>1, SetsShown
  <2>9. ASSUME NEW d \in Db, NEW k \in Str, NEW i \in Index, lindexCommand(d, k, i) PROVE Shows
    BY <1>1, <2>9, ofListsShown
  <2> HIDE DEF Shows
  <2> QED BY <1>1, <1>2, <2>1, <2>2, <2>3, <2>4, <2>5, <2>6, <2>7, <2>8, <2>9, oneKeyShown, keyAndFlagShown,
             keyAndStringShown, ofListsShown, lsetShown, popShown, moveShown, SetsShown DEF Next
<1>3. CASE UNCHANGED vars
  <2>1. KInv' /\ heap' = heap /\ db' = db
    BY <1>1, <1>3 DEF vars
  <2>2. VInv'
    BY <2>1 DEF VInv, Distinct, Sole
  <2>3. Content' = Content
    BY <2>1 DEF Content, Value, Named
  <2> QED BY <1>3, <2>2, <2>3 DEF Shows, Store!vars, vars
<1> QED BY <1>2, <1>3

(* The commands do with shared, counted objects what the store promises of *)
(* values: no client sees the sharing.                                     *)
THEOREM StoreImplemented == Spec => ImplementsKeyStore
<1>1. Init => VInv /\ Store!Init
  BY VInvStarts
<1>2. VInv /\ [Next]_vars => VInv' /\ [Store!Next]_(Store!vars)
  BY VInvStays
<1> QED BY <1>1, <1>2, PTL DEF Spec, ImplementsKeyStore, Store!Spec

----------------------------------------------------------------------------
(* Which changes count *)

(* The data is as it was. *)
Kept == Content' = Content

(* Counting is seen in dirty, of which the model keeps the parity. *)
LEMMA CountedShows ==
    ASSUME KInv, Counted
    PROVE  dirty' # dirty
BY DEF KInv, Counted

(* A server that ends itself is not up. *)
LEMMA EndsShow ==
    ASSUME NEW how \in {"aborted", "wild"}, Ends(how)
    PROVE  fate' # "up"
BY DEF Ends

(* A step that does not count, by command. *)
LEMMA CountedOrKept ==
    ASSUME VInv, [Next]_vars, dirty' = dirty, fate' = "up"
    PROVE  \/ Kept
           \/ \E d \in Db : flushdbCommand(d)
           \/ flushallCommand
           \/ \E d \in Db, to \in Str, ks \in SUBSET Str : sinterstoreCommand(d, to, ks)
<1>1. KInv /\ KInv'
  BY KInvStays DEF VInv
<1>2. ~Counted
  BY <1>1, CountedShows
<1>3. ~Ends("aborted") /\ ~Ends("wild")
  BY EndsShow
<1>4. ASSUME NEW d \in Db, NEW to \in Db, NEW k, NEW l, NEW i, NEW nx,
             \/ setGenericCommand(d, k, l, nx) \/ incrDecrCommand(d, k) \/ delCommand(d, k)
             \/ renameGenericCommand(d, k, l, nx) \/ moveCommand(d, k, to) \/ pushTail(d, k, l)
             \/ lsetCommand(d, k, i, l) \/ popGenericCommand(d, k, nx) \/ ltrimCommand(d, k, i, to)
             \/ saddCommand(d, k, l) \/ sremCommand(d, k, l)
      PROVE  FALSE
  BY <1>2, <1>4 DEF setGenericCommand, incrDecrCommand, delCommand, renameGenericCommand, moveCommand, pushTail,
     lsetCommand, popGenericCommand, ltrimCommand, saddCommand, sremCommand
<1>5. \A d, k : ~pushHead(d, k)
  BY <1>3 DEF pushHead
<1>6. ~strayCommand
  BY <1>3 DEF strayCommand
<1>7. ASSUME sendReplyToClient PROVE Kept
  BY <1>1, <1>7, sendReplyDelivers DEF Kept
<1>8. ASSUME NEW m \in Str, echoCommand(m) PROVE Kept
  BY <1>1, <1>8, echoReads DEF Kept
<1>9. ASSUME NEW d \in Db, keysCommand(d) \/ randomkeyCommand(d) PROVE Kept
  BY <1>1, <1>9, keysReads, randomkeyReads DEF Kept
<1>10. ASSUME NEW d \in Db, NEW k \in Str, getCommand(d, k) \/ sortCommand(d, k) PROVE Kept
  BY <1>1, <1>10, getReads, sortReads DEF Kept
<1>11. ASSUME NEW d \in Db, NEW k \in Str, NEW i \in Index, NEW j \in Index,
              lindexCommand(d, k, i) \/ lrangeCommand(d, k, i, j)
       PROVE  Kept
  BY <1>1, <1>11, lindexReads, lrangeReads DEF Kept
<1>12. ASSUME NEW d \in Db, NEW ks \in (SUBSET Str) \ {{}}, sinterCommand(d, ks) PROVE Kept
  <2>1. ks \in SUBSET Str /\ ks # {}
    OBVIOUS
  <2> QED BY <1>1, <1>12, <2>1, sinterReads DEF Kept
<1>13. CASE UNCHANGED vars
  BY <1>13 DEF vars, Content, Value, Named, Kept
<1>14. CASE Next
  <2>1. ASSUME NEW d \in Db, NEW k \in Str, NEW i \in Index, lindexCommand(d, k, i) PROVE Kept
    BY <1>11, <2>1
  <2>2. ASSUME NEW d \in Db, NEW k \in Str, NEW i, NEW j, ltrimCommand(d, k, i, j) PROVE FALSE
    BY <1>2, <2>2 DEF ltrimCommand
  <2>3. ASSUME NEW d \in Db, NEW to \in Str, NEW ks \in (SUBSET Str) \ {{}}, sinterstoreCommand(d, to, ks)
        PROVE  \E c \in Db, x \in Str, S \in SUBSET Str : sinterstoreCommand(c, x, S)
    BY <2>3
  <2> QED BY <1>4, <1>5, <1>6, <1>7, <1>8, <1>9, <1>10, <1>11, <1>12, <1>14, <2>1, <2>2, <2>3 DEF Next
<1> QED BY <1>13, <1>14

(* Whatever changes the data counts in server.dirty, but for SINTERSTORE and *)
(* the two that save at once: no other change is forgotten by the saver.     *)
THEOREM CountedChanges == Spec => ChangesAreCounted
<1>1. Init => VInv
  BY VInvStarts
<1>2. VInv /\ [Next]_vars => VInv'
  BY VInvStays
<1> DEFINE A == dirty' = dirty /\ fate' = "up" =>
          \/ Content' = Content
          \/ \E d \in Db : flushdbCommand(d)
          \/ flushallCommand
          \/ \E d \in Db, to \in Str, ks \in SUBSET Str : sinterstoreCommand(d, to, ks)
<1>3. VInv /\ [Next]_vars => [A]_vars
  BY CountedOrKept DEF Kept
<1> QED BY <1>1, <1>2, <1>3, PTL DEF Spec, ChangesAreCounted
=============================================================================
