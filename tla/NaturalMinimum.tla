--------------------------- MODULE NaturalMinimum ---------------------------
(* First-order facts about naturals, finite sets and folds that stand for  *)
(* inductions: proofs about definitions that CHOOSE or fold cite them.     *)
EXTENDS Integers, FiniteSetTheorems, WellFoundedInduction, TLAPS

(* A set of naturals that has a member has a least one. *)
LEMMA NatMin ==
    ASSUME NEW S \in SUBSET Nat, S # {}
    PROVE  \E x \in S : \A y \in S : x <= y
<1> DEFINE T == {0..x : x \in S}
<1>1. T \subseteq FiniteSubsetsOf(Nat) /\ T # {}
  <2>1. ASSUME NEW x \in S PROVE 0..x \in FiniteSubsetsOf(Nat)
    <3>1. IsFiniteSet(0..x)
      BY FS_Interval
    <3> QED BY <3>1 DEF FiniteSubsetsOf
  <2> QED BY <2>1
<1>2. PICK u \in T : \A v \in T : ~(<<v, u>> \in StrictSubsetOrdering(Nat))
  <2> HIDE DEF T
  <2> QED BY <1>1, WFMin, FS_StrictSubsetOrderingWellFounded, ZenonT(30)
<1>3. PICK x \in S : u = 0..x
  OBVIOUS
<1>4. ASSUME NEW y \in S, y < x PROVE FALSE
  <2>1. 0..y \in T /\ 0..y \subseteq 0..x /\ 0..y # 0..x
    <3>1. x \in 0..x /\ x \notin 0..y
      BY <1>4
    <3>2. 0..y \subseteq 0..x
      BY <1>4
    <3> QED BY <3>1, <3>2
  <2>2. <<0..y, 0..x>> \in StrictSubsetOrdering(Nat)
    BY <2>1 DEF StrictSubsetOrdering
  <2> QED BY <2>1, <2>2, <1>2, <1>3
<1> QED BY <1>4

(* A bounded one has a greatest one, too. *)
LEMMA NatMax ==
    ASSUME NEW n \in Nat, NEW S \in SUBSET (0..n), S # {}
    PROVE  \E x \in S : \A y \in S : x >= y
<1> DEFINE U == {n - y : y \in S}
<1>1. \A y \in S : y \in Int /\ n - y \in Nat
  OBVIOUS
<1>2. U \in SUBSET Nat /\ U # {}
  BY <1>1
<1> HIDE DEF U
<1>3. PICK u \in U : \A v \in U : u <= v
  BY <1>2, NatMin
<1>4. PICK x \in S : u = n - x
  BY DEF U
<1>5. \A y \in S : n - x <= n - y
  BY <1>3, <1>4 DEF U
<1>6. \A y \in S : x >= y
  BY <1>1, <1>5
<1> QED BY <1>6

(* What holds of {} and, if of all T without a member, of T, holds of every *)
(* subset of a finite set. *)
LEMMA SubsetInduction ==
    ASSUME NEW S, IsFiniteSet(S), NEW P, {} \in P,
           \A T \in SUBSET S : T # {} /\ (\A x \in T : T \ {x} \in P) => T \in P
    PROVE  SUBSET S \subseteq P
<1> DEFINE Q == (SUBSET S) \ P
<1>1. Q \subseteq FiniteSubsetsOf(S)
  BY FS_Subset DEF FiniteSubsetsOf
<1>2. SUFFICES ASSUME Q # {} PROVE FALSE
  OBVIOUS
<1>3. PICK T \in Q : \A U \in Q : ~(<<U, T>> \in StrictSubsetOrdering(S))
  <2> HIDE DEF Q
  <2> QED BY <1>1, <1>2, WFMin, FS_StrictSubsetOrderingWellFounded, ZenonT(30)
<1>4. T # {} /\ T \subseteq S
  OBVIOUS
<1>5. ASSUME NEW x \in T PROVE T \ {x} \in P
  <2>1. SUFFICES ASSUME T \ {x} \in Q PROVE FALSE
    BY <1>4
  <2>2. <<T \ {x}, T>> \in StrictSubsetOrdering(S)
    BY <1>4 DEF StrictSubsetOrdering
  <2> HIDE DEF Q
  <2> QED BY <1>3, <2>1, <2>2
<1> QED BY <1>3, <1>4, <1>5

(* A function that folds op over the subsets of a finite set, from b and in *)
(* the order that ch chooses, ...                                           *)
FoldsOver(f, S, b, op, ch) ==
    \A T \in SUBSET S : f[T] = IF T = {} THEN b ELSE op[<<ch[T], f[T \ {ch[T]}]>>]

(* ... exists. *)
LEMMA SubsetRecursion ==
    ASSUME NEW S, IsFiniteSet(S), NEW X, NEW b \in X, NEW op \in [S \X X -> X],
           NEW ch, \A T \in SUBSET S : T # {} => ch[T] \in T
    PROVE  \E f \in [SUBSET S -> X] : FoldsOver(f, S, b, op, ch)
<1> DEFINE Step(f, T) == IF T = {} THEN b ELSE op[<<ch[T], f[T \ {ch[T]}]>>]
           F == [SUBSET S -> X]
           Small(n) == {T \in SUBSET S : Cardinality(T) <= n}
           Solves(f, n) == \A T \in Small(n) : f[T] = Step(f, T)
           Bad == {n \in Nat : \A f \in F : ~Solves(f, n)}
<1>1. \A T \in SUBSET S : IsFiniteSet(T) /\ Cardinality(T) \in Nat
  BY FS_Subset, FS_CardinalityType
<1>2. ASSUME NEW f \in F, NEW T \in SUBSET S PROVE Step(f, T) \in X
  OBVIOUS
<1>3. 0 \notin Bad
  <2> DEFINE f == [T \in SUBSET S |-> b]
  <2>1. \A T \in Small(0) : T = {}
    BY <1>1, FS_EmptySet
  <2>2. f \in F /\ Solves(f, 0)
    BY <2>1
  <2> QED BY <2>2
<1>4. ASSUME NEW n \in Nat, n \notin Bad PROVE n + 1 \notin Bad
  <2>1. PICK f \in F : Solves(f, n)
    BY <1>4
  <2> DEFINE g == [T \in SUBSET S |-> IF T \in Small(n) THEN f[T] ELSE Step(f, T)]
  <2>2. g \in F
    <3> HIDE DEF Step, Small
    <3> QED BY <1>2
  <2>3. ASSUME NEW T \in Small(n + 1), T # {} PROVE T \ {ch[T]} \in Small(n)
    <3>1. IsFiniteSet(T) /\ ch[T] \in T /\ Cardinality(T) <= n + 1 /\ T \in SUBSET S
      BY <1>1, <2>3
    <3>2. Cardinality(T \ {ch[T]}) = Cardinality(T) - 1
      <4>1. \A x \in T : Cardinality(T \ {x}) = Cardinality(T) - 1
        BY <3>1, FS_RemoveElement
      <4> QED BY <3>1, <4>1
    <3> QED BY <1>1, <3>1, <3>2
  <2>4. ASSUME NEW T \in Small(n + 1) PROVE Step(g, T) = Step(f, T)
    <3>1. CASE T = {}
      BY <3>1
    <3>2. CASE T # {}
      <4>1. T \ {ch[T]} \in Small(n)
        BY <2>3, <3>2
      <4>2. g[T \ {ch[T]}] = f[T \ {ch[T]}]
        <5> HIDE DEF Step
        <5> QED BY <4>1
      <4> QED BY <3>2, <4>2
    <3> QED BY <3>1, <3>2
  <2>5. ASSUME NEW T \in Small(n + 1) PROVE g[T] = Step(f, T)
    <3> HIDE DEF Step
    <3>1. CASE T \in Small(n)
      BY <2>1, <3>1
    <3>2. CASE T \notin Small(n)
      BY <3>2
    <3> QED BY <3>1, <3>2
  <2>6. Solves(g, n + 1)
    <3> HIDE DEF Step, g, Small
    <3> QED BY <2>4, <2>5
  <2> HIDE DEF Solves, g
  <2> QED BY <2>2, <2>6
<1>5. Bad = {}
  <2>1. SUFFICES ASSUME Bad # {} PROVE FALSE
    OBVIOUS
  <2>2. Bad \in SUBSET Nat
    OBVIOUS
  <2> HIDE DEF Bad
  <2>3. PICK n \in Bad : \A m \in Bad : n <= m
    BY <2>1, <2>2, NatMin
  <2>4. n \in Nat /\ n # 0
    BY <1>3, <2>2
  <2>5. n - 1 \in Nat /\ (n - 1) + 1 = n /\ n - 1 \notin Bad
    BY <2>3, <2>4
  <2> QED BY <1>4, <2>3, <2>5
<1>6. PICK f \in F : Solves(f, Cardinality(S))
  <2>1. Cardinality(S) \in Nat
    BY FS_CardinalityType
  <2> HIDE DEF Solves, F
  <2> QED BY <1>5, <2>1
<1>7. ASSUME NEW T \in SUBSET S PROVE f[T] = Step(f, T)
  <2>1. Cardinality(T) <= Cardinality(S)
    BY FS_Subset
  <2> HIDE DEF Step
  <2> QED BY <1>6, <2>1
<1>8. FoldsOver(f, S, b, op, ch)
  BY <1>7 DEF FoldsOver
<1> QED BY <1>8

(* What op makes for d of a function is made from its values at smaller    *)
(* ranks.                                                                  *)
Ranked(D, X, n, rank, op) ==
    /\ n \in Nat /\ rank \in [D -> 0..n] /\ op \in [D \X [D -> X] -> X]
    /\ \A d \in D : \A g, h \in [D -> X] :
           (\A e \in D : rank[e] < rank[d] => g[e] = h[e]) => op[<<d, g>>] = op[<<d, h>>]

(* The definition f[d \in D] == op[<<d, f>>] means what it says.           *)
Solvable(D, X, op) == \E f \in [D -> X] : \A d \in D : f[d] = op[<<d, f>>]

(* A function of values at smaller ranks can be defined by recursion.      *)
LEMMA RankedRecursion ==
    ASSUME NEW D, NEW X, NEW b \in X, NEW n, NEW rank, NEW op, Ranked(D, X, n, rank, op)
    PROVE  Solvable(D, X, op)
<1> DEFINE F == [D -> X]
           Solves(f, m) == \A d \in D : rank[d] < m => f[d] = op[<<d, f>>]
           Bad == {m \in Nat : \A f \in F : ~Solves(f, m)}
<1>0. /\ n \in Nat /\ rank \in [D -> 0..n] /\ op \in [D \X [D -> X] -> X]
      /\ \A d \in D : \A g, h \in [D -> X] :
             (\A e \in D : rank[e] < rank[d] => g[e] = h[e]) => op[<<d, g>>] = op[<<d, h>>]
  BY DEF Ranked
<1>1. \A d \in D : rank[d] \in Nat /\ rank[d] < n + 1
  BY <1>0
<1>2. 0 \notin Bad
  <2>1. [d \in D |-> b] \in F /\ Solves([d \in D |-> b], 0)
    BY <1>1
  <2> HIDE DEF F, Solves
  <2> QED BY <2>1
<1>3. ASSUME NEW m \in Nat, m \notin Bad PROVE m + 1 \notin Bad
  <2>1. PICK f \in F : Solves(f, m)
    BY <1>3
  <2> DEFINE g == [d \in D |-> IF rank[d] < m THEN f[d] ELSE op[<<d, f>>]]
  <2>2. \A d \in D : op[<<d, f>>] \in X
    BY <1>0, <2>1
  <2>3. g \in F
    BY <2>1, <2>2
  <2>4. ASSUME NEW d \in D, rank[d] < m + 1 PROVE g[d] = op[<<d, g>>]
    <3>1. \A e \in D : rank[e] < rank[d] => g[e] = f[e]
      BY <1>0, <1>1, <2>4
    <3>2. op[<<d, g>>] = op[<<d, f>>]
      <4> HIDE DEF g
      <4> QED BY <1>0, <2>1, <2>3, <3>1
    <3>3. g[d] = op[<<d, f>>]
      BY <2>1
    <3> QED BY <3>2, <3>3
  <2>5. Solves(g, m + 1)
    BY <2>4
  <2> HIDE DEF g, F, Solves
  <2> QED BY <2>3, <2>5
<1>4. Bad = {}
  <2>1. SUFFICES ASSUME Bad # {} PROVE FALSE
    OBVIOUS
  <2>2. Bad \in SUBSET Nat
    OBVIOUS
  <2> HIDE DEF Bad
  <2>3. PICK m \in Bad : \A k \in Bad : m <= k
    BY <2>1, <2>2, NatMin
  <2>4. m \in Nat /\ m # 0
    BY <1>2, <2>2
  <2>5. m - 1 \in Nat /\ (m - 1) + 1 = m /\ m - 1 \notin Bad
    BY <2>3, <2>4
  <2> QED BY <1>3, <2>3, <2>5
<1>5. PICK f \in F : Solves(f, n + 1)
  <2> HIDE DEF Solves, F
  <2> QED BY <1>0, <1>4
<1> QED BY <1>1, <1>5 DEF Solvable

----------------------------------------------------------------------------
(* Recursive functions of a position: the definition is an equation        *)

(* f == [i \in 0..n |-> op[<<i, f>>]] means what it says.                  *)
Definable(n, X, op) == \E f \in [0..n -> X] : f = [i \in 0..n |-> op[<<i, f>>]]

(* What op makes for a place of a function is made from earlier places.    *)
FromEarlier(n, X, op) ==
    /\ n \in Nat /\ op \in [(0..n) \X [0..n -> X] -> X]
    /\ \A i \in 0..n : \A g, h \in [0..n -> X] :
           (\A k \in 0..n : k < i => g[k] = h[k]) => op[<<i, g>>] = op[<<i, h>>]

(* Then a function can be defined by it.                                   *)
LEMMA UpRecursion ==
    ASSUME NEW n, NEW X, NEW b \in X, NEW op, FromEarlier(n, X, op)
    PROVE  Definable(n, X, op)
<1> DEFINE D == 0..n
           rank == [i \in D |-> i]
<1>1. /\ n \in Nat /\ op \in [D \X [D -> X] -> X]
      /\ \A i \in D : \A g, h \in [D -> X] :
             (\A k \in D : k < i => g[k] = h[k]) => op[<<i, g>>] = op[<<i, h>>]
  BY DEF FromEarlier
<1>2. rank \in [D -> 0..n] /\ \A i, k \in D : rank[k] < rank[i] <=> k < i
  BY <1>1
<1> HIDE DEF rank, D
<1>3. Ranked(D, X, n, rank, op)
  BY <1>1, <1>2 DEF Ranked
<1>4. Solvable(D, X, op)
  BY <1>3, RankedRecursion, Zenon
<1> QED BY <1>4 DEF D, Solvable, Definable

(* ... or from later ones.                                                 *)
FromLater(n, X, op) ==
    /\ n \in Nat /\ op \in [(0..n) \X [0..n -> X] -> X]
    /\ \A i \in 0..n : \A g, h \in [0..n -> X] :
           (\A k \in 0..n : k > i => g[k] = h[k]) => op[<<i, g>>] = op[<<i, h>>]

(* ... again so that it defines a function.                                *)
LEMMA DownRecursion ==
    ASSUME NEW n, NEW X, NEW b \in X, NEW op, FromLater(n, X, op)
    PROVE  Definable(n, X, op)
<1> DEFINE D == 0..n
           rank == [i \in D |-> n - i]
<1>1. /\ n \in Nat /\ op \in [D \X [D -> X] -> X]
      /\ \A i \in D : \A g, h \in [D -> X] :
             (\A k \in D : k > i => g[k] = h[k]) => op[<<i, g>>] = op[<<i, h>>]
  BY DEF FromLater
<1>2. rank \in [D -> 0..n] /\ \A i, k \in D : rank[k] < rank[i] <=> k > i
  BY <1>1
<1> HIDE DEF rank, D
<1>3. Ranked(D, X, n, rank, op)
  BY <1>1, <1>2 DEF Ranked
<1>4. Solvable(D, X, op)
  BY <1>3, RankedRecursion, Zenon
<1> QED BY <1>4 DEF D, Solvable, Definable

(* What holds of a position when it holds of every later one holds of all. *)
LEMMA DownInduction ==
    ASSUME NEW n \in Nat, NEW P,
           \A i \in 0..n : (\A k \in 0..n : k > i => k \in P) => i \in P
    PROVE  \A i \in 0..n : i \in P
<1> DEFINE Bad == {i \in 0..n : i \notin P}
<1>1. SUFFICES ASSUME Bad # {} PROVE FALSE
  OBVIOUS
<1>2. Bad \in SUBSET (0..n)
  OBVIOUS
<1>3. PICK i \in Bad : \A k \in Bad : i >= k
  <2> HIDE DEF Bad
  <2> QED BY <1>1, <1>2, NatMax
<1>4. \A k \in 0..n : k > i => k \in P
  BY <1>3
<1> QED BY <1>3, <1>4

LEMMA UpInduction ==
    ASSUME NEW n \in Nat, NEW P,
           \A i \in 0..n : (\A k \in 0..n : k < i => k \in P) => i \in P
    PROVE  \A i \in 0..n : i \in P
<1> DEFINE Bad == {i \in 0..n : i \notin P}
<1>1. SUFFICES ASSUME Bad # {} PROVE FALSE
  OBVIOUS
<1>2. Bad \in SUBSET Nat
  OBVIOUS
<1>3. PICK i \in Bad : \A k \in Bad : i <= k
  <2> HIDE DEF Bad
  <2> QED BY <1>1, <1>2, NatMin
<1>4. \A k \in 0..n : k < i => k \in P
  BY <1>3
<1> QED BY <1>3, <1>4
=============================================================================
