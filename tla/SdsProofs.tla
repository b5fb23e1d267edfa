------------------------------ MODULE SdsProofs ------------------------------
(***************************************************************************)
(* Proofs about Sds: the header is exact through any sequence of calls,    *)
(* and every call leaves the text that it should, for all bytes, arguments *)
(* and lengths.  Proofs about Strings: the pattern match decides the       *)
(* language of the pattern, and a string that was split joins again.       *)
(***************************************************************************)
EXTENDS Strings, NaturalMinimum

SInv == TypeOK /\ FreeIsExact

----------------------------------------------------------------------------
(* Parts of sequences *)

LEMMA PartType ==
    ASSUME NEW S, NEW s \in Seq(S), NEW m \in Int, NEW n \in Int, 1 <= m, n <= Len(s)
    PROVE  /\ SubSeq(s, m, n) \in Seq(S)
           /\ Len(SubSeq(s, m, n)) = IF m <= n THEN n - m + 1 ELSE 0
<1>1. CASE m <= n
  BY <1>1
<1>2. CASE ~(m <= n)
  BY <1>2
<1> QED BY <1>1, <1>2

LEMMA ArgType == Arg \subseteq Seq(Byte)
<1>1. ASSUME NEW m \in Nat, NEW t \in [1..m -> Byte] PROVE t \in Seq(Byte)
  OBVIOUS
<1> QED BY <1>1, SdsAssumption DEF Arg, BoundedSeq, SeqOf

LEMMA UpToNulType ==
    ASSUME NEW t \in Seq(Byte)
    PROVE  UpToNul(t) \in Seq(Byte)
<1> DEFINE I == {i \in 1..Len(t) : t[i] = Nul}
<1>1. FirstNul(t) = IF I # {} THEN CHOOSE x \in I : \A y \in I : x <= y ELSE 0
  BY DEF FirstNul, SelectInSeq, Min
<1>2. I \in SUBSET Nat
  OBVIOUS
<1>3. FirstNul(t) \in I \union {0}
  <2> HIDE DEF I
  <2>1. I # {} => \E x \in I : \A y \in I : x <= y
    BY <1>2, NatMin
  <2> QED BY <1>1, <2>1
<1>4. CASE FirstNul(t) = 0
  BY <1>4 DEF UpToNul
<1>5. CASE FirstNul(t) # 0
  <2>1. FirstNul(t) \in 1..Len(t)
    BY <1>3, <1>5
  <2>2. SubSeq(t, 1, FirstNul(t) - 1) \in Seq(Byte)
    BY <2>1, PartType
  <2> QED BY <1>5, <2>2 DEF UpToNul
<1> QED BY <1>4, <1>5

----------------------------------------------------------------------------
(* What the scans of the string find *)

(* A scan upwards stops at the first position that the test holds of.      *)
LEMMA FirstOf ==
    ASSUME NEW n \in Nat, NEW P \in SUBSET (0..n), n \in P
    PROVE  \E k \in 0..n : k \in P /\ \A j \in 0..(k - 1) : j \notin P
<1>1. PICK k \in P : \A j \in P : k <= j
  BY NatMin
<1> QED BY <1>1

(* A scan downwards stops at the last one. *)
LEMMA LastOf ==
    ASSUME NEW n \in Nat, NEW P \in SUBSET (0..n), 0 \in P
    PROVE  \E k \in 0..n : k \in P /\ \A j \in (k + 1)..n : j \notin P
<1> DEFINE Q == {m \in 0..n : n - m \in P}
<1>1. Q \in SUBSET (0..n) /\ n \in Q
  OBVIOUS
<1>2. PICK m \in 0..n : m \in Q /\ \A j \in 0..(m - 1) : j \notin Q
  <2> HIDE DEF Q
  <2> QED BY <1>1, FirstOf
<1>3. n - m \in 0..n /\ n - m \in P
  BY <1>2
<1>4. ASSUME NEW j \in (n - m + 1)..n PROVE j \notin P
  <2>1. n - j \in 0..(m - 1) /\ n - j \in 0..n /\ n - (n - j) = j
    OBVIOUS
  <2> QED BY <1>2, <2>1
<1> QED BY <1>3, <1>4

LEMMA SpFound ==
    ASSUME bytes \in Seq(Byte), NEW cset
    PROVE  /\ Sp(cset) \in 0..len
           /\ Sp(cset) < len => Stays(Sp(cset), cset)
           /\ \A j \in 0..(Sp(cset) - 1) : ~Stays(j, cset)
<1> DEFINE P == {k \in 0..len : k < len => Stays(k, cset)}
<1>1. len \in Nat /\ P \in SUBSET (0..len) /\ len \in P
  BY DEF len
<1>2. PICK k \in 0..len : k \in P /\ \A j \in 0..(k - 1) : j \notin P
  <2> HIDE DEF P
  <2> QED BY <1>1, FirstOf
<1>3. \A j \in 0..(k - 1) : ~Stays(j, cset)
  BY <1>1, <1>2
<1>4. \E m \in 0..len : /\ m < len => Stays(m, cset)
                        /\ \A j \in 0..(m - 1) : ~Stays(j, cset)
  BY <1>2, <1>3
<1> QED BY <1>4 DEF Sp

LEMMA EpFound ==
    ASSUME bytes \in Seq(Byte), len > 0, NEW cset
    PROVE  /\ Ep(cset) \in 0..(len - 1)
           /\ Ep(cset) > 0 => Stays(Ep(cset), cset)
           /\ \A j \in (Ep(cset) + 1)..(len - 1) : ~Stays(j, cset)
<1> DEFINE P == {k \in 0..(len - 1) : k > 0 => Stays(k, cset)}
           n == len - 1
<1>1. n \in Nat /\ P \in SUBSET (0..n) /\ 0 \in P
  BY DEF len
<1>2. PICK k \in 0..n : k \in P /\ \A j \in (k + 1)..n : j \notin P
  <2> HIDE DEF P, n
  <2> QED BY <1>1, LastOf
<1>3. \A j \in (k + 1)..n : ~Stays(j, cset)
  BY <1>1, <1>2
<1>4. \E m \in 0..(len - 1) : /\ m > 0 => Stays(m, cset)
                              /\ \A j \in (m + 1)..(len - 1) : ~Stays(j, cset)
  BY <1>2, <1>3
<1>5. len # 0
  BY <1>1
<1> QED BY <1>4, <1>5 DEF Ep

LEMMA StrlenFound ==
    ASSUME bytes \in Seq(Byte)
    PROVE  /\ Strlen \in 0..len
           /\ Strlen < len => bytes[Strlen + 1] = Nul
           /\ \A i \in 1..Strlen : bytes[i] # Nul
<1> DEFINE P == {k \in 0..len : k < len => bytes[k + 1] = Nul}
<1>1. len \in Nat /\ P \in SUBSET (0..len) /\ len \in P
  BY DEF len
<1>2. PICK k \in 0..len : k \in P /\ \A j \in 0..(k - 1) : j \notin P
  <2> HIDE DEF P
  <2> QED BY <1>1, FirstOf
<1>3. ASSUME NEW i \in 1..k PROVE bytes[i] # Nul
  <2>1. i - 1 \in 0..(k - 1) /\ i - 1 \in 0..len /\ (i - 1) + 1 = i
    BY <1>1
  <2> QED BY <1>2, <2>1
<1>4. \E m \in 0..len : (m < len => bytes[m + 1] = Nul) /\ \A i \in 1..m : bytes[i] # Nul
  BY <1>2, <1>3
<1> QED BY <1>4 DEF Strlen

(* What stays of a stripped string, with the bytes at its ends. *)
LEMMA Ends ==
    ASSUME bytes \in Seq(Byte), NEW cset
    PROVE  \/ Sp(cset) > Ep(cset) /\ Sp(cset) = len
           \/ /\ Sp(cset) <= Ep(cset) /\ Ep(cset) \in 0..(len - 1)
              /\ Stays(Sp(cset), cset) /\ Stays(Ep(cset), cset)
<1>1. len \in Nat
  BY DEF len
<1>2. CASE len = 0
  <2>1. Sp(cset) = 0 /\ Ep(cset) = -1
    BY <1>2, SpFound DEF Ep
  <2> QED BY <1>2, <2>1
<1>3. CASE len > 0
  <2>1. CASE Sp(cset) = len
    BY <1>1, <1>3, <2>1, EpFound
  <2>2. CASE Sp(cset) # len
    <3>1. Sp(cset) \in 0..(len - 1) /\ Stays(Sp(cset), cset)
      BY <1>1, <2>2, SpFound
    <3>2. Sp(cset) <= Ep(cset)
      BY <1>1, <1>3, <3>1, EpFound
    <3>3. Stays(Ep(cset), cset)
      BY <1>1, <1>3, <3>1, <3>2, EpFound
    <3> QED BY <1>1, <1>3, <3>1, <3>2, <3>3, EpFound
  <2> QED BY <2>1, <2>2
<1> QED BY <1>1, <1>2, <1>3

----------------------------------------------------------------------------
(* The header *)

(* Writing t keeps the header exact when free is what t leaves of size.    *)
LEMMA Written ==
    ASSUME NEW t \in Seq(Byte), Becomes(t), size' \in Nat, free' = size' - Len(t)
    PROVE  SInv'
<1>1. bytes' = t /\ spoilt' = (Len(t) > size') /\ Len(t) \in Nat
  BY DEF Becomes
<1>2. free' \in Int /\ Len(t) + free' = size' /\ (Len(t) > size' <=> free' < 0)
  BY <1>1
<1>3. (spoilt' <=> free' < 0) /\ spoilt' \in BOOLEAN
  <2>1. spoilt' = (Len(t) > size')
    BY <1>1
  <2>2. Len(t) > size' <=> free' < 0
    BY <1>2
  <2>3. spoilt' \in BOOLEAN
    <3>1. (Len(t) > size') = TRUE \/ (Len(t) > size') = FALSE
      BY <1>1
    <3> QED BY <2>1, <3>1
  <2> QED BY <2>1, <2>2, <2>3, Zenon
<1>4. TypeOK'
  BY <1>1, <1>2, <1>3, Zenon DEF TypeOK
<1>5. len' + free' = size'
  BY <1>1, <1>2 DEF len
<1>6. FreeIsExact'
  BY <1>3, <1>5, Zenon DEF FreeIsExact
<1> QED BY <1>4, <1>6 DEF SInv

(* The steps that need no more than the types. *)
LEMMA NewKeeps ==
    ASSUME NEW t \in Seq(Byte), sdsnewlen(t)
    PROVE  SInv'
<1>1. size' \in Nat /\ free' = size' - Len(t) /\ Becomes(t)
  BY DEF sdsnewlen
<1> QED BY <1>1, Written

LEMMA ShrinkKeeps ==
    ASSUME SInv, NEW t \in Seq(Byte), Shrink(t)
    PROVE  SInv'
<1>1. len \in Nat /\ size \in Nat /\ free \in Int /\ len + free = size
  BY DEF SInv, TypeOK, FreeIsExact, len
<1>2. size' = size /\ free' = free + (len - Len(t)) /\ Becomes(t)
  BY DEF Shrink
<1>3. size' \in Nat /\ free' = size' - Len(t)
  BY <1>1, <1>2
<1> QED BY <1>2, <1>3, Written

LEMMA CatKeeps ==
    ASSUME SInv, NEW t \in Seq(Byte), sdscatlen(t)
    PROVE  SInv'
<1>1. len \in Nat /\ size \in Nat /\ free \in Int /\ len + free = size
  BY DEF SInv, TypeOK, FreeIsExact, len
<1>2. bytes \in Seq(Byte) /\ bytes \o t \in Seq(Byte)
      /\ Len(bytes \o t) = len + Len(t) /\ Len(t) \in Nat
  BY DEF SInv, TypeOK, len
<1>3. /\ size' = SizeAfter(Len(t)) /\ Becomes(bytes \o t)
      /\ free' = FreeAfter(Len(t)) - Len(t)
  BY DEF sdscatlen
<1>4. size' \in Nat /\ free' = size' - (len + Len(t))
  BY <1>1, <1>2, <1>3 DEF SizeAfter, FreeAfter, NewLen
<1> QED BY <1>2, <1>3, <1>4, Written

LEMMA CpyKeeps ==
    ASSUME SInv, NEW t \in Seq(Byte), sdscpylen(t)
    PROVE  SInv'
<1>1. /\ len \in Nat /\ size \in Nat /\ free \in Int /\ len + free = size
      /\ Len(t) \in Nat
  BY DEF SInv, TypeOK, FreeIsExact, len
<1> DEFINE missing == Len(t) - (free + len)
<1>2. CASE missing > 0
  <2>1. /\ size' = SizeAfter(missing) /\ free' = FreeAfter(missing) + len - Len(t)
        /\ Becomes(t)
    BY <1>2 DEF sdscpylen
  <2>2. missing \in Nat
    BY <1>1, <1>2
  <2> HIDE DEF missing
  <2>3. size' \in Nat /\ free' = size' - Len(t)
    BY <1>1, <2>1, <2>2 DEF SizeAfter, FreeAfter, NewLen
  <2> QED BY <2>1, <2>3, Written
<1>3. CASE ~(missing > 0)
  <2>1. size' = size /\ free' = free + len - Len(t) /\ Becomes(t)
    BY <1>1, <1>3 DEF sdscpylen
  <2>2. size' \in Nat /\ free' = size' - Len(t)
    BY <1>1, <2>1
  <2> QED BY <2>1, <2>2, Written
<1> QED BY <1>2, <1>3

(* What a cut string keeps. *)
Kept(m, n) == SubSeq(bytes, m, n)

LEMMA TrimIs ==
    ASSUME bytes \in Seq(Byte), NEW cset, sdstrim(cset)
    PROVE  Shrink(IF Sp(cset) > Ep(cset) THEN Kept(len + 1, len)
                  ELSE Kept(Sp(cset) + 1, Ep(cset) + 1))
<1>1. len \in Nat
  BY DEF len
<1>2. CASE Sp(cset) > Ep(cset)
  <2>1. Sp(cset) = len
    BY <1>1, <1>2, Ends, SpFound
  <2>2. len + 0 = len
    BY <1>1
  <2>3. Shrink(Bytes(len, 0))
    BY <1>2, <2>1 DEF sdstrim
  <2> QED BY <1>2, <2>2, <2>3 DEF Bytes, Kept
<1>3. CASE ~(Sp(cset) > Ep(cset))
  <2>1. Sp(cset) \in Int /\ Ep(cset) \in Int
    BY <1>1, <1>3, Ends, SpFound
  <2>2. Sp(cset) + (Ep(cset) - Sp(cset) + 1) = Ep(cset) + 1
    BY <2>1
  <2>3. Shrink(Bytes(Sp(cset), Ep(cset) - Sp(cset) + 1))
    BY <1>3 DEF sdstrim
  <2> QED BY <1>3, <2>2, <2>3 DEF Bytes, Kept
<1> QED BY <1>2, <1>3

LEMMA RangeIs ==
    ASSUME bytes \in Seq(Byte), NEW start \in Int, NEW end \in Int, sdsrange(start, end)
    PROVE  /\ FromEnd(start) \in Nat /\ FromEnd(end) \in Nat /\ len \in Nat \ {0}
           /\ Shrink(IF FromEnd(start) > FromEnd(end) THEN <<>>
                     ELSE Kept(Last0(FromEnd(start)) + 1, Last0(FromEnd(end)) + 1))
<1>1. len \in Nat \ {0} /\ FromEnd(start) \in Nat /\ FromEnd(end) \in Nat
  BY DEF len, FromEnd, sdsrange
<1> DEFINE s == FromEnd(start)
           e == FromEnd(end)
<1>2. Shrink(IF s > e THEN <<>> ELSE Bytes(Last0(s), Last0(e) - Last0(s) + 1))
  BY DEF sdsrange
<1>3. Last0(s) + (Last0(e) - Last0(s) + 1) = Last0(e) + 1
  BY <1>1 DEF Last0
<1> QED BY <1>1, <1>2, <1>3 DEF Bytes, Kept

LEMMA KeptType ==
    ASSUME bytes \in Seq(Byte), NEW m \in Int, NEW n \in Int, 1 <= m, n <= len
    PROVE  Kept(m, n) \in Seq(Byte)
BY PartType DEF Kept, len

LEMMA TrimKeeps ==
    ASSUME SInv, NEW cset, sdstrim(cset)
    PROVE  SInv'
<1>1. bytes \in Seq(Byte) /\ len \in Nat
  BY DEF SInv, TypeOK, len
<1>2. CASE Sp(cset) > Ep(cset)
  <2>1. Kept(len + 1, len) \in Seq(Byte)
    BY <1>1, KeptType
  <2>2. Shrink(Kept(len + 1, len))
    BY <1>1, <1>2, TrimIs
  <2> QED BY <2>1, <2>2, ShrinkKeeps
<1>3. CASE ~(Sp(cset) > Ep(cset))
  <2>1. Sp(cset) \in 0..len /\ Ep(cset) \in 0..(len - 1)
    BY <1>1, <1>3, SpFound, Ends
  <2>2. Kept(Sp(cset) + 1, Ep(cset) + 1) \in Seq(Byte)
    BY <1>1, <2>1, KeptType
  <2>3. Shrink(Kept(Sp(cset) + 1, Ep(cset) + 1))
    BY <1>1, <1>3, TrimIs
  <2> QED BY <2>2, <2>3, ShrinkKeeps
<1> QED BY <1>2, <1>3

LEMMA RangeKeeps ==
    ASSUME SInv, NEW start \in Int, NEW end \in Int, sdsrange(start, end)
    PROVE  SInv'
<1> DEFINE s == FromEnd(start)
           e == FromEnd(end)
<1>1. bytes \in Seq(Byte)
  BY DEF SInv, TypeOK
<1>2. s \in Nat /\ e \in Nat /\ len \in Nat \ {0}
  BY <1>1, RangeIs
<1>3. CASE s > e
  <2>1. Shrink(<<>>) /\ <<>> \in Seq(Byte)
    BY <1>1, <1>3, RangeIs
  <2> QED BY <2>1, ShrinkKeeps
<1>4. CASE ~(s > e)
  <2>1. Shrink(Kept(Last0(s) + 1, Last0(e) + 1))
    BY <1>1, <1>4, RangeIs
  <2>2. Last0(s) \in 0..(len - 1) /\ Last0(e) \in 0..(len - 1)
    BY <1>2 DEF Last0
  <2>3. Kept(Last0(s) + 1, Last0(e) + 1) \in Seq(Byte)
    BY <1>1, <1>2, <2>2, KeptType
  <2> QED BY <2>1, <2>3, ShrinkKeeps
<1> QED BY <1>3, <1>4

LEMMA UpdateKeeps ==
    ASSUME SInv, sdsupdatelen
    PROVE  SInv'
<1>1. bytes \in Seq(Byte) /\ len \in Nat
  BY DEF SInv, TypeOK, len
<1>2. Strlen \in 0..len /\ 0 + 1 = 1 /\ 0 + Strlen = Strlen
  BY <1>1, StrlenFound
<1>3. Bytes(0, Strlen) \in Seq(Byte)
  BY <1>1, <1>2, KeptType DEF Bytes, Kept
<1> QED BY <1>3, ShrinkKeeps DEF sdsupdatelen

LEMMA NextSInv == SInv /\ [Next]_vars => SInv'
<1> SUFFICES ASSUME SInv, [Next]_vars PROVE SInv'
  OBVIOUS
<1>1. CASE UNCHANGED vars
  BY <1>1 DEF vars, header, SInv, TypeOK, FreeIsExact, len
<1>2. CASE sdsdup
  BY <1>2, NewKeeps DEF sdsdup, SInv, TypeOK
<1>3. CASE sdsupdatelen
  BY <1>3, UpdateKeeps
<1>4. ASSUME NEW t \in Arg, Write(t) PROVE SInv'
  <2>1. t \in Seq(Byte) /\ UpToNul(t) \in Seq(Byte)
    BY ArgType, UpToNulType
  <2> QED BY <1>4, <2>1, NewKeeps, CpyKeeps, CatKeeps
          DEF Write, sdsnew, sdscpy, sdscat, sdscatprintf
<1>5. ASSUME NEW cset, sdstrim(cset) PROVE SInv'
  BY <1>5, TrimKeeps
<1>6. ASSUME NEW start \in Int, NEW end \in Int, sdsrange(start, end) PROVE SInv'
  BY <1>6, RangeKeeps
<1>7. \A k \in -(MaxLen + 1)..(MaxLen + 1) : k \in Int
  BY SdsAssumption
<1> QED BY <1>1, <1>2, <1>3, <1>4, <1>5, <1>6, <1>7 DEF Next

LEMMA InitSInv == Init => SInv
<1> SUFFICES ASSUME Init PROVE SInv
  OBVIOUS
<1>1. bytes \in Seq(Byte)
  BY ArgType DEF Init
<1>2. /\ len \in Nat /\ size = len /\ free = 0 /\ spoilt = FALSE
  BY <1>1 DEF Init, len
<1>3. len + free = size /\ ~(free < 0) /\ free \in Int /\ size \in Nat
  BY <1>2
<1> QED BY <1>1, <1>2, <1>3, Zenon DEF SInv, TypeOK, FreeIsExact

(* Types and header hold together: each operation needs both. *)
THEOREM SdsInvariance == Spec => []SInv
BY InitSInv, NextSInv, PTL DEF Spec

(* Through growing, stripping, cutting and replacing in any order, len and *)
(* free of the header add up to the allocation, and something was written  *)
(* past it exactly when free is negative, for all arguments and lengths.   *)
THEOREM HeaderExact == Spec => []FreeIsExact
<1>1. SInv => FreeIsExact
  BY DEF SInv
<1> QED BY <1>1, SdsInvariance, PTL

----------------------------------------------------------------------------
(* The text *)

LEMMA TrimText ==
    ASSUME bytes \in Seq(Byte), NEW cset, sdstrim(cset)
    PROVE  T!Stripped(cset)
<1> DEFINE gone == cset \union {Nul}
           sp == Sp(cset)
           ep == Ep(cset)
           i == sp + 1
           j == IF sp > ep THEN len ELSE ep + 1
<1>1. len \in Nat /\ len = Len(bytes)
  BY DEF len
<1>2. sp \in 0..len
  BY <1>1, SpFound
<1>3. \/ sp > ep /\ sp = len
      \/ /\ sp <= ep /\ ep \in 0..(len - 1)
         /\ bytes[sp + 1] \notin gone /\ bytes[ep + 1] \notin gone
  BY <1>1, Ends DEF Stays
<1>4. i \in 1..(len + 1) /\ j \in 0..len /\ j >= i - 1
  BY <1>1, <1>2, <1>3
<1>5. j >= i => bytes[i] \notin gone /\ bytes[j] \notin gone
  BY <1>1, <1>2, <1>3
<1>6. ASSUME NEW m \in 1..(i - 1) PROVE bytes[m] \in gone
  <2>1. m - 1 \in 0..(sp - 1) /\ (m - 1) + 1 = m
    BY <1>2
  <2>2. ~Stays(m - 1, cset)
    BY <2>1, SpFound
  <2> QED BY <2>1, <2>2 DEF Stays
<1>7. ASSUME NEW m \in (j + 1)..len PROVE bytes[m] \in gone
  <2>1. ~(sp > ep) /\ len > 0 /\ ep \in 0..(len - 1)
    BY <1>1, <1>3, <1>7
  <2>2. m - 1 \in (ep + 1)..(len - 1) /\ (m - 1) + 1 = m
    BY <1>1, <2>1
  <2>3. ~Stays(m - 1, cset)
    BY <2>1, <2>2, EpFound
  <2> QED BY <2>2, <2>3 DEF Stays
<1>8. bytes' = SubSeq(bytes, i, j)
  <2>1. Shrink(IF sp > ep THEN Kept(len + 1, len) ELSE Kept(sp + 1, ep + 1))
    BY TrimIs
  <2>2. CASE sp > ep
    <3>1. sp = len
      BY <1>1, <1>2, <1>3, <2>2
    <3> QED BY <2>1, <2>2, <3>1 DEF Shrink, Becomes, Kept
  <2>3. CASE ~(sp > ep)
    BY <2>1, <2>3 DEF Shrink, Becomes, Kept
  <2> QED BY <2>2, <2>3
<1> HIDE DEF sp, ep, i, j
<1>9. T!All(SubSeq(bytes, 1, i - 1) \o SubSeq(bytes, j + 1, len), gone)
  <2> DEFINE a == SubSeq(bytes, 1, i - 1)
             b == SubSeq(bytes, j + 1, len)
  <2>1. a \in Seq(Byte) /\ Len(a) = i - 1 /\ \A m \in 1..(i - 1) : a[m] = bytes[m]
    BY <1>1, <1>4
  <2>2. b \in Seq(Byte) /\ Len(b) = len - j /\ \A m \in 1..(len - j) : b[m] = bytes[j + m]
    BY <1>1, <1>4
  <2>3. \A m \in 1..(len - j) : b[m] \in gone
    BY <1>1, <1>4, <1>7, <2>2
  <2>4. \A m \in 1..(i - 1) : a[m] \in gone
    BY <1>6, <2>1
  <2> HIDE DEF a, b, gone
  <2>5. \A m \in DOMAIN (a \o b) : (a \o b)[m] \in gone
    BY <1>1, <1>4, <2>1, <2>2, <2>3, <2>4
  <2> QED BY <2>5 DEF T!All, a, b
<1> QED BY <1>1, <1>4, <1>5, <1>8, <1>9 DEF T!Stripped, T!Part

LEMMA RangeText ==
    ASSUME bytes \in Seq(Byte), NEW start \in Int, NEW end \in Int, sdsrange(start, end)
    PROVE  T!Cut(start, end)
<1> DEFINE s == FromEnd(start)
           e == FromEnd(end)
<1>1. s \in Nat /\ e \in Nat /\ len \in Nat \ {0} /\ len = Len(bytes)
  BY RangeIs DEF len
<1>2. s = T!Index(start, len) /\ e = T!Index(end, len)
  BY DEF FromEnd, T!Index
<1>3. Last0(s) = T!Inside(s, len) /\ Last0(e) = T!Inside(e, len)
  BY <1>1 DEF Last0, T!Inside
<1>4. bytes' = IF s > e THEN <<>> ELSE SubSeq(bytes, Last0(s) + 1, Last0(e) + 1)
  BY RangeIs DEF Shrink, Becomes, Kept
<1> QED BY <1>1, <1>2, <1>3, <1>4 DEF T!Cut, T!Part

LEMMA UpdateText ==
    ASSUME bytes \in Seq(Byte), sdsupdatelen
    PROVE  T!Ended
<1>1. len \in Nat /\ len = Len(bytes)
  BY DEF len
<1>2. /\ Strlen \in 0..len
      /\ Strlen < len => bytes[Strlen + 1] = Nul
      /\ \A i \in 1..Strlen : bytes[i] # Nul
  BY StrlenFound
<1>3. bytes' = SubSeq(bytes, 1, Strlen)
  <2>1. 0 + 1 = 1 /\ 0 + Strlen = Strlen
    BY <1>2
  <2> QED BY <2>1 DEF sdsupdatelen, Shrink, Becomes, Bytes
<1>4. T!All(SubSeq(bytes, 1, Strlen), Byte \ {Nul})
  BY <1>1, <1>2 DEF T!All
<1> QED BY <1>1, <1>2, <1>3, <1>4 DEF T!Ended, T!Part

(* Every call, whatever it does to the allocation, leaves the text that    *)
(* Text says: the string given, the text with it appended, stripped of all *)
(* of cset at its ends and nothing else, cut at the indexes, or up to its  *)
(* first NUL.                                                              *)
THEOREM TextImplemented == Spec => ImplementsText
<1>1. Init => T!Init
  BY DEF Init, T!Init
<1>2. ASSUME SInv, [Next]_vars PROVE [T!Next]_<<bytes, call>>
  <2>0. bytes \in Seq(Byte)
    BY <1>2 DEF SInv, TypeOK
  <2>1. CASE UNCHANGED vars
    BY <2>1 DEF vars
  <2>2. CASE Calls("set", bytes) /\ sdsdup
    BY <2>2 DEF Calls, sdsdup, sdsnewlen, Becomes, T!Next, T!Assigned
  <2>3. CASE call' = <<"updatelen">> /\ sdsupdatelen
    BY <2>0, <2>3, UpdateText DEF T!Next
  <2>4. ASSUME NEW t \in Arg, Write(t) PROVE T!Next
    <3>1. CASE Calls("set", t) /\ (sdsnewlen(t) \/ sdscpylen(t))
      BY <3>1 DEF Calls, sdsnewlen, sdscpylen, Becomes, T!Next, T!Assigned
    <3>2. CASE Calls("set", UpToNul(t)) /\ (sdsnew(t) \/ sdscpy(t))
      BY <3>2 DEF Calls, sdsnew, sdscpy, sdsnewlen, sdscpylen, Becomes, T!Next, T!Assigned
    <3>3. CASE Calls("cat", t) /\ sdscatlen(t)
      BY <3>3 DEF Calls, sdscatlen, Becomes, T!Next, T!Extended
    <3>4. CASE Calls("cat", UpToNul(t)) /\ (sdscat(t) \/ sdscatprintf(t))
      BY <3>4 DEF Calls, sdscat, sdscatprintf, sdscatlen, Becomes, T!Next, T!Extended
    <3> QED BY <2>4, <3>1, <3>2, <3>3, <3>4 DEF Write
  <2>5. ASSUME NEW cset, Calls("trim", cset), sdstrim(cset) PROVE T!Next
    BY <2>0, <2>5, TrimText DEF Calls, T!Next
  <2>6. ASSUME NEW start \in Int, NEW end \in Int,
               call' = <<"range", start, end>>, sdsrange(start, end)
        PROVE  T!Next
    BY <2>0, <2>6, RangeText DEF T!Next
  <2>7. \A k \in -(MaxLen + 1)..(MaxLen + 1) : k \in Int
    BY SdsAssumption
  <2> QED BY <1>2, <2>1, <2>2, <2>3, <2>4, <2>5, <2>6, <2>7 DEF Next
<1>3. SInv /\ [Next]_vars => [T!Next]_<<bytes, call>>
  BY <1>2
<1> QED BY <1>1, <1>3, SdsInvariance, PTL DEF Spec, ImplementsText, T!Spec

----------------------------------------------------------------------------
(* Brackets *)

Pattern == Seq(Nat)

LEMMA AtType ==
    ASSUME NEW p \in Pattern, NEW i \in Nat
    PROVE  /\ At(p, i) \in Int
           /\ i < Len(p) => At(p, i) = p[i + 1] /\ p[i + 1] \in Nat
           /\ i = Len(p) => At(p, i) = 0
           /\ i > Len(p) => At(p, i) = Outside
BY DEF At, Outside, Pattern

LEMMA ClassIs ==
    ASSUME NEW p \in Pattern, NEW c
    PROVE  \A i \in 0..(Len(p) + 1) :
               /\ Class(p, c)[i] = ClassStep(p, c, Class(p, c), i)
               /\ Class(p, c)[i].i \in Int
               /\ Class(p, c)[i].match \in BOOLEAN
<1> DEFINE n == Len(p) + 1
           X == [i : Int, match : BOOLEAN]
           op == [w \in (0..n) \X [0..n -> X] |-> ClassStep(p, c, w[2], w[1])]
<1>1. n \in Nat
  BY DEF Pattern
<1>2. ASSUME NEW i \in 0..n, NEW g \in [0..n -> X]
      PROVE  /\ ClassStep(p, c, g, i) \in X
             /\ \A h :
                    (\A k \in 0..n : k > i => g[k] = h[k])
                        => ClassStep(p, c, g, i) = ClassStep(p, c, h, i)
  <2>1. CASE At(p, i) = Escape
    <3>1. i + 2 \in 0..n
      BY <2>1, AtType, SMTT(30) DEF Escape, Outside
    <3>2. g[i + 2].i \in Int
      BY <3>1
    <3> QED BY <2>1, <3>1, <3>2 DEF ClassStep
  <2>2. CASE At(p, i) # Escape /\ At(p, i) \in {Close, Outside}
    BY <2>2 DEF ClassStep
  <2>3. CASE At(p, i) # Escape /\ At(p, i) \notin {Close, Outside} /\ i = Len(p)
    BY <2>3 DEF ClassStep
  <2>4. CASE At(p, i) # Escape /\ At(p, i) \notin {Close, Outside} /\ i # Len(p)
    <3>1. i < Len(p) /\ i + 1 \in 0..n
      BY <2>4, AtType, <1>1
    <3>2. CASE At(p, i + 1) = Dash /\ Len(p) - i >= 3
      <4>1. i + 3 \in 0..n
        BY <3>2, <1>1
      <4>2. g[i + 3].i \in Int
        BY <4>1
      <4>3. g[i + 3].match \/ InRange(c, p, i) \in BOOLEAN
        BY <4>1 DEF InRange
      <4> QED BY <2>4, <3>2, <4>1, <4>2, <4>3 DEF ClassStep
    <3>3. CASE ~(At(p, i + 1) = Dash /\ Len(p) - i >= 3)
      <4>1. g[i + 1].i \in Int /\ g[i + 1].match \in BOOLEAN
        BY <3>1
      <4>2. i + 1 > i /\ i \in Int
        OBVIOUS
      <4>3. ASSUME NEW h PROVE
               ClassStep(p, c, h, i) = [i |-> h[i + 1].i, match |-> h[i + 1].match \/ At(p, i) = c]
        BY <2>4, <3>3 DEF ClassStep
      <4>4. ClassStep(p, c, g, i) \in X
        <5>1. (g[i + 1].match \/ At(p, i) = c) \in BOOLEAN
          OBVIOUS
        <5> QED BY <2>4, <3>3, <4>1, <5>1 DEF ClassStep
      <4>5. ASSUME NEW h, \A k \in 0..n : k > i => g[k] = h[k]
            PROVE  ClassStep(p, c, g, i) = ClassStep(p, c, h, i)
        <5>1. g[i + 1] = h[i + 1]
          BY <3>1, <4>2, <4>5
        <5> QED BY <4>3, <5>1
      <4> HIDE DEF X
      <4> QED BY <4>4, <4>5
    <3> QED BY <3>2, <3>3
  <2> QED BY <2>1, <2>2, <2>3, <2>4
<1> HIDE DEF n
<1>3. op \in [(0..n) \X [0..n -> X] -> X]
  BY <1>2
<1>4. FromLater(n, X, op)
  <2>1. \A i \in 0..n, g \in [0..n -> X] : op[<<i, g>>] = ClassStep(p, c, g, i)
    OBVIOUS
  <2> HIDE DEF op, X
  <2>2. ASSUME NEW i \in 0..n, NEW g \in [0..n -> X], NEW h \in [0..n -> X],
               \A k \in 0..n : k > i => g[k] = h[k]
        PROVE  op[<<i, g>>] = op[<<i, h>>]
    <3>1. ClassStep(p, c, g, i) = ClassStep(p, c, h, i)
      BY <1>2, <2>2
    <3> QED BY <2>1, <3>1
  <2> QED BY <1>1, <1>3, <2>2 DEF FromLater
<1>5. [i |-> 0, match |-> FALSE] \in X
  OBVIOUS
<1> HIDE DEF X, op
<1>6. Definable(n, X, op)
  BY <1>4, <1>5, DownRecursion, Zenon
<1>7. \E f : f \in [0..n -> X] /\ f = [i \in 0..n |-> ClassStep(p, c, f, i)]
  BY <1>6 DEF op, Definable
<1>8. PICK f \in [0..n -> X] : f = [i \in 0..n |-> ClassStep(p, c, f, i)]
  BY <1>7
<1> DEFINE g == Class(p, c)
<1>9. g = [i \in 0..n |-> ClassStep(p, c, g, i)]
  BY <1>8 DEF Class, n
<1> HIDE DEF g
<1>10. \A i \in 0..n : i \in {k \in 0..n : f[k] = g[k]}
  <2> DEFINE P == {k \in 0..n : f[k] = g[k]}
  <2>1. ASSUME NEW i \in 0..n, \A k \in 0..n : k > i => k \in P PROVE i \in P
    <3>1. ClassStep(p, c, f, i) = ClassStep(p, c, g, i)
      BY <1>2, <2>1
    <3> QED BY <1>8, <1>9, <3>1
  <2> HIDE DEF P
  <2> QED BY <1>1, <2>1, DownInduction DEF P
<1> QED BY <1>9, <1>10 DEF g, X, n

(* Brackets end from the byte before the loop begins to behind the pattern, *)
(* wherever that is for any byte.                                           *)
LEMMA ClassEnds ==
    ASSUME NEW p \in Pattern, NEW c
    PROVE  \A i \in 0..(Len(p) + 1) :
               /\ Class(p, c)[i].i \in (i - 1)..(Len(p) + 1) /\ Class(p, c)[i].i # Len(p)
               /\ Class(p, c)[i].i = Class(p, 0)[i].i
<1> DEFINE n == Len(p) + 1
           P == {i \in 0..n : /\ Class(p, c)[i].i \in (i - 1)..n /\ Class(p, c)[i].i # Len(p)
                          /\ Class(p, c)[i].i = Class(p, 0)[i].i}
<1>1. n \in Nat
  BY DEF Pattern
<1>2. ASSUME NEW i \in 0..n, \A k \in 0..n : k > i => k \in P PROVE i \in P
  <2> DEFINE f == Class(p, c)
             g == Class(p, 0)
  <2>1. f[i] = ClassStep(p, c, f, i) /\ g[i] = ClassStep(p, 0, g, i)
    BY ClassIs
  <2>2. \A k \in 0..n : k > i => f[k].i \in (k - 1)..n /\ f[k].i # Len(p) /\ f[k].i = g[k].i
    BY <1>2
  <2> HIDE DEF f, g
  <2>3. f[i].i \in (i - 1)..n /\ f[i].i # Len(p) /\ f[i].i = g[i].i
    <3>1. CASE At(p, i) = Escape
      <4>1. i + 2 \in 0..n
        BY <3>1, AtType DEF Escape, Outside
      <4>2. f[i].i = f[i + 2].i /\ g[i].i = g[i + 2].i
        BY <2>1, <3>1 DEF ClassStep
      <4> QED BY <2>2, <4>1, <4>2
    <3>2. CASE At(p, i) # Escape /\ At(p, i) \in {Close, Outside}
      <4>1. f[i].i = i /\ g[i].i = i
        BY <2>1, <3>2 DEF ClassStep
      <4>2. i # Len(p)
        BY <3>2, AtType DEF Close, Outside
      <4> QED BY <1>1, <4>1, <4>2
    <3>3. CASE At(p, i) # Escape /\ At(p, i) \notin {Close, Outside} /\ i = Len(p)
      <4>1. f[i].i = i - 1 /\ g[i].i = i - 1
        BY <2>1, <3>3 DEF ClassStep
      <4>2. Len(p) \in Nat
        BY DEF Pattern
      <4> QED BY <1>1, <3>3, <4>1, <4>2
    <3>4. CASE At(p, i) # Escape /\ At(p, i) \notin {Close, Outside} /\ i # Len(p)
      <4>1. i < Len(p) /\ i + 1 \in 0..n
        BY <3>4, AtType, <1>1
      <4>2. CASE At(p, i + 1) = Dash /\ Len(p) - i >= 3
        <5>1. f[i].i = f[i + 3].i /\ g[i].i = g[i + 3].i /\ i + 3 \in 0..n
          BY <2>1, <3>4, <4>2, <1>1 DEF ClassStep
        <5> QED BY <2>2, <5>1
      <4>3. CASE ~(At(p, i + 1) = Dash /\ Len(p) - i >= 3)
        <5>1. f[i].i = f[i + 1].i /\ g[i].i = g[i + 1].i
          BY <2>1, <3>4, <4>3 DEF ClassStep
        <5> QED BY <2>2, <4>1, <5>1
      <4> QED BY <4>2, <4>3
    <3> QED BY <3>1, <3>2, <3>3, <3>4
  <2> QED BY <2>3 DEF f, g
<1> HIDE DEF P
<1>3. \A i \in 0..n : i \in P
  BY <1>1, <1>2, DownInduction
<1> QED BY <1>3 DEF P

LEMMA ListedIs ==
    ASSUME NEW p \in Pattern, NEW all \in SUBSET Nat
    PROVE  \A i \in 0..(Len(p) + 1) :
               /\ Listed(p, all)[i] = ListStep(p, all, Listed(p, all), i)
               /\ Listed(p, all)[i].set \in SUBSET Nat
               /\ Listed(p, all)[i].next \in Nat
<1> DEFINE n == Len(p) + 1
           X == [set : SUBSET Nat, next : Nat]
           op == [w \in (0..n) \X [0..n -> X] |-> ListStep(p, all, w[2], w[1])]
<1>1. n \in Nat
  BY DEF Pattern
<1>2. ASSUME NEW i \in 0..n, NEW g \in [0..n -> X]
      PROVE  /\ ListStep(p, all, g, i) \in X
             /\ \A h :
                    (\A k \in 0..n : k > i => g[k] = h[k])
                        => ListStep(p, all, g, i) = ListStep(p, all, h, i)
  <2>1. CASE i >= Len(p)
    BY <2>1 DEF ListStep
  <2>2. CASE i < Len(p) /\ p[i + 1] = Close
    BY <2>2 DEF ListStep, Close, Escape
  <2>3. CASE i < Len(p) /\ p[i + 1] # Close /\ p[i + 1] = Escape
    <3>1. i + 2 \in 0..n /\ i + 2 > i
      BY <2>3
    <3>2. At(p, i + 1) \in Nat
      <4>1. i + 1 \in Nat /\ i + 1 <= Len(p)
        BY <2>3
      <4> QED BY <4>1, AtType, SMTT(60)
    <3>3. \A h : ListStep(p, all, h, i)
                    = [set |-> {At(p, i + 1)} \union h[i + 2].set, next |-> h[i + 2].next]
      BY <2>3 DEF ListStep
    <3>4. g[i + 2].set \in SUBSET Nat /\ g[i + 2].next \in Nat
      BY <3>1
    <3>5. ASSUME NEW h, \A k \in 0..n : k > i => g[k] = h[k]
          PROVE  ListStep(p, all, g, i) = ListStep(p, all, h, i)
      <4>1. g[i + 2] = h[i + 2]
        BY <3>1, <3>5
      <4> QED BY <3>3, <4>1
    <3>6. ListStep(p, all, g, i) \in X
      <4>1. ({At(p, i + 1)} \union g[i + 2].set) \in SUBSET Nat
        BY <3>2, <3>4
      <4> QED BY <3>3, <3>4, <4>1
    <3> HIDE DEF X
    <3> QED BY <3>5, <3>6
  <2>4. CASE i < Len(p) /\ p[i + 1] # Close /\ p[i + 1] # Escape
    <3>1. CASE Len(p) - i >= 3 /\ p[i + 2] = Dash
      <4>1. i + 3 \in 0..n /\ i + 3 > i
        BY <3>1
      <4> DEFINE range == {b \in all : InRange(b, p, i)}
      <4>2. range \in SUBSET Nat
        OBVIOUS
      <4>3. \A h : ListStep(p, all, h, i)
                      = [set |-> range \union h[i + 3].set, next |-> h[i + 3].next]
        BY <2>4, <3>1 DEF ListStep
      <4> HIDE DEF range
      <4>4. g[i + 3].set \in SUBSET Nat /\ g[i + 3].next \in Nat
        BY <4>1
      <4>5. ASSUME NEW h, \A k \in 0..n : k > i => g[k] = h[k]
            PROVE  ListStep(p, all, g, i) = ListStep(p, all, h, i)
        <5>1. g[i + 3] = h[i + 3]
          BY <4>1, <4>5
        <5> QED BY <4>3, <5>1
      <4>6. ListStep(p, all, g, i) \in X
        <5>1. (range \union g[i + 3].set) \in SUBSET Nat
          BY <4>2, <4>4
        <5> QED BY <4>3, <4>4, <5>1
      <4> HIDE DEF X
      <4> QED BY <4>5, <4>6
    <3>2. CASE ~(Len(p) - i >= 3 /\ p[i + 2] = Dash)
      <4>1. i + 1 \in 0..n /\ i + 1 > i
        BY <2>4
      <4>2. p[i + 1] \in Nat
        BY <2>4, AtType
      <4>3. \A h : ListStep(p, all, h, i)
                      = [set |-> {p[i + 1]} \union h[i + 1].set, next |-> h[i + 1].next]
        BY <2>4, <3>2 DEF ListStep
      <4>4. g[i + 1].set \in SUBSET Nat /\ g[i + 1].next \in Nat
        BY <4>1
      <4>5. ASSUME NEW h, \A k \in 0..n : k > i => g[k] = h[k]
            PROVE  ListStep(p, all, g, i) = ListStep(p, all, h, i)
        <5>1. g[i + 1] = h[i + 1]
          BY <4>1, <4>5
        <5> QED BY <4>3, <5>1
      <4>6. ListStep(p, all, g, i) \in X
        <5>1. ({p[i + 1]} \union g[i + 1].set) \in SUBSET Nat
          BY <4>2, <4>4
        <5> QED BY <4>3, <4>4, <5>1
      <4> HIDE DEF X
      <4> QED BY <4>5, <4>6
    <3> QED BY <3>1, <3>2
  <2> QED BY <2>1, <2>2, <2>3, <2>4
<1> HIDE DEF n
<1>3. op \in [(0..n) \X [0..n -> X] -> X]
  BY <1>2
<1>4. FromLater(n, X, op)
  <2>1. \A i \in 0..n, g \in [0..n -> X] : op[<<i, g>>] = ListStep(p, all, g, i)
    OBVIOUS
  <2> HIDE DEF op, X
  <2>2. ASSUME NEW i \in 0..n, NEW g \in [0..n -> X], NEW h \in [0..n -> X],
               \A k \in 0..n : k > i => g[k] = h[k]
        PROVE  op[<<i, g>>] = op[<<i, h>>]
    <3>1. ListStep(p, all, g, i) = ListStep(p, all, h, i)
      BY <1>2, <2>2
    <3> QED BY <2>1, <3>1
  <2> QED BY <1>1, <1>3, <2>2 DEF FromLater
<1>5. [set |-> {}, next |-> 0] \in X
  OBVIOUS
<1> HIDE DEF X, op
<1>6. Definable(n, X, op)
  BY <1>4, <1>5, DownRecursion, Zenon
<1>7. \E f : f \in [0..n -> X] /\ f = [i \in 0..n |-> ListStep(p, all, f, i)]
  BY <1>6 DEF op, Definable
<1>8. PICK f \in [0..n -> X] : f = [i \in 0..n |-> ListStep(p, all, f, i)]
  BY <1>7
<1> DEFINE g == Listed(p, all)
<1>9. g = [i \in 0..n |-> ListStep(p, all, g, i)]
  BY <1>8 DEF Listed, n
<1> HIDE DEF g
<1>10. \A i \in 0..n : i \in {k \in 0..n : f[k] = g[k]}
  <2> DEFINE P == {k \in 0..n : f[k] = g[k]}
  <2>1. ASSUME NEW i \in 0..n, \A k \in 0..n : k > i => k \in P PROVE i \in P
    <3>1. ListStep(p, all, f, i) = ListStep(p, all, g, i)
      BY <1>2, <2>1
    <3> QED BY <1>8, <1>9, <3>1
  <2> HIDE DEF P
  <2> QED BY <1>1, <2>1, DownInduction DEF P
<1> QED BY <1>9, <1>10 DEF g, X, n

(* The list is what the loop compares a byte with, and ends where it does. *)
LEMMA ClassIsListed ==
    ASSUME NEW p \in Pattern, NEW all \in SUBSET Nat, NEW c \in all
    PROVE  \A i \in 0..(Len(p) + 1) : Class(p, c)[i].i <= Len(p) =>
               /\ Listed(p, all)[i].next = Class(p, c)[i].i + 1
               /\ Class(p, c)[i].match <=> c \in Listed(p, all)[i].set
<1> DEFINE n == Len(p) + 1
           Holds(i) == Class(p, c)[i].i <= Len(p) =>
               /\ Listed(p, all)[i].next = Class(p, c)[i].i + 1
               /\ Class(p, c)[i].match <=> c \in Listed(p, all)[i].set
           P == {i \in 0..n : Holds(i)}
<1>1. n \in Nat
  BY DEF Pattern
<1>2. ASSUME NEW i \in 0..n, \A k \in 0..n : k > i => k \in P PROVE i \in P
  <2> DEFINE f == Class(p, c)
             g == Listed(p, all)
  <2>1. f[i] = ClassStep(p, c, f, i) /\ g[i] = ListStep(p, all, g, i)
    BY ClassIs, ListedIs
  <2>2. \A k \in 0..n : k > i /\ f[k].i <= Len(p) =>
            g[k].next = f[k].i + 1 /\ (f[k].match <=> c \in g[k].set)
    BY <1>2
  <2>4. \A k \in 0..n : f[k].match \in BOOLEAN
    BY ClassIs
  <2> HIDE DEF f, g
  <2>3. f[i].i <= Len(p) => g[i].next = f[i].i + 1 /\ (f[i].match <=> c \in g[i].set)
    <3>1. CASE i >= Len(p)
      <4>1. i = Len(p) \/ i = Len(p) + 1
        BY <3>1
      <4>2. CASE i = Len(p)
        <5>1. At(p, i) = 0
          BY <4>2, AtType
        <5> QED BY <2>1, <3>1, <4>2, <5>1 DEF ClassStep, ListStep, Escape, Close, Outside
      <4>3. CASE i = Len(p) + 1
        <5>1. At(p, i) = Outside
          BY <4>3, AtType
        <5> QED BY <2>1, <4>3, <5>1 DEF ClassStep, Escape, Outside
      <4> QED BY <4>1, <4>2, <4>3
    <3>2. CASE i < Len(p)
      <4>1. At(p, i) = p[i + 1] /\ p[i + 1] \in Nat /\ i + 1 \in Nat
        BY <3>2, AtType
      <4>2. CASE p[i + 1] = Close
        <5>1. f[i] = [i |-> i, match |-> FALSE]
          BY <2>1, <4>1, <4>2 DEF ClassStep, Escape, Close
        <5>2. g[i] = [set |-> {}, next |-> i + 1]
          BY <2>1, <3>2, <4>2 DEF ListStep, Close, Escape
        <5> QED BY <5>1, <5>2
      <4>3. CASE p[i + 1] = Escape
        <5>1. f[i] = [i |-> f[i + 2].i, match |-> f[i + 2].match \/ At(p, i + 1) = c]
          BY <2>1, <4>1, <4>3 DEF ClassStep
        <5>2. g[i] = [set |-> {At(p, i + 1)} \union g[i + 2].set, next |-> g[i + 2].next]
          BY <2>1, <3>2, <4>3 DEF ListStep, Escape, Close
        <5>3. i + 2 \in 0..n /\ i + 2 > i
          BY <3>2
        <5>4. f[i + 2].i <= Len(p) =>
                  g[i + 2].next = f[i + 2].i + 1 /\ (f[i + 2].match <=> c \in g[i + 2].set)
          BY <2>2, <5>3
        <5>5. f[i].i = f[i + 2].i /\ (f[i].match <=> f[i + 2].match \/ At(p, i + 1) = c)
          BY <2>4, <5>1, <5>3
        <5> QED BY <5>2, <5>4, <5>5
      <4>4. CASE p[i + 1] # Close /\ p[i + 1] # Escape
        <5>1. At(p, i) # Escape /\ At(p, i) \notin {Close, Outside} /\ i # Len(p)
          BY <3>2, <4>1, <4>4 DEF Outside
        <5>2. CASE At(p, i + 1) = Dash /\ Len(p) - i >= 3
          <6>1. f[i] = [i |-> f[i + 3].i, match |-> f[i + 3].match \/ InRange(c, p, i)]
            BY <2>1, <5>1, <5>2 DEF ClassStep
          <6>2. p[i + 2] = Dash
            BY <4>1, <5>2, AtType, SMTT(60)
          <6>3. g[i] = [set |-> {b \in all : InRange(b, p, i)} \union g[i + 3].set,
                        next |-> g[i + 3].next]
            BY <2>1, <3>2, <4>4, <5>2, <6>2 DEF ListStep
          <6>4. i + 3 \in 0..n /\ i + 3 > i
            BY <3>2, <5>2
          <6>5. f[i + 3].i <= Len(p) =>
                    g[i + 3].next = f[i + 3].i + 1 /\ (f[i + 3].match <=> c \in g[i + 3].set)
            BY <2>2, <6>4
          <6>6. c \in g[i].set <=> c \in g[i + 3].set \/ InRange(c, p, i)
            BY <6>3
          <6>7. f[i].i = f[i + 3].i /\ (f[i].match <=> f[i + 3].match \/ InRange(c, p, i))
            BY <2>4, <6>1, <6>4
          <6>8. g[i].next = g[i + 3].next
            BY <6>3
          <6> QED BY <6>5, <6>6, <6>7, <6>8
        <5>3. CASE ~(At(p, i + 1) = Dash /\ Len(p) - i >= 3)
          <6>1. f[i] = [i |-> f[i + 1].i, match |-> f[i + 1].match \/ At(p, i) = c]
            BY <2>1, <5>1, <5>3 DEF ClassStep
          <6>2. ~(Len(p) - i >= 3 /\ p[i + 2] = Dash)
            <7>1. Len(p) - i >= 3 => At(p, i + 1) = p[i + 2]
              BY <4>1, AtType, SMTT(60)
            <7> QED BY <5>3, <7>1
          <6>3. g[i] = [set |-> {p[i + 1]} \union g[i + 1].set, next |-> g[i + 1].next]
            BY <2>1, <3>2, <4>4, <6>2 DEF ListStep
          <6>4. i + 1 \in 0..n /\ i + 1 > i
            BY <3>2
          <6>5. f[i + 1].i <= Len(p) =>
                    g[i + 1].next = f[i + 1].i + 1 /\ (f[i + 1].match <=> c \in g[i + 1].set)
            BY <2>2, <6>4
          <6>6. f[i].i = f[i + 1].i /\ (f[i].match <=> f[i + 1].match \/ At(p, i) = c)
            BY <2>4, <6>1, <6>4
          <6> QED BY <4>1, <6>3, <6>5, <6>6
        <5> QED BY <5>2, <5>3
      <4> QED BY <4>2, <4>3, <4>4
    <3> QED BY <3>1, <3>2
  <2> QED BY <2>3 DEF f, g
<1> HIDE DEF P
<1>3. \A i \in 0..n : i \in P
  BY <1>1, <1>2, DownInduction
<1> QED BY <1>3 DEF P

LEMMA ListedEnds ==
    ASSUME NEW p \in Pattern, NEW all \in SUBSET Nat
    PROVE  \A i \in 0..(Len(p) + 1) : Listed(p, all)[i].next \in i..(Len(p) + 1)
<1> DEFINE n == Len(p) + 1
           P == {i \in 0..n : Listed(p, all)[i].next \in i..n}
           g == Listed(p, all)
<1>1. n \in Nat
  BY DEF Pattern
<1>2. ASSUME NEW i \in 0..n, \A k \in 0..n : k > i => k \in P PROVE i \in P
  <2>1. g[i] = ListStep(p, all, g, i)
    BY ListedIs
  <2>2. \A k \in 0..n : k > i => g[k].next \in k..n
    BY <1>2
  <2> HIDE DEF g
  <2>3. g[i].next \in i..n
    <3>1. CASE i >= Len(p) \/ (i < Len(p) /\ p[i + 1] = Close)
      <4>1. g[i].next \in {i, i + 1} /\ g[i].next \in i..n
        BY <1>1, <2>1, <3>1 DEF ListStep, Close, Escape
      <4> QED BY <4>1
    <3>2. CASE i < Len(p) /\ p[i + 1] # Close /\ p[i + 1] = Escape
      <4>1. g[i].next = g[i + 2].next /\ i + 2 \in 0..n
        BY <1>1, <2>1, <3>2 DEF ListStep
      <4> QED BY <2>2, <4>1
    <3>3. CASE i < Len(p) /\ p[i + 1] # Close /\ p[i + 1] # Escape
      <4>1. PICK k \in {i + 1, i + 3} : g[i].next = g[k].next /\ k \in 0..n
        <5>1. CASE Len(p) - i >= 3 /\ p[i + 2] = Dash
          BY <1>1, <2>1, <3>3, <5>1 DEF ListStep
        <5>2. CASE ~(Len(p) - i >= 3 /\ p[i + 2] = Dash)
          BY <1>1, <2>1, <3>3, <5>2 DEF ListStep
        <5> QED BY <5>1, <5>2
      <4> QED BY <2>2, <4>1
    <3> QED BY <3>1, <3>2, <3>3
  <2> QED BY <2>3 DEF g
<1> HIDE DEF P
<1>3. \A i \in 0..n : i \in P
  BY <1>1, <1>2, DownInduction
<1> QED BY <1>3 DEF P

LEMMA ClassFromType ==
    ASSUME NEW p \in Pattern, NEW i \in Nat, i < Len(p)
    PROVE  ClassFrom(p, i) \in (i + 1)..Len(p)
<1>1. Negated(p, i) => i + 1 < Len(p)
  <2>1. i + 1 \in Nat /\ Len(p) \in Nat /\ ~(i + 1 > Len(p))
    BY DEF Pattern
  <2> QED BY <2>1, AtType DEF Negated, Caret
<1> QED BY <1>1 DEF ClassFrom, Pattern

----------------------------------------------------------------------------
(* Stars *)

LEMMA LeastIs ==
    ASSUME NEW S \in SUBSET Nat, S # {}
    PROVE  Least(S) \in S /\ \A j \in S : Least(S) <= j
BY NatMin DEF Least

LEMMA NoStarsIs ==
    ASSUME NEW p \in Pattern, NEW i \in 0..Len(p)
    PROVE  /\ i < Len(p) /\ p[i + 1] = Star => NoStars(p, i) = NoStars(p, i + 1)
           /\ i < Len(p) /\ p[i + 1] # Star => NoStars(p, i) # Len(p)
           /\ i = Len(p) => NoStars(p, i) = Len(p)
<1> DEFINE S(j) == {k \in j..Len(p) : At(p, k) # Star}
<1>1. Len(p) \in Nat /\ At(p, Len(p)) # Star
  BY AtType DEF Pattern, Star
<1>2. ASSUME NEW j \in 0..Len(p)
      PROVE  NoStars(p, j) \in S(j) /\ \A k \in S(j) : NoStars(p, j) <= k
  <2>1. S(j) \in SUBSET Nat /\ Len(p) \in S(j)
    BY <1>1
  <2>2. NoStars(p, j) = Least(S(j))
    BY DEF NoStars
  <2> HIDE DEF S
  <2> QED BY <2>1, <2>2, LeastIs
<1>3. CASE i < Len(p) /\ p[i + 1] = Star
  <2>1. At(p, i) = Star
    BY <1>3, AtType
  <2>2. i + 1 \in 0..Len(p) /\ S(i) = S(i + 1)
    BY <1>3, <2>1
  <2>3. NoStars(p, i) = NoStars(p, i + 1)
    BY <2>2 DEF NoStars
  <2> QED BY <1>3, <2>3
<1>4. CASE i < Len(p) /\ p[i + 1] # Star
  <2>1. i \in S(i)
    BY <1>4, AtType
  <2>2. NoStars(p, i) <= i /\ NoStars(p, i) \in Int
    BY <1>2, <2>1
  <2> QED BY <1>1, <1>4, <2>2
<1>5. CASE i = Len(p)
  BY <1>1, <1>2, <1>5
<1> QED BY <1>1, <1>3, <1>4, <1>5

LEMMA StarsIs ==
    ASSUME NEW p \in Pattern, NEW i \in Nat, i < Len(p)
    PROVE  /\ Stars(p, i) \in i..(Len(p) - 1)
           /\ i + 1 < Len(p) /\ p[i + 2] = Star => Stars(p, i) = Stars(p, i + 1)
           /\ i + 1 < Len(p) /\ p[i + 2] # Star => Stars(p, i) = i
           /\ i + 1 = Len(p) => Stars(p, i) = i
<1> DEFINE S(j) == {k \in j..Len(p) : At(p, k + 1) # Star}
           last == Len(p) - 1
<1>1. Len(p) \in Nat /\ last \in Nat /\ last + 1 = Len(p) /\ At(p, last + 1) # Star
  BY AtType DEF Pattern, Star
<1>2. Stars(p, i) \in S(i) /\ \A k \in S(i) : Stars(p, i) <= k
  <2>1. S(i) \in SUBSET Nat /\ last \in S(i)
    BY <1>1
  <2>2. Stars(p, i) = Least(S(i))
    BY DEF Stars
  <2> HIDE DEF S
  <2> QED BY <2>1, <2>2, LeastIs
<1>3. last \in S(i)
  BY <1>1
<1>4. Stars(p, i) \in i..last
  BY <1>1, <1>2, <1>3
<1>5. CASE i + 1 < Len(p) /\ p[i + 2] = Star
  <2>1. At(p, i + 1) = Star
    <3>1. i + 1 \in Nat /\ (i + 1) + 1 = i + 2
      OBVIOUS
    <3> QED BY <1>5, <3>1, AtType
  <2>2. S(i) = S(i + 1)
    BY <1>5, <2>1
  <2>3. Stars(p, i) = Stars(p, i + 1)
    BY <2>2 DEF Stars
  <2> QED BY <1>4, <1>5, <2>3
<1>6. CASE i + 1 = Len(p) \/ (i + 1 < Len(p) /\ p[i + 2] # Star)
  <2>1. At(p, i + 1) # Star
    <3>1. i + 1 \in Nat /\ (i + 1) + 1 = i + 2
      OBVIOUS
    <3> QED BY <1>1, <1>6, <3>1, AtType
  <2>2. i \in S(i)
    BY <2>1
  <2>3. Stars(p, i) = i
    BY <1>2, <1>4, <2>2
  <2> QED BY <1>4, <1>6, <2>3
<1>7. i + 1 < Len(p) \/ i + 1 = Len(p)
  <2>1. Len(p) \in Nat
    BY <1>1
  <2> QED BY <2>1
<1> QED BY <1>4, <1>5, <1>6, <1>7

----------------------------------------------------------------------------
(* The loop of stringmatchlen *)

(* What one pass does for each kind of byte. *)
LEMMA MatchCases ==
    ASSUME NEW p \in Pattern, NEW s, NEW g, NEW i \in Nat, i < Len(p), NEW j \in 0..(Len(s) - 1)
    PROVE  /\ p[i + 1] = Star =>
                 (j \in MatchStep(p, s, g, i) <=>
                    Stars(p, i) + 1 = Len(p) \/ \E l \in g[Stars(p, i) + 1] : j <= l)
           /\ p[i + 1] = Quest =>
                 (j \in MatchStep(p, s, g, i) <=> Matched(g, p, i + 1, s, j + 1))
           /\ p[i + 1] = Open =>
                 (j \in MatchStep(p, s, g, i) <=>
                    /\ Class(p, At(s, j))[ClassFrom(p, i)].match # Negated(p, i)
                    /\ Matched(g, p, Class(p, At(s, j))[ClassFrom(p, i)].i + 1, s, j + 1))
           /\ p[i + 1] \notin {Star, Quest, Open} =>
                 (j \in MatchStep(p, s, g, i) <=>
                    /\ At(p, Literal(p, i)) = At(s, j)
                    /\ Matched(g, p, Literal(p, i) + 1, s, j + 1))
<1>1. CASE p[i + 1] = Star
  BY <1>1 DEF MatchStep, Star, Quest, Open
<1>2. CASE p[i + 1] = Quest
  BY <1>2 DEF MatchStep, Star, Quest, Open
<1>3. CASE p[i + 1] = Open
  BY <1>3 DEF MatchStep, Star, Quest, Open
<1>4. CASE p[i + 1] \notin {Star, Quest, Open}
  BY <1>4 DEF MatchStep
<1> QED BY <1>1, <1>2, <1>3, <1>4

LEMMA LiteralType ==
    ASSUME NEW p \in Pattern, NEW i \in Nat, i < Len(p)
    PROVE  Literal(p, i) \in i..(Len(p) - 1)
BY DEF Literal, Pattern

LEMMA MatchIs ==
    ASSUME NEW p \in Pattern, NEW s \in Pattern
    PROVE  \E f : /\ stringmatchlen(p, s) = (0 \in f[0])
                  /\ \A i \in 0..(Len(p) + 2) : f[i] = MatchStep(p, s, f, i)
                                               /\ f[i] \in SUBSET (0..(Len(s) - 1))
<1> DEFINE n == Len(p) + 2
           X == SUBSET (0..(Len(s) - 1))
           op == [w \in (0..n) \X [0..n -> X] |-> MatchStep(p, s, w[2], w[1])]
<1>1. n \in Nat
  BY DEF Pattern
<1>2. ASSUME NEW i \in 0..n, NEW g \in [0..n -> X]
      PROVE  /\ MatchStep(p, s, g, i) \in X
             /\ \A h :
                    (\A k \in 0..n : k > i => g[k] = h[k])
                        => MatchStep(p, s, g, i) = MatchStep(p, s, h, i)
  <2>1. \A h : MatchStep(p, s, h, i) \in X
    BY DEF MatchStep
  <2>2. ASSUME NEW h, \A k \in 0..n : k > i => g[k] = h[k]
        PROVE  MatchStep(p, s, g, i) = MatchStep(p, s, h, i)
    <3>1. CASE i >= Len(p)
      <4>1. Len(p) \in Nat /\ ~(i < Len(p))
        BY <3>1 DEF Pattern
      <4> QED BY <4>1 DEF MatchStep
    <3>2. CASE i < Len(p)
      <4>1. \A k, j : k \in (i + 1)..n => (Matched(g, p, k, s, j) <=> Matched(h, p, k, s, j))
        BY <2>2 DEF Matched
      <4>2. ASSUME NEW j \in 0..(Len(s) - 1)
            PROVE  j \in MatchStep(p, s, g, i) <=> j \in MatchStep(p, s, h, i)
        <5>1. CASE p[i + 1] = Star
          <6>1. Stars(p, i) + 1 \in (i + 1)..n
            BY <3>2, StarsIs DEF Pattern
          <6>2. g[Stars(p, i) + 1] = h[Stars(p, i) + 1]
            BY <2>2, <6>1
          <6> QED BY <3>2, <5>1, <6>2, MatchCases
        <5>2. CASE p[i + 1] = Quest
          <6>1. i + 1 \in (i + 1)..n
            BY <1>1, <3>2 DEF Pattern
          <6> QED BY <3>2, <4>1, <5>2, <6>1, MatchCases
        <5>3. CASE p[i + 1] = Open
          <6>1. ClassFrom(p, i) \in (i + 1)..Len(p)
            BY <3>2, ClassFromType
          <6>2. Class(p, At(s, j))[ClassFrom(p, i)].i + 1 \in (i + 1)..n
            <7>1. Class(p, At(s, j))[ClassFrom(p, i)].i \in (ClassFrom(p, i) - 1)..(Len(p) + 1)
              <8> DEFINE c == At(s, j)
                         k == ClassFrom(p, i)
              <8>1. k \in 0..(Len(p) + 1)
                BY <1>1, <6>1 DEF Pattern
              <8> HIDE DEF c, k
              <8>2. Class(p, c)[k].i \in (k - 1)..(Len(p) + 1)
                BY <8>1, ClassEnds
              <8> QED BY <8>2 DEF c, k
            <7>2. Len(p) \in Nat
              BY DEF Pattern
            <7> QED BY <6>1, <7>1, <7>2, SMTT(60)
          <6> QED BY <3>2, <4>1, <5>3, <6>2, MatchCases
        <5>4. CASE p[i + 1] \notin {Star, Quest, Open}
          <6>1. Literal(p, i) + 1 \in (i + 1)..n
            BY <3>2, LiteralType DEF Pattern
          <6> QED BY <3>2, <4>1, <5>4, <6>1, MatchCases
        <5> QED BY <5>1, <5>2, <5>3, <5>4
      <4> QED BY <2>1, <4>2
    <3> QED BY <3>1, <3>2
  <2> QED BY <2>1, <2>2
<1> HIDE DEF n
<1>3. op \in [(0..n) \X [0..n -> X] -> X]
  BY <1>2
<1>4. FromLater(n, X, op)
  <2>1. \A i \in 0..n, g \in [0..n -> X] : op[<<i, g>>] = MatchStep(p, s, g, i)
    OBVIOUS
  <2> HIDE DEF op, X
  <2>2. ASSUME NEW i \in 0..n, NEW g \in [0..n -> X], NEW h \in [0..n -> X],
               \A k \in 0..n : k > i => g[k] = h[k]
        PROVE  op[<<i, g>>] = op[<<i, h>>]
    <3>1. MatchStep(p, s, g, i) = MatchStep(p, s, h, i)
      BY <1>2, <2>2
    <3> QED BY <2>1, <3>1
  <2> QED BY <1>1, <1>3, <2>2 DEF FromLater
<1> DEFINE b == {}
<1>5. b \in X
  OBVIOUS
<1> HIDE DEF X, op, b
<1>6. Definable(n, X, op)
  BY <1>4, <1>5, DownRecursion, Zenon
<1>7. \E f : f \in [0..n -> X] /\ f = [i \in 0..n |-> MatchStep(p, s, f, i)]
  BY <1>6 DEF op, Definable
<1>8. PICK f \in [0..n -> X] : f = [i \in 0..n |-> MatchStep(p, s, f, i)]
  BY <1>7
<1> DEFINE g == CHOOSE f_1 : f_1 = [i \in 0..n |-> MatchStep(p, s, f_1, i)]
<1>9. g = [i \in 0..n |-> MatchStep(p, s, g, i)]
  BY <1>8
<1>10. stringmatchlen(p, s) = (0 \in g[0])
  BY DEF stringmatchlen, n
<1> HIDE DEF g
<1>11. \A i \in 0..n : i \in {k \in 0..n : f[k] = g[k]}
  <2> DEFINE P == {k \in 0..n : f[k] = g[k]}
  <2>1. ASSUME NEW i \in 0..n, \A k \in 0..n : k > i => k \in P PROVE i \in P
    <3>1. MatchStep(p, s, f, i) = MatchStep(p, s, g, i)
      BY <1>2, <2>1
    <3> QED BY <1>8, <1>9, <3>1
  <2> HIDE DEF P
  <2> QED BY <1>1, <2>1, DownInduction DEF P
<1>12. g \in [0..n -> X]
  BY <1>8, <1>9, <1>11
<1> QED BY <1>9, <1>10, <1>12 DEF X, n

----------------------------------------------------------------------------
(* The language of a pattern *)

LEMMA ItemCases ==
    ASSUME NEW p \in Pattern, NEW all, NEW i \in Nat, i < Len(p)
    PROVE  /\ p[i + 1] = Star => Item(p, i, all) = [star |-> TRUE, set |-> {}, next |-> i + 1]
           /\ p[i + 1] = Quest => Item(p, i, all) = [star |-> FALSE, set |-> all, next |-> i + 1]
           /\ p[i + 1] = Open => Item(p, i, all) =
                [star |-> FALSE,
                 set |-> IF Negated(p, i) THEN all \ Listed(p, all)[ClassFrom(p, i)].set
                         ELSE Listed(p, all)[ClassFrom(p, i)].set,
                 next |-> Listed(p, all)[ClassFrom(p, i)].next]
           /\ p[i + 1] \notin {Star, Quest, Open} => Item(p, i, all) =
                [star |-> FALSE, set |-> {p[Literal(p, i) + 1]}, next |-> Literal(p, i) + 1]
<1>1. CASE p[i + 1] = Star
  BY <1>1 DEF Item, Star, Quest, Open, Escape
<1>2. CASE p[i + 1] = Quest
  BY <1>2 DEF Item, Star, Quest, Open, Escape
<1>3. CASE p[i + 1] = Open
  BY <1>3 DEF Item, Star, Quest, Open, Escape
<1>4. CASE p[i + 1] \notin {Star, Quest, Open}
  <2>1. Len(p) - i >= 2 <=> i + 2 <= Len(p)
    BY DEF Pattern
  <2>2. (i + 1) + 1 = i + 2
    OBVIOUS
  <2> QED BY <1>4, <2>1, <2>2 DEF Item, Literal
<1> QED BY <1>1, <1>2, <1>3, <1>4

LEMMA ItemNext ==
    ASSUME NEW p \in Pattern, NEW all \in SUBSET Nat, NEW i \in Nat, i < Len(p)
    PROVE  Item(p, i, all).next \in (i + 1)..(Len(p) + 1)
<1>1. Len(p) \in Nat /\ i + 1 \in (i + 1)..(Len(p) + 1)
  BY DEF Pattern
<1>2. CASE p[i + 1] \in {Star, Quest}
  <2>1. Item(p, i, all).next = i + 1
    BY <1>2, ItemCases
  <2> QED BY <1>1, <2>1
<1>3. CASE p[i + 1] = Open
  <2>1. Item(p, i, all).next = Listed(p, all)[ClassFrom(p, i)].next
    BY <1>3, ItemCases
  <2>2. ClassFrom(p, i) \in (i + 1)..Len(p)
    BY ClassFromType
  <2>3. Listed(p, all)[ClassFrom(p, i)].next \in ClassFrom(p, i)..(Len(p) + 1)
    BY <1>1, <2>2, ListedEnds
  <2> QED BY <1>1, <2>1, <2>2, <2>3
<1>4. CASE p[i + 1] \notin {Star, Quest, Open}
  <2>1. Item(p, i, all).next = Literal(p, i) + 1
    BY <1>4, ItemCases
  <2>2. Literal(p, i) \in i..(Len(p) - 1)
    BY LiteralType
  <2> QED BY <1>1, <2>1, <2>2
<1> QED BY <1>2, <1>3, <1>4

LEMMA RestIs ==
    ASSUME NEW p \in Pattern, NEW s \in Pattern
    PROVE  \E f : /\ Matches(p, s) = (0 \in f[0])
                  /\ \A i \in 0..(Len(p) + 1) : f[i] = RestStep(p, s, f, i)
                                               /\ f[i] \in SUBSET (0..Len(s))
<1> DEFINE n == Len(p) + 1
           X == SUBSET (0..Len(s))
           op == [w \in (0..n) \X [0..n -> X] |-> RestStep(p, s, w[2], w[1])]
<1>1. n \in Nat /\ Len(s) \in Nat /\ Len(p) \in Nat
  BY DEF Pattern
<1>2. ASSUME NEW i \in 0..n, NEW g \in [0..n -> X]
      PROVE  /\ RestStep(p, s, g, i) \in X
             /\ \A h :
                    (\A k \in 0..n : k > i => g[k] = h[k])
                        => RestStep(p, s, g, i) = RestStep(p, s, h, i)
  <2>1. CASE i >= Len(p)
    <3>1. \A h : RestStep(p, s, h, i) = {Len(s)}
      BY <2>1 DEF RestStep
    <3>2. {Len(s)} \in X
      BY <1>1
    <3> HIDE DEF X
    <3> QED BY <3>1, <3>2
  <2>2. CASE i < Len(p)
    <3> DEFINE item == Item(p, i, ToSet(s))
               Step(behind) ==
                 IF item.star THEN {j \in 0..Len(s) : \E k \in behind : j <= k}
                 ELSE {j \in 0..(Len(s) - 1) : s[j + 1] \in item.set /\ j + 1 \in behind}
    <3>1. \A h : RestStep(p, s, h, i) = Step(h[item.next])
      <4>1. ~(i >= Len(p))
        BY <1>1, <2>2
      <4> QED BY <4>1 DEF RestStep
    <3>2. \A b : Step(b) \in X
      BY <1>1
    <3>3. item.next \in (i + 1)..n
      <4>1. ToSet(s) \in SUBSET Nat
        BY DEF ToSet, Pattern
      <4> QED BY <2>2, <4>1, ItemNext
    <3> HIDE DEF Step, item, X
    <3>4. ASSUME NEW h, \A k \in 0..n : k > i => g[k] = h[k]
          PROVE  RestStep(p, s, g, i) = RestStep(p, s, h, i)
      <4>1. g[item.next] = h[item.next]
        BY <3>3, <3>4
      <4> QED BY <3>1, <4>1
    <3> QED BY <3>1, <3>2, <3>4
  <2> QED BY <1>1, <2>1, <2>2
<1> HIDE DEF n
<1>3. op \in [(0..n) \X [0..n -> X] -> X]
  BY <1>2
<1>4. FromLater(n, X, op)
  <2>1. \A i \in 0..n, g \in [0..n -> X] : op[<<i, g>>] = RestStep(p, s, g, i)
    OBVIOUS
  <2> HIDE DEF op, X
  <2>2. ASSUME NEW i \in 0..n, NEW g \in [0..n -> X], NEW h \in [0..n -> X],
               \A k \in 0..n : k > i => g[k] = h[k]
        PROVE  op[<<i, g>>] = op[<<i, h>>]
    <3>1. RestStep(p, s, g, i) = RestStep(p, s, h, i)
      BY <1>2, <2>2
    <3> QED BY <2>1, <3>1
  <2> QED BY <1>1, <1>3, <2>2 DEF FromLater
<1> DEFINE b == {}
<1>5. b \in X
  OBVIOUS
<1> HIDE DEF X, op, b
<1>6. Definable(n, X, op)
  BY <1>4, <1>5, DownRecursion, Zenon
<1>7. \E f : f \in [0..n -> X] /\ f = [i \in 0..n |-> RestStep(p, s, f, i)]
  BY <1>6 DEF op, Definable
<1>8. PICK f \in [0..n -> X] : f = [i \in 0..n |-> RestStep(p, s, f, i)]
  BY <1>7
<1> DEFINE g == CHOOSE f_1 : f_1 = [i \in 0..n |-> RestStep(p, s, f_1, i)]
<1>9. g = [i \in 0..n |-> RestStep(p, s, g, i)]
  BY <1>8
<1>10. Matches(p, s) = (0 \in g[0])
  BY DEF Matches, n
<1> HIDE DEF g
<1>11. \A i \in 0..n : i \in {k \in 0..n : f[k] = g[k]}
  <2> DEFINE P == {k \in 0..n : f[k] = g[k]}
  <2>1. ASSUME NEW i \in 0..n, \A k \in 0..n : k > i => k \in P PROVE i \in P
    <3>1. RestStep(p, s, f, i) = RestStep(p, s, g, i)
      BY <1>2, <2>1
    <3> QED BY <1>8, <1>9, <3>1
  <2> HIDE DEF P
  <2> QED BY <1>1, <2>1, DownInduction DEF P
<1>12. g \in [0..n -> X]
  BY <1>8, <1>9, <1>11
<1> QED BY <1>9, <1>10, <1>12 DEF X, n

LEMMA DanglingIs ==
    ASSUME NEW p \in Pattern
    PROVE  \E f : /\ Dangling(p) = f[0]
                  /\ \A i \in 0..(Len(p) + 1) : f[i] = DanglingStep(p, f, i) /\ f[i] \in BOOLEAN
<1> DEFINE n == Len(p) + 1
           X == BOOLEAN
           op == [w \in (0..n) \X [0..n -> X] |-> DanglingStep(p, w[2], w[1])]
<1>1. n \in Nat /\ Len(p) \in Nat
  BY DEF Pattern
<1>2. ASSUME NEW i \in 0..n, NEW g \in [0..n -> X]
      PROVE  /\ DanglingStep(p, g, i) \in X
             /\ \A h :
                    (\A k \in 0..n : k > i => g[k] = h[k])
                        => DanglingStep(p, g, i) = DanglingStep(p, h, i)
  <2>1. DanglingStep(p, g, i) \in X
    BY DEF DanglingStep
  <2>2. ASSUME NEW h, \A k \in 0..n : k > i => g[k] = h[k]
        PROVE  DanglingStep(p, g, i) = DanglingStep(p, h, i)
    <3>1. CASE i >= Len(p)
      BY <1>1, <3>1 DEF DanglingStep
    <3>2. CASE i < Len(p) /\ p[i + 1] = Open
      <4> DEFINE class == Class(p, 0)[ClassFrom(p, i)]
      <4>1. class.i > Len(p) \/ class.i + 1 \in (i + 1)..n
        <5>1. ClassFrom(p, i) \in (i + 1)..Len(p)
          BY <3>2, ClassFromType
        <5>2. class.i \in (ClassFrom(p, i) - 1)..(Len(p) + 1)
          BY <1>1, <5>1, ClassEnds
        <5> QED BY <1>1, <5>1, <5>2
      <4>2. class.i > Len(p) \/ g[class.i + 1] = h[class.i + 1]
        BY <2>2, <4>1
      <4> QED BY <3>2, <4>2 DEF DanglingStep, Open, Escape
    <3>3. CASE i < Len(p) /\ p[i + 1] = Escape
      <4>1. g[i + 2] = h[i + 2]
        BY <1>1, <2>2, <3>3
      <4> QED BY <3>3, <4>1 DEF DanglingStep, Open, Escape
    <3>4. CASE i < Len(p) /\ p[i + 1] \notin {Open, Escape}
      <4>1. g[i + 1] = h[i + 1]
        BY <1>1, <2>2, <3>4
      <4> QED BY <3>4, <4>1 DEF DanglingStep
    <3> QED BY <1>1, <3>1, <3>2, <3>3, <3>4
  <2> QED BY <2>1, <2>2
<1> HIDE DEF n
<1>3. op \in [(0..n) \X [0..n -> X] -> X]
  BY <1>2
<1>4. FromLater(n, X, op)
  <2>1. \A i \in 0..n, g \in [0..n -> X] : op[<<i, g>>] = DanglingStep(p, g, i)
    OBVIOUS
  <2> HIDE DEF op, X
  <2>2. ASSUME NEW i \in 0..n, NEW g \in [0..n -> X], NEW h \in [0..n -> X],
               \A k \in 0..n : k > i => g[k] = h[k]
        PROVE  op[<<i, g>>] = op[<<i, h>>]
    <3>1. DanglingStep(p, g, i) = DanglingStep(p, h, i)
      BY <1>2, <2>2
    <3> QED BY <2>1, <3>1
  <2> QED BY <1>1, <1>3, <2>2 DEF FromLater
<1> DEFINE b == FALSE
<1>5. b \in X
  OBVIOUS
<1> HIDE DEF X, op, b
<1>6. Definable(n, X, op)
  BY <1>4, <1>5, DownRecursion, Zenon
<1>7. \E f : f \in [0..n -> X] /\ f = [i \in 0..n |-> DanglingStep(p, f, i)]
  BY <1>6 DEF op, Definable
<1>8. PICK f \in [0..n -> X] : f = [i \in 0..n |-> DanglingStep(p, f, i)]
  BY <1>7
<1> DEFINE g == CHOOSE f_1 : f_1 = [i \in 0..n |-> DanglingStep(p, f_1, i)]
<1>9. g = [i \in 0..n |-> DanglingStep(p, g, i)]
  BY <1>8
<1>10. Dangling(p) = g[0]
  BY DEF Dangling, n
<1> HIDE DEF g
<1>11. \A i \in 0..n : i \in {k \in 0..n : f[k] = g[k]}
  <2> DEFINE P == {k \in 0..n : f[k] = g[k]}
  <2>1. ASSUME NEW i \in 0..n, \A k \in 0..n : k > i => k \in P PROVE i \in P
    <3>1. DanglingStep(p, f, i) = DanglingStep(p, g, i)
      BY <1>2, <2>1
    <3> QED BY <1>8, <1>9, <3>1
  <2> HIDE DEF P
  <2> QED BY <1>1, <2>1, DownInduction DEF P
<1>12. g \in [0..n -> X]
  BY <1>8, <1>9, <1>11
<1> QED BY <1>9, <1>10, <1>12 DEF X, n

----------------------------------------------------------------------------
(* The loop decides the language                                           *)

(* The places from which the loop answers 1, from which the rest of the    *)
(* string can be cut, and whether the loop leaves the pattern.             *)
IsMatch(f, p, s) ==
    \A i \in 0..(Len(p) + 2) : f[i] = MatchStep(p, s, f, i) /\ f[i] \in SUBSET (0..(Len(s) - 1))
IsRest(g, p, s) ==
    \A i \in 0..(Len(p) + 1) : g[i] = RestStep(p, s, g, i) /\ g[i] \in SUBSET (0..Len(s))
IsDangling(d, p) ==
    \A i \in 0..(Len(p) + 1) : d[i] = DanglingStep(p, d, i) /\ d[i] \in BOOLEAN

Agree(f, g, p, s, i) == \A j \in 0..Len(s) : Matched(f, p, i, s, j) <=> j \in g[i]

LEMMA RestCases ==
    ASSUME NEW p \in Pattern, NEW s \in Pattern, NEW g, IsRest(g, p, s),
           NEW i \in Nat, i < Len(p)
    PROVE  /\ p[i + 1] = Star => g[i] = {j \in 0..Len(s) : \E k \in g[i + 1] : j <= k}
           /\ p[i + 1] # Star =>
                g[i] = {j \in 0..(Len(s) - 1) : s[j + 1] \in Item(p, i, ToSet(s)).set
                                              /\ j + 1 \in g[Item(p, i, ToSet(s)).next]}
<1> DEFINE item == Item(p, i, ToSet(s))
<1>1. g[i] = RestStep(p, s, g, i) /\ ~(i >= Len(p))
  <2>1. Len(p) \in Nat
    BY DEF Pattern
  <2> QED BY <2>1 DEF IsRest
<1>2. g[i] = IF item.star THEN {j \in 0..Len(s) : \E k \in g[item.next] : j <= k}
             ELSE {j \in 0..(Len(s) - 1) : s[j + 1] \in item.set /\ j + 1 \in g[item.next]}
  BY <1>1 DEF RestStep
<1>3. p[i + 1] = Star => item.star = TRUE /\ item.next = i + 1
  BY ItemCases
<1>4. p[i + 1] # Star => item.star = FALSE
  <2>1. CASE p[i + 1] = Quest
    BY <2>1, ItemCases
  <2>2. CASE p[i + 1] = Open
    BY <2>2, ItemCases
  <2>3. CASE p[i + 1] \notin {Star, Quest, Open}
    BY <2>3, ItemCases
  <2> QED BY <2>1, <2>2, <2>3
<1> HIDE DEF item
<1>5. CASE p[i + 1] = Star
  BY <1>2, <1>3, <1>5
<1>6. CASE p[i + 1] # Star
  BY <1>2, <1>4, <1>6 DEF item
<1> QED BY <1>5, <1>6

(* An item that stands for one byte. *)
LEMMA OneAgrees ==
    ASSUME NEW p \in Pattern, NEW s \in Pattern, NEW f, NEW g, IsRest(g, p, s),
           NEW i \in Nat, i < Len(p), p[i + 1] # Star,
           NEW k, k = Item(p, i, ToSet(s)).next, Agree(f, g, p, s, k),
           \A j \in 0..(Len(s) - 1) :
               j \in f[i] <=> /\ s[j + 1] \in Item(p, i, ToSet(s)).set
                             /\ Matched(f, p, k, s, j + 1)
    PROVE  Agree(f, g, p, s, i)
<1> DEFINE set == Item(p, i, ToSet(s)).set
<1>1. Len(s) \in Nat /\ Len(p) \in Nat
  BY DEF Pattern
<1>2. g[i] = {j \in 0..(Len(s) - 1) : s[j + 1] \in set /\ j + 1 \in g[k]}
  BY RestCases
<1>3. \A j \in 0..(Len(s) - 1) : j \in f[i] <=> s[j + 1] \in set /\ Matched(f, p, k, s, j + 1)
  OBVIOUS
<1> HIDE DEF set
<1>4. ASSUME NEW j \in 0..Len(s) PROVE Matched(f, p, i, s, j) <=> j \in g[i]
  <2>1. CASE j = Len(s)
    <3>1. NoStars(p, i) # Len(p)
      <4>1. i \in 0..Len(p)
        BY <1>1
      <4> QED BY <4>1, NoStarsIs
    <3>2. Len(s) \notin g[i]
      BY <1>1, <1>2
    <3> QED BY <2>1, <3>1, <3>2 DEF Matched
  <2>2. CASE j # Len(s)
    <3>1. j \in 0..(Len(s) - 1) /\ j + 1 \in 0..Len(s)
      BY <1>1, <2>2
    <3>2. Matched(f, p, k, s, j + 1) <=> j + 1 \in g[k]
      BY <3>1 DEF Agree
    <3>3. Matched(f, p, i, s, j) <=> j \in f[i]
      BY <2>2 DEF Matched
    <3> QED BY <1>2, <1>3, <3>1, <3>2, <3>3
  <2> QED BY <2>1, <2>2
<1> QED BY <1>4 DEF Agree

LEMMA StarAgrees ==
    ASSUME NEW p \in Pattern, NEW s \in Pattern, NEW f, NEW g, IsMatch(f, p, s), IsRest(g, p, s),
           NEW i \in Nat, i < Len(p), p[i + 1] = Star, Agree(f, g, p, s, i + 1)
    PROVE  Agree(f, g, p, s, i)
<1>1. Len(s) \in Nat /\ Len(p) \in Nat /\ i \in 0..Len(p) /\ i + 1 \in 0..Len(p)
  BY DEF Pattern
<1>2. g[i] = {j \in 0..Len(s) : \E k \in g[i + 1] : j <= k}
  BY RestCases
<1>3. g[i + 1] \in SUBSET (0..Len(s))
  BY <1>1 DEF IsRest
<1>4. NoStars(p, i) = NoStars(p, i + 1)
  BY <1>1, NoStarsIs
<1>5. NoStars(p, i + 1) = Len(p) <=> Len(s) \in g[i + 1]
  <2>1. Len(s) \in 0..Len(s)
    BY <1>1
  <2> QED BY <2>1 DEF Agree, Matched
<1>6. Len(s) \in g[i] <=> Len(s) \in g[i + 1]
  <2>1. \A k \in g[i + 1] : Len(s) <= k => k = Len(s)
    BY <1>1, <1>3
  <2>2. Len(s) \in 0..Len(s) /\ Len(s) <= Len(s)
    BY <1>1
  <2> QED BY <1>2, <2>1, <2>2
<1>7. ASSUME NEW j \in 0..(Len(s) - 1) PROVE j \in f[i] <=> j \in g[i]
  <2> DEFINE k == Stars(p, i)
  <2>1. f[i] = MatchStep(p, s, f, i) /\ f[i + 1] = MatchStep(p, s, f, i + 1)
    BY <1>1 DEF IsMatch
  <2>2. j \in f[i] <=> k + 1 = Len(p) \/ \E l \in f[k + 1] : j <= l
    BY <2>1, MatchCases
  <2>3. j \in 0..Len(s) /\ j # Len(s) /\ j <= Len(s)
    BY <1>1
  <2>4. CASE i + 1 < Len(p) /\ p[i + 2] = Star
    <3>1. k = Stars(p, i + 1)
      BY <2>4, StarsIs
    <3>2. (i + 1) + 1 = i + 2 /\ i + 1 \in Nat
      OBVIOUS
    <3>3. j \in f[i + 1] <=> k + 1 = Len(p) \/ \E l \in f[k + 1] : j <= l
      <4> HIDE DEF k
      <4> QED BY <2>1, <2>4, <3>1, <3>2, MatchCases
    <3>4. j \in f[i + 1] <=> j \in g[i + 1]
      BY <2>3 DEF Agree, Matched
    <3>5. g[i + 1] = {m \in 0..Len(s) : \E l \in g[i + 2] : m <= l}
      BY <2>4, <3>2, RestCases
    <3>6. j \in g[i] <=> j \in g[i + 1]
      <4>1. i + 2 \in 0..(Len(p) + 1)
        BY <1>1, <2>4
      <4>2. g[i + 2] \in SUBSET (0..Len(s))
        BY <4>1 DEF IsRest
      <4>3. j \in g[i] => j \in g[i + 1]
        <5>1. SUFFICES ASSUME j \in g[i] PROVE j \in g[i + 1]
          OBVIOUS
        <5>2. PICK m \in g[i + 1] : j <= m
          BY <1>2, <5>1
        <5>3. PICK l \in g[i + 2] : m <= l
          BY <3>5
        <5>4. j <= l
          BY <1>3, <2>3, <4>2, <5>2, <5>3
        <5> QED BY <2>3, <3>5, <5>4
      <4>4. j \in g[i + 1] => j \in g[i]
        BY <1>2, <2>3
      <4> QED BY <4>3, <4>4
    <3> QED BY <2>2, <3>3, <3>4, <3>6
  <2>5. CASE ~(i + 1 < Len(p) /\ p[i + 2] = Star)
    <3>1. k = i
      <4>1. i + 1 < Len(p) \/ i + 1 = Len(p)
        BY <1>1
      <4> QED BY <2>5, <4>1, StarsIs
    <3> HIDE DEF k
    <3>2. CASE i + 1 = Len(p)
      <4>1. NoStars(p, i + 1) = Len(p)
        BY <1>1, <3>2, NoStarsIs
      <4>2. Len(s) \in g[i + 1]
        BY <1>5, <4>1
      <4> QED BY <1>2, <2>2, <2>3, <3>1, <3>2, <4>2
    <3>3. CASE i + 1 # Len(p)
      <4>1. i + 1 < Len(p) /\ (i + 1) + 1 = i + 2 /\ p[i + 2] # Star
        BY <1>1, <2>5, <3>3
      <4>2. NoStars(p, i + 1) # Len(p)
        BY <1>1, <4>1, NoStarsIs
      <4>3. \A l : l \in f[i + 1] <=> l \in g[i + 1]
        <5>1. f[i + 1] \in SUBSET (0..(Len(s) - 1))
          BY <1>1 DEF IsMatch
        <5>2. ASSUME NEW l \in 0..(Len(s) - 1) PROVE l \in f[i + 1] <=> l \in g[i + 1]
          <6>1. l \in 0..Len(s) /\ l # Len(s)
            BY <1>1
          <6> QED BY <6>1 DEF Agree, Matched
        <5>3. \A l \in g[i + 1] : l \in 0..(Len(s) - 1)
          BY <1>1, <1>3, <1>5, <4>2
        <5> QED BY <5>1, <5>2, <5>3
      <4> QED BY <1>2, <2>2, <2>3, <3>1, <3>3, <4>3
    <3> QED BY <3>2, <3>3
  <2> QED BY <2>4, <2>5
<1>8. ASSUME NEW j \in 0..Len(s) PROVE Matched(f, p, i, s, j) <=> j \in g[i]
  <2>1. CASE j = Len(s)
    BY <1>4, <1>5, <1>6, <2>1 DEF Matched
  <2>2. CASE j # Len(s)
    <3>1. j \in 0..(Len(s) - 1)
      BY <1>1, <2>2
    <3> QED BY <1>7, <2>2, <3>1 DEF Matched
  <2> QED BY <2>1, <2>2
<1> QED BY <1>8 DEF Agree

LEMMA AllAgree ==
    ASSUME NEW p \in Pattern, NEW s \in Pattern, NEW f, NEW g, NEW d,
           IsMatch(f, p, s), IsRest(g, p, s), IsDangling(d, p)
    PROVE  \A i \in 0..Len(p) : ~d[i] => Agree(f, g, p, s, i)
<1> DEFINE n == Len(p)
           P == {i \in 0..n : ~d[i] => Agree(f, g, p, s, i)}
           all == ToSet(s)
<1>1. n \in Nat /\ Len(s) \in Nat /\ all \in SUBSET Nat
  BY DEF Pattern, ToSet
<1>2. ASSUME NEW j \in 0..(Len(s) - 1)
      PROVE  At(s, j) = s[j + 1] /\ s[j + 1] \in all
  <2>1. j \in Nat /\ j < Len(s) /\ j + 1 \in DOMAIN s
    BY <1>1 DEF Pattern
  <2> QED BY <2>1, AtType DEF ToSet
<1>3. ASSUME NEW i \in 0..n, \A k \in 0..n : k > i => k \in P PROVE i \in P
  <2>1. SUFFICES ASSUME ~d[i] PROVE Agree(f, g, p, s, i)
    OBVIOUS
  <2>2. \A k \in 0..n : k > i /\ ~d[k] => Agree(f, g, p, s, k)
    BY <1>3
  <2>3. d[i] = DanglingStep(p, d, i)
    BY <1>1 DEF IsDangling
  <2>4. CASE i = Len(p)
    <3>1. g[i] = {Len(s)}
      <4>1. g[i] = RestStep(p, s, g, i) /\ i >= Len(p)
        BY <1>1, <2>4 DEF IsRest
      <4> QED BY <4>1 DEF RestStep
    <3>2. f[i] = {}
      <4>1. f[i] = MatchStep(p, s, f, i) /\ ~(i < Len(p))
        BY <1>1, <2>4 DEF IsMatch
      <4> QED BY <4>1 DEF MatchStep
    <3>3. NoStars(p, i) = Len(p)
      BY <2>4, NoStarsIs
    <3> QED BY <3>1, <3>2, <3>3 DEF Agree, Matched
  <2>5. CASE i < Len(p) /\ p[i + 1] = Star
    <3>1. ~d[i + 1]
      BY <2>1, <2>3, <2>5 DEF DanglingStep, Star, Open, Escape
    <3>2. i + 1 \in 0..n /\ i + 1 > i
      BY <1>1, <2>5
    <3> QED BY <2>2, <2>5, <3>1, <3>2, StarAgrees
  <2>6. CASE i < Len(p) /\ p[i + 1] = Quest
    <3>1. ~d[i + 1]
      BY <2>1, <2>3, <2>6 DEF DanglingStep, Quest, Open, Escape
    <3>2. i + 1 \in 0..n /\ i + 1 > i
      BY <1>1, <2>6
    <3>3. Item(p, i, all).next = i + 1 /\ Item(p, i, all).set = all /\ p[i + 1] # Star
      BY <2>6, ItemCases DEF Quest, Star
    <3>4. f[i] = MatchStep(p, s, f, i)
      BY <1>1 DEF IsMatch
    <3>5. \A j \in 0..(Len(s) - 1) : j \in f[i] <=>
              s[j + 1] \in Item(p, i, all).set /\ Matched(f, p, i + 1, s, j + 1)
      BY <1>2, <2>6, <3>3, <3>4, MatchCases
    <3>6. Agree(f, g, p, s, i + 1)
      BY <2>2, <3>1, <3>2
    <3> QED BY <2>6, <3>3, <3>5, <3>6, OneAgrees
  <2>7. CASE i < Len(p) /\ p[i + 1] = Open
    <3> DEFINE from == ClassFrom(p, i)
               k == Class(p, 0)[from].i + 1
    <3>1. from \in (i + 1)..Len(p) /\ from \in 0..(Len(p) + 1)
      BY <1>1, <2>7, ClassFromType
    <3>0. ~(Class(p, 0)[from].i > Len(p)) /\ ~d[k]
      BY <2>1, <2>3, <2>7 DEF DanglingStep, Open, Escape
    <3> HIDE DEF from
    <3>3. Class(p, 0)[from].i \in (from - 1)..(Len(p) + 1) /\ Class(p, 0)[from].i # Len(p)
      BY <3>1, ClassEnds
    <3>2. Class(p, 0)[from].i <= Len(p) /\ ~d[k]
      <4>1. Len(p) \in Int /\ Class(p, 0)[from].i \in Int
        BY <1>1, <3>1, <3>3
      <4> QED BY <3>0, <4>1
    <3>4. k \in 0..n /\ k > i
      BY <1>1, <3>1, <3>2, <3>3
    <3>5. ASSUME NEW c \in all
          PROVE  /\ Class(p, c)[from].i + 1 = k
                 /\ Listed(p, all)[from].next = k
                 /\ Class(p, c)[from].match <=> c \in Listed(p, all)[from].set
                 /\ Class(p, c)[from].match \in BOOLEAN
      <4>1. Class(p, c)[from].i = Class(p, 0)[from].i
        BY <3>1, ClassEnds
      <4>2. Class(p, c)[from].match \in BOOLEAN
        BY <3>1, ClassIs
      <4> QED BY <1>1, <3>1, <3>2, <4>1, <4>2, ClassIsListed
    <3> HIDE DEF k
    <3>6. f[i] = MatchStep(p, s, f, i)
      BY <1>1 DEF IsMatch
    <3> DEFINE listed == Listed(p, all)[from]
    <3>7. p[i + 1] # Star
      BY <2>7 DEF Open, Star
    <3>8. /\ Item(p, i, all).next = listed.next
          /\ Item(p, i, all).set = IF Negated(p, i) THEN all \ listed.set ELSE listed.set
      <4>1. Item(p, i, all) =
              [star |-> FALSE, set |-> IF Negated(p, i) THEN all \ listed.set ELSE listed.set,
               next |-> listed.next]
        BY <2>7, ItemCases DEF from
      <4> HIDE DEF listed
      <4> QED BY <4>1
    <3>9. CASE all = {}
      <4>1. Len(s) = 0
        <5>1. SUFFICES ASSUME Len(s) # 0 PROVE FALSE
          OBVIOUS
        <5>2. 0 \in 0..(Len(s) - 1)
          BY <1>1, <5>1
        <5> QED BY <1>2, <3>9, <5>2
      <4>2. Agree(f, g, p, s, i)
        <5>1. g[i] = {}
          <6>1. 0..(Len(s) - 1) = {}
            BY <4>1
          <6> QED BY <2>7, <3>7, <6>1, RestCases
        <5>2. f[i] = {}
          <6>1. 0..(Len(s) - 1) = {}
            BY <4>1
          <6> QED BY <1>1, <6>1 DEF IsMatch
        <5>3. NoStars(p, i) # Len(p)
          BY <1>1, <2>7, <3>7, NoStarsIs
        <5> QED BY <5>1, <5>2, <5>3 DEF Agree, Matched
      <4> QED BY <4>2
    <3>10. CASE all # {}
      <4>1. Item(p, i, all).next = k
        BY <3>5, <3>8, <3>10
      <4>2. ASSUME NEW j \in 0..(Len(s) - 1)
            PROVE  j \in f[i] <=> s[j + 1] \in Item(p, i, all).set /\ Matched(f, p, k, s, j + 1)
        <5> DEFINE c == At(s, j)
        <5>1. c \in all /\ c = s[j + 1]
          BY <1>2
        <5>2. j \in f[i] <=> /\ Class(p, c)[from].match # Negated(p, i)
                            /\ Matched(f, p, Class(p, c)[from].i + 1, s, j + 1)
          BY <2>7, <3>6, MatchCases DEF from
        <5> HIDE DEF c
        <5>3. /\ Class(p, c)[from].i + 1 = k
              /\ Class(p, c)[from].match <=> c \in listed.set
              /\ Class(p, c)[from].match \in BOOLEAN
          BY <3>5, <5>1
        <5>4. Class(p, c)[from].match # Negated(p, i) <=> c \in Item(p, i, all).set
          <6>1. Negated(p, i) \in BOOLEAN
            BY DEF Negated
          <6>2. CASE Negated(p, i)
            <7>1. Class(p, c)[from].match # Negated(p, i) <=> ~Class(p, c)[from].match
              BY <5>3, <6>2
            <7>2. c \in Item(p, i, all).set <=> c \notin listed.set
              BY <3>8, <5>1, <6>2
            <7> QED BY <5>3, <7>1, <7>2
          <6>3. CASE ~Negated(p, i)
            <7>1. Class(p, c)[from].match # Negated(p, i) <=> Class(p, c)[from].match
              BY <5>3, <6>1, <6>3
            <7>2. c \in Item(p, i, all).set <=> c \in listed.set
              BY <3>8, <6>3
            <7> QED BY <5>3, <7>1, <7>2
          <6> QED BY <6>2, <6>3
        <5> QED BY <5>1, <5>2, <5>3, <5>4
      <4>3. Agree(f, g, p, s, k)
        BY <2>2, <3>2, <3>4 DEF k
      <4> QED BY <2>7, <3>7, <4>1, <4>2, <4>3, OneAgrees
    <3> QED BY <3>9, <3>10
  <2>8. CASE i < Len(p) /\ p[i + 1] \notin {Star, Quest, Open}
    <3> DEFINE k == Literal(p, i) + 1
    <3>1. k \in 0..n /\ k > i /\ Literal(p, i) \in Nat /\ Literal(p, i) < Len(p)
      BY <1>1, <2>8, LiteralType
    <3>2. ~d[k]
      <4>1. CASE p[i + 1] = Escape /\ Len(p) - i >= 2
        <5>1. k = i + 2
          BY <4>1 DEF Literal
        <5> QED BY <2>1, <2>3, <2>8, <4>1, <5>1 DEF DanglingStep, Open, Escape
      <4>2. CASE p[i + 1] = Escape /\ ~(Len(p) - i >= 2)
        <5>1. k = Len(p)
          BY <1>1, <2>8, <4>2 DEF Literal
        <5>2. d[k] = DanglingStep(p, d, k)
          BY <1>1, <3>1 DEF IsDangling
        <5> QED BY <1>1, <5>1, <5>2 DEF DanglingStep
      <4>3. CASE p[i + 1] # Escape
        <5>1. k = i + 1
          BY <4>3 DEF Literal
        <5> QED BY <2>1, <2>3, <2>8, <4>3, <5>1 DEF DanglingStep
      <4> QED BY <4>1, <4>2, <4>3
    <3>3. Item(p, i, all).next = k /\ Item(p, i, all).set = {p[k]} /\ p[i + 1] # Star
      BY <2>8, ItemCases
    <3>4. f[i] = MatchStep(p, s, f, i)
      BY <1>1 DEF IsMatch
    <3>5. At(p, Literal(p, i)) = p[k]
      BY <3>1, AtType
    <3>6. \A j \in 0..(Len(s) - 1) : j \in f[i] <=>
              s[j + 1] \in Item(p, i, all).set /\ Matched(f, p, k, s, j + 1)
      <4>1. ASSUME NEW j \in 0..(Len(s) - 1)
            PROVE  j \in f[i] <=> At(p, Literal(p, i)) = At(s, j) /\ Matched(f, p, k, s, j + 1)
        BY <2>8, <3>4, MatchCases
      <4> HIDE DEF k
      <4> QED BY <1>2, <3>3, <3>5, <4>1
    <3>7. Agree(f, g, p, s, k)
      BY <2>2, <3>1, <3>2
    <3> HIDE DEF k
    <3> QED BY <2>8, <3>3, <3>6, <3>7, OneAgrees, SMTT(30)
  <2>9. i = Len(p) \/ i < Len(p)
    BY <1>1
  <2> QED BY <2>4, <2>5, <2>6, <2>7, <2>8, <2>9
<1> HIDE DEF P
<1>4. \A i \in 0..n : i \in P
  BY <1>1, <1>3, DownInduction
<1> QED BY <1>4 DEF P

LEMMA GlobDecides ==
    ASSUME NEW p \in Pattern, NEW s \in Pattern, s # <<>>, ~Dangling(p)
    PROVE  stringmatchlen(p, s) = Matches(p, s)
<1>1. PICK f : stringmatchlen(p, s) = (0 \in f[0]) /\ IsMatch(f, p, s)
  BY MatchIs DEF IsMatch
<1>2. PICK g : Matches(p, s) = (0 \in g[0]) /\ IsRest(g, p, s)
  BY RestIs DEF IsRest
<1>3. PICK d : Dangling(p) = d[0] /\ IsDangling(d, p)
  BY DanglingIs DEF IsDangling
<1>4. 0 \in 0..Len(p) /\ 0 \in 0..Len(s) /\ 0 # Len(s)
  BY DEF Pattern
<1>5. Agree(f, g, p, s, 0)
  BY <1>1, <1>2, <1>3, <1>4, AllAgree
<1> QED BY <1>1, <1>2, <1>4, <1>5 DEF Agree, Matched

LEMMA PatternsType == Patterns \subseteq Pattern
<1>1. ASSUME NEW m \in Nat, NEW t \in [1..m -> Symbols] PROVE t \in Seq(Nat)
  <2>1. t \in [1..m -> Nat]
    BY StringsAssumption
  <2> QED BY <2>1
<1> QED BY <1>1, StringsAssumption DEF Patterns, BoundedSeq, SeqOf, Pattern

----------------------------------------------------------------------------
(* Splitting *)

LEMMA ConcatIs ==
    ASSUME NEW S, NEW a \in Seq(S), NEW b \in Seq(S)
    PROVE  /\ a \o b \in Seq(S) /\ Len(a \o b) = Len(a) + Len(b)
           /\ \A i \in 1..Len(a) : (a \o b)[i] = a[i]
           /\ \A i \in (Len(a) + 1)..(Len(a) + Len(b)) : (a \o b)[i] = b[i - Len(a)]
OBVIOUS

LEMMA SameSeq ==
    ASSUME NEW S, NEW a \in Seq(S), NEW b \in Seq(S), Len(a) = Len(b),
           \A i \in 1..Len(a) : a[i] = b[i]
    PROVE  a = b
OBVIOUS

LEMMA PartIs ==
    ASSUME NEW S, NEW s \in Seq(S), NEW m \in Nat, NEW n \in Nat, m <= n, n <= Len(s)
    PROVE  /\ SubSeq(s, m + 1, n) \in Seq(S) /\ Len(SubSeq(s, m + 1, n)) = n - m
           /\ \A i \in 1..(n - m) : SubSeq(s, m + 1, n)[i] = s[m + i]
<1>1. /\ SubSeq(s, m + 1, n) \in Seq(S)
      /\ Len(SubSeq(s, m + 1, n)) = IF m + 1 <= n THEN n - (m + 1) + 1 ELSE 0
  BY PartType
<1>2. Len(SubSeq(s, m + 1, n)) = n - m
  BY <1>1
<1>3. \A i \in 1..(n - m) : SubSeq(s, m + 1, n)[i] = s[m + i]
  OBVIOUS
<1> QED BY <1>1, <1>2, <1>3

(* A part and the one behind it.                                           *)
LEMMA PartsMeet ==
    ASSUME NEW S, NEW s \in Seq(S), NEW m \in Nat, NEW n \in Nat, m <= n, n <= Len(s)
    PROVE  SubSeq(s, 1, m) \o SubSeq(s, m + 1, n) = SubSeq(s, 1, n)
<1> DEFINE a == SubSeq(s, 0 + 1, m)
           b == SubSeq(s, m + 1, n)
           c == SubSeq(s, 0 + 1, n)
<1>1. a \in Seq(S) /\ Len(a) = m /\ \A i \in 1..m : a[i] = s[i]
  <2>1. m - 0 = m /\ 0 <= m /\ \A i \in 1..m : 0 + i = i
    OBVIOUS
  <2> QED BY <2>1, PartIs
<1>2. c \in Seq(S) /\ Len(c) = n /\ \A i \in 1..n : c[i] = s[i]
  <2>1. n - 0 = n /\ 0 <= n /\ \A i \in 1..n : 0 + i = i
    OBVIOUS
  <2> QED BY <2>1, PartIs
<1>3. b \in Seq(S) /\ Len(b) = n - m /\ \A i \in 1..(n - m) : b[i] = s[m + i]
  BY PartIs
<1>4. a = SubSeq(s, 1, m) /\ c = SubSeq(s, 1, n)
  BY 0 + 1 = 1
<1> HIDE DEF a, b, c
<1>5. a \o b \in Seq(S) /\ Len(a \o b) = n
  <2>1. a \o b \in Seq(S) /\ Len(a \o b) = Len(a) + Len(b)
    BY <1>1, <1>3, ConcatIs
  <2> QED BY <1>1, <1>3, <2>1
<1>6. ASSUME NEW i \in 1..n PROVE (a \o b)[i] = c[i]
  <2>1. CASE i <= m
    <3>1. i \in 1..Len(a)
      BY <1>1, <2>1
    <3>2. (a \o b)[i] = a[i]
      BY <1>1, <1>3, <3>1, ConcatIs
    <3> QED BY <1>1, <1>2, <3>1, <3>2
  <2>2. CASE i > m
    <3>1. i \in (Len(a) + 1)..(Len(a) + Len(b)) /\ i - m \in 1..(n - m) /\ m + (i - m) = i
      BY <1>1, <1>3, <2>2
    <3>2. (a \o b)[i] = b[i - Len(a)]
      BY <1>1, <1>3, <3>1, ConcatIs
    <3> QED BY <1>1, <1>2, <1>3, <3>1, <3>2
  <2>3. i <= m \/ i > m
    OBVIOUS
  <2> QED BY <2>1, <2>2, <2>3
<1>7. a \o b = c
  BY <1>2, <1>5, <1>6, SameSeq
<1> QED BY <1>4, <1>7 DEF b

LEMMA JoinIs ==
    ASSUME NEW S, NEW sep \in Seq(S), NEW tokens \in Seq(Seq(S)), tokens # <<>>
    PROVE  \E f : /\ Join(tokens, sep) = f[Len(tokens) - 1]
                  /\ \A i \in 0..(Len(tokens) - 1) : f[i] = JoinStep(tokens, sep, f, i)
                                                   /\ f[i] \in Seq(S)
<1> DEFINE n == Len(tokens) - 1
           X == Seq(S)
           op == [w \in (0..n) \X [0..n -> X] |-> JoinStep(tokens, sep, w[2], w[1])]
<1>1. n \in Nat
  OBVIOUS
<1>2. ASSUME NEW i \in 0..n, NEW g \in [0..n -> X]
      PROVE  /\ JoinStep(tokens, sep, g, i) \in X
             /\ \A h :
                    (\A k \in 0..n : k < i => g[k] = h[k])
                        => JoinStep(tokens, sep, g, i) = JoinStep(tokens, sep, h, i)
  <2>1. tokens[i + 1] \in X
    OBVIOUS
  <2>2. CASE i = 0
    BY <2>1, <2>2 DEF JoinStep
  <2>3. CASE i # 0
    <3>1. i - 1 \in 0..n /\ i - 1 < i
      BY <2>3
    <3>2. \A h : JoinStep(tokens, sep, h, i) = h[i - 1] \o sep \o tokens[i + 1]
      BY <2>3 DEF JoinStep
    <3>3. g[i - 1] \in X
      BY <3>1
    <3>4. JoinStep(tokens, sep, g, i) \in X
      <4>1. (g[i - 1] \o sep) \o tokens[i + 1] \in Seq(S)
        <5>1. g[i - 1] \o sep \in Seq(S)
          BY <3>3, ConcatIs
        <5> QED BY <2>1, <5>1, ConcatIs
      <4> QED BY <3>2, <4>1
    <3>5. ASSUME NEW h, \A k \in 0..n : k < i => g[k] = h[k]
          PROVE  JoinStep(tokens, sep, g, i) = JoinStep(tokens, sep, h, i)
      <4>1. g[i - 1] = h[i - 1]
        BY <3>1, <3>5
      <4> QED BY <3>2, <4>1
    <3> HIDE DEF X
    <3> QED BY <3>4, <3>5
  <2> QED BY <2>2, <2>3
<1> HIDE DEF n
<1>3. op \in [(0..n) \X [0..n -> X] -> X]
  BY <1>2
<1>4. FromEarlier(n, X, op)
  <2>1. \A i \in 0..n, g \in [0..n -> X] : op[<<i, g>>] = JoinStep(tokens, sep, g, i)
    OBVIOUS
  <2> HIDE DEF op, X
  <2>2. ASSUME NEW i \in 0..n, NEW g \in [0..n -> X], NEW h \in [0..n -> X],
               \A k \in 0..n : k < i => g[k] = h[k]
        PROVE  op[<<i, g>>] = op[<<i, h>>]
    <3>1. JoinStep(tokens, sep, g, i) = JoinStep(tokens, sep, h, i)
      BY <1>2, <2>2
    <3> QED BY <2>1, <3>1
  <2> QED BY <1>1, <1>3, <2>2 DEF FromEarlier
<1> DEFINE b == <<>>
<1>5. b \in X
  OBVIOUS
<1> HIDE DEF X, op, b
<1>6. Definable(n, X, op)
  BY <1>4, <1>5, UpRecursion, Zenon
<1>7. \E f : f \in [0..n -> X] /\ f = [i \in 0..n |-> JoinStep(tokens, sep, f, i)]
  BY <1>6 DEF op, Definable
<1>8. PICK f \in [0..n -> X] : f = [i \in 0..n |-> JoinStep(tokens, sep, f, i)]
  BY <1>7
<1> DEFINE g == CHOOSE f_1 : f_1 = [i \in 0..n |-> JoinStep(tokens, sep, f_1, i)]
<1>9. g = [i \in 0..n |-> JoinStep(tokens, sep, g, i)]
  BY <1>8
<1>10. Join(tokens, sep) = g[n]
  BY DEF Join, n
<1> HIDE DEF g
<1>11. \A i \in 0..n : i \in {k \in 0..n : f[k] = g[k]}
  <2> DEFINE P == {k \in 0..n : f[k] = g[k]}
  <2>1. ASSUME NEW i \in 0..n, \A k \in 0..n : k < i => k \in P PROVE i \in P
    <3>1. JoinStep(tokens, sep, f, i) = JoinStep(tokens, sep, g, i)
      BY <1>2, <2>1
    <3> QED BY <1>8, <1>9, <3>1
  <2> HIDE DEF P
  <2> QED BY <1>1, <2>1, UpInduction DEF P
<1>12. g \in [0..n -> X]
  BY <1>8, <1>9, <1>11
<1> QED BY <1>9, <1>10, <1>12 DEF X, n

LEMMA JoinOne ==
    ASSUME NEW S, NEW sep \in Seq(S), NEW t \in Seq(S)
    PROVE  Join(<<t>>, sep) = t
<1> DEFINE tokens == <<t>>
<1>1. tokens \in Seq(Seq(S)) /\ tokens # <<>> /\ Len(tokens) - 1 = 0 /\ tokens[1] = t
  OBVIOUS
<1>2. 0 \in 0..(Len(tokens) - 1)
  BY <1>1
<1> HIDE DEF tokens
<1>3. PICK f : /\ Join(tokens, sep) = f[Len(tokens) - 1]
               /\ \A i \in 0..(Len(tokens) - 1) : f[i] = JoinStep(tokens, sep, f, i)
  BY <1>1, JoinIs
<1>4. Join(tokens, sep) = JoinStep(tokens, sep, f, 0)
  BY <1>1, <1>2, <1>3
<1>5. Join(tokens, sep) = t
  BY <1>1, <1>4 DEF JoinStep
<1> QED BY <1>5 DEF tokens

LEMMA JoinAppend ==
    ASSUME NEW S, NEW sep \in Seq(S), NEW tokens \in Seq(Seq(S)), tokens # <<>>, NEW t \in Seq(S)
    PROVE  /\ Join(tokens, sep) \in Seq(S)
           /\ Join(Append(tokens, t), sep) = (Join(tokens, sep) \o sep) \o t
<1> DEFINE more == Append(tokens, t)
           n == Len(tokens) - 1
<1>1. /\ more \in Seq(Seq(S)) /\ more # <<>> /\ Len(more) - 1 = n + 1 /\ more[n + 2] = t
      /\ n \in Nat /\ \A i \in 1..(n + 1) : more[i] = tokens[i]
  OBVIOUS
<1> HIDE DEF more
<1>2. PICK f : /\ Join(tokens, sep) = f[n]
               /\ \A i \in 0..n : f[i] = JoinStep(tokens, sep, f, i) /\ f[i] \in Seq(S)
  BY JoinIs
<1> HIDE DEF n
<1>3. PICK g : /\ Join(more, sep) = g[n + 1]
               /\ \A i \in 0..(n + 1) : g[i] = JoinStep(more, sep, g, i)
  <2>1. \E g : /\ Join(more, sep) = g[Len(more) - 1]
               /\ \A i \in 0..(Len(more) - 1) : g[i] = JoinStep(more, sep, g, i) /\ g[i] \in Seq(S)
    BY <1>1, JoinIs
  <2> QED BY <1>1, <2>1
<1>4. \A i \in 0..n : i \in {k \in 0..n : f[k] = g[k]}
  <2> DEFINE P == {k \in 0..n : f[k] = g[k]}
  <2>1. ASSUME NEW i \in 0..n, \A k \in 0..n : k < i => k \in P PROVE i \in P
    <3>1. f[i] = JoinStep(tokens, sep, f, i) /\ g[i] = JoinStep(more, sep, g, i)
      BY <1>1, <1>2, <1>3
    <3>2. i + 1 \in 1..(n + 1) /\ 1 \in 1..(n + 1) /\ i \in Int
      BY <1>1
    <3>3. CASE i = 0
      BY <1>1, <3>1, <3>2, <3>3 DEF JoinStep
    <3>4. CASE i # 0
      <4>1. i - 1 \in 0..n /\ i - 1 < i
        BY <3>2, <3>4, <1>1
      <4>2. f[i - 1] = g[i - 1]
        BY <2>1, <4>1
      <4> QED BY <1>1, <3>1, <3>2, <3>4, <4>2 DEF JoinStep
    <3> QED BY <3>3, <3>4
  <2> HIDE DEF P
  <2> QED BY <1>1, <2>1, UpInduction DEF P
<1>5. n \in 0..n /\ n + 1 \in 0..(n + 1) /\ n + 1 # 0 /\ (n + 1) - 1 = n /\ (n + 1) + 1 = n + 2
  BY <1>1
<1>6. f[n] = g[n]
  BY <1>4, <1>5
<1>7. Join(more, sep) = g[n] \o sep \o t
  BY <1>1, <1>3, <1>5 DEF JoinStep
<1> QED BY <1>2, <1>5, <1>6, <1>7 DEF more

LEMMA SplitIs ==
    ASSUME NEW S, NEW s \in Seq(S), NEW sep \in Seq(S)
    PROVE  \A i \in 0..Len(s) :
               /\ Split(s, sep)[i] = SplitStep(s, sep, Split(s, sep), i)
               /\ Split(s, sep)[i] \in [tokens : Seq(Seq(S)), start : Nat, next : Nat]
<1> DEFINE n == Len(s)
           X == [tokens : Seq(Seq(S)), start : Nat, next : Nat]
           op == [w \in (0..n) \X [0..n -> X] |-> SplitStep(s, sep, w[2], w[1])]
           none == [tokens |-> <<>>, start |-> 0, next |-> 0]
<1>0. none \in X
  OBVIOUS
<1>1. n \in Nat /\ Len(sep) \in Nat
  OBVIOUS
<1>2. ASSUME NEW i \in 0..n, NEW g \in [0..n -> X]
      PROVE  /\ SplitStep(s, sep, g, i) \in X
             /\ \A h :
                    (\A k \in 0..n : k < i => g[k] = h[k])
                        => SplitStep(s, sep, g, i) = SplitStep(s, sep, h, i)
  <2>1. CASE i = 0
    <3>1. \A h : SplitStep(s, sep, h, i) = none
      BY <2>1 DEF SplitStep
    <3> HIDE DEF X, none
    <3> QED BY <1>0, <3>1
  <2>2. CASE i # 0
    <3> DEFINE Step(st) ==
                 IF i - 1 < Len(s) - (Len(sep) - 1) /\ i - 1 >= st.next /\ SepAt(s, sep, i - 1)
                 THEN [tokens |-> Append(st.tokens, SubSeq(s, st.start + 1, i - 1)),
                       start |-> AfterSep(sep, i - 1), next |-> AfterSep(sep, i - 1)]
                 ELSE st
    <3>1. i - 1 \in 0..n /\ i - 1 < i
      BY <2>2
    <3>2. \A h : SplitStep(s, sep, h, i) = Step(h[i - 1])
      BY <2>2 DEF SplitStep
    <3>3. ASSUME NEW st \in X PROVE Step(st) \in X
      <4>1. AfterSep(sep, i - 1) \in Nat
        BY <1>1, <3>1 DEF AfterSep
      <4>2. SubSeq(s, st.start + 1, i - 1) \in Seq(S)
        <5>1. st.start + 1 \in Int /\ 1 <= st.start + 1 /\ i - 1 \in Int /\ i - 1 <= Len(s)
          BY <1>1, <3>1
        <5> QED BY <5>1, PartType
      <4>3. Append(st.tokens, SubSeq(s, st.start + 1, i - 1)) \in Seq(Seq(S))
        BY <4>2
      <4> QED BY <4>1, <4>3
    <3>4. g[i - 1] \in X
      BY <3>1
    <3> HIDE DEF Step, X
    <3>5. ASSUME NEW h, \A k \in 0..n : k < i => g[k] = h[k]
          PROVE  SplitStep(s, sep, g, i) = SplitStep(s, sep, h, i)
      <4>1. g[i - 1] = h[i - 1]
        BY <3>1, <3>5
      <4> QED BY <3>2, <4>1
    <3> QED BY <3>2, <3>3, <3>4, <3>5
  <2> QED BY <2>1, <2>2
<1> HIDE DEF n
<1>3. op \in [(0..n) \X [0..n -> X] -> X]
  BY <1>2
<1>4. FromEarlier(n, X, op)
  <2>1. \A i \in 0..n, g \in [0..n -> X] : op[<<i, g>>] = SplitStep(s, sep, g, i)
    OBVIOUS
  <2> HIDE DEF op, X
  <2>2. ASSUME NEW i \in 0..n, NEW g \in [0..n -> X], NEW h \in [0..n -> X],
               \A k \in 0..n : k < i => g[k] = h[k]
        PROVE  op[<<i, g>>] = op[<<i, h>>]
    <3>1. SplitStep(s, sep, g, i) = SplitStep(s, sep, h, i)
      BY <1>2, <2>2
    <3> QED BY <2>1, <3>1
  <2> QED BY <1>1, <1>3, <2>2 DEF FromEarlier
<1> DEFINE b == [tokens |-> <<>>, start |-> 0, next |-> 0]
<1>5. b \in X
  OBVIOUS
<1> HIDE DEF X, op, b
<1>6. Definable(n, X, op)
  BY <1>4, <1>5, UpRecursion, Zenon
<1>7. \E f : f \in [0..n -> X] /\ f = [i \in 0..n |-> SplitStep(s, sep, f, i)]
  BY <1>6 DEF op, Definable
<1>8. PICK f \in [0..n -> X] : f = [i \in 0..n |-> SplitStep(s, sep, f, i)]
  BY <1>7
<1> DEFINE g == CHOOSE f_1 : f_1 = [i \in 0..n |-> SplitStep(s, sep, f_1, i)]
<1>9. g = [i \in 0..n |-> SplitStep(s, sep, g, i)]
  BY <1>8
<1>10. Split(s, sep) = g
  BY DEF Split, n
<1> HIDE DEF g
<1>11. \A i \in 0..n : i \in {k \in 0..n : f[k] = g[k]}
  <2> DEFINE P == {k \in 0..n : f[k] = g[k]}
  <2>1. ASSUME NEW i \in 0..n, \A k \in 0..n : k < i => k \in P PROVE i \in P
    <3>1. SplitStep(s, sep, f, i) = SplitStep(s, sep, g, i)
      BY <1>2, <2>1
    <3> QED BY <1>8, <1>9, <3>1
  <2> HIDE DEF P
  <2> QED BY <1>1, <2>1, UpInduction DEF P
<1>12. g \in [0..n -> X]
  BY <1>8, <1>9, <1>11
<1> QED BY <1>9, <1>10, <1>12 DEF X, n

(* The parts of a part. *)
LEMMA PartOfPart ==
    ASSUME NEW S, NEW s \in Seq(S), NEW sep \in Seq(S), NEW m \in Nat, NEW n \in Nat, m <= n, n <= Len(s),
           NEW i \in Nat, i + Len(sep) <= n - m
    PROVE  SepAt(SubSeq(s, m + 1, n), sep, i) <=> SepAt(s, sep, m + i)
<1> DEFINE part == SubSeq(s, m + 1, n)
           k == i + Len(sep)
           a == SubSeq(part, i + 1, k)
           b == SubSeq(s, (m + i) + 1, m + k)
<1>1. part \in Seq(S) /\ Len(part) = n - m /\ \A j \in 1..(n - m) : part[j] = s[m + j]
  BY PartIs
<1>2. k \in Nat /\ i <= k /\ k <= n - m /\ m + k <= Len(s) /\ m + i \in Nat /\ m + k \in Nat
      /\ m + i <= m + k /\ (m + k) - (m + i) = k - i
  OBVIOUS
<1> HIDE DEF part, k
<1>3. a \in Seq(S) /\ Len(a) = k - i /\ \A j \in 1..(k - i) : a[j] = part[i + j]
  BY <1>1, <1>2, PartIs
<1>4. b \in Seq(S) /\ Len(b) = k - i /\ \A j \in 1..(k - i) : b[j] = s[(m + i) + j]
  <2> DEFINE mi == m + i
             mk == m + k
  <2>1. mi \in Nat /\ mk \in Nat /\ mi <= mk /\ mk <= Len(s) /\ mk - mi = k - i
    BY <1>2
  <2> HIDE DEF mi, mk
  <2>2. /\ SubSeq(s, mi + 1, mk) \in Seq(S) /\ Len(SubSeq(s, mi + 1, mk)) = mk - mi
        /\ \A j \in 1..(mk - mi) : SubSeq(s, mi + 1, mk)[j] = s[mi + j]
    BY <2>1, PartIs
  <2> QED BY <2>1, <2>2 DEF mi, mk
<1>5. \A j \in 1..(k - i) : part[i + j] = s[(m + i) + j]
  <2>1. \A j \in 1..(k - i) : i + j \in 1..(n - m) /\ m + (i + j) = (m + i) + j
    BY <1>2
  <2> QED BY <1>1, <2>1
<1> HIDE DEF a, b
<1>6. a = b
  BY <1>3, <1>4, <1>5, SameSeq
<1>7. m + k = (m + i) + Len(sep)
  BY DEF k
<1> QED BY <1>6, <1>7 DEF a, b, k, part, SepAt

LEMMA AppendIs ==
    ASSUME NEW S, NEW a \in Seq(S), NEW x \in S
    PROVE  /\ Append(a, x) \in Seq(S) /\ Append(a, x) # <<>>
           /\ DOMAIN Append(a, x) = 1..(Len(a) + 1) /\ DOMAIN a = 1..Len(a) /\ Len(a) \in Nat
           /\ Append(a, x)[Len(a) + 1] = x
           /\ \A k \in 1..Len(a) : Append(a, x)[k] = a[k]
OBVIOUS

(* While the loop runs: the tokens and what is left are the string, and    *)
(* no separator begins between the start of the next token and the loop.   *)
SplitInv(S, s, sep, st, n) ==
    /\ st.tokens \in Seq(Seq(S))
    /\ st.start \in 0..Len(s) /\ st.next = st.start
    /\ \A i \in st.start..(n - 1) : i + Len(sep) <= Len(s) => ~SepAt(s, sep, i)
    /\ \A k \in DOMAIN st.tokens : ~HasSep(st.tokens[k], sep)
    /\ st.tokens = <<>> => st.start = 0
    /\ st.tokens # <<>> => Join(st.tokens, sep) \o sep = SubSeq(s, 1, st.start)

(* What lies between them has no separator. *)
LEMMA NoSepBetween ==
    ASSUME NEW S, NEW s \in Seq(S), NEW sep \in Seq(S), sep # <<>>,
           NEW m \in Nat, NEW n \in Nat, m <= n, n <= Len(s),
           \A i \in m..(n - 1) : i + Len(sep) <= Len(s) => ~SepAt(s, sep, i)
    PROVE  ~HasSep(SubSeq(s, m + 1, n), sep)
<1> DEFINE part == SubSeq(s, m + 1, n)
<1>1. Len(part) = n - m
  BY PartIs
<1> HIDE DEF part
<1>2. SUFFICES ASSUME NEW i \in 0..((n - m) - Len(sep)), SepAt(part, sep, i) PROVE FALSE
  BY <1>1 DEF HasSep, part
<1>3. Len(sep) \in Nat /\ Len(sep) >= 1
  OBVIOUS
<1>4. i \in Nat /\ i + Len(sep) <= n - m /\ m + i \in m..(n - 1) /\ (m + i) + Len(sep) <= Len(s)
  BY <1>3
<1>5. SepAt(s, sep, m + i)
  BY <1>2, <1>4, PartOfPart DEF part
<1> QED BY <1>4, <1>5

(* A token that ends at n, when what came before is the string up to m.    *)
LEMMA TokenEnds ==
    ASSUME NEW S, NEW s \in Seq(S), NEW sep \in Seq(S), NEW tokens \in Seq(Seq(S)),
           NEW m \in Nat, NEW n \in Nat, m <= n, n <= Len(s),
           tokens = <<>> => m = 0,
           tokens # <<>> => Join(tokens, sep) \o sep = SubSeq(s, 1, m)
    PROVE  Join(Append(tokens, SubSeq(s, m + 1, n)), sep) = SubSeq(s, 1, n)
<1> DEFINE part == SubSeq(s, m + 1, n)
<1>1. part \in Seq(S)
  BY PartIs
<1>2. CASE tokens = <<>>
  <2>1. part = SubSeq(s, 1, n)
    BY <1>2
  <2> HIDE DEF part
  <2>2. Append(tokens, part) = <<part>>
    BY <1>2
  <2>3. Join(<<part>>, sep) = part
    BY <1>1, JoinOne
  <2>4. Join(Append(tokens, part), sep) = SubSeq(s, 1, n)
    BY <2>1, <2>2, <2>3
  <2> QED BY <2>4 DEF part
<1>3. CASE tokens # <<>>
  <2>1. Join(Append(tokens, part), sep) = (Join(tokens, sep) \o sep) \o part
    <3> HIDE DEF part
    <3> QED BY <1>1, <1>3, JoinAppend
  <2>2. SubSeq(s, 1, m) \o part = SubSeq(s, 1, n)
    BY PartsMeet
  <2> QED BY <1>3, <2>1, <2>2
<1> QED BY <1>2, <1>3

LEMMA SplitKeeps ==
    ASSUME NEW S, NEW s \in Seq(S), NEW sep \in Seq(S), sep # <<>>
    PROVE  \A n \in 0..Len(s) : SplitInv(S, s, sep, Split(s, sep)[n], n)
<1> DEFINE loop == Split(s, sep)
           P == {n \in 0..Len(s) : SplitInv(S, s, sep, loop[n], n)}
           L == Len(sep)
<1>1. Len(s) \in Nat /\ L \in Nat /\ L >= 1
  OBVIOUS
<1>2. \A n \in 0..Len(s) : loop[n] = SplitStep(s, sep, loop, n)
  BY SplitIs
<1> HIDE DEF loop
<1>3. ASSUME NEW n \in 0..Len(s), \A k \in 0..Len(s) : k < n => k \in P PROVE n \in P
  <2>1. CASE n = 0
    <3>1. loop[n] = [tokens |-> <<>>, start |-> 0, next |-> 0]
      BY <1>2, <2>1 DEF SplitStep
    <3>2. loop[n].tokens = <<>> /\ loop[n].start = 0 /\ loop[n].next = 0
      BY <3>1
    <3>3. \A i \in 0..(n - 1) : FALSE
      BY <2>1
    <3>4. \A k \in DOMAIN <<>> : FALSE
      OBVIOUS
    <3>5. <<>> \in Seq(Seq(S)) /\ 0 \in 0..Len(s)
      BY <1>1
    <3>6. SplitInv(S, s, sep, loop[n], n)
      BY <3>2, <3>3, <3>4, <3>5 DEF SplitInv
    <3> QED BY <3>6
  <2>2. CASE n # 0
    <3> DEFINE i == n - 1
               st == loop[i]
               cut == [tokens |-> Append(st.tokens, SubSeq(s, st.start + 1, i)),
                       start |-> i + L, next |-> i + L]
    <3>1. i \in 0..Len(s) /\ i < n /\ i \in Nat /\ i + 1 = n
      BY <2>2
    <3>2. SplitInv(S, s, sep, st, i)
      BY <1>3, <3>1
    <3>3. loop[n] = IF i < Len(s) - (L - 1) /\ i >= st.next /\ SepAt(s, sep, i) THEN cut ELSE st
      BY <1>2, <2>2 DEF SplitStep, AfterSep
    <3>4. CASE i < Len(s) - (L - 1) /\ i >= st.next /\ SepAt(s, sep, i)
      <4> DEFINE m == st.start
                 tok == SubSeq(s, m + 1, i)
                 tokens == st.tokens
      <4>1. m \in Nat /\ m <= i /\ i <= Len(s) /\ i + L <= Len(s) /\ tokens \in Seq(Seq(S))
        BY <1>1, <3>1, <3>2, <3>4 DEF SplitInv
      <4>2. tok \in Seq(S)
        BY <3>1, <4>1, PartIs
      <4>3. ~HasSep(tok, sep)
        <5>1. \A j \in m..(i - 1) : j + Len(sep) <= Len(s) => ~SepAt(s, sep, j)
          BY <3>2 DEF SplitInv
        <5> HIDE DEF m, i, st
        <5> QED BY <3>1, <4>1, <5>1, NoSepBetween
      <4>4. Join(Append(tokens, tok), sep) = SubSeq(s, 1, i)
        <5>1. /\ tokens = <<>> => m = 0
              /\ tokens # <<>> => Join(tokens, sep) \o sep = SubSeq(s, 1, m)
          BY <3>2 DEF SplitInv
        <5> HIDE DEF m, i, st, tokens
        <5> QED BY <3>1, <4>1, <5>1, TokenEnds
      <4>5. SubSeq(s, 1, i) \o sep = SubSeq(s, 1, i + L)
        <5>1. sep = SubSeq(s, i + 1, i + L)
          BY <3>4 DEF SepAt
        <5>2. i + L \in Nat /\ i <= i + L
          BY <1>1, <3>1
        <5> HIDE DEF i, L
        <5> QED BY <3>1, <4>1, <5>1, <5>2, PartsMeet
      <4>6. loop[n] = cut
        BY <3>3, <3>4
      <4> DEFINE longer == Append(tokens, tok)
                 behind == i + L
      <4> HIDE DEF longer, behind
      <4>12. cut = [tokens |-> longer, start |-> behind, next |-> behind]
        BY DEF longer, behind
      <4> HIDE DEF cut, i, st
      <4>13. loop[n].tokens = longer /\ loop[n].start = behind /\ loop[n].next = behind
        BY <4>6, <4>12
      <4> USE DEF i, st
      <4>7. loop[n].tokens = Append(tokens, tok) /\ loop[n].start = i + L /\ loop[n].next = i + L
        BY <4>13 DEF longer, behind
      <4>8. /\ Append(tokens, tok) \in Seq(Seq(S)) /\ Append(tokens, tok) # <<>>
            /\ \A k \in DOMAIN Append(tokens, tok) : ~HasSep(Append(tokens, tok)[k], sep)
        <5>1. \A k \in DOMAIN tokens : ~HasSep(tokens[k], sep)
          BY <3>2 DEF SplitInv
        <5> HIDE DEF tok, tokens
        <5>2. /\ Append(tokens, tok) \in Seq(Seq(S)) /\ Append(tokens, tok) # <<>>
              /\ DOMAIN Append(tokens, tok) = 1..(Len(tokens) + 1) /\ DOMAIN tokens = 1..Len(tokens)
              /\ Append(tokens, tok)[Len(tokens) + 1] = tok
              /\ \A k \in 1..Len(tokens) : Append(tokens, tok)[k] = tokens[k]
              /\ Len(tokens) \in Nat
          BY <4>1, <4>2, AppendIs, SMTT(60)
        <5>3. ASSUME NEW k \in 1..(Len(tokens) + 1) PROVE ~HasSep(Append(tokens, tok)[k], sep)
          <6>1. CASE k = Len(tokens) + 1
            BY <4>3, <5>2, <6>1
          <6>2. CASE k # Len(tokens) + 1
            <7>1. k \in 1..Len(tokens)
              BY <5>2, <6>2
            <7> QED BY <5>1, <5>2, <7>1
          <6> QED BY <6>1, <6>2
        <5> QED BY <5>2, <5>3
      <4>9. \A j \in (i + L)..(n - 1) : FALSE
        BY <1>1, <3>1
      <4>10. i + L \in 0..Len(s)
        BY <1>1, <3>1, <4>1
      <4> HIDE DEF tok, tokens, i, L, st, cut
      <4>11. SplitInv(S, s, sep, loop[n], n)
        BY <4>4, <4>5, <4>7, <4>8, <4>9, <4>10 DEF SplitInv
      <4> QED BY <4>11
    <3>5. CASE ~(i < Len(s) - (L - 1) /\ i >= st.next /\ SepAt(s, sep, i))
      <4>1. loop[n] = st
        BY <3>3, <3>5
      <4>2. ASSUME NEW j \in st.start..(n - 1), j + Len(sep) <= Len(s) PROVE ~SepAt(s, sep, j)
        <5>1. st.start \in Nat /\ st.next = st.start
              /\ \A k \in st.start..(i - 1) : k + Len(sep) <= Len(s) => ~SepAt(s, sep, k)
          BY <3>2 DEF SplitInv
        <5>2. CASE j = i
          <6>1. i < Len(s) - (L - 1) /\ i >= st.next
            BY <1>1, <3>1, <4>2, <5>1, <5>2
          <6> QED BY <3>5, <5>2, <6>1
        <5>3. CASE j # i
          <6>1. j \in st.start..(i - 1)
            BY <3>1, <5>1, <5>3
          <6> QED BY <4>2, <5>1, <6>1
        <5> QED BY <5>2, <5>3
      <4>3. SplitInv(S, s, sep, st, n)
        BY <3>2, <4>2 DEF SplitInv
      <4> QED BY <4>1, <4>3
    <3> QED BY <3>4, <3>5
  <2> QED BY <2>1, <2>2
<1> HIDE DEF P
<1>4. \A n \in 0..Len(s) : n \in P
  BY <1>1, <1>3, UpInduction
<1> QED BY <1>4 DEF P, loop

LEMMA SplitDecides ==
    ASSUME NEW S, NEW s \in Seq(S), NEW sep \in Seq(S), sep # <<>>
    PROVE  /\ Join(sdssplitlen(s, sep), sep) = s
           /\ \A i \in DOMAIN sdssplitlen(s, sep) : ~HasSep(sdssplitlen(s, sep)[i], sep)
<1> DEFINE st == Split(s, sep)[Len(s)]
           m == st.start
           n == Len(s)
           tok == SubSeq(s, m + 1, n)
           tokens == st.tokens
<1>1. n \in Nat /\ n \in 0..Len(s) /\ n <= Len(s)
  OBVIOUS
<1>2. SplitInv(S, s, sep, st, n)
  BY <1>1, SplitKeeps
<1>3. m \in Nat /\ m <= n /\ tokens \in Seq(Seq(S))
  BY <1>1, <1>2 DEF SplitInv
<1>4. tok \in Seq(S)
  BY <1>1, <1>3, PartIs
<1>5. ~HasSep(tok, sep)
  <2>1. \A j \in m..(n - 1) : j + Len(sep) <= Len(s) => ~SepAt(s, sep, j)
    BY <1>2 DEF SplitInv
  <2> HIDE DEF m, n, st
  <2> QED BY <1>1, <1>3, <2>1, NoSepBetween
<1>6. Join(Append(tokens, tok), sep) = SubSeq(s, 1, n)
  <2>1. /\ tokens = <<>> => m = 0
        /\ tokens # <<>> => Join(tokens, sep) \o sep = SubSeq(s, 1, m)
    BY <1>2 DEF SplitInv
  <2> HIDE DEF m, n, st, tokens
  <2> QED BY <1>1, <1>3, <2>1, TokenEnds
<1>7. SubSeq(s, 1, n) = s
  OBVIOUS
<1>8. sdssplitlen(s, sep) = Append(tokens, tok)
  BY DEF sdssplitlen
<1>9. \A k \in DOMAIN tokens : ~HasSep(tokens[k], sep)
  BY <1>2 DEF SplitInv
<1> HIDE DEF tok, tokens
<1>10. /\ DOMAIN Append(tokens, tok) = 1..(Len(tokens) + 1) /\ DOMAIN tokens = 1..Len(tokens)
       /\ Append(tokens, tok)[Len(tokens) + 1] = tok
       /\ \A k \in 1..Len(tokens) : Append(tokens, tok)[k] = tokens[k]
       /\ Len(tokens) \in Nat
  BY <1>3, <1>4, AppendIs
<1>11. ASSUME NEW k \in 1..(Len(tokens) + 1) PROVE ~HasSep(Append(tokens, tok)[k], sep)
  <2>1. CASE k = Len(tokens) + 1
    BY <1>5, <1>10, <2>1
  <2>2. CASE k # Len(tokens) + 1
    <3>1. k \in 1..Len(tokens)
      BY <1>10, <2>2
    <3> QED BY <1>9, <1>10, <3>1
  <2> QED BY <2>1, <2>2
<1> QED BY <1>6, <1>7, <1>8, <1>10, <1>11

----------------------------------------------------------------------------
(* For every string that the operations of Sds can lead to                 *)

LEMMA StringsAnswer == TypeOK => GlobIsLanguage /\ SplitJoins
<1>1. SUFFICES ASSUME TypeOK PROVE GlobIsLanguage /\ SplitJoins
  OBVIOUS
<1>2. bytes \in Seq(Byte)
  BY <1>1 DEF TypeOK
<1>3. bytes \in Pattern
  <2>1. bytes \in [1..Len(bytes) -> Byte] /\ Len(bytes) \in Nat
    BY <1>2
  <2>2. \A i \in 1..Len(bytes) : bytes[i] \in Nat
    BY <2>1, SdsAssumption
  <2>3. bytes \in [1..Len(bytes) -> Nat]
    BY <2>1, <2>2
  <2> QED BY <2>1, <2>3 DEF Pattern
<1>4. ASSUME bytes # <<>>, NEW p \in Patterns, ~Dangling(p)
      PROVE  stringmatchlen(p, bytes) = Matches(p, bytes)
  <2>1. p \in Pattern
    BY PatternsType
  <2> QED BY <1>3, <1>4, <2>1, GlobDecides
<1>5. ASSUME NEW sep \in Arg \ {<<>>}
      PROVE  /\ Join(sdssplitlen(bytes, sep), sep) = bytes
             /\ \A i \in DOMAIN sdssplitlen(bytes, sep) : ~HasSep(sdssplitlen(bytes, sep)[i], sep)
  <2>1. sep \in Seq(Byte) /\ sep # <<>>
    BY ArgType
  <2> QED BY <1>2, <2>1, SplitDecides
<1>6. GlobIsLanguage
  BY <1>4 DEF GlobIsLanguage
<1>7. SplitJoins
  BY <1>5 DEF SplitJoins
<1> QED BY <1>6, <1>7

(* KEYS lists what the pattern says: the walk of stringmatchlen decides    *)
(* the language of the pattern, for patterns and keys of any length.       *)
THEOREM GlobDecided == Spec => []GlobIsLanguage
<1>1. SInv => GlobIsLanguage
  BY StringsAnswer DEF SInv
<1> QED BY <1>1, SdsInvariance, PTL

(* A string that was split joins again, for any separator.                 *)
THEOREM SplitJoined == Spec => []SplitJoins
<1>1. SInv => SplitJoins
  BY StringsAnswer DEF SInv
<1> QED BY <1>1, SdsInvariance, PTL
=============================================================================
