------------------------------- MODULE Strings -------------------------------
(***************************************************************************)
(* Functions without an effect: stringmatchlen of redis.c, which KEYS      *)
(* calls for every key, and sdssplitlen of sds.c.  Each comes with a       *)
(* definition of what it should answer, for the string that Sds follows.   *)
(* Loops and calls are recursive functions of the position they are at.    *)
(***************************************************************************)
EXTENDS Sds

CONSTANTS
    Symbols,       \* the bytes of patterns
    MaxPattern     \* bound: length of a pattern

ASSUME StringsAssumption == Symbols \subseteq Nat /\ MaxPattern \in Nat

Patterns == BoundedSeq(Symbols, MaxPattern)

Star == 42
Quest == 63
Open == 91
Close == 93
Caret == 94
Dash == 45
Escape == 92

Least(S) == CHOOSE i \in S : \A j \in S : i <= j

----------------------------------------------------------------------------
(* stringmatchlen *)

(* pattern[0] is p[i] and string[0] is s[j], from 0; patternLen and        *)
(* stringLen always move with the pointers.  Behind the last byte is a     *)
(* NUL, and behind that Outside, where nobody should read.  nocase, which  *)
(* KEYS never asks for, is left out.                                       *)
Outside == -1
At(s, k) == IF k < Len(s) THEN s[k + 1] ELSE IF k = Len(s) THEN 0 ELSE Outside

(* [p[i]-p[i+2]], whichever of the two is less.                            *)
InRange(c, p, i) ==
    LET a == At(p, i)
        b == At(p, i + 2)
    IN  IF a > b THEN b <= c /\ c <= a ELSE a <= c /\ c <= b

(* The loop inside brackets, from i on: where it leaves i, and whether a   *)
(* byte it saw matched c.  class[k] is what it comes to from k on.         *)
ClassStep(p, c, class, i) ==
    LET here == At(p, i)
        On(k, seen) == [i |-> class[k].i, match |-> class[k].match \/ seen]
    IN  IF here = Escape THEN On(i + 2, At(p, i + 1) = c)
        ELSE IF here \in {Close, Outside} THEN [i |-> i, match |-> FALSE]
        ELSE IF i = Len(p) THEN [i |-> i - 1, match |-> FALSE]
        ELSE IF At(p, i + 1) = Dash /\ Len(p) - i >= 3
             THEN On(i + 3, InRange(c, p, i))
        ELSE On(i + 1, here = c)
Class(p, c) ==
    LET class[i \in 0..(Len(p) + 1)] == ClassStep(p, c, class, i) IN class

Negated(p, i) == At(p, i + 1) = Caret
(* Where the loop begins, for brackets that open at i.                     *)
ClassFrom(p, i) == IF Negated(p, i) THEN i + 2 ELSE i + 1

(* Stars that follow the one at i.                                         *)
Stars(p, i) == Least({k \in i..Len(p) : At(p, k + 1) # Star})
(* Stars from i on, once the string is used up.                            *)
NoStars(p, i) == Least({k \in i..Len(p) : At(p, k) # Star})

(* An escape stands for the byte behind it.                                *)
Literal(p, i) == IF p[i + 1] = Escape /\ Len(p) - i >= 2 THEN i + 1 ELSE i

(* What the loop answers after the byte before j matched the pattern up to *)
(* i; match[i] are the places of the string where it answers 1 from i on.  *)
MatchedNoStars(match, p, i, s, j) ==    \* for the mutant of Matched
    IF j = Len(s) THEN i = Len(p) ELSE j \in match[i]
Matched(match, p, i, s, j) ==
    IF j = Len(s) THEN NoStars(p, i) = Len(p) ELSE j \in match[i]

(* One pass of the loop, for a string that is not empty: stringLen is not  *)
(* 0 when the loop and the calls inside a star begin.  Brackets may end    *)
(* behind the pattern, at most two bytes.                                  *)
MatchStep(p, s, match, i) ==
    {j \in 0..(Len(s) - 1) :
        /\ i < Len(p)
        /\ CASE p[i + 1] = Star ->
                    LET k == Stars(p, i)
                    IN  k + 1 = Len(p) \/ \E l \in match[k + 1] : j <= l
             [] p[i + 1] = Quest -> Matched(match, p, i + 1, s, j + 1)
             [] p[i + 1] = Open ->
                    LET class == Class(p, At(s, j))[ClassFrom(p, i)]
                    IN  /\ class.match # Negated(p, i)
                        /\ Matched(match, p, class.i + 1, s, j + 1)
             [] OTHER ->
                    LET k == Literal(p, i)
                    IN  At(p, k) = At(s, j) /\ Matched(match, p, k + 1, s, j + 1)}
stringmatchlen(p, s) ==
    LET match[i \in 0..(Len(p) + 2)] == MatchStep(p, s, match, i) IN 0 \in match[0]

(* What brackets list from i on, among the bytes of `all`, and what is     *)
(* behind them.                                                            *)
ListStep(p, all, listed, i) ==
    LET With(set, k) == [set |-> set \union listed[k].set, next |-> listed[k].next]
    IN  IF i >= Len(p) THEN [set |-> {}, next |-> i]
        ELSE CASE p[i + 1] = Close -> [set |-> {}, next |-> i + 1]
               [] p[i + 1] = Escape -> With({At(p, i + 1)}, i + 2)
               [] OTHER ->
                    IF Len(p) - i >= 3 /\ p[i + 2] = Dash
                    THEN With({b \in all : InRange(b, p, i)}, i + 3)
                    ELSE With({p[i + 1]}, i + 1)
Listed(p, all) ==
    LET listed[i \in 0..(Len(p) + 1)] == ListStep(p, all, listed, i) IN listed

(* The item of a pattern at i: a star, or the set of bytes that one byte   *)
(* may be.                                                                 *)
Item(p, i, all) ==
    LET One(set, next) == [star |-> FALSE, set |-> set, next |-> next]
    IN  CASE p[i + 1] = Star -> [star |-> TRUE, set |-> {}, next |-> i + 1]
          [] p[i + 1] = Quest -> One(all, i + 1)
          [] p[i + 1] = Open ->
                LET class == Listed(p, all)[ClassFrom(p, i)]
                IN  One(IF Negated(p, i) THEN all \ class.set ELSE class.set, class.next)
          [] p[i + 1] = Escape /\ i + 2 <= Len(p) -> One({p[i + 2]}, i + 2)
          [] OTHER -> One({p[i + 1]}, i + 1)

(* The string is cut into one piece for each item: of one byte for a set,  *)
(* of any length for a star.  rest[i] are the places from which it can be  *)
(* cut to its end for the items from i on.                                 *)
RestStep(p, s, rest, i) ==
    IF i >= Len(p) THEN {Len(s)}
    ELSE LET item == Item(p, i, ToSet(s))
             behind == rest[item.next]
         IN  IF item.star
             THEN {j \in 0..Len(s) : \E k \in behind : j <= k}
             ELSE {j \in 0..(Len(s) - 1) : s[j + 1] \in item.set /\ j + 1 \in behind}
Matches(p, s) ==
    LET rest[i \in 0..(Len(p) + 1)] == RestStep(p, s, rest, i) IN 0 \in rest[0]

(* Brackets whose last byte is an Escape: the loop leaves the pattern.     *)
DanglingStep(p, dangling, i) ==
    /\ i < Len(p)
    /\ CASE p[i + 1] = Open ->
                LET class == Class(p, 0)[ClassFrom(p, i)]
                IN  class.i > Len(p) \/ dangling[class.i + 1]
         [] p[i + 1] = Escape -> dangling[i + 2]
         [] OTHER -> dangling[i + 1]
Dangling(p) ==
    LET dangling[i \in 0..(Len(p) + 1)] == DanglingStep(p, dangling, i) IN dangling[0]

----------------------------------------------------------------------------
(* sdssplitlen *)

(* A separator found at i ends a token, and the loop goes on behind it.    *)
SepAt(s, sep, i) == SubSeq(s, i + 1, i + Len(sep)) = sep
AfterSepByte(sep, i) == i + 1    \* for the mutant of AfterSep
AfterSep(sep, i) == i + Len(sep)
(* loop[n] is the state when the loop has passed the places below n: next  *)
(* is the place it looks at next.                                          *)
SplitStep(s, sep, loop, n) ==
    IF n = 0 THEN [tokens |-> <<>>, start |-> 0, next |-> 0]
    ELSE LET i == n - 1
             st == loop[i]
         IN  IF i < Len(s) - (Len(sep) - 1) /\ i >= st.next /\ SepAt(s, sep, i)
             THEN [tokens |-> Append(st.tokens, SubSeq(s, st.start + 1, i)),
                   start |-> AfterSep(sep, i), next |-> AfterSep(sep, i)]
             ELSE st
Split(s, sep) == LET loop[n \in 0..Len(s)] == SplitStep(s, sep, loop, n) IN loop
sdssplitlen(s, sep) ==
    LET end == Split(s, sep)[Len(s)]
    IN  Append(end.tokens, SubSeq(s, end.start + 1, Len(s)))

HasSep(s, sep) == \E i \in 0..(Len(s) - Len(sep)) : SepAt(s, sep, i)
JoinStep(tokens, sep, join, n) ==
    IF n = 0 THEN tokens[1] ELSE join[n - 1] \o sep \o tokens[n + 1]
Join(tokens, sep) ==
    LET join[n \in 0..(Len(tokens) - 1)] == JoinStep(tokens, sep, join, n)
    IN  join[Len(tokens) - 1]

----------------------------------------------------------------------------
(* Properties *)

(* KEYS lists what the pattern says, for every key that is not empty and   *)
(* every pattern but those that end inside brackets with an escape: the    *)
(* byte by byte walk of stringmatchlen decides the language of the         *)
(* pattern.                                                                *)
GlobIsLanguage ==
    bytes # <<>> => \A p \in Patterns : ~Dangling(p) =>
        stringmatchlen(p, bytes) = Matches(p, bytes)

(* The tokens of sdssplitlen, joined with the separator, are the string    *)
(* again, and no separator is left in one, also when separators overlap.   *)
SplitJoins ==
    \A sep \in Arg \ {<<>>} :
        LET tokens == sdssplitlen(bytes, sep)
        IN  /\ Join(tokens, sep) = bytes
            /\ \A i \in DOMAIN tokens : ~HasSep(tokens[i], sep)
=============================================================================
