-------------------------------- MODULE Text --------------------------------
(***************************************************************************)
(* What sds promises: a sequence of bytes that is replaced, appended to,   *)
(* stripped and cut, each as the call says.                                *)
(***************************************************************************)
EXTENDS Integers, Sequences

CONSTANTS Byte, Arg, Nul

VARIABLES text, call

Part(i, j) == SubSeq(text, i, j)    \* empty if i > j
All(t, S) == \A i \in DOMAIN t : t[i] \in S

(* An index from the end, if it is negative; one before the start is 0.    *)
Index(k, len) == IF k >= 0 THEN k ELSE IF len + k < 0 THEN 0 ELSE len + k
Inside(k, len) == IF k < len THEN k ELSE len - 1

Assigned(t) == text' = t
Extended(t) == text' = text \o t

(* Neither end is in cset any more, and nothing else is gone.  The NUL     *)
(* that ends cset counts as one of its bytes.                              *)
Stripped(cset) ==
    LET gone == cset \union {Nul}
    IN  \E i \in 1..(Len(text) + 1), j \in 0..Len(text) :
            /\ j >= i - 1
            /\ All(Part(1, i - 1) \o Part(j + 1, Len(text)), gone)
            /\ j >= i => text[i] \notin gone /\ text[j] \notin gone
            /\ text' = Part(i, j)

(* From start to end, the end included; indexes behind the end stand for   *)
(* the last byte.                                                          *)
Cut(start, end) ==
    LET lo == Index(start, Len(text))
        hi == Index(end, Len(text))
    IN  text' = IF lo > hi THEN <<>>
                ELSE Part(Inside(lo, Len(text)) + 1, Inside(hi, Len(text)) + 1)

(* Up to the first NUL.                                                    *)
Ended == \E n \in 0..Len(text) :
    /\ All(Part(1, n), Byte \ {Nul})
    /\ n < Len(text) => text[n + 1] = Nul
    /\ text' = Part(1, n)

Init == text \in Arg /\ call = <<"new">>

Next ==
    \/ call'[1] = "set" /\ Assigned(call'[2])
    \/ call'[1] = "cat" /\ Extended(call'[2])
    \/ call'[1] = "trim" /\ Stripped(call'[2])
    \/ call'[1] = "range" /\ Cut(call'[2], call'[3])
    \/ call'[1] = "updatelen" /\ Ended

Spec == Init /\ [][Next]_<<text, call>>
=============================================================================
