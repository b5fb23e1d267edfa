-------------------------------- MODULE Sds --------------------------------
(***************************************************************************)
(* The strings of sds.c: a header with the length and the free bytes in    *)
(* front of the bytes and a terminating NUL.  One string is followed       *)
(* through any sequence of operations; the bytes behind the terminator are *)
(* never read and left out.                                                *)
(***************************************************************************)
EXTENDS Integers, SequencesExt

CONSTANTS
    Byte,      \* small numbers
    Nul,       \* the byte 0
    MaxArg,    \* bound: length of an argument
    MaxLen     \* bound: length of the string

ASSUME SdsAssumption == Nul \in Byte /\ Byte \subseteq Nat /\ MaxArg \in Nat /\ MaxLen \in Nat

VARIABLES
    bytes,    \* the bytes before the terminator: len of them
    free,     \* sh->free
    size,     \* bytes allocated for the string, without the terminator
    spoilt,   \* a write went past the allocation
    call      \* the last call, with its arguments; no operation reads it

header == <<free, size>>
vars == <<bytes, header, spoilt, call>>

Arg == BoundedSeq(Byte, MaxArg)
len == Len(bytes)

(* Bytes first..first+n-1 of the string, counted from 0.                   *)
Bytes(first, n) == SubSeq(bytes, first + 1, first + n)

----------------------------------------------------------------------------
(* Space *)

(* What is free and what is allocated after sdsMakeRoomFor.                *)
Grows(addlen) == free < addlen
NewLen(addlen) == (len + addlen) * 2
FreeAfterAll(addlen) == IF Grows(addlen) THEN NewLen(addlen) ELSE free    \* mutant
FreeAfter(addlen) == IF Grows(addlen) THEN NewLen(addlen) - len ELSE free
SizeAfter(addlen) == IF Grows(addlen) THEN NewLen(addlen) ELSE size

(* The string becomes t, which is written with its terminator.             *)
Becomes(t) == bytes' = t /\ spoilt' = (Len(t) > size')

(* t is a part of the string that was moved to its front.                  *)
Shrink(t) ==
    /\ UNCHANGED size
    /\ Becomes(t)
    /\ free' = free + (len - Len(t))

----------------------------------------------------------------------------
(* Operations *)

(* What strlen sees of t.                                                  *)
FirstNul(t) == SelectInSeq(t, LAMBDA b : b = Nul)
UpToNul(t) == IF FirstNul(t) = 0 THEN t ELSE SubSeq(t, 1, FirstNul(t) - 1)

sdsnewlen(t) == free' = 0 /\ size' = Len(t) /\ Becomes(t)
sdsnew(t) == sdsnewlen(UpToNul(t))
sdsdup == sdsnewlen(bytes)

sdscatlen(t) ==
    /\ len + Len(t) <= MaxLen
    /\ size' = SizeAfter(Len(t))
    /\ Becomes(bytes \o t)
    /\ free' = FreeAfter(Len(t)) - Len(t)
sdscat(t) == sdscatlen(UpToNul(t))
(* The text is formatted into a buffer that doubles until it fits.         *)
sdscatprintf(t) == sdscat(t)

(* sdsMakeRoomFor is asked for the bytes that are missing and compares     *)
(* them with what is free, which it counts a second time.                  *)
sdscpylen(t) ==
    /\ Len(t) <= MaxLen
    /\ LET totlen == free + len
           missing == Len(t) - totlen
       IN  IF missing > 0
           THEN /\ size' = SizeAfter(missing)
                /\ free' = FreeAfter(missing) + len - Len(t)
           ELSE size' = size /\ free' = totlen - Len(t)
    /\ Becomes(t)
sdscpy(t) == sdscpylen(UpToNul(t))

(* sp moves up to the first byte that is not in cset or behind the end, ep *)
(* down to the last one or to the start.  strchr finds the NUL in any cset.*)
Stays(k, cset) == bytes[k + 1] \notin cset \union {Nul}
Sp(cset) == CHOOSE k \in 0..len :
    /\ k < len => Stays(k, cset)
    /\ \A j \in 0..(k - 1) : ~Stays(j, cset)
Ep(cset) == IF len = 0 THEN -1 ELSE CHOOSE k \in 0..(len - 1) :
    /\ k > 0 => Stays(k, cset)
    /\ \A j \in (k + 1)..(len - 1) : ~Stays(j, cset)
sdstrim(cset) ==
    LET sp == Sp(cset)
        ep == Ep(cset)
    IN  Shrink(Bytes(sp, IF sp > ep THEN 0 ELSE ep - sp + 1))

FromEndPast(k) == IF k >= 0 THEN k ELSE IF len + k < 0 THEN 0 ELSE len + k + 1    \* mutant
FromEnd(k) == IF k >= 0 THEN k ELSE IF len + k < 0 THEN 0 ELSE len + k
Last0(k) == IF k >= len THEN len - 1 ELSE k
sdsrange(start, end) ==
    /\ len > 0
    /\ LET s == FromEnd(start)
           e == FromEnd(end)
       IN  Shrink(IF s > e THEN <<>> ELSE Bytes(Last0(s), Last0(e) - Last0(s) + 1))

(* strlen, for a caller that wrote into the string.                        *)
Strlen == CHOOSE n \in 0..len :
    /\ n < len => bytes[n + 1] = Nul
    /\ \A i \in 1..n : bytes[i] # Nul
sdsupdatelen == Shrink(Bytes(0, Strlen))

----------------------------------------------------------------------------
Init == bytes \in Arg /\ free = 0 /\ size = Len(bytes) /\ spoilt = FALSE /\ call = <<"new">>

(* Arguments given by the caller, as bytes and a length or as a C string.  *)
Calls(name, t) == call' = <<name, t>>
Write(t) ==
    \/ Calls("set", t) /\ (sdsnewlen(t) \/ sdscpylen(t))
    \/ Calls("set", UpToNul(t)) /\ (sdsnew(t) \/ sdscpy(t))
    \/ Calls("cat", t) /\ sdscatlen(t)
    \/ Calls("cat", UpToNul(t)) /\ (sdscat(t) \/ sdscatprintf(t))

Next ==
    /\ ~spoilt
    /\ \/ Calls("set", bytes) /\ sdsdup
       \/ call' = <<"updatelen">> /\ sdsupdatelen
       \/ \E t \in Arg : Write(t)
       \/ \E cset \in SUBSET Byte : Calls("trim", cset) /\ sdstrim(cset)
       \/ \E start, end \in -(MaxLen + 1)..(MaxLen + 1) :
              call' = <<"range", start, end>> /\ sdsrange(start, end)

Spec == Init /\ [][Next]_vars

----------------------------------------------------------------------------
(* Properties *)

TypeOK ==
    /\ bytes \in Seq(Byte) /\ free \in Int /\ size \in Nat /\ spoilt \in BOOLEAN

(* The header tells what is left of the allocation, through growing,       *)
(* stripping and replacing in any order, and something was written past it *)
(* exactly if that is negative.                                            *)
FreeIsExact == len + free = size /\ (spoilt <=> free < 0)

(* "buf takes len + free + 1 bytes": nothing is written past them.         *)
NeverSpoilt == ~spoilt

(* The bytes are those of Text: every call leaves the text it should.      *)
T == INSTANCE Text WITH text <- bytes
ImplementsText == T!Spec
=============================================================================
