------------------------------- MODULE MCDict -------------------------------
(* Small instances of Dict for TLC. *)
EXTENDS Dict, TLC

CONSTANTS k1, k2, k3, k4, k5, k6, v1, v2

FourKeys == {k1, k2, k3, k4}
FiveKeys == FourKeys \union {k5}
SixKeys  == FiveKeys \union {k6}
OneVal   == {v1}
TwoVals  == {v1, v2}

(* Keys that share a slot at some sizes and part at larger ones. *)
SpreadHash == k1 :> 0 @@ k2 :> 1 @@ k3 :> 2 @@ k4 :> 4 @@ k5 :> 7 @@ k6 :> 8
HashOf == [k \in Key |-> SpreadHash[k]]
=============================================================================
