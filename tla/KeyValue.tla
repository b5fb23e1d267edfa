------------------------------ MODULE KeyValue ------------------------------
(***************************************************************************)
(* What java.util.Map promises of put, remove and clear: a finite map, and *)
(* the value that was there before as the answer.                          *)
(***************************************************************************)
CONSTANTS Key, Val, Null

VARIABLES map, reply,
          serving  \* FALSE once the map's promises are void

vars == <<map, reply, serving>>

Stored(k) == IF k \in DOMAIN map THEN map[k] ELSE Null
Answer(op, k, v, res) == reply' = [op |-> op, key |-> k, val |-> v, res |-> res]

Put(k, v) ==
    /\ map' = [x \in DOMAIN map \union {k} |-> IF x = k THEN v ELSE map[x]]
    /\ Answer("put", k, v, Stored(k))

Remove(k) ==
    /\ map' = [x \in DOMAIN map \ {k} |-> map[x]]
    /\ Answer("remove", k, Null, Stored(k))

Clear == DOMAIN map' = {} /\ Answer("clear", Null, Null, Null)

Init ==
    /\ DOMAIN map = {} /\ serving = TRUE
    /\ reply = [op |-> "new", key |-> Null, val |-> Null, res |-> Null]

Next ==
    \/ /\ serving /\ serving' = TRUE
       /\ \/ \E k \in Key, v \in Val : Put(k, v)
          \/ \E k \in Key : Remove(k)
          \/ Clear
    \/ serving' = FALSE

Spec == Init /\ [][Next]_vars
=============================================================================
