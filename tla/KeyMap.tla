------------------------------- MODULE KeyMap -------------------------------
(***************************************************************************)
(* What dict.h promises of a dict: a finite map.  Every call is one step   *)
(* that leaves its answer in reply.                                        *)
(***************************************************************************)
CONSTANTS Key, Val, Nil

VARIABLES map,   \* a function from the keys present to their values
          reply  \* the answer of the last call

vars == <<map, reply>>

Put(k, v) == [x \in DOMAIN map \union {k} |-> IF x = k THEN v ELSE map[x]]
Answer(op, k, res) == reply' = [op |-> op, key |-> k, res |-> res]

Init == map = [k \in {} |-> Nil] /\ reply = [op |-> "none", key |-> Nil, res |-> Nil]

Add(k, v) ==
    \/ /\ k \notin DOMAIN map
       /\ map' = Put(k, v)
       /\ Answer("add", k, "ok")
    \/ /\ k \in DOMAIN map
       /\ map' = map
       /\ Answer("add", k, "err")

Replace(k, v) == map' = Put(k, v) /\ Answer("replace", k, "ok")

Delete(k) ==
    /\ map' = [x \in DOMAIN map \ {k} |-> map[x]]
    /\ Answer("delete", k, IF k \in DOMAIN map THEN "ok" ELSE "err")

Find(k) ==
    /\ map' = map
    /\ Answer("find", k, IF k \in DOMAIN map THEN map[k] ELSE Nil)

Empty == map' = [k \in {} |-> Nil] /\ Answer("empty", Nil, "ok")

RandomKey ==
    /\ map' = map
    /\ \/ DOMAIN map = {} /\ Answer("random", Nil, Nil)
       \/ \E k \in DOMAIN map : Answer("random", k, map[k])

Next == \/ \E k \in Key : Delete(k) \/ Find(k)
        \/ \E k \in Key, v \in Val : Add(k, v) \/ Replace(k, v)
        \/ Empty \/ RandomKey

Spec == Init /\ [][Next]_vars
=============================================================================
