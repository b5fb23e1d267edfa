----------------------------- MODULE MCKeyspace -----------------------------
(* Small instances of Keyspace. *)
EXTENDS Keyspace

CONSTANTS s1, s2, d1, d2, NoStr

MCStr == {s1, s2}
MCDb == {d1, d2}
MCIndex == {0, -1}
MCBumped == (NoStr :> s1) @@ (s1 :> s2) @@ (s2 :> s1)

(* Nothing depends on dirty: only its changes matter. *)
ButDirty == <<heap, db, reply, fate>>

Databases == Permutations(MCDb)
=============================================================================
