--------------------------- MODULE MCReplication ---------------------------
(* Small instances of Replication for TLC. *)
EXTENDS Replication, TLC

(* Smaller than what syncRead asks for, as long, and longer. *)
Lengths == [v \in 0..4 |-> v + 1]
=============================================================================
