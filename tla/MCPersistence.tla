--------------------------- MODULE MCPersistence ---------------------------
(* Small instances of Persistence for TLC. *)
EXTENDS Persistence, TLC

CONSTANTS c1, c2

Children == {c1, c2}
OneChildOnly == {c1}
PidSymmetry == Permutations(Pid)

(* "after 0 seconds if 2 changes", "after 1 second if 1 change". *)
TwoParams == {[seconds |-> 0, changes |-> 2], [seconds |-> 1, changes |-> 1]}
(* Two children: the states after a clash of temp files, which the run with *)
(* one child explores, are left out.                                       *)
NoClash == ~shared
============================================================================
