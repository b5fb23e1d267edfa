----------------------------- MODULE MCSkipList -----------------------------
(* Small instances of SkipList for TLC. *)
EXTENDS SkipList, TLC

(* reply only says what led to a state.                                    *)
StateView == <<links, level, size, harm>>
=============================================================================
