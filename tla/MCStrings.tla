------------------------------ MODULE MCStrings ------------------------------
(* Small instances of Strings for TLC: a string that was just created is   *)
(* also what the functions of Strings are applied to.                      *)
EXTENDS Strings, TLC

(* call only says what led to a state.                                     *)
StateView == <<bytes, free, size, spoilt>>
=============================================================================
