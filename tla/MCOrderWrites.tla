---------------------------- MODULE MCOrderWrites ----------------------------
(***************************************************************************)
(* OrderWrites with two handlers, one key and two orders, one of them from *)
(* an overlap, a lost entry or a restart; slots are interchangeable.       *)
(***************************************************************************)
EXTENDS OrderWrites, TLC

Symmetry == Permutations(Slots)
=============================================================================
