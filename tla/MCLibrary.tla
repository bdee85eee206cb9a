------------------------------ MODULE MCLibrary ------------------------------
(* Small instances of Library, and of ErrorCodes in it, for TLC. *)
EXTENDS Library, TLC

Symmetry == Permutations(Tids) \cup Permutations(Errors)
===============================================================================
