------------------------------- MODULE MCTokens -------------------------------
(* Small instances of Tokens for TLC. *)
EXTENDS Tokens, TLC

Symmetry == Permutations(Threads) \cup Permutations(Pairs)
===============================================================================
