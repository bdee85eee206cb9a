------------------------------ MODULE MCBindings ------------------------------
(* Small instances of Bindings for TLC. *)
EXTENDS Bindings, TLC

CONSTANTS k1, k2

\* The two keys have different tags.
DistinctHash == [k \in Keys |-> IF k = k1 THEN 1 ELSE 2]

\* A value of `copies`: one dataset, and a second one if that is easy.
SoftTwo == {-2}

\* Values of `attempts`: 0 and negative numbers are "for ever".
NegativeToTwo == {-1, 0, 2}
ZeroToTwo == {0, 1, 2}
NegativeAndOne == {-1, 1}

Symmetry == Permutations(Threads)
===============================================================================
