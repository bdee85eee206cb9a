---------------------------- MODULE MCFlatLruCache ----------------------------
(* Small instances of FlatLruCache for TLC. *)
EXTENDS FlatLruCache, TLC

CONSTANTS k1, k2, k3

\* Two keys with one tag: the comparison of the keys has to tell them apart.
CollidingHash == [k \in Keys |-> 1]

\* Two keys with different tags.
DistinctHash == [k \in Keys |-> IF k = k1 THEN 1 ELSE 2]

\* A hard request for one, for two, and a soft request for two.
HardAndSoft == {1, 2, -2}
One == {1}

Symmetry == Permutations(Threads)
===============================================================================
