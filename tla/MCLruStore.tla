------------------------------ MODULE MCLruStore ------------------------------
(* LruStore for TLC. *)
EXTENDS LruStore, TLC

CONSTANTS o1, o2, o3, s1, s2, s3, s4, s5, s6

MCObj  == {o1, o2, o3}
MCStr  == {s1, s2, s3, s4, s5, s6}
MCPath == 1..3
MCSize == {0, 2}

\* Addresses are compared for equality only.
Addresses == Permutations(MCObj) \cup Permutations(MCStr)
=============================================================================
