----------------------------- MODULE MCHttpFlow -----------------------------
(* HttpFlow for TLC. *)
EXTENDS HttpFlow, TLC

CONSTANTS o1, o2, s1, s2, s3, s4

MCObj  == {o1, o2}
MCStr  == {s1, s2, s3, s4}
MCPath == 1..3

\* Addresses are compared for equality only.
Addresses == Permutations(MCObj) \cup Permutations(MCStr)

\* Two paths with content and one without.
MCContent == (1 :> "a" @@ 2 :> "b" @@ 3 :> NULL)
=============================================================================
