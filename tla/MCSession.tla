----------------------------- MODULE MCSession -----------------------------
(* Model values for TLC: the drain goroutines are interchangeable.         *)
EXTENDS Session, TLC

Symmetry == Permutations(Drainers)
=============================================================================
