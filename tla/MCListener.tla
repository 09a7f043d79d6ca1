----------------------------- MODULE MCListener -----------------------------
(* Model values for TLC: listeners, and connections, are interchangeable.  *)
EXTENDS Listener, TLC

Symmetry == Permutations(Instances) \cup Permutations(Conns)
=============================================================================
