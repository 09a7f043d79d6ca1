----------------------------- MODULE MCForward ------------------------------
(* Bounds for TLC: enough bytes to lose, repeat or reorder some in one      *)
(* direction, and one in the other.                                         *)
EXTENDS Forward

MCBytes == [tx |-> 2, rx |-> 1]
=============================================================================
