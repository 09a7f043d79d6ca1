---------------------------- MODULE ByteStream ----------------------------
(***************************************************************************)
(* What the receive path of a session promises to whoever reads it: the    *)
(* bytes of the peer, each once, in the order they were sent.  Readers     *)
(* take any non-empty prefix of what is pending.  The n-th byte of the     *)
(* stream is written n, so that loss, duplication and reordering show.     *)
(***************************************************************************)
EXTENDS Integers, Sequences

VARIABLES
  pending,   \* sent by the peer, not yet taken by a reader
  taken      \* everything readers have taken, in the order it was taken

streamVars == <<pending, taken>>

StreamInit == pending = <<>> /\ taken = <<>>

(* The peer sends its next byte. *)
Put ==
  /\ pending' = Append(pending, Len(taken) + Len(pending) + 1)
  /\ UNCHANGED taken

(* A reader takes the n oldest pending bytes. *)
Take(n) ==
  /\ taken' = taken \o SubSeq(pending, 1, n)
  /\ pending' = SubSeq(pending, n + 1, Len(pending))

StreamNext == Put \/ \E n \in 1 .. Len(pending) : Take(n)

StreamSpec == StreamInit /\ [][StreamNext]_streamVars
=============================================================================
