--------------------------- MODULE OrderedPlayout ---------------------------
(***************************************************************************)
(* What the audio path promises a listener: of the frames the sender has   *)
(* offered so far, numbered in the order it encoded them, the receiver     *)
(* plays a subsequence, each frame at most once and never out of order.    *)
(* Frames may be skipped.                                                  *)
(***************************************************************************)
EXTENDS Integers, Sequences

CONSTANT StreamLength  (* frames the sender encodes before it stops         *)

VARIABLES
  offered,  (* the frames handed to the network                             *)
  heard     (* the frames played, in the order they were played             *)

Init == offered = {} /\ heard = << >>

Offer ==
  \E f \in (0 .. StreamLength - 1) \ offered :
    offered' = offered \cup {f} /\ UNCHANGED heard

Hear ==
  \E f \in offered :
    /\ \A i \in 1 .. Len(heard) : heard[i] < f
    /\ heard' = Append(heard, f)
    /\ UNCHANGED offered

Next == Offer \/ Hear

Spec == Init /\ [][Next]_<<offered, heard>>
=============================================================================
