----------------------------- MODULE LatestWins -----------------------------
(***************************************************************************)
(* What the receiving side of the video path promises its consumer: the    *)
(* frames handed over are whole frames the encoder sent, each at most      *)
(* once, and never one that is older than the frame handed over before it. *)
(* Frames may be skipped; nothing is said about which.                     *)
(*                                                                         *)
(* Frames are numbered 1, 2, ... in the order they are sent.  A frame is   *)
(* its set of slices; counts[n] is how many slices frame n has.            *)
(***************************************************************************)
EXTENDS Integers, Sequences

VARIABLES counts,  \* number of slices of each frame sent so far
          shown    \* the frame handed over last: its number and its slices

vars == <<counts, shown>>

Whole(n) == {<<n, i>> : i \in 0 .. counts[n] - 1}

Nothing == [frame |-> 0, data |-> {}]

Init == counts = << >> /\ shown = Nothing

(* The encoder sends one more frame. *)
Send ==
  /\ Len(counts') = Len(counts) + 1
  /\ \A n \in 1 .. Len(counts) : counts'[n] = counts[n]
  /\ UNCHANGED shown

(* A frame newer than the last one is handed over, complete. *)
Show == \E n \in 1 .. Len(counts) :
          /\ n > shown.frame
          /\ shown' = [frame |-> n, data |-> Whole(n)]
          /\ UNCHANGED counts

Next == Send \/ Show

Spec == Init /\ [][Next]_vars
=============================================================================
