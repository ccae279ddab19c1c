----------------------------- MODULE AudioFifo -----------------------------
(***************************************************************************)
(* What the audio ring promises its two threads: a queue of samples of     *)
(* bounded length; what one thread puts in comes out in the other once, in *)
(* order and unharmed.                                                     *)
(***************************************************************************)
EXTENDS Integers, Sequences

CONSTANT Size   \* how many samples there is room for

VARIABLES queue,  \* the samples in the ring
          taken   \* the samples taken out last

vars == <<queue, taken>>

Init == queue = << >> /\ taken = << >>

Put ==
  /\ Len(queue) < Len(queue') /\ Len(queue') <= Size
  /\ SubSeq(queue', 1, Len(queue)) = queue
  /\ UNCHANGED taken

Take ==
  \E n \in 1 .. Len(queue) :
    /\ taken' = SubSeq(queue, 1, n)
    /\ queue' = SubSeq(queue, n + 1, Len(queue))

Next == Put \/ Take

Spec == Init /\ [][Next]_vars
=============================================================================
