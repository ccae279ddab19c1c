----------------------------- MODULE AudioRing -----------------------------
(***************************************************************************)
(* The audio ring of the stream plugin: finalMixCallback, on the game's    *)
(* audio thread, puts the samples of a mixed block in, and drainAudio, on  *)
(* the network thread, takes them out through audioRead and sends them     *)
(* (wiiu/stream-plugin/src/audio.cpp, net.cpp).  There is no lock: each    *)
(* thread publishes its own index with a release store after it has        *)
(* touched the samples, and loads the other's with an acquire load before. *)
(*                                                                         *)
(* A stereo pair is the number of the pair, in the order they were mixed.  *)
(***************************************************************************)
EXTENDS Integers, Sequences

CONSTANTS
  RingPairs,    \* kRingPairs
  IndexSpace,   \* 2^32, a multiple of RingPairs: the indices wrap
  Chunk,        \* kAudioChunkPairs
  MaxBlock,     \* bound: pairs in a mixed block
  MaxPairs      \* bound: pairs mixed

ASSUME RingAssumption == RingPairs \in Nat \ {0}
ASSUME IndexAssumption ==
  IndexSpace \in Nat /\ IndexSpace > RingPairs /\ IndexSpace % RingPairs = 0
ASSUME ChunkAssumption == Chunk \in Nat \ {0}
ASSUME BoundsAssumption == MaxBlock \in Nat \ {0} /\ MaxPairs \in Nat

Indices == 0 .. IndexSpace - 1
Cells == 0 .. RingPairs - 1
Pairs == 0 .. MaxPairs

VARIABLES
  ring,      \* gRing
  head,      \* gHead
  tail,      \* gTail
  \* finalMixCallback
  mixed,     \* how many pairs were mixed so far
  mixFirst,  \* the first pair of the block it is at
  mixCount,  \* its n: the pairs it will put in; 0 outside the callback
  mixDone,   \* how many of them it has written
  \* drainAudio
  draining,  \* where it is
  readCount, \* audioRead's n
  samples,   \* the pairs copied so far
  \* history
  taken      \* what audioRead returned last

callback == <<mixed, mixFirst, mixCount, mixDone>>
drain == <<draining, readCount, samples>>
vars == <<ring, head, tail, callback, drain, taken>>

Init ==
  /\ ring = [c \in Cells |-> 0]
  /\ head = 0 /\ tail = 0
  /\ mixed = 0 /\ mixFirst = 0 /\ mixCount = 0 /\ mixDone = 0
  /\ draining = "away" /\ readCount = 0 /\ samples = << >>
  /\ taken = << >>

-----------------------------------------------------------------------------
(* uint32_t arithmetic. *)
Plus(i, n) == (i + n) % IndexSpace
Minus(i, j) == (i - j) % IndexSpace

Least(m, n) == IF m <= n THEN m ELSE n

(* Mutant of Room: one cell more than there is. *)
RoomOneMore == RingPairs - Minus(head, tail) + 1

(* What the callback sees as free. *)
Room == RingPairs - Minus(head, tail)

(* The callback begins: it loads both indices; the newest pairs are dropped
   when there is no room for them. *)
MixBegin ==
  /\ mixCount = 0
  /\ \E n \in 1 .. MaxBlock :
       /\ mixed + n <= MaxPairs
       /\ mixFirst' = mixed + 1
       /\ mixed' = mixed + n
       /\ mixCount' = Least(n, Room)
  /\ mixDone' = 0
  /\ UNCHANGED <<ring, head, tail, drain, taken>>

MixWrite ==
  /\ mixDone < mixCount
  /\ ring' = [ring EXCEPT ![Plus(head, mixDone) % RingPairs] = mixFirst + mixDone]
  /\ mixDone' = mixDone + 1
  /\ UNCHANGED <<head, tail, mixed, mixFirst, mixCount, drain, taken>>

MixPublish ==
  /\ mixCount # 0 /\ mixDone = mixCount
  /\ head' = Plus(head, mixCount)
  /\ mixCount' = 0 /\ mixDone' = 0
  /\ UNCHANGED <<ring, tail, mixed, mixFirst, drain, taken>>

-----------------------------------------------------------------------------
(* What the reader sees as available. *)
Available == Minus(head, tail)

(* drainAudio, which runs while a host is active, calls audioRead. *)
ReadBegin ==
  /\ draining = "away"
  /\ draining' = "copying"
  /\ readCount' = Least(Available, Chunk)
  /\ samples' = << >>
  /\ UNCHANGED <<ring, head, tail, callback, taken>>

ReadCopy ==
  /\ draining = "copying" /\ Len(samples) < readCount
  /\ samples' = Append(samples, ring[Plus(tail, Len(samples)) % RingPairs])
  /\ UNCHANGED <<ring, head, tail, callback, draining, readCount, taken>>

(* Mutant of TailAfter: the pairs are left in the ring. *)
TailAfterPeek == tail

TailAfter == Plus(tail, readCount)

ReadPublish ==
  /\ draining = "copying" /\ Len(samples) = readCount
  /\ draining' = "returned"
  /\ tail' = TailAfter
  /\ taken' = IF readCount = 0 THEN taken ELSE samples
  /\ UNCHANGED <<ring, head, callback, readCount, samples>>

(* A full chunk is sent and the next one read, in the same pass of the
   network thread or, after eight of them, in the next; anything less ends
   the pass. *)
SendChunk ==
  /\ draining = "returned"
  /\ readCount = Chunk
  /\ draining' = "away"
  /\ readCount' = 0 /\ samples' = << >>
  /\ UNCHANGED <<ring, head, tail, callback, taken>>

DrainEnd ==
  /\ draining = "returned"
  /\ readCount < Chunk
  /\ draining' = "away"
  /\ readCount' = 0 /\ samples' = << >>
  /\ UNCHANGED <<ring, head, tail, callback, taken>>

Next ==
  \/ MixBegin \/ MixWrite \/ MixPublish
  \/ ReadBegin \/ ReadCopy \/ ReadPublish
  \/ SendChunk \/ DrainEnd

Spec == Init /\ [][Next]_vars

-----------------------------------------------------------------------------
TypeOK ==
  /\ ring \in [Cells -> Pairs]
  /\ head \in Indices /\ tail \in Indices
  /\ mixed \in Pairs /\ mixFirst \in Pairs
  /\ mixCount \in 0 .. MaxBlock /\ mixDone \in 0 .. mixCount
  /\ draining \in {"away", "copying", "returned"}
  /\ readCount \in 0 .. Chunk
  /\ samples \in Seq(Pairs)
  /\ taken \in Seq(Pairs)

Unread == Minus(head, tail)

(* The cell the callback is about to write to is not one the reader may
   read from, although the two look at the indices at different times. *)
NoOverlap ==
  mixDone < mixCount => Unread + mixDone < RingPairs

(* The pairs in the ring, oldest first. *)
Contents == [k \in 1 .. Unread |-> ring[Plus(tail, k - 1) % RingPairs]]

(* The ring is the queue it stands for. *)
Fifo == INSTANCE AudioFifo WITH Size <- RingPairs, queue <- Contents

ImplementsFifo == Fifo!Spec
=============================================================================
