--------------------------- MODULE AudioTapProofs ---------------------------
(***************************************************************************)
(* Proofs about AudioRing, with the tap of AudioTap in and out of it, for  *)
(* every size of the ring, of its indices, of chunks and of blocks.        *)
(*                                                                         *)
(* The indices are 32 bits wide and wrap; what the two threads rely on is  *)
(* their distance, and that fewer indices in a row than the ring is long   *)
(* have cells of their own.  That is arithmetic, and comes first.          *)
(***************************************************************************)
EXTENDS AudioTap, SequenceTheorems, TLAPS

(* The index n further on: it wraps once at most. *)
LEMMA PlusValue ==
  ASSUME NEW i \in Indices, NEW n \in Indices
  PROVE  /\ Plus(i, n) \in Indices
         /\ Plus(i, n) = IF i + n < IndexSpace THEN i + n ELSE i + n - IndexSpace
<1> USE IndexAssumption, RingAssumption DEF Indices, Plus
<1>1. CASE i + n < IndexSpace
  <2>1. (i + n) % IndexSpace = i + n
    BY <1>1
  <2> QED
    BY <1>1, <2>1
<1>2. CASE i + n >= IndexSpace
  <2>1. (i + n) % IndexSpace = i + n - IndexSpace
    <3> DEFINE r == i + n - IndexSpace
    <3>1. r \in 0 .. IndexSpace - 1 /\ i + n = r + IndexSpace
      BY <1>2
    <3> QED
      BY <3>1
  <2> QED
    BY <1>2, <2>1
<1> QED
  BY <1>1, <1>2

(* The distance from j to i, across the wrap if i is behind. *)
LEMMA MinusValue ==
  ASSUME NEW i \in Indices, NEW j \in Indices
  PROVE  /\ Minus(i, j) \in Indices
         /\ Minus(i, j) = IF j <= i THEN i - j ELSE i - j + IndexSpace
<1> USE IndexAssumption, RingAssumption DEF Indices, Minus
<1>1. CASE j <= i
  <2>1. (i - j) % IndexSpace = i - j
    BY <1>1
  <2> QED
    BY <1>1, <2>1
<1>2. CASE j > i
  <2>1. (i - j) % IndexSpace = i - j + IndexSpace
    BY <1>2
  <2> QED
    BY <1>2, <2>1
<1> QED
  BY <1>1, <1>2

(* How the indices move against each other: the callback's away from the
   drain's, and the drain's after it. *)
LEMMA Moves ==
  ASSUME NEW h \in Indices, NEW t \in Indices, NEW n \in Indices
  PROVE  /\ Minus(h, t) + n < IndexSpace =>
              /\ Minus(Plus(h, n), t) = Minus(h, t) + n
              /\ Plus(h, n) = Plus(t, Minus(h, t) + n)
         /\ n <= Minus(h, t) => Minus(h, Plus(t, n)) = Minus(h, t) - n
         /\ \A m \in Indices :
              m + n < IndexSpace => Plus(Plus(t, n), m) = Plus(t, m + n)
<1> USE IndexAssumption, RingAssumption
<1> DEFINE d == Minus(h, t)
<1>1. /\ d \in Indices
      /\ d = IF t <= h THEN h - t ELSE h - t + IndexSpace
  BY MinusValue
<1>2. /\ Plus(h, n) \in Indices /\ Plus(t, n) \in Indices
      /\ Plus(h, n) = IF h + n < IndexSpace THEN h + n ELSE h + n - IndexSpace
      /\ Plus(t, n) = IF t + n < IndexSpace THEN t + n ELSE t + n - IndexSpace
  BY PlusValue
<1> HIDE DEF d
<1>3. ASSUME d + n < IndexSpace
      PROVE  Minus(Plus(h, n), t) = d + n /\ Plus(h, n) = Plus(t, d + n)
  <2>1. d + n \in Indices
    BY <1>1, <1>3 DEF Indices
  <2>2. Plus(t, d + n)
          = IF t + (d + n) < IndexSpace THEN t + (d + n)
                                        ELSE t + (d + n) - IndexSpace
    BY <2>1, PlusValue
  <2>3. Minus(Plus(h, n), t)
          = IF t <= Plus(h, n) THEN Plus(h, n) - t
                               ELSE Plus(h, n) - t + IndexSpace
    BY <1>2, MinusValue
  <2> QED
    BY <1>1, <1>2, <1>3, <2>2, <2>3 DEF Indices
<1>4. ASSUME n <= d PROVE Minus(h, Plus(t, n)) = d - n
  <2>1. Minus(h, Plus(t, n))
          = IF Plus(t, n) <= h THEN h - Plus(t, n)
                               ELSE h - Plus(t, n) + IndexSpace
    BY <1>2, MinusValue
  <2> QED
    BY <1>1, <1>2, <1>4, <2>1 DEF Indices
<1>5. ASSUME NEW m \in Indices, m + n < IndexSpace
      PROVE  Plus(Plus(t, n), m) = Plus(t, m + n)
  <2>1. m + n \in Indices
    BY <1>5 DEF Indices
  <2>2. /\ Plus(Plus(t, n), m)
             = IF Plus(t, n) + m < IndexSpace THEN Plus(t, n) + m
                                              ELSE Plus(t, n) + m - IndexSpace
        /\ Plus(t, m + n)
             = IF t + (m + n) < IndexSpace THEN t + (m + n)
                                           ELSE t + (m + n) - IndexSpace
    BY <1>2, <2>1, PlusValue
  <2> QED
    BY <1>2, <1>5, <2>2 DEF Indices
<1> QED
  BY <1>3, <1>4, <1>5 DEF d

(* Numbers with the same remainder are a multiple of the divisor apart. *)
LEMMA SameRemainder ==
  ASSUME NEW m \in Nat \ {0}, NEW i \in Nat, NEW j \in Nat, i % m = j % m
  PROVE  \E z \in Int : j - i = z * m
<1> DEFINE x == i \div m
           y == j \div m
           c == i % m
<1>1. i = m * x + c /\ x \in Int /\ c \in Int
  OBVIOUS
<1>2. j = m * y + c /\ y \in Int
  OBVIOUS
<1> HIDE DEF x, y, c
<1>3. j - i = (y - x) * m /\ y - x \in Int
  BY <1>1, <1>2
<1> QED
  BY <1>3

(* Fewer than RingPairs indices in a row have cells of their own, across the
   wrap too, because IndexSpace is a multiple of RingPairs. *)
LEMMA CellsApart ==
  ASSUME NEW t \in Indices, NEW a \in Indices, NEW b \in Indices,
         a < b, b - a < RingPairs
  PROVE  Plus(t, a) % RingPairs # Plus(t, b) % RingPairs
<1> DEFINE A == Plus(t, a)
           B == Plus(t, b)
           Q == IndexSpace \div RingPairs
<1>1. /\ A \in Indices /\ B \in Indices
      /\ A = IF t + a < IndexSpace THEN t + a ELSE t + a - IndexSpace
      /\ B = IF t + b < IndexSpace THEN t + b ELSE t + b - IndexSpace
  BY PlusValue
<1>2. IndexSpace = Q * RingPairs /\ Q \in Int
  BY RingAssumption, IndexAssumption
<1>3. RingPairs \in Nat \ {0} /\ IndexSpace \in Nat
  BY RingAssumption, IndexAssumption
<1>4. t \in Nat /\ a \in Nat /\ b \in Nat /\ A \in Nat /\ B \in Nat
  BY <1>1, <1>3 DEF Indices
<1>5. B - A = b - a \/ B - A = b - a - IndexSpace
  BY <1>1, <1>3, <1>4
<1> HIDE DEF A, B, Q
<1> SUFFICES ASSUME A % RingPairs = B % RingPairs PROVE FALSE
  BY DEF A, B
<1>6. PICK z \in Int : B - A = z * RingPairs
  BY <1>3, <1>4, SameRemainder
<1>7. PICK w \in Int : b - a = w * RingPairs
  <2>1. CASE B - A = b - a
    BY <1>6, <2>1
  <2>2. CASE B - A = b - a - IndexSpace
    <3>1. b - a = z * RingPairs + Q * RingPairs
      BY <1>2, <1>3, <1>4, <1>6, <2>2
    <3>2. b - a = (z + Q) * RingPairs /\ z + Q \in Int
      BY <1>2, <1>3, <3>1
    <3> QED
      BY <3>2
  <2> QED
    BY <1>5, <2>1, <2>2
<1>8. CASE w <= 0
  <2>1. w * RingPairs <= 0
    BY <1>3, <1>8
  <2> QED
    BY <1>4, <1>7, <2>1
<1>9. CASE w >= 1
  <2>1. w * RingPairs >= RingPairs
    BY <1>3, <1>9
  <2> QED
    BY <1>3, <1>4, <1>7, <2>1
<1> QED
  BY <1>8, <1>9

-----------------------------------------------------------------------------
(* The two threads agree on the ring: what the callback will write and what is
   unread have room beside each other, and what the drain copies is unread and
   was copied as it is. *)
RingInv ==
  /\ Unread + mixCount <= RingPairs
  /\ mixCount # 0 => mixFirst + mixCount <= mixed + 1
  /\ draining = "copying" =>
       /\ readCount <= Unread /\ Len(samples) <= readCount
       /\ \A k \in 1 .. Len(samples) :
            samples[k] = ring[Plus(tail, k - 1) % RingPairs]

IInv == TypeOK /\ RingInv

(* Numbers that are less than the ring is long are indices. *)
LEMMA InRing ==
  /\ RingPairs \in Nat \ {0} /\ IndexSpace \in Nat /\ RingPairs < IndexSpace
  /\ \A n \in Int : 0 <= n /\ n <= RingPairs => n \in Indices
  /\ \A i \in Indices : i \in Nat /\ i < IndexSpace /\ i % RingPairs \in Cells
<1>1. RingPairs \in Nat \ {0} /\ IndexSpace \in Nat /\ RingPairs < IndexSpace
  BY RingAssumption, IndexAssumption
<1>2. \A n \in Int : 0 <= n /\ n <= RingPairs => n \in Indices
  BY <1>1 DEF Indices
<1>3. \A i \in Indices : i \in Nat /\ i < IndexSpace /\ i % RingPairs \in Cells
  BY <1>1 DEF Indices, Cells
<1> QED
  BY <1>1, <1>2, <1>3

(* The type of Unread, and what is the case in any state of the ring. *)
LEMMA Facts ==
  ASSUME IInv
  PROVE  /\ head \in Indices /\ tail \in Indices
         /\ Unread \in Indices /\ Unread \in Nat /\ Unread <= RingPairs
         /\ mixCount \in Nat /\ mixDone \in Nat /\ mixDone <= mixCount
         /\ Unread + mixCount <= RingPairs
         /\ head = Plus(tail, Unread)
<1>1. head \in Indices /\ tail \in Indices
  BY DEF IInv, TypeOK
<1>2. Unread \in Indices /\ Unread \in Nat
  BY <1>1, MinusValue, InRing DEF Unread
<1>3. mixCount \in Nat /\ mixDone \in Nat /\ mixDone <= mixCount
  BY DEF IInv, TypeOK
<1>4. Unread <= RingPairs
  BY <1>2, <1>3, InRing DEF IInv, RingInv
<1>5. head = Plus(tail, Unread)
  <2>1. 0 \in Indices /\ Plus(head, 0) = head
    BY <1>1, PlusValue, InRing
  <2>2. Minus(head, tail) + 0 < IndexSpace /\ Minus(head, tail) + 0 = Unread
    BY <1>2, <1>4, InRing DEF Unread
  <2> QED
    BY <1>1, <2>1, <2>2, Moves
<1>6. Unread + mixCount <= RingPairs
  BY DEF IInv, RingInv
<1> QED
  BY <1>1, <1>2, <1>3, <1>4, <1>5, <1>6

(* The initial state satisfies the inductive invariant. *)
LEMMA InitInv == Init => IInv
<1> SUFFICES ASSUME Init PROVE IInv
  OBVIOUS
<1>1. TypeOK
  BY InRing, BoundsAssumption, ChunkAssumption DEF Init, TypeOK, Pairs
<1>2. Unread = 0
  BY InRing, MinusValue DEF Init, Unread
<1> QED
  BY <1>1, <1>2, InRing DEF IInv, RingInv, Init

(* A block begins with the room that is left. *)
LEMMA MixBeginStep == IInv /\ MixBegin => IInv'
<1> SUFFICES ASSUME IInv, MixBegin PROVE IInv'
  OBVIOUS
<1>1. PICK n \in 1 .. MaxBlock :
        /\ mixed + n <= MaxPairs
        /\ mixFirst' = mixed + 1
        /\ mixed' = mixed + n
        /\ mixCount' = Least(n, Room)
  BY DEF MixBegin
<1>2. mixDone' = 0 /\ UNCHANGED <<ring, head, tail, drain, taken>>
  BY DEF MixBegin
<1>3. Room = RingPairs - Unread
  BY DEF Room, Unread
<1>4. mixCount' \in 0 .. MaxBlock /\ Unread + mixCount' <= RingPairs
  BY <1>1, <1>3, Facts, InRing, BoundsAssumption DEF Least
<1>5. Unread' = Unread
  BY <1>2 DEF Unread, Minus
<1>6. TypeOK'
  BY <1>1, <1>2, <1>4, BoundsAssumption DEF IInv, TypeOK, Pairs, drain
<1>7. mixFirst' + mixCount' <= mixed' + 1
  <2>1. mixed \in Nat /\ Room \in Int
    BY <1>3, Facts, InRing, BoundsAssumption DEF IInv, TypeOK, Pairs
  <2>2. mixCount' <= n
    BY <1>1, <2>1 DEF Least
  <2> QED
    BY <1>1, <1>4, <2>1, <2>2
<1>8. RingInv'
  BY <1>2, <1>4, <1>5, <1>7 DEF IInv, RingInv, drain, Plus
<1> QED
  BY <1>6, <1>8 DEF IInv

(* What n cells from index t on hold. *)
Slice(r, t, n) == [k \in 1 .. n |-> r[Plus(t, k - 1) % RingPairs]]

LEMMA SliceType ==
  ASSUME NEW r \in [Cells -> Pairs], NEW t \in Indices, NEW n \in Nat,
         n <= RingPairs
  PROVE  /\ Slice(r, t, n) \in Seq(Pairs)
         /\ Len(Slice(r, t, n)) = n
         /\ \A k \in 1 .. n : Slice(r, t, n)[k] = r[Plus(t, k - 1) % RingPairs]
<1>1. ASSUME NEW k \in 1 .. n PROVE r[Plus(t, k - 1) % RingPairs] \in Pairs
  <2>1. k - 1 \in Indices
    BY InRing
  <2>2. Plus(t, k - 1) % RingPairs \in Cells
    BY <2>1, PlusValue, InRing
  <2> QED
    BY <2>2
<1>2. Slice(r, t, n) \in [1 .. n -> Pairs]
  BY <1>1 DEF Slice
<1> QED
  BY <1>2 DEF Slice

(* No cell that the callback writes to is among those that hold something
   unread. *)
LEMMA WriteApart ==
  ASSUME IInv, mixDone < mixCount, NEW k \in 1 .. Unread
  PROVE  Plus(head, mixDone) % RingPairs # Plus(tail, k - 1) % RingPairs
<1> DEFINE b == Unread + mixDone
<1>1. b \in Nat /\ b < RingPairs /\ mixDone < RingPairs
  BY Facts, InRing
<1>2. k - 1 \in Indices /\ b \in Indices /\ mixDone \in Indices
  BY <1>1, Facts, InRing
<1>3. Plus(head, mixDone) = Plus(tail, b)
  BY <1>1, <1>2, Facts, InRing, Moves DEF Unread
<1>4. k - 1 < b /\ b - (k - 1) < RingPairs
  BY <1>1, Facts, InRing
<1> HIDE DEF b
<1> QED
  BY <1>2, <1>3, <1>4, Facts, CellsApart

(* A pair that is written leaves what is unread alone. *)
LEMMA MixWriteStep == IInv /\ MixWrite => IInv' /\ Contents' = Contents
<1> SUFFICES ASSUME IInv, MixWrite PROVE IInv' /\ Contents' = Contents
  OBVIOUS
<1> DEFINE cell == Plus(head, mixDone) % RingPairs
<1>1. /\ mixDone < mixCount
      /\ ring' = [ring EXCEPT ![cell] = mixFirst + mixDone]
      /\ mixDone' = mixDone + 1
      /\ UNCHANGED <<head, tail, mixed, mixFirst, mixCount, drain, taken>>
  BY DEF MixWrite
<1>2. mixFirst + mixDone \in Pairs
  BY <1>1, Facts, BoundsAssumption DEF IInv, TypeOK, RingInv, Pairs
<1>3. ring \in [Cells -> Pairs]
  BY DEF IInv, TypeOK
<1>4. Unread' = Unread
  BY <1>1 DEF Unread, Minus
<1>5. ASSUME NEW k \in 1 .. Unread
      PROVE  ring'[Plus(tail, k - 1) % RingPairs]
               = ring[Plus(tail, k - 1) % RingPairs]
  <2>1. cell # Plus(tail, k - 1) % RingPairs
    BY <1>1, WriteApart
  <2>2. k - 1 \in Indices
    BY Facts, InRing
  <2>3. Plus(tail, k - 1) % RingPairs \in Cells
    BY <2>2, Facts, PlusValue, InRing
  <2> HIDE DEF cell
  <2> QED
    BY <1>1, <1>3, <2>1, <2>3
<1>6. TypeOK'
  <2>1. ring' \in [Cells -> Pairs]
    BY <1>1, <1>2, <1>3
  <2>2. mixDone' \in 0 .. mixCount'
    BY <1>1, Facts
  <2> QED
    BY <1>1, <2>1, <2>2 DEF IInv, TypeOK, drain
<1>7. RingInv'
  <2>1. ASSUME draining = "copying", NEW k \in 1 .. Len(samples)
        PROVE  samples[k] = ring'[Plus(tail, k - 1) % RingPairs]
    <3>1. Len(samples) \in Nat /\ readCount \in Nat
      BY DEF IInv, TypeOK
    <3>2. k \in 1 .. Unread
      BY <2>1, <3>1, Facts DEF IInv, RingInv
    <3> QED
      BY <1>5, <2>1, <3>2 DEF IInv, RingInv
  <2> QED
    BY <1>1, <1>4, <2>1 DEF IInv, RingInv, drain, Plus
<1>8. Contents' = Contents
  BY <1>1, <1>4, <1>5 DEF Contents, Plus
<1> QED
  BY <1>6, <1>7, <1>8 DEF IInv

(* The callback's pairs come behind what is unread. *)
LEMMA MixPublishStep == IInv /\ MixPublish => IInv' /\ Fifo!Put
<1> SUFFICES ASSUME IInv, MixPublish PROVE IInv' /\ Fifo!Put
  OBVIOUS
<1>1. /\ mixCount # 0
      /\ head' = Plus(head, mixCount)
      /\ mixCount' = 0 /\ mixDone' = 0
      /\ UNCHANGED <<ring, tail, mixed, mixFirst, drain, taken>>
  BY DEF MixPublish
<1>2. Unread + mixCount <= RingPairs /\ mixCount \in Indices
  BY Facts, InRing DEF IInv, RingInv
<1>3. Unread' = Unread + mixCount
  BY <1>1, <1>2, Facts, InRing, Moves DEF Unread, Minus
<1>4. TypeOK'
  BY <1>1, <1>2, Facts, PlusValue, BoundsAssumption DEF IInv, TypeOK, drain
<1>5. RingInv'
  <2>1. Unread' + mixCount' <= RingPairs /\ Unread <= Unread'
    BY <1>1, <1>2, <1>3, Facts
  <2>2. readCount \in Nat
    BY DEF IInv, TypeOK
  <2>3. draining = "copying" => readCount <= Unread'
    BY <2>1, <2>2, Facts, <1>3 DEF IInv, RingInv
  <2> QED
    BY <1>1, <2>1, <2>3 DEF IInv, RingInv, drain, Plus
<1>6. Fifo!Put
  <2> DEFINE n == Unread
             m == Unread + mixCount
  <2>1. ring \in [Cells -> Pairs] /\ tail \in Indices
    BY DEF IInv, TypeOK
  <2>2. Contents = Slice(ring, tail, n) /\ Contents' = Slice(ring, tail, m)
    BY <1>1, <1>3 DEF Contents, Slice, Plus
  <2>3. n \in Nat /\ m \in Nat /\ n < m /\ m <= RingPairs /\ n <= RingPairs
    BY <1>1, <1>2, Facts
  <2> HIDE DEF n, m
  <2>4. /\ Contents \in Seq(Pairs) /\ Len(Contents) = n
        /\ Contents' \in Seq(Pairs) /\ Len(Contents') = m
    <3>1. Slice(ring, tail, n) \in Seq(Pairs) /\ Len(Slice(ring, tail, n)) = n
      BY <2>1, <2>3, SliceType
    <3>2. Slice(ring, tail, m) \in Seq(Pairs) /\ Len(Slice(ring, tail, m)) = m
      BY <2>1, <2>3, SliceType
    <3> QED
      BY <2>2, <3>1, <3>2
  <2>5. \A k \in 1 .. n : Contents'[k] = Contents[k]
    BY <2>2, <2>3 DEF Slice
  <2>6. SubSeq(Contents', 1, n) = Contents
    BY <2>3, <2>4, <2>5
  <2> QED
    BY <1>1, <2>3, <2>4, <2>6 DEF Fifo!Put
<1> QED
  BY <1>4, <1>5, <1>6 DEF IInv

(* A read begins with what there is, at most a chunk of it. *)
LEMMA ReadBeginStep == IInv /\ ReadBegin => IInv' /\ Contents' = Contents
<1> SUFFICES ASSUME IInv, ReadBegin PROVE IInv' /\ Contents' = Contents
  OBVIOUS
<1>1. /\ draining' = "copying"
      /\ readCount' = Least(Available, Chunk)
      /\ samples' = << >>
      /\ UNCHANGED <<ring, head, tail, callback, taken>>
  BY DEF ReadBegin
<1>2. Available = Unread
  BY DEF Available, Unread
<1>3. readCount' \in 0 .. Chunk /\ readCount' <= Unread
  BY <1>1, <1>2, Facts, ChunkAssumption DEF Least
<1>4. Unread' = Unread /\ Contents' = Contents
  BY <1>1 DEF Unread, Minus, Contents, Plus
<1>5. TypeOK'
  BY <1>1, <1>3 DEF IInv, TypeOK, callback
<1>6. RingInv'
  BY <1>1, <1>3, <1>4 DEF IInv, RingInv, callback
<1> QED
  BY <1>4, <1>5, <1>6 DEF IInv

(* What is copied is the next unread pair. *)
LEMMA ReadCopyStep == IInv /\ ReadCopy => IInv' /\ Contents' = Contents
<1> SUFFICES ASSUME IInv, ReadCopy PROVE IInv' /\ Contents' = Contents
  OBVIOUS
<1> DEFINE n == Len(samples)
           cell == Plus(tail, n) % RingPairs
<1>1. /\ draining = "copying" /\ n < readCount
      /\ samples' = Append(samples, ring[cell])
      /\ UNCHANGED <<ring, head, tail, callback, draining, readCount, taken>>
  BY DEF ReadCopy
<1>2. /\ samples \in Seq(Pairs) /\ n \in Nat /\ readCount \in Nat
      /\ ring \in [Cells -> Pairs]
  BY DEF IInv, TypeOK
<1>3. readCount <= Unread /\ n \in Indices
  BY <1>1, <1>2, Facts, InRing DEF IInv, RingInv
<1>4. cell \in Cells
  BY <1>3, Facts, PlusValue, InRing
<1>5. samples' \in Seq(Pairs) /\ Len(samples') = n + 1
  BY <1>1, <1>2, <1>4
<1>6. Unread' = Unread /\ Contents' = Contents
  BY <1>1 DEF Unread, Minus, Contents, Plus
<1>7. TypeOK'
  BY <1>1, <1>5 DEF IInv, TypeOK, callback
<1>8. RingInv'
  <2>1. ASSUME NEW k \in 1 .. n + 1
        PROVE  samples'[k] = ring[Plus(tail, k - 1) % RingPairs]
    <3>1. CASE k = n + 1
      <4>1. samples'[k] = ring[cell] /\ k - 1 = n
        BY <1>1, <1>2, <3>1
      <4> QED
        BY <4>1
    <3>2. CASE k \in 1 .. n
      <4>1. samples'[k] = samples[k]
        BY <1>1, <1>2, <3>2
      <4> QED
        BY <1>1, <3>2, <4>1 DEF IInv, RingInv
    <3> QED
      BY <1>2, <3>1, <3>2
  <2>2. \A k \in 1 .. Len(samples') :
          samples'[k] = ring'[Plus(tail', k - 1) % RingPairs]
    BY <1>1, <1>5, <2>1
  <2>3. Len(samples') <= readCount'
    BY <1>1, <1>2, <1>5
  <2> HIDE DEF n, cell
  <2> QED
    BY <1>1, <1>3, <1>6, <2>2, <2>3 DEF IInv, RingInv, callback, Plus
<1> QED
  BY <1>6, <1>7, <1>8 DEF IInv

(* What was copied leaves the ring, oldest first. *)
LEMMA ReadPublishStep ==
  IInv /\ ReadPublish => IInv' /\ (Fifo!Take \/ UNCHANGED <<Contents, taken>>)
<1> SUFFICES ASSUME IInv, ReadPublish
             PROVE  IInv' /\ (Fifo!Take \/ UNCHANGED <<Contents, taken>>)
  OBVIOUS
<1> DEFINE n == readCount
           m == Unread
<1>1. /\ draining = "copying" /\ Len(samples) = n
      /\ draining' = "returned"
      /\ tail' = Plus(tail, n)
      /\ taken' = IF n = 0 THEN taken ELSE samples
      /\ UNCHANGED <<ring, head, callback, readCount, samples>>
  BY DEF ReadPublish, TailAfter
<1>2. /\ n \in Nat /\ n <= m /\ m \in Nat /\ m <= RingPairs
      /\ samples \in Seq(Pairs) /\ ring \in [Cells -> Pairs]
      /\ tail \in Indices /\ head \in Indices
  BY <1>1, Facts DEF IInv, TypeOK, RingInv
<1>3. n \in Indices /\ tail' \in Indices
  BY <1>1, <1>2, InRing, PlusValue
<1>4. Unread' = m - n
  BY <1>1, <1>2, <1>3, Moves DEF Unread, Minus
<1>5. TypeOK'
  BY <1>1, <1>2, <1>3 DEF IInv, TypeOK, callback
<1>6. RingInv'
  BY <1>1, <1>2, <1>4, Facts, InRing DEF IInv, RingInv, callback
<1>7. ASSUME NEW k \in 1 .. m - n
      PROVE  Plus(tail', k - 1) = Plus(tail, (n + k) - 1)
  <2>1. k - 1 \in Indices /\ (k - 1) + n < IndexSpace
    BY <1>2, InRing
  <2>2. (k - 1) + n = (n + k) - 1
    BY <1>2
  <2> QED
    BY <1>1, <1>2, <1>3, <2>1, <2>2, Moves
<1>8. Contents = Slice(ring, tail, m) /\ Contents' = Slice(ring, tail', m - n)
  BY <1>1, <1>4 DEF Contents, Slice, Plus
<1> HIDE DEF n, m
<1>9. CASE n = 0
  <2>1. tail' = tail
    BY <1>1, <1>2, <1>9, <1>3, PlusValue, InRing
  <2> QED
    BY <1>1, <1>2, <1>5, <1>6, <1>8, <1>9, <2>1 DEF IInv
<1>10. CASE n # 0
  <2>1. Contents \in Seq(Pairs) /\ Len(Contents) = m
    BY <1>2, <1>8, SliceType
  <2>2. Contents' \in Seq(Pairs) /\ Len(Contents') = m - n
    <3>1. m - n \in Nat /\ m - n <= RingPairs
      BY <1>2, InRing
    <3> QED
      BY <1>2, <1>3, <1>8, <3>1, SliceType
  <2>3. \A k \in 1 .. n : samples[k] = Contents[k]
    BY <1>1, <1>2, <1>8 DEF Slice, IInv, RingInv, n
  <2>4. \A k \in 1 .. m - n : Contents'[k] = Contents[n + k]
    <3> SUFFICES ASSUME NEW k \in 1 .. m - n
                 PROVE  Contents'[k] = Contents[n + k]
      OBVIOUS
    <3>1. Contents'[k] = ring[Plus(tail', k - 1) % RingPairs]
      BY <1>8 DEF Slice
    <3>2. n + k \in 1 .. m
      BY <1>2
    <3>3. Contents[n + k] = ring[Plus(tail, (n + k) - 1) % RingPairs]
      BY <1>8, <3>2 DEF Slice
    <3> QED
      BY <1>7, <3>1, <3>3
  <2>5. taken' = SubSeq(Contents, 1, n)
    BY <1>1, <1>2, <1>10, <2>1, <2>3
  <2>6. Contents' = SubSeq(Contents, n + 1, m)
    BY <1>2, <2>1, <2>2, <2>4
  <2>7. n \in 1 .. Len(Contents)
    BY <1>2, <1>10, <2>1
  <2> QED
    BY <1>5, <1>6, <2>1, <2>5, <2>6, <2>7 DEF IInv, Fifo!Take
<1> QED
  BY <1>9, <1>10

(* The drain goes away, or on. *)
LEMMA AwayStep ==
  IInv /\ (SendChunk \/ DrainEnd) => IInv' /\ Contents' = Contents
<1> SUFFICES ASSUME IInv, SendChunk \/ DrainEnd
             PROVE  IInv' /\ Contents' = Contents
  OBVIOUS
<1>1. /\ draining' = "away" /\ readCount' = 0 /\ samples' = << >>
      /\ UNCHANGED <<ring, head, tail, callback, taken>>
  BY DEF SendChunk, DrainEnd
<1>2. Unread' = Unread /\ Contents' = Contents
  BY <1>1 DEF Unread, Minus, Contents, Plus
<1>3. TypeOK'
  BY <1>1, ChunkAssumption DEF IInv, TypeOK, callback
<1>4. RingInv'
  BY <1>1, <1>2 DEF IInv, RingInv, callback
<1> QED
  BY <1>2, <1>3, <1>4 DEF IInv

(* Every step keeps the inductive invariant, and is one of the queue or leaves
   the queue as it is. *)
LEMMA NextStep ==
  IInv /\ [Next]_vars => IInv' /\ [Fifo!Next]_(Fifo!vars)
<1> SUFFICES ASSUME IInv, [Next]_vars PROVE IInv' /\ [Fifo!Next]_(Fifo!vars)
  OBVIOUS
<1> USE DEF Fifo!Next, Fifo!vars
<1>1. CASE MixBegin
  <2>1. Contents' = Contents /\ taken' = taken
    BY <1>1 DEF MixBegin, Contents, Unread, Minus, Plus
  <2> QED
    BY <1>1, <2>1, MixBeginStep
<1>2. CASE MixWrite
  BY <1>2, MixWriteStep DEF MixWrite
<1>3. CASE MixPublish
  BY <1>3, MixPublishStep
<1>4. CASE ReadBegin
  BY <1>4, ReadBeginStep DEF ReadBegin
<1>5. CASE ReadCopy
  BY <1>5, ReadCopyStep DEF ReadCopy
<1>6. CASE ReadPublish
  BY <1>6, ReadPublishStep
<1>7. CASE SendChunk \/ DrainEnd
  BY <1>7, AwayStep DEF SendChunk, DrainEnd
<1>8. CASE UNCHANGED vars
  <2> USE <1>8 DEF vars, callback, drain
  <2>1. Contents' = Contents /\ Unread' = Unread /\ taken' = taken
    BY DEF Contents, Unread, Minus, Plus
  <2>2. TypeOK'
    BY DEF IInv, TypeOK
  <2>3. RingInv'
    BY <2>1 DEF IInv, RingInv, Plus
  <2> QED
    BY <2>1, <2>2, <2>3 DEF IInv
<1> QED
  BY <1>1, <1>2, <1>3, <1>4, <1>5, <1>6, <1>7, <1>8 DEF Next

-----------------------------------------------------------------------------
(* With the tap, the ring does what it does without, when it does it at all. *)
LEMMA TapIsRing == TapSpec => Spec
<1>1. TapInit => Init
  BY DEF TapInit
<1>2. [TapNext]_tapVars => [Next]_vars
  <2> USE DEF vars, tapVars
  <2>1. AXInit \/ AXQuit \/ GameRegisters => UNCHANGED vars
    BY DEF AXInit, AXQuit, GameRegisters
  <2>2. Mix => Next
    BY DEF Mix, Next
  <2>3. EnsureAsk \/ EnsureSet => UNCHANGED vars
    BY DEF EnsureAsk, EnsureSet
  <2>4. Drain => Next
    BY DEF Drain, Next
  <2>5. NetStopped \/ ShutdownAsk \/ ShutdownRestore => UNCHANGED vars
    BY DEF NetStopped, ShutdownAsk, ShutdownRestore
  <2>6. UNCHANGED tapVars => UNCHANGED vars
    OBVIOUS
  <2> QED
    BY <2>1, <2>2, <2>3, <2>4, <2>5, <2>6 DEF TapNext
<1> QED
  BY <1>1, <1>2, PTL DEF TapSpec, Spec

(* The inductive invariant holds in every state. *)
THEOREM Invariant == TapSpec => []IInv
<1>1. IInv /\ [Next]_vars => IInv'
  BY NextStep
<1>2. Spec => []IInv
  BY <1>1, InitInv, PTL DEF Spec
<1> QED
  BY <1>2, TapIsRing, PTL

(* The callback never writes to a cell that the network thread may be reading,
   although neither has a lock and each sees the other's index late
   (audio.cpp). *)
THEOREM CellsDistinct == TapSpec => []NoOverlap
<1>1. ASSUME IInv PROVE NoOverlap
  BY <1>1, Facts, InRing DEF NoOverlap
<1> QED
  BY <1>1, Invariant, PTL

(* The ring of samples, with the tap in and out of it, is a queue: nothing is
   lost after it was put in, nothing read twice or torn, across the wrap of
   the indices as well. *)
THEOREM Implements == TapSpec => ImplementsFifo
<1>1. Init => Fifo!Init
  <2> SUFFICES ASSUME Init PROVE Fifo!Init
    OBVIOUS
  <2>1. Unread = 0
    BY InRing, MinusValue DEF Init, Unread
  <2>2. Contents = << >>
    BY <2>1 DEF Contents
  <2> QED
    BY <2>2 DEF Init, Fifo!Init
<1>2. IInv /\ [Next]_vars => [Fifo!Next]_(Fifo!vars)
  BY NextStep
<1>3. Spec => []IInv
  <2>1. IInv /\ [Next]_vars => IInv'
    BY NextStep
  <2> QED
    BY <2>1, InitInv, PTL DEF Spec
<1> QED
  BY <1>1, <1>2, <1>3, TapIsRing, PTL DEF Spec, ImplementsFifo, Fifo!Spec

-----------------------------------------------------------------------------
(* What the plugin knows of the game's callback is true if nothing came between
   its question and what it does about the answer. *)
HeardInv ==
  /\ GameHeard
  /\ ~ax => device = None /\ own = None
  /\ own # Tap /\ chained # Tap
  /\ asked => previous # Tap
  /\ asked /\ ~raced => ax /\ device = previous
  /\ app = "restores" /\ ~raced => ax /\ device = Tap

(* The game's callback is never lost, nor called twice for a block, but for a
   race with the game itself (audio.cpp:18). *)
THEOREM Heard == TapSpec => []GameHeard
<1> USE CallbacksAssumption DEF HeardInv, GameHeard
<1>1. TapInit => HeardInv
  BY DEF TapInit
<1>2. HeardInv /\ [TapNext]_tapVars => HeardInv'
  <2> SUFFICES ASSUME HeardInv, [TapNext]_tapVars PROVE HeardInv'
    OBVIOUS
  <2>1. CASE AXInit
    BY <2>1 DEF AXInit, Between
  <2>2. CASE AXQuit
    BY <2>2 DEF AXQuit, Between
  <2>3. CASE GameRegisters
    BY <2>3 DEF GameRegisters, Between
  <2>4. CASE Mix \/ Drain
    BY <2>4 DEF Mix, Drain, tap
  <2>5. CASE EnsureAsk
    BY <2>5 DEF EnsureAsk
  <2>6. CASE EnsureSet
    BY <2>6 DEF EnsureSet, Chained, Enabled
  <2>7. CASE NetStopped
    BY <2>7 DEF NetStopped
  <2>8. CASE ShutdownAsk
    BY <2>8 DEF ShutdownAsk
  <2>9. CASE ShutdownRestore
    BY <2>9 DEF ShutdownRestore
  <2>10. CASE UNCHANGED tapVars
    BY <2>10 DEF tapVars, tap
  <2> QED
    BY <2>1, <2>2, <2>3, <2>4, <2>5, <2>6, <2>7, <2>8, <2>9, <2>10 DEF TapNext
<1>3. HeardInv => GameHeard
  OBVIOUS
<1> QED
  BY <1>1, <1>2, <1>3, PTL DEF TapSpec

(* Every variable keeps its type. *)
THEOREM TypeCorrect == TapSpec => []TapTypeOK
<1> DEFINE TapInv == TapTypeOK /\ (asked => previous # Tap)
<1>1. TapInit /\ IInv => TapInv
  BY DEF TapInit, TapTypeOK, IInv, Callbacks
<1>2. TapInv /\ IInv' /\ [TapNext]_tapVars => TapInv'
  <2> SUFFICES ASSUME TapInv, IInv', [TapNext]_tapVars PROVE TapInv'
    OBVIOUS
  <2> USE DEF TapTypeOK, Callbacks
  <2>0. TypeOK'
    BY DEF IInv
  <2>1. CASE AXInit
    BY <2>0, <2>1 DEF AXInit, Between
  <2>2. CASE AXQuit
    BY <2>0, <2>2 DEF AXQuit, Between
  <2>3. CASE GameRegisters
    BY <2>0, <2>3 DEF GameRegisters, Between
  <2>4. CASE Mix \/ Drain
    BY <2>0, <2>4 DEF Mix, Drain, tap
  <2>5. CASE EnsureAsk
    BY <2>0, <2>5 DEF EnsureAsk
  <2>6. CASE EnsureSet
    BY <2>0, <2>6 DEF EnsureSet, Chained, Enabled
  <2>7. CASE NetStopped
    BY <2>0, <2>7 DEF NetStopped
  <2>8. CASE ShutdownAsk
    BY <2>0, <2>8 DEF ShutdownAsk
  <2>9. CASE ShutdownRestore
    BY <2>0, <2>9 DEF ShutdownRestore
  <2>10. CASE UNCHANGED tapVars
    BY <2>0, <2>10 DEF tapVars, tap
  <2> QED
    BY <2>1, <2>2, <2>3, <2>4, <2>5, <2>6, <2>7, <2>8, <2>9, <2>10 DEF TapNext
<1>3. TapInv => TapTypeOK
  OBVIOUS
<1> HIDE DEF TapInv
<1> QED
  BY <1>1, <1>2, <1>3, Invariant, PTL DEF TapSpec
=============================================================================
