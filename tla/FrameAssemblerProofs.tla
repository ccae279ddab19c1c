------------------------ MODULE FrameAssemblerProofs ------------------------
EXTENDS FrameAssembler, FiniteSetTheorems, TLAPS

(* The id after the n-th is the (n+1)-st: the 32-bit counter wraps. *)
LEMMA NextId ==
  ASSUME NEW n \in Nat, NEW id, IsId(n, id)
  PROVE  IsId(n + 1, (id + 1) % IdSpace)
<1>1. PICK q \in 0 .. n : n = q * IdSpace + id
  BY DEF IsId
<1>2. id \in Int /\ 0 <= id /\ id < IdSpace /\ IdSpace \in Nat /\ IdSpace >= 2
  BY HalfAssumption DEF IsId, Ids, IdSpace
<1>3. CASE id + 1 < IdSpace
  <2>1. (id + 1) % IdSpace = id + 1
    BY <1>2, <1>3
  <2>2. n + 1 = q * IdSpace + (id + 1)
    BY <1>1, <1>2
  <2>3. id + 1 \in Ids
    BY <1>2, <1>3 DEF Ids
  <2>4. IsId(n + 1, id + 1)
    <3>1. q \in 0 .. n + 1
      OBVIOUS
    <3> QED
      BY <2>2, <2>3, <3>1 DEF IsId
  <2> QED
    BY <2>1, <2>4
<1>4. CASE id + 1 = IdSpace
  <2>1. (id + 1) % IdSpace = 0
    BY <1>2, <1>4
  <2>2. n + 1 = (q + 1) * IdSpace + 0
    BY <1>1, <1>2, <1>4
  <2>3. 0 \in Ids
    BY <1>2 DEF Ids
  <2>4. IsId(n + 1, 0)
    <3>1. q + 1 \in 0 .. n + 1
      OBVIOUS
    <3> QED
      BY <2>2, <2>3, <3>1 DEF IsId
  <2> QED
    BY <2>1, <2>4
<1> QED
  BY <1>2, <1>3, <1>4

(* Between ids less than half the id space apart, the signed difference
   of idNewer is the order in which the frames were sent. *)
LEMMA IdOrder ==
  ASSUME NEW m \in Nat, NEW n \in Nat, m - n < Half, n - m < Half,
         NEW a, NEW b, IsId(m, a), IsId(n, b)
  PROVE  /\ idNewer(a, b) <=> m > n
         /\ a = b <=> m = n
<1> USE HalfAssumption
<1>1. PICK q \in Nat : m = q * IdSpace + a
  BY DEF IsId
<1>2. PICK r \in Nat : n = r * IdSpace + b
  BY DEF IsId
<1>3. /\ a \in Int /\ 0 <= a /\ a < IdSpace
      /\ b \in Int /\ 0 <= b /\ b < IdSpace
      /\ IdSpace \in Nat /\ IdSpace = Half + Half
  BY DEF IsId, Ids, IdSpace
<1>4. m - n = (q - r) * IdSpace + (a - b)
  BY <1>1, <1>2, <1>3
<1>5. q - r \in {-1, 0, 1}
  <2>1. ASSUME q - r >= 2 PROVE FALSE
    <3>1. (q - r) * IdSpace >= 2 * IdSpace
      BY <2>1, <1>3
    <3> QED
      BY <3>1, <1>3, <1>4
  <2>2. ASSUME r - q >= 2 PROVE FALSE
    <3>1. (r - q) * IdSpace >= 2 * IdSpace
      BY <2>2, <1>3
    <3>2. (q - r) * IdSpace = -((r - q) * IdSpace)
      BY <1>3
    <3> QED
      BY <3>1, <3>2, <1>3, <1>4
  <2> QED
    BY <2>1, <2>2
<1>6. CASE q - r = 0
  <2>1. m - n = a - b
    BY <1>3, <1>4, <1>6
  <2> QED
    BY <1>3, <2>1 DEF idNewer
<1>7. CASE q - r = 1
  <2>1. m - n = IdSpace + (a - b)
    BY <1>3, <1>4, <1>7
  <2> QED
    BY <1>3, <2>1 DEF idNewer
<1>8. CASE q - r = -1
  <2>1. m - n = (a - b) - IdSpace
    BY <1>3, <1>4, <1>8
  <2> QED
    BY <1>3, <2>1 DEF idNewer
<1> QED
  BY <1>5, <1>6, <1>7, <1>8

-----------------------------------------------------------------------------
(* The positions the receiver compares through their ids. *)
LEMMA Compare ==
  ASSUME TypeOK, SourceInv,
         NEW m \in 1 .. Len(frames), NEW n \in 1 .. Len(frames),
         Len(frames) - m < Half, Len(frames) - n < Half
  PROVE  /\ idNewer(frames[m].id, frames[n].id) <=> m > n
         /\ frames[m].id = frames[n].id <=> m = n
<1>1. Len(frames) \in Nat
  BY DEF TypeOK
<1>2. m \in Nat /\ n \in Nat /\ m - n < Half /\ n - m < Half
  BY <1>1, HalfAssumption
<1>3. IsId(m, frames[m].id) /\ IsId(n, frames[n].id)
  BY DEF SourceInv
<1>4. ASSUME NEW a, NEW b, IsId(m, a), IsId(n, b)
      PROVE  (idNewer(a, b) <=> m > n) /\ (a = b <=> m = n)
  BY <1>2, <1>4, IdOrder
<1> QED
  BY <1>3, <1>4

(* What feed finds for a slice of frame n that is still in flight. *)
LEMMA Window ==
  ASSUME IInv, NEW n \in InFlight
  PROVE  /\ n \in 1 .. Len(frames)
         /\ IsFrame(n, frames[n].id)
         /\ Stale(frames[n].id) <=> anyDelivered /\ n <= out.frame
         /\ \A k \in Slots : pending[k].inUse =>
              /\ Holds(k, frames[n].id) <=> pending[k].frame = n
              /\ idNewer(frames[n].id, pending[k].id) <=> n > pending[k].frame
         /\ \A k, q \in Slots : pending[k].inUse /\ pending[q].inUse =>
              (idNewer(pending[k].id, pending[q].id)
                 <=> pending[k].frame > pending[q].frame)
<1> USE DEF IInv
<1>a. Len(frames) \in Nat /\ run = 0
  BY DEF TypeOK, SourceInv
<1>b. n \in 1 .. Len(frames) /\ n > Len(frames) - Reorder
  BY <1>a DEF InFlight
<1>1. /\ Len(frames) \in Nat /\ n \in 1 .. Len(frames)
      /\ Len(frames) - n < Half
  BY <1>a, <1>b, ReorderAssumption, HalfAssumption
<1>2. Stale(frames[n].id) <=> anyDelivered /\ n <= out.frame
  <2>1. CASE anyDelivered
    <3>1. IsFrame(out.frame, newestDelivered)
      BY <2>1 DEF OutInv
    <3> QED
      BY <1>1, <2>1, <3>1, Compare DEF Stale, IsFrame
  <2>2. CASE ~anyDelivered
    BY <2>2 DEF Stale
  <2> QED
    BY <2>1, <2>2
<1>3. ASSUME NEW k \in Slots, pending[k].inUse
      PROVE  IsFrame(pending[k].frame, pending[k].id)
  BY <1>3 DEF SlotInv
<1>4. ASSUME NEW k \in Slots, pending[k].inUse
      PROVE  /\ Holds(k, frames[n].id) <=> pending[k].frame = n
             /\ idNewer(frames[n].id, pending[k].id) <=> n > pending[k].frame
  BY <1>1, <1>3, <1>4, Compare DEF Holds, IsFrame
<1>5. ASSUME NEW k \in Slots, NEW q \in Slots,
             pending[k].inUse, pending[q].inUse
      PROVE  idNewer(pending[k].id, pending[q].id)
               <=> pending[k].frame > pending[q].frame
  BY <1>3, <1>5, Compare DEF IsFrame
<1> QED
  BY <1>1, <1>2, <1>4, <1>5 DEF IsFrame

-----------------------------------------------------------------------------
(* The initial state satisfies the inductive invariant. *)
LEMMA InitInv == Init => IInv
<1> SUFFICES ASSUME Init PROVE IInv
  OBVIOUS
<1>1. Len(frames) = 0 /\ DOMAIN fate = {}
  BY DEF Init
<1>2. IsId(0, 0)
  <2>1. IdSpace \in Nat /\ 0 \in Ids
    BY HalfAssumption DEF Ids, IdSpace
  <2>2. 0 = 0 * IdSpace + 0 /\ 0 \in 0 .. 0
    BY <2>1
  <2>3. \E q \in 0 .. 0 : 0 = q * IdSpace + 0
    BY <2>1, <2>2
  <2> QED
    BY <2>1, <2>3 DEF IsId
<1>3. TypeOK
  <2>1. 0 \in Ids
    BY <1>2 DEF IsId
  <2>2. pending \in [Slots -> Pending]
    BY <2>1 DEF Init, Unused, Pending
  <2>3. frames \in Seq(Frame)
    BY DEF Init
  <2>4. fate \in Seq(Fates) /\ Len(fate) = Len(frames)
    BY DEF Init
  <2>5. run \in 0 .. Len(frames)
    BY <1>1 DEF Init
  <2>6. out \in [frame : Nat, data : SUBSET (Nat \X Nat)]
    BY DEF Init
  <2> QED
    BY <2>1, <2>2, <2>3, <2>4, <2>5, <2>6 DEF Init, TypeOK
<1>4. SourceInv /\ OutInv /\ FateInv /\ \A k \in Slots : SlotInv(k)
  BY <1>1, <1>2 DEF Init, SourceInv, OutInv, FateInv, SlotInv, Unused
<1> QED
  BY <1>3, <1>4 DEF IInv

(* A new frame leaves everything the receiver remembers within reach. *)
LEMMA SendStep == IInv /\ Send => IInv'
<1> SUFFICES ASSUME IInv, Send PROVE IInv'
  OBVIOUS
<1> USE DEF IInv
<1>1. PICK c \in 1 .. MaxSlices :
        frames' = Append(frames, [id |-> frameId', count |-> c])
  BY DEF Send
<1>2. /\ fate' = Append(fate, "sent") /\ frameId' = (frameId + 1) % IdSpace
      /\ UNCHANGED <<run, assembler>>
  BY DEF Send, NextFrameId
<1>3. Len(frames) \in Nat /\ Len(fate) = Len(frames)
  BY DEF TypeOK
<1>4. IsId(Len(frames) + 1, frameId') /\ frameId' \in Ids
  BY <1>2, <1>3, NextId DEF SourceInv, IsId
<1>5. /\ Len(frames') = Len(frames) + 1
      /\ frames'[Len(frames) + 1] = [id |-> frameId', count |-> c]
      /\ \A n \in 1 .. Len(frames) : frames'[n] = frames[n]
  BY <1>1, <1>3 DEF TypeOK
<1>6. /\ Len(fate') = Len(frames) + 1
      /\ fate'[Len(frames) + 1] = "sent"
      /\ \A n \in 1 .. Len(frames) : fate'[n] = fate[n]
  BY <1>2, <1>3 DEF TypeOK
<1>7. TypeOK'
  <2>1. frames' \in Seq(Frame)
    BY <1>1, <1>4 DEF TypeOK, Frame
  <2>2. fate' \in Seq(Fates)
    BY <1>2 DEF TypeOK, Fates
  <2>3. run' \in 0 .. Len(frames')
    BY <1>2, <1>3, <1>5 DEF TypeOK
  <2> QED
    BY <1>2, <1>4, <1>5, <1>6, <2>1, <2>2, <2>3 DEF TypeOK, assembler
<1>8. SourceInv'
  <2>1. run = 0 /\ \A n \in 1 .. Len(frames) : IsId(n, frames[n].id)
    BY DEF SourceInv
  <2> HIDE DEF IInv
  <2>2. run' = 0 /\ IsId(Len(frames'), frameId')
    BY <1>2, <1>4, <1>5, <2>1
  <2>3. ASSUME NEW n \in 1 .. Len(frames') PROVE IsId(n, frames'[n].id)
    <3>1. CASE n = Len(frames) + 1
      BY <1>4, <1>5, <3>1
    <3>2. CASE n # Len(frames) + 1
      <4>1. n \in 1 .. Len(frames)
        BY <1>3, <1>5, <3>2
      <4> QED
        BY <1>5, <2>1, <4>1
    <3> QED
      BY <3>1, <3>2
  <2> QED
    BY <2>2, <2>3 DEF SourceInv, IsId, Ids, IdSpace
<1>9. ASSUME NEW n \in 1 .. Len(frames) PROVE WholeFrame(n)' = WholeFrame(n)
  BY <1>5 DEF WholeFrame
<1>10. ASSUME NEW k \in Slots PROVE SlotInv(k)'
  <2>1. CASE pending[k].inUse
    <3>1. IsFrame(pending[k].frame, pending[k].id)
      BY <2>1 DEF SlotInv
    <3>2. Len(frames) + 1 - pending[k].frame < Half
      BY <2>1 DEF Send
    <3>3. pending' = pending
      BY <1>2 DEF assembler
    <3>4. IsFrame(pending[k].frame, pending[k].id)'
      <4> HIDE DEF IInv
      <4> QED
        BY <1>3, <1>5, <3>1, <3>2, <3>3 DEF IsFrame
    <3> QED
      BY <1>2, <1>5, <1>9, <2>1, <3>1, <3>4
         DEF SlotInv, assembler, IsFrame
  <2>2. CASE ~pending[k].inUse
    BY <1>2, <2>2 DEF SlotInv, assembler
  <2> QED
    BY <2>1, <2>2
<1>11. OutInv'
  <2>1. CASE anyDelivered
    <3>1. IsFrame(out.frame, newestDelivered) /\ out.data = WholeFrame(out.frame)
      BY <2>1 DEF OutInv
    <3>2. Len(frames) + 1 - out.frame < Half
      BY <2>1 DEF Send
    <3>3. UNCHANGED <<out, newestDelivered, anyDelivered>>
      BY <1>2 DEF assembler
    <3>4. IsFrame(out.frame, newestDelivered)'
      <4> HIDE DEF IInv
      <4> QED
        BY <1>3, <1>5, <3>1, <3>2, <3>3 DEF IsFrame
    <3> QED
      BY <1>9, <2>1, <3>1, <3>3, <3>4 DEF OutInv, IsFrame
  <2>2. CASE ~anyDelivered
    BY <1>2, <2>2 DEF OutInv, assembler
  <2> QED
    BY <2>1, <2>2
<1>12. FateInv'
  <2>1. DOMAIN fate = 1 .. Len(frames) /\ DOMAIN fate' = 1 .. Len(frames) + 1
    BY <1>3, <1>6, <1>7 DEF TypeOK
  <2>2. ASSUME NEW n \in 1 .. Len(frames) + 1
        PROVE  PendingFrame(n)' <=> PendingFrame(n)
    BY <1>2 DEF PendingFrame, assembler
  <2>3. ~PendingFrame(Len(frames) + 1)
    BY <1>3 DEF PendingFrame, SlotInv, IsFrame
  <2>4. ASSUME NEW n \in 1 .. Len(frames)
        PROVE  /\ fate'[n] = "pending" <=> PendingFrame(n)'
               /\ fate'[n] = "delivered" => n <= out.frame'
               /\ fate'[n] \in {"dropped", "refused"} => GivenUp(n)'
    BY <1>2, <1>6, <2>1, <2>2 DEF FateInv, GivenUp, WindowFull, assembler
  <2>5. anyDelivered' => fate'[out.frame'] = "delivered"
    BY <1>2, <1>6 DEF FateInv, OutInv, IsFrame, assembler
  <2> QED
    BY <1>3, <1>6, <2>1, <2>2, <2>3, <2>4, <2>5 DEF FateInv
<1> QED
  BY <1>7, <1>8, <1>10, <1>11, <1>12

(* A slice turned away on arrival belongs to a frame that is behind. *)
LEMMA RefusedStep ==
  ASSUME IInv, NEW n \in InFlight, FeedRefused(n)
  PROVE  IInv' /\ FateStep
<1> USE DEF IInv
<1>1. /\ fate' = [fate EXCEPT ![n] = IF @ = "sent" THEN "refused" ELSE @]
      /\ UNCHANGED <<source, assembler>>
  BY DEF FeedRefused
<1>2. n \in 1 .. Len(frames) /\ DOMAIN fate = 1 .. Len(frames)
  BY Window DEF TypeOK
<1>3. /\ fate' \in Seq(Fates) /\ Len(fate') = Len(fate)
      /\ DOMAIN fate' = DOMAIN fate
      /\ fate'[n] = IF fate[n] = "sent" THEN "refused" ELSE fate[n]
      /\ \A m \in DOMAIN fate : m # n => fate'[m] = fate[m]
  BY <1>1, <1>2 DEF TypeOK, Fates
<1>4. TypeOK' /\ SourceInv' /\ OutInv' /\ \A k \in Slots : SlotInv(k)'
  BY <1>1, <1>3 DEF source, assembler, TypeOK, SourceInv, OutInv, SlotInv,
                    IsFrame, WholeFrame
<1>5. GivenUp(n)
  BY Window, <1>2 DEF FeedRefused, GivenUp, NoRoom, NoSlotHolds, WindowFull,
                      TypeOK, Pending
<1>6. ~PendingFrame(n) \/ fate[n] # "sent"
  BY <1>2 DEF FateInv
<1>7. FateInv'
  <2>1. ASSUME NEW m \in DOMAIN fate
        PROVE  /\ PendingFrame(m)' <=> PendingFrame(m)
               /\ GivenUp(m)' <=> GivenUp(m)
    BY <1>1 DEF PendingFrame, GivenUp, WindowFull, assembler
  <2>2. anyDelivered' => fate'[out.frame'] = "delivered"
    BY <1>1, <1>2, <1>3 DEF FateInv, OutInv, IsFrame, assembler
  <2>3. out' = out
    BY <1>1 DEF assembler
  <2> QED
    BY <1>2, <1>3, <1>5, <1>6, <2>1, <2>2, <2>3 DEF FateInv
<1>8. FateStep
  BY <1>2, <1>3 DEF FateStep
<1> QED
  BY <1>4, <1>7, <1>8

-----------------------------------------------------------------------------
(* A frame has as many slices as its count says. *)
LEMMA WholeSize ==
  ASSUME TypeOK, NEW n \in 1 .. Len(frames)
  PROVE  /\ IsFiniteSet(WholeFrame(n))
         /\ Cardinality(WholeFrame(n)) = frames[n].count
<1> DEFINE I == 0 .. frames[n].count - 1
           f == [i \in I |-> <<n, i>>]
<1>1. frames[n].count \in 1 .. MaxSlices
  <2>1. frames[n] \in Frame
    BY DEF TypeOK
  <2> QED
    BY <2>1 DEF Frame
<1>2. IsFiniteSet(I) /\ Cardinality(I) = frames[n].count
  <2>1. frames[n].count \in Nat /\ frames[n].count >= 1
    BY <1>1, BoundsAssumption
  <2>2. ASSUME NEW b \in Nat
        PROVE  IsFiniteSet(0 .. b) /\ Cardinality(0 .. b) = b + 1
    <3>1. /\ IsFiniteSet(0 .. b)
          /\ Cardinality(0 .. b) = IF 0 > b THEN 0 ELSE b - 0 + 1
      BY FS_Interval
    <3> QED
      BY <3>1
  <2>3. frames[n].count - 1 \in Nat /\ frames[n].count - 1 + 1 = frames[n].count
    BY <2>1
  <2> QED
    BY <2>2, <2>3
<1>3. f \in Bijection(I, WholeFrame(n))
  <2>1. f \in [I -> WholeFrame(n)]
    BY DEF WholeFrame
  <2>2. \A i, j \in I : f[i] = f[j] => i = j
    OBVIOUS
  <2>3. \A s \in WholeFrame(n) : \E i \in I : f[i] = s
    BY DEF WholeFrame
  <2> QED
    BY <2>1, <2>2, <2>3, Zenon DEF Bijection, Injection, Surjection, IsInjective
<1>4. ExistsBijection(I, WholeFrame(n))
  BY <1>3 DEF ExistsBijection
<1> QED
  BY <1>2, <1>4, FS_Bijection

(* The types of the source's part of a frame in flight. *)
LEMMA FrameType ==
  ASSUME TypeOK, NEW n \in 1 .. Len(frames)
  PROVE  /\ frames[n].id \in Ids
         /\ frames[n].count \in Nat \ {0}
         /\ WholeFrame(n) \subseteq Nat \X Nat
<1>1. frames[n] \in Frame /\ n \in Nat
  BY DEF TypeOK
<1>3. frames[n].id \in Ids /\ frames[n].count \in Nat \ {0}
  BY <1>1, BoundsAssumption DEF Frame
<1>4. WholeFrame(n) \subseteq Nat \X Nat
  BY <1>1, <1>3 DEF WholeFrame
<1> QED
  BY <1>3, <1>4

(* The slot that feed stores slice i of frame n in, and what it held. *)
Stores(n, i, k) ==
  /\ ~Stale(frames[n].id)
  /\ Finds(k, frames[n].id)
  /\ i < SlotFor(k, n).count /\ ~HasSlice(SlotFor(k, n), i)

(* What feed knows of the slot it stores a slice in. *)
LEMMA SlotFound ==
  ASSUME IInv, NEW n \in InFlight, NEW i \in 0 .. frames[n].count - 1,
         NEW k \in Slots, Stores(n, i, k)
  PROVE  LET p == SlotFor(k, n)
             d == p.data \cup {<<n, i>>}
         IN  /\ p \in Pending
             /\ p.inUse /\ p.frame = n
             /\ p.id = frames[n].id /\ p.count = frames[n].count
             /\ d \subseteq WholeFrame(n)
             /\ Cardinality(d) = Cardinality(p.data) + 1
             /\ Cardinality(d) = p.count => d = WholeFrame(n)
             /\ n > out.frame
             /\ ~GivenUp(n)
             /\ \A q \in Slots \ {k} : pending[q].inUse => pending[q].frame # n
<1> DEFINE p == SlotFor(k, n)
           d == p.data \cup {<<n, i>>}
<1> USE DEF IInv
<1>1. /\ n \in 1 .. Len(frames)
      /\ \A q \in Slots : pending[q].inUse =>
           (Holds(q, frames[n].id) <=> pending[q].frame = n)
  BY Window
<1>2. n > out.frame /\ n \in Nat /\ out.frame \in Nat
  BY <1>1, Window DEF Stores, OutInv, TypeOK
<1>3. /\ p.inUse /\ p.frame = n
      /\ p.id = frames[n].id /\ p.count = frames[n].count
      /\ p.data \subseteq WholeFrame(n)
      /\ p \in Pending
  <2>1. CASE Holds(k, frames[n].id)
    <3>1. pending[k].inUse /\ pending[k].frame = n
      BY <1>1, <2>1 DEF Holds
    <3>2. SlotInv(k)
      OBVIOUS
    <3>3. p = pending[k]
      BY <2>1 DEF SlotFor
    <3>4. pending[k] \in Pending
      BY DEF TypeOK
    <3> QED
      BY <3>1, <3>2, <3>3, <3>4 DEF SlotInv, IsFrame, Pending
  <2>2. CASE ~Holds(k, frames[n].id)
    BY <1>1, <2>2, FrameType DEF SlotFor, Fresh, Pending
  <2> QED
    BY <2>1, <2>2
<1>4. <<n, i>> \in WholeFrame(n) /\ <<n, i>> \notin p.data
  BY DEF WholeFrame, Stores, HasSlice
<1>5. IsFiniteSet(WholeFrame(n)) /\ Cardinality(WholeFrame(n)) = frames[n].count
  BY <1>1, WholeSize
<1>6. IsFiniteSet(p.data)
  BY <1>3, <1>5, FS_Subset
<1>7. Cardinality(d) = Cardinality(p.data) + 1
  BY <1>4, <1>6, FS_AddElement
<1>8. d \subseteq WholeFrame(n)
  BY <1>3, <1>4
<1>9. Cardinality(d) = p.count => d = WholeFrame(n)
  <2>1. p.count = frames[n].count
    BY <1>3
  <2> QED
    BY <1>5, <1>8, <2>1, FS_Subset
<1>10. ~GivenUp(n)
  <2>1. CASE Holds(k, frames[n].id)
    BY <1>1, <1>2, <2>1 DEF GivenUp, Holds, TypeOK
  <2>2. CASE FirstFree(k)
    BY <1>2, <2>2 DEF GivenUp, FirstFree, WindowFull
  <2>3. CASE Evicts(k, frames[n].id)
    <3>1. pending[k].inUse /\ n > pending[k].frame
      BY <2>3, Window DEF Evicts, WindowFull
    <3>2. pending[k].frame \in Nat
      BY DEF TypeOK, Pending
    <3> QED
      BY <1>2, <3>1, <3>2 DEF GivenUp
  <2> QED
    BY <2>1, <2>2, <2>3 DEF Stores, Finds
<1>11. ASSUME NEW q \in Slots \ {k}, pending[q].inUse, pending[q].frame = n
       PROVE  FALSE
  <2>1. Holds(q, frames[n].id)
    BY <1>1, <1>11
  <2>2. Holds(k, frames[n].id)
    BY <2>1 DEF Stores, Finds, NoSlotHolds, Evicts
  <2> QED
    BY <1>1, <1>11, <2>2 DEF SlotInv, Holds
<1> QED
  BY <1>2, <1>3, <1>7, <1>8, <1>9, <1>10, <1>11

-----------------------------------------------------------------------------
(* A frame the slice's slot is found for was not given up before. *)
LEMMA NotFinal ==
  ASSUME IInv, NEW n \in InFlight, NEW i \in 0 .. frames[n].count - 1,
         NEW k \in Slots, Stores(n, i, k)
  PROVE  /\ n \in DOMAIN fate
         /\ fate[n] \in {"sent", "pending"}
<1>1. n \in DOMAIN fate /\ fate[n] \in Fates
  BY Window DEF IInv, TypeOK
<1>2. ~GivenUp(n) /\ ~(n <= out.frame)
  BY SlotFound DEF GivenUp
<1>3. fate[n] \notin {"delivered", "dropped", "refused"}
  BY <1>1, <1>2 DEF IInv, FateInv
<1> QED
  BY <1>1, <1>3 DEF Fates

(* Evicting the slot of the oldest frame. *)
LEMMA Evicted ==
  ASSUME IInv, NEW n \in InFlight, NEW k \in Slots,
         Evicts(k, frames[n].id)
  PROVE  /\ n > pending[k].frame
         /\ \A q \in Slots \ {k} : pending[q].frame > pending[k].frame
<1>1. WindowFull /\ Oldest(k)
  BY DEF Evicts
<1>2. n > pending[k].frame
  BY <1>1, Window DEF Evicts, WindowFull
<1>3. ASSUME NEW q \in Slots \ {k}
      PROVE  pending[q].frame > pending[k].frame
  <2>1. pending[q].inUse /\ pending[k].inUse
    BY <1>1 DEF WindowFull
  <2>2. ~(pending[k].frame > pending[q].frame)
    BY <1>1, <2>1, Window DEF Oldest
  <2>3. pending[q].frame # pending[k].frame
    BY <2>1 DEF IInv, SlotInv
  <2>4. pending[q].frame \in Nat /\ pending[k].frame \in Nat
    BY DEF IInv, TypeOK, Pending
  <2> QED
    BY <2>2, <2>3, <2>4
<1> QED
  BY <1>2, <1>3

(* A slot keeps its type when a slice is added. *)
LEMMA WithSlice ==
  ASSUME NEW p \in Pending, NEW n \in Nat, NEW i \in Nat
  PROVE  [p EXCEPT !.data = @ \cup {<<n, i>>}]
           = [inUse |-> p.inUse, id |-> p.id, count |-> p.count,
              frame |-> p.frame, data |-> p.data \cup {<<n, i>>}]
  BY DEF Pending

(* Storing a slice, with or without an eviction, keeps the invariant. *)
LEMMA StoreStep ==
  ASSUME IInv, NEW n \in InFlight, NEW i \in 0 .. frames[n].count - 1,
         FeedStore(n, i)
  PROVE  IInv' /\ FateStep
<1> USE DEF IInv
<1> DEFINE id == frames[n].id
           gone(k) == IF Evicts(k, id) THEN {k} ELSE {}
<1>1. PICK k \in Slots :
        /\ Stores(n, i, k)
        /\ Cardinality(SlotFor(k, n).data) + 1 # SlotFor(k, n).count
        /\ pending' = [pending EXCEPT ![k] =
                         [SlotFor(k, n) EXCEPT !.data = @ \cup {<<n, i>>}]]
        /\ framesDropped' = framesDropped + Cardinality(gone(k))
        /\ fate' = [Lost(fate, gone(k)) EXCEPT ![n] = "pending"]
  BY DEF FeedStore, Stores
<1>2. UNCHANGED <<source, newestDelivered, anyDelivered, framesCompleted, out>>
  BY DEF FeedStore
<1> DEFINE d == SlotFor(k, n).data \cup {<<n, i>>}
<1>3. /\ pending'[k] = [inUse |-> TRUE, id |-> id, count |-> frames[n].count,
                        frame |-> n, data |-> d]
      /\ \A q \in Slots \ {k} : pending'[q] = pending[q]
      /\ DOMAIN pending' = Slots
  <2>1. n \in Nat /\ i \in Nat
    BY Window, FrameType DEF TypeOK
  <2>2. /\ SlotFor(k, n) \in Pending
        /\ SlotFor(k, n).inUse = TRUE /\ SlotFor(k, n).frame = n
        /\ SlotFor(k, n).id = id /\ SlotFor(k, n).count = frames[n].count
    <3>1. /\ SlotFor(k, n) \in Pending
          /\ SlotFor(k, n).inUse /\ SlotFor(k, n).frame = n
          /\ SlotFor(k, n).id = id /\ SlotFor(k, n).count = frames[n].count
      <4> HIDE DEF IInv
      <4> QED
        BY <1>1, SlotFound
    <3>2. SlotFor(k, n).inUse \in BOOLEAN
      BY <3>1 DEF Pending
    <3> QED
      BY <3>1, <3>2
  <2>3. [SlotFor(k, n) EXCEPT !.data = @ \cup {<<n, i>>}]
          = [inUse |-> TRUE, id |-> id, count |-> frames[n].count,
             frame |-> n, data |-> d]
    <3>1. \A x \in Pending :
            [x EXCEPT !.data = @ \cup {<<n, i>>}]
              = [inUse |-> x.inUse, id |-> x.id, count |-> x.count,
                 frame |-> x.frame, data |-> x.data \cup {<<n, i>>}]
      BY <2>1, WithSlice
    <3> HIDE DEF id
    <3> QED
      BY <2>2, <3>1, Zenon
  <2> QED
    BY <1>1, <2>3 DEF TypeOK
<1>4. /\ d \subseteq WholeFrame(n) /\ Cardinality(d) # frames[n].count
      /\ n > out.frame /\ ~GivenUp(n)
      /\ \A q \in Slots \ {k} : pending[q].inUse => pending[q].frame # n
  <2>1. /\ SlotFor(k, n).count = frames[n].count
        /\ Cardinality(d) = Cardinality(SlotFor(k, n).data) + 1
    BY <1>1, SlotFound
  <2> QED
    BY <1>1, <2>1, SlotFound
<1>5. /\ n \in 1 .. Len(frames) /\ IsFrame(n, id)
      /\ DOMAIN fate = 1 .. Len(frames)
  BY Window DEF TypeOK
<1>6. /\ DOMAIN fate' = DOMAIN fate /\ fate'[n] = "pending"
      /\ \A m \in DOMAIN fate \ {n} :
           fate'[m] = IF Evicts(k, id) /\ pending[k].frame = m
                        THEN "dropped" ELSE fate[m]
  BY <1>1, <1>5 DEF Lost
<1>7. TypeOK'
  <2>1. d \in SUBSET (Nat \X Nat) /\ id \in Ids /\ frames[n].count \in Nat
    BY <1>4, <1>5, FrameType
  <2>2. pending'[k] \in Pending
    BY <1>3, <1>5, <2>1 DEF Pending
  <2>3. pending' \in [Slots -> Pending]
    <3>1. pending \in [Slots -> Pending]
      BY DEF TypeOK
    <3>2. pending' = [q \in Slots |-> pending'[q]]
      BY <1>1, <3>1
    <3> QED
      BY <1>3, <2>2, <3>1, <3>2
  <2>4. framesDropped' \in Nat
    <3>1. Cardinality(gone(k)) \in Nat
      <4>1. Cardinality({k}) = 1 /\ Cardinality({}) = 0
        BY FS_Singleton, FS_EmptySet
      <4>2. CASE Evicts(k, id)
        BY <4>1, <4>2
      <4>3. CASE ~Evicts(k, id)
        BY <4>1, <4>3
      <4> QED
        BY <4>2, <4>3
    <3>2. framesDropped' = framesDropped + Cardinality(gone(k))
      BY <1>1
    <3> HIDE DEF gone
    <3> QED
      BY <3>1, <3>2 DEF TypeOK
  <2>5. fate' \in Seq(Fates) /\ Len(fate') = Len(fate)
    <3>1. fate \in Seq(Fates) /\ Len(fate) \in Nat /\ DOMAIN fate = 1 .. Len(fate)
      BY DEF TypeOK
    <3>2. \A m \in 1 .. Len(fate) : fate'[m] \in Fates
      BY <1>6, <3>1 DEF Fates
    <3>3. fate' = [m \in 1 .. Len(fate) |-> fate'[m]]
      BY <1>1, <3>1 DEF Lost
    <3> QED
      BY <3>1, <3>2, <3>3
  <2> QED
    BY <1>2, <2>3, <2>4, <2>5 DEF TypeOK, source
<1>8. SourceInv' /\ OutInv'
  BY <1>2 DEF SourceInv, OutInv, IsFrame, WholeFrame, source
<1>9. ASSUME NEW q \in Slots PROVE SlotInv(q)'
  <2>1. frames' = frames /\ out' = out
    BY <1>2 DEF source
  <2>2. \A m : WholeFrame(m)' = WholeFrame(m)
    BY <2>1 DEF WholeFrame
  <2>3. CASE q = k
    <3>1. IsFrame(n, id)'
      BY <1>5, <2>1 DEF IsFrame
    <3>2. \A r \in Slots \ {k} : pending'[r].inUse => pending'[r].frame # n
      BY <1>3, <1>4
    <3>4. /\ IsFrame(pending[k].frame, pending[k].id)'
          /\ pending'[k].count = frames'[pending'[k].frame].count
      BY <1>3, <2>1, <3>1 DEF IsFrame
    <3>5. /\ pending'[k].data \subseteq WholeFrame(pending[k].frame)'
          /\ Cardinality(pending'[k].data) # pending'[k].count
          /\ pending'[k].frame > out'.frame
      BY <1>3, <1>4, <2>1, <2>2
    <3>6. \A r \in Slots \ {k} :
            pending'[r].inUse => pending'[r].frame # pending'[k].frame
      BY <1>3, <3>2
    <3> QED
      BY <2>3, <3>4, <3>5, <3>6 DEF SlotInv
  <2>4. CASE q # k
    BY <1>3, <1>4, <2>1, <2>2, <2>4 DEF SlotInv, IsFrame
  <2> QED
    BY <2>3, <2>4
<1>10. \/ Evicts(k, id)
       \/ pending[k].inUse /\ pending[k].frame = n /\ ~Evicts(k, id)
       \/ ~pending[k].inUse /\ ~Evicts(k, id) /\ ~WindowFull
  BY <1>1, Window DEF Stores, Finds, Holds, FirstFree, Evicts, NoSlotHolds,
                      WindowFull
<1>11. FateInv'
  <2>1. ASSUME NEW m \in DOMAIN fate
        PROVE  PendingFrame(m)' <=>
                 \/ m = n
                 \/ \E q \in Slots \ {k} : pending[q].inUse /\ pending[q].frame = m
    BY <1>3 DEF PendingFrame
  <2>2. ASSUME NEW m \in DOMAIN fate \ {n}
        PROVE  fate'[m] = "pending" <=> PendingFrame(m)'
    <3>1. fate[m] = "pending" <=> PendingFrame(m)
      BY DEF FateInv
    <3>2. CASE Evicts(k, id)
      <4>1. \A q \in Slots \ {k} : pending[q].frame > pending[k].frame
        BY <3>2, Evicted
      <4>2. pending[k].inUse /\ pending[k].frame \in Nat
        BY <3>2 DEF Evicts, WindowFull, TypeOK, Pending
      <4>3. PendingFrame(m) <=>
              \/ pending[k].frame = m
              \/ \E q \in Slots \ {k} : pending[q].inUse /\ pending[q].frame = m
        BY <4>2 DEF PendingFrame
      <4>4. ~(pending[k].frame = m /\
               \E q \in Slots \ {k} : pending[q].inUse /\ pending[q].frame = m)
        BY <4>1, <4>2
      <4> QED
        BY <1>6, <2>1, <3>1, <3>2, <4>3, <4>4
    <3>3. CASE ~Evicts(k, id)
      <4>1. PendingFrame(m) <=>
              \E q \in Slots \ {k} : pending[q].inUse /\ pending[q].frame = m
        BY <1>10, <3>3 DEF PendingFrame
      <4> QED
        BY <1>6, <2>1, <3>1, <3>3, <4>1
    <3> QED
      BY <3>2, <3>3
  <2>3. ASSUME NEW m \in DOMAIN fate, GivenUp(m)
        PROVE  GivenUp(m)'
    <3>1. CASE m <= out.frame
      BY <1>2, <3>1 DEF GivenUp
    <3>2. CASE WindowFull /\ \A q \in Slots : pending[q].frame > m
      <4>1. n > m
        <5>1. pending[k].frame > m /\ (pending[k].frame = n \/ n > pending[k].frame)
          BY <1>10, <3>2, Evicted
        <5>2. pending[k].frame \in Nat /\ m \in Nat /\ n \in Nat
          BY <1>5 DEF TypeOK, Pending
        <5> QED
          BY <5>1, <5>2
      <4> QED
        BY <1>3, <3>2, <4>1 DEF GivenUp, WindowFull
    <3> QED
      BY <2>3, <3>1, <3>2 DEF GivenUp
  <2>4. ASSUME NEW m \in DOMAIN fate, Evicts(k, id), pending[k].frame = m
        PROVE  GivenUp(m)'
    <3>1. n > m /\ \A q \in Slots \ {k} : pending[q].frame > m
      BY <2>4, Evicted
    <3> QED
      BY <1>3, <2>4, <3>1 DEF Evicts, GivenUp, WindowFull
  <2>5. ASSUME NEW m \in DOMAIN fate \ {n}
        PROVE  /\ fate'[m] = "delivered" => m <= out.frame'
               /\ fate'[m] \in {"dropped", "refused"} => GivenUp(m)'
    BY <1>2, <1>6, <2>3, <2>4 DEF FateInv
  <2>6. anyDelivered' => fate'[out.frame'] = "delivered"
    <3>1. ASSUME anyDelivered
          PROVE  out.frame \in DOMAIN fate /\ out.frame # n
      BY <1>4, <1>5, <3>1 DEF OutInv, IsFrame
    <3>2. anyDelivered => /\ fate[out.frame] = "delivered"
                          /\ ~(Evicts(k, id) /\ pending[k].frame = out.frame)
      BY DEF FateInv, SlotInv, Evicts, WindowFull, TypeOK
    <3> QED
      BY <1>2, <1>6, <3>1, <3>2
  <2> QED
    BY <1>6, <2>1, <2>2, <2>5, <2>6 DEF FateInv
<1>12. FateStep
  <2>1. fate[n] \in {"sent", "pending"}
    BY <1>1, NotFinal
  <2>2. ASSUME NEW m \in DOMAIN fate, Evicts(k, id), pending[k].frame = m
        PROVE  fate[m] = "pending"
    BY <2>2 DEF FateInv, PendingFrame, Evicts, WindowFull
  <2> QED
    BY <1>6, <2>1, <2>2 DEF FateStep
<1> QED
  BY <1>7, <1>8, <1>9, <1>11, <1>12

(* Handing a frame over keeps the invariant, and it is a whole frame
   newer than the one before. *)
LEMMA CompleteStep ==
  ASSUME IInv, NEW n \in InFlight, NEW i \in 0 .. frames[n].count - 1,
         FeedComplete(n, i)
  PROVE  /\ IInv' /\ FateStep
         /\ n \in 1 .. Len(frames) /\ n > out.frame
         /\ out' = [frame |-> n, data |-> WholeFrame(n)]
<1> USE DEF IInv
<1> DEFINE id == frames[n].id
           evicted(k) == IF Evicts(k, id) THEN {k} ELSE {}
           abandoned(k) == {q \in Slots \ {k} :
                              pending[q].inUse /\ ~idNewer(pending[q].id, id)}
<1>1. PICK k \in Slots :
        /\ Stores(n, i, k)
        /\ SlotFor(k, n).id = id
        /\ Cardinality(SlotFor(k, n).data) + 1 = SlotFor(k, n).count
        /\ newestDelivered' = id
        /\ anyDelivered' = TRUE
        /\ pending' = [q \in Slots |-> IF q \in abandoned(k) \cup {k}
                                         THEN Unused ELSE pending[q]]
        /\ framesDropped' = framesDropped + Cardinality(evicted(k))
                                          + Cardinality(abandoned(k))
        /\ framesCompleted' = framesCompleted + 1
        /\ out' = [frame |-> SlotFor(k, n).frame,
                   data |-> SlotFor(k, n).data \cup {<<n, i>>}]
        /\ fate' = [Lost(fate, evicted(k) \cup abandoned(k))
                      EXCEPT ![n] = "delivered"]
  <2>1. PICK k \in Slots :
          LET p == SlotFor(k, n)
              A == {q \in Slots \ {k} : /\ pending[q].inUse
                                        /\ ~idNewer(pending[q].id, p.id)}
          IN  /\ Stores(n, i, k)
              /\ Cardinality(p.data) + 1 = p.count
              /\ newestDelivered' = p.id
              /\ anyDelivered' = TRUE
              /\ pending' = [q \in Slots |-> IF q \in A \cup {k}
                                               THEN Unused ELSE pending[q]]
              /\ framesDropped' = framesDropped + Cardinality(evicted(k))
                                                + Cardinality(A)
              /\ framesCompleted' = framesCompleted + 1
              /\ out' = [frame |-> p.frame, data |-> p.data \cup {<<n, i>>}]
              /\ fate' = [Lost(fate, evicted(k) \cup A)
                            EXCEPT ![n] = "delivered"]
    BY DEF FeedComplete, Stores, Abandoned
  <2>2. SlotFor(k, n).id = id
    BY <2>1, SlotFound
  <2> QED
    BY <2>1, <2>2
<1>2. UNCHANGED source
  BY DEF FeedComplete
<1>3. /\ out' = [frame |-> n, data |-> WholeFrame(n)]
      /\ n > out.frame /\ ~GivenUp(n)
      /\ \A q \in Slots \ {k} : pending[q].inUse => pending[q].frame # n
  <2> DEFINE p == SlotFor(k, n)
             d == p.data \cup {<<n, i>>}
  <2>1. /\ p.frame = n
        /\ Cardinality(d) = Cardinality(p.data) + 1
        /\ Cardinality(d) = p.count => d = WholeFrame(n)
        /\ n > out.frame /\ ~GivenUp(n)
        /\ \A q \in Slots \ {k} : pending[q].inUse => pending[q].frame # n
    BY <1>1, SlotFound
  <2> QED
    BY <1>1, <2>1
<1>4. /\ n \in 1 .. Len(frames) /\ IsFrame(n, id)
      /\ DOMAIN fate = 1 .. Len(frames)
  BY Window DEF TypeOK
<1>5. \A q \in Slots \ {k} : q \in abandoned(k) <=>
                              pending[q].inUse /\ pending[q].frame < n
  <2>1. ASSUME NEW q \in Slots \ {k}, pending[q].inUse
        PROVE  idNewer(pending[q].id, id) <=> pending[q].frame > n
    <3>1. IsFrame(pending[q].frame, pending[q].id)
      BY <2>1 DEF SlotInv
    <3> QED
      BY <1>4, <3>1, Compare DEF IsFrame
  <2>2. ASSUME NEW q \in Slots PROVE pending[q].frame \in Nat
    BY DEF TypeOK, Pending
  <2> QED
    BY <1>3, <1>4, <2>1, <2>2
<1>6. /\ ~pending'[k].inUse
      /\ \A q \in Slots \ {k} :
           /\ pending'[q].inUse <=> pending[q].inUse /\ pending[q].frame > n
           /\ pending'[q].inUse => pending'[q] = pending[q]
  <2>1. ASSUME NEW q \in Slots PROVE pending[q].frame \in Nat
    BY DEF TypeOK, Pending
  <2>2. ~Unused.inUse
    BY DEF Unused
  <2>3. pending'[k] = Unused
    BY <1>1
  <2>4. ASSUME NEW q \in Slots \ {k}
        PROVE  pending'[q] = IF q \in abandoned(k) THEN Unused ELSE pending[q]
    BY <1>1
  <2> HIDE DEF abandoned
  <2> QED
    BY <1>3, <1>4, <1>5, <2>1, <2>2, <2>3, <2>4
<1>7. /\ DOMAIN fate' = DOMAIN fate /\ fate'[n] = "delivered"
      /\ \A m \in DOMAIN fate \ {n} :
           fate'[m] = IF \E q \in evicted(k) \cup abandoned(k) : pending[q].frame = m
                        THEN "dropped" ELSE fate[m]
  BY <1>1, <1>4 DEF Lost
<1>8. TypeOK'
  <2>1. Unused \in Pending
    <3>1. 0 \in Ids
      BY HalfAssumption DEF Ids, IdSpace
    <3> QED
      BY <3>1 DEF Unused, Pending
  <2>2. pending' \in [Slots -> Pending]
    <3>1. pending \in [Slots -> Pending]
      BY DEF TypeOK
    <3> HIDE DEF abandoned
    <3> QED
      BY <1>1, <2>1, <3>1
  <2>3. Cardinality(evicted(k)) \in Nat
    <3>1. Cardinality({k}) = 1 /\ Cardinality({}) = 0
      BY FS_Singleton, FS_EmptySet
    <3>2. CASE Evicts(k, id)
      BY <3>1, <3>2
    <3>3. CASE ~Evicts(k, id)
      BY <3>1, <3>3
    <3> QED
      BY <3>2, <3>3
  <2>4. Cardinality(abandoned(k)) \in Nat
    <3>1. IsFiniteSet(Slots)
      BY PendingAssumption, FS_Interval DEF Slots
    <3>2. abandoned(k) \in SUBSET Slots
      OBVIOUS
    <3> HIDE DEF abandoned
    <3> QED
      BY <3>1, <3>2, FS_Subset, FS_CardinalityType
  <2>5. framesDropped' \in Nat /\ framesCompleted' \in Nat
    <3>1. framesDropped \in Nat /\ framesCompleted \in Nat
      BY DEF TypeOK
    <3> HIDE DEF abandoned, evicted
    <3> QED
      BY <1>1, <2>3, <2>4, <3>1
  <2>6. fate' \in Seq(Fates) /\ Len(fate') = Len(fate)
    <3>1. fate \in Seq(Fates) /\ Len(fate) \in Nat /\ DOMAIN fate = 1 .. Len(fate)
      BY DEF TypeOK
    <3>2. \A m \in 1 .. Len(fate) : fate'[m] \in Fates
      BY <1>7, <3>1 DEF Fates
    <3>3. fate' = [m \in 1 .. Len(fate) |-> fate'[m]]
      BY <1>1, <3>1 DEF Lost
    <3> QED
      BY <3>1, <3>2, <3>3
  <2>7. out' \in [frame : Nat, data : SUBSET (Nat \X Nat)]
    BY <1>3, <1>4, FrameType
  <2>8. newestDelivered' \in Ids /\ anyDelivered' \in BOOLEAN
    BY <1>1, <1>4, FrameType
  <2> QED
    BY <1>2, <2>2, <2>5, <2>6, <2>7, <2>8 DEF TypeOK, source
<1>9. frames' = frames /\ \A m : WholeFrame(m)' = WholeFrame(m)
  BY <1>2 DEF source, WholeFrame
<1>10. SourceInv' /\ OutInv'
  BY <1>1, <1>2, <1>3, <1>4, <1>9 DEF SourceInv, OutInv, IsFrame, source
<1>11. ASSUME NEW q \in Slots PROVE SlotInv(q)'
  <2>1. CASE pending'[q].inUse
    <3>1. q # k /\ pending'[q] = pending[q] /\ pending[q].inUse
          /\ pending[q].frame > n
      BY <1>6, <2>1
    <3>2. \A r \in Slots \ {q} :
            pending'[r].inUse => pending'[r].frame # pending[q].frame
      BY <1>6, <3>1 DEF SlotInv
    <3> QED
      BY <1>3, <1>9, <3>1, <3>2 DEF SlotInv, IsFrame
  <2>2. CASE ~pending'[q].inUse
    BY <2>2 DEF SlotInv
  <2> QED
    BY <2>1, <2>2
<1>12. \/ Evicts(k, id)
       \/ pending[k].inUse /\ pending[k].frame = n /\ ~Evicts(k, id)
       \/ ~pending[k].inUse /\ ~Evicts(k, id) /\ ~WindowFull
  BY <1>1, Window DEF Stores, Finds, Holds, FirstFree, Evicts, NoSlotHolds,
                      WindowFull
<1>13. ASSUME NEW m \in DOMAIN fate \ {n}
       PROVE  /\ (\E q \in evicted(k) \cup abandoned(k) : pending[q].frame = m)
                   <=> PendingFrame(m) /\ m < n
              /\ PendingFrame(m)' <=> PendingFrame(m) /\ m > n
  <2>1. PendingFrame(m) <=>
          \/ Evicts(k, id) /\ pending[k].frame = m
          \/ \E q \in Slots \ {k} : pending[q].inUse /\ pending[q].frame = m
    BY <1>12 DEF PendingFrame, Evicts, WindowFull
  <2>2. Evicts(k, id) => pending[k].frame < n
    BY Evicted
  <2>3. m \in Nat /\ n \in Nat
    BY <1>4
  <2>4. PendingFrame(m)' <=>
          \E q \in Slots \ {k} : pending[q].inUse /\ pending[q].frame = m /\ m > n
    BY <1>6 DEF PendingFrame
  <2>5. (\E q \in evicted(k) \cup abandoned(k) : pending[q].frame = m) <=>
          \/ Evicts(k, id) /\ pending[k].frame = m
          \/ \E q \in Slots \ {k} : pending[q].inUse /\ pending[q].frame = m /\ m < n
    <3>1. \A q : q \in abandoned(k) => q \in Slots \ {k}
      OBVIOUS
    <3>2. \A q : q \in evicted(k) <=> q = k /\ Evicts(k, id)
      OBVIOUS
    <3> HIDE DEF abandoned, evicted
    <3> QED
      BY <1>5, <3>1, <3>2
  <2> QED
    BY <2>1, <2>2, <2>3, <2>4, <2>5
<1>14. FateInv'
  <2>1. ~PendingFrame(n)'
    BY <1>3, <1>6 DEF PendingFrame
  <2>2. ASSUME NEW m \in DOMAIN fate \ {n}
        PROVE  /\ fate'[m] = "pending" <=> PendingFrame(m)'
               /\ fate'[m] = "delivered" => m <= n
               /\ fate'[m] \in {"dropped", "refused"} => m <= n
    <3>1. /\ fate[m] = "pending" <=> PendingFrame(m)
          /\ fate[m] = "delivered" => m <= out.frame
          /\ fate[m] \in {"dropped", "refused"} => GivenUp(m)
      BY DEF FateInv
    <3>2. m \in Nat /\ n \in Nat /\ out.frame \in Nat
      BY <1>4 DEF TypeOK
    <3>3. GivenUp(m) => m <= n
      <4>1. CASE m <= out.frame
        BY <1>3, <3>2, <4>1
      <4>2. CASE WindowFull /\ \A q \in Slots : pending[q].frame > m
        <5>1. pending[k].frame = n \/ n > pending[k].frame
          BY <1>12, <4>2, Evicted
        <5>2. pending[k].frame \in Nat /\ pending[k].frame > m
          BY <4>2 DEF TypeOK, Pending
        <5> QED
          BY <3>2, <5>1, <5>2
      <4> QED
        BY <4>1, <4>2 DEF GivenUp
    <3> QED
      BY <1>3, <1>7, <1>13, <3>1, <3>2, <3>3
  <2>3. out'.frame = n /\ n <= n
    BY <1>3, <1>4
  <2> QED
    BY <1>4, <1>7, <2>1, <2>2, <2>3 DEF FateInv, GivenUp
<1>15. FateStep
  <2>1. fate[n] \in {"sent", "pending"}
    BY <1>1, NotFinal
  <2>2. ASSUME NEW m \in DOMAIN fate \ {n}, fate'[m] # fate[m]
        PROVE  fate[m] = "pending"
    BY <1>7, <1>13, <2>2 DEF FateInv
  <2> QED
    BY <1>7, <2>1, <2>2 DEF FateStep
<1> QED
  BY <1>3, <1>4, <1>8, <1>10, <1>11, <1>14, <1>15

-----------------------------------------------------------------------------
(* Every step of the receiver and of the encoder keeps the invariant, and   *)
(* none changes what became of a frame once that is final.                  *)
LEMMA Step ==
  ASSUME IInv, [Next]_vars
  PROVE  IInv' /\ FateStep
<1>1. CASE Send
  <2>1. fate' = Append(fate, "sent") /\ fate \in Seq(Fates)
    BY <1>1 DEF Send, IInv, TypeOK
  <2>2. \A n \in DOMAIN fate : fate'[n] = fate[n]
    BY <2>1
  <2> QED
    BY <1>1, <2>2, SendStep DEF FateStep
<1>2. CASE \E n \in InFlight : FeedRefused(n)
  BY <1>2, RefusedStep
<1>3. ASSUME UNCHANGED vars
      PROVE  IInv' /\ FateStep
  BY <1>3 DEF vars, source, assembler, IInv, TypeOK, SourceInv, SlotInv, OutInv,
              FateInv, IsFrame, WholeFrame, PendingFrame, GivenUp, WindowFull,
              FateStep
<1>4. ASSUME NEW n \in InFlight, NEW i \in 0 .. frames[n].count - 1, Slice(n, i)
      PROVE  IInv' /\ FateStep
  <2>1. CASE FeedDuplicate(n, i)
    BY <1>3, <2>1 DEF FeedDuplicate
  <2>2. CASE FeedStore(n, i)
    BY <2>2, StoreStep
  <2>3. CASE FeedComplete(n, i)
    BY <2>3, CompleteStep
  <2> QED
    BY <1>4, <2>1, <2>2, <2>3 DEF Slice
<1> QED
  BY <1>1, <1>2, <1>3, <1>4 DEF Next

(* The inductive invariant holds in every reachable state: ids are          *)
(* positions modulo the id space, slots hold parts of one frame each, and   *)
(* only frames older than what the receiver has are ever given up.          *)
THEOREM Invariant == Spec => []IInv
<1>1. IInv /\ [Next]_vars => IInv'
  BY Step
<1> QED
  BY <1>1, InitInv, PTL DEF Spec

(* The fields of the assembler keep their types.                            *)
THEOREM TypeCorrect == Spec => []TypeOK
<1>1. IInv => TypeOK
  BY DEF IInv
<1> QED
  BY <1>1, Invariant, PTL

(* A pending frame is newer than the newest delivered one, as the code      *)
(* compares ids across their wrap, and no id ever has two slots.            *)
THEOREM WindowOrdered == Spec => []WindowOrder
<1>1. IInv => WindowOrder
  <2> SUFFICES ASSUME IInv PROVE WindowOrder
    OBVIOUS
  <2> USE DEF IInv
  <2>1. ASSUME NEW k \in Slots, pending[k].inUse
        PROVE  IsFrame(pending[k].frame, pending[k].id)
    BY <2>1 DEF SlotInv
  <2>2. ASSUME NEW k \in Slots, pending[k].inUse
        PROVE  ~Stale(pending[k].id)
    <3>1. CASE anyDelivered
      <4>1. IsFrame(out.frame, newestDelivered)
        BY <3>1 DEF OutInv
      <4>2. pending[k].frame > out.frame
        BY <2>2 DEF SlotInv
      <4> QED
        BY <2>1, <2>2, <4>1, <4>2, Compare DEF IsFrame, Stale
    <3> QED
      BY <3>1 DEF Stale
  <2>3. ASSUME NEW k \in Slots, NEW q \in Slots, k # q, pending[k].inUse
        PROVE  ~Holds(q, pending[k].id)
    <3>1. ASSUME pending[q].inUse
          PROVE  pending[q].id # pending[k].id
      <4>1. pending[q].frame # pending[k].frame
        BY <2>3, <3>1 DEF SlotInv
      <4> QED
        BY <2>1, <2>3, <3>1, <4>1, Compare DEF IsFrame
    <3> QED
      BY <3>1 DEF Holds
  <2> QED
    BY <2>2, <2>3 DEF WindowOrder
<1> QED
  BY <1>1, Invariant, PTL

(* What onFrame_ is given is exactly the slices of one frame that was sent. *)
THEOREM OnlyWholeFrames == Spec => []Intact
<1>1. IInv => Intact
  BY DEF IInv, OutInv, Intact
<1> QED
  BY <1>1, Invariant, PTL

(* Of the frames that have reached the receiver the newest is never the     *)
(* one that eviction, abandonment or refusal costs.                         *)
THEOREM NewestKept == Spec => []NewestSurvives
<1>1. IInv => NewestSurvives
  <2> SUFFICES ASSUME IInv,
                      NEW n \in DOMAIN fate, fate[n] # "sent",
                      \A m \in n + 1 .. Len(fate) : fate[m] = "sent",
                      fate[n] \in {"dropped", "refused"}
               PROVE  FALSE
    <3>1. IInv => \A n \in DOMAIN fate : fate[n] \in Fates
      <4>1. IInv => fate \in Seq(Fates)
        BY DEF IInv, TypeOK
      <4> QED
        BY <4>1
    <3> QED
      BY <3>1 DEF NewestSurvives, Fates
  <2> USE DEF IInv
  <2>1. DOMAIN fate = 1 .. Len(fate) /\ Len(fate) \in Nat /\ Len(fate) = Len(frames)
    BY DEF TypeOK
  <2>2. GivenUp(n)
    BY DEF FateInv
  <2>3. CASE n <= out.frame
    <3>1. anyDelivered
      BY <2>1, <2>3 DEF OutInv
    <3>2. out.frame \in 1 .. Len(fate) /\ fate[out.frame] = "delivered"
      BY <2>1, <3>1 DEF OutInv, IsFrame, FateInv
    <3>3. out.frame # n
      BY <3>2
    <3> QED
      BY <2>1, <2>3, <3>2, <3>3
  <2>4. CASE WindowFull /\ \A k \in Slots : pending[k].frame > n
    <3>1. 1 \in Slots
      BY PendingAssumption DEF Slots
    <3>2. /\ pending[1].inUse /\ pending[1].frame > n
          /\ pending[1].frame \in 1 .. Len(fate)
      BY <2>1, <2>4, <3>1 DEF WindowFull, SlotInv, IsFrame
    <3>3. fate[pending[1].frame] = "pending"
      BY <2>1, <3>1, <3>2 DEF FateInv, PendingFrame
    <3> QED
      BY <2>1, <3>2, <3>3
  <2> QED
    BY <2>2, <2>3, <2>4 DEF GivenUp
<1> QED
  BY <1>1, Invariant, PTL

(* No straggling slice shows a frame a second time, revives one that was    *)
(* abandoned, or turns a shown frame into a dropped one.                    *)
THEOREM FateIsFinal == Spec => FateFinal
<1>1. IInv /\ [Next]_vars => [FateStep]_vars
  BY Step
<1> QED
  BY <1>1, Invariant, PTL DEF Spec, FateFinal

(* The assembler hands over whole frames, in sending order, each at most    *)
(* once: it implements LatestWins.                                          *)
THEOREM Implements == Spec => ImplementsLatestWins
<1> DEFINE counts == [n \in 1 .. Len(frames) |-> frames[n].count]
<1>1. Init => Promise!Init
  BY DEF Init, Promise!Init, Promise!Nothing
<1>2. IInv /\ [Next]_vars => [Promise!Next]_(Promise!vars)
  <2> SUFFICES ASSUME IInv, [Next]_vars
               PROVE  [Promise!Next]_(Promise!vars)
    OBVIOUS
  <2>1. Len(frames) \in Nat /\ Len(counts) = Len(frames)
    BY DEF IInv, TypeOK
  <2>2. CASE Send
    <3>1. PICK f : frames' = Append(frames, f)
      BY <2>2 DEF Send
    <3>2. /\ Len(frames') = Len(frames) + 1
          /\ \A n \in 1 .. Len(frames) : frames'[n] = frames[n]
      BY <2>1, <3>1 DEF IInv, TypeOK
    <3>3. Len(counts') = Len(counts) + 1
      BY <2>1, <3>2
    <3>4. \A n \in 1 .. Len(counts) : counts'[n] = counts[n]
      BY <2>1, <3>2
    <3>5. UNCHANGED out
      BY <2>2 DEF Send, assembler
    <3> QED
      BY <3>3, <3>4, <3>5 DEF Promise!Next, Promise!Send
  <2>3. ASSUME UNCHANGED <<frames, out>>
        PROVE  UNCHANGED Promise!vars
    BY <2>3 DEF Promise!vars
  <2>4. ASSUME NEW n \in InFlight, NEW i \in 0 .. frames[n].count - 1,
               FeedComplete(n, i)
        PROVE  Promise!Show
    <3>1. /\ n \in 1 .. Len(frames) /\ n > out.frame
          /\ out' = [frame |-> n, data |-> WholeFrame(n)]
      BY <2>4, CompleteStep
    <3>2. UNCHANGED frames
      BY <2>4 DEF FeedComplete, source
    <3>3. WholeFrame(n) = Promise!Whole(n)
      BY <3>1 DEF WholeFrame, Promise!Whole
    <3> QED
      BY <2>1, <3>1, <3>2, <3>3 DEF Promise!Show
  <2>5. CASE \E n \in InFlight : FeedRefused(n)
    BY <2>3, <2>5 DEF FeedRefused, source, assembler
  <2>6. ASSUME NEW n \in InFlight, NEW i \in 0 .. frames[n].count - 1, Slice(n, i)
        PROVE  [Promise!Next]_(Promise!vars)
    BY <2>3, <2>4, <2>6 DEF Slice, FeedDuplicate, FeedStore, vars, source,
                            assembler, Promise!Next
  <2>7. CASE UNCHANGED vars
    BY <2>3, <2>7 DEF vars, source, assembler
  <2> QED
    BY <2>2, <2>5, <2>6, <2>7 DEF Next
<1> QED
  BY <1>1, <1>2, Invariant, PTL DEF Spec, ImplementsLatestWins, Promise!Spec
=============================================================================
