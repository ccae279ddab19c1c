--------------------------- MODULE FrameAssembler ---------------------------
(***************************************************************************)
(* The video reassembly of pc/src/core/frame_assembler.cpp, fed by the     *)
(* frame numbering of the console (netSendVideoFrame) through a network    *)
(* that may lose, duplicate and reorder slices.                            *)
(*                                                                         *)
(* Frames have a position 1, 2, ... in the order they were sent.  The      *)
(* position never reaches the code, which only sees the 32-bit frameId     *)
(* (IdSpace values here); it is carried along in `frame' and `data' to     *)
(* say which bytes a slot really holds.                                    *)
(***************************************************************************)
EXTENDS Integers, Sequences, FiniteSets

CONSTANTS
  Half,        \* 2^31: half of the frame id space
  MaxPending,  \* kMaxPending
  MaxSlices,   \* bound: slices per frame
  MaxFrames,   \* bound: frames sent
  Reorder      \* how many frames back a datagram still in flight may belong

ASSUME HalfAssumption == Half \in Nat \ {0}
ASSUME PendingAssumption == MaxPending \in Nat \ {0}
ASSUME BoundsAssumption == MaxSlices \in Nat \ {0} /\ MaxFrames \in Nat
ASSUME ReorderAssumption == Reorder \in 1 .. Half

IdSpace == 2 * Half
Ids == 0 .. IdSpace - 1
Slots == 1 .. MaxPending

VARIABLES
  frameId,          \* the encoder's static frame counter
  run,              \* how many frames were sent before it last began at 0
  frames,           \* every frame sent: its id and its number of slices
  pending,          \* pending_
  newestDelivered,  \* newestDelivered_
  anyDelivered,     \* anyDelivered_
  framesCompleted,  \* stats_.framesCompleted
  framesDropped,    \* stats_.framesDropped
  out,              \* the frame the last onFrame_ call was given
  fate              \* history: what became of each frame sent

assembler == <<pending, newestDelivered, anyDelivered, framesCompleted,
               framesDropped, out>>
source == <<frameId, run, frames>>
vars == <<source, assembler, fate>>

Fates == {"sent", "pending", "delivered", "dropped", "refused"}

-----------------------------------------------------------------------------
(* Mutant of idNewer: the ids compared without regard to their wrap. *)
idNewerUnsigned(a, b) == a > b

(* int32_t(a - b) > 0 on unsigned ids. *)
idNewer(a, b) == LET d == IF a >= b THEN a - b ELSE a - b + IdSpace
                 IN  d > 0 /\ d < Half

Unused == [inUse |-> FALSE, id |-> 0, count |-> 0, frame |-> 0, data |-> {}]

(* The slot findOrAllocate sets up for the first slice of frame n. *)
Fresh(n) == [inUse |-> TRUE, id |-> frames[n].id, count |-> frames[n].count,
             frame |-> n, data |-> {}]

(* The slices the network can still deliver, any number of times. *)
InFlight == {n \in run + 1 .. Len(frames) : n > Len(frames) - Reorder}

Holds(k, id) == pending[k].inUse /\ pending[k].id = id

NoSlotHolds(id) == \A k \in Slots : ~Holds(k, id)

FirstFree(k) ==
  ~pending[k].inUse /\ \A q \in Slots : ~pending[q].inUse => k <= q

WindowFull == \A k \in Slots : pending[k].inUse

(* What the scan leaves in `oldest': ids in use at one time span less than
   half the id space, where idNewer is a total order. *)
Oldest(k) == \A q \in Slots : ~idNewer(pending[k].id, pending[q].id)

Evicts(k, id) ==
  WindowFull /\ NoSlotHolds(id) /\ Oldest(k) /\ idNewer(id, pending[k].id)

(* findOrAllocate returns slot k for a slice of this id. *)
Finds(k, id) ==
  \/ Holds(k, id)
  \/ NoSlotHolds(id) /\ FirstFree(k)
  \/ Evicts(k, id)

(* Mutants of Stale: nothing is; the newest delivered frame itself is let in
   again. *)
StaleNever(id) == FALSE
StaleButNotEqual(id) == anyDelivered /\ idNewer(newestDelivered, id)

Stale(id) == anyDelivered /\ ~idNewer(id, newestDelivered)

HasSlice(p, i) == \E s \in p.data : s[2] = i

(* Mutant of SlotFor: a slot taken from another frame keeps its slices. *)
SlotForDirty(k, n) ==
  IF Holds(k, frames[n].id) THEN pending[k]
  ELSE [Fresh(n) EXCEPT !.data = pending[k].data]

(* The slot of frame n's id, set up if the id had none. *)
SlotFor(k, n) == IF Holds(k, frames[n].id) THEN pending[k] ELSE Fresh(n)

(* Mutant of Abandoned: the older frames are left pending. *)
AbandonedNone(k, id) == {}

(* The frames that delivering the one in slot k, with this id, gives up. *)
Abandoned(k, id) ==
  {q \in Slots \ {k} : pending[q].inUse /\ ~idNewer(pending[q].id, id)}

(* fate after the slots in S lost their frame. *)
Lost(f, S) == [n \in DOMAIN f |->
                 IF \E k \in S : pending[k].frame = n THEN "dropped" ELSE f[n]]

Init ==
  /\ frameId = 0
  /\ run = 0
  /\ frames = << >>
  /\ pending = [k \in Slots |-> Unused]
  /\ newestDelivered = 0
  /\ anyDelivered = FALSE
  /\ framesCompleted = 0
  /\ framesDropped = 0
  /\ out = [frame |-> 0, data |-> {}]
  /\ fate = << >>

-----------------------------------------------------------------------------
(* The id of the next frame: a uint32_t that wraps. *)
NextFrameId == (frameId + 1) % IdSpace

(* netSendVideoFrame: the next id, wrapping, and as many slices as the
   encoded size asks for.  The guard is an assumption on the environment,
   not a check in the code: nothing the receiver remembers is half the id
   space (two years of video at 30 fps) behind the encoder. *)
Send ==
  /\ Len(frames) < MaxFrames
  /\ \A k \in Slots :
       pending[k].inUse => Len(frames) + 1 - pending[k].frame < Half
  /\ anyDelivered => Len(frames) + 1 - out.frame < Half
  /\ frameId' = NextFrameId
  /\ \E c \in 1 .. MaxSlices :
       frames' = Append(frames, [id |-> frameId', count |-> c])
  /\ fate' = Append(fate, "sent")
  /\ UNCHANGED <<run, assembler>>

(* findOrAllocate returns no slot: the window is full of newer frames. *)
NoRoom(id) ==
  /\ WindowFull /\ NoSlotHolds(id)
  /\ \A k \in Slots : ~idNewer(id, pending[k].id)

(* feed: the slice of a frame at or before the newest delivered one, or of
   one for which findOrAllocate has no slot, is dropped on arrival. *)
FeedRefused(n) ==
  /\ Stale(frames[n].id) \/ NoRoom(frames[n].id)
  /\ fate' = [fate EXCEPT ![n] = IF @ = "sent" THEN "refused" ELSE @]
  /\ UNCHANGED <<source, assembler>>

(* feed: a slice the slot already has, or whose index is outside the count
   the slot was set up with, changes nothing.  A slot is only ever without
   slices before its first one is stored, so it is never a fresh slot. *)
FeedDuplicate(n, i) ==
  /\ ~Stale(frames[n].id)
  /\ \E k \in Slots :
       /\ Holds(k, frames[n].id)
       /\ i >= pending[k].count \/ HasSlice(pending[k], i)
  /\ UNCHANGED vars

(* feed: the slice is stored and its frame still misses others.  When the
   window was full, the oldest pending frame gave its slot. *)
FeedStore(n, i) ==
  /\ ~Stale(frames[n].id)
  /\ \E k \in Slots :
       LET id == frames[n].id
           p  == SlotFor(k, n)
           gone == IF Evicts(k, id) THEN {k} ELSE {}
       IN  /\ Finds(k, id)
           /\ i < p.count /\ ~HasSlice(p, i)
           /\ Cardinality(p.data) + 1 # p.count
           /\ pending' = [pending EXCEPT ![k] =
                            [p EXCEPT !.data = @ \cup {<<n, i>>}]]
           /\ framesDropped' = framesDropped + Cardinality(gone)
           /\ fate' = [Lost(fate, gone) EXCEPT ![n] = "pending"]
  /\ UNCHANGED <<source, newestDelivered, anyDelivered, framesCompleted, out>>

(* feed and deliver: the slice completes its frame, which is handed over
   and takes every pending frame that is not newer with it. *)
FeedComplete(n, i) ==
  /\ ~Stale(frames[n].id)
  /\ \E k \in Slots :
       LET id == frames[n].id
           p  == SlotFor(k, n)
           evicted == IF Evicts(k, id) THEN {k} ELSE {}
           abandoned == Abandoned(k, p.id)
       IN  /\ Finds(k, id)
           /\ i < p.count /\ ~HasSlice(p, i)
           /\ Cardinality(p.data) + 1 = p.count
           /\ newestDelivered' = p.id
           /\ anyDelivered' = TRUE
           /\ pending' = [q \in Slots |-> IF q \in abandoned \cup {k}
                                            THEN Unused ELSE pending[q]]
           /\ framesDropped' = framesDropped + Cardinality(evicted)
                                             + Cardinality(abandoned)
           /\ framesCompleted' = framesCompleted + 1
           /\ out' = [frame |-> p.frame, data |-> p.data \cup {<<n, i>>}]
           /\ fate' = [Lost(fate, evicted \cup abandoned)
                         EXCEPT ![n] = "delivered"]
  /\ UNCHANGED source

Slice(n, i) ==
  FeedDuplicate(n, i) \/ FeedStore(n, i) \/ FeedComplete(n, i)

Next ==
  \/ Send
  \/ \E n \in InFlight : FeedRefused(n)
  \/ \E n \in InFlight : \E i \in 0 .. frames[n].count - 1 : Slice(n, i)

Spec == Init /\ [][Next]_vars

(* The console is rebooted (or the simulator started again) while the
   receiving application keeps running: the encoder counts from zero, no
   datagram of the earlier run is left, and nothing tells the assembler. *)
Restart ==
  /\ frameId # 0
  /\ frameId' = 0
  /\ run' = Len(frames)
  /\ UNCHANGED <<frames, assembler, fate>>

SpecWithRestart == Init /\ [][Next \/ Restart]_vars

-----------------------------------------------------------------------------
Frame == [id : Ids, count : 1 .. MaxSlices]
Pending == [inUse : BOOLEAN, id : Ids, count : Nat, frame : Nat,
            data : SUBSET (Nat \X Nat)]

TypeOK ==
  /\ frameId \in Ids
  /\ run \in 0 .. Len(frames)
  /\ frames \in Seq(Frame)
  /\ pending \in [Slots -> Pending]
  /\ newestDelivered \in Ids
  /\ anyDelivered \in BOOLEAN
  /\ framesCompleted \in Nat
  /\ framesDropped \in Nat
  /\ out \in [frame : Nat, data : SUBSET (Nat \X Nat)]
  /\ fate \in Seq(Fates)
  /\ Len(fate) = Len(frames)

(* The pending window is consistent with what was delivered: a pending
   frame is newer than the newest delivered one, as the code compares them
   across the wrap of the id, and no id has two slots. *)
WindowOrder ==
  /\ \A k \in Slots : pending[k].inUse => ~Stale(pending[k].id)
  /\ \A k, q \in Slots :
       k # q /\ pending[k].inUse => ~Holds(q, pending[k].id)

WholeFrame(n) == {<<n, i>> : i \in 0 .. frames[n].count - 1}

(* An incompletely received frame is never handed over, and no frame is
   patched together from the slices of two. *)
Intact == anyDelivered => out.data = WholeFrame(out.frame)

(* The latest frame of which any slice has arrived is never the one that
   is given up: it is pending or it was the last delivered. *)
NewestSurvives ==
  \A n \in DOMAIN fate :
    /\ fate[n] # "sent"
    /\ \A m \in n + 1 .. Len(fate) : fate[m] = "sent"
    => fate[n] \in {"pending", "delivered"}

(* A frame that was delivered, dropped or turned away on arrival stays so:
   a straggler neither shows a frame twice nor revives an abandoned one. *)
FateStep ==
  \A n \in DOMAIN fate :
    fate[n] \in {"delivered", "dropped", "refused"} => fate'[n] = fate[n]

FateFinal == [][FateStep]_vars

(* The inductive invariant behind them: ids are positions modulo the id
   space; what the receiver remembers lies within half of that space of the
   encoder; a slot holds slices of one frame only, and not all of them; a
   frame that was given up is at or before the newest delivered frame, or
   older than everything in a window that has been full since. *)
IsId(n, id) == id \in Ids /\ \E q \in 0 .. n : n = q * IdSpace + id

SourceInv ==
  /\ run = 0
  /\ IsId(Len(frames), frameId)
  /\ \A n \in 1 .. Len(frames) : IsId(n, frames[n].id)

IsFrame(n, id) ==
  /\ n \in 1 .. Len(frames)
  /\ Len(frames) - n < Half
  /\ id = frames[n].id

SlotInv(k) ==
  pending[k].inUse =>
    /\ IsFrame(pending[k].frame, pending[k].id)
    /\ pending[k].count = frames[pending[k].frame].count
    /\ pending[k].data \subseteq WholeFrame(pending[k].frame)
    /\ Cardinality(pending[k].data) # pending[k].count
    /\ pending[k].frame > out.frame
    /\ \A q \in Slots \ {k} :
         pending[q].inUse => pending[q].frame # pending[k].frame

OutInv ==
  IF anyDelivered
  THEN IsFrame(out.frame, newestDelivered) /\ out.data = WholeFrame(out.frame)
  ELSE out = [frame |-> 0, data |-> {}]

PendingFrame(n) == \E k \in Slots : pending[k].inUse /\ pending[k].frame = n

GivenUp(n) ==
  \/ n <= out.frame
  \/ WindowFull /\ \A k \in Slots : pending[k].frame > n

FateInv ==
  /\ anyDelivered => fate[out.frame] = "delivered"
  /\ \A n \in DOMAIN fate :
       /\ fate[n] = "pending" <=> PendingFrame(n)
       /\ fate[n] = "delivered" => n <= out.frame
       /\ fate[n] \in {"dropped", "refused"} => GivenUp(n)

IInv ==
  TypeOK /\ SourceInv /\ (\A k \in Slots : SlotInv(k)) /\ OutInv /\ FateInv

(* The assembler implements the abstract promise. *)
Promise == INSTANCE LatestWins
             WITH counts <- [n \in 1 .. Len(frames) |-> frames[n].count],
                  shown <- out

ImplementsLatestWins == Promise!Spec
=============================================================================
