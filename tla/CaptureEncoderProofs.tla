------------------------ MODULE CaptureEncoderProofs ------------------------
(***************************************************************************)
(* Proofs about CaptureEncoder, for every queue size and number of         *)
(* pictures, whether or not the encoder gets its buffers.                  *)
(*                                                                         *)
(* First, that the two threads agree on who has which surface; then, on    *)
(* top of it, that pictures stay in the order of their blits.              *)
(***************************************************************************)
EXTENDS CaptureEncoder, TLAPS

(* A surface that was blitted to has an image.  When no application is there, no
   surface is being encoded, and the hook, if it is still under way, finds all
   of them free. *)
SurfaceInv ==
  /\ \A i \in Surfaces : state[i] = "COPY_PENDING" => image[i] # NoImage
  /\ app = "off" =>
       \A i \in Surfaces :
         /\ state[i] # "ENCODING"
         /\ hookAt = "entered" => state[i] = "FREE"

(* The encoder's thread is gone when the application is over, or never was;
   there is no message to end it before encoderStop, and the queue does not
   overflow. *)
EncoderInv ==
  /\ app \in {"off", "encoderStopped"} => encoder = "off"
  /\ app \in {"on", "netStopped"} /\ ~running => encoder = "off"
  /\ app \notin {"on", "netStopped"} => ~running
  /\ running => \A k \in DOMAIN queue : queue[k] # Shutdown
  /\ Len(queue) <= QueueSize

IInv == TypeOK /\ SurfaceInv /\ EncoderInv /\ SurfaceTracked /\ ImageKept

-----------------------------------------------------------------------------
(* What is handed over are some of the surfaces that are ready, each once. *)
LEMMA Handing ==
  ASSUME TypeOK, EncoderInv, NEW S \in SUBSET Surfaces
  PROVE  LET t == Accepted(InOrder(S))
         IN  /\ t \in Seq(S)
             /\ t \in Seq(Surfaces)
             /\ \A k, m \in DOMAIN t : t[k] = t[m] => k = m
             /\ Len(queue) + Len(t) <= QueueSize
<1> DEFINE A == IF 0 \in S THEN <<0>> ELSE << >>
           B == IF 1 \in S THEN <<1>> ELSE << >>
           order == A \o B
           room == QueueSize - Len(queue)
           n == IF Len(order) <= room THEN Len(order) ELSE room
           t == SubSeq(order, 1, n)
<1>1. room \in Nat /\ Len(queue) \in Nat /\ QueueSize \in Nat
  BY QueueAssumption DEF TypeOK, EncoderInv
<1>2. A \in Seq(S) /\ Len(A) \in {0, 1} /\ (Len(A) = 1 => A[1] = 0)
  OBVIOUS
<1>3. B \in Seq(S) /\ Len(B) \in {0, 1} /\ (Len(B) = 1 => B[1] = 1)
  OBVIOUS
<1> HIDE DEF A, B
<1>4. /\ order \in Seq(S) /\ Len(order) = Len(A) + Len(B)
      /\ \A k \in 1 .. Len(order) :
           order[k] = IF k <= Len(A) THEN A[k] ELSE B[k - Len(A)]
  BY <1>2, <1>3
<1> HIDE DEF order
<1>5. \A k, m \in 1 .. Len(order) : order[k] = order[m] => k = m
  BY <1>2, <1>3, <1>4
<1>6. n \in Nat /\ n <= Len(order) /\ n <= room
  BY <1>1, <1>2, <1>3, <1>4
<1> HIDE DEF n, room
<1>7. t \in Seq(S) /\ Len(t) = n /\ \A k \in 1 .. n : t[k] = order[k]
  BY <1>4, <1>6
<1>8. t = Accepted(InOrder(S))
  BY DEF Accepted, InOrder, t, n, room, order, A, B
<1> HIDE DEF t
<1>9. t \in Seq(Surfaces)
  BY <1>7
<1>10. \A k, m \in DOMAIN t : t[k] = t[m] => k = m
  BY <1>5, <1>6, <1>7, <1>4, <1>2, <1>3
<1>11. Len(queue) + Len(t) <= QueueSize
  BY <1>1, <1>6, <1>7 DEF room
<1> QED
  BY <1>7, <1>8, <1>9, <1>10, <1>11

(* The initial state satisfies the inductive invariant. *)
LEMMA InitInv == Init => IInv
<1> SUFFICES ASSUME Init PROVE IInv
  OBVIOUS
<1> USE BoundAssumption, QueueAssumption DEF Init
<1>1. TypeOK
  <2>1. 0 \in Pictures /\ 0 \in Surfaces /\ NoImage \in Pictures
    BY DEF Pictures, Surfaces, NoImage
  <2>2. /\ state \in [Surfaces -> {"FREE", "COPY_PENDING", "ENCODING"}]
        /\ image \in [Surfaces -> Pictures]
        /\ content \in [Surfaces -> Pictures]
        /\ captured \in [Surfaces -> [image : Pictures, timestamp : Pictures]]
        /\ sent \in [picture : Pictures, timestamp : Pictures]
    BY <2>1
  <2>3. queue \in Seq(Surfaces \cup {Shutdown})
    OBVIOUS
  <2> QED
    BY <2>1, <2>2, <2>3 DEF TypeOK
<1>2. SurfaceInv
  BY DEF SurfaceInv
<1>3. EncoderInv
  BY DEF EncoderInv
<1>4. SurfaceTracked /\ ImageKept
  BY DEF SurfaceTracked, ImageKept
<1> QED
  BY <1>1, <1>2, <1>3, <1>4 DEF IInv

(* The message that ends the encoder comes behind all others. *)
LEMMA StopKeeps == ASSUME IInv, EncoderStop PROVE IInv'
<1> DEFINE n == Len(queue)
<1>1. /\ app = "netStopped"
      /\ running => n < QueueSize
      /\ app' = IF running THEN "joining" ELSE "encoderStopped"
      /\ running' = FALSE
      /\ queue' = IF running THEN Append(queue, Shutdown) ELSE queue
      /\ UNCHANGED <<active, capture, encoder, index, picture, history>>
  BY DEF EncoderStop, Woken
<1>2. queue \in Seq(Surfaces \cup {Shutdown}) /\ n \in Nat /\ QueueSize \in Nat
  BY QueueAssumption DEF IInv, TypeOK
<1>3. Shutdown \notin Surfaces
  BY DEF Shutdown, Surfaces
<1>4. /\ queue' \in Seq(Surfaces \cup {Shutdown})
      /\ Len(queue') = IF running THEN n + 1 ELSE n
      /\ \A k \in 1 .. n : queue'[k] = queue[k]
      /\ running => queue'[n + 1] = Shutdown
  BY <1>1, <1>2
<1>5. DOMAIN queue = 1 .. n /\ DOMAIN queue' = 1 .. Len(queue')
  BY <1>2, <1>4
<1>6. running \in BOOLEAN
  BY DEF IInv, TypeOK
<1> HIDE DEF n
<1>7. \A i \in Surfaces : Queued(i)' <=> Queued(i)
  BY <1>2, <1>3, <1>4, <1>5, <1>6 DEF Queued
<1>8. \A i \in Surfaces : Reading(i)' <=> Reading(i)
  BY <1>1 DEF Reading
<1>9. TypeOK'
  BY <1>1, <1>4 DEF IInv, TypeOK, capture, history
<1>10. SurfaceInv'
  BY <1>1 DEF IInv, SurfaceInv, capture
<1>11. EncoderInv'
  BY <1>1, <1>2, <1>4, <1>6 DEF IInv, EncoderInv, n
<1>12. SurfaceTracked'
  <2>1. \A k, m \in DOMAIN queue' : queue'[k] = queue'[m] => k = m
    <3>1. \A k, m \in 1 .. n : queue[k] = queue[m] => k = m
      BY <1>1, <1>5 DEF IInv, SurfaceTracked
    <3>2. running => \A k \in 1 .. n : queue[k] # Shutdown
      BY <1>5 DEF IInv, EncoderInv
    <3> QED
      BY <1>2, <1>4, <1>5, <1>6, <3>1, <3>2
  <2> QED
    BY <1>1, <1>7, <1>8, <2>1 DEF IInv, SurfaceTracked, capture
<1>13. ImageKept'
  BY <1>1, <1>7, <1>8 DEF IInv, ImageKept, capture
<1> QED
  BY <1>9, <1>10, <1>11, <1>12, <1>13 DEF IInv

(* The encoder takes the message that has waited longest. *)
LEMMA TakeKeeps == ASSUME IInv, EncoderTake PROVE IInv'
<1> DEFINE n == Len(queue)
           h == queue[1]
<1>1. /\ encoder = "receiving" /\ queue # << >>
      /\ queue' = Tail(queue)
      /\ IF h = Shutdown
         THEN encoder' = "off" /\ UNCHANGED index
         ELSE encoder' = "reading" /\ index' = h
      /\ UNCHANGED <<app, active, capture, running, picture, history>>
  BY DEF EncoderTake, IsShutdown
<1>2. queue \in Seq(Surfaces \cup {Shutdown}) /\ n \in Nat /\ n >= 1
  BY <1>1 DEF IInv, TypeOK
<1>3. Shutdown \notin Surfaces
  BY DEF Shutdown, Surfaces
<1>4. /\ queue' \in Seq(Surfaces \cup {Shutdown})
      /\ Len(queue') = n - 1
      /\ \A k \in 1 .. n - 1 : queue'[k] = queue[k + 1]
      /\ h \in Surfaces \cup {Shutdown}
  BY <1>1, <1>2
<1>5. DOMAIN queue = 1 .. n /\ DOMAIN queue' = 1 .. n - 1
  BY <1>2, <1>4
<1>6. app # "off" /\ running \in BOOLEAN
  BY <1>1 DEF IInv, EncoderInv, TypeOK
<1>7. \A k, m \in 1 .. n : queue[k] = queue[m] => k = m
  BY <1>5, <1>6 DEF IInv, SurfaceTracked
<1> HIDE DEF n, h
<1>8. \A i \in Surfaces : Queued(i) <=> Queued(i)' \/ i = h
  <2> TAKE i \in Surfaces
  <2>1. ASSUME NEW k \in 1 .. n, queue[k] = i PROVE Queued(i)' \/ i = h
    <3>1. CASE k = 1
      BY <2>1, <3>1 DEF h
    <3>2. CASE k # 1
      <4>1. k - 1 \in 1 .. n - 1 /\ queue'[k - 1] = queue[k]
        BY <1>2, <1>4, <3>2
      <4> QED
        BY <1>5, <2>1, <4>1 DEF Queued
    <3> QED
      BY <3>1, <3>2
  <2>2. ASSUME NEW k \in 1 .. n - 1, queue'[k] = i PROVE Queued(i)
    <3>1. k + 1 \in 1 .. n /\ queue[k + 1] = i
      BY <1>2, <1>4, <2>2
    <3> QED
      BY <1>5, <3>1 DEF Queued
  <2>3. ASSUME i = h PROVE Queued(i)
    BY <1>2, <1>5, <2>3 DEF Queued, h
  <2> QED
    BY <1>5, <2>1, <2>2, <2>3 DEF Queued
<1>9. \A i \in Surfaces : ~Reading(i) /\ (Reading(i)' <=> i = h)
  BY <1>1, <1>3 DEF Reading
<1>10. \A i \in Surfaces : i = h => ~Queued(i)'
  <2>1. \A k \in 1 .. n - 1 : queue'[k] # h
    BY <1>2, <1>4, <1>7 DEF h
  <2> QED
    BY <1>5, <2>1 DEF Queued
<1>11. TypeOK'
  BY <1>1, <1>4 DEF IInv, TypeOK, capture, history
<1>12. SurfaceInv'
  BY <1>1 DEF IInv, SurfaceInv, capture
<1>13. EncoderInv'
  <2>1. running => \A k \in 1 .. n - 1 : queue'[k] # Shutdown
    BY <1>2, <1>4, <1>5 DEF IInv, EncoderInv
  <2>2. running => h # Shutdown
    BY <1>2, <1>5 DEF IInv, EncoderInv, h
  <2>3. Len(queue') <= QueueSize
    BY <1>2, <1>4, QueueAssumption DEF IInv, EncoderInv, n
  <2> QED
    BY <1>1, <1>5, <1>6, <2>1, <2>2, <2>3 DEF IInv, EncoderInv, TypeOK
<1>14. SurfaceTracked'
  <2>1. \A k, m \in DOMAIN queue' : queue'[k] = queue'[m] => k = m
    BY <1>2, <1>4, <1>5, <1>7
  <2>2. \A i \in Surfaces : state'[i] = "ENCODING" <=> Queued(i)' \/ Reading(i)'
    BY <1>1, <1>6, <1>8, <1>9 DEF IInv, SurfaceTracked, capture
  <2>3. \A i \in Surfaces : Reading(i)' => ~Queued(i)'
    BY <1>9, <1>10
  <2> QED
    BY <2>1, <2>2, <2>3 DEF SurfaceTracked
<1>15. ImageKept'
  BY <1>1, <1>6, <1>8, <1>9 DEF IInv, ImageKept, capture
<1> QED
  BY <1>11, <1>12, <1>13, <1>14, <1>15 DEF IInv

(* The start and the end of the application, and the hosts. *)
LEMMA MainKeeps ==
  ASSUME IInv,
         \/ AppStart \/ HostChanges \/ NetStop
         \/ EncoderStop \/ EncoderJoin \/ CaptureShutdown
  PROVE  IInv'
<1> USE DEF capture, encoding, history, vars, Queued, Reading
<1>1. CASE AppStart
  <2> USE <1>1 DEF AppStart
  <2>1. TypeOK'
    BY DEF IInv, TypeOK
  <2>2. SurfaceInv'
    BY DEF IInv, SurfaceInv, TypeOK
  <2>3. EncoderInv'
    BY QueueAssumption DEF IInv, EncoderInv, TypeOK
  <2>4. SurfaceTracked'
    BY DEF IInv, SurfaceTracked, EncoderInv, SurfaceInv, TypeOK
  <2>5. ImageKept'
    BY DEF IInv, ImageKept, SurfaceTracked, EncoderInv, TypeOK
  <2> QED
    BY <2>1, <2>2, <2>3, <2>4, <2>5 DEF IInv
<1>2. CASE HostChanges
  <2> USE <1>2 DEF HostChanges
  <2>1. TypeOK'
    BY DEF IInv, TypeOK
  <2>2. SurfaceInv'
    BY DEF IInv, SurfaceInv, TypeOK
  <2>3. EncoderInv'
    BY DEF IInv, EncoderInv, TypeOK
  <2>4. SurfaceTracked'
    BY DEF IInv, SurfaceTracked, EncoderInv, SurfaceInv, TypeOK
  <2>5. ImageKept'
    BY DEF IInv, ImageKept, SurfaceTracked, EncoderInv, TypeOK
  <2> QED
    BY <2>1, <2>2, <2>3, <2>4, <2>5 DEF IInv
<1>3. CASE NetStop
  <2> USE <1>3 DEF NetStop
  <2>1. TypeOK'
    BY DEF IInv, TypeOK
  <2>2. SurfaceInv'
    BY DEF IInv, SurfaceInv, TypeOK
  <2>3. EncoderInv'
    BY DEF IInv, EncoderInv, TypeOK
  <2>4. SurfaceTracked'
    BY DEF IInv, SurfaceTracked, EncoderInv, SurfaceInv, TypeOK
  <2>5. ImageKept'
    BY DEF IInv, ImageKept, SurfaceTracked, EncoderInv, TypeOK
  <2> QED
    BY <2>1, <2>2, <2>3, <2>4, <2>5 DEF IInv
<1>4. CASE EncoderStop
  BY <1>4, StopKeeps
<1>5. CASE EncoderJoin
  <2> USE <1>5 DEF EncoderJoin
  <2>1. TypeOK'
    BY DEF IInv, TypeOK
  <2>2. SurfaceInv'
    BY DEF IInv, SurfaceInv, TypeOK
  <2>3. EncoderInv'
    BY DEF IInv, EncoderInv, TypeOK
  <2>4. SurfaceTracked'
    BY DEF IInv, SurfaceTracked, EncoderInv, SurfaceInv, TypeOK
  <2>5. ImageKept'
    BY DEF IInv, ImageKept, SurfaceTracked, EncoderInv, TypeOK
  <2> QED
    BY <2>1, <2>2, <2>3, <2>4, <2>5 DEF IInv
<1>6. CASE CaptureShutdown
  <2> USE <1>6 DEF CaptureShutdown
  <2>1. TypeOK'
    <3>1. NoImage \in Pictures
      BY BoundAssumption DEF NoImage, Pictures
    <3>2. /\ state' \in [Surfaces -> {"FREE", "COPY_PENDING", "ENCODING"}]
          /\ image' \in [Surfaces -> Pictures]
      BY <3>1
    <3> QED
      BY <3>2 DEF IInv, TypeOK
  <2>2. SurfaceInv'
    BY DEF IInv, SurfaceInv, TypeOK
  <2>3. EncoderInv'
    BY DEF IInv, EncoderInv, TypeOK
  <2>4. SurfaceTracked'
    BY DEF IInv, SurfaceTracked, EncoderInv, SurfaceInv, TypeOK
  <2>5. ImageKept'
    BY DEF IInv, ImageKept, SurfaceTracked, EncoderInv, TypeOK
  <2> QED
    BY <2>1, <2>2, <2>3, <2>4, <2>5 DEF IInv
<1> QED
  BY <1>1, <1>2, <1>3, <1>4, <1>5, <1>6

(* The encoder. *)
LEMMA EncoderKeeps ==
  ASSUME IInv,
         \/ EncoderAlloc \/ EncoderLoop \/ EncoderTake
         \/ EncoderEncode \/ EncoderSend
  PROVE  IInv'
<1> USE DEF capture, encoding, history, vars, Queued, Reading
<1>1. CASE EncoderAlloc
  <2> USE <1>1 DEF EncoderAlloc
  <2>1. TypeOK'
    BY DEF IInv, TypeOK
  <2>2. SurfaceInv'
    BY DEF IInv, SurfaceInv, TypeOK
  <2>3. EncoderInv'
    BY DEF IInv, EncoderInv, TypeOK
  <2>4. SurfaceTracked'
    BY DEF IInv, SurfaceTracked, EncoderInv, SurfaceInv, TypeOK
  <2>5. ImageKept'
    BY DEF IInv, ImageKept, SurfaceTracked, EncoderInv, TypeOK
  <2> QED
    BY <2>1, <2>2, <2>3, <2>4, <2>5 DEF IInv
<1>2. CASE EncoderLoop
  <2> USE <1>2 DEF EncoderLoop
  <2>1. TypeOK'
    BY DEF IInv, TypeOK
  <2>2. SurfaceInv'
    BY DEF IInv, SurfaceInv, TypeOK
  <2>3. EncoderInv'
    BY DEF IInv, EncoderInv, TypeOK
  <2>4. SurfaceTracked'
    BY DEF IInv, SurfaceTracked, EncoderInv, SurfaceInv, TypeOK
  <2>5. ImageKept'
    BY DEF IInv, ImageKept, SurfaceTracked, EncoderInv, TypeOK
  <2> QED
    BY <2>1, <2>2, <2>3, <2>4, <2>5 DEF IInv
<1>3. CASE EncoderTake
  BY <1>3, TakeKeeps
<1>4. CASE EncoderEncode
  <2> USE <1>4 DEF EncoderEncode, Release
  <2>1. TypeOK'
    BY DEF IInv, TypeOK
  <2>2. SurfaceInv'
    BY DEF IInv, SurfaceInv, TypeOK
  <2>3. EncoderInv'
    BY DEF IInv, EncoderInv, TypeOK
  <2>4. SurfaceTracked'
    BY DEF IInv, SurfaceTracked, EncoderInv, SurfaceInv, TypeOK
  <2>5. ImageKept'
    BY DEF IInv, ImageKept, SurfaceTracked, EncoderInv, TypeOK
  <2> QED
    BY <2>1, <2>2, <2>3, <2>4, <2>5 DEF IInv
<1>5. CASE EncoderSend
  <2> USE <1>5 DEF EncoderSend
  <2>1. TypeOK'
    BY DEF IInv, TypeOK
  <2>2. SurfaceInv'
    BY DEF IInv, SurfaceInv, TypeOK
  <2>3. EncoderInv'
    BY DEF IInv, EncoderInv, TypeOK
  <2>4. SurfaceTracked'
    BY DEF IInv, SurfaceTracked, EncoderInv, SurfaceInv, TypeOK
  <2>5. ImageKept'
    BY DEF IInv, ImageKept, SurfaceTracked, EncoderInv, TypeOK
  <2> QED
    BY <2>1, <2>2, <2>3, <2>4, <2>5 DEF IInv
<1> QED
  BY <1>1, <1>2, <1>3, <1>4, <1>5

(* The hook before it has the lock, and no step. *)
LEMMA SkipKeeps ==
  ASSUME IInv, HookSkip \/ HookEnter \/ UNCHANGED vars
  PROVE  IInv'
<1> USE DEF capture, encoding, history, vars, Queued, Reading
<1>1. CASE HookSkip
  <2> USE <1>1 DEF HookSkip
  <2>1. TypeOK'
    BY DEF IInv, TypeOK
  <2>2. SurfaceInv'
    BY DEF IInv, SurfaceInv, TypeOK
  <2>3. EncoderInv'
    BY DEF IInv, EncoderInv, TypeOK
  <2>4. SurfaceTracked'
    BY DEF IInv, SurfaceTracked, EncoderInv, SurfaceInv, TypeOK
  <2>5. ImageKept'
    BY DEF IInv, ImageKept, SurfaceTracked, EncoderInv, TypeOK
  <2> QED
    BY <2>1, <2>2, <2>3, <2>4, <2>5 DEF IInv
<1>2. CASE HookEnter
  <2> USE <1>2 DEF HookEnter
  <2>1. TypeOK'
    BY DEF IInv, TypeOK
  <2>2. SurfaceInv'
    BY DEF IInv, SurfaceInv, TypeOK
  <2>3. EncoderInv'
    BY DEF IInv, EncoderInv, TypeOK
  <2>4. SurfaceTracked'
    BY DEF IInv, SurfaceTracked, EncoderInv, SurfaceInv, TypeOK
  <2>5. ImageKept'
    BY DEF IInv, ImageKept, SurfaceTracked, EncoderInv, TypeOK
  <2> QED
    BY <2>1, <2>2, <2>3, <2>4, <2>5 DEF IInv
<1>3. CASE UNCHANGED vars
  <2> USE <1>3 DEF vars
  <2>1. TypeOK'
    BY DEF IInv, TypeOK
  <2>2. SurfaceInv'
    BY DEF IInv, SurfaceInv, TypeOK
  <2>3. EncoderInv'
    BY DEF IInv, EncoderInv, TypeOK
  <2>4. SurfaceTracked'
    BY DEF IInv, SurfaceTracked, EncoderInv, SurfaceInv, TypeOK
  <2>5. ImageKept'
    BY DEF IInv, ImageKept, SurfaceTracked, EncoderInv, TypeOK
  <2> QED
    BY <2>1, <2>2, <2>3, <2>4, <2>5 DEF IInv
<1> QED
  BY <1>1, <1>2, <1>3

(* Under the lock: what is handed over, and what is issued after it. *)
LEMMA BodyKeeps == ASSUME IInv, HookBody PROVE IInv'
<1>1. PICK sameMs \in BOOLEAN :
        LET ready == Ready(sameMs)
            taken == Accepted(InOrder(ready))
            after == Handed(ready, {taken[k] : k \in DOMAIN taken})
            free  == {i \in Surfaces : Target(after, i)}
        IN  /\ sameMs => recent
            /\ queue' = queue \o taken
            /\ captured' = [i \in Surfaces |->
                              IF i \in ready THEN Record(i) ELSE captured[i]]
            /\ \/ \E i \in free :
                    ~sameMs /\ captures < MaxCaptures /\ Issue(after, i)
               \/ /\ state' = after
                  /\ recent' = sameMs
                  /\ UNCHANGED <<image, content, captures>>
  BY DEF HookBody
<1>2. /\ hookAt = "entered" /\ hookAt' = "outside"
      /\ UNCHANGED <<app, active, initialized, running, encoder, index, picture,
                     sent>>
  BY DEF HookBody
<1> DEFINE ready == Ready(sameMs)
           taken == Accepted(InOrder(ready))
           T == {taken[k] : k \in DOMAIN taken}
           after == Handed(ready, T)
           n == Len(queue)
<1>3. /\ ready \subseteq Surfaces
      /\ \A i \in ready : state[i] = "COPY_PENDING"
  BY DEF Ready
<1>4. /\ taken \in Seq(ready) /\ taken \in Seq(Surfaces)
      /\ \A k, m \in DOMAIN taken : taken[k] = taken[m] => k = m
      /\ n + Len(taken) <= QueueSize
  BY <1>3, Handing DEF IInv
<1>5. /\ queue' = queue \o taken
      /\ captured' = [i \in Surfaces |->
                        IF i \in ready THEN Record(i) ELSE captured[i]]
      /\ recent' \in BOOLEAN
  BY <1>1 DEF Issue
<1>6. T \subseteq ready
  BY <1>4
<1>7. /\ after \in [Surfaces -> {"FREE", "COPY_PENDING", "ENCODING"}]
      /\ \A i \in Surfaces :
           /\ after[i] = "ENCODING" <=> state[i] = "ENCODING" \/ i \in T
           /\ after[i] = "COPY_PENDING" => state[i] = "COPY_PENDING"
  BY <1>3, <1>6 DEF Handed, IInv, TypeOK
(* The step leaves a surface that is not free as it was, and issues a blit to
   one that is, at most. *)
<1> DEFINE Kept(i) ==
             /\ state'[i] = "ENCODING" <=> after[i] = "ENCODING"
             /\ after[i] # "FREE" =>
                  image'[i] = image[i] /\ content'[i] = content[i]
             /\ state'[i] = "COPY_PENDING" =>
                  after[i] = "COPY_PENDING" \/ image'[i] # NoImage
           Blitted ==
             /\ state' \in [Surfaces -> {"FREE", "COPY_PENDING", "ENCODING"}]
             /\ image' \in [Surfaces -> Pictures]
             /\ content' \in [Surfaces -> Pictures]
             /\ captures' \in Pictures
<1>8. Blitted /\ \A i \in Surfaces : Kept(i)
  <2>1. CASE state' = after /\ UNCHANGED <<image, content, captures>>
    BY <1>7, <2>1 DEF IInv, TypeOK
  <2>2. ASSUME NEW i \in Surfaces, Target(after, i), captures < MaxCaptures,
               Issue(after, i)
        PROVE  Blitted /\ \A j \in Surfaces : Kept(j)
    <3>1. /\ captures \in Pictures /\ captures + 1 \in Pictures
          /\ captures + 1 # NoImage /\ NoImage \in Pictures
          /\ image \in [Surfaces -> Pictures]
          /\ content \in [Surfaces -> Pictures]
      BY <2>2, BoundAssumption DEF IInv, TypeOK, Pictures, NoImage
    <3>2. after[i] = "FREE"
      BY <2>2 DEF Target
    <3> HIDE DEF after
    <3> QED
      BY <1>7, <2>2, <3>1, <3>2 DEF Issue
  <2> QED
    BY <1>1, <2>1, <2>2
<1> HIDE DEF after
<1>9. /\ queue \in Seq(Surfaces \cup {Shutdown}) /\ n \in Nat
      /\ taken \in Seq(Surfaces \cup {Shutdown}) /\ Len(taken) \in Nat
      /\ DOMAIN queue = 1 .. n /\ DOMAIN taken = 1 .. Len(taken)
  BY <1>4 DEF IInv, TypeOK
<1> HIDE DEF ready, taken
<1>10. /\ queue' \in Seq(Surfaces \cup {Shutdown})
       /\ Len(queue') = n + Len(taken)
       /\ DOMAIN queue' = 1 .. n + Len(taken)
       /\ \A k \in 1 .. n : queue'[k] = queue[k]
       /\ \A k \in 1 .. Len(taken) : queue'[n + k] = taken[k]
       /\ \A k \in 1 .. n + Len(taken) :
            \/ k \in 1 .. n
            \/ k - n \in 1 .. Len(taken) /\ queue'[k] = taken[k - n]
  <2> DEFINE m == Len(taken)
  <2>1. /\ queue' \in Seq(Surfaces \cup {Shutdown})
        /\ Len(queue') = n + m
        /\ \A k \in 1 .. n + m :
             queue'[k] = IF k <= n THEN queue[k] ELSE taken[k - n]
    BY <1>5, <1>9
  <2>2. m \in Nat
    BY <1>9
  <2> HIDE DEF m, n
  <2>3. \A k \in 1 .. n : queue'[k] = queue[k]
    BY <1>9, <2>1, <2>2
  <2>4. \A k \in 1 .. m : queue'[n + k] = taken[k]
    BY <1>9, <2>1, <2>2
  <2>5. \A k \in 1 .. n + m :
          \/ k \in 1 .. n
          \/ k - n \in 1 .. m /\ queue'[k] = taken[k - n]
    BY <1>9, <2>1, <2>2
  <2> QED
    BY <2>1, <2>3, <2>4, <2>5 DEF m
<1> HIDE DEF n
<1>11. \A i \in Surfaces : Queued(i)' <=> Queued(i) \/ i \in T
  <2> TAKE i \in Surfaces
  <2>1. ASSUME Queued(i)' PROVE Queued(i) \/ i \in T
    BY <1>9, <1>10, <2>1 DEF Queued
  <2>2. ASSUME Queued(i) PROVE Queued(i)'
    <3>1. PICK k \in 1 .. n : queue[k] = i
      BY <1>9, <2>2 DEF Queued
    <3>2. k \in 1 .. n + Len(taken) /\ queue'[k] = i
      BY <1>9, <1>10, <3>1
    <3> QED
      BY <1>10, <3>2 DEF Queued
  <2>3. ASSUME i \in T PROVE Queued(i)'
    <3>1. PICK k \in 1 .. Len(taken) : taken[k] = i
      BY <1>9, <2>3
    <3>2. n + k \in 1 .. n + Len(taken) /\ queue'[n + k] = i
      BY <1>9, <1>10, <3>1
    <3> QED
      BY <1>10, <3>2 DEF Queued
  <2> QED
    BY <2>1, <2>2, <2>3
<1>12. \A i \in Surfaces : Reading(i)' <=> Reading(i)
  BY <1>2 DEF Reading
(* Nothing is handed over when no application is there. *)
<1>13. app = "off" => T = {} /\ \A i \in Surfaces : after[i] # "ENCODING"
  BY <1>2, <1>3, <1>6, <1>7 DEF IInv, SurfaceInv
<1>14. TypeOK'
  <2>1. captured' \in [Surfaces -> [image : Pictures, timestamp : Pictures]]
    BY <1>5 DEF Record, IInv, TypeOK
  <2> QED
    BY <1>2, <1>5, <1>8, <1>10, <2>1 DEF IInv, TypeOK
<1>15. SurfaceInv'
  <2>1. \A i \in Surfaces : after[i] = "COPY_PENDING" => image'[i] # NoImage
    BY <1>7, <1>8 DEF IInv, SurfaceInv
  <2> QED
    BY <1>2, <1>8, <1>13, <2>1 DEF SurfaceInv
<1>16. EncoderInv'
  <2>1. ASSUME running PROVE \A k \in DOMAIN queue' : queue'[k] # Shutdown
    <3>1. \A k \in 1 .. Len(taken) : taken[k] # Shutdown
      BY <1>4, <1>9 DEF Shutdown, Surfaces
    <3> QED
      BY <1>9, <1>10, <2>1, <3>1 DEF IInv, EncoderInv
  <2> QED
    BY <1>2, <1>4, <1>10, <2>1 DEF IInv, EncoderInv
<1>17. CASE app = "off"
  <2>1. SurfaceTracked' /\ ImageKept'
    BY <1>2, <1>17 DEF SurfaceTracked, ImageKept
  <2> QED
    BY <1>14, <1>15, <1>16, <2>1 DEF IInv
<1>18. CASE app # "off"
  <2>1. \A i \in Surfaces : state[i] = "ENCODING" <=> Queued(i) \/ Reading(i)
    BY <1>18 DEF IInv, SurfaceTracked
  <2>2. \A i \in T : ~Queued(i) /\ ~Reading(i)
    BY <1>3, <1>6, <2>1
  <2>3. \A k, m \in DOMAIN queue' : queue'[k] = queue'[m] => k = m
    <3>1. \A k \in 1 .. n : queue[k] \notin T
      BY <1>3, <1>6, <1>9, <2>2 DEF Queued
    <3>2. \A k, m \in 1 .. n : queue[k] = queue[m] => k = m
      BY <1>9, <1>18 DEF IInv, SurfaceTracked
    <3>3. \A k \in 1 .. Len(taken) : taken[k] \in T
      BY <1>9
    <3>4. \A k, m \in 1 .. Len(taken) : taken[k] = taken[m] => k = m
      BY <1>4, <1>9
    <3> HIDE DEF T
    <3> SUFFICES ASSUME NEW k \in 1 .. n + Len(taken),
                        NEW m \in 1 .. n + Len(taken),
                        queue'[k] = queue'[m]
                 PROVE  k = m
      BY <1>10
    <3>5. CASE k \in 1 .. n /\ m \in 1 .. n
      BY <1>10, <3>2, <3>5
    <3>6. CASE k \notin 1 .. n /\ m \notin 1 .. n
      <4>1. k - n = m - n
        BY <1>10, <3>4, <3>6
      <4> QED
        BY <1>9, <4>1
    <3>7. CASE k \in 1 .. n /\ m \notin 1 .. n
      BY <1>10, <3>1, <3>3, <3>7
    <3>8. CASE k \notin 1 .. n /\ m \in 1 .. n
      BY <1>10, <3>1, <3>3, <3>8
    <3> QED
      BY <3>5, <3>6, <3>7, <3>8
  <2>4. SurfaceTracked'
    BY <1>7, <1>8, <1>11, <1>12, <2>1, <2>2, <2>3, <1>18
       DEF SurfaceTracked, IInv
  <2>5. ImageKept'
    <3> SUFFICES ASSUME NEW i \in Surfaces, Queued(i)' \/ Reading(i)'
                 PROVE  /\ image'[i] # NoImage
                        /\ captured'[i] = [image |-> image'[i],
                                           timestamp |-> content'[i]]
      BY DEF ImageKept
    <3>1. image'[i] = image[i] /\ content'[i] = content[i]
      BY <1>7, <1>8, <1>11, <1>12, <2>1
    <3>2. CASE i \in T
      BY <1>3, <1>5, <1>6, <3>1, <3>2 DEF Record, IInv, SurfaceInv
    <3>3. CASE i \notin T
      <4>1. (Queued(i) \/ Reading(i)) /\ i \notin ready
        BY <1>3, <1>11, <1>12, <2>1, <3>3
      <4> QED
        BY <1>5, <1>18, <3>1, <4>1 DEF IInv, ImageKept
    <3> QED
      BY <3>2, <3>3
  <2> QED
    BY <1>14, <1>15, <1>16, <2>4, <2>5 DEF IInv
<1> QED
  BY <1>17, <1>18

(* Every step keeps the inductive invariant. *)
LEMMA NextInv == IInv /\ [Next]_vars => IInv'
<1> SUFFICES ASSUME IInv, [Next]_vars PROVE IInv'
  OBVIOUS
<1>1. CASE MainStep
  BY <1>1, MainKeeps DEF MainStep
<1>2. CASE HookStep
  BY <1>2, SkipKeeps, BodyKeeps DEF HookStep
<1>3. CASE EncoderStep
  BY <1>3, EncoderKeeps DEF EncoderStep
<1>4. CASE UNCHANGED vars
  BY <1>4, SkipKeeps
<1> QED
  BY <1>1, <1>2, <1>3, <1>4 DEF Next

(* The inductive invariant holds in every state. *)
THEOREM Invariant == Spec => []IInv
  BY InitInv, NextInv, PTL DEF Spec

(* Every variable keeps its type. *)
THEOREM TypeCorrect == Spec => []TypeOK
<1>1. IInv => TypeOK
  BY DEF IInv
<1> QED
  BY <1>1, Invariant, PTL

(* What the encoder reads, without the lock, stays as it is while it waits and
   while it is read, whatever scan-outs, hosts and applications come and go
   (capture.cpp, encoder.cpp). *)
THEOREM Stable == Spec => []ReadStable
<1>1. IInv => ReadStable
  BY DEF IInv, ReadStable
<1> QED
  BY <1>1, Invariant, PTL

-----------------------------------------------------------------------------
(* The newest picture that the encoder is through with. *)
Done == IF encoder = "sending" THEN picture ELSE sent.picture

(* The time kept for a surface never goes back, and no number is ahead of the
   last blit. *)
TimeInv ==
  /\ \A i \in Surfaces :
       content[i] <= captures /\ captured[i].timestamp <= content[i]
  /\ sent.picture <= captures
  /\ encoder = "sending" =>
       /\ sent.picture < picture /\ picture <= captures
       /\ picture <= captured[index].timestamp

(* What a surface holds for the encoder is newer than what that is through with;
   one picture at most is pending, the last of all. *)
PendingInv ==
  /\ \A i \in Surfaces : state[i] # "FREE" => Done < content[i]
  /\ \A i, j \in Surfaces :
       state[i] = "COPY_PENDING" =>
         /\ content[i] = captures
         /\ state[j] # "FREE" /\ j # i =>
              state[j] = "ENCODING" /\ content[j] < content[i]

(* Pictures are read and queued in the order of their blits. *)
QueueInv ==
  app # "off" =>
    /\ \A k, m \in DOMAIN queue :
         k < m /\ queue[k] # Shutdown /\ queue[m] # Shutdown =>
           content[queue[k]] < content[queue[m]]
    /\ encoder = "reading" =>
         \A k \in DOMAIN queue :
           queue[k] # Shutdown => content[index] < content[queue[k]]

OrderInv == TimeInv /\ PendingInv /\ QueueInv

(* The initial state has the order. *)
LEMMA InitOrder == Init => OrderInv
  BY DEF Init, OrderInv, TimeInv, PendingInv, QueueInv, Done

(* The start and the end of the application, and the hosts. *)
LEMMA MainOrder ==
  ASSUME IInv, OrderInv,
         \/ AppStart \/ HostChanges \/ NetStop
         \/ EncoderStop \/ EncoderJoin \/ CaptureShutdown
  PROVE  OrderInv' /\ SentStep
<1> USE DEF capture, encoding, history, vars, Done, Pictures
<1>1. CASE AppStart
  <2> USE <1>1 DEF AppStart
  <2>1. TimeInv' /\ SentStep
    BY DEF OrderInv, TimeInv, SentStep, IInv, TypeOK
  <2>2. PendingInv'
    BY DEF OrderInv, PendingInv, TimeInv, IInv, TypeOK
  <2>3. QueueInv'
    BY DEF OrderInv, QueueInv, IInv, EncoderInv
  <2> QED
    BY <2>1, <2>2, <2>3 DEF OrderInv
<1>2. CASE HostChanges
  <2> USE <1>2 DEF HostChanges
  <2>1. TimeInv' /\ SentStep
    BY DEF OrderInv, TimeInv, SentStep, IInv, TypeOK
  <2>2. PendingInv'
    BY DEF OrderInv, PendingInv, TimeInv, IInv, TypeOK
  <2>3. QueueInv'
    BY DEF OrderInv, QueueInv, IInv, EncoderInv
  <2> QED
    BY <2>1, <2>2, <2>3 DEF OrderInv
<1>3. CASE NetStop
  <2> USE <1>3 DEF NetStop
  <2>1. TimeInv' /\ SentStep
    BY DEF OrderInv, TimeInv, SentStep, IInv, TypeOK
  <2>2. PendingInv'
    BY DEF OrderInv, PendingInv, TimeInv, IInv, TypeOK
  <2>3. QueueInv'
    BY DEF OrderInv, QueueInv, IInv, EncoderInv
  <2> QED
    BY <2>1, <2>2, <2>3 DEF OrderInv
<1>4. CASE EncoderStop
  <2> USE <1>4 DEF EncoderStop, Woken
  <2>1. TimeInv' /\ SentStep
    BY DEF OrderInv, TimeInv, SentStep, IInv, TypeOK
  <2>2. PendingInv'
    BY DEF OrderInv, PendingInv, TimeInv, IInv, TypeOK
  <2>3. QueueInv'
    BY DEF OrderInv, QueueInv, IInv, EncoderInv
  <2> QED
    BY <2>1, <2>2, <2>3 DEF OrderInv
<1>5. CASE EncoderJoin
  <2> USE <1>5 DEF EncoderJoin
  <2>1. TimeInv' /\ SentStep
    BY DEF OrderInv, TimeInv, SentStep, IInv, TypeOK
  <2>2. PendingInv'
    BY DEF OrderInv, PendingInv, TimeInv, IInv, TypeOK
  <2>3. QueueInv'
    BY DEF OrderInv, QueueInv, IInv, EncoderInv
  <2> QED
    BY <2>1, <2>2, <2>3 DEF OrderInv
<1>6. CASE CaptureShutdown
  <2> USE <1>6 DEF CaptureShutdown
  <2>1. TimeInv' /\ SentStep
    BY DEF OrderInv, TimeInv, SentStep, IInv, TypeOK
  <2>2. PendingInv'
    BY DEF OrderInv, PendingInv, TimeInv, IInv, TypeOK
  <2>3. QueueInv'
    BY DEF OrderInv, QueueInv, IInv, EncoderInv
  <2> QED
    BY <2>1, <2>2, <2>3 DEF OrderInv
<1> QED
  BY <1>1, <1>2, <1>3, <1>4, <1>5, <1>6

(* The encoder. *)
LEMMA EncoderOrder ==
  ASSUME IInv, OrderInv,
         \/ EncoderAlloc \/ EncoderLoop \/ EncoderTake
         \/ EncoderEncode \/ EncoderSend
  PROVE  OrderInv' /\ SentStep
<1> USE DEF capture, encoding, history, vars, Done, Pictures
<1>1. CASE EncoderAlloc
  <2> USE <1>1 DEF EncoderAlloc
  <2>1. TimeInv' /\ SentStep
    BY DEF OrderInv, TimeInv, SentStep, IInv, TypeOK
  <2>2. PendingInv'
    BY DEF OrderInv, PendingInv, TimeInv, IInv, TypeOK
  <2>3. QueueInv'
    BY DEF OrderInv, QueueInv, IInv, EncoderInv
  <2> QED
    BY <2>1, <2>2, <2>3 DEF OrderInv
<1>2. CASE EncoderLoop
  <2> USE <1>2 DEF EncoderLoop
  <2>1. TimeInv' /\ SentStep
    BY DEF OrderInv, TimeInv, SentStep, IInv, TypeOK
  <2>2. PendingInv'
    BY DEF OrderInv, PendingInv, TimeInv, IInv, TypeOK
  <2>3. QueueInv'
    BY DEF OrderInv, QueueInv, IInv, EncoderInv
  <2> QED
    BY <2>1, <2>2, <2>3 DEF OrderInv
<1>3. CASE EncoderTake
  <2> USE <1>3 DEF EncoderTake, IsShutdown
  <2>1. TimeInv' /\ SentStep
    BY DEF OrderInv, TimeInv, SentStep, IInv, TypeOK
  <2>2. PendingInv'
    BY DEF OrderInv, PendingInv, TimeInv, IInv, TypeOK
  <2>3. QueueInv'
    BY DEF OrderInv, QueueInv, IInv, EncoderInv
  <2> QED
    BY <2>1, <2>2, <2>3 DEF OrderInv
<1>4. CASE EncoderEncode
  <2>1. /\ encoder = "reading" /\ app # "off" /\ index \in Surfaces
        /\ picture' = content[index]
        /\ state' = [state EXCEPT ![index] = "FREE"]
        /\ encoder' \in {"sending", "top"}
        /\ UNCHANGED <<app, content, captured, captures, queue, index, sent>>
    BY <1>4 DEF EncoderEncode, Release, IInv, EncoderInv, TypeOK
  <2>2. /\ state[index] = "ENCODING"
        /\ captured[index].timestamp = content[index]
        /\ \A i \in Surfaces \ {index} : state[i] = "ENCODING" => Queued(i)
    <3>1. \A i \in Surfaces :
            /\ state[i] = "ENCODING" <=> Queued(i) \/ Reading(i)
            /\ Reading(i) <=> i = index
      BY <2>1 DEF IInv, SurfaceTracked, Reading
    <3>2. captured[index]
            = [image |-> image[index], timestamp |-> content[index]]
      BY <2>1, <3>1 DEF IInv, ImageKept
    <3> QED
      BY <2>1, <3>1, <3>2
  <2>3. /\ content \in [Surfaces -> Nat] /\ captures \in Nat
        /\ sent.picture \in Nat
        /\ state \in [Surfaces -> {"FREE", "COPY_PENDING", "ENCODING"}]
    BY DEF IInv, TypeOK
  <2>4. sent.picture < content[index]
    BY <2>1, <2>2 DEF OrderInv, PendingInv
  <2>5. \A i \in Surfaces \ {index} :
          state[i] # "FREE" => content[index] < content[i]
    <3> TAKE i \in Surfaces \ {index}
    <3>1. CASE state[i] = "ENCODING"
      <4>1. PICK k \in DOMAIN queue : queue[k] = i
        BY <2>2, <3>1 DEF Queued
      <4> QED
        BY <2>1, <4>1 DEF OrderInv, QueueInv, Shutdown, Surfaces
    <3>2. CASE state[i] = "COPY_PENDING"
      BY <2>1, <2>2, <3>2 DEF OrderInv, PendingInv
    <3> QED
      BY <2>3, <3>1, <3>2
  <2>6. TimeInv' /\ SentStep
    BY <2>1, <2>2, <2>3, <2>4 DEF OrderInv, TimeInv, SentStep
  <2>7. PendingInv'
    <3>1. Done' \in {content[index], sent.picture}
      BY <2>1
    <3>2. \A i \in Surfaces : state'[i] # "FREE" => Done' < content'[i]
      BY <2>1, <2>3, <2>4, <2>5, <3>1
    <3> QED
      BY <2>1, <2>3, <3>2 DEF OrderInv, PendingInv
  <2>8. QueueInv'
    BY <2>1 DEF OrderInv, QueueInv
  <2> QED
    BY <2>6, <2>7, <2>8 DEF OrderInv
<1>5. CASE EncoderSend
  <2> USE <1>5 DEF EncoderSend
  <2>1. TimeInv' /\ SentStep
    BY DEF OrderInv, TimeInv, SentStep, IInv, TypeOK
  <2>2. PendingInv'
    BY DEF OrderInv, PendingInv, TimeInv, IInv, TypeOK
  <2>3. QueueInv'
    BY DEF OrderInv, QueueInv, IInv, EncoderInv
  <2> QED
    BY <2>1, <2>2, <2>3 DEF OrderInv
<1> QED
  BY <1>1, <1>2, <1>3, <1>4, <1>5

(* The hook before it has the lock, and no step. *)
LEMMA SkipOrder ==
  ASSUME IInv, OrderInv,
         \/ HookSkip \/ HookEnter \/ UNCHANGED vars
  PROVE  OrderInv' /\ SentStep
<1> USE DEF capture, encoding, history, vars, Done, Pictures
<1>1. CASE HookSkip
  <2> USE <1>1 DEF HookSkip
  <2>1. TimeInv' /\ SentStep
    BY DEF OrderInv, TimeInv, SentStep, IInv, TypeOK
  <2>2. PendingInv'
    BY DEF OrderInv, PendingInv, TimeInv, IInv, TypeOK
  <2>3. QueueInv'
    BY DEF OrderInv, QueueInv, IInv, EncoderInv
  <2> QED
    BY <2>1, <2>2, <2>3 DEF OrderInv
<1>2. CASE HookEnter
  <2> USE <1>2 DEF HookEnter
  <2>1. TimeInv' /\ SentStep
    BY DEF OrderInv, TimeInv, SentStep, IInv, TypeOK
  <2>2. PendingInv'
    BY DEF OrderInv, PendingInv, TimeInv, IInv, TypeOK
  <2>3. QueueInv'
    BY DEF OrderInv, QueueInv, IInv, EncoderInv
  <2> QED
    BY <2>1, <2>2, <2>3 DEF OrderInv
<1>3. CASE UNCHANGED vars
  <2> USE <1>3 DEF vars
  <2>1. TimeInv' /\ SentStep
    BY DEF OrderInv, TimeInv, SentStep, IInv, TypeOK
  <2>2. PendingInv'
    BY DEF OrderInv, PendingInv, TimeInv, IInv, TypeOK
  <2>3. QueueInv'
    BY DEF OrderInv, QueueInv, IInv, EncoderInv
  <2> QED
    BY <2>1, <2>2, <2>3 DEF OrderInv
<1> QED
  BY <1>1, <1>2, <1>3

(* What is handed over is the last picture of all, and what is issued is
   newer. *)
LEMMA BodyOrder == ASSUME IInv, OrderInv, HookBody PROVE OrderInv' /\ SentStep
<1>1. PICK sameMs \in BOOLEAN :
        LET ready == Ready(sameMs)
            taken == Accepted(InOrder(ready))
            after == Handed(ready, {taken[k] : k \in DOMAIN taken})
            free  == {i \in Surfaces : Target(after, i)}
        IN  /\ sameMs => recent
            /\ queue' = queue \o taken
            /\ captured' = [i \in Surfaces |->
                              IF i \in ready THEN Record(i) ELSE captured[i]]
            /\ \/ \E i \in free :
                    ~sameMs /\ captures < MaxCaptures /\ Issue(after, i)
               \/ /\ state' = after
                  /\ recent' = sameMs
                  /\ UNCHANGED <<image, content, captures>>
  BY DEF HookBody
<1>2. UNCHANGED <<app, encoder, index, picture, sent>>
  BY DEF HookBody
<1> DEFINE ready == Ready(sameMs)
           taken == Accepted(InOrder(ready))
           T == {taken[k] : k \in DOMAIN taken}
           after == Handed(ready, T)
           n == Len(queue)
<1>3. /\ ready = IF sameMs THEN {}
                ELSE {i \in Surfaces : state[i] = "COPY_PENDING"}
      /\ ready \subseteq Surfaces
  BY DEF Ready
<1>4. /\ taken \in Seq(ready) /\ taken \in Seq(Surfaces)
      /\ \A k, m \in DOMAIN taken : taken[k] = taken[m] => k = m
  BY <1>3, Handing DEF IInv
<1>5. /\ queue' = queue \o taken
      /\ captured' = [i \in Surfaces |->
                        IF i \in ready THEN Record(i) ELSE captured[i]]
  BY <1>1
<1>6. T \subseteq ready
  BY <1>4
<1>7. /\ content \in [Surfaces -> Nat] /\ captures \in Nat
      /\ sent.picture \in Nat /\ picture \in Nat /\ index \in Surfaces
      /\ \A i \in Surfaces : captured[i].timestamp \in Nat
      /\ state \in [Surfaces -> {"FREE", "COPY_PENDING", "ENCODING"}]
      /\ Done \in Nat /\ Done <= captures /\ Done' = Done
  <2>1. Done' = Done
    BY <1>2 DEF Done
  <2> QED
    BY <2>1 DEF IInv, TypeOK, Done, Pictures, OrderInv, TimeInv
<1>8. \A i \in Surfaces :
        after[i] = IF i \notin ready THEN state[i]
                   ELSE IF i \in T THEN "ENCODING" ELSE "FREE"
  BY DEF Handed
<1>9. after \in [Surfaces -> {"FREE", "COPY_PENDING", "ENCODING"}]
  BY <1>7 DEF Handed
<1> DEFINE Issued(i) ==
             /\ ~sameMs /\ after[i] = "FREE"
             /\ state' = [after EXCEPT ![i] = "COPY_PENDING"]
             /\ content' = [content EXCEPT ![i] = captures + 1]
             /\ captures' = captures + 1
           Not == state' = after /\ UNCHANGED <<content, captures>>
<1>10. Not \/ \E i \in Surfaces : Issued(i)
  BY <1>1 DEF Issue, Target
<1> HIDE DEF after
(* A surface that is not free was not, or has just been blitted to. *)
<1>11. \A i \in Surfaces :
         \/ /\ state'[i] = after[i] /\ content'[i] = content[i]
            /\ after[i] # "FREE" => state[i] # "FREE"
            /\ captures' >= captures
         \/ /\ Issued(i)
            /\ content'[i] = captures + 1 /\ state'[i] = "COPY_PENDING"
  BY <1>3, <1>7, <1>8, <1>9, <1>10
<1>12. captures' \in Nat /\ captures <= captures'
  BY <1>7, <1>10
<1> HIDE DEF ready, taken, Issued
<1>13. TimeInv'
  <2>1. \A i \in Surfaces :
          /\ content'[i] <= captures' /\ content[i] <= content'[i]
          /\ content'[i] \in Nat
    BY <1>7, <1>11, <1>12 DEF OrderInv, TimeInv, Issued
  <2>2. \A i \in Surfaces :
          /\ captured'[i].timestamp <= content[i]
          /\ captured[i].timestamp <= captured'[i].timestamp
          /\ captured'[i].timestamp \in Nat
    BY <1>5, <1>7 DEF OrderInv, TimeInv, Record
  <2>3. \A i \in Surfaces : captured'[i].timestamp <= content'[i]
    BY <1>7, <2>1, <2>2
  <2>4. sent'.picture <= captures'
    BY <1>2, <1>7, <1>12 DEF OrderInv, TimeInv
  <2>5. encoder' = "sending" =>
          /\ sent'.picture < picture' /\ picture' <= captures'
          /\ picture' <= captured'[index'].timestamp
    BY <1>2, <1>7, <1>12, <2>2 DEF OrderInv, TimeInv
  <2> QED
    BY <2>1, <2>3, <2>4, <2>5 DEF TimeInv
<1>14. PendingInv'
  <2>1. \A i \in Surfaces : state'[i] # "FREE" => Done' < content'[i]
    <3> TAKE i \in Surfaces
    <3>1. CASE Issued(i) /\ content'[i] = captures + 1
      BY <1>7, <3>1
    <3>2. CASE /\ state'[i] = after[i] /\ content'[i] = content[i]
               /\ after[i] # "FREE" => state[i] # "FREE"
      BY <1>7, <3>2 DEF OrderInv, PendingInv
    <3> QED
      BY <1>11, <3>1, <3>2
  <2>2. ASSUME NEW i \in Surfaces, state'[i] = "COPY_PENDING",
               NEW j \in Surfaces
        PROVE  /\ content'[i] = captures'
               /\ state'[j] # "FREE" /\ j # i =>
                    state'[j] = "ENCODING" /\ content'[j] < content'[i]
    <3>1. CASE Issued(i)
      <4>1. /\ content'[i] = captures + 1 /\ captures' = captures + 1
            /\ j # i => state'[j] = after[j] /\ content'[j] = content[j]
        BY <1>7, <1>9, <3>1 DEF Issued
      <4>2. after[j] # "COPY_PENDING"
        BY <1>3, <1>8, <3>1, <1>7 DEF Issued
      <4>3. content[j] <= captures
        BY DEF OrderInv, TimeInv
      <4> QED
        BY <1>7, <1>9, <4>1, <4>2, <4>3
    <3>2. CASE ~Issued(i)
      <4>1. after[i] = "COPY_PENDING"
        BY <1>11, <2>2, <3>2
      <4>2. state[i] = "COPY_PENDING" /\ sameMs
        BY <1>3, <1>8, <4>1
      <4>3. Not
        BY <1>10, <4>2 DEF Issued
      <4>4. after[i] = state[i] /\ after[j] = state[j]
        BY <1>3, <1>8, <4>2
      <4> QED
        BY <4>2, <4>3, <4>4 DEF OrderInv, PendingInv
    <3> QED
      BY <3>1, <3>2
  <2> QED
    BY <2>1, <2>2 DEF PendingInv
<1>15. QueueInv'
  <2> SUFFICES ASSUME app # "off" PROVE QueueInv'
    BY <1>2 DEF QueueInv
  <2>1. /\ queue \in Seq(Surfaces \cup {Shutdown}) /\ n \in Nat
        /\ taken \in Seq(Surfaces \cup {Shutdown}) /\ Len(taken) \in Nat
        /\ DOMAIN queue = 1 .. n /\ DOMAIN taken = 1 .. Len(taken)
    BY <1>4 DEF IInv, TypeOK
  <2> HIDE DEF n
  <2> DEFINE m == Len(taken)
  <2>2. /\ DOMAIN queue' = 1 .. n + m
        /\ \A k \in 1 .. n + m :
             queue'[k] = IF k <= n THEN queue[k] ELSE taken[k - n]
    BY <1>5, <2>1 DEF n
  <2>3. m \in Nat /\ Shutdown \notin Surfaces
    BY <2>1 DEF Shutdown, Surfaces
  <2> HIDE DEF m
  <2>4. \A k \in 1 .. n :
          queue[k] # Shutdown =>
            /\ queue[k] \in Surfaces /\ state[queue[k]] = "ENCODING"
            /\ content'[queue[k]] = content[queue[k]]
    <3> SUFFICES ASSUME NEW k \in 1 .. n, queue[k] # Shutdown
                 PROVE  /\ queue[k] \in Surfaces /\ state[queue[k]] = "ENCODING"
                        /\ content'[queue[k]] = content[queue[k]]
      OBVIOUS
    <3>1. queue[k] \in Surfaces
      BY <2>1
    <3>2. state[queue[k]] = "ENCODING"
      BY <2>1, <3>1 DEF IInv, SurfaceTracked, Queued
    <3>3. after[queue[k]] = "ENCODING"
      BY <1>3, <1>8, <3>1, <3>2
    <3> QED
      BY <1>11, <3>1, <3>2, <3>3 DEF Issued
  <2>5. \A k \in 1 .. m :
          /\ taken[k] \in Surfaces /\ state[taken[k]] = "COPY_PENDING"
          /\ content'[taken[k]] = content[taken[k]]
    <3> TAKE k \in 1 .. m
    <3>1. taken[k] \in T /\ taken[k] \in Surfaces
      BY <1>4, <2>1 DEF m
    <3>2. taken[k] \in ready /\ state[taken[k]] = "COPY_PENDING"
      BY <1>3, <1>6, <3>1
    <3>3. after[taken[k]] = "ENCODING"
      BY <1>8, <3>1, <3>2
    <3> QED
      BY <1>11, <3>1, <3>2, <3>3 DEF Issued
  <2>6. m <= 1
    <3> SUFFICES ASSUME m >= 2 PROVE FALSE
      BY <2>3
    <3>1. 1 \in 1 .. m /\ 2 \in 1 .. m /\ taken[1] # taken[2]
      BY <1>4, <2>1, <2>3 DEF m
    <3> QED
      BY <2>5, <3>1 DEF OrderInv, PendingInv
  <2>7. ASSUME NEW k \in 1 .. n + m, NEW l \in 1 .. n + m, k < l,
               queue'[k] # Shutdown, queue'[l] # Shutdown
        PROVE  content'[queue'[k]] < content'[queue'[l]]
    <3>1. CASE l <= n
      <4>1. /\ k \in 1 .. n /\ l \in 1 .. n
            /\ queue'[k] = queue[k] /\ queue'[l] = queue[l]
        BY <2>1, <2>2, <2>3, <2>7, <3>1
      <4>2. content[queue[k]] < content[queue[l]]
        BY <2>1, <2>7, <4>1 DEF OrderInv, QueueInv
      <4> QED
        BY <2>4, <2>7, <4>1, <4>2
    <3>2. CASE l > n
      <4>1. /\ l - n \in 1 .. m /\ queue'[l] = taken[l - n]
            /\ k \in 1 .. n /\ queue'[k] = queue[k]
        BY <2>1, <2>2, <2>3, <2>6, <2>7, <3>2
      <4>2. /\ state[queue[k]] = "ENCODING" /\ queue[k] \in Surfaces
            /\ state[taken[l - n]] = "COPY_PENDING" /\ taken[l - n] \in Surfaces
        BY <2>4, <2>5, <2>7, <4>1
      <4>3. content[queue[k]] < content[taken[l - n]]
        BY <4>2 DEF OrderInv, PendingInv
      <4> QED
        BY <2>4, <2>5, <2>7, <4>1, <4>3
    <3> QED
      BY <2>1, <2>3, <3>1, <3>2
  <2>8. ASSUME encoder = "reading", NEW k \in 1 .. n + m, queue'[k] # Shutdown
        PROVE  content'[index] < content'[queue'[k]]
    <3>1. state[index] = "ENCODING"
      BY <1>7, <2>8 DEF IInv, SurfaceTracked, Reading
    <3>2. content'[index] = content[index]
      BY <1>3, <1>7, <1>8, <1>11, <3>1 DEF Issued
    <3>3. CASE k <= n
      <4>1. k \in 1 .. n /\ queue'[k] = queue[k]
        BY <2>1, <2>2, <2>3, <3>3
      <4>2. content[index] < content[queue[k]]
        BY <2>1, <2>8, <4>1 DEF OrderInv, QueueInv
      <4> QED
        BY <2>4, <2>8, <3>2, <4>1, <4>2
    <3>4. CASE k > n
      <4>1. k - n \in 1 .. m /\ queue'[k] = taken[k - n]
        BY <2>1, <2>2, <2>3, <3>4
      <4>2. content[index] < content[taken[k - n]]
        BY <1>7, <2>5, <3>1, <4>1 DEF OrderInv, PendingInv
      <4> QED
        BY <2>5, <3>2, <4>1, <4>2
    <3> QED
      BY <2>1, <2>3, <3>3, <3>4
  <2> QED
    BY <1>2, <2>2, <2>7, <2>8 DEF QueueInv
<1>16. SentStep
  BY <1>2 DEF SentStep
<1> QED
  BY <1>13, <1>14, <1>15, <1>16 DEF OrderInv

(* Frames leave the console in the order their pictures were taken, each once,
   and with a time that is not before its picture, although the time is read
   from the surface after it was released (encoder.cpp). *)
THEOREM Ordered == Spec => OrderKept
<1>1. IInv /\ OrderInv /\ [Next]_vars => OrderInv' /\ SentStep
  <2> SUFFICES ASSUME IInv, OrderInv, [Next]_vars PROVE OrderInv' /\ SentStep
    OBVIOUS
  <2>1. CASE MainStep
    BY <2>1, MainOrder DEF MainStep
  <2>2. CASE HookStep
    BY <2>2, SkipOrder, BodyOrder DEF HookStep
  <2>3. CASE EncoderStep
    BY <2>3, EncoderOrder DEF EncoderStep
  <2>4. CASE UNCHANGED vars
    BY <2>4, SkipOrder
  <2> QED
    BY <2>1, <2>2, <2>3, <2>4 DEF Next
<1>2. Spec => [][SentStep]_vars
  BY <1>1, InitOrder, Invariant, PTL DEF Spec
<1> QED
  BY <1>2 DEF OrderKept

-----------------------------------------------------------------------------
(* What the liveness of the run rests on: nothing is refused, and nobody waits
   for what does not come.  There are two surfaces, each queued once, and one
   message to end: three is the most that the queue is asked to hold. *)
LEMMA ThreeFit ==
  ASSUME NEW q \in Seq(Surfaces \cup {Shutdown}),
         \A k, m \in DOMAIN q : q[k] = q[m] => k = m,
         NEW S \in SUBSET Surfaces,
         \A k \in DOMAIN q : q[k] \notin S
  PROVE  Len(q) + Len(InOrder(S)) <= 3
<1> DEFINE n == Len(q)
           a == IF 0 \in S THEN 1 ELSE 0
           b == IF 1 \in S THEN 1 ELSE 0
<1>1. n \in Nat /\ DOMAIN q = 1 .. n
  OBVIOUS
<1>2. Len(InOrder(S)) = a + b
  BY DEF InOrder
<1>3. \A k \in 1 .. n : q[k] \in {-1, 0, 1} /\ q[k] \notin S
  BY <1>1 DEF Surfaces, Shutdown
<1>4. \A k, m \in 1 .. n : q[k] = q[m] => k = m
  BY <1>1
<1> HIDE DEF n
<1>5. n <= 3
  <2> SUFFICES ASSUME n >= 4 PROVE FALSE
    BY <1>1
  <2>1. 1 \in 1 .. n /\ 2 \in 1 .. n /\ 3 \in 1 .. n /\ 4 \in 1 .. n
    BY <1>1
  <2> QED
    BY <1>3, <1>4, <2>1
<1>6. 0 \in S \/ 1 \in S => n <= 2
  <2> SUFFICES ASSUME n >= 3, 0 \in S \/ 1 \in S PROVE FALSE
    BY <1>1
  <2>1. 1 \in 1 .. n /\ 2 \in 1 .. n /\ 3 \in 1 .. n
    BY <1>1
  <2> QED
    BY <1>3, <1>4, <2>1
<1>7. 0 \in S /\ 1 \in S => n <= 1
  <2> SUFFICES ASSUME n >= 2, 0 \in S, 1 \in S PROVE FALSE
    BY <1>1
  <2>1. 1 \in 1 .. n /\ 2 \in 1 .. n
    BY <1>1
  <2> QED
    BY <1>3, <1>4, <2>1
<1>8. n + (a + b) <= 3
  BY <1>1, <1>5, <1>6, <1>7
<1> QED
  BY <1>2, <1>8 DEF n

(* encoderSubmit finds room for each surface that is handed over. *)
NoneRefused ==
  hookAt = "entered" =>
    \A sameMs \in BOOLEAN :
      Accepted(InOrder(Ready(sameMs))) = InOrder(Ready(sameMs))

(* And encoderStop for the message that ends the thread. *)
RoomToStop == running => Len(queue) < QueueSize

(* A queue of three messages would do: no frame is lost because the queue is
   full (encoder.cpp:159), and the end of an application never waits for room
   in it (encoder.cpp:181), whether the encoder's thread is there or has ended
   for want of memory. *)
THEOREM QueueSuffices ==
  ASSUME QueueSize >= 3 PROVE Spec => [](NoneRefused /\ RoomToStop)
<1>1. ASSUME IInv PROVE NoneRefused
  <2> SUFFICES ASSUME hookAt = "entered", NEW sameMs \in BOOLEAN
               PROVE  Accepted(InOrder(Ready(sameMs))) = InOrder(Ready(sameMs))
    BY DEF NoneRefused
  <2> DEFINE S == Ready(sameMs)
             order == InOrder(S)
  <2>1. S \subseteq Surfaces /\ \A i \in S : state[i] = "COPY_PENDING"
    BY DEF Ready
  <2> HIDE DEF S
  <2>2. order \in Seq(S) /\ Len(order) \in Nat
    <3> DEFINE A == IF 0 \in S THEN <<0>> ELSE << >>
               B == IF 1 \in S THEN <<1>> ELSE << >>
    <3>1. A \in Seq(S) /\ B \in Seq(S)
      OBVIOUS
    <3>2. order = A \o B
      BY DEF InOrder
    <3> HIDE DEF A, B, order
    <3> QED
      BY <3>1, <3>2
  <2>3. queue \in Seq(Surfaces \cup {Shutdown}) /\ Len(queue) \in Nat
        /\ QueueSize \in Nat
    BY <1>1, QueueAssumption DEF IInv, TypeOK
  <2>4. Len(queue) + Len(order) <= QueueSize
    <3>1. CASE app = "off"
      <4>1. S = {}
        BY <1>1, <2>1, <3>1 DEF IInv, SurfaceInv
      <4>2. Len(order) = 0
        BY <4>1 DEF InOrder
      <4> QED
        BY <1>1, <2>3, <4>2 DEF IInv, EncoderInv
    <3>2. CASE app # "off"
      <4>1. \A k, m \in DOMAIN queue : queue[k] = queue[m] => k = m
        BY <1>1, <3>2 DEF IInv, SurfaceTracked
      <4>2. \A k \in DOMAIN queue : queue[k] \notin S
        BY <1>1, <2>1, <3>2 DEF IInv, SurfaceTracked, Queued
      <4>3. Len(queue) + Len(order) <= 3
        BY <2>1, <2>3, <4>1, <4>2, ThreeFit
      <4> QED
        BY <2>2, <2>3, <4>3
    <3> QED
      BY <3>1, <3>2
  <2> HIDE DEF order
  <2>5. Len(order) <= QueueSize - Len(queue)
    BY <2>2, <2>3, <2>4
  <2>6. Accepted(order) = SubSeq(order, 1, Len(order))
    BY <2>5 DEF Accepted
  <2>7. SubSeq(order, 1, Len(order)) = order
    BY <2>2
  <2> QED
    BY <2>6, <2>7 DEF order, S
<1>2. ASSUME IInv PROVE RoomToStop
  <2> SUFFICES ASSUME running PROVE Len(queue) < QueueSize
    BY DEF RoomToStop
  <2>1. /\ queue \in Seq(Surfaces \cup {Shutdown}) /\ Len(queue) \in Nat
        /\ DOMAIN queue = 1 .. Len(queue) /\ QueueSize \in Nat
    BY <1>2, QueueAssumption DEF IInv, TypeOK
  <2>2. \A k \in 1 .. Len(queue) : queue[k] \in {0, 1}
    BY <1>2, <2>1 DEF IInv, EncoderInv, Surfaces
  <2>3. app # "off"
    BY <1>2 DEF IInv, EncoderInv, TypeOK
  <2>4. \A k, m \in 1 .. Len(queue) : queue[k] = queue[m] => k = m
    BY <1>2, <2>1, <2>3 DEF IInv, SurfaceTracked
  <2>5. Len(queue) <= 2
    <3> SUFFICES ASSUME Len(queue) >= 3 PROVE FALSE
      BY <2>1
    <3>1. 1 \in 1 .. Len(queue) /\ 2 \in 1 .. Len(queue) /\ 3 \in 1 .. Len(queue)
      BY <2>1
    <3> QED
      BY <2>2, <2>4, <3>1
  <2> QED
    BY <2>1, <2>5
<1>3. IInv => NoneRefused /\ RoomToStop
  BY <1>1, <1>2
<1> QED
  BY <1>3, Invariant, PTL

(* How many steps the encoder's thread is from its end, once it was told to
   stop. *)
StepsToEnd ==
  CASE encoder = "off" -> 0 [] encoder = "top" -> 1
    [] encoder \in {"starting", "sending"} -> 2
    [] encoder = "reading" -> 3 [] encoder = "receiving" -> 4

(* The thread does not block in OSReceiveMessage while encoderStop joins it. *)
WakeInv == app = "joining" /\ encoder = "receiving" => queue # << >>

(* While encoderStop joins the thread, each step of the thread takes it nearer
   to its end, and no other thread takes it away from it. *)
EndStep ==
  app = "joining" =>
    /\ StepsToEnd' <= StepsToEnd
    /\ EncoderStep => StepsToEnd' < StepsToEnd

(* The safety that ShutdownCompletes rests on: from encoderStop on, the thread
   is at its end after four steps, and it can take them; the message is there
   when it would block (encoder.cpp:179-182), also if a late scan-out submits
   another surface behind it.  That it does take steps is fairness. *)
THEOREM EndIsNear == Spec => []WakeInv /\ [][EndStep]_vars
<1>1. Init => WakeInv
  BY DEF Init, WakeInv
<1>2. ASSUME IInv, WakeInv, [Next]_vars PROVE WakeInv' /\ EndStep
  <2>1. encoder \in {"off", "starting", "top", "receiving", "reading", "sending"}
    BY <1>2 DEF IInv, TypeOK
  <2>2. CASE ~EncoderStep
    <3>1. app = "joining" => encoder' = encoder /\ ~running
      BY <1>2, <2>2 DEF Next, MainStep, HookStep, AppStart, HostChanges, NetStop,
         EncoderStop, EncoderJoin, CaptureShutdown, HookSkip, HookEnter, HookBody,
         vars, encoding, IInv, EncoderInv
    <3>2. StepsToEnd \in 0 .. 4 /\ (encoder' = encoder => StepsToEnd' = StepsToEnd)
      BY <2>1 DEF StepsToEnd
    <3>3. EndStep
      BY <2>2, <3>1, <3>2 DEF EndStep
    <3>4. WakeInv'
      <4>1. CASE MainStep
        <5>1. ASSUME app' = "joining", app # "joining" PROVE queue' # << >>
          <6>1. EncoderStop /\ running
            BY <4>1, <5>1 DEF MainStep, AppStart, HostChanges, NetStop,
               EncoderStop, EncoderJoin, CaptureShutdown
          <6>2. queue' = Append(queue, Shutdown)
                /\ queue \in Seq(Surfaces \cup {Shutdown})
            BY <1>2, <6>1 DEF EncoderStop, Woken, IInv, TypeOK
          <6> QED
            BY <6>2
        <5>2. ASSUME app' = "joining", app = "joining"
              PROVE  encoder' = encoder /\ queue' = queue
          BY <4>1, <5>2 DEF MainStep, AppStart, HostChanges, NetStop,
             EncoderStop, EncoderJoin, CaptureShutdown, encoding
        <5> QED
          BY <1>2, <5>1, <5>2 DEF WakeInv
      <4>2. CASE HookStep \/ UNCHANGED vars
        <5>1. /\ UNCHANGED <<app, encoder>>
              /\ queue # << >> => queue' # << >>
          <6>1. CASE HookBody
            <7>1. PICK sameMs \in BOOLEAN :
                    queue' = queue \o Accepted(InOrder(Ready(sameMs)))
              BY <6>1 DEF HookBody
            <7>2. Ready(sameMs) \subseteq Surfaces
              BY DEF Ready
            <7>3. Accepted(InOrder(Ready(sameMs))) \in Seq(Surfaces)
              BY <1>2, <7>2, Handing DEF IInv
            <7>4. queue \in Seq(Surfaces \cup {Shutdown})
              BY <1>2 DEF IInv, TypeOK
            <7>5. queue # << >> => queue' # << >>
              <8> DEFINE t == Accepted(InOrder(Ready(sameMs)))
              <8>1. t \in Seq(Surfaces) /\ queue' = queue \o t
                BY <7>1, <7>3
              <8> HIDE DEF t
              <8> QED
                BY <7>4, <8>1
            <7> QED
              BY <6>1, <7>5 DEF HookBody
          <6>2. CASE HookSkip \/ HookEnter \/ UNCHANGED vars
            BY <6>2 DEF HookSkip, HookEnter, vars, encoding
          <6> QED
            BY <4>2, <6>1, <6>2 DEF HookStep
        <5> QED
          BY <1>2, <5>1 DEF WakeInv
      <4> QED
        BY <1>2, <2>2, <4>1, <4>2 DEF Next
    <3> QED
      BY <3>3, <3>4
  <2>3. CASE EncoderStep
    <3>1. app' = app /\ (app = "joining" => ~running)
      BY <1>2, <2>3 DEF EncoderStep, EncoderAlloc, EncoderLoop, EncoderTake,
         EncoderEncode, EncoderSend, IInv, EncoderInv
    <3>2. ASSUME app = "joining"
          PROVE  /\ encoder' # "receiving"
                 /\ StepsToEnd' < StepsToEnd
                 /\ StepsToEnd' \in 0 .. 4 /\ StepsToEnd \in 0 .. 4
      <4>1. ~running
        BY <3>1, <3>2
      <4>2. CASE EncoderAlloc
        BY <4>2 DEF EncoderAlloc, StepsToEnd
      <4>3. CASE EncoderLoop
        BY <4>1, <4>3 DEF EncoderLoop, StepsToEnd
      <4>4. CASE EncoderTake
        BY <4>4 DEF EncoderTake, StepsToEnd
      <4>5. CASE EncoderEncode
        BY <4>5 DEF EncoderEncode, StepsToEnd
      <4>6. CASE EncoderSend
        BY <4>6 DEF EncoderSend, StepsToEnd
      <4> QED
        BY <2>3, <4>2, <4>3, <4>4, <4>5, <4>6 DEF EncoderStep
    <3> QED
      BY <3>1, <3>2 DEF WakeInv, EndStep
  <2> QED
    BY <2>2, <2>3
<1>3. IInv /\ WakeInv /\ [Next]_vars => WakeInv' /\ EndStep
  BY <1>2
<1> QED
  BY <1>1, <1>3, Invariant, PTL DEF Spec

(* Where a surface is in the queue. *)
PlaceIn(q, i) == CHOOSE k \in DOMAIN q : q[k] = i
Place(i) == PlaceIn(queue, i)

(* How many steps the encoder's thread is from having taken its next message;
   and, with four for each message, from having released surface i. *)
StepsToTake ==
  CASE encoder = "off" -> 0 [] encoder = "receiving" -> 1
    [] encoder = "top" -> 2 [] encoder \in {"starting", "sending"} -> 3
    [] encoder = "reading" -> 4

StepsToFree(i) ==
  IF Reading(i) THEN 1 ELSE 4 * (Place(i) - 1) + StepsToTake + 1

(* Surface i was handed over, and there is a thread to hand it back. *)
Waits(i) == app # "off" /\ state[i] = "ENCODING" /\ encoder # "off"

(* There is a message for it, and not more than three. *)
InReach ==
  \A i \in Surfaces : Waits(i) =>
    /\ encoder = "receiving" => queue # << >>
    /\ StepsToFree(i) \in 1 .. 13

(* Each step of the thread brings the surface nearer, and nothing that the hook
   or the main thread does sets it back. *)
ReturnStep ==
  \A i \in Surfaces : Waits(i) /\ Waits(i)' =>
    /\ StepsToFree(i)' <= StepsToFree(i)
    /\ EncoderStep => StepsToFree(i)' < StepsToFree(i)

(* A surface in the queue has one place there. *)
LEMMA PlaceOf ==
  ASSUME NEW q, \A k, m \in DOMAIN q : q[k] = q[m] => k = m,
         NEW i, NEW k \in DOMAIN q, q[k] = i
  PROVE  PlaceIn(q, i) = k
<1>1. PlaceIn(q, i) \in DOMAIN q /\ q[PlaceIn(q, i)] = i
  BY DEF PlaceIn
<1> QED
  BY <1>1

(* Every surface that waits is being read or has its place. *)
LEMMA WaitsSomewhere ==
  ASSUME IInv, NEW i \in Surfaces, Waits(i)
  PROVE  /\ Len(queue) \in Nat /\ Len(queue) <= 3
         /\ \/ Reading(i)
            \/ Place(i) \in 1 .. Len(queue) /\ queue[Place(i)] = i
<1>1. TypeOK /\ SurfaceTracked /\ app # "off"
  BY DEF IInv, Waits
<1>2. queue \in Seq(Surfaces \cup {Shutdown}) /\ DOMAIN queue = 1 .. Len(queue)
  BY <1>1 DEF TypeOK
<1>3. Reading(i) \/ Queued(i)
  BY <1>1 DEF SurfaceTracked, Waits
<1>4. ASSUME Queued(i)
      PROVE  Place(i) \in 1 .. Len(queue) /\ queue[Place(i)] = i
  <2>1. PICK k \in DOMAIN queue : queue[k] = i
    BY <1>4 DEF Queued
  <2>2. Place(i) = k
    BY <1>1, <2>1, PlaceOf DEF Place, SurfaceTracked
  <2> QED
    BY <1>2, <2>1, <2>2
<1>5. Len(queue) + Len(InOrder({})) <= 3
  <2>1. \A k, m \in DOMAIN queue : queue[k] = queue[m] => k = m
    BY <1>1 DEF SurfaceTracked
  <2> QED
    BY <1>2, <2>1, ThreeFit
<1>6. Len(InOrder({})) = 0
  BY DEF InOrder
<1>7. Len(queue) \in Nat
  BY <1>2
<1>8. Len(queue) <= 3
  BY <1>5, <1>6, <1>7
<1> QED
  BY <1>3, <1>4, <1>7, <1>8

(* The safety that SurfaceReturns rests on: a surface that the hook handed over
   is free again after thirteen steps of the encoder's thread, unless the
   thread ends first, and the thread can take them. *)
THEOREM ReturnIsNear == Spec => []InReach /\ [][ReturnStep]_vars
<1>1. ASSUME IInv PROVE InReach
  <2> SUFFICES ASSUME NEW i \in Surfaces, Waits(i)
               PROVE  /\ encoder = "receiving" => queue # << >>
                      /\ StepsToFree(i) \in 1 .. 13
    BY DEF InReach
  <2>1. encoder \in {"starting", "top", "receiving", "reading", "sending"}
    BY <1>1 DEF Waits, IInv, TypeOK
  <2>2. StepsToTake \in 1 .. 4
    BY <2>1 DEF StepsToTake
  <2>3. Reading(i) \/ Place(i) \in 1 .. 3
    BY <1>1, WaitsSomewhere
  <2>4. StepsToFree(i) \in 1 .. 13
    BY <2>2, <2>3 DEF StepsToFree
  <2>5. ASSUME encoder = "receiving" PROVE queue # << >>
    <3>1. Place(i) \in 1 .. Len(queue)
      BY <1>1, <2>5, WaitsSomewhere DEF Reading
    <3>2. Len(queue) # 0
      BY <1>1, <3>1, WaitsSomewhere
    <3> QED
      BY <3>2
  <2> QED
    BY <2>4, <2>5
<1>2. ASSUME IInv, IInv', [Next]_vars PROVE ReturnStep
  <2> SUFFICES ASSUME NEW i \in Surfaces, Waits(i), Waits(i)'
               PROVE  /\ StepsToFree(i)' <= StepsToFree(i)
                      /\ EncoderStep => StepsToFree(i)' < StepsToFree(i)
    BY DEF ReturnStep
  <2> DEFINE p == Place(i)
  <2>1. encoder \in {"starting", "top", "receiving", "reading", "sending"}
        /\ encoder' \in {"starting", "top", "receiving", "reading", "sending"}
    BY <1>2 DEF Waits, IInv, TypeOK
  <2>2. /\ queue \in Seq(Surfaces \cup {Shutdown})
        /\ app # "off" /\ app' # "off"
    BY <1>2 DEF IInv, TypeOK, Waits
  <2> DEFINE after == queue'
  <2>7. ASSUME NEW k \in DOMAIN after, after[k] = i PROVE Place(i)' = k
    <3>1. \A m, n \in DOMAIN after : after[m] = after[n] => m = n
      BY <1>2, <2>2 DEF IInv, SurfaceTracked
    <3>2. PlaceIn(after, i) = k
      <4> HIDE DEF after
      <4> QED
        BY <2>7, <3>1, PlaceOf
    <3> QED
      BY <3>2 DEF Place
  <2>3. StepsToTake \in 1 .. 4 /\ StepsToTake' \in 1 .. 4
    BY <2>1 DEF StepsToTake
  <2>4. Reading(i) \/ (p \in 1 .. Len(queue) /\ queue[p] = i)
    BY <1>2, WaitsSomewhere
  <2>5. CASE ~EncoderStep
    <3>1. encoder' = encoder /\ index' = index
      BY <1>2, <2>2, <2>5 DEF Next, MainStep, HookStep, AppStart, HostChanges,
         NetStop, EncoderStop, EncoderJoin, CaptureShutdown, HookSkip, HookEnter,
         HookBody, vars, encoding, Waits
    <3>2. ASSUME p \in 1 .. Len(queue), queue[p] = i PROVE Place(i)' = p
      <4>1. p \in DOMAIN queue' /\ queue'[p] = i
        <5>1. CASE queue' = queue
          BY <2>2, <3>2, <5>1
        <5>2. CASE EncoderStop /\ running
          BY <2>2, <3>2, <5>2 DEF EncoderStop, Woken
        <5>3. CASE HookBody
          <6>1. PICK sameMs \in BOOLEAN :
                  queue' = queue \o Accepted(InOrder(Ready(sameMs)))
            BY <5>3 DEF HookBody
          <6>2. Ready(sameMs) \subseteq Surfaces
            BY DEF Ready
          <6> DEFINE t == Accepted(InOrder(Ready(sameMs)))
          <6>3. t \in Seq(Surfaces) /\ queue' = queue \o t
            BY <1>2, <6>1, <6>2, Handing DEF IInv
          <6> HIDE DEF t, p
          <6> QED
            BY <2>2, <3>2, <6>3
        <5> QED
          BY <1>2, <2>2, <2>5, <5>1, <5>2, <5>3 DEF Next, MainStep, HookStep,
             AppStart, HostChanges, NetStop, EncoderStop, EncoderJoin,
             CaptureShutdown, HookSkip, HookEnter, vars, encoding, Waits
      <4> QED
        BY <2>7, <4>1
    <3>3. StepsToTake' = StepsToTake /\ (Reading(i)' <=> Reading(i))
      BY <2>1, <3>1 DEF StepsToTake, Reading
    <3>4. StepsToFree(i)' = StepsToFree(i)
      BY <2>4, <3>2, <3>3 DEF StepsToFree
    <3>5. StepsToFree(i) \in Int
      BY <1>1, <1>2 DEF InReach
    <3> QED
      BY <2>5, <3>4, <3>5
  <2>6. CASE EncoderStep
    <3>1. CASE EncoderTake
      <4>1. /\ encoder = "receiving" /\ queue # << >> /\ queue' = Tail(queue)
            /\ encoder' = "reading" /\ index' = queue[1]
        BY <2>1, <3>1 DEF EncoderTake
      <4>2. ~Reading(i) /\ p \in 1 .. Len(queue) /\ queue[p] = i
        BY <2>4, <4>1 DEF Reading
      <4>3. CASE p = 1
        BY <4>1, <4>2, <4>3 DEF StepsToFree, StepsToTake, Reading
      <4>4. CASE p # 1
        <5>1. p - 1 \in DOMAIN queue' /\ queue'[p - 1] = i
          <6> HIDE DEF p
          <6> QED
            BY <2>2, <4>1, <4>2, <4>4
        <5>2. Place(i)' = p - 1
          BY <2>7, <5>1
        <5>3. ~Reading(i)'
          <6>1. queue[1] # i
            BY <1>2, <2>2, <4>1, <4>2, <4>4 DEF IInv, SurfaceTracked, Waits
          <6> QED
            BY <4>1, <6>1 DEF Reading
        <5>4. StepsToTake = 1 /\ StepsToTake' = 4
          BY <4>1 DEF StepsToTake
        <5>5. /\ StepsToFree(i) = 4 * (p - 1) + 1 + 1
              /\ StepsToFree(i)' = 4 * (p - 1 - 1) + 4 + 1
          BY <4>2, <5>2, <5>3, <5>4 DEF StepsToFree
        <5>6. p \in Int
          BY <4>2
        <5> HIDE DEF p
        <5> QED
          BY <5>5, <5>6
      <4> QED
        BY <4>3, <4>4
    <3>2. CASE EncoderAlloc \/ EncoderLoop \/ EncoderEncode \/ EncoderSend
      <4>1. queue' = queue /\ index' = index
        BY <3>2 DEF EncoderAlloc, EncoderLoop, EncoderEncode, EncoderSend
      <4>2. StepsToTake' < StepsToTake
        BY <2>1, <3>2 DEF EncoderAlloc, EncoderLoop, EncoderEncode, EncoderSend,
           StepsToTake
      <4>3. ~Reading(i) /\ ~Reading(i)'
        BY <1>2, <2>1, <3>2 DEF EncoderAlloc, EncoderLoop, EncoderEncode,
           EncoderSend, Release, Reading, Waits, IInv, TypeOK
      <4>4. p \in Int /\ Place(i)' = p
        BY <2>4, <4>1, <4>3 DEF Place, PlaceIn
      <4>5. /\ StepsToFree(i) = 4 * (p - 1) + StepsToTake + 1
            /\ StepsToFree(i)' = 4 * (p - 1) + StepsToTake' + 1
        BY <4>3, <4>4 DEF StepsToFree
      <4> DEFINE a == StepsToTake
                 b == StepsToTake'
      <4>6. a \in Int /\ b \in Int /\ b < a
        BY <2>3, <4>2
      <4>7. 4 * (p - 1) + b + 1 < 4 * (p - 1) + a + 1
        <5> HIDE DEF p, a, b
        <5> QED
          BY <4>4, <4>6
      <4>8. /\ 4 * (p - 1) + b + 1 <= 4 * (p - 1) + a + 1
        <5> HIDE DEF p, a, b
        <5> QED
          BY <4>4, <4>6
      <4> QED
        BY <4>5, <4>7, <4>8
    <3> QED
      BY <2>6, <3>1, <3>2 DEF EncoderStep
  <2> QED
    BY <2>5, <2>6
<1>3. IInv => InReach
  BY <1>1
<1>4. IInv /\ IInv' /\ [Next]_vars => ReturnStep
  BY <1>2
<1> QED
  BY <1>3, <1>4, Invariant, PTL DEF Spec

=============================================================================
