--------------------------- MODULE CaptureEncoder ---------------------------
(***************************************************************************)
(* The frame path inside the stream plugin: the scan-out hook on the game's *)
(* render thread (wiiu/stream-plugin/src/capture.cpp) blits the picture    *)
(* into one of two surfaces, hands it over at the next scan-out, and the   *)
(* encoder thread (encoder.cpp) reads it, releases it and sends the frame; *)
(* the application's main thread starts and ends both (main.cpp).          *)
(*                                                                         *)
(* Pictures are numbered in the order their blits were issued; the number  *)
(* also stands for the time of the blit (issuedAtMs, timestampMs) and, of  *)
(* an image buffer, for the blit it was allocated for.  A surface's state  *)
(* changes under gCaptureMutex only, so what a thread does under it is one *)
(* step.  That the GPU has finished a blit by the next scan-out is assumed *)
(* as the code assumes it.                                                 *)
(***************************************************************************)
EXTENDS Integers, Sequences

CONSTANTS
  QueueSize,    \* kQueueSize
  MaxCaptures,  \* bound: blits issued
  AllocFails,   \* whether the encoder's buffers may fail to be allocated
  OtherFormats  \* whether the game shows pictures of a kind not captured

ASSUME QueueAssumption == QueueSize \in Nat \ {0}
ASSUME BoundAssumption == MaxCaptures \in Nat
ASSUME SwitchAssumption == AllocFails \in BOOLEAN /\ OtherFormats \in BOOLEAN

Surfaces == {0, 1}
Shutdown == -1      \* kMsgShutdown
NoImage == 0
Pictures == 0 .. MaxCaptures

VARIABLES
  app,          \* where ON_APPLICATION_START and _ENDS have got to
  active,       \* netHostActive()
  \* capture.cpp
  initialized,  \* gInitialized
  state,        \* gSlots[i].state
  image,        \* gSlots[i].image
  content,      \* the picture in it
  captured,     \* gCaptured[i]: image (pixels) and timestamp
  captures,     \* how many blits were issued
  hookAt,       \* whether the hook has passed its checks and not yet locked
  \* encoder.cpp
  running,      \* gRunning
  queue,        \* gQueue
  encoder,      \* where encoderThread is
  index,        \* its `index'
  picture,      \* the picture in gJpegBuf
  \* history
  sent,         \* the last frame given to the network: picture, timestamp
  recent        \* there was no scan-out in a later millisecond than the last
                \* blit's

capture == <<initialized, state, image, content, captured, captures, hookAt>>
encoding == <<running, queue, encoder, index, picture>>
history == <<sent, recent>>
vars == <<app, active, capture, encoding, history>>

Init ==
  /\ app = "off"
  /\ active = FALSE
  /\ initialized = FALSE
  /\ state = [i \in Surfaces |-> "FREE"]
  /\ image = [i \in Surfaces |-> NoImage]
  /\ content = [i \in Surfaces |-> 0]
  /\ captured = [i \in Surfaces |-> [image |-> NoImage, timestamp |-> 0]]
  /\ captures = 0
  /\ hookAt = "outside"
  /\ running = FALSE
  /\ queue = << >>
  /\ encoder = "off"
  /\ index = 0
  /\ picture = 0
  /\ sent = [picture |-> 0, timestamp |-> 0]
  /\ recent = FALSE

-----------------------------------------------------------------------------
(* The main thread: ON_APPLICATION_START and ON_APPLICATION_ENDS. *)

(* captureInit, encoderStart, netStart; when the encoder's thread cannot be
   created the network is not started. *)
AppStart ==
  /\ app = "off" /\ hookAt = "outside"
  /\ app' = "on"
  /\ initialized' = TRUE
  /\ queue' = << >>
  /\ running' \in BOOLEAN
  /\ encoder' = IF running' THEN "starting" ELSE "off"
  /\ UNCHANGED <<active, state, image, content, captured, captures, hookAt,
                 index, picture, history>>

(* A host comes, or is lost: see ConsoleLink. *)
HostChanges ==
  /\ app = "on" /\ running
  /\ active' = ~active
  /\ UNCHANGED <<app, capture, encoding, history>>

NetStop ==
  /\ app = "on"
  /\ app' = "netStopped"
  /\ active' = FALSE
  /\ UNCHANGED <<capture, encoding, history>>

(* Mutant of Woken: no message is sent. *)
Unwoken(messages) == messages

(* The encoder blocks in OSReceiveMessage: the message wakes it. *)
Woken(messages) == Append(messages, Shutdown)

(* encoderStop: the shutdown message waits for room in the queue; nothing
   is to be done when the encoder was never started. *)
EncoderStop ==
  /\ app = "netStopped"
  /\ running => Len(queue) < QueueSize
  /\ app' = IF running THEN "joining" ELSE "encoderStopped"
  /\ running' = FALSE
  /\ queue' = IF running THEN Woken(queue) ELSE queue
  /\ UNCHANGED <<active, capture, encoder, index, picture, history>>

EncoderJoin ==
  /\ app = "joining" /\ encoder = "off"
  /\ app' = "encoderStopped"
  /\ UNCHANGED <<active, capture, encoding, history>>

CaptureShutdown ==
  /\ app = "encoderStopped"
  /\ app' = "off"
  /\ initialized' = FALSE
  /\ state' = [i \in Surfaces |-> "FREE"]
  /\ image' = [i \in Surfaces |-> NoImage]
  /\ UNCHANGED <<active, content, captured, captures, hookAt, encoding, history>>

-----------------------------------------------------------------------------
(* The render thread: onTvScanout. *)

(* The hook returns at once: the plugin is not set up, no host is active, or
   the picture is of a kind it does not take. *)
HookSkip ==
  /\ app # "off" /\ hookAt = "outside"
  /\ ~initialized \/ ~active \/ OtherFormats
  /\ recent' = FALSE
  /\ UNCHANGED <<app, active, capture, encoding, sent>>

(* It has found the plugin initialized and a host active, and not yet the
   lock. *)
HookEnter ==
  /\ app # "off" /\ hookAt = "outside"
  /\ initialized /\ active
  /\ hookAt' = "entered"
  /\ UNCHANGED <<app, active, initialized, state, image, content, captured,
                 captures, encoding, history>>

(* Mutant of Ready: a surface is handed over again while it is encoded. *)
ReadyTwice(sameMs) == {i \in Surfaces : state[i] # "FREE" /\ ~sameMs}

(* The surfaces to be handed over.  sameMs: this scan-out is in the same
   millisecond as the last blit. *)
Ready(sameMs) == {i \in Surfaces : state[i] = "COPY_PENDING" /\ ~sameMs}

InOrder(S) ==
  (IF 0 \in S THEN <<0>> ELSE << >>) \o (IF 1 \in S THEN <<1>> ELSE << >>)

(* encoderSubmit, for each of them: as many as there is room for. *)
Accepted(order) ==
  SubSeq(order, 1, IF Len(order) <= QueueSize - Len(queue)
                     THEN Len(order) ELSE QueueSize - Len(queue))

(* The others are released at once. *)
Handed(ready, taken) ==
  [i \in Surfaces |->
     IF i \notin ready THEN state[i] ELSE IF i \in taken THEN "ENCODING" ELSE "FREE"]

(* Mutant of Target: whichever surface, although it may be encoded. *)
TargetAny(after, i) == TRUE

(* The first surface that is free. *)
Target(after, i) ==
  after[i] = "FREE" /\ \A j \in Surfaces : after[j] = "FREE" => i <= j

(* prepareSlot: the image is kept, or replaced when there is none or the
   picture has other dimensions, for which there may be no memory.  Then
   the blit. *)
Issue(after, i) ==
  \/ /\ image[i] # NoImage
     /\ state' = [after EXCEPT ![i] = "COPY_PENDING"]
     /\ content' = [content EXCEPT ![i] = captures + 1]
     /\ captures' = captures + 1
     /\ recent' = TRUE
     /\ UNCHANGED image
  \/ /\ state' = [after EXCEPT ![i] = "COPY_PENDING"]
     /\ image' = [image EXCEPT ![i] = captures + 1]
     /\ content' = [content EXCEPT ![i] = captures + 1]
     /\ captures' = captures + 1
     /\ recent' = TRUE
  \/ /\ state' = after
     /\ image' = [image EXCEPT ![i] = NoImage]
     /\ recent' = FALSE
     /\ UNCHANGED <<content, captures>>

(* What the encoder is told of a surface. *)
Record(i) == [image |-> image[i], timestamp |-> content[i]]

(* Under the lock: what was blitted at an earlier scan-out is handed over;
   then, if the frame interval is over, the next blit is issued if there is
   a surface for it. *)
HookBody ==
  /\ hookAt = "entered"
  /\ hookAt' = "outside"
  /\ \E sameMs \in BOOLEAN :
       LET ready == Ready(sameMs)
           taken == Accepted(InOrder(ready))
           after == Handed(ready, {taken[k] : k \in DOMAIN taken})
           free  == {i \in Surfaces : Target(after, i)}
       IN  /\ sameMs => recent
           /\ queue' = queue \o taken
           /\ captured' = [i \in Surfaces |->
                             IF i \in ready THEN Record(i) ELSE captured[i]]
           /\ \/ \E i \in free :
                   ~sameMs /\ captures < MaxCaptures /\ Issue(after, i)
              \/ /\ state' = after
                 /\ recent' = sameMs
                 /\ UNCHANGED <<image, content, captures>>
  /\ UNCHANGED <<app, active, initialized, running, encoder, index, picture,
                 sent>>

-----------------------------------------------------------------------------
(* The encoder thread. *)

(* Without its buffers the thread ends, and nobody is told. *)
EncoderAlloc ==
  /\ encoder = "starting"
  /\ encoder' \in {"top"} \cup (IF AllocFails THEN {"off"} ELSE {})
  /\ UNCHANGED <<app, active, capture, running, queue, index, picture, history>>

EncoderLoop ==
  /\ encoder = "top"
  /\ encoder' = IF running THEN "receiving" ELSE "off"
  /\ UNCHANGED <<app, active, capture, running, queue, index, picture, history>>

IsShutdown(message) == message = Shutdown

EncoderTake ==
  /\ encoder = "receiving" /\ queue # << >>
  /\ queue' = Tail(queue)
  /\ IF IsShutdown(Head(queue))
       THEN encoder' = "off" /\ UNCHANGED index
       ELSE encoder' = "reading" /\ index' = Head(queue)
  /\ UNCHANGED <<app, active, capture, running, picture, history>>

(* Mutant of Release: the surface stays with the encoder. *)
ReleaseNot(i) == UNCHANGED state

Release(i) == state' = [state EXCEPT ![i] = "FREE"]

(* downscale and compress, then captureRelease; an encoder that fails has
   nothing to send. *)
EncoderEncode ==
  /\ encoder = "reading"
  /\ picture' = content[index]
  /\ Release(index)
  /\ encoder' \in {"sending", "top"}
  /\ UNCHANGED <<app, active, initialized, image, content, captured, captures,
                 hookAt, running, queue, index, history>>

(* netSendVideoFrame, with the timestamp read from the released surface:
   it may be that of a later picture. *)
EncoderSend ==
  /\ encoder = "sending"
  /\ encoder' = "top"
  /\ sent' = IF active
               THEN [picture |-> picture, timestamp |-> captured[index].timestamp]
               ELSE sent
  /\ UNCHANGED <<app, active, capture, running, queue, index, picture, recent>>

-----------------------------------------------------------------------------
MainStep ==
  \/ AppStart \/ HostChanges \/ NetStop \/ EncoderStop \/ EncoderJoin
  \/ CaptureShutdown

HookStep == HookSkip \/ HookEnter \/ HookBody

EncoderStep ==
  \/ EncoderAlloc \/ EncoderLoop \/ EncoderTake \/ EncoderEncode \/ EncoderSend

Next == MainStep \/ HookStep \/ EncoderStep

Spec == Init /\ [][Next]_vars

(* The threads run; hosts, applications and scan-outs come as they like. *)
Fairness ==
  /\ WF_vars(EncoderStep)
  /\ WF_vars(HookBody)
  /\ WF_vars(EncoderStop \/ EncoderJoin \/ CaptureShutdown)

LiveSpec == Spec /\ Fairness

-----------------------------------------------------------------------------
TypeOK ==
  /\ app \in {"off", "on", "netStopped", "joining", "encoderStopped"}
  /\ active \in BOOLEAN
  /\ initialized \in BOOLEAN
  /\ state \in [Surfaces -> {"FREE", "COPY_PENDING", "ENCODING"}]
  /\ image \in [Surfaces -> Pictures]
  /\ content \in [Surfaces -> Pictures]
  /\ captured \in [Surfaces -> [image : Pictures, timestamp : Pictures]]
  /\ captures \in Pictures
  /\ hookAt \in {"outside", "entered"}
  /\ running \in BOOLEAN
  /\ queue \in Seq(Surfaces \cup {Shutdown})
  /\ encoder \in {"off", "starting", "top", "receiving", "reading", "sending"}
  /\ index \in Surfaces
  /\ picture \in Pictures
  /\ sent \in [picture : Pictures, timestamp : Pictures]
  /\ recent \in BOOLEAN

Queued(i) == \E k \in DOMAIN queue : queue[k] = i
Reading(i) == encoder = "reading" /\ index = i

(* A surface that is being encoded is known to the encoder, once: it waits
   in the queue or is being read. *)
SurfaceTracked ==
  app # "off" =>
    /\ \A i \in Surfaces : state[i] = "ENCODING" <=> Queued(i) \/ Reading(i)
    /\ \A i \in Surfaces : Reading(i) => ~Queued(i)
    /\ \A k, m \in DOMAIN queue : queue[k] = queue[m] => k = m

ImageKept ==
  \A i \in Surfaces :
    app # "off" /\ (Queued(i) \/ Reading(i)) =>
      /\ image[i] # NoImage
      /\ captured[i] = [image |-> image[i], timestamp |-> content[i]]

(* While the encoder reads a surface, and while the surface waits for it,
   its image is neither freed nor blitted to; and no surface is lost between
   the two threads, or is with both. *)
ReadStable == SurfaceTracked /\ ImageKept

(* No picture is sent twice, none after one that is newer, and none with a
   time before it was taken, although the time is read from a surface that
   the hook may have filled again. *)
SentStep ==
  sent' # sent =>
    sent'.picture > sent.picture /\ sent'.timestamp >= sent'.picture

OrderKept == [][SentStep]_vars

(* A surface that was handed over comes back, unless the encoder's thread
   has ended. *)
SurfaceReturns ==
  \A i \in Surfaces : state[i] = "ENCODING" ~> state[i] = "FREE" \/ encoder = "off"

(* The end of an application is not held up, even when the encoder's thread
   has ended before. *)
ShutdownCompletes == app = "netStopped" ~> app = "off"
=============================================================================
