----------------------------- MODULE GuiSession -----------------------------
(***************************************************************************)
(* The sessions of the PC application with a window: GuiApp                *)
(* (pc/src/gui/gui_app.cpp) starts HostApp::run or ClientApp::run on a     *)
(* thread of its own, ends it again, shows what GuiVideoView               *)
(* (gui_video_view.cpp) got from the threads that receive, and hands the   *)
(* player's controller over through a SharedInput (shared_input.h).        *)
(*                                                                         *)
(* The sessions of a run of the program are numbered, and so are the       *)
(* frames decoded in a session; what a picture, a controller state or an   *)
(* audio device says is the number of the session it comes from.  SDL and  *)
(* ImGui are calls that succeed, except for opening audio.                 *)
(***************************************************************************)
EXTENDS Integers

CONSTANTS
  MaxSessions,  \* bound: sessions started in a run of the program
  MaxFrames     \* bound: frames decoded in a session

ASSUME BoundsAssumption == MaxSessions \in Nat \ {0} /\ MaxFrames \in Nat \ {0}

Sessions == 1 .. MaxSessions
None == 0    \* no session, hence nothing of any session

VARIABLES
  \* the thread of the window
  gui,        \* where it is
  next,       \* where it goes on after stopSession
  quit,       \* quit_
  mode,       \* mode_
  plugged,    \* whether pad_->poll finds a controller
  statFrames, \* statFrames_
  \* what it shares with the session
  app,        \* host_ or client_: the session of the object there is
  stopFlag,   \* stopFlag_
  alive,      \* sessionAlive_
  shared,     \* sharedInput_: the session its state is from; None if not valid_
  \* the session
  session,    \* how many were started
  run,        \* where sessionThread_ is
  serving,    \* the host's SessionServer runs
  receiver,   \* where the loop is that receives and calls the view: at its
              \* condition, in the receive, or about to queue audio
  polled,     \* the session from which its last controller state is
  \* GuiVideoView
  config,     \* the session that hasConfig_ is from
  frames,     \* frames_, which also numbers the newest decoded frame
  pending,    \* pending_
  fresh,      \* pendingFresh_
  taken,      \* the frame that acquireTexture has in hand
  texture,    \* what texture_ shows
  device,     \* audioDevice_: the session that opened it
  audioFailed \* audioFailed_

window == <<gui, next, quit, mode, plugged, statFrames>>
joint == <<app, stopFlag, alive, shared>>
thread == <<session, run, serving, receiver, polled>>
view == <<config, frames, pending, fresh, taken, texture, device, audioFailed>>
vars == <<window, joint, thread, view>>

Picture == [session : Sessions, number : 1 .. MaxFrames]
NoPicture == [session |-> None, number |-> 0]
Newest == [session |-> session, number |-> frames]

(* GuiVideoView::reset; the pending picture stays, without its mark. *)
ViewReset ==
  /\ config' = None /\ frames' = 0
  /\ fresh' = FALSE
  /\ texture' = NoPicture
  /\ device' = None /\ audioFailed' = FALSE
  /\ UNCHANGED <<pending, taken>>

Init ==
  /\ gui = "frame" /\ next = "frame"
  /\ quit = FALSE /\ mode = "Idle" /\ plugged = TRUE
  /\ statFrames = 0
  /\ app = None /\ stopFlag = FALSE /\ alive = FALSE /\ shared = None
  /\ session = None /\ run = "none" /\ serving = FALSE
  /\ receiver = "none" /\ polled = None
  /\ config = None /\ frames = 0 /\ pending = NoPicture /\ fresh = FALSE
  /\ taken = NoPicture /\ texture = NoPicture
  /\ device = None /\ audioFailed = FALSE

-----------------------------------------------------------------------------
(* The thread of the window. *)

Joinable == run # "none"

(* stopSession sets the flag and waits for the thread ... *)
StopSession(after) ==
  /\ gui' = "join" /\ next' = after
  /\ stopFlag' = TRUE

(* Mutant of OwnEnd: a session that ended is not noticed. *)
OwnEndMissed == FALSE

(* The session thread ended on its own. *)
OwnEnd == mode # "Idle" /\ ~alive /\ Joinable

(* Events are read, the controller is polled, and a session that ended is
   cleared away. *)
Frame ==
  /\ gui = "frame"
  /\ quit' \in {quit, TRUE}
  /\ shared' = IF mode # "Idle" /\ plugged THEN session ELSE shared
  /\ IF OwnEnd
     THEN StopSession("draw")
     ELSE gui' = "draw" /\ UNCHANGED <<next, stopFlag>>
  /\ UNCHANGED <<mode, plugged, statFrames, app, alive, thread, view>>

(* Mutant of JoinReturns: stopSession goes on while the thread runs. *)
JoinReturnsAtOnce == TRUE

JoinReturns == run \in {"none", "ended"}

(* Mutant of StatsAfter: the statistics are kept. *)
StatsKept == statFrames

StatsAfter == 0

(* Mutant of SharedAfter: the controller state is kept for the next session. *)
SharedKept == shared

(* sharedInput_.clear. *)
SharedAfter == None

(* ... then drops the application and all that was left of the session. *)
Joined ==
  /\ gui = "join"
  /\ JoinReturns
  /\ gui' = next
  /\ run' = "none"
  /\ app' = None /\ shared' = SharedAfter /\ alive' = FALSE
  /\ ViewReset
  /\ mode' = "Idle" /\ statFrames' = StatsAfter
  /\ UNCHANGED <<next, quit, plugged, stopFlag, session, serving, receiver, polled>>

(* The home screen without a click, or with an address that is not valid. *)
DrawHome ==
  /\ gui = "draw" /\ mode = "Idle"
  /\ gui' = "present"
  /\ UNCHANGED <<next, quit, mode, plugged, statFrames, joint, thread, view>>

(* startHosting and startJoining. *)
Start(m) ==
  /\ gui = "draw" /\ mode = "Idle"
  /\ session < MaxSessions
  /\ session' = session + 1
  /\ ViewReset
  /\ app' = session + 1
  /\ stopFlag' = FALSE /\ alive' = TRUE
  /\ run' = "starting"
  /\ mode' = m
  /\ gui' = "present"
  /\ polled' = None
  /\ UNCHANGED <<next, quit, plugged, statFrames, shared, serving, receiver>>

StartHosting == Start("Hosting")
StartJoining == Start("Joined")

(* The Stop or the Disconnect button; the video region is not reached. *)
ClickStop ==
  /\ gui = "draw" /\ mode # "Idle"
  /\ StopSession("present")
  /\ UNCHANGED <<quit, mode, plugged, statFrames, app, alive, shared>>
  /\ UNCHANGED <<thread, view>>

(* The statistics are refreshed once a second. *)
StatsRefreshed == {statFrames, frames}

(* acquireTexture takes what is pending, under the lock. *)
Take ==
  /\ gui = "draw" /\ mode # "Idle"
  /\ gui' = "upload"
  /\ statFrames' \in StatsRefreshed
  /\ taken' = IF fresh THEN pending ELSE NoPicture
  /\ pending' = IF fresh THEN NoPicture ELSE pending
  /\ fresh' = FALSE
  /\ UNCHANGED <<next, quit, mode, plugged, joint, thread,
                 config, frames, texture, device, audioFailed>>

(* Mutant of FreshAfterUpload: the mark is taken away after the upload, too. *)
FreshAfterUploadCleared == FALSE

FreshAfterUpload == fresh

(* What it took becomes the texture, without the lock. *)
Upload ==
  /\ gui = "upload"
  /\ gui' = "present"
  /\ texture' = IF taken # NoPicture THEN taken ELSE texture
  /\ taken' = NoPicture
  /\ fresh' = FreshAfterUpload
  /\ UNCHANGED <<next, quit, mode, plugged, statFrames, joint, thread,
                 config, frames, pending, device, audioFailed>>

(* What is drawn is rendered; then the next frame of the window, or shutdown. *)
Present ==
  /\ gui = "present"
  /\ IF quit
     THEN StopSession("gone")
     ELSE gui' = "frame" /\ UNCHANGED <<next, stopFlag>>
  /\ UNCHANGED <<quit, mode, plugged, statFrames, app, alive, shared>>
  /\ UNCHANGED <<thread, view>>

(* The player plugs the controller in or out. *)
Plug ==
  /\ gui # "gone"
  /\ plugged' = ~plugged
  /\ UNCHANGED <<gui, next, quit, mode, statFrames, joint, thread, view>>

(* The program is over. *)
Over == gui = "gone" /\ UNCHANGED vars

-----------------------------------------------------------------------------
(* The session thread: HostApp::run or ClientApp::run. *)

Step(from, to) == run = from /\ run' = to

(* The socket for the clients, or the client's own, may not open. *)
OpenFails ==
  /\ Step("starting", "returned")
  /\ UNCHANGED <<window, joint, view, session, serving, receiver, polled>>

ServerStarts ==
  /\ mode = "Hosting"
  /\ Step("starting", "linking")
  /\ serving' = TRUE
  /\ UNCHANGED <<window, joint, view, session, receiver, polled>>

LinkFails ==
  /\ Step("linking", "returned")
  /\ serving' = FALSE
  /\ UNCHANGED <<window, joint, view, session, receiver, polled>>

LinkStarts ==
  /\ Step("linking", "loop")
  /\ receiver' = "check"
  /\ UNCHANGED <<window, joint, view, session, serving, polled>>

(* A client receives on the session thread itself, between its polls. *)
ClientOpens ==
  /\ mode = "Joined"
  /\ Step("starting", "loop")
  /\ receiver' = "check"
  /\ UNCHANGED <<window, joint, view, session, serving, polled>>

(* The session reads the controller, if the GUI has a state of it; a client
   does so before it receives. *)
Poll ==
  /\ run = "loop"
  /\ mode = "Joined" => receiver = "check"
  /\ shared # None
  /\ polled' = shared
  /\ UNCHANGED <<window, joint, view, session, run, serving, receiver>>

(* Mutant of StopSeen: the flag is not looked at. *)
StopUnseen == FALSE

StopSeen == stopFlag

(* The loop ends; the host's link waits for the threads that receive. *)
LoopEnds ==
  /\ run = "loop"
  /\ StopSeen
  /\ IF mode = "Joined"
     THEN receiver = "check" /\ receiver' = "none" /\ run' = "returned"
     ELSE run' = "unlink" /\ UNCHANGED receiver
  /\ UNCHANGED <<window, joint, view, session, serving, polled>>

ReceiverEnds ==
  /\ run = "unlink" /\ receiver = "check"
  /\ receiver' = "none"
  /\ UNCHANGED <<window, joint, view, session, run, serving, polled>>

ReceiverGoesOn ==
  /\ receiver = "check"
  /\ run = "loop" /\ (mode = "Joined" => ~StopSeen)
  /\ receiver' = "idle"
  /\ UNCHANGED <<window, joint, view, session, run, serving, polled>>

ServerStops ==
  /\ receiver = "none"
  /\ Step("unlink", "returned")
  /\ serving' = FALSE
  /\ UNCHANGED <<window, joint, view, session, receiver, polled>>

(* The last thing it does, also when it could not start. *)
ThreadEnds ==
  /\ Step("returned", "ended")
  /\ alive' = FALSE
  /\ UNCHANGED <<window, app, stopFlag, shared, view>>
  /\ UNCHANGED <<session, serving, receiver, polled>>

-----------------------------------------------------------------------------
(* The loop that receives, in the view. *)

(* The receive ends, with a datagram or a timeout. *)
Received == receiver = "idle" /\ receiver' = "check"

Nothing ==
  /\ Received
  /\ UNCHANGED <<window, joint, session, run, serving, polled, view>>

OnConfig ==
  /\ Received
  /\ config' = session
  /\ UNCHANGED <<window, joint, session, run, serving, polled,
                 frames, pending, fresh, taken, texture, device, audioFailed>>

(* A frame that can be decoded takes the place of one that still waits. *)
OnFrame ==
  /\ Received
  /\ config # None
  /\ frames < MaxFrames
  /\ frames' = frames + 1
  /\ pending' = [session |-> session, number |-> frames + 1]
  /\ fresh' = TRUE
  /\ UNCHANGED <<window, joint, session, run, serving, polled,
                 config, taken, texture, device, audioFailed>>

(* The device opens, or it is not tried again in this session. *)
OpenAudio ==
  \/ device' = session /\ UNCHANGED audioFailed
  \/ audioFailed' = TRUE /\ UNCHANGED device

(* Under the lock, onAudio opens the device once per session ... *)
OnAudio ==
  /\ receiver = "idle" /\ config # None
  /\ IF device = None /\ ~audioFailed
     THEN OpenAudio ELSE UNCHANGED <<device, audioFailed>>
  /\ receiver' = IF device' = None THEN "check" ELSE "audio"
  /\ UNCHANGED <<window, joint, session, run, serving, polled,
                 config, frames, pending, fresh, taken, texture>>

(* ... and queues the samples after it has let go of it. *)
QueueAudio ==
  /\ receiver = "audio"
  /\ receiver' = "check"
  /\ UNCHANGED <<window, joint, session, run, serving, polled, view>>

Receive == Nothing \/ OnConfig \/ OnFrame \/ OnAudio \/ QueueAudio

GuiStep ==
  \/ Frame \/ Joined
  \/ DrawHome \/ StartHosting \/ StartJoining
  \/ ClickStop \/ Take \/ Upload \/ Present

ThreadStep ==
  \/ OpenFails \/ ServerStarts \/ LinkFails \/ LinkStarts \/ ClientOpens
  \/ LoopEnds \/ ReceiverEnds \/ ServerStops \/ ThreadEnds

Next == GuiStep \/ Plug \/ Over \/ ThreadStep \/ Poll \/ ReceiverGoesOn \/ Receive

Spec == Init /\ [][Next]_vars

(* The window is drawn again and again, and a session thread, which blocks
   in a receive with a timeout at most, goes on.  What the user clicks, what
   arrives and what fails is open. *)
Fairness ==
  /\ WF_vars(Frame) /\ WF_vars(Joined) /\ WF_vars(Upload) /\ WF_vars(Present)
  /\ WF_vars(DrawHome \/ Take)
  /\ WF_vars(ThreadStep)
  /\ WF_vars(ReceiverGoesOn) /\ WF_vars(Receive)

LiveSpec == Spec /\ Fairness

-----------------------------------------------------------------------------
(* The types: of the window and what it shares, of the session, of the view. *)
WindowType ==
  /\ gui \in {"frame", "join", "draw", "upload", "present", "gone"}
  /\ next \in {"frame", "draw", "present", "gone"}
  /\ quit \in BOOLEAN /\ plugged \in BOOLEAN
  /\ mode \in {"Idle", "Hosting", "Joined"}
  /\ app \in Sessions \cup {None} /\ shared \in Sessions \cup {None}
  /\ stopFlag \in BOOLEAN /\ alive \in BOOLEAN
  /\ statFrames \in 0 .. MaxFrames

ThreadType ==
  /\ session \in Sessions \cup {None} /\ polled \in Sessions \cup {None}
  /\ run \in {"none", "starting", "linking", "loop", "unlink", "returned",
             "ended"}
  /\ serving \in BOOLEAN
  /\ receiver \in {"none", "check", "idle", "audio"}

ViewType ==
  /\ config \in Sessions \cup {None} /\ device \in Sessions \cup {None}
  /\ frames \in 0 .. MaxFrames
  /\ pending \in Picture \cup {NoPicture}
  /\ taken \in Picture \cup {NoPicture}
  /\ texture \in Picture \cup {NoPicture}
  /\ fresh \in BOOLEAN /\ audioFailed \in BOOLEAN

TypeOK == WindowType /\ ThreadType /\ ViewType

Dropped ==
  \/ app' # app \/ session' # session
  \/ config # None /\ config' = None
  \/ device # None /\ device' = None

SessionOver == run \in {"none", "ended"} /\ receiver = "none" /\ ~serving

(* What the window does to the objects that the threads of a session use
   (dropping the application, emptying the view, closing its audio device,
   taking sessionThread_ for the next session), it does when these threads
   are over.  The code has no lock for it, only the order in stopSession. *)
SessionsApart == [][Dropped => SessionOver]_vars

(* Nothing of one session is left in the next, or at home: no picture, waiting
   or shown, no audio device, no controller state, and no statistics that the
   new frame count would be behind of (gui_app.cpp:311 subtracts unsigned). *)
Left ==
  {x \in {IF fresh THEN pending.session ELSE None, taken.session,
          texture.session, config, device, shared} : x # None}

NothingLeftOver ==
  /\ Left \subseteq IF mode = "Idle" THEN {} ELSE {session}
  /\ statFrames <= frames

(* A session acts on a controller state only if the state was read while the
   session was running. *)
InputOfSession == run = "loop" /\ polled # None => polled = session

(* Stop, Disconnect and closing the window never hang: the session is over
   after a while, whatever it was doing. *)
StopReturns == gui = "join" ~> mode = "Idle"

(* A session that could not start is not left on the screen. *)
EndNoticed == run = "ended" ~> run = "none"

(* A frame that was decoded is shown, or a newer one, or the session ends. *)
NewestShown ==
  \A n \in 1 .. MaxFrames :
    frames = n ~> (texture = Newest \/ frames # n)
=============================================================================
