-------------------------- MODULE GuiSessionProofs --------------------------
(***************************************************************************)
(* Proofs about GuiSession, for any number of sessions and frames.         *)
(*                                                                         *)
(* The code that keeps the two sides apart is the order of stopSession     *)
(* (pc/src/gui/gui_app.cpp:447), and the invariant says why it suffices:   *)
(* a loop that receives, a server and an object exist only while the       *)
(* thread of the session is at certain places, and everything the view     *)
(* and the shared input hold is of the session that was started last, or   *)
(* nothing at home.                                                        *)
(***************************************************************************)
EXTENDS GuiSession, TLAPS

(* The thread exists in the modes other than Idle, its server and its loop
   that receives only between their start and their stop. *)
ThreadInv ==
  /\ mode = "Idle" <=> run = "none"
  /\ mode # "Idle" => session # None
  /\ app = IF mode = "Idle" THEN None ELSE session
  /\ receiver # "none" => run \in {"loop", "unlink"}
  /\ serving => mode = "Hosting" /\ run \in {"linking", "loop", "unlink"}

(* What there is of a session is of the one that was started last; a picture
   that is not marked as fresh is not looked at. *)
OfSession ==
  /\ {config, device, texture.session, shared, polled} \subseteq {None, session}
  /\ fresh => pending.session = session
  /\ taken # NoPicture => taken.session = session /\ gui = "upload"
  /\ gui = "upload" => mode # "Idle"
  /\ statFrames <= frames

(* At home there is nothing. *)
HomeInv ==
  mode = "Idle" =>
    /\ config = None /\ device = None /\ texture = NoPicture
    /\ shared = None /\ ~fresh
    /\ statFrames = 0

IInv ==
  /\ WindowType /\ ThreadType /\ ViewType
  /\ ThreadInv /\ OfSession /\ HomeInv

-----------------------------------------------------------------------------
(* The numbers of the sessions, and the sets in terms of which the types are
   stated. *)
LEMMA Numbers ==
  /\ None = 0 /\ None \notin Sessions
  /\ \A s \in Sessions : s \in Nat /\ s > 0
  /\ \A s \in Sessions \cup {None} : s < MaxSessions => s + 1 \in Sessions
  /\ NoPicture \notin Picture /\ NoPicture.session = None
  /\ \A p \in Picture : p.session \in Sessions
  /\ \A s \in Sessions : \A n \in 1 .. MaxFrames :
       [session |-> s, number |-> n] \in Picture
  /\ \A n \in 0 .. MaxFrames : n < MaxFrames => n + 1 \in 1 .. MaxFrames
  /\ \A n \in 1 .. MaxFrames : n \in 0 .. MaxFrames
  /\ 0 \in 0 .. MaxFrames
<1>1. None = 0 /\ None \notin Sessions /\ \A s \in Sessions : s \in Nat /\ s > 0
  BY BoundsAssumption DEF None, Sessions
<1>2. NoPicture.session = None
  BY DEF NoPicture
<1>3. /\ \A p \in Picture : p.session \in Sessions
      /\ \A s \in Sessions : \A n \in 1 .. MaxFrames :
           [session |-> s, number |-> n] \in Picture
  BY DEF Picture
<1>4. NoPicture \notin Picture
  BY <1>1, <1>2, <1>3
<1>5. /\ \A n \in 0 .. MaxFrames : n < MaxFrames => n + 1 \in 1 .. MaxFrames
      /\ \A n \in 1 .. MaxFrames : n \in 0 .. MaxFrames
      /\ 0 \in 0 .. MaxFrames
  BY BoundsAssumption
<1>6. \A s \in Sessions \cup {None} : s < MaxSessions => s + 1 \in Sessions
  BY BoundsAssumption DEF None, Sessions
<1> QED
  BY <1>1, <1>2, <1>3, <1>4, <1>5, <1>6

(* The initial state satisfies the inductive invariant. *)
LEMMA InitInv == Init => IInv
<1> SUFFICES ASSUME Init PROVE IInv
  OBVIOUS
<1> USE Numbers DEF Init
<1>1. WindowType
  BY DEF WindowType
<1>2. ThreadType
  BY DEF ThreadType
<1>3. ViewType
  BY DEF ViewType
<1>4. ThreadInv
  BY DEF ThreadInv
<1>5. OfSession
  BY DEF OfSession
<1>6. HomeInv
  BY DEF HomeInv
<1> QED
  BY <1>1, <1>2, <1>3, <1>4, <1>5, <1>6 DEF IInv

(* The thread of the window. *)
LEMMA WindowKeeps ==
  ASSUME IInv,
         \/ Frame \/ Joined \/ DrawHome \/ StartHosting \/ StartJoining
         \/ ClickStop \/ Take \/ Upload \/ Present \/ Plug
  PROVE  IInv'
<1> USE Numbers DEF vars, window, joint, thread, view
<1>1. CASE Frame
  <2> USE <1>1 DEF Frame, StopSession, OwnEnd, Joinable
  <2>1. WindowType'
    BY DEF IInv, WindowType, ThreadType, ViewType
  <2>2. ThreadType'
    BY DEF IInv, ThreadType, WindowType
  <2>3. ViewType'
    BY DEF IInv, ViewType, ThreadType, ThreadInv, HomeInv
  <2>4. ThreadInv'
    BY DEF IInv, ThreadInv, WindowType, ThreadType
  <2>5. OfSession'
    BY DEF IInv, OfSession, WindowType, ThreadType, ViewType, ThreadInv,
       HomeInv
  <2>6. HomeInv'
    BY DEF IInv, HomeInv, WindowType, ViewType, ThreadInv, OfSession
  <2> QED
    BY <2>1, <2>2, <2>3, <2>4, <2>5, <2>6 DEF IInv
<1>2. CASE Joined
  <2> USE <1>2 DEF Joined, JoinReturns, StatsAfter, SharedAfter, ViewReset
  <2>1. WindowType' /\ ThreadType' /\ ViewType'
    BY DEF IInv, WindowType, ThreadType, ViewType, ThreadInv
  <2>2. ThreadInv'
    BY DEF IInv, ThreadInv, WindowType, ThreadType
  <2>3. OfSession' /\ HomeInv'
    BY DEF IInv, OfSession, HomeInv, WindowType, ThreadType, ViewType, ThreadInv
  <2> QED
    BY <2>1, <2>2, <2>3 DEF IInv
<1>3. CASE DrawHome
  <2> USE <1>3 DEF DrawHome
  <2>1. WindowType' /\ ThreadType' /\ ViewType'
    BY DEF IInv, WindowType, ThreadType, ViewType, ThreadInv
  <2>2. ThreadInv'
    BY DEF IInv, ThreadInv, WindowType, ThreadType
  <2>3. OfSession' /\ HomeInv'
    BY DEF IInv, OfSession, HomeInv, WindowType, ThreadType, ViewType, ThreadInv
  <2> QED
    BY <2>1, <2>2, <2>3 DEF IInv
<1>4. CASE StartHosting
  <2> USE <1>4 DEF StartHosting, Start, ViewReset
  <2>1. WindowType' /\ ThreadType' /\ ViewType'
    BY DEF IInv, WindowType, ThreadType, ViewType, ThreadInv
  <2>2. ThreadInv'
    BY DEF IInv, ThreadInv, WindowType, ThreadType
  <2>3. OfSession' /\ HomeInv'
    BY DEF IInv, OfSession, HomeInv, WindowType, ThreadType, ViewType, ThreadInv
  <2> QED
    BY <2>1, <2>2, <2>3 DEF IInv
<1>5. CASE StartJoining
  <2> USE <1>5 DEF StartJoining, Start, ViewReset
  <2>1. WindowType' /\ ThreadType' /\ ViewType'
    BY DEF IInv, WindowType, ThreadType, ViewType, ThreadInv
  <2>2. ThreadInv'
    BY DEF IInv, ThreadInv, WindowType, ThreadType
  <2>3. OfSession' /\ HomeInv'
    BY DEF IInv, OfSession, HomeInv, WindowType, ThreadType, ViewType, ThreadInv
  <2> QED
    BY <2>1, <2>2, <2>3 DEF IInv
<1>6. CASE ClickStop
  <2> USE <1>6 DEF ClickStop, StopSession
  <2>1. WindowType' /\ ThreadType' /\ ViewType'
    BY DEF IInv, WindowType, ThreadType, ViewType, ThreadInv
  <2>2. ThreadInv'
    BY DEF IInv, ThreadInv, WindowType, ThreadType
  <2>3. OfSession' /\ HomeInv'
    BY DEF IInv, OfSession, HomeInv, WindowType, ThreadType, ViewType, ThreadInv
  <2> QED
    BY <2>1, <2>2, <2>3 DEF IInv
<1>7. CASE Take
  <2> USE <1>7 DEF Take, StatsRefreshed
  <2>1. WindowType'
    BY DEF IInv, WindowType, ThreadType, ViewType
  <2>2. ThreadType'
    BY DEF IInv, ThreadType, WindowType
  <2>3. ViewType'
    BY DEF IInv, ViewType, ThreadType, ThreadInv, HomeInv
  <2>4. ThreadInv'
    BY DEF IInv, ThreadInv, WindowType, ThreadType
  <2>5. OfSession'
    BY DEF IInv, OfSession, WindowType, ThreadType, ViewType, ThreadInv,
       HomeInv
  <2>6. HomeInv'
    BY DEF IInv, HomeInv, WindowType, ViewType, ThreadInv, OfSession
  <2> QED
    BY <2>1, <2>2, <2>3, <2>4, <2>5, <2>6 DEF IInv
<1>8. CASE Upload
  <2> USE <1>8 DEF Upload, FreshAfterUpload
  <2>1. WindowType' /\ ThreadType' /\ ViewType'
    BY DEF IInv, WindowType, ThreadType, ViewType, ThreadInv
  <2>2. ThreadInv'
    BY DEF IInv, ThreadInv, WindowType, ThreadType
  <2>3. OfSession' /\ HomeInv'
    BY DEF IInv, OfSession, HomeInv, WindowType, ThreadType, ViewType, ThreadInv
  <2> QED
    BY <2>1, <2>2, <2>3 DEF IInv
<1>9. CASE Present
  <2> USE <1>9 DEF Present, StopSession
  <2>1. WindowType'
    BY DEF IInv, WindowType, ThreadType, ViewType
  <2>2. ThreadType'
    BY DEF IInv, ThreadType, WindowType
  <2>3. ViewType'
    BY DEF IInv, ViewType, ThreadType, ThreadInv, HomeInv
  <2>4. ThreadInv'
    BY DEF IInv, ThreadInv, WindowType, ThreadType
  <2>5. OfSession'
    BY DEF IInv, OfSession, WindowType, ThreadType, ViewType, ThreadInv,
       HomeInv
  <2>6. HomeInv'
    BY DEF IInv, HomeInv, WindowType, ViewType, ThreadInv, OfSession
  <2> QED
    BY <2>1, <2>2, <2>3, <2>4, <2>5, <2>6 DEF IInv
<1>10. CASE Plug
  <2> USE <1>10 DEF Plug
  <2>1. WindowType' /\ ThreadType' /\ ViewType'
    BY DEF IInv, WindowType, ThreadType, ViewType, ThreadInv
  <2>2. ThreadInv'
    BY DEF IInv, ThreadInv, WindowType, ThreadType
  <2>3. OfSession' /\ HomeInv'
    BY DEF IInv, OfSession, HomeInv, WindowType, ThreadType, ViewType, ThreadInv
  <2> QED
    BY <2>1, <2>2, <2>3 DEF IInv
<1> QED
  BY <1>1, <1>2, <1>3, <1>4, <1>5, <1>6, <1>7, <1>8, <1>9, <1>10

(* The session thread, and where the loop that receives has got to. *)
LEMMA ThreadKeeps ==
  ASSUME IInv,
         \/ OpenFails \/ ServerStarts \/ LinkFails \/ LinkStarts
         \/ ClientOpens \/ Poll \/ LoopEnds \/ ReceiverEnds
         \/ ReceiverGoesOn \/ ServerStops \/ ThreadEnds
  PROVE  IInv'
<1> USE Numbers DEF vars, window, joint, thread, view
<1>1. CASE OpenFails
  <2> USE <1>1 DEF OpenFails, Step
  <2>1. WindowType' /\ ThreadType' /\ ViewType'
    BY DEF IInv, WindowType, ThreadType, ViewType, ThreadInv
  <2>2. ThreadInv'
    BY DEF IInv, ThreadInv, WindowType, ThreadType
  <2>3. OfSession' /\ HomeInv'
    BY DEF IInv, OfSession, HomeInv, WindowType, ThreadType, ViewType, ThreadInv
  <2> QED
    BY <2>1, <2>2, <2>3 DEF IInv
<1>2. CASE ServerStarts
  <2> USE <1>2 DEF ServerStarts, Step
  <2>1. WindowType' /\ ThreadType' /\ ViewType'
    BY DEF IInv, WindowType, ThreadType, ViewType, ThreadInv
  <2>2. ThreadInv'
    BY DEF IInv, ThreadInv, WindowType, ThreadType
  <2>3. OfSession' /\ HomeInv'
    BY DEF IInv, OfSession, HomeInv, WindowType, ThreadType, ViewType, ThreadInv
  <2> QED
    BY <2>1, <2>2, <2>3 DEF IInv
<1>3. CASE LinkFails
  <2> USE <1>3 DEF LinkFails, Step
  <2>1. WindowType'
    BY DEF IInv, WindowType, ThreadType, ViewType
  <2>2. ThreadType'
    BY DEF IInv, ThreadType, WindowType
  <2>3. ViewType'
    BY DEF IInv, ViewType, ThreadType, ThreadInv, HomeInv
  <2>4. ThreadInv'
    BY DEF IInv, ThreadInv, WindowType, ThreadType
  <2>5. OfSession'
    BY DEF IInv, OfSession, WindowType, ThreadType, ViewType, ThreadInv,
       HomeInv
  <2>6. HomeInv'
    BY DEF IInv, HomeInv, WindowType, ViewType, ThreadInv, OfSession
  <2> QED
    BY <2>1, <2>2, <2>3, <2>4, <2>5, <2>6 DEF IInv
<1>4. CASE LinkStarts
  <2> USE <1>4 DEF LinkStarts, Step
  <2>1. WindowType' /\ ThreadType' /\ ViewType'
    BY DEF IInv, WindowType, ThreadType, ViewType, ThreadInv
  <2>2. ThreadInv'
    BY DEF IInv, ThreadInv, WindowType, ThreadType
  <2>3. OfSession' /\ HomeInv'
    BY DEF IInv, OfSession, HomeInv, WindowType, ThreadType, ViewType, ThreadInv
  <2> QED
    BY <2>1, <2>2, <2>3 DEF IInv
<1>5. CASE ClientOpens
  <2> USE <1>5 DEF ClientOpens, Step
  <2>1. WindowType' /\ ThreadType' /\ ViewType'
    BY DEF IInv, WindowType, ThreadType, ViewType, ThreadInv
  <2>2. ThreadInv'
    BY DEF IInv, ThreadInv, WindowType, ThreadType
  <2>3. OfSession' /\ HomeInv'
    BY DEF IInv, OfSession, HomeInv, WindowType, ThreadType, ViewType, ThreadInv
  <2> QED
    BY <2>1, <2>2, <2>3 DEF IInv
<1>6. CASE Poll
  <2> USE <1>6 DEF Poll
  <2>1. WindowType' /\ ThreadType' /\ ViewType'
    BY DEF IInv, WindowType, ThreadType, ViewType, ThreadInv
  <2>2. ThreadInv'
    BY DEF IInv, ThreadInv, WindowType, ThreadType
  <2>3. OfSession' /\ HomeInv'
    BY DEF IInv, OfSession, HomeInv, WindowType, ThreadType, ViewType, ThreadInv
  <2> QED
    BY <2>1, <2>2, <2>3 DEF IInv
<1>7. CASE LoopEnds
  <2> USE <1>7 DEF LoopEnds, StopSeen
  <2>1. WindowType' /\ ThreadType' /\ ViewType'
    BY DEF IInv, WindowType, ThreadType, ViewType, ThreadInv
  <2>2. ThreadInv'
    BY DEF IInv, ThreadInv, WindowType, ThreadType
  <2>3. OfSession' /\ HomeInv'
    BY DEF IInv, OfSession, HomeInv, WindowType, ThreadType, ViewType, ThreadInv
  <2> QED
    BY <2>1, <2>2, <2>3 DEF IInv
<1>8. CASE ReceiverEnds
  <2> USE <1>8 DEF ReceiverEnds
  <2>1. WindowType' /\ ThreadType' /\ ViewType'
    BY DEF IInv, WindowType, ThreadType, ViewType, ThreadInv
  <2>2. ThreadInv'
    BY DEF IInv, ThreadInv, WindowType, ThreadType
  <2>3. OfSession' /\ HomeInv'
    BY DEF IInv, OfSession, HomeInv, WindowType, ThreadType, ViewType, ThreadInv
  <2> QED
    BY <2>1, <2>2, <2>3 DEF IInv
<1>9. CASE ReceiverGoesOn
  <2> USE <1>9 DEF ReceiverGoesOn, StopSeen
  <2>1. WindowType' /\ ThreadType' /\ ViewType'
    BY DEF IInv, WindowType, ThreadType, ViewType, ThreadInv
  <2>2. ThreadInv'
    BY DEF IInv, ThreadInv, WindowType, ThreadType
  <2>3. OfSession' /\ HomeInv'
    BY DEF IInv, OfSession, HomeInv, WindowType, ThreadType, ViewType, ThreadInv
  <2> QED
    BY <2>1, <2>2, <2>3 DEF IInv
<1>10. CASE ServerStops
  <2> USE <1>10 DEF ServerStops, Step
  <2>1. WindowType'
    BY DEF IInv, WindowType, ThreadType, ViewType
  <2>2. ThreadType'
    BY DEF IInv, ThreadType, WindowType
  <2>3. ViewType'
    BY DEF IInv, ViewType, ThreadType, ThreadInv, HomeInv
  <2>4. ThreadInv'
    BY DEF IInv, ThreadInv, WindowType, ThreadType
  <2>5. OfSession'
    BY DEF IInv, OfSession, WindowType, ThreadType, ViewType, ThreadInv,
       HomeInv
  <2>6. HomeInv'
    BY DEF IInv, HomeInv, WindowType, ViewType, ThreadInv, OfSession
  <2> QED
    BY <2>1, <2>2, <2>3, <2>4, <2>5, <2>6 DEF IInv
<1>11. CASE ThreadEnds
  <2> USE <1>11 DEF ThreadEnds, Step
  <2>1. WindowType'
    BY DEF IInv, WindowType, ThreadType, ViewType
  <2>2. ThreadType'
    BY DEF IInv, ThreadType, WindowType
  <2>3. ViewType'
    BY DEF IInv, ViewType, ThreadType, ThreadInv, HomeInv
  <2>4. ThreadInv'
    BY DEF IInv, ThreadInv, WindowType, ThreadType
  <2>5. OfSession'
    BY DEF IInv, OfSession, WindowType, ThreadType, ViewType, ThreadInv,
       HomeInv
  <2>6. HomeInv'
    BY DEF IInv, HomeInv, WindowType, ViewType, ThreadInv, OfSession
  <2> QED
    BY <2>1, <2>2, <2>3, <2>4, <2>5, <2>6 DEF IInv
<1> QED
  BY <1>1, <1>2, <1>3, <1>4, <1>5, <1>6, <1>7, <1>8, <1>9, <1>10,
     <1>11

(* The calls of the view. *)
LEMMA ViewKeeps ==
  ASSUME IInv,
         Nothing \/ OnConfig \/ OnFrame \/ OnAudio \/ QueueAudio
  PROVE  IInv'
<1> USE Numbers DEF vars, window, joint, thread, view
<1>1. CASE Nothing
  <2> USE <1>1 DEF Nothing, Received
  <2>1. WindowType' /\ ThreadType' /\ ViewType'
    BY DEF IInv, WindowType, ThreadType, ViewType, ThreadInv
  <2>2. ThreadInv'
    BY DEF IInv, ThreadInv, WindowType, ThreadType
  <2>3. OfSession' /\ HomeInv'
    BY DEF IInv, OfSession, HomeInv, WindowType, ThreadType, ViewType, ThreadInv
  <2> QED
    BY <2>1, <2>2, <2>3 DEF IInv
<1>2. CASE OnConfig
  <2> USE <1>2 DEF OnConfig, Received
  <2>1. WindowType' /\ ThreadType' /\ ViewType'
    BY DEF IInv, WindowType, ThreadType, ViewType, ThreadInv
  <2>2. ThreadInv'
    BY DEF IInv, ThreadInv, WindowType, ThreadType
  <2>3. OfSession' /\ HomeInv'
    BY DEF IInv, OfSession, HomeInv, WindowType, ThreadType, ViewType, ThreadInv
  <2> QED
    BY <2>1, <2>2, <2>3 DEF IInv
<1>3. CASE OnFrame
  <2> USE <1>3 DEF OnFrame, Received
  <2>1. WindowType' /\ ThreadType' /\ ViewType'
    BY DEF IInv, WindowType, ThreadType, ViewType, ThreadInv
  <2>2. ThreadInv'
    BY DEF IInv, ThreadInv, WindowType, ThreadType
  <2>3. OfSession' /\ HomeInv'
    BY DEF IInv, OfSession, HomeInv, WindowType, ThreadType, ViewType, ThreadInv
  <2> QED
    BY <2>1, <2>2, <2>3 DEF IInv
<1>4. CASE OnAudio
  <2> USE <1>4 DEF OnAudio, OpenAudio
  <2>1. WindowType'
    BY DEF IInv, WindowType, ThreadType, ViewType
  <2>2. ThreadType'
    BY DEF IInv, ThreadType, WindowType
  <2>3. ViewType'
    BY DEF IInv, ViewType, ThreadType, ThreadInv, HomeInv
  <2>4. ThreadInv'
    BY DEF IInv, ThreadInv, WindowType, ThreadType
  <2>5. OfSession'
    BY DEF IInv, OfSession, WindowType, ThreadType, ViewType, ThreadInv,
       HomeInv
  <2>6. HomeInv'
    BY DEF IInv, HomeInv, WindowType, ViewType, ThreadInv, OfSession
  <2> QED
    BY <2>1, <2>2, <2>3, <2>4, <2>5, <2>6 DEF IInv
<1>5. CASE QueueAudio
  <2> USE <1>5 DEF QueueAudio
  <2>1. WindowType' /\ ThreadType' /\ ViewType'
    BY DEF IInv, WindowType, ThreadType, ViewType, ThreadInv
  <2>2. ThreadInv'
    BY DEF IInv, ThreadInv, WindowType, ThreadType
  <2>3. OfSession' /\ HomeInv'
    BY DEF IInv, OfSession, HomeInv, WindowType, ThreadType, ViewType, ThreadInv
  <2> QED
    BY <2>1, <2>2, <2>3 DEF IInv
<1> QED
  BY <1>1, <1>2, <1>3, <1>4, <1>5

(* A step in which nothing changes. *)
LEMMA StutterKeeps == ASSUME IInv, UNCHANGED vars PROVE IInv'
<1> USE DEF vars, window, joint, thread, view
<1>1. WindowType'
  BY DEF IInv, WindowType
<1>2. ThreadType'
  BY DEF IInv, ThreadType
<1>3. ViewType'
  BY DEF IInv, ViewType
<1>4. ThreadInv'
  BY DEF IInv, ThreadInv
<1>5. OfSession'
  BY DEF IInv, OfSession
<1>6. HomeInv'
  BY DEF IInv, HomeInv
<1> QED
  BY <1>1, <1>2, <1>3, <1>4, <1>5, <1>6 DEF IInv

(* Every step keeps the inductive invariant. *)
LEMMA NextInv == IInv /\ [Next]_vars => IInv'
<1> SUFFICES ASSUME IInv, [Next]_vars PROVE IInv'
  OBVIOUS
<1>1. CASE GuiStep \/ Plug
  BY <1>1, WindowKeeps DEF GuiStep
<1>2. CASE ThreadStep \/ Poll \/ ReceiverGoesOn
  BY <1>2, ThreadKeeps DEF ThreadStep
<1>3. CASE Receive
  BY <1>3, ViewKeeps DEF Receive
<1>4. CASE Over \/ UNCHANGED vars
  BY <1>4, StutterKeeps DEF Over
<1> QED
  BY <1>1, <1>2, <1>3, <1>4 DEF Next

(* The inductive invariant holds in every state. *)
THEOREM Invariant == Spec => []IInv
  BY InitInv, NextInv, PTL DEF Spec

(* Every variable keeps its type. *)
THEOREM TypeCorrect == Spec => []TypeOK
<1>1. IInv => TypeOK
  BY DEF IInv, TypeOK
<1> QED
  BY <1>1, Invariant, PTL

(* What the window starts with, and goes home with, is nothing of an earlier
   session, however many sessions there were (stopSession and
   GuiVideoView::reset). *)
THEOREM NothingLeft == Spec => []NothingLeftOver
<1>1. ASSUME IInv PROVE NothingLeftOver
  <2> USE <1>1, Numbers DEF IInv
  <2>1. CASE mode = "Idle"
    <3>1. taken = NoPicture
      BY <2>1 DEF OfSession
    <3>2. Left = {}
      BY <2>1, <3>1 DEF HomeInv, Left
    <3> QED
      BY <2>1, <3>2 DEF NothingLeftOver, OfSession
  <2>2. CASE mode # "Idle"
    <3>1. taken.session \in {None, session}
      BY DEF OfSession
    <3>2. ASSUME NEW x \in Left PROVE x = session
      BY <3>1, <3>2 DEF OfSession, Left
    <3> QED
      BY <2>2, <3>2 DEF NothingLeftOver, OfSession
  <2> QED
    BY <2>1, <2>2
<1> QED
  BY <1>1, Invariant, PTL

(* A session never acts on a controller state that was read before it
   started (SharedInput::clear in stopSession). *)
THEOREM InputIsOfSession == Spec => []InputOfSession
<1>1. IInv => InputOfSession
  BY DEF IInv, OfSession, InputOfSession
<1> QED
  BY <1>1, Invariant, PTL

(* Only actions of the window drop something, and they find the threads of
   the session over. *)
LEMMA DropsApart == IInv /\ [Next]_vars => (Dropped => SessionOver)
<1> SUFFICES ASSUME IInv, [Next]_vars, Dropped PROVE SessionOver
  OBVIOUS
<1> USE Numbers DEF IInv, Dropped, vars, window, joint, thread, view
<1>1. CASE Joined
  BY <1>1 DEF Joined, JoinReturns, ThreadType, ThreadInv, SessionOver
<1>2. CASE StartHosting \/ StartJoining
  BY <1>2 DEF StartHosting, StartJoining, Start, ThreadType, ThreadInv,
     SessionOver
<1>3. CASE Frame \/ DrawHome \/ ClickStop \/ Take \/ Upload \/ Present \/ Plug
  BY <1>3 DEF Frame, DrawHome, ClickStop, Take, Upload, Present, Plug,
     StopSession
<1>4. CASE ThreadStep \/ Poll \/ ReceiverGoesOn
  BY <1>4 DEF ThreadStep, Poll, ReceiverGoesOn, OpenFails, ServerStarts,
     LinkFails, LinkStarts, ClientOpens, LoopEnds, ReceiverEnds, ServerStops,
     ThreadEnds, Step
<1>5. CASE Nothing \/ QueueAudio \/ OnFrame
  BY <1>5 DEF Nothing, QueueAudio, OnFrame, Received
<1>6. CASE OnConfig
  <2>1. session # None
    BY <1>6 DEF OnConfig, Received, ThreadInv
  <2> QED
    BY <1>6, <2>1 DEF OnConfig, Received
<1>7. CASE OnAudio
  BY <1>7 DEF OnAudio, OpenAudio
<1>8. CASE Over \/ UNCHANGED vars
  BY <1>8 DEF Over
<1> QED
  BY <1>1, <1>2, <1>3, <1>4, <1>5, <1>6, <1>7, <1>8
     DEF Next, GuiStep, Receive

(* The window takes nothing away from a session whose threads still run: what
   stopSession drops after the join, no thread uses (gui_app.cpp:447). *)
THEOREM Apart == Spec => SessionsApart
<1>1. Spec => [][Dropped => SessionOver]_vars
  BY Invariant, DropsApart, PTL DEF Spec
<1> QED
  BY <1>1 DEF SessionsApart
-----------------------------------------------------------------------------
(* How far the session thread, and the loop that it waits for, are from their
   end. *)
Ahead ==
  CASE run \in {"none", "ended"} -> 0 [] run = "returned" -> 1
    [] run = "unlink" -> 2 [] run = "loop" -> 3 [] run = "linking" -> 4
    [] run = "starting" -> 5

Receiving ==
  CASE receiver = "none" -> 0 [] receiver = "check" -> 1
    [] receiver = "audio" -> 2 [] receiver = "idle" -> 3

(* A host that loops does not wait for the threads that receive. *)
HostLoops == run = "loop" /\ mode = "Hosting"

Awaited == run = "unlink" \/ (run = "loop" /\ mode = "Joined")

Remaining == IF Awaited THEN Receiving ELSE 0

StepsToEnd == 4 * Ahead + Remaining

(* Whoever waits has told the session to stop, and what a loop waits for is
   there. *)
StopInv ==
  /\ gui = "join" => stopFlag
  /\ run = "loop" => receiver # "none"
  /\ StepsToEnd \in 0 .. 20

(* While the window waits nothing sets the session back, and each step that its
   thread takes, or the loop it waits for, brings the end nearer. *)
StopStep ==
  gui = "join" /\ gui' = "join" =>
    /\ StepsToEnd' <= StepsToEnd
    /\ ThreadStep => StepsToEnd' < StepsToEnd
    /\ Receive /\ ~HostLoops => StepsToEnd' < StepsToEnd
    /\ ReceiverGoesOn => HostLoops

(* A step that is not the window's leaves the flag and the mode alone. *)
LEMMA Elsewhere ==
  [Next]_vars /\ ~GuiStep => UNCHANGED <<gui, mode, stopFlag>>
<1> SUFFICES ASSUME [Next]_vars, ~GuiStep PROVE UNCHANGED <<gui, mode, stopFlag>>
  OBVIOUS
<1> USE DEF vars, window, joint, thread, view
<1>1. CASE ThreadStep
  BY <1>1 DEF ThreadStep, OpenFails, ServerStarts, LinkFails, LinkStarts,
     ClientOpens, LoopEnds, ReceiverEnds, ServerStops, ThreadEnds
<1>2. CASE Receive
  BY <1>2 DEF Receive, Nothing, OnConfig, OnFrame, OnAudio, QueueAudio
<1>3. CASE Plug \/ Over \/ Poll \/ ReceiverGoesOn \/ UNCHANGED vars
  BY <1>3 DEF Plug, Over, Poll, ReceiverGoesOn
<1> QED
  BY <1>1, <1>2, <1>3 DEF Next

(* The places of the thread outweigh those of the loop. *)
LEMMA Nearer ==
  ASSUME NEW a \in 0 .. 5, NEW b \in 0 .. 5, NEW r \in 0 .. 3, NEW q \in 0 .. 3
  PROVE  /\ b < a => 4 * b + q < 4 * a + r /\ 4 * b + q <= 4 * a + r
         /\ b = a /\ q < r => 4 * b + q < 4 * a + r
         /\ b = a /\ q <= r => 4 * b + q <= 4 * a + r
  OBVIOUS

(* While the window waits, what it waits for comes nearer. *)
LEMMA StopSteps == IInv /\ IInv' /\ StopInv /\ [Next]_vars => StopStep
<1> SUFFICES ASSUME IInv, IInv', StopInv, [Next]_vars,
                    gui = "join", gui' = "join"
             PROVE  /\ StepsToEnd' <= StepsToEnd
                    /\ ThreadStep => StepsToEnd' < StepsToEnd
                    /\ Receive /\ ~HostLoops => StepsToEnd' < StepsToEnd
                    /\ ReceiverGoesOn => HostLoops
  BY DEF StopStep
<1>1. ~GuiStep
  BY DEF GuiStep, Frame, Joined, DrawHome, StartHosting, StartJoining, Start,
     ClickStop, Take, Upload, Present, StopSession, IInv, WindowType
<1>2. mode' = mode /\ stopFlag
  BY <1>1, Elsewhere DEF StopInv
<1>3. /\ Ahead \in 0 .. 5 /\ Ahead' \in 0 .. 5
      /\ Remaining \in 0 .. 3 /\ Remaining' \in 0 .. 3
  BY DEF IInv, ThreadType, Ahead, Receiving, Remaining
<1>4. /\ Ahead' < Ahead =>
           StepsToEnd' < StepsToEnd /\ StepsToEnd' <= StepsToEnd
      /\ Ahead' = Ahead /\ Remaining' < Remaining =>
           StepsToEnd' < StepsToEnd
      /\ Ahead' = Ahead /\ Remaining' <= Remaining =>
           StepsToEnd' <= StepsToEnd
  <2> DEFINE a == Ahead
             b == Ahead'
             r == Remaining
             q == Remaining'
  <2>1. /\ b < a => 4 * b + q < 4 * a + r /\ 4 * b + q <= 4 * a + r
        /\ b = a /\ q < r => 4 * b + q < 4 * a + r
        /\ b = a /\ q <= r => 4 * b + q <= 4 * a + r
    <3>1. a \in 0 .. 5 /\ b \in 0 .. 5 /\ r \in 0 .. 3 /\ q \in 0 .. 3
      BY <1>3
    <3> HIDE DEF a, b, r, q
    <3> QED
      BY <3>1, Nearer
  <2> QED
    BY <2>1 DEF StepsToEnd
<1>5. ASSUME ThreadStep
      PROVE  \/ Ahead' < Ahead
             \/ Ahead' = Ahead /\ Remaining' < Remaining
  <2>1. CASE OpenFails \/ ServerStarts \/ LinkFails \/ LinkStarts \/ ClientOpens
    BY <2>1 DEF OpenFails, ServerStarts, LinkFails, LinkStarts, ClientOpens,
       Step, Ahead
  <2>2. CASE LoopEnds
    BY <2>2 DEF LoopEnds, Ahead
  <2>3. CASE ReceiverEnds
    BY <2>3 DEF ReceiverEnds, Awaited, Ahead, Receiving, Remaining
  <2>4. CASE ServerStops \/ ThreadEnds
    BY <2>4 DEF ServerStops, ThreadEnds, Step, Ahead
  <2> QED
    BY <1>5, <2>1, <2>2, <2>3, <2>4 DEF ThreadStep
<1>6. ASSUME Receive
      PROVE  /\ Ahead' = Ahead /\ Remaining' <= Remaining
             /\ ~HostLoops => Remaining' < Remaining
  <2>1. /\ run' = run /\ run \in {"loop", "unlink"}
        /\ mode \in {"Hosting", "Joined"}
    BY <1>6 DEF Receive, Nothing, OnConfig, OnFrame, OnAudio, QueueAudio,
       Received, IInv, ThreadInv, WindowType
  <2>2. Receiving' < Receiving /\ Receiving' <= Receiving
    BY <1>6 DEF Receive, Nothing, OnConfig, OnFrame, OnAudio, QueueAudio,
       Received, Receiving
  <2>3. Ahead' = Ahead
    BY <2>1 DEF Ahead
  <2>4. (Awaited' <=> Awaited) /\ (~HostLoops <=> Awaited)
    BY <1>2, <2>1 DEF Awaited, HostLoops
  <2> QED
    BY <2>2, <2>3, <2>4 DEF Remaining
<1>7. ASSUME ReceiverGoesOn
      PROVE  HostLoops /\ Ahead' = Ahead /\ Remaining' <= Remaining
  <2>1. HostLoops
    BY <1>2, <1>7 DEF ReceiverGoesOn, StopSeen, HostLoops, IInv, ThreadInv,
       WindowType
  <2>2. ~Awaited /\ ~Awaited' /\ Ahead' = Ahead
    BY <1>2, <1>7, <2>1 DEF ReceiverGoesOn, HostLoops, Awaited, Ahead
  <2> QED
    BY <2>1, <2>2 DEF Remaining
<1>8. ASSUME ~ThreadStep, ~Receive, ~ReceiverGoesOn
      PROVE  Ahead' = Ahead /\ Remaining' <= Remaining
  <2>1. run' = run /\ receiver' = receiver
    BY <1>1, <1>8 DEF Next, Plug, Over, Poll, vars, thread
  <2>2. Ahead' = Ahead /\ Remaining' = Remaining
    BY <1>2, <2>1 DEF Remaining, Ahead, Receiving, Awaited
  <2> QED
    BY <1>3, <2>2
<1>9. ASSUME ThreadStep
      PROVE  StepsToEnd' < StepsToEnd /\ StepsToEnd' <= StepsToEnd
  <2>1. Remaining' < Remaining => Remaining' <= Remaining
    BY <1>3
  <2> QED
    BY <1>4, <1>5, <1>9, <2>1
<1> QED
  BY <1>4, <1>6, <1>7, <1>8, <1>9

(* The safety that StopReturns rests on: Stop, Disconnect and closing the window
   wait for twenty steps of the session thread and of the loop it waits for, at
   most; these have been told to end, and lack nothing to take them
   (gui_app.cpp:447, host_link.cpp's joins, client_app.cpp's loop). *)
THEOREM StopIsNear == Spec => []StopInv /\ [][StopStep]_vars
<1>1. ASSUME IInv PROVE StepsToEnd \in 0 .. 20
  <2>1. Ahead \in 0 .. 5 /\ Remaining \in 0 .. 3
    BY <1>1 DEF IInv, ThreadType, Ahead, Receiving, Remaining
  <2>2. Ahead <= 3 \/ Remaining = 0
    BY DEF Ahead, Awaited, Remaining
  <2> QED
    BY <2>1, <2>2 DEF StepsToEnd
<1>2. Init => StopInv
  BY <1>1, InitInv DEF Init, StopInv
<1>3. IInv /\ IInv' /\ StopInv /\ [Next]_vars => StopInv'
  <2> SUFFICES ASSUME IInv, IInv', StopInv, [Next]_vars PROVE StopInv'
    OBVIOUS
  <2> USE DEF vars, window, joint, thread, view
  <2>1. (StepsToEnd \in 0 .. 20)'
    BY <1>1, PTL
  <2>2. (gui = "join" => stopFlag)'
    <3>1. CASE GuiStep
      BY <3>1 DEF StopInv, GuiStep, Frame, Joined, DrawHome, StartHosting,
         StartJoining, Start, ClickStop, Take, Upload, Present, StopSession,
         IInv, WindowType
    <3>2. CASE ~GuiStep
      BY <3>2, Elsewhere DEF StopInv
    <3> QED
      BY <3>1, <3>2
  <2>3. (run = "loop" => receiver # "none")'
    <3>1. CASE GuiStep \/ Plug \/ Over \/ Poll \/ UNCHANGED vars
      BY <3>1 DEF StopInv, GuiStep, Frame, Joined, DrawHome, StartHosting,
         StartJoining, Start, ClickStop, Take, Upload, Present, Plug, Over, Poll
    <3>2. CASE ThreadStep
      BY <3>2 DEF StopInv, ThreadStep, OpenFails, ServerStarts, LinkFails,
         LinkStarts, ClientOpens, LoopEnds, ReceiverEnds, ServerStops,
         ThreadEnds, Step
    <3>3. CASE ReceiverGoesOn \/ Receive
      BY <3>3 DEF StopInv, ReceiverGoesOn, Receive, Nothing, OnConfig, OnFrame,
         OnAudio, QueueAudio, Received
    <3> QED
      BY <3>1, <3>2, <3>3 DEF Next
  <2> QED
    BY <2>1, <2>2, <2>3 DEF StopInv
<1> QED
  BY <1>2, <1>3, StopSteps, Invariant, PTL DEF Spec

-----------------------------------------------------------------------------
(* The newest frame that was decoded in this session waits for the window, is
   in its hands, or is shown. *)
NewestKept ==
  frames # 0 =>
    \/ fresh /\ pending = Newest
    \/ taken = Newest
    \/ texture = Newest

(* A frame that waits is the newest one, and so is one that was taken while none
   has come after it. *)
NewestInv ==
  /\ NewestKept
  /\ fresh => pending = Newest
  /\ taken # NoPicture /\ ~fresh => taken = Newest

(* The safety that NewestShown rests on: the window and the thread that decodes
   lose no frame between them but to a newer one, although what the window took
   it uploads without the lock (gui_video_view.cpp's acquireTexture). *)
THEOREM NewestIsKept == Spec => []NewestKept
<1>1. Init => NewestInv
  BY DEF Init, NewestInv, NewestKept
<1>2. ASSUME IInv, NewestInv, [Next]_vars PROVE NewestInv'
  <2> USE <1>2 DEF vars, window, joint, thread, view
  <2>1. CASE Joined \/ StartHosting \/ StartJoining
    <3>1. taken = NoPicture
      BY <2>1 DEF Joined, StartHosting, StartJoining, Start, IInv, OfSession
    <3> QED
      BY <2>1, <3>1 DEF Joined, StartHosting, StartJoining, Start, ViewReset,
         NewestInv, NewestKept
  <2>2. CASE UNCHANGED <<session, frames, fresh, pending, taken, texture>>
    BY <2>2 DEF NewestInv, NewestKept, Newest
  <2>3. CASE Take
    <3>1. taken = NoPicture
      BY <2>3 DEF Take, IInv, OfSession
    <3>2. taken # Newest
      BY <2>3, <3>1, Numbers DEF Newest, NoPicture, IInv, ThreadInv, Take
    <3> QED
      BY <2>3, <3>1, <3>2 DEF Take, NewestInv, NewestKept, Newest
  <2>4. CASE Upload
    <3>1. UNCHANGED <<session, frames, pending, fresh>> /\ taken' = NoPicture
      BY <2>4 DEF Upload, FreshAfterUpload
    <3>2. CASE fresh
      BY <3>1, <3>2 DEF NewestInv, NewestKept, Newest
    <3>3. CASE ~fresh /\ taken # NoPicture
      BY <2>4, <3>1, <3>3 DEF Upload, NewestInv, NewestKept, Newest
    <3>4. CASE ~fresh /\ taken = NoPicture
      <4>1. session # None
        BY <2>4 DEF Upload, IInv, OfSession, ThreadInv
      <4>2. taken # Newest
        BY <3>4, <4>1 DEF Newest, NoPicture
      <4> QED
        BY <2>4, <3>1, <3>4, <4>2 DEF Upload, NewestInv, NewestKept, Newest
    <3> QED
      BY <3>2, <3>3, <3>4
  <2>5. CASE OnFrame
    BY <2>5 DEF OnFrame, Received, NewestInv, NewestKept, Newest
  <2>6. CASE Nothing \/ OnConfig \/ OnAudio \/ QueueAudio
    BY <2>2, <2>6 DEF Nothing, OnConfig, OnAudio, QueueAudio, Received
  <2>7. CASE ThreadStep
    BY <2>2, <2>7 DEF ThreadStep, OpenFails, ServerStarts, LinkFails,
       LinkStarts, ClientOpens, LoopEnds, ReceiverEnds, ServerStops, ThreadEnds
  <2>8. CASE Poll \/ ReceiverGoesOn \/ Plug \/ Over \/ UNCHANGED vars
    BY <2>2, <2>8 DEF Poll, ReceiverGoesOn, Plug, Over
  <2>9. CASE Frame \/ DrawHome \/ ClickStop \/ Present
    BY <2>2, <2>9 DEF Frame, DrawHome, ClickStop, Present
  <2> QED
    BY <2>1, <2>2, <2>3, <2>4, <2>5, <2>6, <2>7, <2>8, <2>9
       DEF Next, GuiStep, Receive
<1>3. IInv /\ NewestInv /\ [Next]_vars => NewestInv'
  BY <1>2
<1>4. NewestInv => NewestKept
  BY DEF NewestInv
<1> QED
  BY <1>1, <1>3, <1>4, Invariant, PTL DEF Spec
=============================================================================
