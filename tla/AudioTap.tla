------------------------------ MODULE AudioTap ------------------------------
(***************************************************************************)
(* The tap that fills the audio ring, in one application: netThread        *)
(* (net.cpp) asks again and again whether the game has started AX, the     *)
(* console's audio library, and then puts finalMixCallback in the place of *)
(* the callback the game may have, which it calls first                    *)
(* (wiiu/stream-plugin/src/audio.cpp); the end of the application puts the *)
(* game's back.  The game starts and ends AX and sets its callback on      *)
(* threads of its own.                                                     *)
(*                                                                         *)
(* Every application has an AX of its own and begins with audioInit, that  *)
(* is with Init.  Whether audio is switched on in the menu is a choice of  *)
(* each step that looks at it.                                             *)
(***************************************************************************)
EXTENDS AudioRing

CONSTANTS None, Game, Tap  \* the callbacks: none, the game's, finalMixCallback

ASSUME CallbacksAssumption == None # Game /\ Game # Tap /\ Tap # None

VARIABLES
  app,        \* the application: "on", "ends", "restores" or "over"
  ax,         \* AXIsInit
  device,     \* the final-mix callback of the TV
  own,        \* what the game set it to last
  chained,    \* gChainedCallback
  registered, \* gRegistered
  enabled,    \* gEnabled
  asked,      \* audioEnsureRegistered has `previous', and goes on
  previous,   \* its `previous'
  raced       \* history: the game did something to the callback between the
              \* question and the answer of the plugin

tap == <<app, ax, device, own, chained, registered, enabled, asked,
         previous, raced>>
tapVars == <<vars, tap>>

TapInit ==
  /\ Init
  /\ app = "on"
  /\ ax = FALSE /\ device = None /\ own = None
  /\ chained = None /\ registered = FALSE /\ enabled = FALSE
  /\ asked = FALSE /\ previous = None
  /\ raced = FALSE

Between == asked \/ app = "restores"

-----------------------------------------------------------------------------
(* The game *)

AXInit ==
  /\ app # "over" /\ ~ax
  /\ ax' = TRUE
  /\ raced' = (raced \/ Between)
  /\ UNCHANGED <<app, device, own, chained, registered, enabled, asked>>
  /\ UNCHANGED <<previous, vars>>

(* It waits for a callback that runs. *)
AXQuit ==
  /\ ax /\ mixCount = 0
  /\ ax' = FALSE /\ device' = None /\ own' = None
  /\ raced' = (raced \/ Between)
  /\ UNCHANGED <<app, chained, registered, enabled, asked, previous, vars>>

(* The game sets its callback, or none. *)
GameRegisters ==
  /\ app # "over" /\ ax
  /\ own' \in {None, Game}
  /\ device' = own'
  /\ raced' = (raced \/ Between)
  /\ UNCHANGED <<app, ax, chained, registered, enabled, asked, previous, vars>>

(* finalMixCallback: a mixed block goes to the ring, if the tap is there, and
   switched on, when the block begins. *)
Mix ==
  /\ \/ ax /\ device = Tap /\ enabled /\ MixBegin
     \/ MixWrite \/ MixPublish
  /\ UNCHANGED tap

-----------------------------------------------------------------------------
(* The network thread *)

(* audioEnsureRegistered: a callback that is the tap's already is left ... *)
EnsureAsk ==
  /\ app = "on" /\ draining = "away"
  /\ ~registered /\ ~asked
  /\ ax
  /\ previous' = device
  /\ asked' = (device # Tap)
  /\ registered' = (device = Tap)
  /\ UNCHANGED <<app, ax, device, own, chained, enabled, raced, vars>>

(* Mutant of Chained: the game's callback is forgotten. *)
ChainedNone == None

Chained == previous

(* Mutant of Enabled: the tap is put in but not switched on. *)
EnabledNot == enabled

Enabled == TRUE

(* ... another one is kept and replaced. *)
EnsureSet ==
  /\ asked
  /\ asked' = FALSE
  /\ chained' = Chained
  /\ IF ax
     THEN device' = Tap /\ registered' = TRUE /\ enabled' = Enabled
     ELSE UNCHANGED <<device, registered, enabled>>
  /\ UNCHANGED <<app, ax, own, previous, raced, vars>>

Drain ==
  /\ app = "on" /\ ~asked
  /\ ReadBegin \/ ReadCopy \/ ReadPublish \/ SendChunk \/ DrainEnd
  /\ UNCHANGED tap

-----------------------------------------------------------------------------
(* The end of the application: netStop has waited for the network thread. *)

NetStopped ==
  /\ app = "on" /\ ~asked /\ draining = "away"
  /\ app' = "ends"
  /\ UNCHANGED <<ax, device, own, chained, registered, enabled, asked>>
  /\ UNCHANGED <<previous, raced, vars>>

(* audioShutdown: if the tap is still the callback ... *)
ShutdownAsk ==
  /\ app = "ends"
  /\ enabled' = FALSE
  /\ IF registered /\ ax /\ device = Tap
     THEN app' = "restores" /\ UNCHANGED registered
     ELSE app' = "over" /\ registered' = FALSE
  /\ UNCHANGED <<ax, device, own, chained, asked, previous, raced, vars>>

(* ... the game's is put back. *)
ShutdownRestore ==
  /\ app = "restores"
  /\ app' = "over" /\ registered' = FALSE
  /\ device' = IF ax THEN chained ELSE device
  /\ UNCHANGED <<ax, own, chained, enabled, asked, previous, raced, vars>>

TapNext ==
  \/ AXInit \/ AXQuit \/ GameRegisters \/ Mix
  \/ EnsureAsk \/ EnsureSet \/ Drain
  \/ NetStopped \/ ShutdownAsk \/ ShutdownRestore

TapSpec == TapInit /\ [][TapNext]_tapVars

(* The network thread runs, with audio switched on.  It asks between any two of
   its drains, which are bounded (net.cpp:66), so that a ring that fills as
   fast as it is read does not keep it from asking. *)
LiveTapSpec ==
  /\ TapSpec
  /\ WF_tapVars(Drain) /\ SF_tapVars(EnsureAsk) /\ WF_tapVars(EnsureSet)

-----------------------------------------------------------------------------
Callbacks == {None, Game, Tap}

TapTypeOK ==
  /\ TypeOK
  /\ app \in {"on", "ends", "restores", "over"}
  /\ ax \in BOOLEAN /\ registered \in BOOLEAN /\ enabled \in BOOLEAN
  /\ device \in Callbacks /\ own \in {None, Game}
  /\ chained \in {None, Game} /\ previous \in Callbacks
  /\ asked \in BOOLEAN /\ raced \in BOOLEAN

(* audio.cpp:18: what the game registered is called for each block, once and
   nothing else, with the tap before it or not, and after the application has
   ended the tap.  It is lost if the game sets it just while the tap is put in
   or taken out. *)
GameHeard ==
  ax /\ ~raced => own = IF device = Tap THEN chained ELSE device

(* audio.cpp:109: the tap comes when the game has started AX, however late,
   and stays, unless the game takes it away: ending AX, or setting another
   callback. *)
TapComes ==
  [](registered /\ app = "on" => device = Tap)
    => (<>[](app = "on" /\ ax) => <>[](enabled /\ device = Tap))
=============================================================================
