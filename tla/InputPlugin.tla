---------------------------- MODULE InputPlugin ----------------------------
(***************************************************************************)
(* The input plugin of the console (wiiu/input-plugin/src).  Its network   *)
(* thread stores the newest state of every player slot (main.cpp,          *)
(* remote_input.h); the hooks of the controller functions, on the game's   *)
(* threads, overlay that state on what the game reads (injection.cpp): on  *)
(* the real GamePad for slot 0, and on Pro Controllers that do not exist   *)
(* for the others.                                                         *)
(*                                                                         *)
(* A controller's state is the set of buttons it holds; sticks and touch   *)
(* are left out.  A datagram is handled in one step: what it does to one   *)
(* slot is independent of the others, and each slot is read and written    *)
(* under the lock.  Both sides take the time before the lock, by up to     *)
(* Lag, which is a choice of the step.                                     *)
(***************************************************************************)
EXTENDS Integers

CONSTANTS
  Pro,           \* the slots of Pro Controllers, in 1 .. WSU_MAX_PLAYERS - 1
  Buttons,
  InputTimeout,  \* WSU_INPUT_TIMEOUT_MS
  PeerTimeout,   \* WSU_PEER_TIMEOUT_MS
  Lag            \* bound: how old a `now' is when it is used

ASSUME ProAssumption == Pro \subseteq Nat \ {0}
ASSUME TimeAssumption ==
  InputTimeout \in Nat \ {0} /\ PeerTimeout \in Nat \ {0} /\ Lag \in Nat

GamePad == 0
Slots == Pro \cup {GamePad}
Holds == SUBSET Buttons

Unset == InputTimeout + Lag   \* the age of a slot that is not active any more
Silent == PeerTimeout + 1     \* the host was not heard for too long
Unheard == PeerTimeout + 2    \* lastHostSeenMs is 0

VARIABLES
  state,      \* state_ of RemoteInput
  age,        \* how long ago updatedAtMs_ is
  master,     \* gMasterEnabled
  enabled,    \* gSlotEnabled
  running,    \* gRunning
  thread,     \* whether the network thread exists
  app,        \* the application: "on", "ending" or "off"
  connected,  \* gHostConnected
  hostAge,    \* how long ago lastHostSeenMs is
  prev,       \* gPrevVpadHold and gPrevProHold
  \* history: what the game saw
  seen,       \* what it holds in each slot, by the last sample
  down,       \* the same by the presses and releases of all samples, for Pro
  sampled,    \* the slots the game has read a sample of
  injected,   \* the slots whose last read was injected
  present,    \* the channels the last WPADProbe reported
  owned       \* slots updated since deactivateAll or init

remote == <<state, age, owned>>
menu == <<master, enabled>>
life == <<running, thread, app>>
host == <<connected, hostAge>>
game == <<prev, seen, down, sampled, injected, present>>
vars == <<remote, menu, life, host, game>>

Init ==
  /\ state = [s \in Slots |-> {}]
  /\ age = [s \in Slots |-> Unset]
  /\ owned = {}
  /\ master \in BOOLEAN /\ enabled \in SUBSET Slots
  /\ running = FALSE /\ thread = FALSE /\ app = "off"
  /\ connected = FALSE /\ hostAge = Unheard
  /\ prev = [s \in Slots |-> {}]
  /\ seen = [s \in Slots |-> {}]
  /\ down = [s \in Pro |-> {}]
  /\ sampled = {} /\ injected = {} /\ present = {}

-----------------------------------------------------------------------------
(* RemoteInput *)

(* Mutants of Deactivated and Active: the GamePad is forgotten; a slot without
   an update is active. *)
DeactivatedPro == [s \in Slots |-> IF s = GamePad THEN age[s] ELSE Unset]
ActiveEver(s, lag) == age[s] >= lag

Deactivated == [s \in Slots |-> Unset]

(* get: the slot was updated before, but not long before, `now', which was
   taken lag ago.  An update after `now' looks ages old: the difference is
   unsigned. *)
Active(s, lag) == age[s] - lag \in 0 .. InputTimeout - 1

DeactivateAll ==
  /\ age' = Deactivated
  /\ owned' = {}

(* update, for each state of a bundle; `now' was taken lag ago. *)
Update(bundle, lag) ==
  /\ state' = [s \in Slots |->
                IF s \in DOMAIN bundle THEN bundle[s] ELSE state[s]]
  /\ age' = [s \in Slots |-> IF s \in DOMAIN bundle THEN lag ELSE age[s]]
  /\ owned' = owned \cup DOMAIN bundle

-----------------------------------------------------------------------------
(* The network thread *)

HostSilent == hostAge # Unheard /\ hostAge > PeerTimeout

NetPass ==
  /\ thread /\ running
  /\ connected /\ HostSilent
  /\ connected' = FALSE
  /\ UNCHANGED <<remote, menu, life, hostAge, game>>

(* A HELLO of the right version; another is answered only. *)
NetHello ==
  /\ thread /\ running
  /\ connected' = TRUE /\ hostAge' = 0
  /\ UNCHANGED <<remote, menu, life, game>>

NetBundle(bundle) ==
  /\ thread /\ running
  /\ connected' = TRUE /\ hostAge' = 0
  /\ \E lag \in 0 .. Lag : Update(bundle, lag)
  /\ UNCHANGED <<menu, life, game>>

NetPing ==
  /\ thread /\ running
  /\ hostAge' = 0
  /\ UNCHANGED <<remote, menu, life, connected, game>>

NetBye ==
  /\ thread /\ running
  /\ DeactivateAll
  /\ connected' = FALSE
  /\ UNCHANGED <<state, menu, life, hostAge, game>>

(* The loop ends and the socket is closed. *)
NetExit ==
  /\ thread /\ ~running
  /\ thread' = FALSE /\ hostAge' = Unheard
  /\ UNCHANGED <<remote, menu, running, app, connected, game>>

-----------------------------------------------------------------------------
(* The life of the plugin, and its menu *)

(* ON_APPLICATION_START: the thread may fail to start.  The game is a new one
   that has seen nothing; the previous holds are kept. *)
AppStart ==
  /\ app = "off"
  /\ app' = "on"
  /\ state' = [s \in Slots |-> {}]
  /\ DeactivateAll
  /\ \E started \in BOOLEAN : running' = started /\ thread' = started
  /\ seen' = [s \in Slots |-> {}] /\ down' = [s \in Pro |-> {}]
  /\ sampled' = {} /\ injected' = {} /\ present' = {}
  /\ UNCHANGED <<menu, host, prev>>

(* ON_APPLICATION_ENDS tells the thread to stop ... *)
AppEnds ==
  /\ app = "on"
  /\ app' = "ending" /\ running' = FALSE
  /\ UNCHANGED <<remote, menu, thread, host, game>>

(* The network thread has ended. *)
Joined == ~thread

(* ... and joins it. *)
AppEnded ==
  /\ app = "ending" /\ Joined
  /\ app' = "off"
  /\ DeactivateAll
  /\ UNCHANGED <<state, menu, running, thread, host, game>>

masterChanged ==
  /\ master' = ~master
  /\ UNCHANGED <<remote, enabled, life, host, game>>

slotChanged(s) ==
  /\ enabled' = IF s \in enabled THEN enabled \ {s} ELSE enabled \cup {s}
  /\ UNCHANGED <<remote, master, life, host, game>>

slotInjectionEnabled(s) == master /\ s \in enabled

-----------------------------------------------------------------------------
(* The hooks.  Games read their controllers all the time. *)

(* Mutants of Tracked and PrevPro: the passthrough does not track the real
   hold; the edges are taken against nothing. *)
TrackedNot(hold) == prev[GamePad]
PrevProNone(s) == {}

(* gPrevVpadHold after the game got the sample of the real GamePad. *)
Tracked(hold) == hold

(* The hold the edges of a Pro Controller are taken against. *)
PrevPro(s) == prev[s]

(* VPADRead without injection: the real GamePad has a sample or not. *)
VpadPass ==
  /\ \E hold \in Holds :
       \/ /\ prev' = [prev EXCEPT ![GamePad] = Tracked(hold)]
          /\ seen' = [seen EXCEPT ![GamePad] = hold]
          /\ sampled' = sampled \cup {GamePad}
       \/ UNCHANGED <<prev, seen, sampled>>
  /\ injected' = injected \ {GamePad}
  /\ UNCHANGED <<down, present>>

(* VPADRead with injection: merged over the real sample, or over nothing when
   there is none. *)
VpadMerge ==
  /\ \E real \in Holds :
       LET hold == real \cup state[GamePad]
       IN /\ prev' = [prev EXCEPT ![GamePad] = hold]
          /\ seen' = [seen EXCEPT ![GamePad] = hold]
  /\ sampled' = sampled \cup {GamePad}
  /\ injected' = injected \cup {GamePad}
  /\ UNCHANGED <<down, present>>

VPADRead ==
  /\ app # "off"
  /\ \E lag \in 0 .. Lag :
       IF slotInjectionEnabled(GamePad) /\ Active(GamePad, lag)
         THEN VpadMerge ELSE VpadPass
  /\ UNCHANGED <<remote, menu, life, host>>

(* fillProStatus *)
ProFill(s) ==
  LET hold == state[s]
      trigger == hold \ PrevPro(s)
      release == PrevPro(s) \ hold
  IN /\ prev' = [prev EXCEPT ![s] = hold]
     /\ seen' = [seen EXCEPT ![s] = hold]
     /\ down' = [down EXCEPT ![s] = (@ \cup trigger) \ release]
     /\ sampled' = sampled \cup {s}
     /\ injected' = injected \cup {s}

(* KPADRead and KPADReadEx.  Without injection the channel, which has no real
   controller, has no sample. *)
KPADRead(s) ==
  /\ app # "off"
  /\ \E lag \in 0 .. Lag :
       IF slotInjectionEnabled(s) /\ Active(s, lag)
         THEN ProFill(s)
         ELSE /\ injected' = injected \ {s}
              /\ UNCHANGED <<prev, seen, down, sampled>>
  /\ UNCHANGED <<remote, menu, life, host, present>>

WPADProbe(s) ==
  /\ app # "off"
  /\ \E lag \in 0 .. Lag :
       present' = IF slotInjectionEnabled(s) /\ Active(s, lag)
                    THEN present \cup {s} ELSE present \ {s}
  /\ UNCHANGED <<remote, menu, life, host, prev, seen, down, sampled, injected>>

-----------------------------------------------------------------------------
Least(m, n) == IF m <= n THEN m ELSE n

Tick ==
  /\ age' = [s \in Slots |-> Least(age[s] + 1, Unset)]
  /\ hostAge' = IF hostAge = Unheard THEN Unheard
                ELSE Least(hostAge + 1, Silent)
  /\ UNCHANGED <<state, owned, menu, life, connected, game>>

Bundles == UNION {[S -> Holds] : S \in SUBSET Slots}

Next ==
  \/ NetPass \/ NetHello \/ NetPing \/ NetBye \/ NetExit
  \/ \E bundle \in Bundles : NetBundle(bundle)
  \/ AppStart \/ AppEnds \/ AppEnded
  \/ masterChanged \/ \E s \in Slots : slotChanged(s)
  \/ VPADRead \/ \E s \in Pro : KPADRead(s) \/ WPADProbe(s)
  \/ Tick

Spec == Init /\ [][Next]_vars

(* The network thread runs, games poll their controllers, time passes, and an
   application that ends does end. *)
LiveSpec ==
  /\ Spec
  /\ WF_vars(NetPass) /\ WF_vars(NetExit) /\ WF_vars(AppEnded)
  /\ WF_vars(VPADRead)
  /\ \A s \in Pro : WF_vars(KPADRead(s)) /\ WF_vars(WPADProbe(s))
  /\ WF_vars(Tick)

-----------------------------------------------------------------------------
TypeOK ==
  /\ state \in [Slots -> Holds]
  /\ age \in [Slots -> 0 .. Unset]
  /\ master \in BOOLEAN /\ enabled \subseteq Slots
  /\ running \in BOOLEAN /\ thread \in BOOLEAN
  /\ app \in {"on", "ending", "off"}
  /\ running => thread /\ app = "on"
  /\ thread => app # "off"
  /\ connected \in BOOLEAN /\ hostAge \in 0 .. Unheard
  /\ prev \in [Slots -> Holds] /\ seen \in [Slots -> Holds]
  /\ down \in [Pro -> Holds]
  /\ sampled \subseteq Slots /\ owned \subseteq Slots
  /\ injected \subseteq Slots /\ present \subseteq Pro

(* injection.cpp:10 and 214: edges are taken against what the game was given
   last, whether that was injected or passed through, whatever the timeouts,
   the menu and missing samples did in between.  Not so for the first sample
   of an application: the previous hold is one an earlier game saw. *)
PrevIsSeen == \A s \in sampled : prev[s] = seen[s]

(* The presses and releases a game was given for a Pro Controller leave no
   button down that is not held, although the controller may vanish with its
   buttons held and come back at any time. *)
NoStuckButton == \A s \in injected \cap Pro : down[s] \subseteq seen[s]

(* The inductive invariant: what is forgotten is not active, and what is down
   in the count of the game is held as far as the plugin knows, also in an
   application that has not read a sample yet. *)
IInv ==
  /\ TypeOK
  /\ PrevIsSeen
  /\ injected \subseteq sampled
  /\ \A s \in Slots \ owned : age[s] = Unset
  /\ \A s \in Pro : down[s] \subseteq prev[s]

(* After BYE and after the end of an application no slot comes to life, as a
   sample or as a controller that is present, before a new state arrived for
   it. *)
OnlyOwned ==
  (injected' \ injected) \cup (present' \ present) \subseteq owned

NothingAfterBye == [][OnlyOwned]_vars

(* main.cpp:8: a slot whose updates cease drops back to "not present": its
   samples are the real ones and its channel is empty, as long as a game
   runs. *)
SilenceNeutral ==
  \A s \in Slots :
    <>[](age[s] = Unset) /\ []<>(app # "off")
      => <>[](s \notin injected \cup present)
=============================================================================
