----------------------------- MODULE HostInput -----------------------------
(***************************************************************************)
(* The InputHub (pc/src/core/input_hub.cpp) between the two threads of the *)
(* host that use it: the session thread, which stores what remote players  *)
(* send (SessionServer::loop), and the main loop, which stores the local   *)
(* controller as slot 0 and packs the bundle for the console               *)
(* (HostApp::run).  Both take the time before they take the hub's lock;    *)
(* the main loop even drives the display in between, which waits for the   *)
(* screen.  Of a controller's state only its age is modelled.              *)
(***************************************************************************)
EXTENDS Integers

CONSTANTS
  Remote,        \* the slots of remote players, 1 .. WSU_MAX_PLAYERS - 1
  ClockSpace,    \* 2^32: nowMs() wraps
  InputTimeout,  \* WSU_INPUT_TIMEOUT_MS
  HostLag,       \* how long pump() may keep the main loop
  SessionLag,    \* how long the session thread may wait for a lock
  Idle           \* bound: how long a slot goes without an update

ASSUME RemoteAssumption == Remote \subseteq Nat \ {0}
ASSUME TimeAssumption ==
  /\ InputTimeout \in Nat \ {0} /\ HostLag \in Nat /\ SessionLag \in Nat
  /\ Idle \in Nat /\ Idle > HostLag + 1
  /\ ClockSpace \in Nat
  /\ ClockSpace > Idle + InputTimeout + HostLag + SessionLag

Slots == Remote \cup {0}
Times == 0 .. ClockSpace - 1
Never == Idle + 1    \* the age of a slot without a state

VARIABLES
  clock,        \* nowMs()
  updatedAt,    \* updatedAtMs of each slot; 0 also says that there is none
  age,          \* history: how long ago each slot got its state
  hostAt,       \* where the main loop is
  hostNow,      \* its `now'
  hostLag,      \* how long ago it took it
  bundle,       \* the slots in the last bundle
  sessionAt,    \* the slot whose INPUT the session thread is storing, or 0
  sessionNow,   \* its `now'
  sessionLag    \* how long ago it took it

host == <<hostAt, hostNow, hostLag, bundle>>
session == <<sessionAt, sessionNow, sessionLag>>
vars == <<clock, updatedAt, age, host, session>>

Init ==
  /\ clock \in Times
  /\ updatedAt = [s \in Slots |-> 0]
  /\ age = [s \in Slots |-> Never]
  /\ hostAt = "asleep" /\ hostNow = 0 /\ hostLag = 0 /\ bundle = {}
  /\ sessionAt = 0 /\ sessionNow = 0 /\ sessionLag = 0

-----------------------------------------------------------------------------
(* nowMs one unit later: truncated to 32 bits. *)
nowMs == (clock + 1) % ClockSpace

(* ageMs: unsigned subtraction. *)
ageMs(now, then) == (now - then) % ClockSpace

(* Mutants of Active: a slot without a state is not told apart; the local
   player only. *)
ActiveUnset(s, now) == ageMs(now, updatedAt[s]) < InputTimeout
ActiveOthers(s, now) ==
  s = 0 /\ updatedAt[s] # 0 /\ ageMs(now, updatedAt[s]) < InputTimeout

Active(s, now) == updatedAt[s] # 0 /\ ageMs(now, updatedAt[s]) < InputTimeout

(* InputHub::set *)
Set(s, now) ==
  /\ updatedAt' = [updatedAt EXCEPT ![s] = now]
  /\ age' = [age EXCEPT ![s] = 0]

(* An assumption on the environment, not a check in the code: no slot goes
   without an update until its timestamp looks recent again (49 days). *)
Recent(s) == age[s] = Never \/ age[s] + HostLag + 1 < Idle

(* HostApp::run takes the time and enters pump. *)
HostPump ==
  /\ hostAt = "asleep"
  /\ hostAt' = "pump" /\ hostNow' = clock /\ hostLag' = 0
  /\ UNCHANGED <<clock, updatedAt, age, bundle, session>>

(* pump has returned; the local controller is stored if poll finds one. *)
HostPoll ==
  /\ hostAt = "pump"
  /\ hostAt' = "pack"
  /\ \/ Set(0, hostNow)
     \/ Recent(0) /\ UNCHANGED <<updatedAt, age>>
  /\ UNCHANGED <<clock, hostNow, hostLag, bundle, session>>

(* packBundle, then sleepMs. *)
HostPack ==
  /\ hostAt = "pack"
  /\ hostAt' = "sent"
  /\ bundle' = {s \in Slots : Active(s, hostNow)}
  /\ UNCHANGED <<clock, updatedAt, age, hostNow, hostLag, session>>

(* SessionServer::loop takes the time after it received an INPUT ... *)
SessionReceive(s) ==
  /\ sessionAt = 0
  /\ sessionAt' = s /\ sessionNow' = clock /\ sessionLag' = 0
  /\ UNCHANGED <<clock, updatedAt, age, host>>

(* ... and stores the state when it gets the locks. *)
SessionStore ==
  /\ sessionAt # 0
  /\ Set(sessionAt, sessionNow)
  /\ sessionAt' = 0
  /\ UNCHANGED <<clock, host, sessionNow, sessionLag>>

(* dropClient calls InputHub::clear. *)
SessionDrop(s) ==
  /\ sessionAt = 0
  /\ updatedAt' = [updatedAt EXCEPT ![s] = 0]
  /\ age' = [age EXCEPT ![s] = Never]
  /\ UNCHANGED <<clock, host, session>>

(* Time passes: while the main loop sleeps, in pump, and while the session
   thread waits. *)
Tick ==
  /\ hostAt \in {"sent", "pump"}
  /\ hostAt = "pump" => hostLag < HostLag
  /\ sessionAt # 0 => sessionLag < SessionLag
  /\ \A s \in Remote : Recent(s)
  /\ clock' = nowMs
  /\ age' = [s \in Slots |-> IF age[s] = Never THEN Never ELSE age[s] + 1]
  /\ hostAt' = IF hostAt = "sent" THEN "asleep" ELSE hostAt
  /\ hostLag' = IF hostAt = "pump" THEN hostLag + 1 ELSE 0
  /\ sessionLag' = IF sessionAt # 0 THEN sessionLag + 1 ELSE 0
  /\ UNCHANGED <<updatedAt, hostNow, bundle, sessionAt, sessionNow>>

Next ==
  \/ HostPump \/ HostPoll \/ HostPack
  \/ \E s \in Remote : SessionReceive(s) \/ SessionDrop(s)
  \/ SessionStore
  \/ Tick

Spec == Init /\ [][Next]_vars

(* Both threads run, and so does the clock.  Players send as they like. *)
LiveSpec ==
  /\ Spec
  /\ WF_vars(HostPump \/ HostPoll \/ HostPack)
  /\ WF_vars(SessionStore)
  /\ WF_vars(Tick)

-----------------------------------------------------------------------------
TypeOK ==
  /\ clock \in Times
  /\ updatedAt \in [Slots -> Times]
  /\ age \in [Slots -> 0 .. Never]
  /\ hostAt \in {"asleep", "pump", "pack", "sent"}
  /\ hostNow \in Times
  /\ hostLag \in 0 .. HostLag
  /\ bundle \subseteq Slots
  /\ sessionAt \in Remote \cup {0}
  /\ sessionNow \in Times
  /\ sessionLag \in 0 .. SessionLag

(* docs/protocol.md:83: slots go neutral InputTimeout after the last update.
   A slot that is packed has a state, and not an old one: the time the main
   loop lost in pump is all that is added, even across the wrap of the
   clock. *)
PackFresh ==
  hostAt = "pack" /\ hostAt' = "sent" =>
    \A s \in bundle' : age[s] < InputTimeout + HostLag

BundleFresh == [][PackFresh]_vars

(* How late the thread that stores a slot's state may be. *)
Lag(s) == IF s = 0 THEN HostLag ELSE SessionLag

(* The bundle has every slot whose state was there when the main loop took its
   time, hostLag ago, and was then younger than the input timeout.  A remote
   player's state that came in while the loop was in pump is not promised: it is
   left out (see InputReaches).  The millisecond in which the clock is 0, also
   the mark of a slot without a state, is left out, too. *)
PackTimely ==
  hostAt = "pack" /\ hostAt' = "sent" =>
    \A s \in Slots :
      /\ updatedAt[s] # 0
      /\ s # 0 => age[s] >= hostLag
      /\ age[s] + Lag(s) < InputTimeout + hostLag
      => s \in bundle'

BundleTimely == [][PackTimely]_vars

(* input_hub.h:4-7: every tick packs the active slots, and a slot goes inactive
   after the input timeout without an update.  A player whose states keep coming,
   with no gap as long as that, is in one bundle after another.  No run lists it,
   as it is false if HostLag > 0: states that are stored during pump have a time
   after hostNow, and Active takes them for old ones. *)
InputReaches ==
  \A s \in Remote :
    []<>(sessionAt = s) /\ <>[](age[s] + SessionLag + HostLag < InputTimeout)
      => []<>(s \in bundle)
=============================================================================
