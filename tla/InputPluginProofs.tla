------------------------- MODULE InputPluginProofs -------------------------
(***************************************************************************)
(* Proofs of what InputPlugin states, for all sets of slots and buttons    *)
(* and all timeouts.                                                       *)
(***************************************************************************)
EXTENDS InputPlugin, TLAPS

LEMMA Ages ==
  /\ Unset \in 0 .. Unset
  /\ {0, Unheard} \subseteq 0 .. Unheard
  /\ 0 .. Lag \subseteq 0 .. Unset
BY TimeAssumption DEF Unset, Unheard

LEMMA UnsetActive ==
  ASSUME NEW s \in Slots, NEW lag \in 0 .. Lag, age[s] = Unset
  PROVE  ~Active(s, lag)
BY TimeAssumption DEF Active, Unset

LEMMA InitInvariant == Init => IInv
<1> SUFFICES ASSUME Init PROVE IInv
  OBVIOUS
<1>1. /\ {} \in Holds
      /\ age \in [Slots -> 0 .. Unset] /\ hostAge \in 0 .. Unheard
  BY Ages DEF Init, Holds
<1>2. TypeOK
  BY <1>1 DEF Init, TypeOK
<1> QED
  BY <1>2 DEF Init, IInv, PrevIsSeen

(* A step that leaves the controllers and what the game saw alone keeps the
   invariant if it keeps the types and the slots that are forgotten. *)
LEMMA NetworkStep ==
  ASSUME IInv, TypeOK', UNCHANGED game,
         \A s \in Slots \ owned' : age'[s] = Unset
  PROVE  IInv'
BY DEF IInv, PrevIsSeen, game

LEMMA NetInvariant ==
  ASSUME IInv,
         \/ NetPass \/ NetHello \/ NetPing \/ NetBye \/ NetExit
         \/ \E bundle \in Bundles : NetBundle(bundle)
  PROVE  IInv'
<1> USE DEF remote, menu, life, host, game
<1>0. TypeOK /\ \A s \in Slots \ owned : age[s] = Unset
  BY DEF IInv
<1>1. CASE NetPass \/ NetHello \/ NetPing \/ NetExit
  <2>1. TypeOK'
    <3>1. CASE NetPass
      BY <1>0, <3>1 DEF NetPass, TypeOK
    <3>2. CASE NetHello
      BY <1>0, <3>2, Ages DEF NetHello, TypeOK
    <3>3. CASE NetPing
      BY <1>0, <3>3, Ages DEF NetPing, TypeOK
    <3>4. CASE NetExit
      BY <1>0, <3>4, Ages DEF NetExit, TypeOK
    <3> QED
      BY <1>1, <3>1, <3>2, <3>3, <3>4
  <2> QED
    BY <2>1, <1>0, <1>1, NetworkStep DEF NetPass, NetHello, NetPing, NetExit
<1>2. CASE NetBye
  <2>1. TypeOK'
    BY <1>0, <1>2, Ages DEF NetBye, DeactivateAll, Deactivated, TypeOK
  <2> QED
    BY <2>1, <1>2, NetworkStep DEF NetBye, DeactivateAll, Deactivated
<1>3. ASSUME NEW bundle \in Bundles, NetBundle(bundle) PROVE IInv'
  <2>1. PICK lag \in 0 .. Lag : Update(bundle, lag)
    BY <1>3 DEF NetBundle
  <2>2. PICK S \in SUBSET Slots : bundle \in [S -> Holds]
    BY <1>3 DEF Bundles
  <2>3. lag \in 0 .. Unset /\ DOMAIN bundle = S
    BY <2>2, Ages
  <2>4. state' \in [Slots -> Holds] /\ age' \in [Slots -> 0 .. Unset]
        /\ owned' \subseteq Slots
    BY <1>0, <2>1, <2>2, <2>3 DEF Update, TypeOK
  <2>5. TypeOK'
    BY <1>0, <1>3, <2>4, Ages DEF NetBundle, TypeOK
  <2>6. \A s \in Slots \ owned' : age'[s] = Unset
    BY <1>0, <2>1, <2>3 DEF Update, TypeOK
  <2> QED
    BY <2>5, <2>6, <1>3, NetworkStep DEF NetBundle
<1> QED
  BY <1>1, <1>2, <1>3

LEMMA LifeInvariant ==
  ASSUME IInv,
         \/ AppStart \/ AppEnds \/ AppEnded
         \/ masterChanged \/ \E s \in Slots : slotChanged(s)
  PROVE  IInv'
<1> USE DEF remote, menu, life, host, game
<1>0. TypeOK /\ \A s \in Slots \ owned : age[s] = Unset
  BY DEF IInv
<1>1. CASE AppStart
  <2>1. TypeOK'
    BY <1>0, <1>1, Ages
    DEF AppStart, DeactivateAll, Deactivated, TypeOK, Holds
  <2>2. sampled' = {} /\ injected' = {} /\ prev' = prev
        /\ down' = [s \in Pro |-> {}] /\ \A s \in Slots : age'[s] = Unset
    BY <1>1 DEF AppStart, DeactivateAll, Deactivated
  <2> QED
    BY <2>1, <2>2 DEF IInv, PrevIsSeen
<1>2. CASE AppEnds
  <2>1. TypeOK'
    BY <1>0, <1>2 DEF AppEnds, TypeOK
  <2> QED
    BY <2>1, <1>0, <1>2, NetworkStep DEF AppEnds
<1>3. CASE AppEnded
  <2>1. TypeOK'
    BY <1>0, <1>3, Ages
    DEF AppEnded, Joined, DeactivateAll, Deactivated, TypeOK
  <2> QED
    BY <2>1, <1>3, NetworkStep DEF AppEnded, DeactivateAll, Deactivated
<1>4. CASE masterChanged
  <2>1. TypeOK'
    BY <1>0, <1>4 DEF masterChanged, TypeOK
  <2> QED
    BY <2>1, <1>0, <1>4, NetworkStep DEF masterChanged
<1>5. ASSUME NEW s \in Slots, slotChanged(s) PROVE IInv'
  <2>1. TypeOK'
    BY <1>0, <1>5 DEF slotChanged, TypeOK
  <2> QED
    BY <2>1, <1>0, <1>5, NetworkStep DEF slotChanged
<1> QED
  BY <1>1, <1>2, <1>3, <1>4, <1>5

-----------------------------------------------------------------------------
(* The hooks *)

(* What a read of a controller must do to keep the invariant: the slot's
   previous hold is what the game gets, or both stay. *)
LEMMA ReadStep ==
  ASSUME IInv, TypeOK', UNCHANGED <<age, owned>>,
         injected' \subseteq sampled', sampled \subseteq sampled',
         NEW s \in Slots,
         sampled' \subseteq sampled \cup {s},
         \A q \in Slots \ {s} : prev'[q] = prev[q] /\ seen'[q] = seen[q],
         \A q \in Pro \ {s} : down'[q] = down[q],
         s \in sampled' => prev'[s] = seen'[s],
         s \in Pro => down'[s] \subseteq prev'[s]
  PROVE  IInv'
<1>1. PrevIsSeen'
  BY DEF PrevIsSeen, IInv, TypeOK
<1>2. \A q \in Pro : down'[q] \subseteq prev'[q]
  BY DEF IInv, Slots
<1> QED
  BY <1>1, <1>2 DEF IInv

LEMMA VpadInvariant ==
  ASSUME IInv, VPADRead
  PROVE  IInv'
<1> USE DEF remote, menu, life, host, game
<1>0. TypeOK /\ GamePad \in Slots /\ GamePad \notin Pro
  BY ProAssumption DEF IInv, Slots, GamePad
<1>1. CASE VpadPass
  <2>1. PICK hold \in Holds :
          \/ /\ prev' = [prev EXCEPT ![GamePad] = hold]
             /\ seen' = [seen EXCEPT ![GamePad] = hold]
             /\ sampled' = sampled \cup {GamePad}
          \/ UNCHANGED <<prev, seen, sampled>>
    BY <1>1 DEF VpadPass, Tracked
  <2>2. TypeOK'
    BY <1>0, <1>1, <2>1 DEF VPADRead, VpadPass, TypeOK
  <2>3. injected' \subseteq sampled' /\ UNCHANGED <<age, owned, down>>
    BY <1>1, <2>1 DEF IInv, VPADRead, VpadPass
  <2>4. GamePad \in sampled' => prev'[GamePad] = seen'[GamePad]
    BY <1>0, <2>1 DEF IInv, PrevIsSeen, TypeOK
  <2>5. \A q \in Slots \ {GamePad} : prev'[q] = prev[q] /\ seen'[q] = seen[q]
    BY <1>0, <2>1 DEF TypeOK
  <2> QED
    BY <1>0, <2>1, <2>2, <2>3, <2>4, <2>5, ReadStep
<1>2. CASE VpadMerge
  <2>1. PICK hold \in Holds :
          /\ prev' = [prev EXCEPT ![GamePad] = hold]
          /\ seen' = [seen EXCEPT ![GamePad] = hold]
    <3>1. PICK real \in Holds :
            /\ prev' = [prev EXCEPT ![GamePad] = real \cup state[GamePad]]
            /\ seen' = [seen EXCEPT ![GamePad] = real \cup state[GamePad]]
      BY <1>2 DEF VpadMerge
    <3>2. real \cup state[GamePad] \in Holds
      BY <1>0 DEF TypeOK, Holds
    <3> QED
      BY <3>1, <3>2
  <2>2. TypeOK'
    BY <1>0, <1>2, <2>1 DEF VPADRead, VpadMerge, TypeOK
  <2>3. /\ injected' \subseteq sampled' /\ UNCHANGED <<age, owned, down>>
        /\ sampled' = sampled \cup {GamePad}
    BY <1>2 DEF IInv, VPADRead, VpadMerge
  <2>4. prev'[GamePad] = seen'[GamePad]
    BY <1>0, <2>1 DEF TypeOK
  <2>5. \A q \in Slots \ {GamePad} : prev'[q] = prev[q] /\ seen'[q] = seen[q]
    BY <1>0, <2>1 DEF TypeOK
  <2> QED
    BY <1>0, <2>2, <2>3, <2>4, <2>5, ReadStep
<1> QED
  BY <1>1, <1>2 DEF VPADRead

LEMMA KpadInvariant ==
  ASSUME IInv, NEW s \in Pro, KPADRead(s)
  PROVE  IInv'
<1> USE DEF remote, menu, life, host, game
<1>0. TypeOK /\ s \in Slots
  BY DEF IInv, Slots
<1>1. CASE ProFill(s)
  <2>1. /\ prev' = [prev EXCEPT ![s] = state[s]]
        /\ seen' = [seen EXCEPT ![s] = state[s]]
        /\ down' = [down EXCEPT ![s] =
                      (down[s] \cup (state[s] \ prev[s])) \ (prev[s] \ state[s])]
        /\ sampled' = sampled \cup {s} /\ injected' = injected \cup {s}
    BY <1>0, <1>1 DEF ProFill, PrevPro, TypeOK
  <2>2. state[s] \in Holds /\ prev[s] \in Holds /\ down[s] \in Holds
    BY <1>0 DEF TypeOK
  <2>3. (down[s] \cup (state[s] \ prev[s])) \ (prev[s] \ state[s]) \in Holds
    BY <2>2 DEF Holds
  <2>4. TypeOK'
    BY <1>0, <2>1, <2>2, <2>3 DEF KPADRead, TypeOK
  <2>5. injected' \subseteq sampled' /\ UNCHANGED <<age, owned>>
    BY <2>1 DEF IInv, KPADRead
  <2>6. prev'[s] = state[s] /\ seen'[s] = state[s]
    BY <1>0, <2>1 DEF TypeOK
  <2>7. down'[s] \subseteq prev'[s]
    <3>1. down'[s] =
            (down[s] \cup (state[s] \ prev[s])) \ (prev[s] \ state[s])
      BY <1>0, <2>1 DEF TypeOK
    <3>2. down[s] \subseteq prev[s]
      BY DEF IInv
    <3> QED
      BY <2>6, <3>1, <3>2
  <2>8. \A q \in Slots \ {s} : prev'[q] = prev[q] /\ seen'[q] = seen[q]
    BY <1>0, <2>1 DEF TypeOK
  <2>9. \A q \in Pro \ {s} : down'[q] = down[q]
    BY <1>0, <2>1 DEF TypeOK
  <2> QED
    BY <1>0, <2>1, <2>4, <2>5, <2>6, <2>7, <2>8, <2>9, ReadStep
<1>2. CASE injected' = injected \ {s} /\ UNCHANGED <<prev, seen, down, sampled>>
  <2>1. TypeOK'
    BY <1>0, <1>2 DEF KPADRead, TypeOK
  <2>2. injected' \subseteq sampled' /\ UNCHANGED <<age, owned>>
    BY <1>2 DEF IInv, KPADRead
  <2> QED
    BY <1>2, <2>1, <2>2 DEF IInv, PrevIsSeen
<1> QED
  BY <1>1, <1>2 DEF KPADRead

LEMMA ProbeInvariant ==
  ASSUME IInv, NEW s \in Pro, WPADProbe(s)
  PROVE  IInv'
<1> USE DEF remote, menu, life, host, game
<1>1. TypeOK'
  BY DEF WPADProbe, TypeOK, IInv
<1> QED
  BY <1>1 DEF IInv, PrevIsSeen, WPADProbe

LEMMA TickInvariant ==
  ASSUME IInv, Tick
  PROVE  IInv'
<1> USE DEF menu, life, game
<1>0. TypeOK /\ \A s \in Slots \ owned : age[s] = Unset
  BY DEF IInv
<1>1. \A s \in Slots :
        /\ Least(age[s] + 1, Unset) \in 0 .. Unset
        /\ age[s] = Unset => Least(age[s] + 1, Unset) = Unset
  BY <1>0, TimeAssumption DEF TypeOK, Least, Unset
<1>2. age' \in [Slots -> 0 .. Unset]
  BY <1>1 DEF Tick
<1>3. hostAge' \in 0 .. Unheard
  BY <1>0, TimeAssumption DEF Tick, TypeOK, Least, Unheard, Silent
<1>4. TypeOK'
  BY <1>0, <1>2, <1>3 DEF Tick, TypeOK
<1>5. \A s \in Slots \ owned' : age'[s] = Unset
  BY <1>0, <1>1 DEF Tick
<1> QED
  BY <1>4, <1>5, NetworkStep DEF Tick

LEMMA NextInvariant ==
  ASSUME IInv, [Next]_vars
  PROVE  IInv'
<1>1. CASE UNCHANGED vars
  BY <1>1 DEF IInv, TypeOK, PrevIsSeen, vars, remote, menu, life, host, game
<1> QED
  BY <1>1, NetInvariant, LifeInvariant, VpadInvariant, KpadInvariant,
     ProbeInvariant, TickInvariant DEF Next

-----------------------------------------------------------------------------
(* The invariant holds for every number of slots, every set of buttons and all
   timeouts. *)
THEOREM Invariant == Spec => []IInv
<1>1. IInv /\ [Next]_vars => IInv'
  BY NextInvariant
<1> QED
  BY InitInvariant, <1>1, PTL DEF Spec

(* Type correctness, the threads being there only while an application is. *)
THEOREM TypeCorrect == Spec => []TypeOK
<1>1. IInv => TypeOK
  BY DEF IInv
<1> QED
  BY Invariant, <1>1, PTL

(* The edges are taken against what the game saw last. *)
THEOREM EdgesFollow == Spec => []PrevIsSeen
<1>1. IInv => PrevIsSeen
  BY DEF IInv
<1> QED
  BY Invariant, <1>1, PTL

(* No button of a Pro Controller is left down by the edges. *)
THEOREM NothingSticks == Spec => []NoStuckButton
<1>1. IInv => NoStuckButton
  BY DEF IInv, NoStuckButton, PrevIsSeen
<1> QED
  BY Invariant, <1>1, PTL

(* A step changes what is injected or present only for slots that were updated
   since the last BYE or application. *)
LEMMA StepOwned ==
  ASSUME IInv, [Next]_vars
  PROVE  OnlyOwned
<1> USE DEF remote, menu, life, host, game
<1>1. ASSUME NEW s \in Slots, NEW lag \in 0 .. Lag, Active(s, lag)
      PROVE  s \in owned
  BY <1>1, UnsetActive DEF IInv
<1>2. CASE VPADRead
  <2>1. CASE VpadPass
    BY <2>1 DEF VpadPass, OnlyOwned
  <2>2. CASE \E lag \in 0 .. Lag : Active(GamePad, lag) /\ VpadMerge
    <3>1. GamePad \in owned
      BY <1>1, <2>2 DEF Slots
    <3> QED
      BY <2>2, <3>1 DEF VpadMerge, OnlyOwned
  <2> QED
    BY <1>2, <2>1, <2>2 DEF VPADRead
<1>3. ASSUME NEW s \in Pro, KPADRead(s) PROVE OnlyOwned
  <2>1. CASE injected' = injected \ {s}
    BY <1>3, <2>1 DEF KPADRead, OnlyOwned
  <2>2. CASE \E lag \in 0 .. Lag : Active(s, lag) /\ ProFill(s)
    <3>1. s \in owned
      BY <1>1, <2>2 DEF Slots
    <3> QED
      BY <1>3, <2>2, <3>1 DEF KPADRead, ProFill, OnlyOwned
  <2> QED
    BY <1>3, <2>1, <2>2 DEF KPADRead
<1>4. ASSUME NEW s \in Pro, WPADProbe(s) PROVE OnlyOwned
  <2>1. CASE present' = present \ {s}
    BY <1>4, <2>1 DEF WPADProbe, OnlyOwned
  <2>2. CASE \E lag \in 0 .. Lag :
               Active(s, lag) /\ present' = present \cup {s}
    <3>1. s \in owned
      BY <1>1, <2>2 DEF Slots
    <3> QED
      BY <1>4, <2>2, <3>1 DEF WPADProbe, OnlyOwned
  <2> QED
    BY <1>4, <2>1, <2>2 DEF WPADProbe
<1>5. CASE AppStart
  BY <1>5 DEF AppStart, OnlyOwned
<1>6. CASE UNCHANGED <<injected, present>>
  BY <1>6 DEF OnlyOwned
<1> QED
  BY <1>2, <1>3, <1>4, <1>5, <1>6
  DEF Next, vars, NetPass, NetHello, NetPing, NetBye, NetExit, NetBundle,
      AppEnds, AppEnded, masterChanged, slotChanged, Tick

(* Nothing is injected of a session or an application that is over. *)
THEOREM NothingOfThePast == Spec => NothingAfterBye
<1>1. IInv /\ [Next]_vars => [OnlyOwned]_vars
  BY StepOwned
<1> QED
  BY Invariant, <1>1, PTL DEF Spec, NothingAfterBye

-----------------------------------------------------------------------------
(* A bundle with a state for slot s arrives. *)
Refreshed(s) == \E bundle \in Bundles : s \in DOMAIN bundle /\ NetBundle(bundle)

(* A slot without updates ages until it is forgotten, whatever else happens;
   one that is forgotten does not come back, and vanishes with the next read
   and the next probe of the game. *)
SilenceStep ==
  \A s \in Slots :
    /\ Tick => age'[s] = age[s] + 1 \/ age'[s] = Unset
    /\ age'[s] >= age[s] \/ Refreshed(s)
    /\ age[s] = Unset => s \notin (injected' \ injected) \cup (present' \ present)
    /\ age[s] = Unset /\ s = GamePad /\ VPADRead => s \notin injected'
    /\ age[s] = Unset /\ s \in Pro /\ KPADRead(s) => s \notin injected'
    /\ age[s] = Unset /\ s \in Pro /\ WPADProbe(s) => s \notin present'

(* What a read or a probe of the game does to a slot that is forgotten. *)
LEMMA ForgottenReads ==
  ASSUME NEW s \in Slots, age[s] = Unset
  PROVE  /\ s = GamePad /\ VPADRead =>
              s \notin injected' /\ UNCHANGED present
         /\ s \in Pro /\ KPADRead(s) =>
              s \notin injected' /\ UNCHANGED present
         /\ s \in Pro /\ WPADProbe(s) =>
              s \notin present' /\ UNCHANGED injected
<1>1. \A lag \in 0 .. Lag : ~Active(s, lag)
  BY UnsetActive
<1>2. ASSUME s = GamePad, VPADRead PROVE s \notin injected' /\ UNCHANGED present
  <2>1. VpadPass
    BY <1>1, <1>2 DEF VPADRead
  <2> QED
    BY <1>2, <2>1 DEF VpadPass
<1>3. ASSUME s \in Pro, KPADRead(s) PROVE s \notin injected' /\ UNCHANGED present
  BY <1>1, <1>3 DEF KPADRead
<1>4. ASSUME s \in Pro, WPADProbe(s) PROVE s \notin present' /\ UNCHANGED injected
  BY <1>1, <1>4 DEF WPADProbe
<1> QED
  BY <1>2, <1>3, <1>4

(* The safety that SilenceNeutral rests on: a slot whose updates cease is
   neutral, and its controller absent, WSU_INPUT_TIMEOUT_MS later, at the next
   read (RemoteInput::get and the hooks of injection.cpp). *)
THEOREM SilenceIsNear == Spec => [][SilenceStep]_vars
<1>1. ASSUME IInv, [Next]_vars PROVE SilenceStep
  <2> SUFFICES ASSUME NEW s \in Slots
               PROVE  /\ Tick => age'[s] = age[s] + 1 \/ age'[s] = Unset
                      /\ age'[s] >= age[s] \/ Refreshed(s)
                      /\ age[s] = Unset =>
                           s \notin (injected' \ injected) \cup (present' \ present)
    BY ForgottenReads DEF SilenceStep
  <2> USE <1>1, TimeAssumption DEF remote, menu, life, host, game
  <2>1. age[s] \in 0 .. Unset /\ Unset \in Nat
    BY DEF IInv, TypeOK, Unset
  <2>2. Tick => age'[s] = age[s] + 1 \/ age'[s] = Unset
    BY DEF Tick, Least
  <2>3. age'[s] >= age[s] \/ Refreshed(s)
    <3>1. CASE Tick
      BY <2>1, <2>2, <3>1
    <3>2. CASE age' = age
      BY <2>1, <3>2
    <3>3. CASE DeactivateAll
      BY <2>1, <3>3 DEF DeactivateAll, Deactivated
    <3>4. ASSUME NEW bundle \in Bundles, NetBundle(bundle)
          PROVE  age'[s] >= age[s] \/ Refreshed(s)
      <4>1. CASE s \in DOMAIN bundle
        BY <3>4, <4>1 DEF Refreshed
      <4>2. CASE s \notin DOMAIN bundle
        <5>1. age'[s] = age[s]
          BY <3>4, <4>2 DEF NetBundle, Update
        <5> QED
          BY <2>1, <5>1
      <4> QED
        BY <4>1, <4>2
    <3> QED
      BY <3>1, <3>2, <3>3, <3>4
      DEF Next, vars, NetPass, NetHello, NetPing, NetBye, NetExit, AppStart,
          AppEnds, AppEnded, masterChanged, slotChanged, VPADRead, KPADRead,
          WPADProbe
  <2>4. ASSUME age[s] = Unset
        PROVE  s \notin (injected' \ injected) \cup (present' \ present)
    <3>1. CASE UNCHANGED <<injected, present>>
      BY <3>1
    <3>2. CASE AppStart
      BY <3>2 DEF AppStart
    <3>3. CASE VPADRead
      <4>1. injected' \ injected \subseteq {GamePad} /\ present' = present
        BY <3>3 DEF VPADRead, VpadPass, VpadMerge
      <4> QED
        BY <2>4, <3>3, <4>1, ForgottenReads
    <3>4. ASSUME NEW p \in Pro, KPADRead(p)
          PROVE  s \notin (injected' \ injected) \cup (present' \ present)
      <4>1. injected' \ injected \subseteq {p} /\ present' = present
        BY <3>4 DEF KPADRead, ProFill
      <4> QED
        BY <2>4, <3>4, <4>1, ForgottenReads
    <3>5. ASSUME NEW p \in Pro, WPADProbe(p)
          PROVE  s \notin (injected' \ injected) \cup (present' \ present)
      <4>1. present' \ present \subseteq {p} /\ injected' = injected
        BY <3>5 DEF WPADProbe
      <4> QED
        BY <2>4, <3>5, <4>1, ForgottenReads
    <3> QED
      BY <3>1, <3>2, <3>3, <3>4, <3>5
      DEF Next, vars, NetPass, NetHello, NetPing, NetBye, NetExit, NetBundle,
          AppEnds, AppEnded, masterChanged, slotChanged, Tick
  <2> QED
    BY <2>2, <2>3, <2>4
<1> QED
  BY <1>1, Invariant, PTL DEF Spec
=============================================================================
