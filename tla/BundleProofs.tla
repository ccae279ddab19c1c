---------------------------- MODULE BundleProofs ----------------------------
(***************************************************************************)
(* Proofs about the hub, HostInput, and about the wire format its bundles  *)
(* and every other message are sent in, WireProtocol: for every set of     *)
(* slots, clock, timeout and lag; and for every base, length of names,     *)
(* number of players and size of slices, for every message that can be     *)
(* said, and for every datagram that can arrive.                           *)
(*                                                                         *)
(* The hub knows ages as unsigned differences of a clock that wraps; the   *)
(* invariant relates them to the ages there are.  The wire format is a     *)
(* matter of the tables of offsets: where these give each byte to one      *)
(* field (Proper), what is read is what was written.                       *)
(***************************************************************************)
EXTENDS HostInput, WireProtocol, FiniteSetTheorems, TLAPS

(* How long ago the clock showed `then'. *)
Elapsed(then) == ageMs(clock, then)

(* A timestamp is as old as its state, or older by what the thread that stored
   it was late. *)
StampInv ==
  \A s \in Slots :
    updatedAt[s] # 0 =>
      /\ age[s] # Never
      /\ age[s] <= Elapsed(updatedAt[s])
      /\ Elapsed(updatedAt[s]) <= age[s] + Lag(s)

(* So are the times that the two threads have in hand. *)
NowInv ==
  /\ hostAt \in {"pump", "pack"} => Elapsed(hostNow) = hostLag
  /\ sessionAt # 0 => Elapsed(sessionNow) = sessionLag

(* What the main loop stored itself is not newer than the time it has in hand. *)
LocalInv ==
  hostAt \in {"pump", "pack"} /\ updatedAt[0] # 0 =>
    hostLag <= Elapsed(updatedAt[0])

(* No age reaches the bound while time passes: the local player's is looked at
   once in each turn of the main loop. *)
AgeInv ==
  age[0] # Never =>
    /\ hostAt \in {"pack", "sent"} => age[0] + HostLag + 1 <= Idle
    /\ hostAt = "asleep" => age[0] + HostLag <= Idle
    /\ hostAt = "pump" => age[0] + HostLag <= Idle + hostLag

IInv == TypeOK /\ StampInv /\ NowInv /\ LocalInv /\ AgeInv

-----------------------------------------------------------------------------
(* The clock, and differences of what it shows. *)
LEMMA Clock ==
  /\ \A c, t \in Times :
       /\ ageMs(c, t) \in Times /\ ageMs(c, c) = 0
       /\ ageMs(c, t) = IF t <= c THEN c - t ELSE c - t + ClockSpace
  /\ \A c, t \in Times :
       /\ (c + 1) % ClockSpace \in Times
       /\ ageMs(c, t) + 1 < ClockSpace =>
            ageMs((c + 1) % ClockSpace, t) = ageMs(c, t) + 1
<1>1. ClockSpace \in Nat \ {0}
  BY TimeAssumption
<1>2. ASSUME NEW c \in Times, NEW t \in Times
      PROVE  /\ ageMs(c, t) \in Times
             /\ ageMs(c, t) = IF t <= c THEN c - t ELSE c - t + ClockSpace
  <2>1. CASE t <= c
    <3>1. (c - t) % ClockSpace = c - t
      BY <1>1, <2>1 DEF Times
    <3> QED
      BY <1>1, <2>1, <3>1 DEF Times, ageMs
  <2>2. CASE t > c
    <3>1. (c - t) % ClockSpace = c - t + ClockSpace
      BY <1>1, <2>2 DEF Times
    <3> QED
      BY <1>1, <2>2, <3>1 DEF Times, ageMs
  <2> QED
    BY <1>1, <2>1, <2>2 DEF Times
<1>3. ASSUME NEW c \in Times, NEW t \in Times
      PROVE  /\ (c + 1) % ClockSpace \in Times
             /\ ageMs(c, t) + 1 < ClockSpace =>
                  ageMs((c + 1) % ClockSpace, t) = ageMs(c, t) + 1
  <2> DEFINE d == (c + 1) % ClockSpace
  <2>1. d = IF c + 1 = ClockSpace THEN 0 ELSE c + 1
    BY <1>1 DEF Times
  <2>2. d \in Times
    BY <1>1, <2>1 DEF Times
  <2> HIDE DEF d
  <2>3. /\ ageMs(c, t) = IF t <= c THEN c - t ELSE c - t + ClockSpace
        /\ ageMs(d, t) = IF t <= d THEN d - t ELSE d - t + ClockSpace
    BY <1>2, <2>2
  <2>4. ageMs(c, t) + 1 < ClockSpace => ageMs(d, t) = ageMs(c, t) + 1
    BY <1>1, <2>1, <2>3 DEF Times
  <2> QED
    BY <2>2, <2>4 DEF d
<1>4. \A c \in Times : ageMs(c, c) = 0
  BY <1>1, <1>2 DEF Times
<1> QED
  BY <1>2, <1>3, <1>4

(* The numbers. *)
LEMMA Numbers ==
  /\ InputTimeout \in Nat \ {0} /\ HostLag \in Nat /\ SessionLag \in Nat
  /\ Idle \in Nat /\ Idle > HostLag + 1 /\ Never = Idle + 1
  /\ ClockSpace \in Nat
  /\ ClockSpace > Idle + InputTimeout + HostLag + SessionLag
  /\ 0 \in Times /\ 0 \in Slots /\ 0 \notin Remote
  /\ Slots = Remote \cup {0}
  /\ \A t \in Times : t \in Nat
  /\ \A s \in Slots : Lag(s) \in Nat /\ Lag(s) <= HostLag + SessionLag
  BY TimeAssumption, RemoteAssumption DEF Never, Times, Slots, Lag

(* The initial state satisfies the inductive invariant. *)
LEMMA InitInv == Init => IInv
  BY Numbers DEF Init, IInv, TypeOK, StampInv, NowInv, LocalInv, AgeInv

(* A state is stored, with a time of its thread that is late by Lag at most. *)
LEMMA SetKeeps ==
  ASSUME IInv, NEW s \in Slots, NEW now \in Times, Set(s, now),
         Elapsed(now) <= Lag(s), UNCHANGED clock
  PROVE  /\ updatedAt' \in [Slots -> Times] /\ age' \in [Slots -> 0 .. Never]
         /\ age'[s] = 0 /\ \A r \in Slots \ {s} : age'[r] = age[r]
         /\ StampInv'
<1>1. /\ updatedAt' = [updatedAt EXCEPT ![s] = now]
      /\ age' = [age EXCEPT ![s] = 0]
  BY DEF Set
<1>2. /\ updatedAt \in [Slots -> Times] /\ age \in [Slots -> 0 .. Never]
      /\ clock \in Times
  BY DEF IInv, TypeOK
<1>3. /\ updatedAt' \in [Slots -> Times] /\ age' \in [Slots -> 0 .. Never]
      /\ age'[s] = 0 /\ \A r \in Slots \ {s} : age'[r] = age[r]
  BY <1>1, <1>2, Numbers
<1>4. ASSUME NEW r \in Slots, updatedAt'[r] # 0
      PROVE  /\ age'[r] # Never
             /\ age'[r] <= Elapsed(updatedAt'[r])
             /\ Elapsed(updatedAt'[r]) <= age'[r] + Lag(r)
  <2>1. CASE r = s
    <3>1. updatedAt'[r] = now /\ age'[r] = 0
      BY <1>1, <1>2, <2>1
    <3>2. Elapsed(now) \in Nat
      BY <1>2, Clock, Numbers DEF Elapsed
    <3> QED
      BY <2>1, <3>1, <3>2, Numbers
  <2>2. CASE r # s
    <3>1. updatedAt'[r] = updatedAt[r] /\ age'[r] = age[r]
      BY <1>1, <1>2, <2>2
    <3> QED
      BY <1>4, <3>1 DEF IInv, StampInv
  <2> QED
    BY <2>1, <2>2
<1>5. StampInv'
  BY <1>4 DEF StampInv, Elapsed
<1> QED
  BY <1>3, <1>5

(* The steps of the two threads. *)
LEMMA ThreadsKeep ==
  ASSUME IInv,
         \/ HostPump \/ HostPoll \/ HostPack
         \/ \E s \in Remote : SessionReceive(s) \/ SessionDrop(s)
         \/ SessionStore \/ UNCHANGED vars
  PROVE  IInv'
<1> USE Numbers DEF vars, host, session
<1>1. CASE HostPump
  BY <1>1, Clock DEF HostPump, IInv, TypeOK, StampInv, NowInv, LocalInv, AgeInv, Elapsed
<1>2. CASE HostPoll
  <2>1. /\ hostAt = "pump" /\ hostAt' = "pack"
        /\ UNCHANGED <<clock, hostNow, hostLag, bundle, session>>
    BY <1>2 DEF HostPoll
  <2>2. NowInv'
    BY <2>1 DEF IInv, NowInv, Elapsed
  <2>3. CASE Set(0, hostNow)
    <3>1. hostNow \in Times /\ Elapsed(hostNow) <= Lag(0)
      BY <2>1 DEF IInv, TypeOK, NowInv, Lag
    <3>2. /\ updatedAt' \in [Slots -> Times] /\ age' \in [Slots -> 0 .. Never]
          /\ age'[0] = 0 /\ StampInv'
      BY <2>1, <2>3, <3>1, SetKeeps
    <3>3. TypeOK' /\ AgeInv'
      BY <2>1, <3>2 DEF IInv, TypeOK, AgeInv
    <3>4. LocalInv'
      <4>1. updatedAt'[0] = hostNow
        BY <2>3 DEF Set, IInv, TypeOK
      <4>2. Elapsed(hostNow) = hostLag /\ hostLag \in Nat
        BY <2>1 DEF IInv, TypeOK, NowInv
      <4> QED
        BY <2>1, <4>1, <4>2 DEF LocalInv, Elapsed
    <3> QED
      BY <2>2, <3>2, <3>3, <3>4 DEF IInv
  <2>4. CASE Recent(0) /\ UNCHANGED <<updatedAt, age>>
    <3>1. TypeOK' /\ StampInv' /\ LocalInv'
      BY <2>1, <2>4 DEF IInv, TypeOK, StampInv, LocalInv, Elapsed
    <3>2. AgeInv'
      BY <2>1, <2>4 DEF IInv, TypeOK, AgeInv, Recent
    <3> QED
      BY <2>2, <3>1, <3>2 DEF IInv
  <2> QED
    BY <1>2, <2>3, <2>4 DEF HostPoll
<1>3. CASE HostPack
  BY <1>3 DEF HostPack, IInv, TypeOK, StampInv, NowInv, LocalInv, AgeInv, Elapsed
<1>4. ASSUME NEW s \in Remote, SessionReceive(s) PROVE IInv'
  BY <1>4, Clock DEF SessionReceive, IInv, TypeOK, StampInv, NowInv, LocalInv, AgeInv,
     Elapsed
<1>5. ASSUME NEW s \in Remote, SessionDrop(s) PROVE IInv'
  BY <1>5 DEF SessionDrop, IInv, TypeOK, StampInv, NowInv, LocalInv, AgeInv, Elapsed
<1>6. CASE SessionStore
  <2>1. /\ sessionAt \in Remote /\ Set(sessionAt, sessionNow) /\ sessionAt' = 0
        /\ UNCHANGED <<clock, host, sessionNow, sessionLag>>
    BY <1>6 DEF SessionStore, IInv, TypeOK
  <2>2. sessionNow \in Times /\ Elapsed(sessionNow) <= Lag(sessionAt)
    BY <2>1 DEF IInv, TypeOK, NowInv, Lag
  <2>3. /\ updatedAt' \in [Slots -> Times] /\ age' \in [Slots -> 0 .. Never]
        /\ age'[0] = age[0] /\ StampInv'
    BY <2>1, <2>2, SetKeeps
  <2>4. updatedAt'[0] = updatedAt[0]
    BY <2>1 DEF Set, IInv, TypeOK
  <2>5. TypeOK' /\ NowInv' /\ AgeInv' /\ LocalInv'
    BY <2>1, <2>3, <2>4 DEF IInv, TypeOK, NowInv, AgeInv, LocalInv, Elapsed
  <2> QED
    BY <2>3, <2>5 DEF IInv
<1>7. CASE UNCHANGED vars
  BY <1>7 DEF IInv, TypeOK, StampInv, NowInv, LocalInv, AgeInv, Elapsed
<1> QED
  BY <1>1, <1>2, <1>3, <1>4, <1>5, <1>6, <1>7

(* Time passes for everything alike, across the wrap of the clock. *)
LEMMA TickKeeps == ASSUME IInv, Tick PROVE IInv'
<1> USE Numbers
<1>1. /\ hostAt \in {"sent", "pump"}
      /\ hostAt = "pump" => hostLag < HostLag
      /\ sessionAt # 0 => sessionLag < SessionLag
      /\ \A s \in Remote : Recent(s)
      /\ clock' = (clock + 1) % ClockSpace
      /\ age' = [s \in Slots |-> IF age[s] = Never THEN Never ELSE age[s] + 1]
      /\ hostAt' = IF hostAt = "sent" THEN "asleep" ELSE hostAt
      /\ hostLag' = IF hostAt = "pump" THEN hostLag + 1 ELSE 0
      /\ sessionLag' = IF sessionAt # 0 THEN sessionLag + 1 ELSE 0
      /\ UNCHANGED <<updatedAt, hostNow, bundle, sessionAt, sessionNow>>
  BY DEF Tick, nowMs
<1>2. /\ clock \in Times /\ updatedAt \in [Slots -> Times]
      /\ age \in [Slots -> 0 .. Never]
      /\ hostNow \in Times /\ sessionNow \in Times
      /\ hostLag \in 0 .. HostLag /\ sessionLag \in 0 .. SessionLag
  BY DEF IInv, TypeOK
<1>3. \A t \in Times : Elapsed(t) \in Nat
  BY <1>2, Clock DEF Elapsed
<1>4. \A t \in Times : Elapsed(t) + 1 < ClockSpace =>
        ageMs(clock', t) = Elapsed(t) + 1
  BY <1>1, <1>2, Clock DEF Elapsed
<1>5. \A s \in Slots : age[s] # Never => age[s] + 1 <= Idle
  <2>1. age[0] # Never => age[0] + 1 <= Idle
    BY <1>1, <1>2 DEF IInv, AgeInv
  <2>2. \A s \in Remote : age[s] # Never => age[s] + 1 <= Idle
    BY <1>1, <1>2 DEF Recent
  <2> QED
    BY <2>1, <2>2
<1>6. /\ StampInv'
      /\ updatedAt[0] # 0 =>
           /\ ageMs(clock', updatedAt[0]) = Elapsed(updatedAt[0]) + 1
           /\ Elapsed(updatedAt[0]) \in Nat
  <2> SUFFICES ASSUME NEW s \in Slots, updatedAt[s] # 0
               PROVE  /\ age'[s] # Never
                      /\ age'[s] <= ageMs(clock', updatedAt[s])
                      /\ ageMs(clock', updatedAt[s]) <= age'[s] + Lag(s)
                      /\ ageMs(clock', updatedAt[s]) = Elapsed(updatedAt[s]) + 1
                      /\ Elapsed(updatedAt[s]) \in Nat
    BY <1>1 DEF StampInv, Elapsed, Lag
  <2> DEFINE e == Elapsed(updatedAt[s])
  <2>1. /\ age[s] # Never /\ age[s] <= e /\ e <= age[s] + Lag(s)
        /\ e \in Nat /\ age[s] \in Nat
    BY <1>2, <1>3 DEF IInv, StampInv
  <2>2. age'[s] = age[s] + 1 /\ age[s] + 1 <= Idle
    BY <1>1, <1>5, <2>1
  <2>3. ageMs(clock', updatedAt[s]) = e + 1
    <3>1. e + 1 < ClockSpace
      BY <2>1, <2>2
    <3> QED
      BY <1>2, <1>4, <3>1
  <2> HIDE DEF e
  <2>4. age'[s] # Never /\ age'[s] <= e + 1 /\ e + 1 <= age'[s] + Lag(s)
    BY <2>1, <2>2
  <2> QED
    BY <2>1, <2>3, <2>4 DEF e
<1>7. NowInv'
  <2>1. hostAt = "pump" => ageMs(clock', hostNow) = hostLag + 1
    BY <1>1, <1>2, <1>4 DEF IInv, NowInv
  <2>2. sessionAt # 0 => ageMs(clock', sessionNow) = sessionLag + 1
    BY <1>1, <1>2, <1>4 DEF IInv, NowInv
  <2> QED
    BY <1>1, <2>1, <2>2 DEF NowInv, Elapsed
<1>8. AgeInv'
  BY <1>1, <1>2 DEF IInv, AgeInv
<1>9. TypeOK'
  <2>1. clock' \in Times
    BY <1>1, <1>2, Clock
  <2>2. age' \in [Slots -> 0 .. Never]
    BY <1>1, <1>2, <1>5
  <2>3. hostLag' \in 0 .. HostLag /\ sessionLag' \in 0 .. SessionLag
    BY <1>1, <1>2
  <2> QED
    BY <1>1, <2>1, <2>2, <2>3 DEF IInv, TypeOK
<1>10. LocalInv'
  <2> SUFFICES ASSUME hostAt' \in {"pump", "pack"}, updatedAt'[0] # 0
               PROVE  hostLag' <= ageMs(clock', updatedAt'[0])
    BY DEF LocalInv, Elapsed
  <2>1. hostAt = "pump" /\ hostLag' = hostLag + 1 /\ updatedAt' = updatedAt
    BY <1>1
  <2>2. hostLag <= Elapsed(updatedAt[0])
    BY <2>1 DEF IInv, LocalInv
  <2>3. /\ ageMs(clock', updatedAt[0]) = Elapsed(updatedAt[0]) + 1
        /\ Elapsed(updatedAt[0]) \in Nat
    BY <1>6, <2>1
  <2> QED
    BY <1>2, <2>1, <2>2, <2>3
<1> QED
  BY <1>6, <1>7, <1>8, <1>9, <1>10 DEF IInv

(* The inductive invariant holds in every state. *)
THEOREM Invariant == Spec => []IInv
<1>1. IInv /\ [Next]_vars => IInv'
  BY ThreadsKeep, TickKeeps DEF Next
<1> QED
  BY <1>1, InitInv, PTL DEF Spec

(* Every variable keeps its type. *)
THEOREM TypeCorrect == Spec => []TypeOK
<1>1. IInv => TypeOK
  BY DEF IInv
<1> QED
  BY <1>1, Invariant, PTL

(* The age that the hub computes for the main loop: less than the age of the
   timestamp by what the loop was late, and, of a timestamp that is newer than
   the loop's time, beyond any timeout. *)
LEMMA AgeSeen ==
  ASSUME IInv, hostAt = "pack", NEW s \in Slots, updatedAt[s] # 0
  PROVE  LET e == Elapsed(updatedAt[s])
         IN  /\ e \in Nat /\ hostLag \in 0 .. HostLag /\ age[s] \in Nat
             /\ age[s] <= e /\ e <= age[s] + Lag(s)
             /\ ageMs(hostNow, updatedAt[s])
                  = IF hostLag <= e THEN e - hostLag
                                    ELSE e - hostLag + ClockSpace
<1> USE Numbers
<1> DEFINE u == updatedAt[s]
           e == Elapsed(u)
<1>1. /\ clock \in Times /\ u \in Times /\ hostNow \in Times
      /\ hostLag \in 0 .. HostLag /\ age[s] \in Nat
      /\ Elapsed(hostNow) = hostLag
  BY DEF IInv, TypeOK, NowInv
<1>2. age[s] <= e /\ e <= age[s] + Lag(s)
  BY DEF IInv, StampInv
<1> HIDE DEF u
<1>3. /\ e = IF u <= clock THEN clock - u ELSE clock - u + ClockSpace
      /\ hostLag = IF hostNow <= clock THEN clock - hostNow
                                       ELSE clock - hostNow + ClockSpace
      /\ ageMs(hostNow, u) = IF u <= hostNow THEN hostNow - u
                                             ELSE hostNow - u + ClockSpace
      /\ e \in Times
  BY <1>1, Clock DEF Elapsed
<1> HIDE DEF e
<1>4. ageMs(hostNow, u) = IF hostLag <= e THEN e - hostLag
                                          ELSE e - hostLag + ClockSpace
  BY <1>1, <1>3 DEF Times
<1> QED
  BY <1>1, <1>2, <1>3, <1>4 DEF u, e

(* A slot in a bundle has a state, and one younger than the timeout and what
   the main loop lost in pump, across the wrap of the clock (packBundle). *)
THEOREM Fresh == Spec => BundleFresh
<1>1. ASSUME IInv, [Next]_vars, hostAt = "pack", hostAt' = "sent",
             NEW s \in bundle'
      PROVE  age[s] < InputTimeout + HostLag
  <2>1. HostPack
    BY <1>1 DEF Next, HostPump, HostPoll, SessionReceive, SessionDrop,
       SessionStore, Tick, vars, host, session
  <2>2. s \in Slots /\ updatedAt[s] # 0
        /\ ageMs(hostNow, updatedAt[s]) < InputTimeout
    BY <1>1, <2>1 DEF HostPack, Active
  <2> DEFINE e == Elapsed(updatedAt[s])
  <2>3. /\ e \in Nat /\ hostLag \in 0 .. HostLag /\ age[s] \in Nat
        /\ age[s] <= e
        /\ ageMs(hostNow, updatedAt[s])
             = IF hostLag <= e THEN e - hostLag ELSE e - hostLag + ClockSpace
    BY <1>1, <2>2, AgeSeen
  <2> HIDE DEF e
  <2> QED
    BY <2>2, <2>3, Numbers
<1>2. IInv /\ [Next]_vars => [PackFresh]_vars
  BY <1>1 DEF PackFresh
<1> QED
  BY <1>2, Invariant, PTL DEF Spec, BundleFresh

(* However late the main loop may be, a bundle has every slot whose state was
   there when the loop took its time and was not too old then (packBundle). *)
THEOREM Timely == Spec => BundleTimely
<1>1. ASSUME IInv, [Next]_vars, hostAt = "pack", hostAt' = "sent",
             NEW s \in Slots, updatedAt[s] # 0,
             s # 0 => age[s] >= hostLag,
             age[s] + Lag(s) < InputTimeout + hostLag
      PROVE  s \in bundle'
  <2>1. HostPack
    BY <1>1 DEF Next, HostPump, HostPoll, SessionReceive, SessionDrop,
       SessionStore, Tick, vars, host, session
  <2> DEFINE e == Elapsed(updatedAt[s])
  <2>2. /\ e \in Nat /\ hostLag \in 0 .. HostLag /\ age[s] \in Nat
        /\ age[s] <= e /\ e <= age[s] + Lag(s)
        /\ ageMs(hostNow, updatedAt[s])
             = IF hostLag <= e THEN e - hostLag ELSE e - hostLag + ClockSpace
    BY <1>1, AgeSeen
  <2>3. hostLag <= e
    <3>1. s = 0 => hostLag <= e
      BY <1>1 DEF IInv, LocalInv
    <3> HIDE DEF e
    <3> QED
      BY <1>1, <2>2, <3>1, Numbers
  <2> HIDE DEF e
  <2>4. ageMs(hostNow, updatedAt[s]) < InputTimeout
    BY <1>1, <2>2, <2>3, Numbers
  <2> QED
    BY <1>1, <2>1, <2>4 DEF HostPack, Active
<1>2. IInv /\ [Next]_vars => [PackTimely]_vars
  BY <1>1 DEF PackTimely
<1> QED
  BY <1>2, Invariant, PTL DEF Spec, BundleTimely

-----------------------------------------------------------------------------
(* Numbers, and their bytes. *)

(* Division with remainder, and that there is one way to do it. *)
LEMMA Division ==
  ASSUME NEW v \in Int, NEW n \in Nat \ {0}
  PROVE  /\ v \div n \in Int /\ v % n \in 0 .. n - 1
         /\ v = n * (v \div n) + (v % n)
<1>. QED
  BY SMT

LEMMA OneDivision ==
  ASSUME NEW n \in Nat \ {0}, NEW q \in Int, NEW r \in 0 .. n - 1
  PROVE  (n * q + r) \div n = q /\ (n * q + r) % n = r
<1>. DEFINE v == n * q + r
            p == v \div n
            s == v % n
<1>1. v \in Int
  BY SMT
<1>2. p \in Int /\ s \in 0 .. n - 1 /\ v = n * p + s
  BY <1>1, Division
<1>. HIDE DEF p, s
<1>3. n * (p - q) = r - s
  BY <1>2, SMT
<1>4. ASSUME NEW a \in Int, a >= 1
      PROVE  n * a >= n
  BY <1>4, SMT
<1>5. ~(p - q >= 1)
  <2>1. SUFFICES ASSUME p - q >= 1 PROVE FALSE
    OBVIOUS
  <2>2. n * (p - q) >= n
    BY <2>1, <1>2, <1>4
  <2>. QED
    BY <2>2, <1>3, <1>2, SMT
<1>6. ~(q - p >= 1)
  <2>1. SUFFICES ASSUME q - p >= 1 PROVE FALSE
    OBVIOUS
  <2>2. n * (q - p) >= n
    BY <2>1, <1>2, <1>4
  <2>3. n * (q - p) = s - r
    BY <1>3, <1>2, SMT
  <2>. QED
    BY <2>2, <2>3, <1>2, SMT
<1>7. p = q
  BY <1>5, <1>6, <1>2, SMT
<1>8. s = r
  BY <1>7, <1>2, SMT
<1>. QED
  BY <1>7, <1>8 DEF p, s

(* The digits of a number: a division in two steps is one by the product. *)
LEMMA TwoDivisions ==
  ASSUME NEW v \in Int, NEW m \in Nat \ {0}, NEW n \in Nat \ {0}
  PROVE  /\ v \div (m * n) = (v \div m) \div n
         /\ v % (m * n) = ((v \div m) % n) * m + (v % m)
<1>. DEFINE a == v \div m
            b == v % m
            c == a \div n
            e == a % n
            r == e * m + b
<1>1. a \in Int /\ b \in 0 .. m - 1 /\ v = m * a + b
  BY Division
<1>2. c \in Int /\ e \in 0 .. n - 1 /\ a = n * c + e
  BY <1>1, Division
<1>. HIDE DEF a, b, c, e
<1>3. m * n \in Nat \ {0}
  BY SMT
<1>4. v = (m * n) * c + r
  <2>1. v = m * (n * c + e) + b
    BY <1>1, <1>2
  <2>. QED
    BY <2>1, <1>1, <1>2, SMT
<1>5. r \in 0 .. m * n - 1
  <2>1. e * m >= 0
    BY <1>2, SMT
  <2>2. (n - 1 - e) * m >= 0
    BY <1>2, SMT
  <2>3. (n - 1 - e) * m = m * n - m - e * m
    BY <1>2, SMT
  <2>4. e * m \in Int /\ m * n \in Int
    BY <1>2, SMT
  <2>. QED
    BY <2>1, <2>2, <2>3, <2>4, <1>1, SMT
<1>6. v \div (m * n) = c /\ v % (m * n) = r
  BY <1>3, <1>4, <1>5, <1>2, OneDivision
<1>. QED
  BY <1>6 DEF a, b, c, e

LEMMA Weights ==
  /\ Base \in Nat \ {0} /\ Base > 12
  /\ Weight(0) = 1 /\ Weight(1) = Base /\ Weight(2) = Base * Base
  /\ Weight(3) = Weight(2) * Base /\ Weight(4) = Weight(3) * Base
  /\ \A n \in 0 .. 4 : Weight(n) \in Nat \ {0}
<1>1. Base \in Nat \ {0} /\ Base > 12
  BY BaseAssumption
<1>2. \A a \in Nat \ {0} : a * Base \in Nat \ {0}
  BY <1>1, SMT
<1>3. Weight(0) = 1 /\ Weight(1) = Base /\ Weight(2) = Base * Base
      /\ Weight(3) = (Base * Base) * Base /\ Weight(4) = ((Base * Base) * Base) * Base
  BY DEF Weight
<1>. QED
  BY <1>1, <1>2, <1>3, SMT

(* The bytes of a value, read as a number, are what w bytes can tell of it. *)
LEMMA Digitwise ==
  ASSUME NEW v \in Int
  PROVE  /\ PutByte(v, 1, 0) = v % Weight(1)
         /\ PutByte(v, 2, 0) * Base + PutByte(v, 2, 1) = v % Weight(2)
         /\ PutByte(v, 4, 0) * Weight(3) + PutByte(v, 4, 1) * Weight(2)
              + PutByte(v, 4, 2) * Base + PutByte(v, 4, 3) = v % Weight(4)
         /\ \A w \in {1, 2, 4} : \A i \in 0 .. w - 1 : PutByte(v, w, i) \in Digits
<1>1. ASSUME NEW k \in 0 .. 3
      PROVE  /\ v \div Weight(k) \in Int /\ Weight(k) \in Nat \ {0}
             /\ (v \div Weight(k)) % Base \in Digits
  <2>1. Weight(k) \in Nat \ {0}
    BY Weights, SMT
  <2>2. v \div Weight(k) \in Int
    BY <2>1, Division
  <2>3. (v \div Weight(k)) % Base \in Digits
    BY <2>2, Weights, Division DEF Digits
  <2>. QED
    BY <2>1, <2>2, <2>3
<1>2. v \div Weight(0) = v
  BY Weights, SMT
<1>3. \A a \in Nat \ {0} :
         v % (a * Base) = ((v \div a) % Base) * a + (v % a)
  <2>1. SUFFICES ASSUME NEW a \in Nat \ {0}
                 PROVE  v % (a * Base) = ((v \div a) % Base) * a + (v % a)
    OBVIOUS
  <2>. QED
    BY Weights, TwoDivisions
<1>4. v % Weight(2) = ((v \div Weight(1)) % Base) * Base + (v % Base)
  BY <1>3, Weights
<1>5. v % Weight(3) = ((v \div Weight(2)) % Base) * Weight(2) + (v % Weight(2))
  BY <1>3, Weights
<1>6. v % Weight(4) = ((v \div Weight(3)) % Base) * Weight(3) + (v % Weight(3))
  BY <1>3, Weights
<1>7. /\ PutByte(v, 1, 0) = v % Base
      /\ PutByte(v, 2, 0) = (v \div Weight(1)) % Base
      /\ PutByte(v, 2, 1) = v % Base
      /\ PutByte(v, 4, 0) = (v \div Weight(3)) % Base
      /\ PutByte(v, 4, 1) = (v \div Weight(2)) % Base
      /\ PutByte(v, 4, 2) = (v \div Weight(1)) % Base
      /\ PutByte(v, 4, 3) = v % Base
  BY <1>2 DEF PutByte
<1>8. \A w \in {1, 2, 4} : \A i \in 0 .. w - 1 : PutByte(v, w, i) \in Digits
  <2>1. SUFFICES ASSUME NEW w \in {1, 2, 4}, NEW i \in 0 .. w - 1
                 PROVE  PutByte(v, w, i) \in Digits
    OBVIOUS
  <2>2. w - 1 - i \in 0 .. 3
    BY SMT
  <2>. QED
    BY <1>1, <2>2 DEF PutByte
<1>9. /\ v % Base \in Int
      /\ \A k \in 0 .. 3 : ((v \div Weight(k)) % Base) * Weight(k) \in Int
  <2>1. v % Base \in Int
    BY Weights, Division
  <2>2. \A a \in Digits, b \in Nat : a * b \in Int
    BY Weights, SMT DEF Digits
  <2>. QED
    BY <1>1, <2>1, <2>2, Weights
<1>. DEFINE x3 == ((v \div Weight(3)) % Base) * Weight(3)
            x2 == ((v \div Weight(2)) % Base) * Weight(2)
            x1 == ((v \div Weight(1)) % Base) * Base
            x0 == v % Base
<1>10. v % Weight(4) = x3 + (x2 + (x1 + x0))
  BY <1>4, <1>5, <1>6, Zenon
<1>11. x3 + (x2 + (x1 + x0)) = x3 + x2 + x1 + x0
  <2>. HIDE DEF x3, x2, x1, x0
  <2>1. x3 \in Int /\ x2 \in Int /\ x1 \in Int /\ x0 \in Int
    BY <1>9, Weights DEF x3, x2, x1, x0
  <2>. QED
    BY <2>1, SMT
<1>. QED
  BY <1>4, <1>7, <1>8, <1>10, <1>11, Weights, Zenon

-----------------------------------------------------------------------------
(* Fields *)

LEMMA Residue ==
  ASSUME NEW W \in Nat \ {0}, NEW v \in Int
  PROVE  /\ v \in 0 .. W - 1 => v % W = v
         /\ v \in -W .. -1 => v % W = v + W
<1>1. ASSUME v \in 0 .. W - 1
      PROVE  v % W = v
  <2>1. (W * 0 + v) % W = v
    BY <1>1, OneDivision
  <2>2. W * 0 + v = v
    BY SMT
  <2>. QED
    BY <2>1, <2>2
<1>2. ASSUME v \in -W .. -1
      PROVE  v % W = v + W
  <2>1. v + W \in 0 .. W - 1
    BY <1>2, SMT
  <2>2. (W * (-1) + (v + W)) % W = v + W
    BY <2>1, OneDivision
  <2>3. W * (-1) + (v + W) = v
    BY SMT
  <2>. QED
    BY <2>2, <2>3
<1>. QED
  BY <1>1, <1>2

LEMMA GetBytes ==
  ASSUME NEW d, NEW at \in Nat, NEW w \in {1, 2, 4}, NEW v \in Int,
         \A i \in 0 .. w - 1 : ByteAt(d, at + i) = PutByte(v, w, i)
  PROVE  Get(d, at, w) = v % Weight(w)
<1>1. CASE w = 1
  <2>1. ByteAt(d, at) = PutByte(v, 1, 0)
    BY <1>1, SMT
  <2>. QED
    BY <1>1, <2>1, Digitwise DEF Get
<1>2. CASE w = 2
  <2>1. ByteAt(d, at) = PutByte(v, 2, 0) /\ ByteAt(d, at + 1) = PutByte(v, 2, 1)
    BY <1>2, SMT
  <2>2. Get(d, at, 2) = ByteAt(d, at) * Base + ByteAt(d, at + 1)
    BY SMT DEF Get
  <2>. QED
    BY <1>2, <2>1, <2>2, Digitwise, Zenon
<1>3. CASE w = 4
  <2>1. /\ ByteAt(d, at) = PutByte(v, 4, 0) /\ ByteAt(d, at + 1) = PutByte(v, 4, 1)
        /\ ByteAt(d, at + 2) = PutByte(v, 4, 2)
        /\ ByteAt(d, at + 3) = PutByte(v, 4, 3)
    BY <1>3, SMT
  <2>2. Get(d, at, 4) = ByteAt(d, at) * Weight(3) + ByteAt(d, at + 1) * Weight(2)
                          + ByteAt(d, at + 2) * Base + ByteAt(d, at + 3)
    BY SMT DEF Get
  <2>. QED
    BY <1>3, <2>1, <2>2, Digitwise, Zenon
<1>. QED
  BY <1>1, <1>2, <1>3

(* What the parsers read of one field. *)
Read(f, d, at, w) == IF f \in Signed THEN GetSigned(d, at, w) ELSE Get(d, at, w)

LEMMA ReadBack ==
  ASSUME NEW f, NEW d, NEW at \in Nat, NEW w \in {1, 2, 4}, NEW v \in Int,
         v \in FieldRange(f, w),
         \A i \in 0 .. w - 1 : ByteAt(d, at + i) = PutByte(v, w, i)
  PROVE  Read(f, d, at, w) = v
<1>. DEFINE W == Weight(w)
<1>1. W \in Nat \ {0}
  BY Weights, SMT
<1>2. Get(d, at, w) = v % W
  BY GetBytes
<1>3. (v \in 0 .. W - 1 => v % W = v) /\ (v \in -W .. -1 => v % W = v + W)
  BY <1>1, Residue
<1>. HIDE DEF W
<1>4. CASE f \notin Signed
  <2>1. v \in 0 .. W - 1
    BY <1>4 DEF FieldRange, W
  <2>. QED
    BY <1>2, <1>3, <1>4, <2>1 DEF Read
<1>5. CASE f \in Signed
  <2>1. v \in -(W \div 2) .. ((W - 1) \div 2)
    BY <1>5 DEF FieldRange, W
  <2>2. 2 * (W \div 2) <= W /\ 2 * ((W - 1) \div 2) <= W - 1
        /\ W \div 2 \in Nat /\ (W - 1) \div 2 \in Nat
    BY <1>1, SMT
  <2>3. GetSigned(d, at, w) = IF 2 * (v % W) >= W THEN (v % W) - W ELSE v % W
    BY <1>2 DEF GetSigned, W
  <2>4. CASE v >= 0
    <3>1. v % W = v
      BY <1>1, <1>3, <2>1, <2>2, <2>4, SMT
    <3>2. ~(2 * v >= W)
      BY <1>1, <2>1, <2>2, <2>4, SMT
    <3>. QED
      BY <1>5, <2>3, <3>1, <3>2 DEF Read
  <2>5. CASE v < 0
    <3>1. v % W = v + W
      BY <1>1, <1>3, <2>1, <2>2, <2>5, SMT
    <3>2. 2 * (v + W) >= W /\ (v + W) - W = v
      BY <1>1, <2>1, <2>2, <2>5, SMT
    <3>. QED
      BY <1>5, <2>3, <3>1, <3>2 DEF Read
  <2>. QED
    BY <2>4, <2>5, SMT
<1>. QED
  BY <1>4, <1>5

(* A field of no bytes is read as 0, and has no other value. *)
LEMMA ReadNothing ==
  ASSUME NEW f, NEW d, NEW at
  PROVE  Read(f, d, at, 0) = 0 /\ FieldRange(f, 0) = {0}
<1>1. Get(d, at, 0) = 0 /\ Weight(0) = 1
  BY DEF Get, Weight
<1>2. GetSigned(d, at, 0) = 0
  BY <1>1, SMT DEF GetSigned
<1>3. -(1 \div 2) .. ((1 - 1) \div 2) = {0} /\ 0 .. 1 - 1 = {0}
  BY SMT
<1>. QED
  BY <1>1, <1>2, <1>3 DEF Read, FieldRange

(* A number that is read from bytes that arrived has as many. *)
LEMMA GetRange ==
  ASSUME NEW d \in Seq(Digits), NEW at \in Nat, NEW w \in {1, 2, 4}
  PROVE  /\ Get(d, at, w) \in Nat
         /\ at + w <= Len(d) => Get(d, at, w) \in 0 .. Weight(w) - 1
<1>1. \A k \in Nat : /\ ByteAt(d, k) \in Nat
                     /\ k < Len(d) => ByteAt(d, k) \in Digits
  <2>1. SUFFICES ASSUME NEW k \in Nat
                 PROVE  /\ ByteAt(d, k) \in Nat
                        /\ k < Len(d) => ByteAt(d, k) \in Digits
    OBVIOUS
  <2>2. CASE k < Len(d)
    <3>1. k + 1 \in 1 .. Len(d)
      BY <2>2, SMT
    <3>2. d[k + 1] \in Digits
      BY <3>1, SMT
    <3>3. ByteAt(d, k) = d[k + 1]
      BY <2>2 DEF ByteAt
    <3>4. Digits \subseteq Nat
      BY Weights, SMT DEF Digits
    <3>. QED
      BY <3>2, <3>3, <3>4
  <2>3. CASE ~(k < Len(d))
    BY <2>3, Weights DEF ByteAt, Unwritten
  <2>. QED
    BY <2>2, <2>3
<1>. DEFINE a == ByteAt(d, at)
            b == ByteAt(d, at + 1)
            c == ByteAt(d, at + 2)
            e == ByteAt(d, at + 3)
<1>2. /\ a \in Nat /\ b \in Nat /\ c \in Nat /\ e \in Nat
      /\ at < Len(d) => a \in Digits
      /\ at + 1 < Len(d) => b \in Digits
      /\ at + 2 < Len(d) => c \in Digits
      /\ at + 3 < Len(d) => e \in Digits
  <2>1. at \in Nat /\ at + 1 \in Nat /\ at + 2 \in Nat /\ at + 3 \in Nat
    BY SMT
  <2>. QED
    BY <1>1, <2>1, Zenon
<1>3. Len(d) \in Nat
  BY SMT
<1>. HIDE DEF a, b, c, e
<1>4. \A q \in Nat \ {0}, x \in Digits : \A r \in 0 .. q - 1 :
         x * q + r \in 0 .. q * Base - 1
  <2>1. SUFFICES ASSUME NEW q \in Nat \ {0}, NEW x \in Digits, NEW r \in 0 .. q - 1
                 PROVE  x * q + r \in 0 .. q * Base - 1
    OBVIOUS
  <2>2. x \in Nat /\ Base - 1 - x \in Nat /\ Base \in Nat
    BY Weights, SMT DEF Digits
  <2>3. x * q \in Nat /\ (Base - 1 - x) * q \in Nat
    BY <2>2, SMT
  <2>4. (Base - 1 - x) * q = q * Base - q - x * q
    BY <2>2, SMT
  <2>5. q * Base \in Nat
    BY <2>2, SMT
  <2>. QED
    BY <2>3, <2>4, <2>5, SMT
<1>5. \A x \in Nat, y \in Nat : x * y \in Nat
  BY SMT
<1>6. CASE w = 1
  <2>1. Get(d, at, w) = a
    BY <1>6 DEF Get, a
  <2>2. ASSUME at + 1 <= Len(d)
        PROVE  a \in 0 .. Weight(1) - 1
    <3>1. at < Len(d)
      BY <1>3, <2>2, SMT
    <3>. QED
      BY <1>2, <3>1, Weights DEF Digits
  <2>. QED
    BY <1>2, <1>6, <2>1, <2>2
<1>7. CASE w = 2
  <2>1. Get(d, at, w) = a * Base + b
    BY <1>7, SMT DEF Get, a, b
  <2>2. a * Base \in Nat
    BY <1>2, <1>5, Weights
  <2>3. ASSUME at + 2 <= Len(d)
        PROVE  a * Base + b \in 0 .. Weight(2) - 1
    <3>1. a \in Digits /\ b \in 0 .. Base - 1
      BY <1>2, <1>3, <2>3, SMT DEF Digits
    <3>. QED
      BY <1>4, <3>1, Weights
  <2>4. a * Base + b \in Nat
    BY <2>2, <1>2, SMT
  <2>. QED
    BY <1>7, <2>1, <2>3, <2>4
<1>8. CASE w = 4
  <2>1. Get(d, at, w) = a * Weight(3) + b * Weight(2) + c * Base + e
    BY <1>8, SMT DEF Get, a, b, c, e
  <2>2. a * Weight(3) \in Nat /\ b * Weight(2) \in Nat /\ c * Base \in Nat
    BY <1>2, <1>5, Weights
  <2>3. ASSUME at + 4 <= Len(d)
        PROVE  a * Weight(3) + b * Weight(2) + c * Base + e \in 0 .. Weight(4) - 1
    <3>1. a \in Digits /\ b \in Digits /\ c \in Digits /\ e \in 0 .. Base - 1
      BY <1>2, <1>3, <2>3, SMT DEF Digits
    <3>2. c * Base + e \in 0 .. Weight(2) - 1
      BY <1>4, <3>1, Weights
    <3>3. Weight(2) \in Nat \ {0} /\ Weight(3) \in Nat \ {0}
      BY Weights, SMT
    <3>4. b * Weight(2) + (c * Base + e) \in 0 .. Weight(3) - 1
      BY <1>4, <3>1, <3>2, <3>3, Weights, Zenon
    <3>5. a * Weight(3) + (b * Weight(2) + (c * Base + e)) \in 0 .. Weight(4) - 1
      BY <1>4, <3>1, <3>4, <3>3, Weights, Zenon
    <3>. DEFINE x == a * Weight(3)
                y == b * Weight(2)
                z == c * Base
                T == Weight(4) - 1
    <3>6. x \in Nat /\ y \in Nat /\ z \in Nat /\ e \in Nat
          /\ x + (y + (z + e)) \in 0 .. T
      BY <3>5, <2>2, <1>2
    <3>. HIDE DEF x, y, z, T
    <3>7. x + (y + (z + e)) = x + y + z + e
      BY <3>6, SMT
    <3>. QED
      BY <3>6, <3>7 DEF x, y, z, T
  <2>4. a * Weight(3) + b * Weight(2) + c * Base + e \in Nat
    BY <2>2, <1>2, SMT
  <2>. QED
    BY <1>8, <2>1, <2>3, <2>4
<1>. QED
  BY <1>6, <1>7, <1>8

-----------------------------------------------------------------------------
(* A layout of so many bytes: each of them belongs to one field.  A field may
   have none. *)
Place(layout, f) == layout[f][1] .. layout[f][1] + layout[f][2] - 1

Proper(layout, size) ==
  /\ \A f \in DOMAIN layout :
       /\ layout[f][1] \in Nat /\ layout[f][2] \in {0, 1, 2, 4}
       /\ layout[f][1] + layout[f][2] <= size
  /\ \A f, g \in DOMAIN layout : \A k \in Nat :
       k \in Place(layout, f) /\ k \in Place(layout, g) => f = g
  /\ \A k \in 0 .. size - 1 : \E f \in DOMAIN layout : k \in Place(layout, f)

LEMMA FieldAt ==
  ASSUME NEW layout, NEW size \in Nat, Proper(layout, size), NEW values,
         NEW f \in DOMAIN layout, NEW k \in Nat, k \in Place(layout, f)
  PROVE  FieldByte(layout, values, k)
           = PutByte(values[f], layout[f][2], k - layout[f][1])
<1>. DEFINE covering == {g \in DOMAIN layout :
                           k \in layout[g][1] .. layout[g][1] + layout[g][2] - 1}
<1>1. f \in covering
  BY DEF Place
<1>2. \A g \in covering : g = f
  BY <1>1 DEF Proper, Place
<1>3. (CHOOSE g \in covering : TRUE) = f
  BY <1>1, <1>2, Zenon
<1>4. covering # {}
  BY <1>1
<1>5. FieldByte(layout, values, k)
        = IF covering = {} THEN Unwritten
          ELSE LET g == CHOOSE g \in covering : TRUE
               IN PutByte(values[g], layout[g][2], k - layout[g][1])
  BY Zenon DEF FieldByte
<1>. HIDE DEF covering
<1>. QED
  BY <1>3, <1>4, <1>5, Zenon

(* What lies in the datagram as it was laid out is read back. *)
LEMMA ReadFields ==
  ASSUME NEW layout, NEW size \in Nat, Proper(layout, size),
         NEW values \in FieldSet(layout), NEW d, NEW base \in Nat,
         \A k \in 0 .. size - 1 :
           ByteAt(d, base + k) = FieldByte(layout, values, k)
  PROVE  FieldValues(layout, d, base) = values
<1>1. values \in [DOMAIN layout -> Int]
      /\ \A f \in DOMAIN layout : values[f] \in FieldRange(f, layout[f][2])
  BY DEF FieldSet
<1>2. FieldValues(layout, d, base)
        = [f \in DOMAIN layout |-> Read(f, d, base + layout[f][1], layout[f][2])]
  BY Zenon DEF FieldValues, Read
<1>3. ASSUME NEW f \in DOMAIN layout
      PROVE  Read(f, d, base + layout[f][1], layout[f][2]) = values[f]
  <2>. DEFINE o == layout[f][1]
              w == layout[f][2]
  <2>1. o \in Nat /\ w \in {0, 1, 2, 4} /\ o + w <= size
    BY DEF Proper
  <2>2. ASSUME NEW i \in 0 .. w - 1
        PROVE  ByteAt(d, (base + o) + i) = PutByte(values[f], w, i)
    <3>1. /\ o + i \in 0 .. size - 1 /\ o + i \in Nat
          /\ o + i \in o .. o + w - 1
          /\ (base + o) + i = base + (o + i) /\ (o + i) - o = i
      <4>. HIDE DEF o, w
      <4>. QED
        BY <2>1, SMT
    <3>2. FieldByte(layout, values, o + i) = PutByte(values[f], w, (o + i) - o)
      BY <3>1, FieldAt DEF Place
    <3>. QED
      BY <3>1, <3>2
  <2>3. base + o \in Nat /\ values[f] \in Int /\ values[f] \in FieldRange(f, w)
    <3>1. base + o \in Nat
      <4>. HIDE DEF o
      <4>. QED
        BY <2>1, SMT
    <3>. QED
      BY <3>1, <1>1
  <2>. HIDE DEF o, w
  <2>4. ASSUME w = 0
        PROVE  Read(f, d, base + o, w) = values[f]
    BY <2>3, <2>4, ReadNothing
  <2>5. ASSUME w \in {1, 2, 4}
        PROVE  Read(f, d, base + o, w) = values[f]
    BY <2>1, <2>2, <2>3, <2>5, ReadBack
  <2>. QED
    BY <2>1, <2>4, <2>5 DEF o, w
<1>. QED
  BY <1>1, <1>2, <1>3, Zenon

(* Every byte of what is laid out is written. *)
LEMMA FieldDigits ==
  ASSUME NEW layout, NEW size \in Nat, Proper(layout, size),
         NEW values \in [DOMAIN layout -> Int], NEW k \in 0 .. size - 1
  PROVE  FieldByte(layout, values, k) \in Digits
<1>1. PICK f \in DOMAIN layout : k \in Place(layout, f)
  BY DEF Proper
<1>. DEFINE o == layout[f][1]
            w == layout[f][2]
<1>2. o \in Nat /\ w \in {1, 2, 4}
  <2>1. o \in Nat /\ w \in {0, 1, 2, 4} /\ k \in o .. o + w - 1
    BY <1>1 DEF Proper, Place
  <2>. HIDE DEF o, w
  <2>. QED
    BY <2>1, SMT
<1>3. FieldByte(layout, values, k) = PutByte(values[f], w, k - o)
  BY <1>1, FieldAt
<1>4. k - o \in 0 .. w - 1
  <2>1. k \in o .. o + w - 1
    BY <1>1 DEF Place
  <2>. HIDE DEF o, w
  <2>. QED
    BY <1>2, <2>1, SMT
<1>5. values[f] \in Int
  OBVIOUS
<1>. HIDE DEF o, w
<1>. QED
  BY <1>2, <1>3, <1>4, <1>5, Digitwise

LEMMA ProperHeader ==
  Proper(Header, 8)
BY SMT DEF Proper, Place, Header

LEMMA ProperHello ==
  Proper(HelloPut, 2) /\ HelloGet = HelloPut
BY SMT DEF Proper, Place, HelloPut, HelloGet

LEMMA ProperAck ==
  Proper(AckPut, 2) /\ AckGet = AckPut
BY SMT DEF Proper, Place, AckPut, AckGet

LEMMA ProperConfig ==
  Proper(ConfigPut, 10) /\ ConfigGet = ConfigPut
BY SMT DEF Proper, Place, ConfigPut, ConfigGet

LEMMA ProperVideo ==
  Proper(VideoPut, 15) /\ VideoGet = VideoPut
BY SMT DEF Proper, Place, VideoPut, VideoGet

LEMMA ProperAudio ==
  Proper(AudioPut, 6) /\ AudioGet = AudioPut
BY SMT DEF Proper, Place, AudioPut, AudioGet

LEMMA ProperState ==
  Proper(StatePut, 26) /\ StateGet = StatePut
BY SMT DEF Proper, Place, StatePut, StateGet

LEMMA ProperBundle ==
  Proper(BundlePut, 5) /\ BundleGet = BundlePut
BY SMT DEF Proper, Place, BundlePut, BundleGet

LEMMA ProperSmall ==
  /\ Proper(Timestamp, 4) /\ Proper(RumblePut, 2)
  /\ Proper(ByePut, 1) /\ Proper(NoFields, 0)
<1>1. Proper(Timestamp, 4)
  BY SMT DEF Proper, Place, Timestamp
<1>2. Proper(RumblePut, 2)
  BY SMT DEF Proper, Place, RumblePut
<1>3. Proper(ByePut, 1)
  BY SMT DEF Proper, Place, ByePut
<1>4. Proper(NoFields, 0)
  BY SMT DEF Proper, Place, NoFields
<1>. QED
  BY <1>1, <1>2, <1>3, <1>4

-----------------------------------------------------------------------------
(* Messages *)

LEMMA Kinds ==
  ASSUME NEW t \in Types
  PROVE  /\ Proper(PutFields(t), FixedSize(t))
         /\ FixedSize(t) \in Nat
         /\ t # BYE => GetFields(t) = PutFields(t) /\ LeastSize(t) = FixedSize(t)
         /\ GetFields(BYE) = NoFields /\ LeastSize(BYE) = 0
<1>. USE DEF Types, HELLO, HELLO_ACK, CONFIG, VIDEO, AUDIO, INPUT, INPUT_BUNDLE,
             RUMBLE, PING, PONG, BYE, KEYFRAME_REQ
<1>1. GetFields(BYE) = NoFields /\ LeastSize(BYE) = 0
  BY DEF GetFields, LeastSize
<1>2. CASE t = HELLO
  BY <1>1, <1>2, ProperHello DEF PutFields, GetFields, FixedSize, LeastSize
<1>3. CASE t = HELLO_ACK
  BY <1>1, <1>3, ProperAck DEF PutFields, GetFields, FixedSize, LeastSize
<1>4. CASE t = CONFIG
  BY <1>1, <1>4, ProperConfig DEF PutFields, GetFields, FixedSize, LeastSize, ConfigSize
<1>5. CASE t = VIDEO
  BY <1>1, <1>5, ProperVideo DEF PutFields, GetFields, FixedSize, LeastSize, VideoSize
<1>6. CASE t = AUDIO
  BY <1>1, <1>6, ProperAudio DEF PutFields, GetFields, FixedSize, LeastSize, AudioSize
<1>7. CASE t = INPUT_BUNDLE
  BY <1>1, <1>7, ProperBundle DEF PutFields, GetFields, FixedSize, LeastSize, BundleSize
<1>8. CASE t \in {INPUT, PING, PONG}
  BY <1>1, <1>8, ProperSmall DEF PutFields, GetFields, FixedSize, LeastSize
<1>9. CASE t = RUMBLE
  BY <1>1, <1>9, ProperSmall DEF PutFields, GetFields, FixedSize, LeastSize
<1>10. CASE t = BYE
  BY <1>1, <1>10, ProperSmall DEF PutFields, FixedSize
<1>11. CASE t = KEYFRAME_REQ
  BY <1>1, <1>11, ProperSmall DEF PutFields, GetFields, FixedSize, LeastSize
<1>12. t \in {HELLO, HELLO_ACK, CONFIG, VIDEO, AUDIO, INPUT, INPUT_BUNDLE,
              RUMBLE, PING, PONG, BYE, KEYFRAME_REQ}
  BY SMT
<1>. QED
  BY <1>2, <1>3, <1>4, <1>5, <1>6, <1>7, <1>8, <1>9, <1>10, <1>11, <1>12

(* What there is to know of a message besides the values of its fields. *)
LEMMA MessageShape ==
  ASSUME NEW m, IsMessage(m)
  PROVE  /\ m.type \in Types /\ m.seq \in 0 .. Weight(2) - 1
         /\ m.fields \in FieldSet(GivenFields(m.type))
         /\ m.payload \in Seq(Digits) /\ m.states \in Seq(FieldSet(StatePut))
         /\ Len(m.payload) \in Nat /\ Len(m.states) \in Nat
         /\ m.type = HELLO => Len(m.payload) = NameLen
         /\ m.type \in {VIDEO, AUDIO} => Len(m.payload) = m.fields.payloadLen
         /\ m.type \notin {HELLO, VIDEO, AUDIO} => m.payload = << >>
         /\ m.type = INPUT => Len(m.states) = 1
         /\ m.type = INPUT_BUNDLE => Len(m.states) = m.fields.count
         /\ m.type \notin {INPUT, INPUT_BUNDLE} => m.states = << >>
         /\ Need(m) = 8 + FixedSize(m.type) + Len(m.payload) + 26 * Len(m.states)
         /\ Need(m) \in Nat
         /\ Rest(m.type, m.fields) = Len(m.payload) + 26 * Len(m.states)
<1>1. /\ m.type \in Types /\ m.seq \in 0 .. Weight(2) - 1
      /\ m.fields \in FieldSet(GivenFields(m.type))
      /\ m.payload \in Seq(Digits) /\ m.states \in Seq(FieldSet(StatePut))
  BY DEF IsMessage
<1>2. Len(m.payload) \in Nat /\ Len(m.states) \in Nat
  BY <1>1
<1>3. /\ CASE m.type = HELLO -> Len(m.payload) = NameLen
           [] m.type \in {VIDEO, AUDIO} -> Len(m.payload) = m.fields.payloadLen
           [] OTHER -> m.payload = << >>
      /\ CASE m.type = INPUT -> Len(m.states) = 1
           [] m.type = INPUT_BUNDLE -> Len(m.states) = m.fields.count
           [] OTHER -> m.states = << >>
  BY DEF IsMessage
<1>4. /\ m.type = HELLO => Len(m.payload) = NameLen
      /\ m.type \in {VIDEO, AUDIO} => Len(m.payload) = m.fields.payloadLen
      /\ m.type \notin {HELLO, VIDEO, AUDIO} => m.payload = << >>
      /\ m.type = INPUT => Len(m.states) = 1
      /\ m.type = INPUT_BUNDLE => Len(m.states) = m.fields.count
      /\ m.type \notin {INPUT, INPUT_BUNDLE} => m.states = << >>
  BY <1>3 DEF HELLO, VIDEO, AUDIO, INPUT, INPUT_BUNDLE
<1>5. Need(m) = 8 + FixedSize(m.type) + Len(m.payload) + 26 * Len(m.states)
  BY DEF Need, HeaderSize, StateSize
<1>6. FixedSize(m.type) \in Nat
  BY <1>1, Kinds
<1>7. Need(m) \in Nat
  BY <1>2, <1>5, <1>6, SMT
<1>8. Rest(m.type, m.fields) = Len(m.payload) + 26 * Len(m.states)
  <2>0. Len(<< >>) = 0
    OBVIOUS
  <2>. USE DEF HELLO, VIDEO, AUDIO, INPUT, INPUT_BUNDLE
  <2>1. CASE m.type = HELLO
    <3>1. Rest(m.type, m.fields) = NameLen /\ Len(m.states) = 0
          /\ Len(m.payload) = NameLen
      BY <2>0, <2>1, <1>4 DEF Rest
    <3>. QED
      BY <3>1, <1>2, SMT
  <2>2. CASE m.type \in {VIDEO, AUDIO}
    <3>1. Rest(m.type, m.fields) = m.fields.payloadLen /\ Len(m.states) = 0
          /\ Len(m.payload) = m.fields.payloadLen
      BY <2>0, <2>2, <1>4 DEF Rest
    <3>. QED
      BY <3>1, <1>2, SMT
  <2>3. CASE m.type = INPUT
    <3>1. Rest(m.type, m.fields) = 26 /\ Len(m.states) = 1 /\ Len(m.payload) = 0
      BY <2>0, <2>3, <1>4 DEF Rest, StateSize
    <3>. QED
      BY <3>1, SMT
  <2>4. CASE m.type = INPUT_BUNDLE
    <3>1. Rest(m.type, m.fields) = 26 * m.fields.count
          /\ Len(m.states) = m.fields.count /\ Len(m.payload) = 0
      BY <2>0, <2>4, <1>4 DEF Rest, StateSize
    <3>. QED
      BY <3>1, <1>2, SMT
  <2>5. CASE m.type \notin {HELLO, VIDEO, AUDIO, INPUT, INPUT_BUNDLE}
    <3>1. Rest(m.type, m.fields) = 0 /\ Len(m.states) = 0 /\ Len(m.payload) = 0
      BY <2>0, <2>5, <1>4 DEF Rest
    <3>. QED
      BY <3>1, SMT
  <2>. QED
    BY <2>1, <2>2, <2>3, <2>4, <2>5
<1>. QED
  BY <1>1, <1>2, <1>4, <1>5, <1>7, <1>8

(* The fields that have bytes in the datagram; the others as the parser sets
   them. *)
SentFields(m) ==
  IF m.type = CONFIG
    THEN [m.fields EXCEPT !.audioChannels = 0, !.flags = 0] ELSE m.fields

(* Two of the fields of a CONFIG are given and have no bytes. *)
LostFields == {"audioChannels", "flags"}

LEMMA ConfigLayouts ==
  LET G == GivenFields(CONFIG)
  IN /\ PutFields(CONFIG) = ConfigPut
     /\ DOMAIN G = DOMAIN ConfigPut /\ LostFields \subseteq DOMAIN ConfigPut
     /\ \A f \in DOMAIN ConfigPut : f \notin LostFields =>
          G[f] = ConfigPut[f] /\ ConfigPut[f][2] \in {1, 2, 4}
     /\ \A f \in LostFields :
          ConfigPut[f][1] = 10 /\ ConfigPut[f][2] = 0 /\ G[f][2] = 1
<1>. DEFINE P == ConfigPut
            G == [P EXCEPT !.audioChannels = <<10, 1>>, !.flags = <<11, 1>>]
<1>1. GivenFields(CONFIG) = G /\ PutFields(CONFIG) = ConfigPut
  BY DEF GivenFields, PutFields, CONFIG, HELLO, HELLO_ACK, VIDEO, AUDIO, INPUT,
         INPUT_BUNDLE, RUMBLE, PING, PONG, BYE, KEYFRAME_REQ
<1>2. /\ LostFields \subseteq DOMAIN P
      /\ P.audioChannels[1] = 10 /\ P.audioChannels[2] = 0
      /\ P.flags[1] = 10 /\ P.flags[2] = 0
  BY DEF ConfigPut, LostFields
<1>3. \A f \in DOMAIN P : f \notin LostFields => P[f][2] \in {1, 2, 4}
  BY DEF ConfigPut, LostFields
<1>. HIDE DEF P
<1>4. /\ DOMAIN G = DOMAIN P
      /\ \A f \in DOMAIN P : G[f] = IF f = "audioChannels" THEN <<10, 1>>
                                    ELSE IF f = "flags" THEN <<11, 1>> ELSE P[f]
  <2>1. "audioChannels" # "flags"
    OBVIOUS
  <2>. QED
    BY <1>2, <2>1 DEF LostFields
<1>. HIDE DEF G
<1>5. G.audioChannels = <<10, 1>> /\ G.flags = <<11, 1>>
  BY <1>2, <1>4 DEF LostFields
<1>6. G.audioChannels[2] = 1 /\ G.flags[2] = 1
  BY <1>5
<1>7. \A f \in DOMAIN P : f \notin LostFields => G[f] = P[f]
  BY <1>4 DEF LostFields
<1>8. \A f \in LostFields : P[f][1] = 10 /\ P[f][2] = 0 /\ G[f][2] = 1
  BY <1>2, <1>6 DEF LostFields
<1>. QED
  BY <1>1, <1>2, <1>3, <1>4, <1>7, <1>8 DEF P

LEMMA SentOfConfig ==
  ASSUME NEW u \in FieldSet(GivenFields(CONFIG))
  PROVE  LET s == [u EXCEPT !.audioChannels = 0, !.flags = 0]
         IN /\ s \in FieldSet(ConfigPut) /\ u \in [DOMAIN ConfigPut -> Int]
            /\ \A k : FieldByte(ConfigPut, u, k) = FieldByte(ConfigPut, s, k)
<1>. DEFINE s == [u EXCEPT !.audioChannels = 0, !.flags = 0]
            G == GivenFields(CONFIG)
            lost == LostFields
<1>1. /\ u \in [DOMAIN G -> Int]
      /\ \A f \in DOMAIN G : u[f] \in FieldRange(f, G[f][2])
  BY DEF FieldSet
<1>2. /\ DOMAIN G = DOMAIN ConfigPut /\ lost \subseteq DOMAIN ConfigPut
      /\ \A f \in DOMAIN ConfigPut : f \notin lost => G[f] = ConfigPut[f]
      /\ \A f \in lost : ConfigPut[f][1] = 10 /\ ConfigPut[f][2] = 0
  BY ConfigLayouts
<1>. HIDE DEF G
<1>3. u \in [DOMAIN ConfigPut -> Int]
  BY <1>1, <1>2
<1>4. /\ s \in [DOMAIN ConfigPut -> Int]
      /\ \A f \in DOMAIN ConfigPut : s[f] = IF f \in lost THEN 0 ELSE u[f]
  <2>1. "audioChannels" \in DOMAIN u /\ "flags" \in DOMAIN u
        /\ DOMAIN u = DOMAIN ConfigPut
    BY <1>2, <1>3 DEF LostFields
  <2>2. /\ DOMAIN s = DOMAIN u
        /\ \A f \in DOMAIN u : s[f] = IF f = "flags" THEN 0
                                     ELSE IF f = "audioChannels" THEN 0 ELSE u[f]
    BY <2>1
  <2>3. s = [f \in DOMAIN u |-> s[f]]
    OBVIOUS
  <2>. HIDE DEF s
  <2>4. \A f \in DOMAIN u : s[f] = IF f \in lost THEN 0 ELSE u[f]
    BY <2>2 DEF LostFields
  <2>5. \A f \in DOMAIN u : s[f] \in Int
    BY <1>3, <2>1, <2>4
  <2>. QED
    BY <2>1, <2>3, <2>4, <2>5
<1>. HIDE DEF s
<1>5. \A f \in DOMAIN ConfigPut : s[f] \in FieldRange(f, ConfigPut[f][2])
  <2>1. SUFFICES ASSUME NEW f \in DOMAIN ConfigPut
                 PROVE  s[f] \in FieldRange(f, ConfigPut[f][2])
    OBVIOUS
  <2>2. CASE f \in lost
    <3>1. ConfigPut[f][2] = 0 /\ s[f] = 0
      BY <1>2, <1>4, <2>2
    <3>. QED
      BY <3>1, ReadNothing
  <2>3. CASE f \notin lost
    <3>1. s[f] = u[f] /\ G[f] = ConfigPut[f] /\ u[f] \in FieldRange(f, G[f][2])
      BY <1>1, <1>2, <1>4, <2>3
    <3>. QED
      BY <3>1
  <2>. QED
    BY <2>2, <2>3
<1>6. ASSUME NEW k
      PROVE  FieldByte(ConfigPut, u, k) = FieldByte(ConfigPut, s, k)
  <2>. DEFINE covering == {f \in DOMAIN ConfigPut :
                 k \in ConfigPut[f][1] .. ConfigPut[f][1] + ConfigPut[f][2] - 1}
              c == CHOOSE f \in covering : TRUE
  <2>1. \A v : FieldByte(ConfigPut, v, k)
                 = IF covering = {} THEN Unwritten
                   ELSE PutByte(v[c], ConfigPut[c][2], k - ConfigPut[c][1])
    BY Zenon DEF FieldByte
  <2>2. ASSUME covering # {}
        PROVE  u[c] = s[c]
    <3>1. c \in covering
      BY <2>2, Zenon
    <3>2. 10 .. 10 + 0 - 1 = {}
      BY SMT
    <3>3. c \in DOMAIN ConfigPut /\ c \notin lost
      BY <1>2, <3>1, <3>2, Zenon
    <3>. QED
      BY <1>4, <3>3
  <2>. HIDE DEF covering, c
  <2>. QED
    BY <2>1, <2>2, Zenon
<1>7. s \in FieldSet(ConfigPut)
  BY <1>4, <1>5 DEF FieldSet
<1>. QED
  BY <1>3, <1>6, <1>7 DEF s

(* What of a message's fields goes into the datagram is within its layout, and
   the parser's checks are on no other. *)
LEMMA Sent ==
  ASSUME NEW m, IsMessage(m)
  PROVE  /\ SentFields(m) \in FieldSet(PutFields(m.type))
         /\ m.fields \in [DOMAIN PutFields(m.type) -> Int]
         /\ \A k : FieldByte(PutFields(m.type), m.fields, k)
                     = FieldByte(PutFields(m.type), SentFields(m), k)
         /\ Rest(m.type, SentFields(m)) = Rest(m.type, m.fields)
         /\ Follows(m.type, SentFields(m)) <=> Follows(m.type, m.fields)
         /\ m.type # CONFIG => SentFields(m) = m.fields
<1>1. m.fields \in FieldSet(GivenFields(m.type))
  BY MessageShape
<1>2. CASE m.type = CONFIG
  <2>1. PutFields(m.type) = ConfigPut
    BY <1>2, ConfigLayouts
  <2>2. /\ m.type # HELLO /\ m.type \notin {VIDEO, AUDIO} /\ m.type # VIDEO
        /\ m.type # INPUT /\ m.type # INPUT_BUNDLE
    BY <1>2 DEF CONFIG, HELLO, VIDEO, AUDIO, INPUT, INPUT_BUNDLE
  <2>3. Rest(m.type, SentFields(m)) = Rest(m.type, m.fields)
    BY <2>2, Zenon DEF Rest
  <2>4. Follows(m.type, SentFields(m)) <=> Follows(m.type, m.fields)
    BY <2>2, Zenon DEF Follows
  <2>5. /\ SentFields(m) \in FieldSet(ConfigPut)
        /\ m.fields \in [DOMAIN ConfigPut -> Int]
        /\ \A k : FieldByte(ConfigPut, m.fields, k)
                    = FieldByte(ConfigPut, SentFields(m), k)
    BY <1>1, <1>2, SentOfConfig, Zenon DEF SentFields
  <2>. QED
    BY <1>2, <2>1, <2>3, <2>4, <2>5
<1>3. CASE m.type # CONFIG
  <2>1. SentFields(m) = m.fields /\ GivenFields(m.type) = PutFields(m.type)
    BY <1>3 DEF SentFields, GivenFields
  <2>2. m.fields \in [DOMAIN PutFields(m.type) -> Int]
    BY <1>1, <2>1 DEF FieldSet
  <2>. QED
    BY <1>1, <2>1, <2>2
<1>. QED
  BY <1>2, <1>3

(* What stands where in the bytes of a message. *)
LEMMA Laid ==
  ASSUME NEW m, IsMessage(m)
  PROVE  LET d == PackedBytes(m)
             F == FixedSize(m.type)
         IN /\ Len(d) = Need(m)
            /\ \A k \in 0 .. 7 :
                 ByteAt(d, k) = FieldByte(Header, HeaderValues(m), k)
            /\ \A k \in 0 .. F - 1 :
                 ByteAt(d, 8 + k) = FieldByte(PutFields(m.type), m.fields, k)
            /\ m.type \in {HELLO, VIDEO, AUDIO} =>
                 \A i \in 1 .. Len(m.payload) :
                   ByteAt(d, 8 + F + i - 1) = m.payload[i]
            /\ m.type \in {INPUT, INPUT_BUNDLE} =>
                 \A i \in 1 .. Len(m.states) : \A k \in 0 .. 25 :
                   ByteAt(d, 8 + F + (i - 1) * 26 + k)
                     = FieldByte(StatePut, m.states[i], k)
<1>. DEFINE d == PackedBytes(m)
            F == FixedSize(m.type)
            N == Need(m)
            P == Len(m.payload)
            S == Len(m.states)
<1>1. /\ F \in Nat /\ N \in Nat /\ P \in Nat /\ S \in Nat
      /\ N = 8 + F + P + 26 * S
  BY MessageShape, Kinds
<1>. HIDE DEF d, F, N, P, S
<1>2. d = [k \in 1 .. N |->
             IF k <= 8 THEN FieldByte(Header, HeaderValues(m), k - 1)
             ELSE PayloadByte(m, k - 8 - 1)]
  BY DEF PackedBytes, HeaderSize, N, d
<1>3. Len(d) = N
  BY <1>1, <1>2
<1>4. ASSUME NEW k \in Nat, k < N
      PROVE  ByteAt(d, k) = IF k < 8 THEN FieldByte(Header, HeaderValues(m), k)
                            ELSE PayloadByte(m, k - 8)
  <2>1. k + 1 \in 1 .. N /\ (k + 1) - 1 = k /\ (k + 1) - 8 - 1 = k - 8
        /\ (k + 1 <= 8 <=> k < 8)
    BY <1>1, <1>4, SMT
  <2>2. ByteAt(d, k) = d[k + 1]
    BY <1>3, <1>4 DEF ByteAt
  <2>3. d[k + 1] = IF k + 1 <= 8 THEN FieldByte(Header, HeaderValues(m), (k + 1) - 1)
                   ELSE PayloadByte(m, (k + 1) - 8 - 1)
    BY <1>2, <2>1, Zenon
  <2>. QED
    BY <2>1, <2>2, <2>3
<1>5. \A k \in 0 .. 7 : ByteAt(d, k) = FieldByte(Header, HeaderValues(m), k)
  <2>1. \A k \in 0 .. 7 : k \in Nat /\ k < N /\ k < 8
    BY <1>1, SMT
  <2>. QED
    BY <1>4, <2>1
<1>6. \A k \in Nat : 8 + k < N => ByteAt(d, 8 + k) = PayloadByte(m, k)
  <2>1. \A k \in Nat : 8 + k \in Nat /\ ~(8 + k < 8) /\ (8 + k) - 8 = k
    BY SMT
  <2>. QED
    BY <1>4, <2>1
<1>7. \A k \in 0 .. F - 1 :
         ByteAt(d, 8 + k) = FieldByte(PutFields(m.type), m.fields, k)
  <2>1. \A k \in 0 .. F - 1 : k \in Nat /\ 8 + k < N /\ k - F < 0
    BY <1>1, SMT
  <2>2. \A k : k - F < 0 => PayloadByte(m, k) = FieldByte(PutFields(m.type), m.fields, k)
    BY DEF PayloadByte, F
  <2>. QED
    BY <1>6, <2>1, <2>2
<1>8. ASSUME m.type \in {HELLO, VIDEO, AUDIO}, NEW i \in 1 .. P
      PROVE  ByteAt(d, 8 + F + i - 1) = m.payload[i]
  <2>1. /\ F + i - 1 \in Nat /\ 8 + (F + i - 1) < N
        /\ 8 + (F + i - 1) = 8 + F + i - 1
        /\ ~((F + i - 1) - F < 0) /\ (F + i - 1) - F + 1 = i
    BY <1>1, SMT
  <2>2. PayloadByte(m, F + i - 1) = m.payload[i]
    BY <1>8, <2>1 DEF PayloadByte, F
  <2>. QED
    BY <1>6, <2>1, <2>2
<1>9. ASSUME m.type \in {INPUT, INPUT_BUNDLE}, NEW i \in 1 .. S,
             NEW k \in 0 .. 25
      PROVE  ByteAt(d, 8 + F + (i - 1) * 26 + k) = FieldByte(StatePut, m.states[i], k)
  <2>. DEFINE r == (i - 1) * 26 + k
  <2>1. r \in Nat /\ F + r \in Nat /\ (F + r) - F = r /\ ~(r < 0)
        /\ 8 + (F + r) < N /\ 8 + (F + r) = 8 + F + (i - 1) * 26 + k
    BY <1>1, SMT
  <2>2. r \div 26 + 1 = i /\ r % 26 = k
    BY SMT
  <2>. HIDE DEF r
  <2>3. m.type \notin {HELLO, VIDEO, AUDIO}
    BY <1>9 DEF HELLO, VIDEO, AUDIO, INPUT, INPUT_BUNDLE
  <2>4. PayloadByte(m, F + r) = FieldByte(StatePut, m.states[i], k)
    BY <1>9, <2>1, <2>2, <2>3 DEF PayloadByte, F, StateSize
  <2>. QED
    BY <1>6, <2>1, <2>4
<1>. QED
  BY <1>3, <1>5, <1>7, <1>8, <1>9 DEF d, F, N, P, S

-----------------------------------------------------------------------------
(* Parsing what was packed *)

(* What arrived of a message: its first bytes. *)
PartOf(d, m) ==
  /\ Len(d) \in Nat /\ Len(d) <= Need(m)
  /\ \A k \in 0 .. Len(d) - 1 : ByteAt(d, k) = ByteAt(PackedBytes(m), k)

LEMMA HeaderFields ==
  ASSUME NEW m, IsMessage(m)
  PROVE  HeaderValues(m) \in FieldSet(Header)
<1>. DEFINE h == HeaderValues(m)
<1>1. m.type \in 1 .. 12 /\ m.seq \in 0 .. Weight(2) - 1
  BY MessageShape DEF Types, HELLO, KEYFRAME_REQ
<1>2. h = [magic |-> Magic, version |-> 1, type |-> m.type, seq |-> m.seq]
  BY DEF HeaderValues, Version
<1>3. /\ Magic \in 0 .. Weight(4) - 1 /\ 1 \in 0 .. Weight(1) - 1
      /\ m.type \in 0 .. Weight(1) - 1
  BY <1>1, Weights, MagicAssumption, SMT
<1>4. DOMAIN Header = {"magic", "version", "type", "seq"}
      /\ Header.magic[2] = 4 /\ Header.version[2] = 1
      /\ Header.type[2] = 1 /\ Header.seq[2] = 2
  BY DEF Header
<1>5. \A f \in DOMAIN Header : \A w : FieldRange(f, w) = 0 .. Weight(w) - 1
  BY <1>4 DEF FieldRange, Signed
<1>6. Magic \in Int /\ m.type \in Int /\ m.seq \in Int
  BY <1>1, <1>3, Weights, SMT
<1>7. h \in [DOMAIN Header -> Int]
  BY <1>2, <1>4, <1>6
<1>8. \A f \in DOMAIN Header : h[f] \in FieldRange(f, Header[f][2])
  <2>1. /\ h.magic \in 0 .. Weight(Header.magic[2]) - 1
        /\ h.version \in 0 .. Weight(Header.version[2]) - 1
        /\ h.type \in 0 .. Weight(Header.type[2]) - 1
        /\ h.seq \in 0 .. Weight(Header.seq[2]) - 1
    BY <1>1, <1>2, <1>3, <1>4
  <2>. HIDE DEF h
  <2>2. SUFFICES ASSUME NEW f \in DOMAIN Header
                 PROVE  h[f] \in 0 .. Weight(Header[f][2]) - 1
    BY <1>5
  <2>. QED
    BY <1>4, <2>1
<1>. QED
  BY <1>7, <1>8 DEF FieldSet

LEMMA ReadHeader ==
  ASSUME NEW m, IsMessage(m), NEW d, PartOf(d, m), Len(d) >= 8
  PROVE  HeaderParses(d) /\ Get(d, 5, 1) = m.type /\ Get(d, 6, 2) = m.seq
<1>1. \A k \in 0 .. 7 : ByteAt(d, 0 + k) = FieldByte(Header, HeaderValues(m), k)
  <2>1. \A k \in 0 .. 7 : k \in 0 .. Len(d) - 1 /\ 0 + k = k
    BY SMT DEF PartOf
  <2>2. \A k \in 0 .. Len(d) - 1 : ByteAt(d, k) = ByteAt(PackedBytes(m), k)
    BY DEF PartOf
  <2>3. \A k \in 0 .. 7 :
           ByteAt(PackedBytes(m), k) = FieldByte(Header, HeaderValues(m), k)
    BY Laid
  <2>. QED
    BY <2>1, <2>2, <2>3, Zenon
<1>2. FieldValues(Header, d, 0) = HeaderValues(m)
  <2>1. \A k \in 0 .. 8 - 1 : ByteAt(d, 0 + k) = FieldByte(Header, HeaderValues(m), k)
    BY <1>1, SMT
  <2>. QED
    BY <2>1, HeaderFields, ProperHeader, ReadFields
<1>3. /\ FieldValues(Header, d, 0).magic = Get(d, 0, 4)
      /\ FieldValues(Header, d, 0).type = Get(d, 5, 1)
      /\ FieldValues(Header, d, 0).seq = Get(d, 6, 2)
  BY SMT DEF FieldValues, Header, Signed
<1>4. HeaderValues(m).magic = Magic /\ HeaderValues(m).type = m.type
      /\ HeaderValues(m).seq = m.seq
  BY DEF HeaderValues
<1>. QED
  BY <1>2, <1>3, <1>4 DEF HeaderParses, HeaderSize

LEMMA ReadMessageFields ==
  ASSUME NEW m, IsMessage(m), m.type # BYE, NEW d, PartOf(d, m),
         Len(d) >= 8 + FixedSize(m.type)
  PROVE  FieldValues(GetFields(m.type), d, 8) = SentFields(m)
<1>. DEFINE F == FixedSize(m.type)
<1>1. /\ F \in Nat /\ Proper(PutFields(m.type), F)
      /\ GetFields(m.type) = PutFields(m.type)
      /\ SentFields(m) \in FieldSet(PutFields(m.type))
  BY MessageShape, Kinds, Sent
<1>2. \A k \in 0 .. F - 1 :
         ByteAt(PackedBytes(m), 8 + k)
           = FieldByte(PutFields(m.type), SentFields(m), k)
  BY Laid, Sent, Zenon
<1>3. Len(d) \in Nat /\ Len(d) >= 8 + F
      /\ \A k \in 0 .. Len(d) - 1 : ByteAt(d, k) = ByteAt(PackedBytes(m), k)
  BY DEF PartOf
<1>. HIDE DEF F
<1>4. \A k \in 0 .. F - 1 : 8 + k \in 0 .. Len(d) - 1
  BY <1>1, <1>3, SMT
<1>5. \A k \in 0 .. F - 1 :
         ByteAt(d, 8 + k) = FieldByte(PutFields(m.type), SentFields(m), k)
  BY <1>2, <1>3, <1>4, Zenon
<1>. QED
  BY <1>1, <1>5, ReadFields

(* A parser takes no part of a message for a message; but a BYE is told by its
   header. *)
THEOREM PartIsRefused ==
  ASSUME NEW m, IsMessage(m), NEW d, PartOf(d, m), Len(d) < Need(m)
  PROVE  Parse(d) = Refused \/ Parse(d)[1].type = BYE
<1>. DEFINE t == Get(d, 5, 1)
            v == FieldValues(GetFields(t), d, HeaderSize)
            size == Len(d) - HeaderSize
            p == [type |-> t, seq |-> Get(d, 6, 2), fields |-> v,
                  payload |-> Copied(t, v, d), states |-> Bodies(t, v, d)]
<1>1. Parse(d) = IF ~HeaderParses(d) \/ t \notin Types \/ size < LeastSize(t)
                   THEN Refused
                 ELSE IF ~Follows(t, v) \/ ~Complete(t, v, size) THEN Refused
                 ELSE <<p>>
  BY Zenon DEF Parse
<1>. HIDE DEF p
<1>2. CASE Len(d) < 8
  <2>1. ~HeaderParses(d)
    BY <1>2, SMT DEF HeaderParses, HeaderSize, PartOf
  <2>. QED
    BY <1>1, <2>1, Zenon
<1>3. CASE Len(d) >= 8 /\ m.type = BYE
  <2>1. p.type = BYE
    BY <1>3, ReadHeader DEF p
  <2>2. Parse(d) = Refused \/ Parse(d) = <<p>>
    BY <1>1, Zenon
  <2>. QED
    BY <2>1, <2>2
<1>4. CASE Len(d) >= 8 /\ m.type # BYE
  <2>1. t = m.type
    BY <1>4, ReadHeader
  <2>2. LeastSize(t) = FixedSize(m.type) /\ FixedSize(m.type) \in Nat
    BY <1>4, <2>1, MessageShape, Kinds
  <2>3. CASE size < LeastSize(t)
    BY <1>1, <2>3, Zenon
  <2>4. CASE ~(size < LeastSize(t))
    <3>. DEFINE F == FixedSize(m.type)
                P == Len(m.payload)
                S == Len(m.states)
    <3>1. Len(d) >= 8 + FixedSize(m.type)
      BY <2>2, <2>4, SMT DEF PartOf, HeaderSize
    <3>2. v = SentFields(m) /\ Rest(m.type, v) = P + 26 * S
      BY <1>4, <2>1, <3>1, ReadMessageFields, MessageShape, Sent DEF HeaderSize
    <3>3. Complete(t, v, size) <=> Len(d) - 8 >= F + (P + 26 * S)
      BY <2>1, <2>2, <3>2 DEF Complete, HeaderSize
    <3>4. /\ F \in Nat /\ P \in Nat /\ S \in Nat
          /\ Len(d) \in Nat /\ Len(d) < 8 + F + P + 26 * S
      BY <2>2, MessageShape DEF PartOf
    <3>. HIDE DEF F, P, S
    <3>5. ~(Len(d) - 8 >= F + (P + 26 * S))
      BY <3>4, SMT
    <3>. QED
      BY <1>1, <3>3, <3>5, Zenon
  <2>. QED
    BY <2>3, <2>4
<1>. QED
  <2>1. Len(d) < 8 \/ Len(d) >= 8
    BY SMT DEF PartOf
  <2>. QED
    BY <1>2, <1>3, <1>4, <2>1

(* The bodies are read back. *)
LEMMA ReadStates ==
  ASSUME NEW m, IsMessage(m), m.type \in {INPUT, INPUT_BUNDLE}, NEW n,
         n = Len(m.states)
  PROVE  States(PackedBytes(m), 8 + FixedSize(m.type), n) = m.states
<1>. DEFINE d == PackedBytes(m)
            F == FixedSize(m.type)
<1>1. F \in Nat /\ m.states \in Seq(FieldSet(StatePut)) /\ n \in Nat
  BY MessageShape, Kinds
<1>2. \A i \in 1 .. n : \A k \in 0 .. 25 :
         ByteAt(d, 8 + F + (i - 1) * 26 + k) = FieldByte(StatePut, m.states[i], k)
  BY Laid, Zenon
<1>. HIDE DEF d, F
<1>3. ASSUME NEW i \in 1 .. n
      PROVE  FieldValues(StateGet, d, 8 + F + (i - 1) * 26) = m.states[i]
  <2>1. 8 + F + (i - 1) * 26 \in Nat /\ 26 \in Nat
    BY <1>1, SMT
  <2>2. m.states[i] \in FieldSet(StatePut)
    BY <1>1
  <2>3. \A k \in 0 .. 26 - 1 : k \in 0 .. 25
    BY SMT
  <2>. QED
    BY <1>2, <2>1, <2>2, <2>3, ProperState, ReadFields
<1>4. States(d, 8 + F, n)
        = [i \in 1 .. n |-> FieldValues(StateGet, d, 8 + F + (i - 1) * 26)]
  BY DEF States, StateSize
<1>5. m.states = [i \in 1 .. n |-> m.states[i]]
  BY <1>1
<1>6. [i \in 1 .. n |-> FieldValues(StateGet, d, 8 + F + (i - 1) * 26)]
        = [i \in 1 .. n |-> m.states[i]]
  BY <1>3, Zenon
<1>. QED
  BY <1>4, <1>5, <1>6 DEF d, F

(* What is packed is parsed to itself, but for the end of a name, the reason of
   a BYE and the last two fields of a CONFIG, which have no bytes: whatever the
   message, in a buffer with the room for it. *)
THEOREM WholeIsKept ==
  ASSUME NEW m, IsMessage(m), Packs(m, Need(m))
  PROVE  Parse(PackedBytes(m)) = <<Kept(m)>>
<1>. DEFINE d == PackedBytes(m)
            t == Get(d, 5, 1)
            v == FieldValues(GetFields(t), d, HeaderSize)
            size == Len(d) - HeaderSize
            p == [type |-> t, seq |-> Get(d, 6, 2), fields |-> v,
                  payload |-> Copied(t, v, d), states |-> Bodies(t, v, d)]
            F == FixedSize(m.type)
            P == Len(m.payload)
            S == Len(m.states)
<1>1. Parse(d) = IF ~HeaderParses(d) \/ t \notin Types \/ size < LeastSize(t)
                   THEN Refused
                 ELSE IF ~Follows(t, v) \/ ~Complete(t, v, size) THEN Refused
                 ELSE <<p>>
  BY Zenon DEF Parse
<1>2. /\ m.type \in Types /\ F \in Nat /\ P \in Nat /\ S \in Nat
      /\ Len(d) = 8 + F + P + 26 * S /\ Len(d) = Need(m)
      /\ Rest(m.type, m.fields) = P + 26 * S
  BY MessageShape, Kinds, Laid
<1>3. /\ Len(d) \in Nat /\ Len(d) >= 8 /\ Len(d) >= 8 + F
      /\ Len(d) - 8 >= F + (P + 26 * S)
      /\ ~(Len(d) - 8 < F) /\ ~(Len(d) - 8 < 0) /\ Len(d) - 8 >= 0 + 0
      /\ Len(d) <= Len(d)
  <2>. HIDE DEF d, F, P, S
  <2>. QED
    BY <1>2, SMT
<1>4. PartOf(d, m)
  BY <1>2, <1>3 DEF PartOf
<1>5. HeaderParses(d) /\ t = m.type /\ Get(d, 6, 2) = m.seq
  BY <1>3, <1>4, ReadHeader
<1>6. m = [type |-> m.type, seq |-> m.seq, fields |-> m.fields,
           payload |-> m.payload, states |-> m.states]
  BY DEF IsMessage
<1>7. CASE m.type = BYE
  <2>1. v = NoFields
    <3>1. GetFields(t) = NoFields
      BY <1>2, <1>5, <1>7, Kinds
    <3>2. DOMAIN NoFields = {}
      BY DEF NoFields
    <3>3. v = [f \in {} |-> IF f \in Signed
                 THEN GetSigned(d, HeaderSize + NoFields[f][1], NoFields[f][2])
                 ELSE Get(d, HeaderSize + NoFields[f][1], NoFields[f][2])]
      BY <3>1, <3>2, Zenon DEF FieldValues
    <3>4. NoFields = [f \in {} |-> <<0, 0>>]
      BY DEF NoFields
    <3>. HIDE DEF v
    <3>. QED
      BY <3>3, <3>4
  <2>2. LeastSize(t) = 0 /\ Rest(t, v) = 0 /\ Follows(t, v)
        /\ Copied(t, v, d) = << >> /\ Bodies(t, v, d) = << >>
    <3>. HIDE DEF t, v, d
    <3>. QED
      BY <1>5, <1>7 DEF LeastSize, Rest, Follows, Copied, Bodies, HELLO, VIDEO,
                        AUDIO, INPUT, INPUT_BUNDLE, BYE
  <2>3. Complete(t, v, size) /\ ~(size < LeastSize(t))
    BY <1>3, <2>2 DEF Complete, HeaderSize
  <2>4. m.payload = << >> /\ m.states = << >>
    <3>1. m.type \notin {HELLO, VIDEO, AUDIO} /\ m.type \notin {INPUT, INPUT_BUNDLE}
      BY <1>7 DEF HELLO, VIDEO, AUDIO, INPUT, INPUT_BUNDLE, BYE
    <3>. QED
      BY <3>1, MessageShape
  <2>5. Kept(m) = [type |-> m.type, seq |-> m.seq, fields |-> NoFields,
                   payload |-> << >>, states |-> << >>]
    BY <1>6, <1>7, <2>4 DEF Kept, HELLO, BYE, CONFIG
  <2>6. p = Kept(m)
    BY <1>5, <2>1, <2>2, <2>5
  <2>. HIDE DEF p, t, v, d
  <2>. QED
    BY <1>1, <1>2, <1>5, <2>2, <2>3, <2>6 DEF d
<1>8. CASE m.type # BYE
  <2>1. v = SentFields(m) /\ LeastSize(t) = F /\ Rest(t, v) = P + 26 * S
        /\ (m.type # CONFIG => v = m.fields)
    BY <1>2, <1>3, <1>4, <1>5, <1>8, ReadMessageFields, Kinds, Sent DEF HeaderSize
  <2>2. Follows(t, v)
    <3>1. /\ m.type \in {VIDEO, AUDIO} => Len(m.payload) <= MaxSlice
          /\ m.type = INPUT_BUNDLE => Len(m.states) <= MaxPlayers
      BY DEF Packs
    <3>2. m.type = VIDEO => m.fields.sliceIndex < m.fields.sliceCount
      BY DEF IsMessage
    <3>3. Follows(m.type, m.fields)
      BY <3>1, <3>2, MessageShape DEF Follows
    <3>. HIDE DEF t, v, d
    <3>. QED
      BY <1>5, <2>1, <3>3, Sent
  <2>3. Complete(t, v, size) /\ ~(size < LeastSize(t))
    <3>1. Complete(t, v, size) <=> Len(d) - 8 >= F + (P + 26 * S)
      BY <1>2, <1>5, <2>1 DEF Complete, HeaderSize
    <3>. QED
      BY <1>3, <2>1, <3>1 DEF HeaderSize
  <2>4. Bodies(t, v, d) = m.states
    <3>1. CASE m.type \in {INPUT, INPUT_BUNDLE}
      <4>1. States(d, 8 + F, Len(m.states)) = m.states
        BY <3>1, ReadStates
      <4>2. v = m.fields
        BY <2>1, <3>1 DEF CONFIG, INPUT, INPUT_BUNDLE
      <4>3. Bodies(t, v, d) = States(d, 8 + F, Len(m.states))
        BY <1>5, <3>1, <4>2, MessageShape
           DEF Bodies, HeaderSize, INPUT, INPUT_BUNDLE
      <4>. QED
        BY <4>1, <4>3
    <3>2. CASE m.type \notin {INPUT, INPUT_BUNDLE}
      BY <1>5, <3>2, MessageShape DEF Bodies
    <3>. QED
      BY <3>1, <3>2
  <2>5. ASSUME m.type \in {HELLO, VIDEO, AUDIO}
        PROVE  Copied(t, v, d)
                 = [i \in 1 .. P |-> IF m.type = HELLO /\ i = NameLen
                                       THEN 0 ELSE m.payload[i]]
    <3>1. Rest(t, v) = P
      <4>1. S = 0
        <5>1. m.type \notin {INPUT, INPUT_BUNDLE}
          BY <2>5 DEF HELLO, VIDEO, AUDIO, INPUT, INPUT_BUNDLE
        <5>2. m.states = << >> /\ Len(<< >>) = 0
          BY <5>1, MessageShape
        <5>. QED
          BY <5>2
      <4>. HIDE DEF P, S
      <4>. QED
        BY <1>2, <1>5, <2>1, <4>1, SMT
    <3>2. \A i \in 1 .. P : ByteAt(d, 8 + F + i - 1) = m.payload[i]
      BY <2>5, Laid, Zenon
    <3>3. Copied(t, v, d)
            = [i \in 1 .. Rest(t, v) |->
                 IF t = HELLO /\ i = NameLen
                   THEN 0 ELSE ByteAt(d, 8 + FixedSize(t) + i - 1)]
      <4>1. t \in {HELLO, VIDEO, AUDIO}
        BY <1>5, <2>5
      <4>. QED
        BY <4>1, Zenon DEF Copied, HeaderSize
    <3>4. Copied(t, v, d)
            = [i \in 1 .. P |-> IF m.type = HELLO /\ i = NameLen
                                  THEN 0 ELSE ByteAt(d, 8 + F + i - 1)]
      BY <1>5, <3>1, <3>3, Zenon
    <3>. HIDE DEF t, v, d, F, P
    <3>. QED
      BY <3>2, <3>4, Zenon
  <2>6. m.payload \in Seq(Digits) /\ P \in Nat
        /\ m.payload = [i \in 1 .. P |-> m.payload[i]]
    <3>1. m.payload \in Seq(Digits) /\ P \in Nat
      BY MessageShape
    <3>2. \A s \in Seq(Digits) : s = [i \in 1 .. Len(s) |-> s[i]]
      OBVIOUS
    <3>. QED
      BY <3>1, <3>2
  <2>7. CASE m.type = HELLO
    <3>1. P = NameLen /\ NameLen \in Nat \ {0}
      BY <2>7, MessageShape, SizeAssumption
    <3>2. Copied(t, v, d)
            = [i \in 1 .. P |-> IF i = NameLen THEN 0 ELSE m.payload[i]]
      BY <2>5, <2>7, Zenon
    <3>. HIDE DEF P
    <3>3. Copied(t, v, d) = [m.payload EXCEPT ![NameLen] = 0]
      BY <2>6, <3>1, <3>2
    <3>0. v = m.fields
      BY <2>1, <2>7 DEF CONFIG, HELLO
    <3>4. Kept(m) = [type |-> m.type, seq |-> m.seq, fields |-> m.fields,
                     payload |-> [m.payload EXCEPT ![NameLen] = 0],
                     states |-> m.states]
      BY <1>6, <2>7 DEF Kept, HELLO, BYE, CONFIG
    <3>5. p = Kept(m)
      BY <1>5, <2>4, <3>0, <3>3, <3>4
    <3>. HIDE DEF p, t, v, d
    <3>. QED
      BY <1>1, <1>2, <1>5, <2>2, <2>3, <3>5 DEF d
  <2>8. CASE m.type # HELLO
    <3>1. Copied(t, v, d) = m.payload
      <4>1. CASE m.type \in {VIDEO, AUDIO}
        <5>1. Copied(t, v, d) = [i \in 1 .. P |-> m.payload[i]]
          BY <2>5, <2>8, <4>1, Zenon
        <5>. QED
          BY <2>6, <5>1
      <4>2. CASE m.type \notin {VIDEO, AUDIO}
        BY <1>5, <2>8, <4>2, MessageShape DEF Copied
      <4>. QED
        BY <4>1, <4>2
    <3>2. Kept(m) = [type |-> m.type, seq |-> m.seq, fields |-> SentFields(m),
                     payload |-> m.payload, states |-> m.states]
      <4>1. CASE m.type = CONFIG
        <5>1. Kept(m) = [m EXCEPT !.fields.audioChannels = 0, !.fields.flags = 0]
          BY <1>8, <2>8, <4>1, Zenon DEF Kept
        <5>2. SentFields(m) = [m.fields EXCEPT !.audioChannels = 0, !.flags = 0]
          BY <4>1 DEF SentFields
        <5>. QED
          BY <1>6, <5>1, <5>2
      <4>2. CASE m.type # CONFIG
        BY <1>6, <1>8, <2>8, <4>2 DEF Kept, SentFields
      <4>. QED
        BY <4>1, <4>2
    <3>3. p = Kept(m)
      BY <1>5, <2>1, <2>4, <3>1, <3>2
    <3>. HIDE DEF p, t, v, d
    <3>. QED
      BY <1>1, <1>2, <1>5, <2>2, <2>3, <3>3 DEF d
  <2>. QED
    BY <2>7, <2>8
<1>. QED
  BY <1>7, <1>8

LEMMA PackedDigits ==
  ASSUME NEW m, IsMessage(m)
  PROVE  PackedBytes(m) \in Seq(Digits)
<1>. DEFINE F == FixedSize(m.type)
            N == Need(m)
            P == Len(m.payload)
            S == Len(m.states)
<1>1. /\ F \in Nat /\ N \in Nat /\ P \in Nat /\ S \in Nat
      /\ N = 8 + F + P + 26 * S
  BY MessageShape, Kinds
<1>2. /\ m.type \notin {HELLO, VIDEO, AUDIO} => P = 0
      /\ m.type \notin {INPUT, INPUT_BUNDLE} => S = 0
  <2>1. Len(<< >>) = 0
    OBVIOUS
  <2>. QED
    BY <2>1, MessageShape
<1>3. m.payload \in Seq(Digits) /\ m.states \in Seq(FieldSet(StatePut))
  BY MessageShape
<1>4. \A i \in 1 .. P : m.payload[i] \in Digits
  BY <1>3
<1>5. \A i \in 1 .. S : m.states[i] \in [DOMAIN StatePut -> Int]
  BY <1>3 DEF FieldSet
<1>6. \A k \in 0 .. 7 : FieldByte(Header, HeaderValues(m), k) \in Digits
  <2>1. HeaderValues(m) \in [DOMAIN Header -> Int]
    BY HeaderFields DEF FieldSet
  <2>2. \A k \in 0 .. 7 : k \in 0 .. 8 - 1
    BY SMT
  <2>. QED
    BY <2>1, <2>2, ProperHeader, FieldDigits
<1>7. \A k \in 0 .. F - 1 : FieldByte(PutFields(m.type), m.fields, k) \in Digits
  <2>1. m.fields \in [DOMAIN PutFields(m.type) -> Int]
        /\ Proper(PutFields(m.type), F)
    BY MessageShape, Kinds, Sent
  <2>. QED
    BY <1>1, <2>1, FieldDigits
<1>. HIDE DEF F, N, P, S
<1>8. ASSUME NEW k \in 0 .. N - 9
      PROVE  PayloadByte(m, k) \in Digits
  <2>1. CASE k < F
    <3>1. k - F < 0 /\ k \in 0 .. F - 1
      BY <1>1, <2>1, SMT
    <3>. QED
      BY <1>7, <3>1 DEF PayloadByte, F
  <2>2. CASE ~(k < F) /\ m.type \in {HELLO, VIDEO, AUDIO}
    <3>1. m.type \notin {INPUT, INPUT_BUNDLE}
      BY <2>2 DEF HELLO, VIDEO, AUDIO, INPUT, INPUT_BUNDLE
    <3>2. S = 0
      BY <1>2, <3>1
    <3>3. ~(k - F < 0) /\ (k - F) + 1 \in 1 .. P
      BY <1>1, <2>2, <3>2, SMT
    <3>4. PayloadByte(m, k) = m.payload[(k - F) + 1]
      BY <2>2, <3>3 DEF PayloadByte, F
    <3>. QED
      BY <1>4, <3>3, <3>4
  <2>3. CASE ~(k < F) /\ m.type \in {INPUT, INPUT_BUNDLE}
    <3>1. m.type \notin {HELLO, VIDEO, AUDIO}
      BY <2>3 DEF HELLO, VIDEO, AUDIO, INPUT, INPUT_BUNDLE
    <3>2. P = 0
      BY <1>2, <3>1
    <3>. DEFINE r == k - F
    <3>3. ~(r < 0) /\ r \in 0 .. 26 * S - 1
      BY <1>1, <2>3, <3>2, SMT
    <3>4. r % 26 \in 0 .. 26 - 1 /\ r \div 26 + 1 \in 1 .. S
      <4>. HIDE DEF r
      <4>. QED
        BY <1>1, <3>3, SMT
    <3>5. PayloadByte(m, k) = FieldByte(StatePut, m.states[r \div 26 + 1], r % 26)
      BY <2>3, <3>1, <3>3 DEF PayloadByte, StateSize, F
    <3>. HIDE DEF r
    <3>6. FieldByte(StatePut, m.states[r \div 26 + 1], r % 26) \in Digits
      BY <1>5, <3>4, ProperState, FieldDigits
    <3>. QED
      BY <3>5, <3>6
  <2>4. CASE m.type \notin {HELLO, VIDEO, AUDIO} /\ m.type \notin {INPUT, INPUT_BUNDLE}
    <3>1. P = 0 /\ S = 0
      BY <1>2, <2>4
    <3>2. k < F
      BY <1>1, <3>1, SMT
    <3>. QED
      BY <2>1, <3>2
  <2>. QED
    BY <2>1, <2>2, <2>3, <2>4
<1>9. ASSUME NEW k \in 1 .. N
      PROVE  (IF k <= 8 THEN FieldByte(Header, HeaderValues(m), k - 1)
              ELSE PayloadByte(m, k - 8 - 1)) \in Digits
  <2>1. CASE k <= 8
    <3>1. k - 1 \in 0 .. 7
      BY <1>1, <2>1, SMT
    <3>. QED
      BY <1>6, <2>1, <3>1
  <2>2. CASE ~(k <= 8)
    <3>1. k - 8 - 1 \in 0 .. N - 9
      BY <1>1, <2>2, SMT
    <3>. QED
      BY <1>8, <2>2, <3>1
  <2>. QED
    BY <2>1, <2>2
<1>10. PackedBytes(m) = [k \in 1 .. N |->
          IF k <= 8 THEN FieldByte(Header, HeaderValues(m), k - 1)
          ELSE PayloadByte(m, k - 8 - 1)]
  BY DEF PackedBytes, HeaderSize, N
<1>11. PackedBytes(m) \in [1 .. N -> Digits]
  BY <1>9, <1>10, Zenon
<1>. QED
  BY <1>1, <1>11

(* What is read of bytes that arrived is a value of its field. *)
LEMMA ReadRange ==
  ASSUME NEW f, NEW d \in Seq(Digits), NEW at \in Nat, NEW w \in {1, 2, 4},
         at + w <= Len(d)
  PROVE  Read(f, d, at, w) \in FieldRange(f, w) /\ Read(f, d, at, w) \in Int
<1>. DEFINE W == Weight(w)
            v == Get(d, at, w)
<1>1. W \in Nat \ {0}
  <2>1. w \in 0 .. 4
    BY SMT
  <2>. QED
    BY <2>1, Weights
<1>2. v \in 0 .. W - 1
  BY GetRange
<1>3. Read(f, d, at, w)
        = IF f \in Signed THEN (IF 2 * v >= W THEN v - W ELSE v) ELSE v
  BY DEF Read, GetSigned
<1>4. FieldRange(f, w)
        = IF f \in Signed THEN -(W \div 2) .. ((W - 1) \div 2) ELSE 0 .. W - 1
  BY DEF FieldRange
<1>. HIDE DEF W, v
<1>5. 2 * v >= W => v - W \in -(W \div 2) .. ((W - 1) \div 2)
  BY <1>1, <1>2, SMT
<1>6. ~(2 * v >= W) => v \in -(W \div 2) .. ((W - 1) \div 2)
  BY <1>1, <1>2, SMT
<1>7. v \in Int /\ v - W \in Int
  BY <1>1, <1>2, SMT
<1>. QED
  BY <1>2, <1>3, <1>4, <1>5, <1>6, <1>7

LEMMA ReadFieldSet ==
  ASSUME NEW layout, NEW size \in Nat, Proper(layout, size),
         NEW d \in Seq(Digits), NEW base \in Nat, base + size <= Len(d)
  PROVE  FieldValues(layout, d, base) \in FieldSet(layout)
<1>1. FieldValues(layout, d, base)
        = [f \in DOMAIN layout |-> Read(f, d, base + layout[f][1], layout[f][2])]
  BY Zenon DEF FieldValues, Read
<1>2. ASSUME NEW f \in DOMAIN layout
      PROVE  LET r == Read(f, d, base + layout[f][1], layout[f][2])
             IN r \in FieldRange(f, layout[f][2]) /\ r \in Int
  <2>. DEFINE o == layout[f][1]
              w == layout[f][2]
  <2>1. o \in Nat /\ w \in {0, 1, 2, 4} /\ o + w <= size
    BY DEF Proper
  <2>2. base + o \in Nat /\ (base + o) + w <= Len(d)
    <3>. HIDE DEF o, w
    <3>. QED
      BY <2>1, SMT
  <2>. HIDE DEF o, w
  <2>3. CASE w = 0
    BY <2>3, ReadNothing DEF o, w
  <2>4. CASE w \in {1, 2, 4}
    BY <2>2, <2>4, ReadRange DEF o, w
  <2>. QED
    BY <2>1, <2>3, <2>4
<1>3. FieldValues(layout, d, base) \in [DOMAIN layout -> Int]
  BY <1>1, <1>2
<1>. QED
  BY <1>1, <1>2, <1>3 DEF FieldSet

(* What the layout of a CONFIG leaves for a field can be given to it. *)
LEMMA PutIsGiven ==
  ASSUME NEW t, NEW v \in FieldSet(PutFields(t))
  PROVE  v \in FieldSet(GivenFields(t))
<1>1. CASE t # CONFIG
  BY <1>1 DEF GivenFields
<1>2. CASE t = CONFIG
  <2>. DEFINE G == GivenFields(CONFIG)
              lost == LostFields
  <2>1. /\ v \in [DOMAIN ConfigPut -> Int]
        /\ \A f \in DOMAIN ConfigPut : v[f] \in FieldRange(f, ConfigPut[f][2])
    BY <1>2, ConfigLayouts DEF FieldSet
  <2>2. /\ DOMAIN G = DOMAIN ConfigPut
        /\ \A f \in DOMAIN ConfigPut : f \notin lost => G[f] = ConfigPut[f]
        /\ \A f \in lost \cap DOMAIN ConfigPut :
             ConfigPut[f][2] = 0 /\ G[f][2] = 1
    BY ConfigLayouts
  <2>3. \A f \in lost : FieldRange(f, 1) = 0 .. Weight(1) - 1
    BY DEF FieldRange, Signed, LostFields
  <2>4. 0 \in 0 .. Weight(1) - 1
    BY Weights, SMT
  <2>5. GivenFields(t) = G
    BY <1>2
  <2>. HIDE DEF G
  <2>6. \A f \in DOMAIN G : v[f] \in FieldRange(f, G[f][2])
    <3>1. SUFFICES ASSUME NEW f \in DOMAIN G
                   PROVE  v[f] \in FieldRange(f, G[f][2])
      OBVIOUS
    <3>2. CASE f \in lost
      <4>1. v[f] \in FieldRange(f, 0) /\ G[f][2] = 1
        BY <2>1, <2>2, <3>2
      <4>2. v[f] = 0
        BY <4>1, ReadNothing
      <4>. QED
        BY <2>3, <2>4, <3>2, <4>1, <4>2
    <3>3. CASE f \notin lost
      BY <2>1, <2>2, <3>3
    <3>. QED
      BY <3>2, <3>3
  <2>. QED
    BY <2>1, <2>2, <2>5, <2>6 DEF FieldSet
<1>. QED
  BY <1>1, <1>2

(* Whatever arrives, what the parsers make of it is a message that could have
   been packed, and all of it was there; a BYE is its header alone. *)
THEOREM ParsedIsSound ==
  ASSUME NEW d \in Seq(Digits), Parse(d) # Refused
  PROVE  /\ \E m : Parse(d) = <<m>>
         /\ Parse(d)[1].type # BYE => IsMessage(Parse(d)[1])
         /\ Sound(Parse(d)[1], Len(d))
<1>. DEFINE t == Get(d, 5, 1)
            v == FieldValues(GetFields(t), d, HeaderSize)
            size == Len(d) - HeaderSize
            p == [type |-> t, seq |-> Get(d, 6, 2), fields |-> v,
                  payload |-> Copied(t, v, d), states |-> Bodies(t, v, d)]
            F == FixedSize(t)
            R == Rest(t, v)
<1>1. Parse(d) = IF ~HeaderParses(d) \/ t \notin Types \/ size < LeastSize(t)
                   THEN Refused
                 ELSE IF ~Follows(t, v) \/ ~Complete(t, v, size) THEN Refused
                 ELSE <<p>>
  BY Zenon DEF Parse
<1>. HIDE DEF p
<1>2. /\ HeaderParses(d) /\ t \in Types /\ ~(size < LeastSize(t))
      /\ Follows(t, v) /\ Complete(t, v, size)
      /\ Parse(d) = <<p>>
  BY <1>1, Zenon
<1>3. Parse(d)[1] = p
  BY <1>2
<1>4. /\ p.type = t /\ p.fields = v /\ p.payload = Copied(t, v, d)
      /\ p.states = Bodies(t, v, d) /\ p.seq = Get(d, 6, 2)
      /\ p = [type |-> p.type, seq |-> p.seq, fields |-> p.fields,
              payload |-> p.payload, states |-> p.states]
  BY DEF p
<1>5. Len(d) \in Nat /\ Len(d) >= 8 /\ F \in Nat
  BY <1>2, Kinds DEF HeaderParses, HeaderSize
<1>6. CASE t = BYE
  <2>1. Copied(t, v, d) = << >> /\ Bodies(t, v, d) = << >>
        /\ LeastSize(t) = 0 /\ R = 0
    <3>1. t = BYE /\ t \notin {HELLO, VIDEO, AUDIO, INPUT, INPUT_BUNDLE}
      BY <1>6 DEF BYE, HELLO, VIDEO, AUDIO, INPUT, INPUT_BUNDLE
    <3>. HIDE DEF t, v
    <3>. QED
      BY <3>1 DEF Copied, Bodies, LeastSize, Rest
  <2>2. 8 + 0 + 0 <= Len(d) /\ Len(<< >>) <= MaxPlayers
    BY <1>5, SizeAssumption
  <2>3. t \notin {HELLO, VIDEO, AUDIO}
    BY <1>6 DEF BYE, HELLO, VIDEO, AUDIO
  <2>4. Sound(p, Len(d))
    <3>1. HeaderSize + LeastSize(p.type) + Rest(p.type, p.fields) <= Len(d)
      BY <1>4, <2>1, <2>2 DEF HeaderSize
    <3>2. p.payload = << >> /\ p.states = << >> /\ p.type \notin {HELLO, VIDEO, AUDIO}
      BY <1>4, <2>1, <2>3
    <3>3. p.payload \in Seq(Digits) /\ Len(p.states) <= MaxPlayers
      BY <2>2, <3>2
    <3>. QED
      BY <3>1, <3>2, <3>3, Zenon DEF Sound
  <2>. QED
    BY <1>2, <1>3, <1>4, <1>6, <2>4
<1>7. CASE t # BYE
  <2>1. /\ GetFields(t) = PutFields(t) /\ Proper(PutFields(t), F) /\ LeastSize(t) = F
    BY <1>2, <1>7, Kinds
  <2>2. 8 + F <= Len(d)
    <3>1. ~(Len(d) - 8 < F)
      BY <1>2, <2>1 DEF HeaderSize
    <3>. HIDE DEF F
    <3>. QED
      BY <1>5, <3>1, SMT
  <2>3. v \in FieldSet(PutFields(t))
    BY <1>5, <2>1, <2>2, ReadFieldSet DEF HeaderSize
  <2>4. Get(d, 6, 2) \in 0 .. Weight(2) - 1
    <3>1. 6 \in Nat /\ 2 \in {1, 2, 4} /\ 6 + 2 <= Len(d)
      BY <1>5, SMT
    <3>. QED
      BY <3>1, GetRange
  <2>5. /\ t \in {VIDEO, AUDIO} => v.payloadLen \in Nat
        /\ t = VIDEO => v.sliceIndex \in Nat /\ v.sliceCount \in Nat
        /\ t = INPUT_BUNDLE => v.count \in Nat
    <3>. HIDE DEF v, t
    <3>. USE DEF HELLO, HELLO_ACK, CONFIG, VIDEO, AUDIO, INPUT, INPUT_BUNDLE,
                 RUMBLE, PING, PONG, BYE, KEYFRAME_REQ
    <3>0. ASSUME NEW l, v \in FieldSet(l), NEW f \in DOMAIN l, f \notin Signed
          PROVE  v[f] \in Nat
      <4>1. v[f] \in 0 .. Weight(l[f][2]) - 1
        BY <3>0 DEF FieldSet, FieldRange
      <4>. QED
        BY <4>1
    <3>1. ASSUME t = VIDEO
          PROVE  v.payloadLen \in Nat /\ v.sliceIndex \in Nat /\ v.sliceCount \in Nat
      <4>1. v \in FieldSet(VideoPut)
        BY <2>3, <3>1 DEF PutFields
      <4>2. \A f \in {"payloadLen", "sliceIndex", "sliceCount"} :
               f \in DOMAIN VideoPut /\ f \notin Signed
        BY DEF VideoPut, Signed
      <4>. QED
        BY <3>0, <4>1, <4>2
    <3>2. ASSUME t = AUDIO
          PROVE  v.payloadLen \in Nat
      <4>1. v \in FieldSet(AudioPut)
        BY <2>3, <3>2 DEF PutFields
      <4>2. "payloadLen" \in DOMAIN AudioPut /\ "payloadLen" \notin Signed
        BY DEF AudioPut, Signed
      <4>. QED
        BY <3>0, <4>1, <4>2
    <3>3. ASSUME t = INPUT_BUNDLE
          PROVE  v.count \in Nat
      <4>1. v \in FieldSet(BundlePut)
        BY <2>3, <3>3 DEF PutFields
      <4>2. "count" \in DOMAIN BundlePut /\ "count" \notin Signed
        BY DEF BundlePut, Signed
      <4>. QED
        BY <3>0, <4>1, <4>2
    <3>. QED
      BY <3>1, <3>2, <3>3
  <2>6. R \in Nat
    <3>1. \A n \in Nat : 26 * n \in Nat
      BY SMT
    <3>. HIDE DEF v, t
    <3>. QED
      BY <2>5, <3>1, SizeAssumption
         DEF R, Rest, StateSize, HELLO, VIDEO, AUDIO, INPUT, INPUT_BUNDLE
  <2>7. 8 + F + R <= Len(d)
    <3>1. Len(d) - 8 >= F + R
      BY <1>2, <2>1 DEF Complete, HeaderSize
    <3>. HIDE DEF F, R
    <3>. QED
      BY <1>5, <2>6, <3>1, SMT
  <2>8. \A k \in Nat : k < Len(d) => ByteAt(d, k) \in Digits
    <3>1. \A k \in Nat : k < Len(d) => k + 1 \in 1 .. Len(d)
      BY <1>5, SMT
    <3>2. \A k \in 1 .. Len(d) : d[k] \in Digits
      OBVIOUS
    <3>. QED
      BY <3>1, <3>2 DEF ByteAt
  <2>9. /\ Copied(t, v, d) \in Seq(Digits)
        /\ t \in {HELLO, VIDEO, AUDIO} => Len(Copied(t, v, d)) = R
        /\ t \notin {HELLO, VIDEO, AUDIO} => Copied(t, v, d) = << >>
        /\ t = HELLO => Copied(t, v, d)[NameLen] = 0
    <3>1. CASE t \notin {HELLO, VIDEO, AUDIO}
      <4>1. t # HELLO /\ Copied(t, v, d) = << >>
        BY <3>1 DEF Copied
      <4>. HIDE DEF t, v
      <4>. QED
        BY <3>1, <4>1
    <3>2. CASE t \in {HELLO, VIDEO, AUDIO}
      <4>1. Copied(t, v, d)
              = [i \in 1 .. R |-> IF t = HELLO /\ i = NameLen
                                    THEN 0 ELSE ByteAt(d, 8 + F + i - 1)]
        BY <3>2, Zenon DEF Copied, HeaderSize
      <4>2. \A i \in 1 .. R : ByteAt(d, 8 + F + i - 1) \in Digits
        <5>. HIDE DEF F, R
        <5>1. \A i \in 1 .. R : 8 + F + i - 1 \in Nat /\ 8 + F + i - 1 < Len(d)
          BY <1>5, <2>6, <2>7, SMT
        <5>. QED
          BY <2>8, <5>1
      <4>3. 0 \in Digits
        BY Weights, SMT DEF Digits
      <4>4. Copied(t, v, d) \in [1 .. R -> Digits]
        <5>. HIDE DEF F, R, t
        <5>. QED
          BY <4>1, <4>2, <4>3, Zenon
      <4>5. Copied(t, v, d) \in Seq(Digits) /\ Len(Copied(t, v, d)) = R
        <5>. HIDE DEF R
        <5>. QED
          BY <2>6, <4>4
      <4>6. ASSUME t = HELLO
            PROVE  Copied(t, v, d)[NameLen] = 0
        <5>1. R = NameLen
          <6>. HIDE DEF t, v
          <6>. QED
            BY <4>6 DEF R, Rest, HELLO, VIDEO, AUDIO, INPUT, INPUT_BUNDLE
        <5>2. NameLen \in 1 .. R
          BY <5>1, SizeAssumption
        <5>. HIDE DEF F, R, t
        <5>. QED
          BY <4>1, <4>6, <5>2, Zenon
      <4>. QED
        BY <3>2, <4>5, <4>6
    <3>. QED
      BY <3>1, <3>2
  <2>10. /\ Bodies(t, v, d) \in Seq(FieldSet(StatePut))
         /\ t = INPUT => Len(Bodies(t, v, d)) = 1
         /\ t = INPUT_BUNDLE => Len(Bodies(t, v, d)) = v.count
         /\ t \notin {INPUT, INPUT_BUNDLE} => Bodies(t, v, d) = << >>
    <3>1. ASSUME NEW n \in Nat, R = 26 * n
          PROVE  States(d, 8 + F, n) \in Seq(FieldSet(StatePut))
                 /\ Len(States(d, 8 + F, n)) = n
      <4>. HIDE DEF F, R
      <4>1. \A i \in 1 .. n : 8 + F + (i - 1) * 26 \in Nat
                              /\ (8 + F + (i - 1) * 26) + 26 <= Len(d)
        BY <1>5, <2>6, <2>7, <3>1, SMT
      <4>2. \A i \in 1 .. n :
               FieldValues(StateGet, d, 8 + F + (i - 1) * 26) \in FieldSet(StatePut)
        <5>1. 26 \in Nat
          OBVIOUS
        <5>. QED
          BY <4>1, <5>1, ReadFieldSet, ProperState
      <4>3. States(d, 8 + F, n)
              = [i \in 1 .. n |-> FieldValues(StateGet, d, 8 + F + (i - 1) * 26)]
        BY DEF States, StateSize
      <4>4. States(d, 8 + F, n) \in [1 .. n -> FieldSet(StatePut)]
        BY <4>2, <4>3, Zenon
      <4>. QED
        BY <4>4
    <3>2. CASE t = INPUT
      <4>1. R = 26 * 1 /\ Bodies(t, v, d) = States(d, 8 + F, 1)
        <5>1. R = 26
          <6>. HIDE DEF t, v
          <6>. QED
            BY <3>2 DEF R, Rest, StateSize, HELLO, VIDEO, AUDIO, INPUT, INPUT_BUNDLE
        <5>2. Bodies(t, v, d) = States(d, 8 + F, 1)
          <6>. HIDE DEF t, v
          <6>. QED
            BY <3>2 DEF F, Bodies, HeaderSize, INPUT, INPUT_BUNDLE
        <5>. QED
          BY <5>1, <5>2
      <4>2. t # INPUT_BUNDLE /\ 1 \in Nat
        BY <3>2 DEF INPUT, INPUT_BUNDLE
      <4>. QED
        BY <3>1, <3>2, <4>1, <4>2
    <3>3. CASE t = INPUT_BUNDLE
      <4>1. R = 26 * v.count /\ Bodies(t, v, d) = States(d, 8 + F, v.count)
        <5>1. R = 26 * v.count
          <6>. HIDE DEF t, v
          <6>. QED
            BY <3>3 DEF R, Rest, StateSize, HELLO, VIDEO, AUDIO, INPUT, INPUT_BUNDLE
        <5>2. Bodies(t, v, d) = States(d, 8 + F, v.count)
          <6>. HIDE DEF t, v
          <6>. QED
            BY <3>3 DEF F, Bodies, HeaderSize, INPUT, INPUT_BUNDLE
        <5>. QED
          BY <5>1, <5>2
      <4>2. t # INPUT /\ v.count \in Nat
        BY <2>5, <3>3 DEF INPUT, INPUT_BUNDLE
      <4>. QED
        BY <3>1, <3>3, <4>1, <4>2
    <3>4. CASE t \notin {INPUT, INPUT_BUNDLE}
      <4>1. Bodies(t, v, d) = << >>
        BY <3>4 DEF Bodies
      <4>. HIDE DEF t, v
      <4>. QED
        BY <3>4, <4>1
    <3>. QED
      BY <3>2, <3>3, <3>4
  <2>. HIDE DEF t, v, F, R
  <2>11. /\ t = HELLO => R = NameLen
         /\ t \in {VIDEO, AUDIO} => R = v.payloadLen
    BY DEF R, Rest, HELLO, VIDEO, AUDIO, INPUT, INPUT_BUNDLE
  <2>12. /\ t \in {VIDEO, AUDIO} => v.payloadLen <= MaxSlice
         /\ t = VIDEO => v.sliceIndex < v.sliceCount
         /\ t = INPUT_BUNDLE => v.count <= MaxPlayers
    BY <1>2 DEF Follows
  <2>13. Len(p.states) <= MaxPlayers
    <3>1. 1 <= MaxPlayers /\ Len(<< >>) <= MaxPlayers
      BY SizeAssumption
    <3>. QED
      BY <1>4, <2>10, <2>12, <3>1
  <2>14. Sound(p, Len(d))
    <3>1. HeaderSize + LeastSize(p.type) + Rest(p.type, p.fields) <= Len(d)
      BY <1>4, <2>1, <2>7 DEF HeaderSize, R
    <3>2. p.payload \in Seq(Digits)
      BY <1>4, <2>9
    <3>3. p.type \in {VIDEO, AUDIO} => Len(p.payload) <= MaxSlice
      BY <1>4, <2>9, <2>11, <2>12
    <3>4. p.type = VIDEO => p.fields.sliceIndex < p.fields.sliceCount
      BY <1>4, <2>12
    <3>5. p.type = HELLO => p.payload[NameLen] = 0
      BY <1>4, <2>9
    <3>. QED
      BY <3>1, <3>2, <3>3, <3>4, <3>5, <2>13 DEF Sound
  <2>15. IsMessage(p)
    <3>0. v \in FieldSet(GivenFields(t))
      BY <2>3, PutIsGiven
    <3>1. (CASE p.type = HELLO -> Len(p.payload) = NameLen
             [] p.type \in {VIDEO, AUDIO} -> Len(p.payload) = p.fields.payloadLen
             [] OTHER -> p.payload = << >>)
      BY <1>4, <2>9, <2>11 DEF HELLO, VIDEO, AUDIO
    <3>2. (CASE p.type = INPUT -> Len(p.states) = 1
             [] p.type = INPUT_BUNDLE -> Len(p.states) = p.fields.count
             [] OTHER -> p.states = << >>)
      BY <1>4, <2>10 DEF INPUT, INPUT_BUNDLE
    <3>3. /\ p.type \in Types /\ p.seq \in 0 .. Weight(2) - 1
          /\ p.fields \in FieldSet(GivenFields(p.type))
          /\ p.payload \in Seq(Digits) /\ p.states \in Seq(FieldSet(StatePut))
          /\ p.type = VIDEO => p.fields.sliceIndex < p.fields.sliceCount
      BY <1>2, <1>4, <2>4, <2>9, <2>10, <2>12, <3>0
    <3>. QED
      BY <1>4, <3>1, <3>2, <3>3, Zenon DEF IsMessage
  <2>. QED
    BY <1>2, <1>3, <2>14, <2>15
<1>. QED
  BY <1>6, <1>7

-----------------------------------------------------------------------------
(* The messages that are packed here are messages. *)

LEMMA EdgesInRange ==
  ASSUME NEW f, NEW w \in {1, 2, 4}
  PROVE  Edges(f, w) \cup {0} \subseteq FieldRange(f, w) /\ FieldRange(f, w) \subseteq Int
<1>. DEFINE W == Weight(w)
            V == Weight(w - 1)
<1>1. W = V * Base /\ V \in Nat \ {0} /\ Base \in Nat /\ Base > 12
  <2>1. CASE w = 1
    BY <2>1, Weights, SMT
  <2>2. CASE w = 2
    BY <2>2, Weights, SMT
  <2>3. CASE w = 4
    BY <2>3, Weights, SMT
  <2>. QED
    BY <2>1, <2>2, <2>3
<1>. HIDE DEF W, V
<1>2. W \in Nat /\ W > 12 /\ V <= W - 1
  <2>1. V * Base = V * 13 + V * (Base - 13) /\ V * (Base - 13) >= 0
    BY <1>1, SMT
  <2>. QED
    BY <1>1, <2>1, SMT
<1>3. CASE f \in Signed
  <2>1. {-1, 1 - (W \div 2), (W \div 2) - 1, 0} \subseteq -(W \div 2) .. ((W - 1) \div 2)
        /\ -(W \div 2) .. ((W - 1) \div 2) \subseteq Int
    BY <1>2, SMT
  <2>2. Edges(f, w) = {-1, 1 - (W \div 2), (W \div 2) - 1}
        /\ FieldRange(f, w) = -(W \div 2) .. ((W - 1) \div 2)
    BY <1>3 DEF Edges, FieldRange, W
  <2>. QED
    BY <2>1, <2>2
<1>4. CASE f \notin Signed
  <2>1. {1, V, W - 1, 0} \subseteq 0 .. W - 1 /\ 0 .. W - 1 \subseteq Int
    BY <1>1, <1>2, SMT
  <2>2. Edges(f, w) = {1, V, W - 1} /\ FieldRange(f, w) = 0 .. W - 1
    BY <1>4 DEF Edges, FieldRange, W, V
  <2>. QED
    BY <2>1, <2>2
<1>. QED
  BY <1>3, <1>4

LEMMA ValuesAreFields ==
  ASSUME NEW layout, \A f \in DOMAIN layout : layout[f][2] \in {1, 2, 4}
  PROVE  Values(layout) \subseteq FieldSet(layout)
<1>1. \A f \in DOMAIN layout :
         /\ Edges(f, layout[f][2]) \cup {0} \subseteq FieldRange(f, layout[f][2])
         /\ FieldRange(f, layout[f][2]) \subseteq Int
  BY EdgesInRange
<1>2. [f \in DOMAIN layout |-> 0] \in FieldSet(layout)
  BY <1>1 DEF FieldSet
<1>3. ASSUME NEW g \in DOMAIN layout, NEW v \in Edges(g, layout[g][2])
      PROVE  [f \in DOMAIN layout |-> IF f = g THEN v ELSE 0] \in FieldSet(layout)
  <2>. DEFINE u == [f \in DOMAIN layout |-> IF f = g THEN v ELSE 0]
  <2>1. \A f \in DOMAIN layout : u[f] \in FieldRange(f, layout[f][2])
    BY <1>1
  <2>2. u \in [DOMAIN layout -> Int]
    BY <1>1
  <2>. QED
    BY <2>1, <2>2 DEF FieldSet
<1>. QED
  <2>1. SUFFICES ASSUME NEW u \in Values(layout)
                 PROVE  u \in FieldSet(layout)
    OBVIOUS
  <2>2. CASE u = [f \in DOMAIN layout |-> 0]
    BY <1>2, <2>2
  <2>3. CASE \E g \in DOMAIN layout : \E v \in Edges(g, layout[g][2]) :
               u = [f \in DOMAIN layout |-> IF f = g THEN v ELSE 0]
    BY <1>3, <2>3
  <2>4. u \in UNION {{[f \in DOMAIN layout |-> IF f = g THEN v ELSE 0] :
                       v \in Edges(g, layout[g][2])} : g \in DOMAIN layout}
        \/ u = [f \in DOMAIN layout |-> 0]
    BY <2>1, Zenon DEF Values
  <2>. QED
    BY <2>2, <2>3, <2>4

(* Every field that is given has bytes. *)
LEMMA GivenWidths ==
  /\ \A t \in Types : \A f \in DOMAIN GivenFields(t) :
       GivenFields(t)[f][2] \in {1, 2, 4}
  /\ \A f \in DOMAIN StatePut : StatePut[f][2] \in {1, 2, 4}
<1>1. \A f \in DOMAIN StatePut : StatePut[f][2] \in {1, 2, 4}
  BY DEF StatePut
<1>2. ASSUME NEW t \in Types, NEW f \in DOMAIN GivenFields(t)
      PROVE  GivenFields(t)[f][2] \in {1, 2, 4}
  <2>. USE DEF HELLO, HELLO_ACK, CONFIG, VIDEO, AUDIO, INPUT, INPUT_BUNDLE,
               RUMBLE, PING, PONG, BYE, KEYFRAME_REQ
  <2>1. CASE t = CONFIG
    <3>1. f \in DOMAIN ConfigPut
      BY <2>1, ConfigLayouts
    <3>. QED
      BY <2>1, <3>1, ConfigLayouts
  <2>2. CASE t \in {HELLO, HELLO_ACK, RUMBLE, BYE, KEYFRAME_REQ}
    BY <2>2 DEF GivenFields, PutFields, HelloPut, AckPut, RumblePut, ByePut,
                NoFields
  <2>3. CASE t \in {VIDEO, AUDIO}
    BY <2>3 DEF GivenFields, PutFields, VideoPut, AudioPut
  <2>4. CASE t \in {INPUT, PING, PONG, INPUT_BUNDLE}
    BY <2>4 DEF GivenFields, PutFields, Timestamp, BundlePut
  <2>5. t \in {HELLO, HELLO_ACK, CONFIG, VIDEO, AUDIO, INPUT, INPUT_BUNDLE,
               RUMBLE, PING, PONG, BYE, KEYFRAME_REQ}
    BY SMT DEF Types
  <2>. QED
    BY <2>1, <2>2, <2>3, <2>4, <2>5
<1>. QED
  BY <1>1, <1>2

LEMMA FieldSetExcept ==
  ASSUME NEW layout, NEW v \in FieldSet(layout), NEW f \in DOMAIN layout,
         NEW x \in Int, x \in FieldRange(f, layout[f][2])
  PROVE  [v EXCEPT ![f] = x] \in FieldSet(layout)
BY DEF FieldSet

LEMMA PayloadsAreBytes ==
  ASSUME NEW n \in Nat, NEW p \in Payloads(n)
  PROVE  p \in Seq(Digits) /\ Len(p) = n
<1>1. {0, Base - 1} \subseteq Digits
  BY Weights, SMT DEF Digits
<1>2. p \in [1 .. n -> Digits]
  BY <1>1 DEF Payloads
<1>. QED
  BY <1>2

LEMMA SomeStatesAreBodies ==
  ASSUME NEW n \in Nat, NEW s \in SomeStates(n)
  PROVE  s \in Seq(FieldSet(StatePut)) /\ Len(s) = n
<1>1. NoState \in FieldSet(StatePut)
  <2>1. \A f \in DOMAIN StatePut :
           0 \in FieldRange(f, StatePut[f][2]) /\ FieldRange(f, StatePut[f][2]) \subseteq Int
    <3>1. \A f \in DOMAIN StatePut : StatePut[f][2] \in {1, 2, 4}
      BY GivenWidths
    <3>. QED
      BY <3>1, EdgesInRange
  <2>2. \A f \in {"touchX", "touchY"} :
           /\ f \in DOMAIN StatePut
           /\ FieldRange(f, StatePut[f][2]) = 0 .. Weight(2) - 1
    BY DEF FieldRange, StatePut, Signed
  <2>3. Weight(2) - 1 \in 0 .. Weight(2) - 1
    BY Weights, SMT
  <2>4. \A f \in DOMAIN StatePut : NoState[f] \in FieldRange(f, StatePut[f][2])
    BY <2>1, <2>2, <2>3, Zenon DEF NoState
  <2>5. NoState \in [DOMAIN StatePut -> Int]
    <3>1. Weight(2) - 1 \in Int /\ 0 \in Int
      BY <2>3, SMT
    <3>. QED
      BY <3>1, Zenon DEF NoState
  <2>. QED
    BY <2>4, <2>5 DEF FieldSet
<1>2. Values(StatePut) \subseteq FieldSet(StatePut)
  BY GivenWidths, ValuesAreFields
<1>3. s \in [1 .. n -> FieldSet(StatePut)]
  <2>1. CASE s = [i \in 1 .. n |-> NoState]
    BY <1>1, <2>1
  <2>2. CASE \E j \in 1 .. n, u \in Values(StatePut) : s = OneOf(n, j, u)
    BY <1>1, <1>2, <2>2 DEF OneOf
  <2>3. s = [i \in 1 .. n |-> NoState]
        \/ \E j \in 1 .. n, u \in Values(StatePut) : s = OneOf(n, j, u)
    BY DEF SomeStates
  <2>. QED
    BY <2>1, <2>2, <2>3, Zenon
<1>. QED
  BY <1>3

LEMMA MessagesAreMessages ==
  ASSUME NEW m \in Messages
  PROVE  IsMessage(m)
<1>. USE DEF HELLO, HELLO_ACK, CONFIG, VIDEO, AUDIO, INPUT, INPUT_BUNDLE,
             RUMBLE, PING, PONG, BYE, KEYFRAME_REQ
<1>1. Base \in 0 .. Weight(2) - 1
  <2>1. Base * Base = Base * 13 + Base * (Base - 13) /\ Base * (Base - 13) >= 0
    BY Weights, SMT
  <2>. QED
    BY <2>1, Weights, SMT
<1>2. ASSUME m = [type |-> m.type, seq |-> Base, fields |-> m.fields,
                  payload |-> m.payload, states |-> m.states],
             m.type \in Types, m.fields \in FieldSet(GivenFields(m.type)),
             m.payload \in Seq(Digits), m.states \in Seq(FieldSet(StatePut)),
             \/ m.type = HELLO /\ Len(m.payload) = NameLen
             \/ m.type \in {VIDEO, AUDIO} /\ Len(m.payload) = m.fields.payloadLen
             \/ m.type \notin {HELLO, VIDEO, AUDIO} /\ m.payload = << >>,
             \/ m.type = INPUT /\ Len(m.states) = 1
             \/ m.type = INPUT_BUNDLE /\ Len(m.states) = m.fields.count
             \/ m.type \notin {INPUT, INPUT_BUNDLE} /\ m.states = << >>,
             m.type = VIDEO => m.fields.sliceIndex < m.fields.sliceCount
      PROVE  IsMessage(m)
  BY <1>1, <1>2 DEF IsMessage
<1>3. ASSUME NEW t \in Types
      PROVE  Values(GivenFields(t)) \subseteq FieldSet(GivenFields(t))
  BY GivenWidths, ValuesAreFields
<1>4. << >> \in Seq(Digits) /\ << >> \in Seq(FieldSet(StatePut))
  OBVIOUS
<1>5. /\ GivenFields(HELLO) = HelloPut /\ GivenFields(VIDEO) = VideoPut
      /\ GivenFields(AUDIO) = AudioPut /\ GivenFields(INPUT) = Timestamp
      /\ GivenFields(INPUT_BUNDLE) = BundlePut
  BY DEF GivenFields, PutFields
<1>6. {HELLO, VIDEO, AUDIO, INPUT, INPUT_BUNDLE} \subseteq Types
  BY SMT DEF Types
<1>7. \A x \in 0 .. MaxSlice + 1 : x \in Nat /\ x \in 0 .. Weight(2) - 1
  BY SizeAssumption, Weights, SMT
<1>8. ASSUME NEW t \in Types \ {HELLO, VIDEO, AUDIO, INPUT, INPUT_BUNDLE},
             NEW v \in Values(GivenFields(t)), m = Message(t, v, << >>, << >>)
      PROVE  IsMessage(m)
  <2>1. v \in FieldSet(GivenFields(t))
    BY <1>3
  <2>2. t \notin {HELLO, VIDEO, AUDIO, INPUT, INPUT_BUNDLE}
    OBVIOUS
  <2>3. /\ m.type = t /\ m.fields = v /\ m.payload = << >> /\ m.states = << >>
      /\ m = [type |-> m.type, seq |-> Base, fields |-> m.fields,
              payload |-> m.payload, states |-> m.states]
    BY <1>8 DEF Message
  <2>. QED
    BY <1>2, <1>4, <2>1, <2>2, <2>3
<1>9. ASSUME NEW v \in Values(HelloPut), NEW p \in Payloads(NameLen),
             m = Message(HELLO, v, p, << >>)
      PROVE  IsMessage(m)
  <2>1. v \in FieldSet(GivenFields(HELLO)) /\ HELLO \in Types
    BY <1>3, <1>5, <1>6
  <2>2. p \in Seq(Digits) /\ Len(p) = NameLen
    BY PayloadsAreBytes, SizeAssumption
  <2>3. /\ m.type = HELLO /\ m.fields = v /\ m.payload = p /\ m.states = << >>
      /\ m = [type |-> m.type, seq |-> Base, fields |-> m.fields,
              payload |-> m.payload, states |-> m.states]
    BY <1>9 DEF Message
  <2>. QED
    BY <1>2, <1>4, <2>1, <2>2, <2>3
<1>10. ASSUME NEW v \in Values(VideoPut), v.sliceIndex < Weight(2) - 1,
              NEW p \in AnyPayloads,
              m = Message(VIDEO, SliceFields(v, Len(p)), p, << >>)
       PROVE  IsMessage(m)
  <2>. DEFINE a == [v EXCEPT !.payloadLen = Len(p)]
              u == [a EXCEPT !.sliceCount = v.sliceIndex + 1]
  <2>1. v \in FieldSet(VideoPut) /\ VIDEO \in Types
    BY <1>3, <1>5, <1>6
  <2>2. /\ p \in Seq(Digits) /\ Len(p) \in Int
        /\ Len(p) \in 0 .. Weight(2) - 1
    <3>1. PICK n \in 0 .. MaxSlice + 1 : p \in Payloads(n)
      BY DEF AnyPayloads
    <3>2. p \in Seq(Digits) /\ Len(p) = n
      BY <1>7, <3>1, PayloadsAreBytes
    <3>. QED
      BY <1>7, <3>1, <3>2
  <2>3. /\ \A f \in {"payloadLen", "sliceCount", "sliceIndex"} :
             f \in DOMAIN VideoPut
             /\ FieldRange(f, VideoPut[f][2]) = 0 .. Weight(2) - 1
    BY DEF VideoPut, FieldRange, Signed
  <2>4. DOMAIN v = DOMAIN VideoPut /\ v.sliceIndex \in 0 .. Weight(2) - 1
    BY <2>1, <2>3 DEF FieldSet
  <2>5. v.sliceIndex + 1 \in 0 .. Weight(2) - 1 /\ v.sliceIndex + 1 \in Int
        /\ v.sliceIndex < v.sliceIndex + 1
    <3>. DEFINE x == v.sliceIndex
                W == Weight(2)
    <3>1. x \in 0 .. W - 1 /\ x < W - 1 /\ W \in Nat
      BY <1>10, <2>4, Weights
    <3>. HIDE DEF x, W
    <3>2. x + 1 \in 0 .. W - 1 /\ x + 1 \in Int /\ x < x + 1
      BY <3>1, SMT
    <3>. QED
      BY <3>2 DEF x, W
  <2>6. a \in FieldSet(VideoPut)
    BY <2>1, <2>2, <2>3, FieldSetExcept
  <2>7. u \in FieldSet(VideoPut)
    <3>. HIDE DEF a
    <3>. QED
      BY <2>3, <2>5, <2>6, FieldSetExcept
  <2>8. u = SliceFields(v, Len(p))
    BY DEF SliceFields
  <2>9. u.payloadLen = Len(p) /\ u.sliceIndex = v.sliceIndex
        /\ u.sliceCount = v.sliceIndex + 1
    BY <2>3, <2>4
  <2>. HIDE DEF u
  <2>10. /\ m.type = VIDEO /\ m.fields = u /\ m.payload = p /\ m.states = << >>
      /\ m = [type |-> m.type, seq |-> Base, fields |-> m.fields,
              payload |-> m.payload, states |-> m.states]
    BY <1>10, <2>8 DEF Message
  <2>11. u \in FieldSet(GivenFields(VIDEO))
    BY <1>5, <2>7
  <2>. QED
    BY <1>2, <1>4, <2>1, <2>2, <2>5, <2>9, <2>10, <2>11
<1>11. ASSUME NEW v \in Values(AudioPut), NEW p \in AnyPayloads,
              m = Message(AUDIO, SoundFields(v, Len(p)), p, << >>)
       PROVE  IsMessage(m)
  <2>. DEFINE u == [v EXCEPT !.payloadLen = Len(p)]
  <2>1. v \in FieldSet(AudioPut) /\ AUDIO \in Types
    BY <1>3, <1>5, <1>6
  <2>2. /\ p \in Seq(Digits) /\ Len(p) \in Int
        /\ Len(p) \in 0 .. Weight(2) - 1
    <3>1. PICK n \in 0 .. MaxSlice + 1 : p \in Payloads(n)
      BY DEF AnyPayloads
    <3>2. p \in Seq(Digits) /\ Len(p) = n
      BY <1>7, <3>1, PayloadsAreBytes
    <3>. QED
      BY <1>7, <3>1, <3>2
  <2>3. "payloadLen" \in DOMAIN AudioPut
        /\ FieldRange("payloadLen", AudioPut["payloadLen"][2]) = 0 .. Weight(2) - 1
    BY DEF AudioPut, FieldRange, Signed
  <2>4. DOMAIN v = DOMAIN AudioPut
    BY <2>1 DEF FieldSet
  <2>5. u \in FieldSet(AudioPut)
    BY <2>1, <2>2, <2>3, FieldSetExcept
  <2>6. u.payloadLen = Len(p)
    BY <2>3, <2>4
  <2>7. /\ m.type = AUDIO /\ m.fields = u /\ m.payload = p /\ m.states = << >>
      /\ m = [type |-> m.type, seq |-> Base, fields |-> m.fields,
              payload |-> m.payload, states |-> m.states]
    BY <1>11 DEF Message, SoundFields
  <2>. HIDE DEF u
  <2>8. u \in FieldSet(GivenFields(AUDIO))
    BY <1>5, <2>5
  <2>. QED
    BY <1>2, <1>4, <2>1, <2>2, <2>6, <2>7, <2>8
<1>12. ASSUME NEW v \in Values(Timestamp), NEW s \in SomeStates(1),
              m = Message(INPUT, v, << >>, s)
       PROVE  IsMessage(m)
  <2>1. v \in FieldSet(GivenFields(INPUT)) /\ INPUT \in Types
    BY <1>3, <1>5, <1>6
  <2>2. s \in Seq(FieldSet(StatePut)) /\ Len(s) = 1
    BY SomeStatesAreBodies
  <2>3. /\ m.type = INPUT /\ m.fields = v /\ m.payload = << >> /\ m.states = s
      /\ m = [type |-> m.type, seq |-> Base, fields |-> m.fields,
              payload |-> m.payload, states |-> m.states]
    BY <1>12 DEF Message
  <2>. QED
    BY <1>2, <1>4, <2>1, <2>2, <2>3
<1>13. ASSUME NEW n \in 0 .. MaxPlayers + 1, NEW v \in Values(BundlePut),
              NEW s \in SomeStates(n),
              m = Message(INPUT_BUNDLE, BundleFields(v, n), << >>, s)
       PROVE  IsMessage(m)
  <2>. DEFINE u == [v EXCEPT !.count = n]
  <2>1. v \in FieldSet(BundlePut) /\ INPUT_BUNDLE \in Types
    BY <1>3, <1>5, <1>6
  <2>2. n \in Nat /\ n \in 0 .. Base - 1
    BY SizeAssumption, Weights, SMT
  <2>3. s \in Seq(FieldSet(StatePut)) /\ Len(s) = n
    BY <2>2, SomeStatesAreBodies
  <2>4. "count" \in DOMAIN BundlePut
        /\ FieldRange("count", BundlePut["count"][2]) = 0 .. Weight(1) - 1
    BY DEF BundlePut, FieldRange, Signed
  <2>5. DOMAIN v = DOMAIN BundlePut
    BY <2>1 DEF FieldSet
  <2>6. u \in FieldSet(BundlePut)
    BY <2>1, <2>2, <2>4, Weights, FieldSetExcept
  <2>7. u.count = n
    BY <2>4, <2>5
  <2>8. /\ m.type = INPUT_BUNDLE /\ m.fields = u /\ m.payload = << >> /\ m.states = s
      /\ m = [type |-> m.type, seq |-> Base, fields |-> m.fields,
              payload |-> m.payload, states |-> m.states]
    BY <1>13 DEF Message, BundleFields
  <2>. HIDE DEF u
  <2>9. u \in FieldSet(GivenFields(INPUT_BUNDLE))
    BY <1>5, <2>6
  <2>. QED
    BY <1>2, <1>4, <2>1, <2>3, <2>7, <2>8, <2>9
<1>14. CASE m \in Hellos
  <2>1. PICK v \in Values(HelloPut), p \in Payloads(NameLen) :
          m = Message(HELLO, v, p, << >>)
    BY <1>14 DEF Hellos
  <2>. QED
    BY <1>9, <2>1
<1>15. CASE m \in Slices
  <2>1. PICK v \in {u \in Values(VideoPut) : u.sliceIndex < Weight(2) - 1},
             p \in AnyPayloads :
          m = Message(VIDEO, SliceFields(v, Len(p)), p, << >>)
    BY <1>15 DEF Slices
  <2>. QED
    BY <1>10, <2>1
<1>16. CASE m \in Sounds
  <2>1. PICK v \in Values(AudioPut), p \in AnyPayloads :
          m = Message(AUDIO, SoundFields(v, Len(p)), p, << >>)
    BY <1>16 DEF Sounds
  <2>. QED
    BY <1>11, <2>1
<1>17. CASE m \in Inputs
  BY <1>12, <1>17 DEF Inputs
<1>18. CASE \E n \in 0 .. MaxPlayers + 1 : m \in Bundles(n)
  BY <1>13, <1>18 DEF Bundles
<1>19. CASE \E t \in Types \ {HELLO, VIDEO, AUDIO, INPUT, INPUT_BUNDLE} :
              m \in Others(t)
  BY <1>8, <1>19 DEF Others
<1>20. \/ m \in Hellos \/ m \in Slices \/ m \in Sounds \/ m \in Inputs
       \/ \E n \in 0 .. MaxPlayers + 1 : m \in Bundles(n)
       \/ \E t \in Types \ {HELLO, VIDEO, AUDIO, INPUT, INPUT_BUNDLE} :
            m \in Others(t)
  BY DEF Messages
<1>. QED
  BY <1>14, <1>15, <1>16, <1>17, <1>18, <1>19, <1>20, Zenon

LEMMA ForeignDigits ==
  ASSUME NEW t \in Types, NEW n \in 0 .. MaxLength,
         NEW digit \in {0, 1, 2, Base - 1}, NEW from
  PROVE  Foreign(t, n, digit, from) \in Seq(Digits)
<1>. DEFINE h == [magic |-> Magic, version |-> Version + 1, type |-> t, seq |-> 0]
<1>1. h \in [DOMAIN Header -> Int]
  <2>1. Magic \in Int /\ t \in Int /\ Version + 1 \in Int
    BY MagicAssumption, Weights, SMT DEF Types, HELLO, KEYFRAME_REQ, Version
  <2>. QED
    BY <2>1 DEF Header
<1>. HIDE DEF h
<1>2. \A k \in 1 .. 8 : FieldByte(Header, h, k - 1) \in Digits
  <2>1. \A k \in 1 .. 8 : k - 1 \in 0 .. 8 - 1
    BY SMT
  <2>. QED
    BY <1>1, <2>1, ProperHeader, FieldDigits
<1>3. {0, digit} \subseteq Digits
  BY Weights, SMT DEF Digits
<1>4. 8 + n \in Nat
  BY SizeAssumption, SMT
<1>5. Foreign(t, n, digit, from)
        = [k \in 1 .. 8 + n |->
             IF k <= 8 THEN FieldByte(Header, h, k - 1)
             ELSE IF k - 8 > from THEN digit ELSE 0]
  BY DEF Foreign, HeaderSize, h
<1>6. \A k \in 1 .. 8 + n : k <= 8 => k \in 1 .. 8
  BY SMT
<1>7. Foreign(t, n, digit, from) \in [1 .. 8 + n -> Digits]
  BY <1>2, <1>3, <1>5, <1>6, Zenon
<1>. QED
  BY <1>4, <1>7

-----------------------------------------------------------------------------
(* The invariant: a message comes with its bytes, or the first of them. *)
Carries(m) ==
  IF whole THEN Packs(m, Need(m)) /\ datagram = PackedBytes(m)
           ELSE PartOf(datagram, m) /\ Len(datagram) < Need(m)

WireInv ==
  /\ WireTypeOK
  /\ heard = IF stage = "parsed" THEN Parse(datagram) ELSE Refused
  /\ stage = "none" => message = << >>
  /\ message = << >> \/ \E m : IsMessage(m) /\ message = <<m>> /\ Carries(m)

LEMMA PackMakesBytes ==
  ASSUME NEW m, IsMessage(m), NEW cap \in {Need(m) - 1, Need(m)}
  PROVE  LET d == IF Packs(m, cap) THEN PackedBytes(m) ELSE Refused
         IN /\ d \in Seq(Digits)
            /\ d # Refused => Packs(m, Need(m)) /\ d = PackedBytes(m)
            /\ d = Refused => PartOf(d, m) /\ Len(d) < Need(m)
<1>1. /\ Need(m) \in Nat /\ Need(m) >= 8
  <2>. DEFINE N == Need(m)
              F == FixedSize(m.type)
              P == Len(m.payload)
              S == Len(m.states)
  <2>1. N = 8 + F + P + 26 * S /\ F \in Nat /\ P \in Nat /\ S \in Nat
    BY MessageShape, Kinds
  <2>. HIDE DEF N, F, P, S
  <2>2. N \in Nat /\ N >= 8
    BY <2>1, SMT
  <2>. QED
    BY <2>2 DEF N
<1>2. PackedBytes(m) \in Seq(Digits) /\ Len(PackedBytes(m)) = Need(m)
  BY PackedDigits, Laid
<1>3. Len(<< >>) = 0 /\ << >> \in Seq(Digits)
  OBVIOUS
<1>4. Packs(m, cap) => Packs(m, Need(m))
  BY <1>1 DEF Packs
<1>5. PartOf(Refused, m) /\ Len(Refused) < Need(m)
  BY <1>1, <1>3, SMT DEF PartOf, Refused
<1>6. CASE Packs(m, cap)
  <2>1. PackedBytes(m) # << >>
    BY <1>1, <1>2, <1>3
  <2>. QED
    BY <1>2, <1>4, <1>6, <2>1 DEF Refused
<1>7. CASE ~Packs(m, cap)
  BY <1>3, <1>5, <1>7 DEF Refused
<1>. QED
  BY <1>6, <1>7

LEMMA CutIsPart ==
  ASSUME NEW m, IsMessage(m), NEW n \in 0 .. Len(PackedBytes(m)) - 1
  PROVE  LET d == SubSeq(PackedBytes(m), 1, n)
         IN d \in Seq(Digits) /\ PartOf(d, m) /\ Len(d) < Need(m)
<1>. DEFINE b == PackedBytes(m)
            d == SubSeq(b, 1, n)
            N == Need(m)
<1>1. b \in Seq(Digits) /\ Len(b) = N /\ N \in Nat
  BY PackedDigits, Laid, MessageShape
<1>2. n \in 0 .. N - 1
  BY <1>1
<1>. HIDE DEF b, N
<1>3. d \in Seq(Digits) /\ Len(d) = n /\ \A k \in 1 .. n : d[k] = b[k]
  <2>1. n \in Nat /\ n <= Len(b) /\ 1 .. n \subseteq 1 .. Len(b)
    BY <1>1, <1>2, SMT
  <2>. QED
    BY <1>1, <2>1
<1>. HIDE DEF d
<1>4. \A k \in 0 .. n - 1 : ByteAt(d, k) = ByteAt(b, k)
  <2>1. \A k \in 0 .. n - 1 : k + 1 \in 1 .. n /\ k < Len(d) /\ k < Len(b)
    BY <1>1, <1>2, <1>3, SMT
  <2>. QED
    BY <1>3, <2>1 DEF ByteAt
<1>5. n \in Nat /\ n <= N /\ n < N
  BY <1>1, <1>2, SMT
<1>. QED
  BY <1>3, <1>4, <1>5 DEF PartOf, b, d, N

LEMMA ParseIsOne ==
  ASSUME NEW d \in Seq(Digits)
  PROVE  Len(Parse(d)) <= 1
<1>1. Len(Refused) = 0
  BY DEF Refused
<1>2. \A m : Len(<<m>>) = 1
  OBVIOUS
<1>. QED
  BY <1>1, <1>2, ParsedIsSound

LEMMA WirePack ==
  ASSUME WireInv, Pack
  PROVE  WireInv'
<1>1. PICK m \in Messages : \E cap \in {Need(m) - 1, Need(m)} :
        /\ message' = <<m>>
        /\ datagram' = IF Packs(m, cap) THEN PackedBytes(m) ELSE Refused
  BY Zenon DEF Pack
<1>2. PICK cap \in {Need(m) - 1, Need(m)} :
        /\ message' = <<m>>
        /\ datagram' = IF Packs(m, cap) THEN PackedBytes(m) ELSE Refused
  BY <1>1
<1>3. /\ stage = "none" /\ stage' = "packed" /\ heard' = heard
      /\ whole' = (datagram' # Refused)
  BY Zenon DEF Pack
<1>4. IsMessage(m)
  BY MessagesAreMessages
<1>5. /\ datagram' \in Seq(Digits)
      /\ datagram' # Refused => Packs(m, Need(m)) /\ datagram' = PackedBytes(m)
      /\ datagram' = Refused => PartOf(datagram', m) /\ Len(datagram') < Need(m)
  BY <1>2, <1>4, PackMakesBytes
<1>6. Carries(m)'
  BY <1>3, <1>5, Zenon DEF Carries
<1>7. heard = Refused
  BY <1>3 DEF WireInv
<1>8. whole' \in BOOLEAN
  BY <1>3
<1>9. Len(message') <= 1 /\ Len(heard') <= 1
  BY <1>2, <1>3, <1>7 DEF Refused
<1>10. WireTypeOK'
  BY <1>3, <1>5, <1>8, <1>9 DEF WireTypeOK
<1>11. \E n : IsMessage(n) /\ message' = <<n>> /\ Carries(n)'
  BY <1>2, <1>4, <1>6, Zenon
<1>. QED
  BY <1>3, <1>7, <1>10, <1>11 DEF WireInv

LEMMA WireCut ==
  ASSUME WireInv, Cut
  PROVE  WireInv'
<1>1. PICK n \in 0 .. Len(datagram) - 1 : datagram' = SubSeq(datagram, 1, n)
  BY Zenon DEF Cut
<1>2. /\ stage = "packed" /\ whole /\ stage' = "cut" /\ whole' = FALSE
      /\ message' = message /\ heard' = heard
  BY Zenon DEF Cut
<1>3. heard = Refused
  BY <1>2 DEF WireInv
<1>4. CASE message = << >>
  <2>1. datagram' \in Seq(Digits)
    <3>1. datagram \in Seq(Digits)
      BY DEF WireInv, WireTypeOK
    <3>2. n \in Nat /\ n <= Len(datagram)
      BY <3>1, SMT
    <3>. QED
      BY <1>1, <3>1, <3>2
  <2>2. Len(message') <= 1 /\ Len(heard') <= 1
    BY <1>2, <1>3, <1>4 DEF Refused
  <2>3. WireTypeOK'
    BY <1>2, <2>1, <2>2 DEF WireTypeOK
  <2>. QED
    BY <1>2, <1>3, <1>4, <2>3 DEF WireInv
<1>5. CASE \E m : IsMessage(m) /\ message = <<m>> /\ Carries(m)
  <2>1. PICK m : IsMessage(m) /\ message = <<m>> /\ Carries(m)
    BY <1>5
  <2>2. datagram = PackedBytes(m)
    BY <1>2, <2>1, Zenon DEF Carries
  <2>3. datagram' \in Seq(Digits) /\ PartOf(datagram', m) /\ Len(datagram') < Need(m)
    BY <1>1, <2>1, <2>2, CutIsPart
  <2>4. Carries(m)'
    BY <1>2, <2>3, Zenon DEF Carries
  <2>5. WireTypeOK'
    <3>1. Len(message') <= 1 /\ Len(heard') <= 1
      BY <1>2, <1>3, <2>1 DEF Refused
    <3>. QED
      BY <1>2, <2>3, <3>1 DEF WireTypeOK
  <2>6. \E k : IsMessage(k) /\ message' = <<k>> /\ Carries(k)'
    BY <1>2, <2>1, <2>4, Zenon
  <2>. QED
    BY <1>2, <1>3, <2>5, <2>6 DEF WireInv
<1>. QED
  BY <1>4, <1>5 DEF WireInv

LEMMA WireReceive ==
  ASSUME WireInv, Receive
  PROVE  WireInv'
<1>1. PICK t \in Types, n \in 0 .. MaxLength, digit \in {0, 1, 2, Base - 1},
           from \in 0 .. MaxLength : datagram' = Foreign(t, n, digit, from)
  BY Zenon DEF Receive
<1>2. /\ stage = "none" /\ stage' = "foreign"
      /\ message' = message /\ whole' = whole /\ heard' = heard
  BY Zenon DEF Receive
<1>3. message = << >> /\ heard = Refused /\ whole \in BOOLEAN
  BY <1>2 DEF WireInv, WireTypeOK
<1>4. datagram' \in Seq(Digits)
  BY <1>1, ForeignDigits
<1>5. WireTypeOK'
  BY <1>2, <1>3, <1>4 DEF WireTypeOK, Refused
<1>. QED
  BY <1>2, <1>3, <1>5 DEF WireInv

LEMMA WireParse ==
  ASSUME WireInv, ParseIt
  PROVE  WireInv'
<1>1. /\ stage \in {"packed", "cut", "foreign"} /\ stage' = "parsed"
      /\ heard' = Parse(datagram) /\ message' = message
      /\ datagram' = datagram /\ whole' = whole
  BY Zenon DEF ParseIt
<1>2. WireTypeOK
  BY DEF WireInv
<1>3. Len(heard') <= 1
  BY <1>1, <1>2, ParseIsOne DEF WireTypeOK
<1>4. WireTypeOK'
  BY <1>1, <1>2, <1>3 DEF WireTypeOK
<1>5. message = << >> \/ \E m : IsMessage(m) /\ message = <<m>> /\ Carries(m)
  BY DEF WireInv
<1>6. message' = << >> \/ \E m : IsMessage(m) /\ message' = <<m>> /\ Carries(m)'
  BY <1>1, <1>5, Zenon DEF Carries
<1>. QED
  BY <1>1, <1>4, <1>6 DEF WireInv

LEMMA WireDone ==
  ASSUME WireInv, Done
  PROVE  WireInv'
<1>1. /\ message' = << >> /\ datagram' = << >> /\ stage' = "none"
      /\ whole' = FALSE /\ heard' = Refused
  BY Zenon DEF Done
<1>2. << >> \in Seq(Digits) /\ Len(<< >>) = 0
  OBVIOUS
<1>3. Len(message') <= 1 /\ Len(heard') <= 1 /\ datagram' \in Seq(Digits)
  BY <1>1, <1>2 DEF Refused
<1>4. WireTypeOK'
  BY <1>1, <1>3 DEF WireTypeOK
<1>. QED
  BY <1>1, <1>4 DEF WireInv

LEMMA WireStutter ==
  ASSUME WireInv, UNCHANGED wireVars
  PROVE  WireInv'
<1>1. /\ message' = message /\ datagram' = datagram /\ stage' = stage
      /\ whole' = whole /\ heard' = heard
  BY Zenon DEF wireVars
<1>2. WireTypeOK'
  BY <1>1 DEF WireInv, WireTypeOK
<1>3. message = << >> \/ \E m : IsMessage(m) /\ message = <<m>> /\ Carries(m)
  BY DEF WireInv
<1>4. message' = << >> \/ \E m : IsMessage(m) /\ message' = <<m>> /\ Carries(m)'
  BY <1>1, <1>3, Zenon DEF Carries
<1>. QED
  BY <1>1, <1>2, <1>4 DEF WireInv

THEOREM WireInvariant == WireSpec => []WireInv
<1>1. WireInit => WireInv
  <2>1. << >> \in Seq(Digits) /\ Len(<< >>) = 0
    OBVIOUS
  <2>2. SUFFICES ASSUME WireInit PROVE WireInv
    OBVIOUS
  <2>3. Len(message) <= 1 /\ Len(heard) <= 1 /\ datagram \in Seq(Digits)
    BY <2>1, <2>2 DEF WireInit, Refused
  <2>4. WireTypeOK
    BY <2>2, <2>3 DEF WireInit, WireTypeOK
  <2>. QED
    BY <2>2, <2>4 DEF WireInit, WireInv
<1>2. WireInv /\ [WireNext]_wireVars => WireInv'
  BY WirePack, WireCut, WireReceive, WireParse, WireDone, WireStutter DEF WireNext
<1>. QED
  BY <1>1, <1>2, PTL DEF WireSpec

(* Every byte of what is sent was written. *)
THEOREM WireTyping == WireSpec => []WireTypeOK
<1>1. WireInv => WireTypeOK
  BY DEF WireInv
<1>. QED
  BY <1>1, WireInvariant, PTL

(* What was packed is what is parsed, but for what Kept leaves out, and a part of
   it is nothing. *)
THEOREM WireRoundTrip == WireSpec => []RoundTrip
<1>1. WireInv => RoundTrip
  <2>1. SUFFICES ASSUME WireInv, stage = "parsed", message # << >>
                 PROVE  IF whole THEN heard = <<Kept(message[1])>>
                        ELSE heard = Refused \/ heard[1].type = BYE
    BY Zenon DEF RoundTrip
  <2>2. heard = Parse(datagram)
    BY <2>1 DEF WireInv
  <2>3. PICK m : IsMessage(m) /\ message = <<m>> /\ Carries(m)
    BY <2>1 DEF WireInv
  <2>4. message[1] = m
    BY <2>3
  <2>5. CASE whole
    <3>1. Packs(m, Need(m)) /\ datagram = PackedBytes(m)
      BY <2>3, <2>5, Zenon DEF Carries
    <3>2. Parse(PackedBytes(m)) = <<Kept(m)>>
      BY <2>3, <3>1, WholeIsKept
    <3>. QED
      BY <2>2, <2>4, <2>5, <3>1, <3>2, Zenon
  <2>6. CASE ~whole
    <3>1. PartOf(datagram, m) /\ Len(datagram) < Need(m)
      BY <2>3, <2>6, Zenon DEF Carries
    <3>2. Parse(datagram) = Refused \/ Parse(datagram)[1].type = BYE
      BY <2>3, <3>1, PartIsRefused
    <3>. QED
      BY <2>2, <2>6, <3>2, Zenon
  <2>. QED
    BY <2>5, <2>6, Zenon
<1>. QED
  BY <1>1, WireInvariant, PTL

(* Whatever arrives, nothing is read that was not there. *)
THEOREM WireNoWildRead == WireSpec => []NoWildRead
<1>1. WireInv => NoWildRead
  <2>1. SUFFICES ASSUME WireInv, heard # Refused
                 PROVE  Sound(heard[1], Len(datagram))
    BY DEF NoWildRead
  <2>2. heard = Parse(datagram) /\ datagram \in Seq(Digits)
    BY <2>1, Zenon DEF WireInv, WireTypeOK
  <2>. QED
    BY <2>1, <2>2, ParsedIsSound
<1>. QED
  BY <1>1, WireInvariant, PTL

-----------------------------------------------------------------------------
(* What the hub puts into a bundle gets through. *)

(* One state for each slot (InputHub::packBundle). *)
IsBundle(m, slots) ==
  /\ IsMessage(m) /\ m.type = INPUT_BUNDLE
  /\ \A i \in 1 .. Len(m.states) : m.states[i].slot \in slots
  /\ \A i, j \in 1 .. Len(m.states) :
       m.states[i].slot = m.states[j].slot => i = j

(* Whichever slots are active: their states fit a bundle, and are what the
   console's parser makes of it. *)
THEOREM BundleArrives ==
  ASSUME Remote \subseteq 1 .. MaxPlayers - 1, NEW m
  PROVE  Spec => [](IsBundle(m, bundle) => Parse(PackedBytes(m)) = <<m>>)
<1>1. ASSUME TypeOK, IsBundle(m, bundle)
      PROVE  Parse(PackedBytes(m)) = <<m>>
  <2>. DEFINE n == Len(m.states)
              f == [i \in 1 .. n |-> m.states[i].slot]
              T == 0 .. MaxPlayers - 1
  <2>1. n \in Nat /\ MaxPlayers \in Nat /\ IsMessage(m) /\ m.type = INPUT_BUNDLE
    BY <1>1, MessageShape, SizeAssumption DEF IsBundle
  <2>2. \A i \in 1 .. n : m.states[i].slot \in T
    <3>1. bundle \subseteq T
      BY <1>1, SizeAssumption DEF TypeOK, Slots
    <3>. QED
      BY <1>1, <3>1 DEF IsBundle
  <2>3. \A i, j \in 1 .. n : m.states[i].slot = m.states[j].slot => i = j
    BY <1>1 DEF IsBundle
  <2>. HIDE DEF n
  <2>4. f \in Injection(1 .. n, T)
    BY <2>2, <2>3 DEF Injection, IsInjective
  <2>. HIDE DEF f
  <2>5. IsFiniteSet(T) /\ Cardinality(T) = MaxPlayers
        /\ Cardinality(1 .. n) = n
    BY <2>1, FS_Interval, SMT
  <2>6. n <= MaxPlayers
    BY <2>4, <2>5, FS_Injection
  <2>7. Packs(m, Need(m))
    <3>1. m.type \notin {VIDEO, AUDIO}
      BY <2>1 DEF VIDEO, AUDIO, INPUT_BUNDLE
    <3>2. Need(m) \in Nat
      BY <2>1, MessageShape, Zenon
    <3>3. \A x \in Nat : x >= x
      BY SMT
    <3>. QED
      BY <2>1, <2>6, <3>1, <3>2, <3>3, Zenon DEF Packs, n
  <2>8. Kept(m) = m
    BY <2>1 DEF Kept, HELLO, BYE, CONFIG, INPUT_BUNDLE
  <2>. QED
    BY <2>1, <2>7, <2>8, WholeIsKept
<1>. QED
  BY <1>1, TypeCorrect, PTL
=============================================================================
