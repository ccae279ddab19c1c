--------------------------- MODULE SessionProofs ---------------------------
(* The seats of Session, for any number of clients and slots. *)
EXTENDS Session, TLAPS

(* What the steps of the loops know of the types of a state. *)
LEMMA Types ==
  ASSUME IInv
  PROVE  /\ seat \in [Slots -> Clients \cup {Nobody}]
         /\ hub \in [Slots -> Clients \cup {Nobody}]
         /\ silent \in [Slots -> Ages]
         /\ 0 \in Ages /\ NoSlot \notin Slots
  BY NumbersAssumption DEF IInv, TypeOK, Ages, Slots, NoSlot

(* Datagrams that are sent or received leave the network well typed. *)
LEMMA NetTypes ==
  ASSUME TypeOK
  PROVE  /\ \A c \in Clients : \A type \in {"HELLO", "INPUT", "PING", "BYE"} :
              Msg(type, c) \in Request
         /\ \A c \in Clients : \A type \in {"STREAM", "PONG", "BYE"} :
              Rpl(type, c) \in Reply
         /\ \A c \in Clients : \A status \in Status :
              \A s \in Slots \cup {NoSlot} : Ack(c, status, s) \in Reply
         /\ \A R \in SUBSET Reply : Sent(R) \subseteq Reply
         /\ \A m : \A rest \in Rest(toServer, m) : rest \subseteq toServer
         /\ \A m : \A rest \in Rest(toClient, m) : rest \subseteq toClient
         /\ \A rest \in Outlive(toServer) : rest \subseteq toServer
         /\ \A rest \in Outlive(toClient) : rest \subseteq toClient
<1>1. toServer \subseteq Request /\ toClient \subseteq Reply
  BY DEF TypeOK
<1>2. \A c \in Clients : \A type \in {"HELLO", "INPUT", "PING", "BYE"} :
        Msg(type, c) \in Request
  BY DEF Msg, Request
<1>3. \A c \in Clients : \A type \in {"STREAM", "PONG", "BYE"} :
        Rpl(type, c) \in Reply
  BY DEF Rpl, Reply
<1>4. \A c \in Clients : \A status \in Status :
        \A s \in Slots \cup {NoSlot} : Ack(c, status, s) \in Reply
  BY DEF Ack, Reply
<1>5. \A R \in SUBSET Reply : Sent(R) \subseteq Reply
  BY <1>1 DEF Sent
<1>6. /\ \A m : \A rest \in Rest(toServer, m) : rest \subseteq toServer
      /\ \A m : \A rest \in Rest(toClient, m) : rest \subseteq toClient
  BY DEF Rest
<1>7. /\ \A rest \in Outlive(toServer) : rest \subseteq toServer
      /\ \A rest \in Outlive(toClient) : rest \subseteq toClient
  BY DEF Outlive
<1> QED
  BY <1>1, <1>2, <1>3, <1>4, <1>5, <1>6, <1>7

(* The initial state satisfies the inductive invariant. *)
LEMMA InitInv == Init => IInv
<1> SUFFICES ASSUME Init PROVE IInv
  OBVIOUS
<1>1. 0 \in Ages
  BY NumbersAssumption DEF Ages
<1>2. TypeOK
  BY <1>1 DEF Init, TypeOK, Empty
<1> QED
  BY <1>2 DEF Init, IInv, OneSeatEach, InputFromSeat, ClosedEmpty, ByeMeansGone, Empty

-----------------------------------------------------------------------------
(* Dropping the clients of some slots, for whatever reason. *)
LEMMA DropStep ==
  ASSUME IInv, NEW S \in SUBSET Slots, Drop(S), serving' = serving,
         \A s \in S : seat[s] # Nobody =>
            stage[seat[s]] = "gone" \/ silent[s] > Timeout
  PROVE  /\ seat' \in [Slots -> Clients \cup {Nobody}]
         /\ hub' \in [Slots -> Clients \cup {Nobody}]
         /\ silent' \in [Slots -> Ages]
         /\ OneSeatEach' /\ InputFromSeat' /\ ClosedEmpty' /\ SeatStep
<1> USE DEF IInv
<1>1. /\ seat \in [Slots -> Clients \cup {Nobody}]
      /\ hub \in [Slots -> Clients \cup {Nobody}]
      /\ silent \in [Slots -> Ages]
      /\ 0 \in Ages
  BY Types
<1>2. /\ \A s \in Slots : seat'[s] = IF s \in S THEN Nobody ELSE seat[s]
      /\ \A s \in Slots : hub'[s] = IF s \in S THEN Nobody ELSE hub[s]
      /\ seat' \in [Slots -> Clients \cup {Nobody}]
      /\ hub' \in [Slots -> Clients \cup {Nobody}]
      /\ silent' \in [Slots -> Ages]
  BY <1>1 DEF Drop
<1>3. OneSeatEach'
  BY <1>2 DEF OneSeatEach
<1>4. InputFromSeat'
  BY <1>2 DEF InputFromSeat
<1>5. ClosedEmpty'
  BY <1>1, <1>2 DEF ClosedEmpty, Empty, Drop
<1>6. SeatStep
  BY <1>2 DEF SeatStep
<1> QED
  BY <1>2, <1>3, <1>4, <1>5, <1>6

(* A datagram of a running client is received by the server. *)
LEMMA ReceiveStep ==
  ASSUME IInv, NEW type \in {"HELLO", "INPUT", "PING", "BYE"},
         NEW c \in Clients, Receive(type, c)
  PROVE  /\ serving /\ serving' /\ stage' = stage
         /\ toServer' \subseteq Request
         /\ ByeMeansGone'
         /\ Msg(type, c) \in toServer
<1>1. toServer' \subseteq toServer
  BY NetTypes DEF Receive, IInv
<1> QED
  BY <1>1 DEF Receive, IInv, TypeOK, ByeMeansGone, clients

(* What a message of a client does to the seats. *)
LEMMA ServerReceiveStep ==
  ASSUME IInv, NEW c \in Clients, ServerReceive(c)
  PROVE  IInv' /\ SeatStep
<1> USE DEF IInv
<1>0. /\ seat \in [Slots -> Clients \cup {Nobody}]
      /\ hub \in [Slots -> Clients \cup {Nobody}]
      /\ silent \in [Slots -> Ages]
      /\ 0 \in Ages
  BY Types
<1>a. ASSUME NEW type \in {"HELLO", "INPUT", "PING", "BYE"}, Receive(type, c),
             seat' \in [Slots -> Clients \cup {Nobody}],
             hub' \in [Slots -> Clients \cup {Nobody}],
             silent' \in [Slots -> Ages],
             toClient' \subseteq Reply
      PROVE  TypeOK'
  <2>1. toServer' \subseteq Request
    BY <1>a, ReceiveStep
  <2> QED
    BY <1>a, <2>1 DEF Receive, TypeOK, clients
<1>1. CASE ServerHelloJoin(c)
  <2>1. /\ Receive("HELLO", c) /\ hub' = hub
        /\ serving /\ serving' /\ ByeMeansGone'
    BY <1>1, ReceiveStep DEF ServerHelloJoin
  <2>2. PICK s \in SlotsFor(c) :
          /\ seat' = [seat EXCEPT ![s] = c]
          /\ silent' = [silent EXCEPT ![s] = 0]
          /\ toClient' = Sent({Ack(c, "OK", s)} \cup
                              (IF haveConfig THEN {Rpl("STREAM", c)} ELSE {}))
    BY <1>1 DEF ServerHelloJoin
  <2>3. /\ s \in Slots
        /\ \/ seat[s] = c
           \/ seat[s] = Nobody /\ \A t \in Slots : seat[t] # c
    <3>1. CASE Seats(c) = {}
      <4>1. s \in Slots /\ seat[s] = Nobody
        BY <3>1, Zenon DEF SlotsFor, FreeSeats
      <4>2. \A t \in Slots : seat[t] # c
        BY <3>1, Zenon DEF Seats
      <4> QED
        BY <4>1, <4>2
    <3>2. CASE Seats(c) # {}
      BY <3>2, Zenon DEF SlotsFor, Seats
    <3> QED
      BY <3>1, <3>2
  <2>4. toClient' \subseteq Reply
    <3>1. Ack(c, "OK", s) \in Reply /\ Rpl("STREAM", c) \in Reply
      BY <2>3, NetTypes DEF Status
    <3> QED
      BY <2>2, <3>1, NetTypes
  <2>5. TypeOK'
    BY <1>0, <1>a, <2>1, <2>2, <2>3, <2>4
  <2>6. OneSeatEach'
    BY <1>0, <2>2, <2>3 DEF OneSeatEach
  <2>7. InputFromSeat'
    BY <1>0, <2>1, <2>2, <2>3 DEF InputFromSeat
  <2>8. SeatStep
    BY <1>0, <2>2, <2>3 DEF SeatStep
  <2> QED
    BY <2>1, <2>5, <2>6, <2>7, <2>8 DEF ClosedEmpty
<1>2. CASE ServerHelloRefused(c)
  <2>1. /\ Receive("HELLO", c) /\ UNCHANGED <<seat, silent, hub>>
        /\ serving /\ serving' /\ ByeMeansGone'
    BY <1>2, ReceiveStep DEF ServerHelloRefused
  <2>2. toClient' \subseteq Reply
    <3> DEFINE status == IF c \in Foreign THEN "VERSION_MISMATCH" ELSE "FULL"
    <3>1. Ack(c, status, NoSlot) \in Reply
      BY NetTypes DEF Status
    <3> QED
      BY <1>2, <3>1, NetTypes DEF ServerHelloRefused
  <2>3. TypeOK'
    BY <1>0, <1>a, <2>1, <2>2
  <2> QED
    BY <2>1, <2>3 DEF OneSeatEach, InputFromSeat, ClosedEmpty, SeatStep
<1>3. CASE ServerInput(c)
  <2>1. /\ Receive("INPUT", c) /\ Heard(c) /\ UNCHANGED <<seat, toClient>>
        /\ hub' = [s \in Slots |-> IF seat[s] = c THEN c ELSE hub[s]]
        /\ serving /\ serving' /\ ByeMeansGone'
    BY <1>3, ReceiveStep DEF ServerInput
  <2>2. /\ hub' \in [Slots -> Clients \cup {Nobody}]
        /\ silent' \in [Slots -> Ages]
    BY <1>0, <2>1 DEF Heard
  <2>3. TypeOK'
    BY <1>0, <1>a, <2>1, <2>2 DEF TypeOK
  <2>4. InputFromSeat'
    BY <1>0, <2>1 DEF InputFromSeat
  <2> QED
    BY <2>1, <2>3, <2>4 DEF OneSeatEach, ClosedEmpty, SeatStep
<1>4. CASE ServerPing(c)
  <2>1. /\ Receive("PING", c) /\ Heard(c) /\ UNCHANGED <<seat, hub>>
        /\ toClient' = Sent({Rpl("PONG", c)})
        /\ serving /\ serving' /\ ByeMeansGone'
    BY <1>4, ReceiveStep DEF ServerPing
  <2>2. silent' \in [Slots -> Ages] /\ toClient' \subseteq Reply
    <3>1. Rpl("PONG", c) \in Reply
      BY NetTypes
    <3> QED
      BY <1>0, <2>1, <3>1, NetTypes DEF Heard
  <2>3. TypeOK'
    BY <1>0, <1>a, <2>1, <2>2
  <2> QED
    BY <2>1, <2>3 DEF OneSeatEach, InputFromSeat, ClosedEmpty, SeatStep
<1>5. CASE ServerBye(c)
  <2>1. /\ Receive("BYE", c) /\ Drop(Seats(c)) /\ UNCHANGED toClient
        /\ serving /\ serving' /\ ByeMeansGone' /\ stage[c] = "gone"
    BY <1>5, ReceiveStep DEF ServerBye, ByeMeansGone
  <2>2. /\ seat' \in [Slots -> Clients \cup {Nobody}]
        /\ hub' \in [Slots -> Clients \cup {Nobody}]
        /\ silent' \in [Slots -> Ages]
        /\ OneSeatEach' /\ InputFromSeat' /\ ClosedEmpty' /\ SeatStep
    <3>1. serving' = serving
      BY <2>1 DEF Receive
    <3>2. Seats(c) \in SUBSET Slots /\ \A s \in Seats(c) : stage[seat[s]] = "gone"
      BY <2>1 DEF Seats
    <3> QED
      BY <2>1, <3>1, <3>2, DropStep
  <2>3. TypeOK'
    BY <1>a, <2>1, <2>2 DEF TypeOK
  <2> QED
    BY <2>1, <2>2, <2>3
<1> QED
  BY <1>1, <1>2, <1>3, <1>4, <1>5 DEF ServerReceive

(* The server's own steps. *)
LEMMA ServerOwnStep ==
  ASSUME IInv, Start \/ Stop \/ Broadcast \/ SetConfig \/ Sweep
  PROVE  IInv' /\ SeatStep
<1> USE DEF IInv
<1>0. /\ seat \in [Slots -> Clients \cup {Nobody}]
      /\ 0 \in Ages
      /\ Empty \in [Slots -> Clients \cup {Nobody}]
  BY Types DEF Empty
<1>1. CASE Start
  <2>1. seat = Empty /\ seat' = Empty
    BY <1>1 DEF Start, ClosedEmpty
  <2>2. TypeOK'
    BY <1>0, <1>1 DEF Start, TypeOK, clients, net
  <2> QED
    BY <1>0, <1>1, <2>1, <2>2 DEF Start, OneSeatEach, InputFromSeat, ClosedEmpty,
       ByeMeansGone, SeatStep, Empty, clients, net
<1>a. \A type \in {"STREAM", "BYE"} :
        Sent({Rpl(type, c) : c \in Seated}) \subseteq Reply
  BY NetTypes DEF Seated
<1>2. CASE Stop
  <2>1. TypeOK'
    <3>1. toClient' \subseteq Reply
      BY <1>2, <1>a DEF Stop
    <3> QED
      BY <1>0, <1>2, <3>1 DEF Stop, TypeOK, clients
  <2> QED
    BY <1>0, <1>2, <2>1 DEF Stop, OneSeatEach, InputFromSeat, ClosedEmpty,
       ByeMeansGone, SeatStep, Empty, clients
<1>3. CASE Broadcast \/ SetConfig
  <2>1. TypeOK'
    <3>1. toClient' \subseteq Reply
      BY <1>3, <1>a DEF Broadcast, SetConfig
    <3> QED
      BY <1>3, <3>1 DEF Broadcast, SetConfig, TypeOK, server, clients
  <2> QED
    BY <1>3, <2>1 DEF Broadcast, SetConfig, OneSeatEach, InputFromSeat,
       ClosedEmpty, ByeMeansGone, SeatStep, server, clients
<1>4. CASE Sweep
  <2>1. /\ Drop({s \in Slots : Expired(s)}) /\ sweepDue' = FALSE
        /\ UNCHANGED <<serving, haveConfig, clients, net>>
    BY <1>4 DEF Sweep
  <2>2. /\ seat' \in [Slots -> Clients \cup {Nobody}]
        /\ hub' \in [Slots -> Clients \cup {Nobody}]
        /\ silent' \in [Slots -> Ages]
        /\ OneSeatEach' /\ InputFromSeat' /\ ClosedEmpty' /\ SeatStep
    BY <2>1, DropStep DEF Expired
  <2> QED
    BY <2>1, <2>2 DEF TypeOK, ByeMeansGone, clients, net
<1> QED
  BY <1>1, <1>2, <1>3, <1>4

-----------------------------------------------------------------------------
(* The steps of a client touch neither the seats nor the hub. *)
LEMMA ClientStepInv ==
  ASSUME IInv, NEW c \in Clients, ClientStep(c)
  PROVE  IInv' /\ UNCHANGED server
<1> USE DEF IInv
<1>0. 0 \in Ages
  BY Types
<1>1. UNCHANGED server
  BY DEF ClientStep, Launch, SendHello, KeepAlive, Quit, ClientReceive,
         ClientAccepted, ClientRefused, ClientBye, ClientOther, Hear
<1>2. TypeOK' /\ ByeMeansGone'
  <2>1. CASE Launch(c)
    BY <2>1 DEF Launch, TypeOK, ByeMeansGone, server, net
  <2>2. CASE SendHello(c)
    <3>1. /\ Msg("HELLO", c) \in Request
          /\ \A d : Msg("BYE", d) # Msg("HELLO", c)
      BY NetTypes DEF Msg
    <3> QED
      BY <2>2, <3>1 DEF SendHello, TypeOK, ByeMeansGone, server
  <2>3. CASE KeepAlive(c)
    <3>1. /\ Msg("INPUT", c) \in Request /\ Msg("PING", c) \in Request
          /\ \A d : Msg("BYE", d) # Msg("INPUT", c) /\ Msg("BYE", d) # Msg("PING", c)
      BY NetTypes DEF Msg
    <3>2. toServer' \subseteq toServer \cup {Msg("INPUT", c), Msg("PING", c)}
      BY <2>3 DEF KeepAlive
    <3>3. toServer' \subseteq Request /\ ByeMeansGone'
      BY <2>3, <3>1, <3>2 DEF KeepAlive, TypeOK, ByeMeansGone
    <3>4. /\ connected' \in [Clients -> BOOLEAN]
          /\ slot' \in [Clients -> Slots \cup {NoSlot}]
          /\ quiet' \in [Clients -> Ages]
          /\ pingDue' \in [Clients -> BOOLEAN]
      BY <1>0, <2>3 DEF KeepAlive, TypeOK, HostLost
    <3> QED
      BY <2>3, <3>3, <3>4 DEF KeepAlive, TypeOK, server
  <2>4. CASE Quit(c)
    <3>1. /\ Msg("BYE", c) \in Request
          /\ \A d : Msg("BYE", d) = Msg("BYE", c) => d = c
      BY NetTypes DEF Msg
    <3>2. toServer' \subseteq toServer \cup {Msg("BYE", c)}
      BY <2>4 DEF Quit
    <3>3. toServer' \subseteq Request /\ ByeMeansGone'
      BY <2>4, <3>1, <3>2 DEF Quit, TypeOK, ByeMeansGone
    <3> QED
      BY <1>0, <2>4, <3>3 DEF Quit, TypeOK, server
  <2>5. CASE ClientReceive(c)
    <3>1. \E m : Hear(c, m)
      BY <2>5 DEF ClientReceive, ClientAccepted, ClientRefused, ClientBye, ClientOther
    <3>2. /\ toClient' \subseteq Reply
          /\ quiet' \in [Clients -> Ages]
          /\ UNCHANGED <<server, stage, helloDue, pingDue, toServer>>
      BY <1>0, <3>1, NetTypes DEF Hear, TypeOK
    <3>3. /\ connected' \in [Clients -> BOOLEAN]
          /\ slot' \in [Clients -> Slots \cup {NoSlot}]
      BY <2>5 DEF ClientReceive, ClientAccepted, ClientRefused, ClientBye,
                  ClientOther, TypeOK
    <3> QED
      BY <3>2, <3>3 DEF TypeOK, ByeMeansGone, server
  <2> QED
    BY <2>1, <2>2, <2>3, <2>4, <2>5 DEF ClientStep
<1> QED
  BY <1>1, <1>2 DEF OneSeatEach, InputFromSeat, ClosedEmpty, server

(* Time leaves the seats to the sweep. *)
LEMMA SecondStep ==
  ASSUME IInv, Second
  PROVE  IInv' /\ UNCHANGED <<serving, seat, hub>>
<1> USE DEF IInv
<1>1. \A age \in Ages : Older(age) \in Ages
  BY NumbersAssumption DEF Older, Ages
<1>2. 0 \in Ages
  BY Types
<1>3. toServer' \subseteq toServer /\ toClient' \subseteq toClient
  BY NetTypes DEF Second
<1>4. TypeOK'
  BY <1>1, <1>2, <1>3 DEF Second, TypeOK, HelloAgain
<1> QED
  BY <1>3, <1>4 DEF Second, OneSeatEach, InputFromSeat, ClosedEmpty, ByeMeansGone

(* Every step keeps the invariant and takes no seat without a reason. *)
LEMMA Step ==
  ASSUME IInv, [Next]_vars
  PROVE  IInv' /\ SeatStep
<1>1. CASE ServerStep
  BY <1>1, ServerOwnStep, ServerReceiveStep DEF ServerStep
<1>2. CASE \E c \in Clients : ClientStep(c)
  BY <1>2, ClientStepInv DEF server, SeatStep
<1>3. CASE Second
  BY <1>3, SecondStep DEF SeatStep
<1>4. CASE UNCHANGED vars
  BY <1>4 DEF vars, server, clients, net, IInv, TypeOK, OneSeatEach,
              InputFromSeat, ClosedEmpty, ByeMeansGone, SeatStep
<1> QED
  BY <1>1, <1>2, <1>3, <1>4 DEF Next

(* The inductive invariant: a server that is not serving has no seats taken,
   and a BYE in flight is from a client that has left. *)
THEOREM Invariant == Spec => []IInv
<1>1. IInv /\ [Next]_vars => IInv'
  BY Step
<1> QED
  BY <1>1, InitInv, PTL DEF Spec

(* The fields of server, hub and clients keep their types. *)
THEOREM TypeCorrect == Spec => []TypeOK
<1>1. IInv => TypeOK
  BY DEF IInv
<1> QED
  BY <1>1, Invariant, PTL

(* handleHello never gives an endpoint a second slot, whatever the network
   repeats. *)
THEOREM SeatsDistinct == Spec => []OneSeatEach
<1>1. IInv => OneSeatEach
  BY DEF IInv
<1> QED
  BY <1>1, Invariant, PTL

(* What the hub has for a slot came from the client that holds the slot. *)
THEOREM InputOfHolder == Spec => []InputFromSeat
<1>1. IInv => InputFromSeat
  BY DEF IInv
<1> QED
  BY <1>1, Invariant, PTL

(* A client keeps its slot until it leaves, is silent for too long, or the
   server stops. *)
THEOREM SeatIsKept == Spec => SeatKept
<1>1. IInv /\ [Next]_vars => [SeatStep]_vars
  BY Step
<1> QED
  BY <1>1, Invariant, PTL DEF Spec, SeatKept

(* The session implements the leases of SeatLease: a slot is granted while it
   is free to a client that has none, and given back with its input. *)
THEOREM Implements == Spec => ImplementsSeatLease
<1> DEFINE source == IF serving THEN hub ELSE Empty
<1>1. Init => Leases!Init
  BY DEF Init, Leases!Init, Empty
<1>2. IInv /\ [Next]_vars => [Leases!Next]_(Leases!vars)
  <2> SUFFICES ASSUME IInv, [Next]_vars
               PROVE  [Leases!Next]_(Leases!vars)
    OBVIOUS
  <2>0. /\ seat \in [Slots -> Clients \cup {Nobody}]
        /\ hub \in [Slots -> Clients \cup {Nobody}]
    BY Types
  <2>1. ASSUME UNCHANGED <<serving, seat, hub>>
        PROVE  UNCHANGED Leases!vars
    BY <2>1 DEF Leases!vars, Empty
  <2>2. ASSUME NEW S \in SUBSET Slots, Drop(S), serving, serving'
        PROVE  Leases!Next
    <3>1. Leases!Release(S)
      BY <2>2 DEF Drop, Leases!Release
    <3> QED
      BY <3>1 DEF Leases!Next
  <2>3. CASE Start
    BY <2>3 DEF Start, IInv, ClosedEmpty, Leases!vars
  <2>4. CASE Stop
    <3>1. /\ seat' = [s \in Slots |-> IF s \in Slots THEN Nobody ELSE seat[s]]
          /\ source' = [s \in Slots |-> IF s \in Slots THEN Nobody ELSE source[s]]
      BY <2>4 DEF Stop, Empty
    <3>2. Leases!Release(Slots)
      BY <3>1 DEF Leases!Release
    <3> QED
      BY <3>2 DEF Leases!Next
  <2>5. CASE Broadcast \/ SetConfig
    BY <2>1, <2>5 DEF Broadcast, SetConfig, server
  <2>6. CASE Sweep
    BY <2>2, <2>6 DEF Sweep
  <2>7. ASSUME NEW c \in Clients, ServerReceive(c)
        PROVE  [Leases!Next]_(Leases!vars)
    <3>0. serving /\ serving'
      BY <2>7 DEF ServerReceive, ServerHelloJoin, ServerHelloRefused, ServerInput,
                  ServerPing, ServerBye, Receive
    <3>1. CASE ServerHelloJoin(c)
      <4>1. PICK s \in SlotsFor(c) : seat' = [seat EXCEPT ![s] = c]
        BY <3>1 DEF ServerHelloJoin
      <4>2. hub' = hub
        BY <3>1 DEF ServerHelloJoin
      <4>3. CASE Seats(c) = {}
        <5>1. s \in Slots /\ seat[s] = Nobody /\ \A t \in Slots : seat[t] # c
          BY <4>3, Zenon DEF SlotsFor, Seats, FreeSeats
        <5>2. Leases!Grant(s, c)
          BY <3>0, <4>1, <4>2, <5>1 DEF Leases!Grant
        <5> QED
          BY <5>1, <5>2 DEF Leases!Next
      <4>4. CASE Seats(c) # {}
        <5>1. s \in Slots /\ seat[s] = c
          BY <4>4, Zenon DEF SlotsFor, Seats
        <5>2. seat' = seat
          BY <2>0, <4>1, <5>1
        <5> QED
          BY <2>1, <3>0, <4>2, <5>2 DEF Leases!vars
      <4> QED
        BY <4>3, <4>4
    <3>2. CASE ServerHelloRefused(c) \/ ServerPing(c)
      <4>1. UNCHANGED <<serving, seat, hub>>
        BY <3>2 DEF ServerHelloRefused, ServerPing, Receive
      <4> QED
        BY <2>1, <4>1
    <3>3. CASE ServerInput(c)
      <4>1. Leases!Play(c)
        BY <3>0, <3>3 DEF ServerInput, Leases!Play
      <4> QED
        BY <4>1 DEF Leases!Next
    <3>4. CASE ServerBye(c)
      BY <2>2, <3>0, <3>4 DEF ServerBye, Seats
    <3> QED
      BY <2>7, <3>1, <3>2, <3>3, <3>4 DEF ServerReceive
  <2>8. CASE \E c \in Clients : ClientStep(c)
    BY <2>1, <2>8, ClientStepInv DEF server
  <2>9. CASE Second
    BY <2>1, <2>9, SecondStep
  <2>10. CASE UNCHANGED vars
    BY <2>1, <2>10 DEF vars, server
  <2> QED
    BY <2>3, <2>4, <2>5, <2>6, <2>7, <2>8, <2>9, <2>10 DEF Next, ServerStep
<1> QED
  BY <1>1, <1>2, Invariant, PTL DEF Spec, ImplementsSeatLease, Leases!Spec

-----------------------------------------------------------------------------
(* The sweep of this second is done once nobody is overdue. *)
Swept == serving /\ ~sweepDue => \A s \in Slots : ~Expired(s)

(* Only a client that runs is connected. *)
ConnectedRuns == \A c \in Clients : connected[c] => stage[c] = "running"

(* What is under way to a client is for one that runs. *)
Addressed == \A m \in toClient : stage[m.to] = "running"

(* A client has left, and nothing that it sent is still on the way. *)
Departed(c) == stage[c] = "gone" /\ \A m \in toServer : m.from # c

(* What a client that left has on the way only becomes less; once there is
   nothing, its seat ages, by every second, and no second finds it overdue. *)
ReclaimStep ==
  /\ \A c \in Clients : stage[c] = "gone" =>
       /\ stage'[c] = "gone"
       /\ \A m \in toServer' : m.from = c => m \in toServer
  /\ \A s \in Slots : seat[s] # Nobody /\ Departed(seat[s]) =>
       /\ seat'[s] = seat[s] => silent'[s] >= silent[s]
       /\ Second => silent[s] <= Timeout /\ silent'[s] = silent[s] + 1

(* Nobody serves, and nothing that a server sent is still on the way. *)
Gone == ~serving /\ toClient = {}

(* The same for a client whose host is gone. *)
LossStep ==
  /\ ~serving => (~serving' /\ toClient' \subseteq toClient) \/ Start
  /\ Gone => Gone' \/ Start
  /\ Gone => \A c \in Clients : connected[c] =>
       /\ connected'[c] => quiet'[c] >= quiet[c]
       /\ Second => quiet[c] <= Timeout /\ quiet'[c] = quiet[c] + 1
  /\ Gone => \A c \in Clients : ~connected[c] => ~connected'[c]

(* No step leaves an overdue client in its seat that the sweep of this second
   has passed, or a connected client that does not run. *)
LEMMA SweptKept ==
  ASSUME IInv, Swept, ConnectedRuns, Addressed, [Next]_vars
  PROVE  Swept' /\ ConnectedRuns' /\ Addressed'
<1> USE NumbersAssumption DEF IInv
<1>1. Swept'
  <2>1. CASE Start \/ Stop \/ Second
    BY <2>1 DEF Start, Stop, Second, Swept
  <2>2. CASE UNCHANGED server
    BY <2>2 DEF server, Swept, Expired
  <2>3. CASE Broadcast \/ SetConfig
    BY <2>3 DEF Broadcast, SetConfig, server, Swept, Expired
  <2>4. CASE Sweep
    <3> SUFFICES ASSUME NEW s \in Slots PROVE ~Expired(s)'
      BY DEF Swept
    <3>1. CASE Expired(s)
      <4>1. seat'[s] = Nobody
        BY <2>4, <3>1 DEF Sweep, Drop
      <4> QED
        BY <4>1 DEF Expired
    <3>2. CASE ~Expired(s)
      <4>1. seat'[s] = seat[s] /\ silent'[s] = silent[s]
        BY <2>4, <3>2 DEF Sweep, Drop, TypeOK
      <4> QED
        BY <3>2, <4>1 DEF Expired
    <3> QED
      BY <3>1, <3>2
  <2>5. ASSUME NEW c \in Clients, ServerReceive(c) PROVE Swept'
    <3>1. serving /\ serving' /\ sweepDue' = sweepDue
      BY <2>5 DEF ServerReceive, ServerHelloJoin, ServerHelloRefused,
         ServerInput, ServerPing, ServerBye, Receive
    <3> SUFFICES ASSUME NEW s \in Slots, ~Expired(s) PROVE ~Expired(s)'
      BY <3>1 DEF Swept
    <3>2. 0 <= Timeout
      OBVIOUS
    <3>3. CASE ServerHelloJoin(c)
      BY <3>2, <3>3 DEF ServerHelloJoin, Expired, TypeOK
    <3>4. CASE ServerHelloRefused(c)
      BY <3>4 DEF ServerHelloRefused, Expired
    <3>5. CASE ServerInput(c) \/ ServerPing(c)
      BY <3>2, <3>5 DEF ServerInput, ServerPing, Heard, Expired, TypeOK
    <3>6. CASE ServerBye(c)
      BY <3>6 DEF ServerBye, Drop, Expired, TypeOK
    <3> QED
      BY <2>5, <3>3, <3>4, <3>5, <3>6 DEF ServerReceive
  <2>6. ASSUME NEW c \in Clients, ClientStep(c) PROVE UNCHANGED server
    BY <2>6 DEF ClientStep, Launch, SendHello, KeepAlive, Quit, ClientReceive,
       ClientAccepted, ClientRefused, ClientBye, ClientOther, Hear
  <2> QED
    BY <2>1, <2>2, <2>3, <2>4, <2>5, <2>6 DEF Next, ServerStep, vars
<1>2. ConnectedRuns'
  <2>1. CASE UNCHANGED <<stage, connected>>
    BY <2>1 DEF ConnectedRuns
  <2>2. CASE ServerStep \/ Second
    BY <2>1, <2>2 DEF ServerStep, Start, Stop, Broadcast, SetConfig, Sweep,
       ServerReceive, ServerHelloJoin, ServerHelloRefused, ServerInput,
       ServerPing, ServerBye, Receive, Second, clients
  <2>3. ASSUME NEW c \in Clients, ClientStep(c) PROVE ConnectedRuns'
    <3>1. CASE Launch(c) \/ SendHello(c)
      BY <3>1 DEF Launch, SendHello, ConnectedRuns, TypeOK
    <3>2. CASE KeepAlive(c) \/ Quit(c)
      BY <3>2 DEF KeepAlive, Quit, ConnectedRuns, TypeOK
    <3>3. CASE ClientAccepted(c)
      <4>1. stage[c] = "running" /\ stage' = stage
        BY <3>3 DEF ClientAccepted, Hear, Addressed
      <4> QED
        BY <3>3, <4>1 DEF ClientAccepted, ConnectedRuns, TypeOK
    <3>4. CASE ClientRefused(c) \/ ClientBye(c) \/ ClientOther(c)
      BY <3>4 DEF ClientRefused, ClientBye, ClientOther, Hear, ConnectedRuns,
         TypeOK
    <3> QED
      BY <2>3, <3>1, <3>2, <3>3, <3>4 DEF ClientStep, ClientReceive
  <2> QED
    BY <2>1, <2>2, <2>3 DEF Next, vars, clients
<1>3. Addressed'
  <2>1. ASSUME NEW R, toClient' = Sent(R), stage' = stage PROVE Addressed'
    BY <2>1 DEF Sent, Addressed
  <2>2. ASSUME toClient' \subseteq toClient, stage' = stage PROVE Addressed'
    BY <2>2 DEF Addressed
  <2>3. CASE ServerStep
    <3>1. CASE Start \/ Sweep
      BY <2>2, <3>1 DEF Start, Sweep, clients, net
    <3>2. CASE Stop \/ Broadcast \/ SetConfig
      BY <2>1, <3>2 DEF Stop, Broadcast, SetConfig, clients
    <3>3. ASSUME NEW c \in Clients, ServerReceive(c) PROVE Addressed'
      <4>1. stage' = stage
        BY <3>3 DEF ServerReceive, ServerHelloJoin, ServerHelloRefused,
           ServerInput, ServerPing, ServerBye, Receive, clients
      <4>2. (\E R : toClient' = Sent(R)) \/ toClient' = toClient
        BY <3>3 DEF ServerReceive, ServerHelloJoin, ServerHelloRefused,
           ServerInput, ServerPing, ServerBye
      <4> QED
        BY <2>1, <2>2, <4>1, <4>2
    <3> QED
      BY <2>3, <3>1, <3>2, <3>3 DEF ServerStep
  <2>4. ASSUME NEW c \in Clients, ClientStep(c) PROVE Addressed'
    <3>1. CASE Launch(c)
      BY <3>1 DEF Launch, net, Addressed, TypeOK
    <3>2. CASE SendHello(c) \/ KeepAlive(c)
      BY <2>2, <3>2 DEF SendHello, KeepAlive
    <3>3. CASE Quit(c)
      BY <3>3 DEF Quit, Addressed, TypeOK
    <3>4. CASE ClientReceive(c)
      <4>1. PICK m : Hear(c, m)
        BY <3>4 DEF ClientReceive, ClientAccepted, ClientRefused, ClientBye,
           ClientOther
      <4> QED
        BY <2>2, <4>1, NetTypes DEF Hear
    <3> QED
      BY <2>4, <3>1, <3>2, <3>3, <3>4 DEF ClientStep
  <2>5. CASE Second
    BY <2>2, <2>5, NetTypes DEF Second
  <2>6. CASE UNCHANGED vars
    BY <2>2, <2>6 DEF vars, clients, net
  <2> QED
    BY <2>3, <2>4, <2>5, <2>6 DEF Next
<1> QED
  BY <1>1, <1>2, <1>3

(* A second that passes finds nobody overdue. *)
LEMMA SecondInTime ==
  ASSUME IInv, Swept, Second, NEW s \in Slots, seat[s] # Nobody
  PROVE  silent[s] <= Timeout /\ silent'[s] = silent[s] + 1
<1>1. seat # Empty
  BY DEF Empty
<1>2. ~Expired(s)
  BY <1>1 DEF IInv, ClosedEmpty, Swept, Second
<1>3. silent[s] <= Timeout
  BY <1>2, NumbersAssumption DEF Expired, IInv, TypeOK, Ages
<1>4. silent'[s] = Older(silent[s])
  BY DEF Second
<1> QED
  BY <1>3, <1>4, NumbersAssumption DEF Older, IInv, TypeOK, Ages

(* A client that left sends nothing more. *)
LEMMA DepartedStays ==
  ASSUME IInv, [Next]_vars, NEW c \in Clients, stage[c] = "gone"
  PROVE  stage'[c] = "gone" /\ \A m \in toServer' : m.from = c => m \in toServer
<1> USE DEF IInv
<1> DEFINE Stays ==
      stage'[c] = "gone" /\ \A m \in toServer' : m.from = c => m \in toServer
<1>1. CASE Second
  BY <1>1, NetTypes DEF Second
<1>2. CASE UNCHANGED <<stage, toServer>>
  BY <1>2
<1>3. CASE ServerStep
  <2>1. ASSUME NEW d \in Clients, ServerReceive(d) PROVE Stays
    <3>1. stage' = stage
      BY <2>1 DEF ServerReceive, ServerHelloJoin, ServerHelloRefused,
         ServerInput, ServerPing, ServerBye, Receive, clients
    <3>2. toServer' \subseteq toServer
      BY <2>1, NetTypes DEF ServerReceive, ServerHelloJoin, ServerHelloRefused,
         ServerInput, ServerPing, ServerBye, Receive
    <3> QED
      BY <3>1, <3>2
  <2> QED
    BY <1>2, <1>3, <2>1 DEF ServerStep, Start, Stop, Broadcast, SetConfig,
       Sweep, clients, net
<1>4. ASSUME NEW d \in Clients, ClientStep(d) PROVE Stays
  <2>1. CASE Launch(d)
    BY <2>1 DEF Launch, net, TypeOK
  <2>2. CASE SendHello(d) \/ KeepAlive(d)
    <3>1. /\ stage[d] = "running" /\ stage' = stage
          /\ toServer' \subseteq toServer \cup
               {Msg("HELLO", d), Msg("INPUT", d), Msg("PING", d)}
      BY <2>2 DEF SendHello, KeepAlive
    <3>2. d # c
      BY <3>1
    <3> QED
      BY <3>1, <3>2 DEF Msg
  <2>3. CASE Quit(d)
    <3>1. /\ stage[d] = "running"
          /\ toServer' \subseteq toServer \cup {Msg("BYE", d)}
          /\ stage' = [stage EXCEPT ![d] = "gone"]
      BY <2>3 DEF Quit
    <3>2. d # c
      BY <3>1
    <3> QED
      BY <3>1, <3>2 DEF Msg, TypeOK
  <2>4. CASE ClientReceive(d)
    BY <1>2, <2>4 DEF ClientReceive, ClientAccepted, ClientRefused, ClientBye,
       ClientOther, Hear
  <2> QED
    BY <1>4, <2>1, <2>2, <2>3, <2>4 DEF ClientStep
<1> QED
  BY <1>1, <1>2, <1>3, <1>4 DEF Next, vars, clients, net

(* A seat does not look younger without a datagram of the one who has it. *)
LEMMA SeatAges ==
  ASSUME IInv, Swept, [Next]_vars,
         NEW s \in Slots, seat[s] # Nobody, Departed(seat[s]),
         seat'[s] = seat[s]
  PROVE  silent'[s] >= silent[s]
<1> USE DEF IInv
<1>1. silent[s] \in Int
  BY DEF TypeOK, Ages
<1>2. seat[s] \in Clients /\ seat # Empty
  BY DEF TypeOK, Empty
<1>3. CASE silent' = silent
  BY <1>1, <1>3
<1>4. CASE Second
  BY <1>1, <1>4, SecondInTime
<1>5. CASE Start
  BY <1>2, <1>5 DEF Start, ClosedEmpty
<1>6. CASE Stop
  BY <1>6 DEF Stop, Empty
<1>7. CASE Sweep
  <2>1. silent'[s] = silent[s]
    BY <1>7 DEF Sweep, Drop, TypeOK
  <2> QED
    BY <1>1, <2>1
<1>8. ASSUME NEW c \in Clients, ServerReceive(c) PROVE silent'[s] >= silent[s]
  <2>1. c # seat[s]
    BY <1>8 DEF ServerReceive, ServerHelloJoin, ServerHelloRefused, ServerInput,
       ServerPing, ServerBye, Receive, Departed, Msg
  <2>2. silent'[s] = silent[s]
    <3>1. CASE ServerHelloJoin(c)
      <4>1. s \notin SlotsFor(c)
        BY <2>1 DEF SlotsFor, Seats, FreeSeats
      <4> QED
        BY <3>1, <4>1 DEF ServerHelloJoin, TypeOK, SlotsFor, Seats, FreeSeats
    <3>2. CASE ServerHelloRefused(c)
      BY <3>2 DEF ServerHelloRefused
    <3>3. CASE ServerInput(c) \/ ServerPing(c)
      BY <2>1, <3>3 DEF ServerInput, ServerPing, Heard
    <3>4. CASE ServerBye(c)
      BY <2>1, <3>4 DEF ServerBye, Drop, Seats
    <3> QED
      BY <1>8, <3>1, <3>2, <3>3, <3>4 DEF ServerReceive
  <2> QED
    BY <1>1, <2>2
<1>9. ASSUME NEW c \in Clients, ClientStep(c) PROVE silent' = silent
  BY <1>9, ClientStepInv DEF server
<1> QED
  BY <1>3, <1>4, <1>5, <1>6, <1>7, <1>8, <1>9
     DEF Next, ServerStep, Broadcast, SetConfig, server, vars

(* The safety that SeatReclaimed rests on: from the last datagram of a client
   that left, its seat is free again within WSU_PEER_TIMEOUT_MS and two sweeps,
   whether its BYE arrives or not, and whatever the others send
   (session_server.cpp's loop). *)
THEOREM ReclaimIsNear == Spec => [][ReclaimStep]_vars
<1>1. Init => Swept /\ ConnectedRuns /\ Addressed
  BY DEF Init, Swept, ConnectedRuns, Addressed
<1>2. IInv /\ Swept /\ ConnectedRuns /\ Addressed /\ [Next]_vars
        => Swept' /\ ConnectedRuns' /\ Addressed'
  BY SweptKept
<1>3. IInv /\ Swept /\ [Next]_vars => ReclaimStep
  <2> SUFFICES ASSUME IInv, Swept, [Next]_vars PROVE ReclaimStep
    OBVIOUS
  <2>1. ASSUME NEW c \in Clients, stage[c] = "gone"
        PROVE  /\ stage'[c] = "gone"
               /\ \A m \in toServer' : m.from = c => m \in toServer
    BY <2>1, DepartedStays
  <2>2. ASSUME NEW s \in Slots, seat[s] # Nobody, Departed(seat[s])
        PROVE  /\ seat'[s] = seat[s] => silent'[s] >= silent[s]
               /\ Second => silent[s] <= Timeout /\ silent'[s] = silent[s] + 1
    BY <2>2, SeatAges, SecondInTime
  <2> QED
    BY <2>1, <2>2 DEF ReclaimStep
<1> QED
  BY <1>1, <1>2, <1>3, Invariant, PTL DEF Spec

(* The safety that HostLossNoticed rests on: a client whose host stopped gives
   it up after WSU_PEER_TIMEOUT_MS, unless a new one is started: what was still
   on the way only becomes less, and nothing else makes it believe that the
   host is there (client_app.cpp's loop). *)
THEOREM LossIsNear == Spec => [][LossStep]_vars
<1>1. Init => Swept /\ ConnectedRuns /\ Addressed
  BY DEF Init, Swept, ConnectedRuns, Addressed
<1>2. IInv /\ Swept /\ ConnectedRuns /\ Addressed /\ [Next]_vars
        => Swept' /\ ConnectedRuns' /\ Addressed'
  BY SweptKept
<1>3. IInv /\ ConnectedRuns /\ [Next]_vars => LossStep
  <2> SUFFICES ASSUME IInv, ConnectedRuns, [Next]_vars PROVE LossStep
    OBVIOUS
  <2> USE NumbersAssumption DEF IInv
  <2>1. ASSUME ~serving PROVE (~serving' /\ toClient' \subseteq toClient) \/ Start
    <3>1. CASE ServerStep
      BY <2>1, <3>1 DEF ServerStep, Start, Stop, Broadcast, SetConfig, Sweep,
         ServerReceive, ServerHelloJoin, ServerHelloRefused, ServerInput,
         ServerPing, ServerBye, Receive
    <3>2. ASSUME NEW c \in Clients, ClientStep(c)
          PROVE  serving' = serving /\ toClient' \subseteq toClient
      <4>1. CASE Launch(c) \/ SendHello(c) \/ KeepAlive(c) \/ Quit(c)
        BY <4>1 DEF Launch, SendHello, KeepAlive, Quit, server, net
      <4>2. CASE ClientReceive(c)
        BY <4>2, NetTypes DEF ClientReceive, ClientAccepted, ClientRefused,
           ClientBye, ClientOther, Hear, server
      <4> QED
        BY <3>2, <4>1, <4>2 DEF ClientStep
    <3>3. CASE Second
      BY <2>1, <3>3, NetTypes DEF Second
    <3>4. CASE UNCHANGED vars
      BY <2>1, <3>4 DEF vars, server, net
    <3> QED
      BY <3>1, <3>2, <3>3, <3>4, <2>1 DEF Next
  <2>2. ASSUME Gone, ServerStep PROVE Start
    BY <2>2 DEF Gone, ServerStep, Start, Stop, Broadcast, SetConfig, Sweep,
       ServerReceive, ServerHelloJoin, ServerHelloRefused, ServerInput,
       ServerPing, ServerBye, Receive
  <2>3. ASSUME NEW c \in Clients, Gone, ClientReceive(c) PROVE FALSE
    BY <2>3 DEF Gone, ClientReceive, ClientAccepted, ClientRefused, ClientBye,
       ClientOther, Hear
  <2>4. ASSUME Gone PROVE Gone' \/ Start
    BY <2>1, <2>4 DEF Gone
  <2>5. ASSUME Gone, NEW c \in Clients
        PROVE  /\ connected[c] =>
                    /\ connected'[c] => quiet'[c] >= quiet[c]
                    /\ Second => quiet[c] <= Timeout /\ quiet'[c] = quiet[c] + 1
               /\ ~connected[c] => ~connected'[c]
    <3>1. quiet[c] \in Int /\ quiet[c] <= Timeout + 1
      BY DEF TypeOK, Ages
    <3>2. CASE ~Second /\ UNCHANGED <<connected, quiet>>
      BY <3>1, <3>2
    <3>3. CASE Second
      <4>1. connected' = connected
        BY <3>3 DEF Second
      <4>2. ASSUME connected[c]
            PROVE  quiet[c] <= Timeout /\ quiet'[c] = quiet[c] + 1
        <5>1. ~HostLost(c)
          BY <3>3, <4>2 DEF Second, Due, ConnectedRuns
        <5>2. quiet[c] <= Timeout
          BY <3>1, <5>1 DEF HostLost
        <5> QED
          BY <3>1, <3>3, <4>2, <5>2 DEF Second, Older
      <4> QED
        BY <3>1, <4>1, <4>2
    <3>4. ASSUME NEW d \in Clients, ClientStep(d)
          PROVE  /\ connected'[c] => connected[c] /\ quiet'[c] = quiet[c]
      BY <2>3, <2>5, <3>4 DEF ClientStep, Launch, SendHello, KeepAlive, Quit,
         TypeOK
    <3>5. ServerStep => UNCHANGED <<connected, quiet>>
      BY <2>2, <2>5 DEF Start, clients
    <3>6. CASE ~Second /\ \E d \in Clients : ClientStep(d)
      BY <3>1, <3>4, <3>6 DEF TypeOK
    <3> QED
      BY <3>2, <3>3, <3>5, <3>6 DEF Next, vars, clients
  <2> QED
    BY <2>1, <2>4, <2>5 DEF LossStep
<1> QED
  BY <1>1, <1>2, <1>3, Invariant, PTL DEF Spec
=============================================================================
