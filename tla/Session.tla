------------------------------ MODULE Session ------------------------------
(***************************************************************************)
(* The lobby between remote players and the host: SessionServer            *)
(* (pc/src/host/session_server.cpp) hands out player slots, ClientApp      *)
(* (pc/src/client/client_app.cpp) joins, keeps alive and reconnects, and   *)
(* the input of a seated client goes into the host's InputHub.             *)
(*                                                                         *)
(* Time passes in units of a second, the period of HELLO, of PING and of   *)
(* the server's sweep.  Datagrams are lost and reordered at will; if Late, *)
(* they arrive in any later second, and if Duplicates, more than once.     *)
(* Everything the server's thread does under its mutex_ for one datagram   *)
(* is one step, as is one pass of the client's loop.  VIDEO, AUDIO and     *)
(* CONFIG are one kind of datagram, STREAM: to the session they only mean  *)
(* that the host was heard.                                                *)
(***************************************************************************)
EXTENDS Integers, FiniteSets

CONSTANTS
  Clients,     \* the client processes, each an endpoint of its own
  Foreign,     \* those built for another protocol version
  Nobody,
  MaxClients,  \* WSU_MAX_PLAYERS - 1
  Timeout,     \* WSU_PEER_TIMEOUT_MS, in seconds
  Duplicates,  \* whether the network may deliver a datagram again
  Late         \* whether it may take longer than to the next second

ASSUME ClientsAssumption == Nobody \notin Clients /\ Foreign \subseteq Clients
ASSUME NumbersAssumption == MaxClients \in Nat \ {0} /\ Timeout \in Nat \ {0}
ASSUME NetworkAssumption == Duplicates \in BOOLEAN /\ Late \in BOOLEAN

Slots == 1 .. MaxClients
NoSlot == 0    \* WSU_NO_SLOT
Ages == 0 .. Timeout + 1

VARIABLES
  \* SessionServer and the InputHub it writes
  serving,     \* running_
  seat,        \* clients_: whose endpoint holds each slot, if it is used
  silent,      \* how long ago lastSeenMs was
  haveConfig,  \* haveConfig_
  sweepDue,    \* a second has passed since lastSweep
  hub,         \* whose state each slot of the hub holds
  \* ClientApp
  stage,       \* whether run() has not begun, is in its loop, or returned
  connected,   \* connected_
  slot,        \* slot_
  quiet,       \* how long ago lastRecv was
  helloDue,    \* a second has passed since lastHello
  pingDue,     \* a second has passed since lastPing
  \* the network
  toServer,
  toClient

server == <<serving, seat, silent, haveConfig, sweepDue, hub>>
clients == <<stage, connected, slot, quiet, helloDue, pingDue>>
net == <<toServer, toClient>>
vars == <<server, clients, net>>

Request == [type : {"HELLO", "INPUT", "PING", "BYE"}, from : Clients]
Status == {"OK", "FULL", "VERSION_MISMATCH"}
Reply ==
  [type : {"HELLO_ACK"}, to : Clients, status : Status, slot : Slots \cup {NoSlot}]
    \cup [type : {"STREAM", "PONG", "BYE"}, to : Clients]

Msg(type, c) == [type |-> type, from |-> c]
Rpl(type, c) == [type |-> type, to |-> c]
Ack(c, status, s) == [type |-> "HELLO_ACK", to |-> c, status |-> status, slot |-> s]

(* A client that is not running has no socket. *)
Sent(replies) == toClient \cup {m \in replies : stage[m.to] = "running"}

(* What is left of the datagrams in flight once m has been received. *)
Rest(msgs, m) == IF Duplicates THEN {msgs, msgs \ {m}} ELSE {msgs \ {m}}

(* What may be left of them when a second has passed: the rest is lost. *)
Outlive(msgs) == IF Late THEN SUBSET msgs ELSE {{}}

Empty == [s \in Slots |-> Nobody]

Init ==
  /\ serving = FALSE
  /\ seat = Empty
  /\ silent = [s \in Slots |-> 0]
  /\ haveConfig = FALSE
  /\ sweepDue = TRUE
  /\ hub = Empty
  /\ stage = [c \in Clients |-> "idle"]
  /\ connected = [c \in Clients |-> FALSE]
  /\ slot = [c \in Clients |-> NoSlot]
  /\ quiet = [c \in Clients |-> 0]
  /\ helloDue = [c \in Clients |-> TRUE]
  /\ pingDue = [c \in Clients |-> TRUE]
  /\ toServer = {}
  /\ toClient = {}

-----------------------------------------------------------------------------
(* SessionServer. *)

Seats(c) == {s \in Slots : seat[s] = c}     \* findBySender
FreeSeats == {s \in Slots : seat[s] = Nobody}
Seated == {c \in Clients : Seats(c) # {}}

(* start: a host is started, with a server and a hub of its own. *)
Start ==
  /\ ~serving
  /\ serving' = TRUE
  /\ seat' = Empty
  /\ silent' = [s \in Slots |-> 0]
  /\ haveConfig' = FALSE
  /\ sweepDue' = TRUE
  /\ hub' = Empty
  /\ UNCHANGED <<clients, net>>

(* stop: everybody is told; the hub is left as it is. *)
Stop ==
  /\ serving
  /\ serving' = FALSE
  /\ toClient' = Sent({Rpl("BYE", c) : c \in Seated})
  /\ seat' = Empty
  /\ silent' = [s \in Slots |-> 0]
  /\ UNCHANGED <<haveConfig, sweepDue, hub, clients, toServer>>

(* broadcast: a datagram of the console's stream is relayed. *)
Broadcast ==
  /\ serving
  /\ toClient' = Sent({Rpl("STREAM", c) : c \in Seated})
  /\ UNCHANGED <<server, clients, toServer>>

(* setConfig, with a configuration that differs from the last. *)
SetConfig ==
  /\ serving
  /\ haveConfig' = TRUE
  /\ toClient' = Sent({Rpl("STREAM", c) : c \in Seated})
  /\ UNCHANGED <<serving, seat, silent, sweepDue, hub, clients, toServer>>

(* Mutants of Expired: one second too early; never. *)
ExpiredEarly(s) == seat[s] # Nobody /\ silent[s] >= Timeout
ExpiredNever(s) == FALSE

Expired(s) == seat[s] # Nobody /\ silent[s] > Timeout

(* Mutant of Drop: the slot of the hub is not cleared. *)
DropButInput(S) ==
  /\ seat' = [s \in Slots |-> IF s \in S THEN Nobody ELSE seat[s]]
  /\ silent' = [s \in Slots |-> IF s \in S THEN 0 ELSE silent[s]]
  /\ UNCHANGED hub

(* dropClient *)
Drop(S) ==
  /\ seat' = [s \in Slots |-> IF s \in S THEN Nobody ELSE seat[s]]
  /\ silent' = [s \in Slots |-> IF s \in S THEN 0 ELSE silent[s]]
  /\ hub' = [s \in Slots |-> IF s \in S THEN Nobody ELSE hub[s]]

(* loop: once a second, the clients not heard of for too long are dropped.
   They are not told. *)
Sweep ==
  /\ serving /\ sweepDue
  /\ sweepDue' = FALSE
  /\ Drop({s \in Slots : Expired(s)})
  /\ UNCHANGED <<serving, haveConfig, clients, net>>

(* lastSeenMs of the sender is set. *)
Heard(c) == silent' = [s \in Slots |-> IF seat[s] = c THEN 0 ELSE silent[s]]

Receive(type, c) ==
  /\ serving
  /\ Msg(type, c) \in toServer
  /\ toServer' \in Rest(toServer, Msg(type, c))
  /\ UNCHANGED <<serving, haveConfig, sweepDue, clients>>

(* Mutant of SlotsFor: a sender that has a slot is not recognised. *)
SlotsForAnew(c) == FreeSeats

(* The slots handleHello chooses the first of: the sender's own, or else
   those that are not used. *)
SlotsFor(c) == IF Seats(c) # {} THEN Seats(c) ELSE FreeSeats

ServerHelloJoin(c) ==
  /\ Receive("HELLO", c)
  /\ c \notin Foreign
  /\ \E s \in SlotsFor(c) :
       /\ \A t \in SlotsFor(c) : s <= t
       /\ seat' = [seat EXCEPT ![s] = c]
       /\ silent' = [silent EXCEPT ![s] = 0]
       /\ toClient' = Sent({Ack(c, "OK", s)} \cup
                           (IF haveConfig THEN {Rpl("STREAM", c)} ELSE {}))
  /\ UNCHANGED hub

(* A HELLO of another role is REJECTED; no ClientApp says one. *)
ServerHelloRefused(c) ==
  /\ Receive("HELLO", c)
  /\ c \in Foreign \/ SlotsFor(c) = {}
  /\ toClient' = Sent({Ack(c, IF c \in Foreign THEN "VERSION_MISMATCH" ELSE "FULL",
                           NoSlot)})
  /\ UNCHANGED <<seat, silent, hub>>

ServerInput(c) ==
  /\ Receive("INPUT", c)
  /\ Heard(c)
  /\ hub' = [s \in Slots |-> IF seat[s] = c THEN c ELSE hub[s]]
  /\ UNCHANGED <<seat, toClient>>

(* Whoever sends a PING gets a PONG, with a seat or without. *)
ServerPing(c) ==
  /\ Receive("PING", c)
  /\ Heard(c)
  /\ toClient' = Sent({Rpl("PONG", c)})
  /\ UNCHANGED <<seat, hub>>

ServerBye(c) ==
  /\ Receive("BYE", c)
  /\ Drop(Seats(c))
  /\ UNCHANGED toClient

ServerReceive(c) ==
  \/ ServerHelloJoin(c)
  \/ ServerHelloRefused(c)
  \/ ServerInput(c)
  \/ ServerPing(c)
  \/ ServerBye(c)

-----------------------------------------------------------------------------
(* ClientApp.  quiet is only compared while the client is connected. *)

Launch(c) ==
  /\ stage[c] = "idle"
  /\ stage' = [stage EXCEPT ![c] = "running"]
  /\ UNCHANGED <<server, connected, slot, quiet, helloDue, pingDue, net>>

(* A pass of the loop while not connected: HELLO, once a second. *)
SendHello(c) ==
  /\ stage[c] = "running" /\ ~connected[c] /\ helloDue[c]
  /\ helloDue' = [helloDue EXCEPT ![c] = FALSE]
  /\ toServer' = toServer \cup {Msg("HELLO", c)}
  /\ UNCHANGED <<server, stage, connected, slot, quiet, pingDue, toClient>>

(* Mutant of HostLost: only a BYE ends the connection. *)
HostLostNever(c) == FALSE

HostLost(c) == quiet[c] > Timeout

(* A pass of the loop while connected: a host that was silent for too long
   is given up; the input, if there is any, and the PING that is due are
   sent in any case. *)
KeepAlive(c) ==
  /\ stage[c] = "running" /\ connected[c]
  /\ connected' = [connected EXCEPT ![c] = ~HostLost(c)]
  /\ slot' = [slot EXCEPT ![c] = IF HostLost(c) THEN NoSlot ELSE @]
  /\ quiet' = [quiet EXCEPT ![c] = IF HostLost(c) THEN 0 ELSE @]
  /\ pingDue' = [pingDue EXCEPT ![c] = FALSE]
  /\ \E input \in {{}, {Msg("INPUT", c)}} :
       toServer' = toServer \cup input
                     \cup (IF pingDue[c] THEN {Msg("PING", c)} ELSE {})
  /\ UNCHANGED <<server, stage, helloDue, toClient>>

(* run returns: the display was closed or the program told to stop. *)
Quit(c) ==
  /\ stage[c] = "running"
  /\ stage' = [stage EXCEPT ![c] = "gone"]
  /\ connected' = [connected EXCEPT ![c] = FALSE]
  /\ slot' = [slot EXCEPT ![c] = NoSlot]
  /\ quiet' = [quiet EXCEPT ![c] = 0]
  /\ toServer' = toServer \cup (IF connected[c] THEN {Msg("BYE", c)} ELSE {})
  /\ toClient' = {m \in toClient : m.to # c}
  /\ UNCHANGED <<server, helloDue, pingDue>>

(* A datagram from the host, of any type, shows that it is there. *)
Hear(c, m) ==
  /\ m \in toClient /\ m.to = c
  /\ toClient' \in Rest(toClient, m)
  /\ quiet' = [quiet EXCEPT ![c] = 0]
  /\ UNCHANGED <<server, stage, helloDue, pingDue, toServer>>

ClientAccepted(c) ==
  \E s \in Slots :
    /\ Hear(c, Ack(c, "OK", s))
    /\ connected' = [connected EXCEPT ![c] = TRUE]
    /\ slot' = [slot EXCEPT ![c] = s]

(* The slot is kept when the join is refused. *)
ClientRefused(c) ==
  \E status \in Status \ {"OK"} :
    /\ Hear(c, Ack(c, status, NoSlot))
    /\ connected' = [connected EXCEPT ![c] = FALSE]
    /\ UNCHANGED slot

ClientBye(c) ==
  /\ Hear(c, Rpl("BYE", c))
  /\ connected' = [connected EXCEPT ![c] = FALSE]
  /\ slot' = [slot EXCEPT ![c] = NoSlot]

ClientOther(c) ==
  /\ Hear(c, Rpl("STREAM", c)) \/ Hear(c, Rpl("PONG", c))
  /\ UNCHANGED <<connected, slot>>

ClientReceive(c) ==
  \/ ClientAccepted(c)
  \/ ClientRefused(c)
  \/ ClientBye(c)
  \/ ClientOther(c)

-----------------------------------------------------------------------------
(* Nobody's loop lets a second go by without doing what is due. *)
Due(c) ==
  /\ stage[c] = "running"
  /\ IF connected[c] THEN pingDue[c] \/ HostLost(c) ELSE helloDue[c]

Older(age) == IF age > Timeout THEN age ELSE age + 1

(* Mutant of HelloAgain: an unanswered HELLO is not repeated. *)
HelloOnce == helloDue

(* kHelloIntervalMs later. *)
HelloAgain == [c \in Clients |-> TRUE]

(* A second passes. *)
Second ==
  /\ ~(serving /\ sweepDue)
  /\ \A c \in Clients : ~Due(c)
  /\ sweepDue' = TRUE
  /\ silent' = [s \in Slots |-> IF seat[s] = Nobody THEN 0 ELSE Older(silent[s])]
  /\ quiet' = [c \in Clients |-> IF connected[c] THEN Older(quiet[c]) ELSE 0]
  /\ helloDue' = HelloAgain
  /\ pingDue' = [c \in Clients |-> TRUE]
  /\ toServer' \in Outlive(toServer)
  /\ toClient' \in Outlive(toClient)
  /\ UNCHANGED <<serving, seat, haveConfig, hub, stage, connected, slot>>

ServerStep ==
  \/ Start \/ Stop \/ Broadcast \/ SetConfig \/ Sweep
  \/ \E c \in Clients : ServerReceive(c)

ClientStep(c) ==
  Launch(c) \/ SendHello(c) \/ KeepAlive(c) \/ Quit(c) \/ ClientReceive(c)

Next == ServerStep \/ (\E c \in Clients : ClientStep(c)) \/ Second

Spec == Init /\ [][Next]_vars

(* The loops keep running and the clock keeps going; a datagram that is not
   lost is received.  What players and hosts do is up to them: no fairness
   for Start, Stop, Launch, Quit or the stream. *)
Fairness ==
  /\ WF_vars(Second)
  /\ WF_vars(Sweep)
  /\ \A c \in Clients :
       /\ WF_vars(SendHello(c))
       /\ WF_vars(Due(c) /\ KeepAlive(c))
       /\ WF_vars(ServerHelloJoin(c) \/ ServerHelloRefused(c))
       /\ WF_vars(ServerInput(c))
       /\ WF_vars(ServerPing(c))
       /\ WF_vars(ServerBye(c))
       /\ WF_vars(ClientAccepted(c))
       /\ WF_vars(ClientRefused(c))
       /\ WF_vars(ClientBye(c))
       /\ WF_vars(ClientOther(c))

LiveSpec == Spec /\ Fairness

-----------------------------------------------------------------------------
TypeOK ==
  /\ serving \in BOOLEAN
  /\ seat \in [Slots -> Clients \cup {Nobody}]
  /\ silent \in [Slots -> Ages]
  /\ haveConfig \in BOOLEAN
  /\ sweepDue \in BOOLEAN
  /\ hub \in [Slots -> Clients \cup {Nobody}]
  /\ stage \in [Clients -> {"idle", "running", "gone"}]
  /\ connected \in [Clients -> BOOLEAN]
  /\ slot \in [Clients -> Slots \cup {NoSlot}]
  /\ quiet \in [Clients -> Ages]
  /\ helloDue \in [Clients -> BOOLEAN]
  /\ pingDue \in [Clients -> BOOLEAN]
  /\ toServer \subseteq Request
  /\ toClient \subseteq Reply

(* No client plays for two: an endpoint never holds two slots. *)
OneSeatEach ==
  \A s, t \in Slots : seat[s] # Nobody /\ seat[s] = seat[t] => s = t

(* The state the host sends to the console for a slot came from the client
   that has the slot now, never from one that had it before. *)
InputFromSeat ==
  serving => \A s \in Slots : hub[s] \in {Nobody, seat[s]}

(* A client loses its seat by leaving, by being silent for too long or by
   the server's stop, and to nothing that another client does. *)
SeatStep ==
  \A s \in Slots :
    LET c == seat[s]
    IN  c # Nobody /\ seat'[s] # c =>
          /\ seat'[s] = Nobody
          /\ stage[c] = "gone" \/ silent[s] > Timeout \/ ~serving'

SeatKept == [][SeatStep]_vars

(* client_app.h:38: slot() is the assigned player slot.  A connected client
   that has a seat shows the number of that seat, and of no seat it had before,
   when nothing is under way that could still tell it.  This is not so on a
   network that duplicates or delivers late (MCSession with the constants of
   session.cfg): a HELLO_ACK of the host's previous run that comes last is
   believed, and no run lists it. *)
SlotShown ==
  \A c \in Clients :
    connected[c] /\ Msg("HELLO", c) \notin toServer /\ (\A m \in toClient : m.to # c)
      => \A s \in Seats(c) : slot[c] = s

(* The inductive invariant behind them. *)
ClosedEmpty == ~serving => seat = Empty
ByeMeansGone == \A c \in Clients : Msg("BYE", c) \in toServer => stage[c] = "gone"

IInv == TypeOK /\ OneSeatEach /\ InputFromSeat /\ ClosedEmpty /\ ByeMeansGone

(* The session implements the leases of the slots.  The hub counts while
   the server is there to answer for it. *)
Leases == INSTANCE SeatLease
            WITH holder <- seat, source <- IF serving THEN hub ELSE Empty

ImplementsSeatLease == Leases!Spec

(* From some time on no datagram is lost. *)
Delivered == toClient = {} /\ (serving => toServer = {})
NetworkRecovers == <>[][Second => Delivered]_vars

(* Once the host stays up and the network recovers, nobody who wants to play
   is kept waiting, unless others have all the slots: HELLO is repeated until
   the answer to one has arrived.  That it has a slot itself is no excuse. *)
Joins ==
  NetworkRecovers /\ <>[]serving =>
    \A c \in Clients \ Foreign :
      []<>(stage[c] = "running" =>
             connected[c] \/ \A s \in Slots : seat[s] \notin {Nobody, c})

(* The slot of a client that has left becomes free, BYE or no BYE. *)
SeatReclaimed == \A c \in Clients : stage[c] = "gone" ~> c \notin Seated

(* A client finds out that its host is gone, BYE or no BYE. *)
HostLossNoticed ==
  <>[]~serving => \A c \in Clients : <>[]~connected[c]

(* docs/protocol.md:73-77: silence on either side tears the link down, and
   the other side falls back to HELLO. *)
NoOrphan ==
  NetworkRecovers /\ <>[]serving =>
    \A c \in Clients : []<>(connected[c] => c \in Seated)
=============================================================================
