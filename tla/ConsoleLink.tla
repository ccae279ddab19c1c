----------------------------- MODULE ConsoleLink ----------------------------
(***************************************************************************)
(* The two links between the console and the host PC.  WiiULink            *)
(* (pc/src/host/wiiu_link.cpp) has a loop for each, which greets the       *)
(* console until it answers and then pings it: streamLoop, whose peer is   *)
(* the network module of the stream plugin                                 *)
(* (wiiu/stream-plugin/src/net.cpp), which sends to the host that greeted  *)
(* it last and pauses when it no longer hears of one; and inputLoop, whose *)
(* peer is the network thread of the input plugin                          *)
(* (wiiu/input-plugin/src/main.cpp) and which shares its socket with       *)
(* sendInputBundle.  Either peer may be the one of the console simulator   *)
(* instead (pc/src/sim/console_sim.cpp).  The links have nothing in common *)
(* but running_: a behaviour is one link with one kind of peer.            *)
(*                                                                         *)
(* Time passes in seconds as in Session: what was sent in a second arrives *)
(* in it, in any order, or is lost.  VIDEO and AUDIO are one kind of       *)
(* datagram, MEDIA.  No program of the repository sends BYE on the stream  *)
(* link.  What a BUNDLE does to the controllers is in InputPlugin.         *)
(***************************************************************************)
EXTENDS Integers, FiniteSets

CONSTANTS
  Peers,        \* the kinds of peer there may be
  Hosts,        \* the WiiULink objects, each an endpoint of its own
  Foreign,      \* those that may be of another protocol version
  Nobody,       \* the address before the first HELLO
  Timeout,      \* WSU_PEER_TIMEOUT_MS, in seconds
  ConfigPeriod, \* kConfigIntervalMs, in seconds
  MaxSlices     \* bound: slices per frame

Streams == {"stream", "simStream"}
Inputs == {"input", "simInput"}

ASSUME PeersAssumption == Peers \subseteq Streams \cup Inputs
ASSUME HostsAssumption == Nobody \notin Hosts /\ Foreign \subseteq Hosts
ASSUME PeriodsAssumption ==
  Timeout \in Nat \ {0} /\ ConfigPeriod \in Nat \ {0} /\ MaxSlices \in Nat \ {0}

Unheard == Timeout + 2   \* the time of the last datagram is 0
Ages == 0 .. Unheard

VARIABLES
  peer,        \* the kind of the peer; it never changes
  \* the console
  listening,   \* gRunning, or running_
  active,      \* gHostActive, gHostConnected, or hostKnown_
  hostAddr,    \* gHostAddr, or host
  silent,      \* how long ago gLastHostSeenMs, or lastHostSeen, was
  configAge,   \* how long ago lastConfigMs, or lastConfig, was
  slices,      \* slices the encoder has yet to send of a frame; the frames the
               \* simulator has yet to send this second
  \* the hosts
  stage,       \* whether start was called, and stop
  up,          \* streamUp_, or inputUp_
  quiet,       \* how long ago lastRecv was
  helloDue,    \* a second has passed since lastHello
  pingDue,     \* a second has passed since lastPing
  \* the network
  toConsole,
  toHost,
  \* history
  lossless     \* nothing was lost so far, and no application ended

console == <<listening, active, hostAddr, silent, configAge, slices>>
hosts == <<stage, up, quiet, helloDue, pingDue>>
net == <<toConsole, toHost>>
vars == <<peer, console, hosts, net, lossless>>

Request ==
  [type : {"HELLO", "OTHER_HELLO", "PING", "BUNDLE", "BYE"}, from : Hosts]
Reply == [type : {"ACK_OK", "ACK_MISMATCH", "CONFIG", "MEDIA", "PONG"}, to : Hosts]

Msg(type, h) == [type |-> type, from |-> h]
Rpl(type, h) == [type |-> type, to |-> h]

Running(h) == stage[h] \in {"running", "foreign"}

(* What is sent to h: nothing arrives unless a host is there. *)
Sent(types, h) ==
  toHost \cup (IF h \in Hosts /\ Running(h) THEN {Rpl(t, h) : t \in types} ELSE {})

Init ==
  /\ peer \in Peers
  /\ listening = FALSE
  /\ active = FALSE
  /\ hostAddr = Nobody
  /\ silent = Unheard
  /\ configAge = ConfigPeriod
  /\ slices = 0
  /\ stage = [h \in Hosts |-> "idle"]
  /\ up = [h \in Hosts |-> FALSE]
  /\ quiet = [h \in Hosts |-> 0]
  /\ helloDue = [h \in Hosts |-> TRUE]
  /\ pingDue = [h \in Hosts |-> TRUE]
  /\ toConsole = {}
  /\ toHost = {}
  /\ lossless = TRUE

-----------------------------------------------------------------------------
(* The console. *)

(* The start of an application, or of the simulator.  Only the stream plugin
   keeps the time of the last datagram outside of its thread. *)
ConsoleStart ==
  /\ ~listening
  /\ listening' = TRUE
  /\ configAge' = ConfigPeriod
  /\ silent' = IF peer = "stream" THEN silent ELSE Unheard
  /\ UNCHANGED <<active, hostAddr, slices, hosts, net, peer, lossless>>

(* The end of an application, for the stream plugin (netStop) ... *)
StreamStop ==
  /\ peer = "stream"
  /\ active' = FALSE
  /\ UNCHANGED <<hostAddr, slices>>

(* ... and for the input plugin, which keeps gHostConnected; ... *)
InputStop ==
  /\ peer = "input"
  /\ UNCHANGED <<active, hostAddr, slices>>

(* ... a simulator that is started again is a new one. *)
SimStop ==
  /\ peer \in {"simStream", "simInput"}
  /\ active' = FALSE /\ hostAddr' = Nobody /\ slices' = 0

ConsoleStop ==
  /\ listening
  /\ listening' = FALSE
  /\ StreamStop \/ InputStop \/ SimStop
  /\ lossless' = FALSE
  /\ UNCHANGED <<silent, configAge, hosts, net, peer>>

(* Mutant of HostSilent. *)
HostSilentNever == FALSE

(* A time of 0 is taken for none. *)
HostSilent == silent = Timeout + 1

(* Mutant of ConfigDue: CONFIG is sent once. *)
ConfigOnce == FALSE

ConfigDue == configAge >= ConfigPeriod

(* A pass of netThread while a host is active: the stream is paused if it
   was silent for too long, or else a CONFIG that is due is sent; audio is
   sent in either case, if there is a chunk of it. *)
StreamPass ==
  /\ peer = "stream"
  /\ listening /\ active
  /\ active' = ~HostSilent
  /\ LET due == ~HostSilent /\ ConfigDue
     IN  /\ configAge' = IF due THEN 0 ELSE configAge
         /\ \E audio \in {{}, {"MEDIA"}} :
           toHost' = Sent(audio \cup (IF due THEN {"CONFIG"} ELSE {}), hostAddr)
  /\ UNCHANGED <<listening, hostAddr, silent, slices, hosts, toConsole, peer, lossless>>

(* A pass of the input plugin's loop that finds the host silent. *)
InputPass ==
  /\ peer = "input"
  /\ listening /\ active /\ HostSilent
  /\ active' = FALSE
  /\ UNCHANGED <<listening, hostAddr, silent, configAge, slices>>
  /\ UNCHANGED <<hosts, net, peer, lossless>>

(* A pass of the simulator's streamLoop: a CONFIG and a frame that are due; a
   second has several frames. *)
SimPass ==
  /\ peer = "simStream"
  /\ listening /\ active
  /\ active' = ~HostSilent
  /\ LET due == IF HostSilent THEN {}
                ELSE {t \in {"CONFIG", "MEDIA"} : t = "CONFIG" => ConfigDue}
     IN  /\ configAge' = IF "CONFIG" \in due THEN 0 ELSE configAge
         /\ toHost' = Sent(due, hostAddr)
  /\ slices' = IF HostSilent THEN slices ELSE 0
  /\ UNCHANGED <<listening, hostAddr, silent, hosts, toConsole, peer, lossless>>

ConsolePass == StreamPass \/ InputPass \/ SimPass

(* wsu_video_slice_count of frames that are not empty. *)
SliceCounts == 1 .. MaxSlices

(* netSendVideoFrame looks at gHostActive before the first slice ... *)
FrameBegin ==
  /\ peer = "stream"
  /\ active /\ slices = 0
  /\ slices' \in SliceCounts
  /\ UNCHANGED <<listening, active, hostAddr, silent, configAge>>
  /\ UNCHANGED <<hosts, net, peer, lossless>>

(* ... and sends them to whatever address there is when each gets the lock,
   if there is a socket. *)
FrameSlice ==
  /\ peer = "stream"
  /\ slices > 0
  /\ slices' = slices - 1
  /\ toHost' = IF listening THEN Sent({"MEDIA"}, hostAddr) ELSE toHost
  /\ UNCHANGED <<listening, active, hostAddr, silent, configAge>>
  /\ UNCHANGED <<hosts, toConsole, peer, lossless>>

ConsoleReceive(type, h) ==
  /\ listening
  /\ Msg(type, h) \in toConsole
  /\ toConsole' = toConsole \ {Msg(type, h)}
  /\ UNCHANGED <<listening, slices, hosts, peer, lossless>>

(* The stream plugin takes the address from any HELLO, the rest only if the
   version fits. *)
StreamHello(h) ==
  /\ peer = "stream"
  /\ hostAddr' = h
  /\ \/ /\ ConsoleReceive("HELLO", h)
        /\ toHost' = Sent({"ACK_OK", "CONFIG"}, h)
        /\ active' = TRUE /\ silent' = 0 /\ configAge' = 0
     \/ /\ ConsoleReceive("OTHER_HELLO", h)
        /\ toHost' = Sent({"ACK_MISMATCH"}, h)
        /\ UNCHANGED <<active, silent, configAge>>

(* The input plugin has no address: it answers who asks. *)
InputHello(h) ==
  /\ peer = "input"
  /\ \/ /\ ConsoleReceive("HELLO", h)
        /\ toHost' = Sent({"ACK_OK"}, h)
        /\ active' = TRUE /\ silent' = 0
     \/ /\ ConsoleReceive("OTHER_HELLO", h)
        /\ toHost' = Sent({"ACK_MISMATCH"}, h)
        /\ UNCHANGED <<active, silent>>
  /\ UNCHANGED <<hostAddr, configAge>>

(* The simulator takes everything from a HELLO of the right version, or
   nothing, and leaves CONFIG to the next pass. *)
SimHello(h) ==
  /\ peer = "simStream"
  /\ \/ /\ ConsoleReceive("HELLO", h)
        /\ toHost' = Sent({"ACK_OK"}, h)
        /\ active' = TRUE /\ silent' = 0
        /\ hostAddr' = h /\ configAge' = ConfigPeriod
     \/ /\ ConsoleReceive("OTHER_HELLO", h)
        /\ toHost' = Sent({"ACK_MISMATCH"}, h)
        /\ UNCHANGED <<active, silent, hostAddr, configAge>>

(* The simulator's inputLoop keeps no state of the host. *)
SimInputHello(h) ==
  /\ peer = "simInput"
  /\ \/ ConsoleReceive("HELLO", h) /\ toHost' = Sent({"ACK_OK"}, h)
     \/ ConsoleReceive("OTHER_HELLO", h) /\ toHost' = Sent({"ACK_MISMATCH"}, h)
  /\ UNCHANGED <<active, silent, hostAddr, configAge>>

ConsoleHello(h) ==
  StreamHello(h) \/ InputHello(h) \/ SimHello(h) \/ SimInputHello(h)

(* The stream plugin sends the PONG to the address of the last HELLO, whoever
   sent the PING; the host counts as heard, but a paused stream is not
   resumed. *)
StreamPing(h) ==
  /\ peer = "stream"
  /\ ConsoleReceive("PING", h)
  /\ toHost' = Sent({"PONG"}, hostAddr)
  /\ silent' = 0
  /\ UNCHANGED <<active, hostAddr, configAge>>

InputPing(h) ==
  /\ peer = "input"
  /\ ConsoleReceive("PING", h)
  /\ toHost' = Sent({"PONG"}, h)
  /\ silent' = 0
  /\ UNCHANGED <<active, hostAddr, configAge>>

(* In the simulator the host that has the stream counts as heard. *)
SimPing(h) ==
  /\ peer \in {"simStream", "simInput"}
  /\ ConsoleReceive("PING", h)
  /\ toHost' = Sent({"PONG"}, h)
  /\ silent' = IF h = hostAddr THEN 0 ELSE silent
  /\ UNCHANGED <<active, hostAddr, configAge>>

ConsolePing(h) == StreamPing(h) \/ InputPing(h) \/ SimPing(h)

InputBundle(h) ==
  /\ ConsoleReceive("BUNDLE", h)
  /\ IF peer = "input" THEN active' = TRUE /\ silent' = 0
                       ELSE UNCHANGED <<active, silent>>
  /\ UNCHANGED <<hostAddr, configAge, toHost>>

(* The input plugin takes any BYE for its host's, the simulator none. *)
InputBye(h) ==
  /\ ConsoleReceive("BYE", h)
  /\ active' = (active /\ peer # "input")
  /\ UNCHANGED <<hostAddr, silent, configAge, toHost>>

-----------------------------------------------------------------------------
(* The hosts. *)

HostStart(h) ==
  /\ stage[h] = "idle"
  /\ \/ stage' = [stage EXCEPT ![h] = "running"]
     \/ h \in Foreign /\ stage' = [stage EXCEPT ![h] = "foreign"]
  /\ UNCHANGED <<console, up, quiet, helloDue, pingDue, net, peer, lossless>>

(* stop; it says BYE to the input plugin, if that link is up. *)
HostStop(h) ==
  /\ Running(h)
  /\ stage' = [stage EXCEPT ![h] = "gone"]
  /\ up' = [up EXCEPT ![h] = FALSE]
  /\ quiet' = [quiet EXCEPT ![h] = 0]
  /\ toHost' = {m \in toHost : m.to # h}
  /\ toConsole' = toConsole \cup
       (IF peer \in Inputs /\ up[h] THEN {Msg("BYE", h)} ELSE {})
  /\ UNCHANGED <<console, helloDue, pingDue, peer, lossless>>

HostHello(h) ==
  /\ Running(h) /\ ~up[h] /\ helloDue[h]
  /\ helloDue' = [helloDue EXCEPT ![h] = FALSE]
  /\ toConsole' = toConsole \cup
       {Msg(IF stage[h] = "running" THEN "HELLO" ELSE "OTHER_HELLO", h)}
  /\ UNCHANGED <<console, stage, up, quiet, pingDue, toHost, peer, lossless>>

(* Mutant of LinkLost: never. *)
LinkLostNever(h) == FALSE

LinkLost(h) == quiet[h] > Timeout

(* A pass of either loop while the link is up: the PING that is due is sent
   first, then the link is given up if the console was silent. *)
HostPass(h) ==
  /\ Running(h) /\ up[h]
  /\ pingDue[h] \/ LinkLost(h)
  /\ pingDue' = [pingDue EXCEPT ![h] = FALSE]
  /\ toConsole' = toConsole \cup (IF pingDue[h] THEN {Msg("PING", h)} ELSE {})
  /\ up' = [up EXCEPT ![h] = ~LinkLost(h)]
  /\ quiet' = [quiet EXCEPT ![h] = IF LinkLost(h) THEN 0 ELSE @]
  /\ UNCHANGED <<console, stage, helloDue, toHost, peer, lossless>>

(* sendInputBundle, from the main loop of the host, when a player is active. *)
HostBundle(h) ==
  /\ peer \in Inputs
  /\ Running(h) /\ up[h]
  /\ Msg("BUNDLE", h) \notin toConsole
  /\ toConsole' = toConsole \cup {Msg("BUNDLE", h)}
  /\ UNCHANGED <<console, hosts, toHost, peer, lossless>>

(* Any datagram sets lastRecv; an accepted HELLO brings the link up. *)
HostReceive(h, type) ==
  /\ Rpl(type, h) \in toHost
  /\ toHost' = toHost \ {Rpl(type, h)}
  /\ quiet' = [quiet EXCEPT ![h] = 0]
  /\ up' = [up EXCEPT ![h] = @ \/ type = "ACK_OK"]
  /\ UNCHANGED <<console, stage, helloDue, pingDue, toConsole, peer, lossless>>

HostAnswered(h) == HostReceive(h, "ACK_OK") \/ HostReceive(h, "ACK_MISMATCH")
HostConfig(h) == HostReceive(h, "CONFIG")
HostMedia(h) == HostReceive(h, "MEDIA")
HostPong(h) == HostReceive(h, "PONG")

-----------------------------------------------------------------------------
(* No loop lets a second go by without doing what is due. *)
ConsoleDue ==
  /\ listening /\ active
  /\ \/ HostSilent
     \/ peer \in Streams /\ ConfigDue
     \/ peer = "simStream" /\ slices > 0
HostDue(h) ==
  Running(h) /\ IF up[h] THEN pingDue[h] \/ LinkLost(h) ELSE helloDue[h]

Older(age) == IF age > Timeout THEN age ELSE age + 1

(* Mutant of HelloAgain: an unanswered HELLO is not repeated. *)
HelloOnce == helloDue

(* kHelloIntervalMs later. *)
HelloAgain == [h \in Hosts |-> TRUE]

(* No datagram is in flight to a program that could receive it. *)
Delivered == (listening => toConsole = {}) /\ toHost = {}

(* A second passes.  What is still in flight is lost.  The age of lastRecv
   counts while the link is up, that of gLastHostSeenMs while a stream is
   active or can become so. *)
Second ==
  /\ ~ConsoleDue
  /\ \A h \in Hosts : ~HostDue(h)
  /\ silent' = Older(silent)
  /\ configAge' = IF configAge < ConfigPeriod THEN configAge + 1 ELSE configAge
  /\ quiet' = [h \in Hosts |-> IF up[h] THEN Older(quiet[h]) ELSE 0]
  /\ helloDue' = HelloAgain
  /\ pingDue' = [h \in Hosts |-> TRUE]
  /\ slices' = IF peer = "simStream" THEN 1 ELSE slices
  /\ toConsole' = {}
  /\ toHost' = {}
  /\ lossless' = (lossless /\ Delivered)
  /\ UNCHANGED <<peer, listening, active, hostAddr, stage, up>>

ConsoleStep ==
  \/ ConsoleStart \/ ConsoleStop
  \/ ConsolePass
  \/ FrameBegin \/ FrameSlice
  \/ \E h \in Hosts :
       \/ ConsoleHello(h) \/ ConsolePing(h)
       \/ InputBundle(h) \/ InputBye(h)

HostStep(h) ==
  \/ HostStart(h) \/ HostStop(h)
  \/ HostHello(h) \/ HostPass(h) \/ HostBundle(h)
  \/ HostAnswered(h) \/ HostConfig(h) \/ HostMedia(h) \/ HostPong(h)

Next == ConsoleStep \/ (\E h \in Hosts : HostStep(h)) \/ Second

Spec == Init /\ [][Next]_vars

(* A loop with something due goes on. *)
DueStep ==
  \/ ConsoleDue /\ ConsolePass
  \/ \E h \in Hosts : HostHello(h) \/ HostPass(h)

(* The loops run and the clock goes on; the game draws frames, and a player at
   the host has a controller.  That a datagram is received is not assumed here
   but where a property says that none is lost.  Starting and stopping is up
   to the user. *)
Fairness ==
  /\ WF_vars(Second)
  /\ WF_vars(DueStep)
  /\ WF_vars(FrameBegin \/ FrameSlice)
  /\ \A h \in Hosts : WF_vars(HostBundle(h))

LiveSpec == Spec /\ Fairness

(* With one application on the console, which is not ended. *)
SteadySpec == Init /\ [][Next /\ ~ConsoleStop]_vars /\ Fairness

-----------------------------------------------------------------------------
TypeOK ==
  /\ peer \in Peers
  /\ listening \in BOOLEAN
  /\ active \in BOOLEAN
  /\ hostAddr \in Hosts \cup {Nobody}
  /\ silent \in Ages
  /\ configAge \in 0 .. ConfigPeriod
  /\ slices \in 0 .. MaxSlices
  /\ stage \in [Hosts -> {"idle", "running", "foreign", "gone"}]
  /\ up \in [Hosts -> BOOLEAN]
  /\ quiet \in [Hosts -> Ages]
  /\ helloDue \in [Hosts -> BOOLEAN]
  /\ pingDue \in [Hosts -> BOOLEAN]
  /\ toConsole \subseteq Request
  /\ toHost \subseteq Reply
  /\ lossless \in BOOLEAN

(* From some time on no datagram is lost. *)
NetworkRecovers == <>[][Second => Delivered]_vars

(* Host h stays, the others that could be accepted are gone for good, and
   the console stays. *)
Alone(h) ==
  <>[](listening /\ stage[h] = "running" /\ \A g \in Hosts \ {h} : ~Running(g))

(* The console does not stream into the void: when no host that it can talk
   to is left, the stream is paused, whoever else says HELLO.  (The input
   plugin, which sends nothing on its own, may show a host for ever that went
   while an application ended.) *)
PausesWhenGone ==
  peer \in Streams =>
    (<>[](\A h \in Hosts : stage[h] # "running") => <>[]~active)

(* A host finds out on either link that the console is gone. *)
ConsoleLossNoticed == <>[]~listening => \A h \in Hosts : <>[]~up[h]

(* Once datagrams get through, a host that stays has its links up: HELLO is
   repeated until it is answered, and again after a timeout. *)
LinkRestored ==
  NetworkRecovers =>
    \A h \in Hosts : Alone(h) => <>[]up[h]

(* Once datagrams get through, the bundles of every host that stays arrive
   over and over, whatever other hosts do: the input plugin, other than the
   stream plugin, needs no HELLO for them. *)
InputFlows ==
  NetworkRecovers =>
    \A h \in Hosts :
      peer \in Inputs /\ <>[](listening /\ stage[h] = "running")
        => []<><<InputBundle(h)>>_vars

(* No other host was ever accepted. *)
Sole(h) == \A g \in Hosts \ {h} : stage[g] # "running"

(* Where nothing is ever lost the host that is left in the end gets the
   stream, and CONFIG with it, over and over, even if another host took the
   stream in the meantime.  The simulator does not do that for the host that
   was left out, to which it sends PONGs as long as it pings. *)
StreamFlows ==
  []lossless =>
    \A h \in Hosts :
      Alone(h) /\ peer \in Streams /\ [](peer = "simStream" => Sole(h))
        => []<><<HostMedia(h)>>_vars /\ []<><<HostConfig(h)>>_vars

(* docs/protocol.md:73: silence on either side tears the link down, the
   console pauses streaming and the host falls back to HELLO: so that the
   stream comes back when datagrams get through again. *)
StreamResumes ==
  NetworkRecovers =>
    \A h \in Hosts : Alone(h) => []<><<HostMedia(h)>>_vars
=============================================================================
