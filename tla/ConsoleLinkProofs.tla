-------------------------- MODULE ConsoleLinkProofs --------------------------
(***************************************************************************)
(* Proofs about ConsoleLink, for every kind of peer, every set of hosts    *)
(* and every timeout, whatever is lost: what the links keep in any state,  *)
(* and how near a stream or a link that nobody is left for is to its end.  *)
(* That it gets there is liveness, which the runs check.                   *)
(***************************************************************************)
EXTENDS ConsoleLink, TLAPS

(* wsu_protocol.h: HELLO is refused when the versions differ, and a host of
   another version has no link: none comes up, and neither a PING nor a BUNDLE
   nor a BYE of it is ever under way. *)
VersionsApart ==
  \A h \in Hosts :
    stage[h] = "foreign" =>
      /\ ~up[h]
      /\ \A m \in toConsole : m.from = h => m.type = "OTHER_HELLO"

(* A stream is on only where silence is going to be noticed (HostSilent): there
   is a time of the last datagram, not the 0 that is taken for none, a loop
   that looks at it, and an address that what is sent goes to. *)
StreamWatched ==
  peer \in Streams /\ active =>
    listening /\ hostAddr \in Hosts /\ silent <= Timeout + 1

(* Links are up, and requests are under way, of hosts that were accepted or
   wait to be. *)
LinkInv ==
  \A h \in Hosts : up[h] => stage[h] = "running"

RequestInv ==
  \A m \in toConsole :
    /\ m.type # "OTHER_HELLO" => stage[m.from] \in {"running", "gone"}
    /\ m.type = "OTHER_HELLO" => stage[m.from] \in {"foreign", "gone"}

(* An answer is under way to a host that is there, and says that its HELLO is
   accepted only if its version fits. *)
ReplyInv ==
  \A m \in toHost :
    Running(m.to) /\ (m.type = "ACK_OK" => stage[m.to] = "running")

IInv == TypeOK /\ StreamWatched /\ LinkInv /\ RequestInv /\ ReplyInv

-----------------------------------------------------------------------------
(* The numbers, and the ages between them. *)
LEMMA Numbers ==
  /\ Timeout \in Nat \ {0} /\ ConfigPeriod \in Nat \ {0} /\ MaxSlices \in Nat \ {0}
  /\ Unheard = Timeout + 2 /\ Unheard \in Ages /\ 0 \in Ages
  /\ \A a \in Ages : Older(a) \in Ages
  /\ \A a \in Ages : a <= Timeout + 1 => Older(a) <= Timeout + 1
  BY PeriodsAssumption DEF Unheard, Ages, Older

(* What is sent, to whatever address there is, is a reply to a host that is
   there; that a HELLO is accepted is said to one whose version fits. *)
LEMMA SentKeeps ==
  ASSUME IInv, NEW T \in SUBSET {"ACK_OK", "ACK_MISMATCH", "CONFIG", "MEDIA", "PONG"},
         NEW h, "ACK_OK" \in T => h \in Hosts /\ stage[h] # "foreign"
  PROVE  /\ Sent(T, h) \subseteq Reply
         /\ \A m \in Sent(T, h) :
              Running(m.to) /\ (m.type = "ACK_OK" => stage[m.to] = "running")
<1>1. \A t \in T, g \in Hosts : /\ Rpl(t, g) \in Reply
                                /\ Rpl(t, g).to = g /\ Rpl(t, g).type = t
  BY DEF Rpl, Reply
<1> QED
  BY <1>1 DEF IInv, TypeOK, ReplyInv, Sent, Running

(* The initial state satisfies the inductive invariant. *)
LEMMA InitInv == ASSUME Init PROVE IInv
<1>1. /\ silent \in Ages /\ configAge \in 0 .. ConfigPeriod /\ slices \in 0 .. MaxSlices
      /\ quiet \in [Hosts -> Ages]
  BY Numbers DEF Init
<1>2. TypeOK
  BY <1>1 DEF Init, TypeOK
<1> QED
  BY <1>2 DEF Init, IInv, StreamWatched, LinkInv, RequestInv, ReplyInv

(* The start and the end of the console, and its loops. *)
LEMMA ConsoleKeeps ==
  ASSUME IInv, ConsoleStart \/ ConsoleStop \/ ConsolePass \/ FrameBegin \/ FrameSlice
  PROVE  IInv'
<1> USE Numbers
<1>1. CASE ConsoleStart
  BY <1>1 DEF ConsoleStart, IInv, TypeOK, StreamWatched, LinkInv, RequestInv,
              ReplyInv, Running, hosts, net, Streams
<1>2. CASE ConsoleStop
  <2>0. active' \in BOOLEAN
    BY <1>2, Zenon DEF ConsoleStop, StreamStop, InputStop, SimStop, IInv, TypeOK
  <2>1. hostAddr' \in Hosts \cup {Nobody} /\ slices' \in 0 .. MaxSlices
    BY <1>2 DEF ConsoleStop, StreamStop, InputStop, SimStop, IInv, TypeOK
  <2>2. peer \in Streams => active' = FALSE
    BY <1>2 DEF ConsoleStop, StreamStop, InputStop, SimStop, Streams
  <2>3. StreamWatched'
    BY <1>2, <2>2 DEF ConsoleStop, StreamWatched
  <2> QED
    BY <1>2, <2>0, <2>1, <2>3 DEF ConsoleStop, IInv, TypeOK, LinkInv, RequestInv,
                            ReplyInv, Running, hosts, net
<1>3. CASE StreamPass
  <2> DEFINE due == ~HostSilent /\ ConfigDue
  <2>1. PICK audio \in {{}, {"MEDIA"}} :
          toHost' = Sent(audio \cup (IF due THEN {"CONFIG"} ELSE {}), hostAddr)
    BY <1>3 DEF StreamPass
  <2>2. /\ toHost' \subseteq Reply
        /\ \A m \in toHost' :
             Running(m.to) /\ (m.type = "ACK_OK" => stage[m.to] = "running")
    BY <2>1, SentKeeps
  <2> HIDE DEF due
  <2>3. active' \in BOOLEAN /\ (active' => active)
    BY <1>3, Zenon DEF StreamPass, IInv, TypeOK
  <2>4. configAge' \in 0 .. ConfigPeriod
    BY <1>3 DEF StreamPass, IInv, TypeOK
  <2>5. StreamWatched'
    BY <1>3, <2>3 DEF StreamPass, IInv, StreamWatched
  <2> QED
    BY <1>3, <2>2, <2>3, <2>4, <2>5
    DEF StreamPass, IInv, TypeOK, LinkInv, RequestInv, ReplyInv, Running, hosts
<1>4. CASE InputPass
  BY <1>4 DEF InputPass, IInv, TypeOK, StreamWatched, LinkInv, RequestInv,
              ReplyInv, Running, hosts, net, Streams
<1>5. CASE SimPass
  <2> DEFINE due == IF HostSilent THEN {}
                    ELSE {t \in {"CONFIG", "MEDIA"} : t = "CONFIG" => ConfigDue}
  <2>1. toHost' = Sent(due, hostAddr)
    BY <1>5 DEF SimPass
  <2>2. /\ toHost' \subseteq Reply
        /\ \A m \in toHost' :
             Running(m.to) /\ (m.type = "ACK_OK" => stage[m.to] = "running")
    BY <2>1, SentKeeps
  <2> HIDE DEF due
  <2>3. active' \in BOOLEAN /\ (active' => active)
    BY <1>5, Zenon DEF SimPass, IInv, TypeOK
  <2>4. configAge' \in 0 .. ConfigPeriod /\ slices' \in 0 .. MaxSlices
    BY <1>5 DEF SimPass, IInv, TypeOK
  <2>5. StreamWatched'
    BY <1>5, <2>3 DEF SimPass, IInv, StreamWatched
  <2> QED
    BY <1>5, <2>2, <2>3, <2>4, <2>5
    DEF SimPass, IInv, TypeOK, LinkInv, RequestInv, ReplyInv, Running, hosts
<1>6. CASE FrameBegin
  BY <1>6 DEF FrameBegin, SliceCounts, IInv, TypeOK, StreamWatched, LinkInv, RequestInv,
              ReplyInv, Running, hosts, net
<1>7. CASE FrameSlice
  <2>1. /\ toHost' \subseteq Reply
        /\ \A m \in toHost' :
             Running(m.to) /\ (m.type = "ACK_OK" => stage[m.to] = "running")
    <3>1. CASE listening
      BY <1>7, <3>1, SentKeeps DEF FrameSlice
    <3>2. CASE ~listening
      BY <1>7, <3>2 DEF FrameSlice, IInv, TypeOK, ReplyInv
    <3> QED
      BY <3>1, <3>2
  <2> QED
    BY <1>7, <2>1 DEF FrameSlice, IInv, TypeOK, StreamWatched, LinkInv, RequestInv,
                      ReplyInv, Running, hosts
<1> QED
  BY <1>1, <1>2, <1>3, <1>4, <1>5, <1>6, <1>7 DEF ConsolePass

(* What every datagram that the console receives leaves as it is. *)
LEMMA ReceiveKeeps ==
  ASSUME IInv, NEW h \in Hosts, NEW type, ConsoleReceive(type, h)
  PROVE  /\ listening /\ listening' = listening
         /\ slices' \in 0 .. MaxSlices /\ peer' = peer /\ lossless' \in BOOLEAN
         /\ stage' = stage /\ up' = up /\ quiet' = quiet
         /\ helloDue' = helloDue /\ pingDue' = pingDue
         /\ toConsole' \subseteq Request /\ RequestInv' /\ LinkInv'
         /\ type # "OTHER_HELLO" => stage[h] \in {"running", "gone"}
  BY DEF ConsoleReceive, IInv, TypeOK, RequestInv, LinkInv, hosts, Msg

(* The messages of the console. *)
LEMMA MessagesKeep ==
  ASSUME IInv, NEW h \in Hosts,
         ConsoleHello(h) \/ ConsolePing(h) \/ InputBundle(h) \/ InputBye(h)
  PROVE  IInv'
<1> USE Numbers
<1>1. PICK type : ConsoleReceive(type, h)
  BY DEF ConsoleHello, StreamHello, InputHello, SimHello, SimInputHello, ConsolePing,
         StreamPing, InputPing, SimPing, InputBundle, InputBye
<1>2. /\ toHost' \subseteq Reply
      /\ \A m \in toHost' :
           Running(m.to) /\ (m.type = "ACK_OK" => stage[m.to] = "running")
  <2>1. CASE ConsoleHello(h)
    <3>1. CASE ConsoleReceive("HELLO", h)
      <4>1. stage[h] # "foreign"
        BY <3>1, ReceiveKeeps
      <4>2. \E T \in {{"ACK_OK", "CONFIG"}, {"ACK_OK"}, {"ACK_MISMATCH"}} :
              toHost' = Sent(T, h)
        BY <2>1 DEF ConsoleHello, StreamHello, InputHello, SimHello, SimInputHello
      <4> QED
        BY <4>1, <4>2, SentKeeps
    <3>2. CASE ~ConsoleReceive("HELLO", h)
      <4>1. toHost' = Sent({"ACK_MISMATCH"}, h)
        BY <2>1, <3>2
        DEF ConsoleHello, StreamHello, InputHello, SimHello, SimInputHello
      <4> QED
        BY <4>1, SentKeeps
    <3> QED
      BY <3>1, <3>2
  <2>2. CASE ConsolePing(h)
    <3>1. \E g : toHost' = Sent({"PONG"}, g)
      BY <2>2 DEF ConsolePing, StreamPing, InputPing, SimPing
    <3> QED
      BY <3>1, SentKeeps
  <2>3. CASE InputBundle(h) \/ InputBye(h)
    BY <2>3 DEF InputBundle, InputBye, IInv, TypeOK, ReplyInv
  <2> QED
    BY <2>1, <2>2, <2>3
<1>3. ReplyInv'
  BY <1>1, <1>2, ReceiveKeeps DEF ReplyInv, Running
<1>4. active' \in BOOLEAN
  BY Zenon
  DEF IInv, TypeOK, ConsoleHello, StreamHello, InputHello, SimHello, SimInputHello,
      ConsolePing, StreamPing, InputPing, SimPing, InputBundle, InputBye
<1>5. /\ hostAddr' \in Hosts \cup {Nobody}
      /\ silent' \in {0, silent} /\ configAge' \in {0, ConfigPeriod, configAge}
  <2>1. CASE ConsoleHello(h)
    BY <2>1
    DEF IInv, TypeOK, ConsoleHello, StreamHello, InputHello, SimHello, SimInputHello
  <2>2. CASE ConsolePing(h)
    BY <2>2 DEF IInv, TypeOK, ConsolePing, StreamPing, InputPing, SimPing
  <2>3. CASE InputBundle(h) \/ InputBye(h)
    BY <2>3 DEF IInv, TypeOK, InputBundle, InputBye
  <2> QED
    BY <2>1, <2>2, <2>3
<1>6. silent' \in Ages /\ configAge' \in 0 .. ConfigPeriod
  BY <1>5 DEF IInv, TypeOK
<1>7. ASSUME peer \in Streams
      PROVE  \/ active' = active /\ (hostAddr' = hostAddr \/ hostAddr' \in Hosts)
             \/ hostAddr' \in Hosts /\ silent' = 0
  <2>1. CASE ConsoleHello(h)
    <3>1. StreamHello(h) \/ SimHello(h)
      BY <1>7, <2>1 DEF ConsoleHello, InputHello, SimInputHello, Streams
    <3> QED
      BY <3>1, Zenon DEF StreamHello, SimHello
  <2>2. CASE ConsolePing(h)
    BY <2>2, Zenon DEF ConsolePing, StreamPing, InputPing, SimPing
  <2>3. CASE InputBundle(h)
    BY <1>7, <2>3 DEF InputBundle, Streams
  <2>4. CASE InputBye(h)
    <3>1. peer # "input"
      BY <1>7 DEF Streams
    <3>2. active' = active
      BY <2>4, <3>1, Zenon DEF InputBye, IInv, TypeOK
    <3> QED
      BY <2>4, <3>2 DEF InputBye
  <2> QED
    BY <2>1, <2>2, <2>3, <2>4
<1>8. StreamWatched'
  <2>1. SUFFICES ASSUME peer \in Streams, active'
                 PROVE  hostAddr' \in Hosts /\ silent' <= Timeout + 1
    BY <1>1, ReceiveKeeps DEF StreamWatched
  <2>2. CASE active' = active
    <3>1. active
      BY <2>1, <2>2
    <3>2. hostAddr \in Hosts /\ silent <= Timeout + 1
      BY <2>1, <3>1 DEF IInv, StreamWatched
    <3>3. silent' <= Timeout + 1
      BY <1>5, <3>2
    <3>4. hostAddr' = hostAddr \/ hostAddr' \in Hosts
      BY <1>7, <2>1, Zenon
    <3> QED
      BY <3>2, <3>3, <3>4
  <2>3. CASE active' # active
    <3>1. hostAddr' \in Hosts /\ silent' = 0
      BY <1>7, <2>1, <2>3, Zenon
    <3> QED
      BY <3>1
  <2> QED
    BY <2>2, <2>3
<1> QED
  BY <1>1, <1>2, <1>3, <1>4, <1>5, <1>6, <1>8, ReceiveKeeps DEF IInv, TypeOK

(* The hosts. *)
LEMMA HostKeeps == ASSUME IInv, NEW h \in Hosts, HostStep(h) PROVE IInv'
<1> USE Numbers
<1>0. StreamWatched'
  BY DEF HostStep, HostStart, HostStop, HostHello, HostPass, HostBundle, HostAnswered,
         HostConfig, HostMedia, HostPong, HostReceive, console, IInv, StreamWatched
<1>1. CASE HostStart(h)
  BY <1>0, <1>1 DEF HostStart, IInv, TypeOK, LinkInv, RequestInv, ReplyInv, Running,
                    console, net, Request, Reply
<1>2. CASE HostStop(h)
  BY <1>0, <1>2 DEF HostStop, IInv, TypeOK, LinkInv, RequestInv, ReplyInv, Running,
                    console, Request, Reply, Msg
<1>3. CASE HostHello(h)
  BY <1>0, <1>3 DEF HostHello, IInv, TypeOK, LinkInv, RequestInv, ReplyInv, Running,
                    console, Request, Msg
<1>4. CASE HostPass(h)
  BY <1>0, <1>4 DEF HostPass, IInv, TypeOK, LinkInv, RequestInv, ReplyInv, Running,
                    console, Request, Msg
<1>5. CASE HostBundle(h)
  BY <1>0, <1>5 DEF HostBundle, IInv, TypeOK, LinkInv, RequestInv, ReplyInv, Running,
                    console, hosts, Request, Msg
<1>6. ASSUME NEW type, HostReceive(h, type) PROVE IInv'
  BY <1>0, <1>6 DEF HostReceive, IInv, TypeOK, LinkInv, RequestInv, ReplyInv, Running,
                    console, Reply, Rpl
<1> QED
  BY <1>1, <1>2, <1>3, <1>4, <1>5, <1>6
  DEF HostStep, HostAnswered, HostConfig, HostMedia, HostPong

(* A second passes, or nothing happens. *)
LEMMA SecondKeeps == ASSUME IInv, Second \/ UNCHANGED vars PROVE IInv'
<1> USE Numbers
<1>1. CASE Second
  <2>1. lossless' \in BOOLEAN
    BY <1>1, Zenon DEF Second, Delivered, IInv, TypeOK
  <2>2. configAge' \in 0 .. ConfigPeriod /\ slices' \in 0 .. MaxSlices
    BY <1>1 DEF Second, IInv, TypeOK
  <2>3. quiet' \in [Hosts -> Ages] /\ silent' \in Ages
    BY <1>1 DEF Second, IInv, TypeOK
  <2>4. StreamWatched'
    BY <1>1 DEF Second, IInv, TypeOK, StreamWatched
  <2> QED
    BY <1>1, <2>1, <2>2, <2>3, <2>4
    DEF Second, HelloAgain, IInv, TypeOK, LinkInv, RequestInv, ReplyInv
<1>2. CASE UNCHANGED vars
  BY <1>2 DEF vars, console, hosts, net, IInv, TypeOK, StreamWatched, LinkInv,
              RequestInv, ReplyInv, Running
<1> QED
  BY <1>1, <1>2

(* The inductive invariant holds in every state. *)
THEOREM Invariant == Spec => []IInv
<1>1. IInv /\ [Next]_vars => IInv'
  BY ConsoleKeeps, MessagesKeep, HostKeeps, SecondKeeps DEF Next, ConsoleStep
<1> QED
  BY <1>1, InitInv, PTL DEF Spec

(* Every variable keeps its type. *)
THEOREM TypeCorrect == Spec => []TypeOK
<1>1. IInv => TypeOK
  BY DEF IInv
<1> QED
  BY <1>1, Invariant, PTL

(* The console streams only where it is going to notice that the host is silent:
   it listens, knows when it last heard of a host, and where to send. *)
THEOREM Watched == Spec => []StreamWatched
<1>1. IInv => StreamWatched
  BY DEF IInv
<1> QED
  BY <1>1, Invariant, PTL

(* A host of another version gets no link and sends nothing but HELLOs, whatever
   the console answers to it and to others. *)
THEOREM Apart == Spec => []VersionsApart
<1>1. IInv => VersionsApart
  BY DEF IInv, LinkInv, RequestInv, VersionsApart, TypeOK, Request
<1> QED
  BY <1>1, Invariant, PTL
-----------------------------------------------------------------------------
(* No host that the console can talk to is left, and nothing that one sent is
   still on the way. *)
Deserted ==
  /\ \A h \in Hosts : stage[h] # "running"
  /\ \A m \in toConsole : m.type = "OTHER_HELLO"

(* A second is enough for a console without a host to be deserted, and then it
   stays that way until a host is started: its stream is not resumed, and ages
   until it is paused, and no second finds it overdue. *)
PauseStep ==
  peer \in Streams =>
    /\ (\A h \in Hosts : stage[h] # "running") /\ Second => Deserted'
    /\ Deserted => Deserted' \/ \E h \in Hosts : HostStart(h)
    /\ Deserted /\ active' => active /\ silent' >= silent
    /\ active /\ Second => silent <= Timeout /\ silent' = silent + 1

(* There is no console, and nothing that it sent is still on the way. *)
Unanswered == ~listening /\ toHost = {}

(* The same for the links of a host whose console is gone. *)
LossStep ==
  /\ ~listening /\ Second => Unanswered'
  /\ Unanswered => Unanswered' \/ ConsoleStart
  /\ \A h \in Hosts :
       /\ Unanswered /\ up'[h] => up[h] /\ quiet'[h] >= quiet[h]
       /\ up[h] /\ Second => quiet[h] <= Timeout /\ quiet'[h] = quiet[h] + 1

(* What the console does with a request: without a HELLO, a PING or a BUNDLE it
   neither resumes the stream nor hears of a host. *)
LEMMA DesertedConsole ==
  ASSUME IInv, peer \in Streams, Deserted, ConsoleStep
  PROVE  /\ Deserted'
         /\ active' => active /\ silent' >= silent
<1> USE DEF IInv
<1>1. /\ silent \in Int
      /\ \A h \in Hosts : \A t : Msg(t, h) \in toConsole => t = "OTHER_HELLO"
  BY Numbers DEF TypeOK, Ages, Deserted, Msg
<1>2. ASSUME toConsole' \subseteq toConsole, UNCHANGED stage PROVE Deserted'
  BY <1>2 DEF Deserted
<1>3. CASE ConsoleStart
  <2>1. ~active
    BY <1>3 DEF ConsoleStart, StreamWatched
  <2> QED
    BY <1>2, <1>3, <2>1 DEF ConsoleStart, hosts, net
<1>4. CASE ConsoleStop
  <2>1. ~active'
    BY <1>4 DEF ConsoleStop, StreamStop, InputStop, SimStop, Streams
  <2> QED
    BY <1>2, <1>4, <2>1 DEF ConsoleStop, hosts, net
<1>5. CASE ConsolePass \/ FrameBegin \/ FrameSlice
  BY <1>1, <1>2, <1>5 DEF ConsolePass, StreamPass, InputPass, SimPass,
     FrameBegin, FrameSlice, hosts, net
<1>6. ASSUME NEW h \in Hosts,
             \/ ConsoleHello(h) \/ ConsolePing(h)
             \/ InputBundle(h) \/ InputBye(h)
      PROVE  /\ UNCHANGED <<active, silent>>
             /\ toConsole' \subseteq toConsole /\ UNCHANGED stage
  <2>1. CASE ConsoleHello(h)
    BY <1>1, <1>6, <2>1 DEF ConsoleHello, StreamHello, InputHello, SimHello,
       SimInputHello, ConsoleReceive, hosts, Streams
  <2>2. CASE ConsolePing(h) \/ InputBundle(h) \/ InputBye(h)
    BY <1>1, <1>6, <2>2 DEF ConsolePing, StreamPing, InputPing, SimPing,
       InputBundle, InputBye, ConsoleReceive
  <2> QED
    BY <1>6, <2>1, <2>2
<1>7. CASE \E h \in Hosts : \/ ConsoleHello(h) \/ ConsolePing(h)
                           \/ InputBundle(h) \/ InputBye(h)
  BY <1>1, <1>2, <1>6, <1>7
<1> QED
  BY <1>3, <1>4, <1>5, <1>7 DEF ConsoleStep

(* What hosts that the console would not accept do to it. *)
LEMMA DesertedHost ==
  ASSUME IInv, Deserted, NEW h \in Hosts, HostStep(h)
  PROVE  /\ Deserted' \/ HostStart(h)
         /\ UNCHANGED <<active, silent>>
<1> USE DEF IInv
<1>1. ~up[h]
  BY DEF Deserted, LinkInv
<1>2. CASE HostStop(h)
  BY <1>1, <1>2 DEF HostStop, Deserted, TypeOK, console
<1>3. CASE HostHello(h)
  BY <1>3 DEF HostHello, Deserted, Msg, console
<1>4. CASE HostPass(h) \/ HostBundle(h)
  BY <1>1, <1>4 DEF HostPass, HostBundle
<1>5. ASSUME NEW type, HostReceive(h, type)
      PROVE  Deserted' /\ UNCHANGED <<active, silent>>
  BY <1>5 DEF HostReceive, Deserted, console
<1>6. CASE HostStart(h)
  BY <1>6 DEF HostStart, console
<1> QED
  BY <1>2, <1>3, <1>4, <1>5, <1>6
     DEF HostStep, HostAnswered, HostConfig, HostMedia, HostPong

(* The safety that PausesWhenGone rests on: WSU_PEER_TIMEOUT_MS after its last
   host that could be accepted stopped the console has paused the stream, no
   matter who else greets it (net.cpp's netThread, the simulator's streamLoop). *)
THEOREM PauseIsNear == Spec => [][PauseStep]_vars
<1>1. ASSUME IInv, [Next]_vars PROVE PauseStep
  <2> SUFFICES ASSUME peer \in Streams
               PROVE  /\ (\A h \in Hosts : stage[h] # "running") /\ Second
                           => Deserted'
                      /\ Deserted => Deserted' \/ \E h \in Hosts : HostStart(h)
                      /\ Deserted /\ active' => active /\ silent' >= silent
                      /\ active /\ Second =>
                           silent <= Timeout /\ silent' = silent + 1
    BY DEF PauseStep
  <2>1. silent \in Int /\ Timeout \in Int
    BY <1>1, Numbers DEF IInv, TypeOK, Ages
  <2>2. ASSUME Second, \A h \in Hosts : stage[h] # "running" PROVE Deserted'
    BY <2>2 DEF Second, Deserted
  <2>3. ASSUME active, Second PROVE silent <= Timeout /\ silent' = silent + 1
    <3>1. silent <= Timeout + 1 /\ silent # Timeout + 1
      BY <1>1, <2>3 DEF IInv, StreamWatched, Second, ConsoleDue, HostSilent
    <3>2. silent <= Timeout
      BY <2>1, <3>1
    <3> QED
      BY <2>1, <2>3, <3>2 DEF Second, Older
  <2>4. ASSUME Deserted
        PROVE  /\ Deserted' \/ \E h \in Hosts : HostStart(h)
               /\ active' => active /\ silent' >= silent
    <3>1. CASE ConsoleStep
      BY <1>1, <2>4, <3>1, DesertedConsole
    <3>2. ASSUME NEW h \in Hosts, HostStep(h)
          PROVE  /\ Deserted' \/ HostStart(h)
                 /\ active' => active /\ silent' >= silent
      BY <1>1, <2>1, <2>4, <3>2, DesertedHost
    <3>3. CASE Second
      <4>1. active' = active
        BY <3>3 DEF Second
      <4> QED
        BY <2>1, <2>2, <2>3, <2>4, <3>3, <4>1 DEF Deserted
    <3>4. CASE UNCHANGED vars
      BY <2>1, <2>4, <3>4 DEF vars, console, hosts, net, Deserted
    <3> QED
      BY <1>1, <3>1, <3>2, <3>3, <3>4 DEF Next
  <2> QED
    BY <2>2, <2>3, <2>4
<1> QED
  BY <1>1, Invariant, PTL DEF Spec

(* The safety that ConsoleLossNoticed rests on: WSU_PEER_TIMEOUT_MS after the
   console stopped the host has given up the link, on which nothing arrives any
   more (wiiu_link.cpp's loops). *)
THEOREM LossIsNear == Spec => [][LossStep]_vars
<1>1. ASSUME IInv, [Next]_vars PROVE LossStep
  <2> USE <1>1 DEF IInv
  <2>1. ASSUME ~listening, Second PROVE Unanswered'
    BY <2>1 DEF Second, Unanswered
  <2>2. \A h \in Hosts : quiet[h] \in Int
    BY DEF TypeOK, Ages
  <2>3. ASSUME NEW h \in Hosts, up[h], Second
        PROVE  quiet[h] <= Timeout /\ quiet'[h] = quiet[h] + 1
    <3>1. ~LinkLost(h)
      BY <2>3 DEF Second, HostDue, LinkInv, Running
    <3>2. quiet[h] <= Timeout
      BY <2>2, <3>1, Numbers DEF LinkLost
    <3> QED
      BY <2>2, <2>3, <3>2, Numbers DEF Second, Older
  <2>4. ASSUME Unanswered, ConsoleStep
        PROVE  (Unanswered' \/ ConsoleStart) /\ UNCHANGED <<up, quiet>>
    <3>1. CASE ConsoleStart
      BY <3>1 DEF ConsoleStart, hosts
    <3>2. CASE ConsolePass
      BY <2>4, <3>2 DEF ConsolePass, StreamPass, InputPass, SimPass, Unanswered
    <3>3. CASE FrameBegin \/ FrameSlice
      BY <2>4, <3>3 DEF FrameBegin, FrameSlice, Unanswered, hosts, net
    <3>4. CASE ConsoleStop
      BY <2>4, <3>4 DEF ConsoleStop, Unanswered
    <3>5. ASSUME NEW h \in Hosts,
                 \/ ConsoleHello(h) \/ ConsolePing(h)
                 \/ InputBundle(h) \/ InputBye(h)
          PROVE  FALSE
      BY <2>4, <3>5 DEF ConsoleHello, StreamHello, InputHello, SimHello,
         SimInputHello, ConsolePing, StreamPing, InputPing, SimPing,
         InputBundle, InputBye, ConsoleReceive, Unanswered
    <3> QED
      BY <2>4, <3>1, <3>2, <3>3, <3>4, <3>5 DEF ConsoleStep
  <2>5. ASSUME Unanswered, NEW g \in Hosts, HostStep(g)
        PROVE  /\ Unanswered'
               /\ \A h \in Hosts : up'[h] => up[h] /\ quiet'[h] = quiet[h]
    <3>1. CASE HostStart(g) \/ HostHello(g) \/ HostBundle(g)
      BY <2>5, <3>1 DEF HostStart, HostHello, HostBundle, hosts, net, console,
         Unanswered
    <3>2. CASE HostStop(g)
      BY <2>5, <3>2 DEF HostStop, Unanswered, console, TypeOK
    <3>3. CASE HostPass(g)
      BY <2>5, <3>3 DEF HostPass, Unanswered, console, TypeOK
    <3>4. ASSUME NEW type, HostReceive(g, type) PROVE FALSE
      BY <2>5, <3>4 DEF HostReceive, Unanswered
    <3> QED
      BY <2>5, <3>1, <3>2, <3>3, <3>4
         DEF HostStep, HostAnswered, HostConfig, HostMedia, HostPong
  <2>6. ASSUME Unanswered
        PROVE  /\ Unanswered' \/ ConsoleStart
               /\ \A h \in Hosts : up'[h] => up[h] /\ quiet'[h] >= quiet[h]
    <3>1. CASE Second
      <4>1. up' = up
        BY <3>1 DEF Second
      <4> QED
        BY <2>1, <2>2, <2>3, <2>6, <3>1, <4>1 DEF Unanswered
    <3>2. CASE ConsoleStep
      BY <2>2, <2>4, <2>6, <3>2
    <3>3. CASE \E g \in Hosts : HostStep(g)
      BY <2>2, <2>5, <2>6, <3>3
    <3>4. CASE UNCHANGED vars
      BY <2>2, <2>6, <3>4 DEF vars, hosts, console, net, Unanswered
    <3> QED
      BY <3>1, <3>2, <3>3, <3>4 DEF Next
  <2> QED
    BY <2>1, <2>3, <2>6 DEF LossStep
<1> QED
  BY <1>1, Invariant, PTL DEF Spec
=============================================================================
