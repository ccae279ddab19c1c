# A verification of Wii-Sec-U

Wii-Sec-U lets up to four players on their own PCs play one Wii U. Two plugins
on the console send its picture and sound to a *host PC* on the same LAN and
inject controller states they get from it; the host PC relays the stream to up
to three *clients* over the internet and merges their controllers with its own.
Everything goes over UDP, in a format of its own.

This directory holds TLA+ models of the parts of that program that keep state,
the TLC configurations that check them on small instances, and proofs, checked
by TLAPS, of the properties that matter most for every instance. Paths below are
relative to `src/`; every definition that stands for code is listed in
`PROJECT.json` under `map` with the lines it stands for.

Contents: [parts of the system](#the-parts-of-the-system),
[modules](#the-modules-and-the-code), [runs](#the-runs),
[fairness](#fairness), [proofs](#what-is-proved),
[findings](#findings), [other observations](#other-observations),
[not modelled](#what-is-not-modelled), [plan](#plan).

To check a run: `tlc -config session.cfg MCSession.tla` (the table of runs names
module and configuration); to check the proofs of a module:
`tlapm SessionProofs.tla`.

## The parts of the system

| Part | Code | State | Operations | Talks to |
|---|---|---|---|---|
| Frame assembler | `pc/src/core/frame_assembler.*` | window of pending frames, newest delivered id, counters | `feed` (with `findOrAllocate`, `deliver`) | fed by host and client with VIDEO slices; hands frames to a sink |
| Session server | `pc/src/host/session_server.*` | client slots, last-seen times, last CONFIG | `start`, `stop`, `broadcast`, `setConfig`, the receive loop with its sweep | clients, by UDP; the input hub; called by the link's thread |
| Client application | `pc/src/client/client_app.*` | connected, slot, times of the last receive, HELLO and PING | the loop of `run` | the session server; an assembler; a sink |
| Input hub | `pc/src/core/input_hub.*` | newest state and its time, per slot | `set`, `clear`, `packBundle` | session thread and main loop |
| Host application | `pc/src/host/host_app.*` | - | `run`: start, loop, stop; relays of video, audio, configuration | everything on the host |
| Console link | `pc/src/host/wiiu_link.*` | link up, last-receive time, for each of two sockets | `streamLoop`, `inputLoop`, `sendInputBundle` | the two plugins, by UDP |
| Stream plugin, network | `wiiu/stream-plugin/src/net.cpp` | host address, active flag, times, frame id | `netThread`, `netSendVideoFrame`, `netStart`, `netStop` | the console link |
| Capture and encoder | `wiiu/stream-plugin/src/capture.cpp`, `encoder.cpp`, `main.cpp` | two surfaces and their states, message queue | scan-out hook, encoder thread, application start and end | game's render thread; `net.cpp` |
| Audio tap and ring | `wiiu/stream-plugin/src/audio.cpp` | ring with two lock-free indices; registration | final-mix callback, `audioRead`, registration | game's audio thread; `net.cpp` |
| Input plugin | `wiiu/input-plugin/src` | newest state and time per slot, flags of the menu, previous holds | network thread, hooks of `VPADRead`, `KPADRead`, `WPADProbe`, application start and end, menu | the console link; games |
| Wire protocol | `protocol/wsu_protocol.h` | none | packers and parsers | everyone |
| GUI sessions | `pc/src/gui` | mode, session thread, stop flag, shared controller state, the view's newest frame, texture and audio device | `run` frame by frame, `startHosting`, `startJoining`, `stopSession`, the view's `onFrame`, `onAudio`, `acquireTexture`, `reset` | host or client application on a thread of its own |
| Console simulator | `pc/src/sim` | host, times, counters | `streamLoop`, `inputLoop`, `start`, `stop` | the console link |
| Sinks, decoder, backends, sockets, command line | `pc/src/video`, `input`, `net`, `main.cpp` | see [not modelled](#what-is-not-modelled) | | |

What is hard about them, and what makes them right:

* **Frame assembler.** Slices are lost, duplicated and reordered; ids wrap at
  2^32; the window is small. Right means: only whole frames, each once, in
  order, and the newest is the one that survives.
* **Session server and clients.** A client vanishes, returns, repeats its HELLO;
  datagrams of an earlier connection arrive late; the host is restarted. Right
  means: a slot has one player, a player one slot, a slot plays what its player
  sends and nobody else's left-over; who can play gets to play, and who is gone
  is noticed on both sides.
* **Input hub.** Two threads, each with a time it took before the lock, on a
  clock of 32 bits. Right means: no stuck input and no lost input.
* **Console link.** Two state machines of timeouts that must agree in the end,
  once for the stream and once for the input, with a third thread that sends
  frames to whatever address is there, or bundles to whoever answered. Right
  means: whatever was lost, the two find each other again, and the console does
  not stream into the void.
* **Capture and encoder.** Three threads and two surfaces; no surface may be
  written while it is read, none may be lost, and the application must be able
  to end.
* **Audio tap and ring.** Two threads without a lock; a callback that takes the
  place of the game's, in a library that the game starts and ends when it likes.
  Right means: the samples come out as a queue, the tap comes when it can, and
  the game's own callback goes on being called.
* **GUI sessions.** The window's thread starts and ends a session on a thread of
  its own, which may end by itself, and shares a view and a controller state with
  it. Right means: nothing is dropped while it is used, nothing of one session is
  left in the next, and ending one never hangs.
* **Input plugin.** The game sees buttons through press and release edges that
  are computed from what it was given last, while injection comes and goes.
* **Wire protocol.** Offsets written out by hand twice, and lengths that come
  from the datagram.

The list `hazards` of `PROJECT.json` has each of these at its line, with the
properties that cover it.

## The modules and the code

Conventions. Variables keep the names of the code where they have one, with the
C++ name in a comment beside the declaration; actions are named for the handler
and are one step each where the code holds a lock or is alone on its thread, and
several steps where another thread can get in between. A line "Mutant of X"
introduces a wrong version of the definition that follows; `PROJECT.json` says
which property of which run notices it. Mutants take no part in a
specification. History variables (marked as such) are never read by a guard.

**`FrameAssembler`** - `frame_assembler.cpp` with the frame numbering of
`netSendVideoFrame` as its source. `pending`, `newestDelivered`, `anyDelivered`
and the two counters are the class's members. `feed` is four actions for its four
outcomes: `FeedRefused` (stale, or no room), `FeedDuplicate`, `FeedStore` and
`FeedComplete` (with `deliver`); `findOrAllocate` is the relation `Finds`, with
`Evicts` for the full window. Payload bytes are the pair <<frame, slice>> they
came from, so that a frame patched together from two would show. The network is
the choice of any slice among the last `Reorder` frames, any number of times or
never. `SpecWithRestart` adds the console being started again. Two assumptions of
the environment are guards of `Send`: nothing the receiver remembers is half the
id space behind the encoder (two years at 30 frames a second).
**`LatestWins`** is what it promises: whole frames, each newer than the last.

**`Session`** - `SessionServer` and `ClientApp`, any number of clients, and the
network between them. Time goes by in seconds, because HELLO, PING and the sweep
all have that period; `helloDue`, `pingDue` and `sweepDue` say that a second has
passed, `silent` and `quiet` are ages of the last-seen times. A datagram arrives
in any order or never; with `Late` it may be kept back for any number of seconds
(`Outlive`), with `Duplicates` it may arrive again. What the server does under its mutex
for one datagram is one action per message type (`ServerHelloJoin`,
`ServerHelloRefused`, `ServerInput`, `ServerPing`, `ServerBye`); so is one pass of
the client's loop (`SendHello`, `KeepAlive`) and each message it receives. A HELLO of
another role, which is answered REJECTED, is left out: no program of the repository
sends one to this port, and no state changes. `hub`
holds, for each slot of the input hub, whose state it is.
**`SeatLease`** is its promise: a slot is leased to one client, and plays only
what that client sent. **`MCSession`** adds symmetry and a bound on the network.

**`HostInput`** - `InputHub` between the session thread and the main loop of
`HostApp::run`, on a millisecond clock that wraps. Both threads take the time
before the lock, which is why taking it (`HostPump`, `SessionReceive`) and using
it (`HostPoll`, `HostPack`, `SessionStore`) are steps of their own, up to `HostLag`
and `SessionLag` milliseconds later.

**`ConsoleLink`** - the two loops of `WiiULink`, `streamLoop` and `inputLoop`, for
any number of host PCs on the LAN, against one of four peers, which Init chooses:
the stream plugin's `net.cpp`, the input plugin's `netThread`, and the two loops
of the console simulator. The loops of the host do the same but for what they
receive, so that one set of actions stands for both (`HostHello`, `HostPass`,
`HostReceive`), with `HostBundle` for the main loop's `sendInputBundle`; each
handler of the console has an action per peer (`StreamHello`, `InputHello`,
`SimHello`, `SimInputHello`, ...) because there they differ. The frame sender
looks at the active flag once and at the address before each slice, as separate
steps (`FrameBegin`, `FrameSlice`). Time is as in `Session`.

**`CaptureEncoder`** - the hook of `capture.cpp` (`HookSkip`, `HookEnter`: checks
without the lock; `HookBody`: under it), the encoder thread of `encoder.cpp`
(`EncoderAlloc` to `EncoderSend`), and the main thread of `main.cpp` (`AppStart`,
`NetStop`, `EncoderStop`, `EncoderJoin`, `CaptureShutdown`). `EncoderStop` is the
exchange of `gRunning` with the blocking send after it (`encoder.cpp:186-189`): only
the encoder's thread reads the flag, and if it ends in between, the message waits in
the queue as it does if the thread ends after it. A picture is the
number of its blit.

**`AudioRing`** - `finalMixCallback` and `audioRead` copy by copy, the two indices
and their wrap, and `drainAudio`. **`AudioFifo`** is its promise: a bounded queue.
The atomics are acquire and release, and each index has one writer, so that
sequentially consistent steps in program order lose no behaviour that could be
observed.
**`AudioTap`** puts the ring into an application: `audioInit` is its Init, each
call of AX in `audioEnsureRegistered` and `audioShutdown` is a step (`EnsureAsk`,
`EnsureSet`, `ShutdownAsk`, `ShutdownRestore`), and the game's thread may start and
end AX or set its callback between any two. `own` is the callback the game
believes in.

**`GuiSession`** - `GuiApp` with `GuiVideoView` and `SharedInput`. The window's
thread is the variable `gui`: a frame (`Frame`: events, controller, a session that
has ended), what is drawn (`DrawHome`, `StartHosting`, `StartJoining`, `ClickStop`,
`Take` and `Upload`), `Present`; `stopSession` is the flag (`StopSession`) and, when
the join returns, the rest (`Joined`). The session is `run`, from the start of its
parts, which may fail, through its loop to `ThreadEnds`, with the loop that calls
the view as `receiver`: a thread of the link when hosting, the session thread
itself when joined. What a picture, a controller state or a device holds is the
number of its session.

**`InputPlugin`** - `RemoteInput`, the network thread, the application's start and
end, the menu's switches, and the hooks on what games read. `prev` is
`gPrevVpadHold` and `gPrevProHold`; `seen`, `down`, `sampled`, `injected`,
`present` and `owned` are history: what the game was given. The `now` of each
update and read may be up to `Lag` old. Ages are capped: that the unsigned difference
of `remote_input.h:39` wraps after 49 days of silence, and the last state then comes
back for a second, is not in it. Neither is the start of an application whose
socket cannot be opened (`main.cpp:65-68`): it leaves `gRunning` set without a thread,
like an application in which no datagram ever comes. `KPADRead` assumes that no real
controller is on the channels that are injected.

**`WireProtocol`** - every packer and every parser of `wsu_protocol.h`, as tables
of offsets and widths, once for packers and once for parsers, plus the checks
each makes of lengths and values. Bytes are digits to a base, `PutByte` and `Get`
are the shifts; what `memcpy` copies, names included, is the payload. A field without bytes has
width 0: `audioChannels` and `flags` of a CONFIG, which `GivenFields` gives the packer
as a byte each. `IsMessage` says what can be packed at all; `Messages`, which a run packs, is a part of it. A
datagram is packed, perhaps cut short, and parsed; or comes from another version.

**`FrameAssemblerProofs`, `SessionProofs`, `InputPluginProofs`, `GuiSessionProofs`,
`CaptureEncoderProofs`, `AudioTapProofs`, `ConsoleLinkProofs`** - theorems about the
modules they are named after. **`BundleProofs`** - theorems about `HostInput`, which
makes bundles, and `WireProtocol`, which carries them, and one about both.

How they compose: `CaptureEncoder` ends at `netSendVideoFrame`, where `ConsoleLink`
(who it is sent to) and `FrameAssembler` (what the receiver makes of it) begin;
`AudioRing` ends where a chunk is sent in `ConsoleLink`'s pass; `Session` relays
what `ConsoleLink` receives (its STREAM datagrams); a client's INPUT in `Session`
is the `SessionReceive` of `HostInput`, whose bundle is the `HostBundle` of
`ConsoleLink` and then the `NetBundle` of `InputPlugin`. `GuiSession` is around
all of the PC's side: its session thread is the main loop of `HostInput` or the
client of `Session`. `WireProtocol` stands under all of them. `AudioTap` contains
`AudioRing`; the others are checked apart, with the neighbour as a choice, because their product is out of reach and because
each interface is a single call or datagram.

## The runs

| Run | Module | Bounds | Checks |
|---|---|---|---|
| `assembler` | `FrameAssembler` | ids wrap at 6, window 2, up to 2 slices, 7 frames, 3 in flight | `WindowOrder` the window agrees with what was delivered; `Intact` no torn frame; `NewestSurvives`; `FateFinal`; refines `LatestWins` |
| `session` | `MCSession` | 2 clients, 2 slots, timeout 1 s, 2 datagrams in flight, late and duplicated ones too; symmetry | `OneSeatEach`; `InputFromSeat`; `SeatKept`; refines `SeatLease` |
| `session_live` | `Session` | 1 client and one of another version, 1 slot, timeout 1 s, datagrams lost but not late | `Joins`; `SeatReclaimed`; `HostLossNoticed` |
| `session_orphan` | `Session` | 1 client, 1 slot, a network that is neither late nor duplicates | finding: `NoOrphan` fails |
| `hostinput` | `HostInput` | clock wraps at 20, timeout 4, main loop late by up to 2, session thread by 1 | `BundleFresh` nothing old in a bundle; `BundleTimely` nothing recent missing |
| `consolelink` | `ConsoleLink` | 4 kinds of peer, 2 hosts, one perhaps of another version, timeout 1 s, CONFIG every 2 s | `PausesWhenGone`; `StreamFlows`; `InputFlows`; `ConsoleLossNoticed`; `LinkRestored` |
| `consolelink_resumes` | `ConsoleLink` | stream plugin, 1 host, timeout 2 s, the application stays | finding: `StreamResumes` fails |
| `capture` | `CaptureEncoder` | queue 4, 4 pictures | `ReadStable`; `OrderKept`; `SurfaceReturns`; `ShutdownCompletes` |
| `audio_ring` | `AudioTap` | ring 3, indices wrap at 6, chunks and blocks of 2, 9 pairs | `NoOverlap`; refines `AudioFifo`; `GameHeard`; `TapComes` |
| `inject` | `InputPlugin` | GamePad and 1 Pro Controller, 1 button, timeouts 1, lag 1 | `PrevIsSeen`; `NoStuckButton`; `NothingAfterBye`; `SilenceNeutral` |
| `wire` | `WireProtocol` | 16 values of a byte, names of 3, 2 states, slices of 2 bytes | `RoundTrip`; `NoWildRead` |
| `gui` | `GuiSession` | 2 sessions of 2 decoded frames | `SessionsApart`; `NothingLeftOver`; `InputOfSession`; `StopReturns`; `EndNoticed`; `NewestShown` |

Each property's meaning is in the comment above its definition, with the line of
the documentation it comes from where there is one.

Why the bounds are enough:

* `assembler`: seven frames take the ids through their wrap while up to three
  frames are in flight and two pending, so that both sides of the wrap, an
  eviction, a refusal for want of room, a straggler of a delivered frame and a
  duplicate all occur. What the run shows is proved for all bounds.
* `session`: two clients on two slots, where a slot may pass from one
  to the other and back. With two datagrams under way a late answer of an old
  connection meets a new HELLO, and a late or duplicated INPUT of an old player meets
  the new one. The constraint cuts states with more datagrams than that; nothing in the
  handlers looks at more than one. The safety properties are proved for all
  bounds, clients of another version included, and without the constraint.
* `session_live`: the liveness properties need a run without symmetry and constraint;
  with two clients that can be seated it is too large. `Joins` excuses a client only
  if every slot is another's, which is never so here: the one client has to get its
  answer and connect. What is left unchecked is a client that joins as another makes
  room. Datagrams are lost at the end of their second or earlier; with one client
  alone the properties also hold when they may be late (`Clients = {c1}`,
  `Foreign = {}`, `Late = TRUE`).
* `hostinput`: the clock wraps once in every twenty ticks, with a timeout of
  four and every slot's age up to twelve; the mark 0 of "no state" is met at each
  wrap. Two milliseconds are enough for the clock to wrap, a state to come in and a
  state to grow old in the pump. Both properties are proved for every clock, timeout
  and lag.
* `consolelink`: two hosts are needed for one to take the stream from the other; a
  timeout of one second loses the link whenever a second's datagrams are lost.
  A link has one kind of peer for good, so that the four need not meet.
* `capture`: both surfaces are used, queued at the same time and used again.
  `QueueSize` is the code's. The run includes application ends during every step.
  `ReadStable` and `OrderKept` are proved for all bounds.
* `audio_ring`: nine pairs take both indices through their wrap, over a ring that
  fills up and is drained to nothing; a block may find less room than it needs.
  One application is enough, as each begins with `audioInit` and with an AX of its
  own; the game may restart AX any number of times.
  All but `TapComes` is proved for all bounds.
* `gui`: the safety properties are proved for all bounds; a second session is what something left over of the first can be seen
  in, and a second frame what can overtake the one that is being uploaded.
* `inject`: one slot of each kind, as the kinds differ and slots of a kind do not
  touch each other; one button, because edges are taken bit by bit.
* `wire`: fields are checked one at a time, with values that show width, order
  and sign, names and payloads with every string of two digits. Both properties are
  proved for all messages and bounds.

`CHECK_DEADLOCK FALSE` is set in `audio_ring` only, where the application ends and
nothing is left to happen. Elsewhere a bounded model that has used up its frames,
blocks or pictures goes on with steps that do not need any; in `GuiSession` the
program that is over has a step of its own, `Over`, that changes nothing.

Each module also has a type invariant, `TypeOK` (in `AudioTap`, `TapTypeOK`, in
`WireProtocol`, `WireTypeOK`), which is proved.

## Fairness

`Spec` never has fairness; a run of liveness properties uses `LiveSpec`.

* Loops run: `netThread`, `streamLoop`, `SessionServer::loop`, `ClientApp::run`,
  `HostApp::run` and the encoder thread are loops with a receive timeout or a
  sleep and no other way to block, so what they have to do is weakly fair.
* Time passes (`Second`, `Tick`), though never before a loop has done what was
  due: loops take milliseconds, the periods are seconds.
* In `Session` a datagram that is not lost is received, if not in its second then,
  with `Late`, in a later one. In `ConsoleLink` not even that is assumed: a second,
  with the loss of what is under way, may always come first. Properties that need a network that recovers say so (`NetworkRecovers`:
  from some time on nothing is dropped; `[]lossless`: nothing ever was).
* Games call the controller functions and show pictures while they run, for
  `InputPlugin` and `ConsoleLink`; in `CaptureEncoder` no scan-out need ever come.
  `HostBundle` is fair in `ConsoleLink`: the player at the host has a controller.
* `AudioTap`: `EnsureAsk` is strongly fair. It can only be taken between two drains;
  a drain is bounded to eight chunks (`net.cpp:66`) and `audioEnsureRegistered` is
  called after each, so that a ring that is never empty does not keep the thread
  from it, as it would a weakly fair one.
* `GuiSession`: the window draws frame after frame (`WF` of each step of its thread),
  and so go on the session thread and the loop that receives, which blocks for the
  timeout of its socket at most. A click, a datagram, a frame that can be decoded
  and a failure are never fair, and whether a controller is polled is not either.
* Starting and stopping programs, applications and players, and what a player
  presses, are up to the user: never fair.
* An application that ends does end: ON_APPLICATION_ENDS runs to its last line
  unless it blocks, and that it does not block is what `ShutdownCompletes` checks.

## What is proved

TLAPS checks every step; nothing is assumed but the named assumptions on the
constants at the head of each module: that sets are sets of the right kind and
numbers positive; in `FrameAssembler`, that a datagram is not overtaken by more than
half the id space (`ReorderAssumption`); in `AudioRing`, that the ring divides the
space of the indices (`IndexAssumption`: 8192 divides 2^32), without which a wrap
would change which cell an index means; in `HostInput`, that the clock does not wrap
within a timeout and the longest silence looked at (`TimeAssumption`); in
`WireProtocol`, that types and the count of players fit a byte, the magic four and
the length of a slice two (`BaseAssumption`, `MagicAssumption`, `SizeAssumption`).

**Frame assembler** (`FrameAssemblerProofs`), for every size of the id space and
window, number of slices and frames, and reordering distance: `TypeCorrect`,
`WindowOrdered`, `OnlyWholeFrames`, `NewestKept`, `FateIsFinal`, and `Implements`
(the assembler refines `LatestWins`). The code compares wrapped ids and the
properties speak of the order of sending. The invariant `IInv` closes the gap:
every id is its frame's number modulo the id space (`SourceInv`), and what the
receiver remembers is within half of that space of the encoder (`IsFrame`), so
that `idNewer` on ids is `>` on frame numbers: the lemmas `IdOrder` and `Compare`,
which everything else rests on. The rest of `IInv` says what a slot holds
(`SlotInv`: slices of one frame, not all of them, newer than what was delivered,
no two slots of one frame), what was delivered (`OutInv`) and that a frame given
up is older than something delivered or than everything in a full window
(`FateInv`), which is what makes `NewestSurvives` and `FateFinal` go through.

**Session** (`SessionProofs`), for every set of clients, number of slots, timeout,
and whether or not the network duplicates or delivers late: `TypeCorrect`,
`SeatsDistinct`, `InputOfHolder`, `SeatIsKept`, and `Implements` (the session
refines `SeatLease`). `IInv` adds to the types, `OneSeatEach` and `InputFromSeat`
two facts: a server that does not run has no seats (or `Start` could not be a
release of nothing) and a BYE under way is of a client that has left (or
`SeatKept` could be broken by an old BYE).

**Input plugin** (`InputPluginProofs`), for every number of Pro Controllers, set of
buttons, timeout and lag: `TypeCorrect`, `EdgesFollow`, `NothingSticks` and
`NothingOfThePast`. `IInv` adds that a slot without an update since it was forgotten
is not active, and that what the edges left down is part of the previous hold.

**Sessions of the GUI** (`GuiSessionProofs`), for every number of sessions and frames:
`TypeCorrect`, `NothingLeft`, `InputIsOfSession` and `Apart`. The code has no lock for
what the window drops, only the order in `stopSession`, and `IInv` says why that
suffices: the server and the loop that calls the view exist only while the session
thread is between their start and their stop (`ThreadInv`), so that the join is a
join with all of them; what the view, the shared input and the session hold is of
the session that was started last (`OfSession`); and at home there is nothing of any
(`HomeInv`), from which the next start gets its clean slate. The three properties
follow from it without a further step.

**Audio ring and tap** (`AudioTapProofs`), for every size of ring, index, chunk and
block: `TypeCorrect`, `CellsDistinct`, `Implements` (the ring, with the tap in and
out, refines `AudioFifo`) and `Heard`. The two threads share no lock and each reads
an index that the other moves. `RingInv` is what they agree on nevertheless: what is
unread and what the callback is about to write have room beside each other, and what
the network thread has copied is still unread and as it was. Below it lies the
arithmetic of indices that wrap: `PlusValue`, `MinusValue` and `Moves` say that the
distance of two indices is what it looks like, `CellsApart` that fewer indices in a
row than the ring is long have cells of their own, across the wrap too. `TapIsRing`
(`TapSpec => Spec`) shows that the tap only adds to when the ring is used, so that
the theorems about the ring are about both. `HeardInv` says what the plugin knows of
the game's callback as long as the game did not set it in between question and
answer.

**Capture and encoder** (`CaptureEncoderProofs`), for every queue size and number of
pictures, whether or not buffers can be had: `TypeCorrect`, `Stable`, `Ordered`
and `QueueSuffices`.
The hook and the encoder share two surfaces, and the lock is not held while the
encoder reads. `SurfaceTracked` says that a surface is the encoder's exactly if it is
in the queue or in its hands, once, and `ImageKept` that such a surface has its image;
with `SurfaceInv` (what the states of surfaces mean while an application ends) and
`EncoderInv` (where the thread is when the application is in which part of its end)
they are inductive, and `ReadStable` follows. `Ordered` rests on a second invariant
on top of it: what is pending is the last picture of all and alone
(`PendingInv`), what is queued is in the order of its blits and behind what is being
read (`QueueInv`), and times kept never go back (`TimeInv`). `QueueSuffices` is about
the numbers: with a queue of three (the code has four) nothing the hook hands over is
refused and the message that ends the encoder always has room, because there are two
surfaces and each is in the queue once.

**Host input** (`BundleProofs`), for every set of slots, clock, timeout and lag:
`TypeCorrect`, `Fresh` and `Timely`. The hub subtracts times of a clock that wraps;
`StampInv` says that the difference is the age of the state, or more by what its
thread was late, `NowInv` the same of the times the threads have in hand, and
`AgeInv` that no age outgrows what the clock can tell apart. `Fresh` bounds what is
in a bundle by the timeout and what the main loop was late. `Timely` says that
nothing is missing which was there when the loop took its time, however late it packs:
`LocalInv`, that the local player's state is the one of this turn of the loop, is
what that takes for slot 0. Nothing can be proved of a state that comes in after the
loop took its time: it is left out, see the [observations](#other-observations).

**Links to the console** (`ConsoleLinkProofs`), for every kind of peer, set of hosts and
timeout, whatever is lost: `TypeCorrect`, `Watched` and `Apart`. The run's properties
are liveness; these are the safety they stand on. `StreamWatched` says that a
stream is only ever on where silence is going to be noticed: the console listens,
the time of the last datagram is not the 0 that counts as none, and there is an
address. That it is inductive depends on who resets what: `netStop` ends the stream
but keeps the time, a simulator starts with neither, the input plugin, of which it
is false, keeps `gHostConnected`. `VersionsApart` says that a host of another version
never gets a link and never sends anything but HELLOs; it follows from `RequestInv`
and `ReplyInv`, about what is under way, also from and to hosts that have gone.

**Wire format** (`BundleProofs`), for every base of digits, length of names, slices
and bundles, and every message that can be packed, not only those a run packs:
`PartIsRefused`, `WholeIsKept`, `ParsedIsSound`, and from them `WireTyping`,
`WireRoundTrip` and `WireNoWildRead`. What is lost on the way is in `Kept`: the last
character of a name, the reason of a BYE, and of a CONFIG the two fields for which
the datagram has no bytes (`Sent` says that nothing else depends on these). The argument goes from bytes to datagrams.
The digits of a number put together again are the number, of two and of four bytes,
and a negative number comes back through two's complement (`TwoDivisions`,
`Digitwise` and the lemmas after them). Each table of offsets covers every byte up
to its size exactly once (a field may have none), for the packer and for the parser alike (the lemmas on
layouts that are `Proper`), so that the byte at an offset is a byte of one field and
reading a field finds its own (`ReadFields`). A packed datagram is its header, its
fields, and then its payload or bodies one after the other (`Laid`), which gives
`WholeIsKept`. For `PartIsRefused` the length that the fields announce is held
against the length there is; where so much is missing that the count itself is
gone, `LeastSize` refuses. `ParsedIsSound` starts at the other end, with any
sequence of digits whatever. The invariant `WireInv` only says that a message comes
with its bytes or with the first of them. `BundleArrives` is about hub and wire
together: whichever slots `packBundle` finds active, in whatever state of
`HostInput`, their states fit a bundle and come out of the console's parser as they
went in, with the one assumption that the hub has a slot per player.

**What liveness rests on.** TLAPS does not do fairness, so "in the end" stays with
TLC. But the argument behind it, a measure that every step of the loop concerned
lowers and no other step raises, together with what that loop lacks to go on (namely
nothing), is safety, and it is proved for every value of the constants:

| theorem | for | says |
|---|---|---|
| `EndIsNear` (`CaptureEncoderProofs`) | `ShutdownCompletes` | while `encoderStop` joins the encoder's thread, that thread is four of its own steps at most from its end, and never blocks without a message to wake it |
| `ReturnIsNear` (`CaptureEncoderProofs`) | `SurfaceReturns` | a surface handed over is released after thirteen steps of the encoder at most; its place in the queue never gets worse |
| `StopIsNear` (`GuiSessionProofs`) | `StopReturns` | while the window waits, twenty steps of the session thread and of the loop that it waits for remain at most, nobody adds to them, and both know that they are to end |
| `NewestIsKept` (`GuiSessionProofs`) | `NewestShown` | the newest decoded frame waits, is in the window's hands, or is shown: between lock and upload none is lost but to a newer one |
| `ReclaimIsNear` (`SessionProofs`) | `SeatReclaimed` | what a client that left has under way only becomes less; from its last datagram on its seat ages by every second, and no second finds it older than the timeout |
| `LossIsNear` (`SessionProofs`) | `HostLossNoticed` | the same of a connected client whose host stopped |
| `PauseIsNear` (`ConsoleLinkProofs`) | `PausesWhenGone` | the same of a stream that no accepted host is left for; what other hosts send does not prolong it |
| `LossIsNear` (`ConsoleLinkProofs`) | `ConsoleLossNoticed` | the same of a host's link to a console that stopped |
| `SilenceIsNear` (`InputPluginProofs`) | `SilenceNeutral` | a slot without updates only ages; forgotten, it is not injected again and goes with the game's next read and probe |

What they need beyond the invariants above is small and says who does what in time:
`Swept` (once the sweep of a second is done nobody is overdue), `Addressed` and
`ConnectedRuns` for the clients, `StopInv` (who waits has set the flag, and a session
in its loop has somebody who receives), `WakeInv` and `InReach` for the encoder,
`NewestInv` for the view. In the steps of time (`Second`) a loop that has something
due comes first, as everywhere in the models; that loops are that quick is what
fairness and those guards say of the code, and no theorem can.

Only model-checked: that these bounded steps are taken, that is all liveness, and the
properties whose course depends on messages that get through or on loops that ask
again and again: `Joins`, `LinkRestored`, `StreamFlows`, `InputFlows`,
`TapComes` and `EndNoticed`, of which no theorem has the safety half.

## Findings

Two runs end in a violation, because the code does something else than it says.

1. `session_orphan`: the server answers PING of a client it does not know. A client
   that was dropped by the sweep, or that outlived the host, hears PONGs, never
   times out, never says HELLO again, and plays no slot.
2. `consolelink_resumes`: the console pauses when it did not hear from the host for
   a while, but a later PING does not end the pause and its PONG keeps the host
   from saying HELLO again: link up, no stream. The console simulator does the same
   (`Peers = {"simStream"}`).

## Other observations

Met while modelling; the models have the behaviour, and no property of a run denies
it. The first three could be runs of their own; the constants to see them with are
given.

* The client believes every HELLO_ACK. The answer of a host that has
  been started again since, overtaken by the answer of the present one, makes it show
  a slot that is not its own (`client_app.cpp:113`), although `client_app.h:38` says
  "Assigned player slot", for as long as it stays connected. Two clients and a late or
  duplicated datagram are needed; what is played is not affected (`InputFromSeat`). To
  see it: check `SlotShown` with `session.cfg`.
* `HostApp::run` takes the time before it pumps the display
  (`host_app.cpp:72`) and packs with it afterwards (`89`). A remote state stored in
  between looks as if it came from the future, and the bundle lacks that player. With a
  display that waits for the screen this can be any bundle, and every one, although
  `input_hub.h:4-7` says that a slot goes inactive for want of updates. What a late
  loop does keep, `BundleFresh` and `BundleTimely` say. To see it: check `InputReaches`
  with `SPECIFICATION LiveSpec`, `ClockSpace = 16`, `InputTimeout = 5` and `Idle = 6`
  in `hostinput.cfg`.
* `wsu_pack_config` writes ten bytes; its comment says that
  `audioChannels` and `flags` ride in the last two (`wsu_protocol.h:301`), which are
  the sample rate. They are parsed as 0 (`315`), whatever the console packed
  (`net.cpp:54`). `Kept` leaves the two out of `RoundTrip`; to see it: check
  `ConfigWhole` with `wire.cfg`.
* `framesDropped` counts abandoned and evicted frames, not stale ones, which
  `frame_assembler.h:31` would lead one to expect (`frame_assembler.cpp:19`, `24`).
* `newestDelivered_` is never reset, neither by CONFIG nor when the link comes up
  again. When the console is started again its frame ids begin at 1
  (`net.cpp:187`), and the assembler of the host and of every client refuses them as
  stale until they catch up; the picture stays frozen for as long as it was shown
  before, although "policy is latest wins" (`frame_assembler.h:5`). To see it: check
  `NewestSurvives` with `SPECIFICATION SpecWithRestart`, in which the console may be
  started again, and `Half = 4`, `MaxFrames = 4`, `Reorder = 2`,
  `CHECK_DEADLOCK FALSE` in `assembler.cfg`. A slot may then also hold slices of two
  frames of the same id (`frame_assembler.cpp:46`), so that `Intact` fails.
* The encoder reads a surface's timestamp after it released the surface
  (`encoder.cpp:148`): a frame may go out with the time of a later picture
  (`OrderKept` says it is never an earlier one).
* The hook checks `gInitialized` and the host before it takes the lock
  (`capture.cpp:99`): a hook that is late may allocate a surface after
  `captureShutdown`.
* A blit that is pending when the host goes is handed over when a host returns,
  however old it is by then (`capture.cpp:100`).
* `drainAudio` removes pairs from the ring and sends only full chunks: a partial
  chunk is dropped (`net.cpp:69`).
* A release of the GamePad that happens when injection drops to the real pad is
  not reported as an edge (`injection.cpp:214-219`), and without a fresh sample
  injection leaves the real hold out (`injection.cpp:222-238`): a game that counts
  edges, and does not look at the hold, sees the button down for too long.
* `gPrevVpadHold` and `gPrevProHold` are not reset when an application starts:
  its first edges are taken against what the previous one saw.
* `RemoteInput::get` with a `now` older than the update finds the slot silent for
  one sample (`remote_input.h:39`).
* `gHostConnected` survives the end of an application and `lastHostSeenMs` does not:
  if the host has gone in the meantime the menu goes on to say it is connected
  (`main.cpp:75-80`). `PausesWhenGone` speaks of the stream only for that reason.
* The console simulator sends PONG to whoever pings (`console_sim.cpp:253`), the
  stream plugin to the host that greeted it last (`net.cpp:161`). A host whose stream
  another one took over and left therefore notices with the plugin, by silence, and
  greets again; with the simulator it waits for ever. `StreamFlows` excludes it.
* The game's callback is lost if the game sets it just between the question
  (`audio.cpp:113`) and the answer (`audio.cpp:119`) of the tap, or the same at the
  end (`audio.cpp:140`, `142`), although it is meant to be chained (`audio.cpp:18`):
  `GameHeard` without `~raced` fails.
* `gRegistered` stays true when the game ends AX and starts it again, or sets its own
  callback: the tap does not come back in the life of the application
  (`audio.cpp:108`). `TapComes` excludes it.
* The ring fills while no host is there, and is not emptied when one comes: the first
  170 ms of sound it gets are old (`net.cpp:99-109`).
* With the window, a controller that is unplugged leaves its last state in
  `SharedInput` (`gui_app.cpp:175`, `shared_input.h:28-33`), which the session goes on
  to send as fresh: buttons stay held, although slots are to go neutral when their
  input ceases (`docs/protocol.md:83`). `InputOfSession` says only that no state
  outlives its session.
* After an error of the socket the client skips the rest of its pass
  (`client_app.cpp:96-98`), the display included.

## What is not modelled

* *Display sink and frame decoder*: the sink's one-frame mailbox is the one of the
  GUI's view, which `GuiSession` has; the rest are calls of SDL and of the JPEG
  library.
* Sticks, touch and the mapping of single buttons in `injection.cpp`: pure functions
  without state; planned.
* The picture that the console simulator makes up and what it keeps for tests.
* *UDP socket*, *input backends*, *command line*, *log*, *console helpers*: wrappers of
  system calls and libraries. Their effect, datagrams lost or reordered and a poll
  that finds a controller or not, is a choice in the models.
* JPEG compression and decoding, drawing, and third-party code under
  `pc/third_party`.
* Names of players (payload in `WireProtocol`), round-trip times and statistics that only reach a log.
* The GPU: that a blit is finished by the next scan-out is assumed, as the code
  assumes it.

## Plan

The order so far followed the stream and the input through the system, the parts
with the most actors first: assembler, session, console link, capture, audio ring,
host input, input plugin, wire format; then the links of the input, the audio tap
and the sessions of the GUI. What is left:

1. Theorems: the safety half of `LinkRestored` and `Joins` (what keeps HELLO going and
   its answer from being lost on), and of `TapComes`.
2. An abstract specification of the capture, the pictures the host is to see, for
   `CaptureEncoder` to refine, as the assembler refines `LatestWins`.
3. Sticks and touch of the injection as operators against a reference definition.
4. The display sink's window, which ends a host's loop when it is closed.
