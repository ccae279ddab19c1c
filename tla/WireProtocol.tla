---------------------------- MODULE WireProtocol ----------------------------
(***************************************************************************)
(* The packers and parsers of protocol/wsu_protocol.h, and one datagram    *)
(* between them: it is packed, it may be cut short, and it is parsed.      *)
(* Parsers also see what other versions of the protocol send, for          *)
(* wsu_parse_header accepts every version.                                 *)
(*                                                                         *)
(* A byte is a digit to the base Base; a field is <<offset, width>>, with  *)
(* the offsets of the code, for the packer and the parser apart.  What is  *)
(* copied byte by byte, names among it, is the payload.                    *)
(***************************************************************************)
EXTENDS Integers, Sequences

CONSTANTS
  Base,        \* 256
  Magic,       \* WSU_PROTO_MAGIC
  NameLen,     \* WSU_NAME_LEN
  MaxPlayers,  \* WSU_MAX_PLAYERS
  MaxSlice,    \* WSU_MAX_SLICE_PAYLOAD
  MaxLength    \* bound: the payload of a foreign datagram

ASSUME BaseAssumption == Base \in Nat /\ Base > 12

(* Base to the n: what n bytes can tell apart. *)
Weight(n) ==
  CASE n = 0 -> 1
    [] n = 1 -> Base
    [] n = 2 -> Base * Base
    [] n = 3 -> Base * Base * Base
    [] n = 4 -> Base * Base * Base * Base

ASSUME MagicAssumption == Magic \in 1 .. Weight(4) - 1
ASSUME SizeAssumption ==
  /\ NameLen \in Nat \ {0}
  /\ MaxPlayers \in 1 .. Base - 2 /\ MaxSlice \in 1 .. Weight(2) - 2
  /\ MaxLength \in Nat

Digits == 0 .. Base - 1
Unwritten == Base      \* a byte nobody wrote, or behind the end
Refused == << >>       \* the -1 of a packer or parser

HELLO == 1
HELLO_ACK == 2
CONFIG == 3
VIDEO == 4
AUDIO == 5
INPUT == 6
INPUT_BUNDLE == 7
RUMBLE == 8
PING == 9
PONG == 10
BYE == 11
KEYFRAME_REQ == 12
Types == HELLO .. KEYFRAME_REQ
Version == 1

VARIABLES
  message,   \* what was packed
  datagram,  \* its bytes
  stage,     \* "none", "packed", "cut", "foreign" or "parsed"
  whole,     \* whether the datagram is the one that was packed
  heard      \* what the parser made of it
wireVars == <<message, datagram, stage, whole, heard>>

-----------------------------------------------------------------------------
(* Byte order.  \div and % make two's complement of a negative value. *)

(* Mutant of PutByte: little-endian. *)
PutByteLittle(v, w, i) == (v \div Weight(i)) % Base

(* The i-th of the w bytes of v. *)
PutByte(v, w, i) == (v \div Weight(w - 1 - i)) % Base

ByteAt(d, k) == IF k < Len(d) THEN d[k + 1] ELSE Unwritten

Get(d, at, w) ==
  CASE w = 0 -> 0
    [] w = 1 -> ByteAt(d, at)
    [] w = 2 -> ByteAt(d, at) * Base + ByteAt(d, at + 1)
    [] w = 4 -> ByteAt(d, at) * Weight(3) + ByteAt(d, at + 1) * Weight(2)
                  + ByteAt(d, at + 2) * Base + ByteAt(d, at + 3)

GetSigned(d, at, w) ==
  LET v == Get(d, at, w) IN IF 2 * v >= Weight(w) THEN v - Weight(w) ELSE v

-----------------------------------------------------------------------------
(* Layouts.  What is at what offset, and how wide. *)

HeaderSize == 8
Header == [magic |-> <<0, 4>>, version |-> <<4, 1>>, type |-> <<5, 1>>,
           seq |-> <<6, 2>>]

HelloPut == [role |-> <<0, 1>>, flags |-> <<1, 1>>]
HelloGet == [role |-> <<0, 1>>, flags |-> <<1, 1>>]

AckPut == [status |-> <<0, 1>>, slot |-> <<1, 1>>]
AckGet == [status |-> <<0, 1>>, slot |-> <<1, 1>>]

(* audioChannels and flags have no bytes: nothing is written of them, and the
   parser makes them 0. *)
ConfigSize == 10
ConfigPut == [width |-> <<0, 2>>, height |-> <<2, 2>>, fps |-> <<4, 1>>,
              videoCodec |-> <<5, 1>>, quality |-> <<6, 1>>,
              audioCodec |-> <<7, 1>>, audioRateHz |-> <<8, 2>>,
              audioChannels |-> <<10, 0>>, flags |-> <<10, 0>>]
ConfigGet == [width |-> <<0, 2>>, height |-> <<2, 2>>, fps |-> <<4, 1>>,
              videoCodec |-> <<5, 1>>, quality |-> <<6, 1>>,
              audioCodec |-> <<7, 1>>, audioRateHz |-> <<8, 2>>,
              audioChannels |-> <<10, 0>>, flags |-> <<10, 0>>]

VideoSize == 15
VideoPut == [frameId |-> <<0, 4>>, timestampMs |-> <<4, 4>>,
             flags |-> <<8, 1>>, sliceIndex |-> <<9, 2>>,
             sliceCount |-> <<11, 2>>, payloadLen |-> <<13, 2>>]
VideoGet == [frameId |-> <<0, 4>>, timestampMs |-> <<4, 4>>,
             flags |-> <<8, 1>>, sliceIndex |-> <<9, 2>>,
             sliceCount |-> <<11, 2>>, payloadLen |-> <<13, 2>>]

AudioSize == 6
AudioPut == [timestampMs |-> <<0, 4>>, payloadLen |-> <<4, 2>>]
AudioGet == [timestampMs |-> <<0, 4>>, payloadLen |-> <<4, 2>>]

(* One input body; the fields of Signed are i16. *)
StateSize == 26
Signed == {"lx", "ly", "rx", "ry", "gyroPitch", "gyroYaw", "gyroRoll"}
StatePut == [slot |-> <<0, 1>>, flags |-> <<1, 1>>, buttons |-> <<2, 4>>,
             lx |-> <<6, 2>>, ly |-> <<8, 2>>, rx |-> <<10, 2>>,
             ry |-> <<12, 2>>, lt |-> <<14, 1>>, rt |-> <<15, 1>>,
             touchX |-> <<16, 2>>, touchY |-> <<18, 2>>,
             gyroPitch |-> <<20, 2>>, gyroYaw |-> <<22, 2>>,
             gyroRoll |-> <<24, 2>>]
StateGet == [slot |-> <<0, 1>>, flags |-> <<1, 1>>, buttons |-> <<2, 4>>,
             lx |-> <<6, 2>>, ly |-> <<8, 2>>, rx |-> <<10, 2>>,
             ry |-> <<12, 2>>, lt |-> <<14, 1>>, rt |-> <<15, 1>>,
             touchX |-> <<16, 2>>, touchY |-> <<18, 2>>,
             gyroPitch |-> <<20, 2>>, gyroYaw |-> <<22, 2>>,
             gyroRoll |-> <<24, 2>>]

BundleSize == 5
BundlePut == [timestampMs |-> <<0, 4>>, count |-> <<4, 1>>]
BundleGet == [timestampMs |-> <<0, 4>>, count |-> <<4, 1>>]

Timestamp == [timestampMs |-> <<0, 4>>]
RumblePut == [slot |-> <<0, 1>>, intensity |-> <<1, 1>>]
ByePut == [reason |-> <<0, 1>>]
NoFields == [f \in {} |-> <<0, 0>>]

PutFields(t) ==
  CASE t = HELLO -> HelloPut [] t = HELLO_ACK -> AckPut
    [] t = CONFIG -> ConfigPut [] t = VIDEO -> VideoPut
    [] t = AUDIO -> AudioPut [] t = INPUT_BUNDLE -> BundlePut
    [] t \in {INPUT, PING, PONG} -> Timestamp
    [] t = RUMBLE -> RumblePut [] t = BYE -> ByePut
    [] t = KEYFRAME_REQ -> NoFields

GetFields(t) ==
  CASE t = HELLO -> HelloGet [] t = HELLO_ACK -> AckGet
    [] t = CONFIG -> ConfigGet [] t = VIDEO -> VideoGet
    [] t = AUDIO -> AudioGet [] t = INPUT_BUNDLE -> BundleGet
    [] t \in {INPUT, PING, PONG} -> Timestamp
    [] t = RUMBLE -> RumblePut [] OTHER -> NoFields

(* The fields as a packer is given them: those of WsuConfig are a byte each. *)
GivenFields(t) ==
  IF t = CONFIG
    THEN [ConfigPut EXCEPT !.audioChannels = <<10, 1>>, !.flags = <<11, 1>>]
    ELSE PutFields(t)

(* The size of the fields, without what follows them. *)
FixedSize(t) ==
  CASE t \in {HELLO, HELLO_ACK, RUMBLE} -> 2
    [] t = CONFIG -> ConfigSize [] t = VIDEO -> VideoSize
    [] t = AUDIO -> AudioSize [] t = INPUT_BUNDLE -> BundleSize
    [] t \in {INPUT, PING, PONG} -> 4 [] t = BYE -> 1
    [] OTHER -> 0

-----------------------------------------------------------------------------
(* Packing.  A message has a type, a sequence number, the values of its
   fields, the name of HELLO or the payload of VIDEO and AUDIO, and the bodies
   of INPUT and INPUT_BUNDLE. *)

(* The byte at offset k of fields with these values. *)
FieldByte(layout, values, k) ==
  LET at(f) == layout[f][1]
      covering == {f \in DOMAIN layout : k \in at(f) .. at(f) + layout[f][2] - 1}
  IN IF covering = {} THEN Unwritten
     ELSE LET f == CHOOSE f \in covering : TRUE
          IN PutByte(values[f], layout[f][2], k - at(f))

PayloadByte(m, k) ==
  LET rest == k - FixedSize(m.type)
  IN IF rest < 0 THEN FieldByte(PutFields(m.type), m.fields, k)
     ELSE IF m.type \in {HELLO, VIDEO, AUDIO} THEN m.payload[rest + 1]
     ELSE IF m.type \in {INPUT, INPUT_BUNDLE}
       THEN FieldByte(StatePut, m.states[rest \div StateSize + 1],
                      rest % StateSize)
     ELSE Unwritten

HeaderValues(m) ==
  [magic |-> Magic, version |-> Version, type |-> m.type, seq |-> m.seq]

Need(m) ==
  HeaderSize + FixedSize(m.type) + Len(m.payload) + StateSize * Len(m.states)

(* The checks of a packer, given the room it has. *)
Packs(m, cap) ==
  /\ cap >= Need(m)
  /\ m.type \in {VIDEO, AUDIO} => Len(m.payload) <= MaxSlice
  /\ m.type = INPUT_BUNDLE => Len(m.states) <= MaxPlayers

PackedBytes(m) ==
  [k \in 1 .. Need(m) |->
     IF k <= HeaderSize THEN FieldByte(Header, HeaderValues(m), k - 1)
     ELSE PayloadByte(m, k - HeaderSize - 1)]

-----------------------------------------------------------------------------
(* Parsing *)

(* wsu_parse_header *)
HeaderParses(d) == Len(d) >= HeaderSize /\ Get(d, 0, 4) = Magic

FieldValues(layout, d, base) ==
  [f \in DOMAIN layout |->
     IF f \in Signed
       THEN GetSigned(d, base + layout[f][1], layout[f][2])
       ELSE Get(d, base + layout[f][1], layout[f][2])]

States(d, base, n) ==
  [i \in 1 .. n |-> FieldValues(StateGet, d, base + (i - 1) * StateSize)]

(* Mutant of Complete: what follows the fields may be missing. *)
CompleteFixed(t, v, size) == size >= FixedSize(t)

(* What a parser needs before it reads the fields.  A BYE has no parser. *)
LeastSize(t) == IF t = BYE THEN 0 ELSE FixedSize(t)

(* How many bytes follow the fields, as these say. *)
Rest(t, v) ==
  CASE t = HELLO -> NameLen
    [] t \in {VIDEO, AUDIO} -> v.payloadLen
    [] t = INPUT -> StateSize
    [] t = INPUT_BUNDLE -> StateSize * v.count
    [] OTHER -> 0

(* The checks of the parsers on the values of the fields. *)
Follows(t, v) ==
  /\ t \in {VIDEO, AUDIO} => v.payloadLen <= MaxSlice
  /\ t = VIDEO => v.sliceIndex < v.sliceCount
  /\ t = INPUT_BUNDLE => v.count <= MaxPlayers

Complete(t, v, size) == size >= LeastSize(t) + Rest(t, v)

(* What is copied, or pointed to; a name gets its NUL. *)
Copied(t, v, d) ==
  IF t \notin {HELLO, VIDEO, AUDIO} THEN << >>
  ELSE [i \in 1 .. Rest(t, v) |->
          IF t = HELLO /\ i = NameLen
            THEN 0 ELSE ByteAt(d, HeaderSize + FixedSize(t) + i - 1)]

Bodies(t, v, d) ==
  CASE t = INPUT -> States(d, HeaderSize + FixedSize(t), 1)
    [] t = INPUT_BUNDLE -> States(d, HeaderSize + FixedSize(t), v.count)
    [] OTHER -> << >>

(* The payload parsers. *)
Parse(d) ==
  LET t == Get(d, 5, 1)
      v == FieldValues(GetFields(t), d, HeaderSize)
      size == Len(d) - HeaderSize
  IN IF ~HeaderParses(d) \/ t \notin Types \/ size < LeastSize(t)
       THEN Refused
     ELSE IF ~Follows(t, v) \/ ~Complete(t, v, size) THEN Refused
     ELSE <<[type |-> t, seq |-> Get(d, 6, 2), fields |-> v,
             payload |-> Copied(t, v, d), states |-> Bodies(t, v, d)]>>

-----------------------------------------------------------------------------
(* What can be said: fields within their widths, and payloads and bodies as the
   fields say.  A slice is one of its frame. *)
FieldRange(f, w) ==
  IF f \in Signed THEN -(Weight(w) \div 2) .. (Weight(w) - 1) \div 2
                  ELSE 0 .. Weight(w) - 1

FieldSet(layout) ==
  {v \in [DOMAIN layout -> Int] :
     \A f \in DOMAIN layout : v[f] \in FieldRange(f, layout[f][2])}

IsMessage(m) ==
  /\ m = [type |-> m.type, seq |-> m.seq, fields |-> m.fields,
          payload |-> m.payload, states |-> m.states]
  /\ m.type \in Types /\ m.seq \in 0 .. Weight(2) - 1
  /\ m.fields \in FieldSet(GivenFields(m.type))
  /\ m.payload \in Seq(Digits) /\ m.states \in Seq(FieldSet(StatePut))
  /\ CASE m.type = HELLO -> Len(m.payload) = NameLen
       [] m.type \in {VIDEO, AUDIO} -> Len(m.payload) = m.fields.payloadLen
       [] OTHER -> m.payload = << >>
  /\ CASE m.type = INPUT -> Len(m.states) = 1
       [] m.type = INPUT_BUNDLE -> Len(m.states) = m.fields.count
       [] OTHER -> m.states = << >>
  /\ m.type = VIDEO => m.fields.sliceIndex < m.fields.sliceCount

(* Those that are packed here: in each one field, one byte or one body stands
   out, by a value that shows width, order and sign. *)
Edges(f, w) ==
  IF f \in Signed THEN {-1, 1 - Weight(w) \div 2, Weight(w) \div 2 - 1}
  ELSE {1, Weight(w - 1), Weight(w) - 1}

Values(layout) ==
  {[f \in DOMAIN layout |-> 0]}
  \cup (UNION {{[f \in DOMAIN layout |-> IF f = g THEN v ELSE 0] :
                  v \in Edges(g, layout[g][2])} : g \in DOMAIN layout})

Payloads(n) == [1 .. n -> {0, Base - 1}]
AnyPayloads == UNION {Payloads(n) : n \in 0 .. MaxSlice + 1}

(* wsu_input_state_init: no touch. *)
NoState ==
  [f \in DOMAIN StatePut |->
     IF f \in {"touchX", "touchY"} THEN Weight(2) - 1 ELSE 0]
OneOf(n, j, s) == [i \in 1 .. n |-> IF i = j THEN s ELSE NoState]
SomeStates(n) ==
  {[i \in 1 .. n |-> NoState]}
  \cup {OneOf(n, j, s) : j \in 1 .. n, s \in Values(StatePut)}

Message(t, fields, payload, states) ==
  [type |-> t, seq |-> Base, fields |-> fields, payload |-> payload,
   states |-> states]

(* What the callers pack: the length and the count are those of what follows. *)
Hellos ==
  {Message(HELLO, v, p, << >>) : v \in Values(HelloPut), p \in Payloads(NameLen)}

SliceFields(v, n) ==
  [v EXCEPT !.payloadLen = n, !.sliceCount = v.sliceIndex + 1]

Slices ==
  {Message(VIDEO, SliceFields(v, Len(p)), p, << >>) :
     v \in {u \in Values(VideoPut) : u.sliceIndex < Weight(2) - 1},
     p \in AnyPayloads}

SoundFields(v, n) == [v EXCEPT !.payloadLen = n]

Sounds ==
  {Message(AUDIO, SoundFields(v, Len(p)), p, << >>) :
     v \in Values(AudioPut), p \in AnyPayloads}

Inputs ==
  {Message(INPUT, v, << >>, s) : v \in Values(Timestamp), s \in SomeStates(1)}

BundleFields(v, n) == [v EXCEPT !.count = n]

Bundles(n) ==
  {Message(INPUT_BUNDLE, BundleFields(v, n), << >>, s) :
     v \in Values(BundlePut), s \in SomeStates(n)}

Others(t) == {Message(t, v, << >>, << >>) : v \in Values(GivenFields(t))}

Messages ==
  Hellos \cup Slices \cup Sounds \cup Inputs
  \cup (UNION {Bundles(n) : n \in 0 .. MaxPlayers + 1})
  \cup (UNION {Others(t) :
                 t \in Types \ {HELLO, VIDEO, AUDIO, INPUT, INPUT_BUNDLE}})

(* A datagram of another version: its payload is laid out in another way. *)
Foreign(t, n, digit, from) ==
  [k \in 1 .. HeaderSize + n |->
     IF k <= HeaderSize
       THEN FieldByte(Header, [magic |-> Magic, version |-> Version + 1,
                               type |-> t, seq |-> 0], k - 1)
       ELSE IF k - HeaderSize > from THEN digit ELSE 0]

WireInit ==
  /\ message = << >> /\ datagram = << >> /\ stage = "none" /\ whole = FALSE
  /\ heard = Refused

(* A message is packed into a buffer that has the room, or lacks a byte. *)
Pack ==
  /\ stage = "none"
  /\ \E m \in Messages : \E cap \in {Need(m) - 1, Need(m)} :
       /\ message' = <<m>>
       /\ datagram' = IF Packs(m, cap) THEN PackedBytes(m) ELSE Refused
  /\ stage' = "packed" /\ whole' = (datagram' # Refused)
  /\ UNCHANGED heard

(* Only a part of it arrives. *)
Cut ==
  /\ stage = "packed" /\ whole
  /\ \E n \in 0 .. Len(datagram) - 1 : datagram' = SubSeq(datagram, 1, n)
  /\ stage' = "cut" /\ whole' = FALSE
  /\ UNCHANGED <<message, heard>>

Receive ==
  /\ stage = "none"
  /\ \E t \in Types, n \in 0 .. MaxLength, digit \in {0, 1, 2, Base - 1},
        from \in 0 .. MaxLength : datagram' = Foreign(t, n, digit, from)
  /\ stage' = "foreign"
  /\ UNCHANGED <<message, whole, heard>>

ParseIt ==
  /\ stage \in {"packed", "cut", "foreign"}
  /\ heard' = Parse(datagram)
  /\ stage' = "parsed"
  /\ UNCHANGED <<message, datagram, whole>>

(* The next datagram has nothing to do with this one. *)
Done ==
  /\ stage = "parsed"
  /\ message' = << >> /\ datagram' = << >> /\ stage' = "none" /\ whole' = FALSE
  /\ heard' = Refused

WireNext == Pack \/ Cut \/ Receive \/ ParseIt \/ Done

WireSpec == WireInit /\ [][WireNext]_wireVars

-----------------------------------------------------------------------------
(* Every byte of a datagram that is sent was written. *)
WireTypeOK ==
  /\ datagram \in Seq(Digits)
  /\ stage \in {"none", "packed", "cut", "foreign", "parsed"}
  /\ whole \in BOOLEAN
  /\ Len(message) <= 1 /\ Len(heard) <= 1

(* What the parsers keep of a message: a hello's name is cut for its NUL, a
   BYE's reason is parsed by nobody, and the last two fields of a CONFIG are
   lost. *)
Kept(m) ==
  CASE m.type = HELLO -> [m EXCEPT !.payload[NameLen] = 0]
    [] m.type = BYE -> [m EXCEPT !.fields = NoFields]
    [] m.type = CONFIG ->
         [m EXCEPT !.fields.audioChannels = 0, !.fields.flags = 0]
    [] OTHER -> m

(* test_protocol.cpp: what was packed is parsed to the same message but for what
   Kept leaves out, whichever value stands in whichever field, slice or body;
   and a datagram that lost its end is never taken for a message, shorter lists of states and payloads
   included.  Only of a BYE nothing but the header is needed. *)
RoundTrip ==
  stage = "parsed" /\ message # << >> =>
    IF whole THEN heard = <<Kept(message[1])>>
             ELSE heard = Refused \/ heard[1].type = BYE

(* "audioChannels/flags ride in the last two bytes" (wsu_pack_config): the
   configuration that arrives is the one that was packed.  No run lists it, as it
   is false: the code has no bytes for these two, and the console sets the first
   to 2. *)
ConfigWhole ==
  stage = "parsed" /\ whole /\ message[1].type = CONFIG => heard = message

(* What may be relied on of a message that was parsed from n bytes: every field,
   payload byte and body that is handed out was among them.  And the callers
   check nothing again: a slice has a place in its frame and fits the
   assembler's buffers, a bundle has no more states than the array it is read
   into, and a name ends. *)
Sound(m, n) ==
  /\ HeaderSize + LeastSize(m.type) + Rest(m.type, m.fields) <= n
  /\ m.payload \in Seq(Digits)
  /\ m.type \in {VIDEO, AUDIO} => Len(m.payload) <= MaxSlice
  /\ m.type = VIDEO => m.fields.sliceIndex < m.fields.sliceCount
  /\ m.type = HELLO => m.payload[NameLen] = 0
  /\ Len(m.states) <= MaxPlayers

(* Whatever arrives, no value is read from behind its end, and none goes where
   it has no room. *)
NoWildRead == heard # Refused => Sound(heard[1], Len(datagram))
=============================================================================
