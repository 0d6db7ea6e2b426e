----------------------------- MODULE FrameCodec -----------------------------
(***************************************************************************)
(* The wire format of src/src/framer.rs as operators: what each write_*    *)
(* function puts after the 8-byte header, what the parse_* functions make  *)
(* of it, and the name/value block inside the frames that carry headers.   *)
(*                                                                         *)
(* A frame is a record with the fields of its struct in src/src/frame.rs   *)
(* and its `type`.  A HeaderMap is a function from its names to the        *)
(* non-empty sequence of the values each has, in insertion order.  Names,  *)
(* values and payloads are sequences of 0 .. Byte - 1.                     *)
(***************************************************************************)
EXTENDS Integers, Sequences, FiniteSets, SequencesExt

CONSTANT Byte   (* values of a byte: 256 in the code                       *)

(* Room for the 3-bit priority, the frame types and the RST_STREAM status  *)
(* codes in one byte.                                                      *)
ASSUME ByteAssumption == Byte \in Nat /\ Byte >= 16 /\ Byte % 8 = 0

TypeCode == [SYN_STREAM |-> 1, SYN_REPLY |-> 2, RST_STREAM |-> 3, SETTINGS |-> 4,
             PING |-> 6, GOAWAY |-> 7, HEADERS |-> 8, WINDOW_UPDATE |-> 9]
SpdyVersion == 3

HasBlock(type) == type \in {"SYN_STREAM", "SYN_REPLY", "HEADERS"}

(* Byte to the k-th power.                                                 *)
Power[k \in 0..4] == IF k = 0 THEN 1 ELSE Byte * Power[k - 1]

BigEndian(n, width) == [i \in 1..width |-> (n \div Power[width - i]) % Byte]
Number(bytes)       == LET n[i \in 0..Len(bytes)] == IF i = 0 THEN 0 ELSE (n[i - 1] * Byte) + bytes[i]
                       IN  n[Len(bytes)]
U32(n)              == BigEndian(n, 4)
Word(bytes, k)      == Number(SubSeq(bytes, 4 * k + 1, 4 * k + 4))

(* & 0x7fff_ffff                                                           *)
Mask31(n) == n % (Power[4] \div 2)

----------------------------------------------------------------------------
(* The structs of src/src/frame.rs: u8 and u32 fields, a HeaderMap out of  *)
(* HeaderMaps, a status of RstStatus.  A peer that is not this program may *)
(* send GOAWAY with any status.                                            *)

Octet  == 0..(Byte - 1)
Word32 == 0..(Power[4] - 1)

SynStreams(HeaderMaps) ==
  [type : {"SYN_STREAM"}, stream_id : Word32, associated_stream_id : Word32,
   priority : Octet, headers : HeaderMaps, flags : Octet]
HeaderFrames(HeaderMaps) ==
  [type : {"SYN_REPLY", "HEADERS"}, stream_id : Word32, headers : HeaderMaps, flags : Octet]
RstStreams     == [type : {"RST_STREAM"}, stream_id : Word32, status : 1..11]
SettingEntry   == [flags : Octet, id : Word32, value : Word32]
SettingsFrames == [type : {"SETTINGS"}, settings : Seq(SettingEntry), flags : Octet]
Pings          == [type : {"PING"}, id : Word32]
GoAways        == [type : {"GOAWAY"}, last_good_stream_id : Word32, status : Word32]
WindowUpdates  == [type : {"WINDOW_UPDATE"}, stream_id : Word32, delta : Word32]
DataFrames     == [type : {"DATA"}, stream_id : Word32, flags : Octet, data : Seq(Octet)]

ControlFrames(HeaderMaps) ==
  SynStreams(HeaderMaps) \cup HeaderFrames(HeaderMaps) \cup RstStreams \cup SettingsFrames
  \cup Pings \cup GoAways \cup WindowUpdates

----------------------------------------------------------------------------
(* The name/value block.                                                   *)

(* The order of BTreeMap<String, _>.                                       *)
Before(a, b) ==
  \/ IsStrictPrefix(a, b)
  \/ \E k \in 1..Len(a) : /\ k <= Len(b) /\ a[k] < b[k]
                          /\ SubSeq(a, 1, k - 1) = SubSeq(b, 1, k - 1)

(* The elements of S in order.  SetToSortSeq is the same, but rests on     *)
(* operators of TLC that the provers do not know.                          *)
InOrder(S, op(_, _)) ==
  CHOOSE s \in [1..Cardinality(S) -> S] : \A i, j \in 1..Cardinality(S) : i < j => op(s[i], s[j])

JoinNul(values) == Tail(FlattenSeq([i \in DOMAIN values |-> <<0>> \o values[i]]))

SplitNul[bytes \in Seq(Nat)] ==
  LET cuts == InOrder({0, Len(bytes) + 1} \cup {i \in DOMAIN bytes : bytes[i] = 0}, <)
  IN  [k \in 1..(Len(cuts) - 1) |-> SubSeq(bytes, cuts[k] + 1, cuts[k + 1] - 1)]

(* A string with its length before it, written and read from behind the    *)
(* first p bytes.                                                          *)
EncodeString(s)      == U32(Len(s)) \o s
StringLength(raw, p) == Number(SubSeq(raw, p + 1, p + 4))
StringFits(raw, p)   == p + 4 <= Len(raw) /\ p + 4 + StringLength(raw, p) <= Len(raw)
StringAt(raw, p)     == SubSeq(raw, p + 5, p + 4 + StringLength(raw, p))

EncodeHeaders(headers) ==
  LET names == InOrder(DOMAIN headers, Before)
  IN  U32(Len(names)) \o
      FlattenSeq([k \in DOMAIN names |->
        EncodeString(names[k]) \o EncodeString(JoinNul(headers[names[k]]))])

(* A HeaderMap: names and values without NUL, and all lengths fit their    *)
(* fields.                                                                 *)
Text == Seq(1..(Byte - 1))
IsHeaderMap(headers) ==
  /\ headers = [n \in DOMAIN headers |-> headers[n]]
  /\ IsFiniteSet(DOMAIN headers) /\ Cardinality(DOMAIN headers) \in Word32
  /\ \A n \in DOMAIN headers :
       /\ n \in Text \ {<<>>} /\ Len(n) \in Word32
       /\ headers[n] \in Seq(Text) \ {<<>>} /\ Len(JoinNul(headers[n])) \in Word32

(* Starts(raw, n)[k] holds the number of bytes before the k-th string of   *)
(* the block, names and values counted from 0; nothing once a length       *)
(* reaches beyond the block.                                               *)
Starts(raw, n) ==
  LET starts[k \in 0..n] ==
        IF k = 0 THEN {4}
        ELSE {p + 4 + StringLength(raw, p) : p \in {q \in starts[k - 1] : StringFits(raw, q)}}
  IN  starts

ParseHeaderBlock[raw \in Seq(Nat)] ==
  LET count     == Word(raw, 0)
      starts    == Starts(raw, 2 * count)
      String(k) == StringAt(raw, CHOOSE p \in starts[k] : TRUE)
      Name(k)   == String(2 * k - 2)
      Values(k) == SplitNul[String(2 * k - 1)]
  IN  IF Len(raw) < 4 \/ starts[2 * count] = {} \/ \E k \in 1..count : Name(k) = <<>>
      THEN [error |-> "protocol"]
      ELSE [headers |-> [n \in {Name(k) : k \in 1..count} |->
              FlattenSeq([k \in 1..count |-> IF Name(k) = n THEN Values(k) ELSE <<>>])]]

----------------------------------------------------------------------------
(* Frames.  `block` is the compressed name/value block of the frame.       *)

ControlHeader(type, flags, length) ==
  <<Byte \div 2, SpdyVersion>> \o BigEndian(TypeCode[type], 2) \o <<flags>> \o BigEndian(length, 3)

DataHeader(f) == U32(Mask31(f.stream_id)) \o <<f.flags>> \o BigEndian(Len(f.data), 3)

EncodePriorityInLowBits(p) == p % 8

EncodePriority(p) == (p % 8) * (Byte \div 8)

EncodePayload(f, block) ==
  CASE f.type = "SYN_STREAM" ->
         U32(Mask31(f.stream_id)) \o U32(Mask31(f.associated_stream_id))
         \o <<EncodePriority(f.priority), 0>> \o block
    [] f.type \in {"SYN_REPLY", "HEADERS"} -> U32(Mask31(f.stream_id)) \o block
    [] f.type = "RST_STREAM"    -> U32(Mask31(f.stream_id)) \o U32(f.status)
    [] f.type = "SETTINGS"      ->
         U32(Len(f.settings)) \o
         FlattenSeq([i \in DOMAIN f.settings |->
           U32((f.settings[i].flags * Power[3]) + (f.settings[i].id % Power[3])) \o U32(f.settings[i].value)])
    [] f.type = "PING"          -> U32(f.id)
    [] f.type = "GOAWAY"        -> U32(Mask31(f.last_good_stream_id)) \o U32(f.status)
    [] f.type = "WINDOW_UPDATE" -> U32(Mask31(f.stream_id)) \o U32(Mask31(f.delta))
    [] f.type = "DATA"          -> f.data

(* write_ping, write_goaway, write_rst_stream and write_window_update pass *)
(* no flags.                                                               *)
EncodeHeader(f, length) ==
  CASE f.type = "DATA"                  -> DataHeader(f)
    [] HasBlock(f.type) \/ f.type = "SETTINGS" -> ControlHeader(f.type, f.flags, length)
    [] OTHER                            -> ControlHeader(f.type, 0, length)

IsControl(header)     == header[1] >= Byte \div 2
Version(header)       == Number(<<header[1] % (Byte \div 2), header[2]>>)
PayloadLength(header) == Number(SubSeq(header, 6, 8))

(* The bytes a payload must have before the parser looks into it; the name *)
(* value block, if the frame has one, is what follows them.                *)
MinPayload == [SYN_STREAM |-> 10, SYN_REPLY |-> 4, RST_STREAM |-> 8, SETTINGS |-> 4,
               PING |-> 4, GOAWAY |-> 8, HEADERS |-> 4, WINDOW_UPDATE |-> 8]

KnownRstStatus(status) == status \in 1..11
GoAwayStatusOf(status) == IF status \in 0..2 THEN status ELSE 0

(* The settings after the count, entry by entry.                           *)
ParseSettings(payload) ==
  [i \in 1..Word(payload, 0) |-> [flags |-> Word(payload, 2 * i - 1) \div Power[3],
                                  id    |-> Word(payload, 2 * i - 1) % Power[3],
                                  value |-> Word(payload, 2 * i)]]

(* The frame in a control payload; `headers` is its decoded block.         *)
ParsePayload(type, flags, p, headers) ==
  LET id == Mask31(Word(p, 0))
  IN  CASE type = "SYN_STREAM" ->
             [type |-> type, stream_id |-> id, associated_stream_id |-> Mask31(Word(p, 1)),
              priority |-> (p[9] \div (Byte \div 8)) % 8, headers |-> headers, flags |-> flags]
        [] type \in {"SYN_REPLY", "HEADERS"} ->
             [type |-> type, stream_id |-> id, headers |-> headers, flags |-> flags]
        [] type = "RST_STREAM"    -> [type |-> type, stream_id |-> id, status |-> Word(p, 1)]
        [] type = "SETTINGS"      -> [type |-> type, settings |-> ParseSettings(p), flags |-> flags]
        [] type = "PING"          -> [type |-> type, id |-> Word(p, 0)]
        [] type = "GOAWAY"        ->
             [type |-> type, last_good_stream_id |-> id, status |-> GoAwayStatusOf(Word(p, 1))]
        [] type = "WINDOW_UPDATE" -> [type |-> type, stream_id |-> id, delta |-> Mask31(Word(p, 1))]

(* What the parser refuses before it looks at a name/value block.          *)
Refused(type, p) ==
  \/ Len(p) < MinPayload[type]
  \/ type = "SETTINGS" /\ Len(p) < 4 + 8 * Word(p, 0)
  \/ type = "RST_STREAM" /\ ~KnownRstStatus(Word(p, 1))

=============================================================================
