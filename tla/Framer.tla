------------------------------- MODULE Framer -------------------------------
(***************************************************************************)
(* Two Framers over one direction of a transport, src/src/framer.rs: the   *)
(* peer's write_frame at one end and the read task's read_frame at the     *)
(* other.  write_frame writes the header and the payload one after the     *)
(* other, read_frame waits for 8 bytes and then for the payload; between   *)
(* any two of these steps the transport may be cut at any byte.  The peer  *)
(* may also put bytes on the wire that are no frame.                       *)
(*                                                                         *)
(* zlib is modelled by what a deflate stream promises: the k-th block of a *)
(* direction can be inflated only after the k - 1 blocks before it, and    *)
(* then gives back the bytes deflated.  Its compressed bytes are symbols   *)
(* above the byte values that say which block they are of; Deflated gives  *)
(* their number.                                                           *)
(***************************************************************************)
EXTENDS FrameCodec, FiniteSets

CONSTANTS
  Frames,     (* the frames the peer may write                              *)
  Malformed,  (* byte sequences that are no frame                           *)
  MaxFrames,  (* bound of the model: frames the peer writes                 *)
  Ratio,      (* what deflate gains: raw bytes per compressed byte          *)
  Growth,     (* the inflate buffer has Growth * compressed + Slack bytes:  *)
  Slack       (* 4 and 512 in the code                                      *)

ASSUME FramerAssumption ==
  /\ MaxFrames \in Nat /\ Slack \in Nat
  /\ Ratio \in Nat \ {0} /\ Growth \in Nat \ {0}

VARIABLES
  wire,       (* bytes on their way                                         *)
  pending,    (* the payload write_frame has not written yet                *)
  blocks,     (* compressor: the blocks deflated so far                     *)
  inflated,   (* decompressor: how many of them have been inflated; it is   *)
              (* None, without the dictionary, while that is 0              *)
  header,     (* the header read_frame has read; <<>> between frames        *)
  open,       (* the transport takes and carries bytes                      *)
  outcome,    (* "reading", or the error read_frame returned                *)
  (* History.                                                              *)
  wrote,      (* the frames of the write_frame calls, Junk for Malformed    *)
  ends,       (* ends[i]: bytes on the wire up to the end of the i-th one   *)
  consumed,   (* bytes read                                                 *)
  got         (* frames returned by read_frame                              *)

vars == <<wire, pending, blocks, inflated, header, open, outcome, wrote, ends, consumed, got>>
writerVars == <<pending, blocks, open, wrote, ends>>

Junk == [type |-> "JUNK"]

Init ==
  /\ wire = <<>> /\ pending = <<>> /\ blocks = <<>> /\ inflated = 0
  /\ header = <<>> /\ open = TRUE /\ outcome = "reading"
  /\ wrote = <<>> /\ ends = <<>> /\ consumed = 0 /\ got = <<>>

----------------------------------------------------------------------------
(* Compression.                                                            *)

Symbol(block, i) == Byte + (block * Power[2]) + i

(* The stream starts with a zlib header that asks for the dictionary.      *)
Preamble == <<Symbol(0, 0)>>

Deflated(raw) == 1 + (Len(raw) \div Ratio)

(* The compressed bytes of the k-th block.                                 *)
CompressHeaders(raw, k) ==
  (IF k = 1 THEN Preamble ELSE <<>>) \o [i \in 1..Deflated(raw) |-> Symbol(k, i)]

(* What the peer may write.  Its frames have the types of the structs and  *)
(* payloads the length field has room for.                                 *)
SentHeaders == {f.headers : f \in {g \in Frames : HasBlock(g.type)}}

FrameBlock(f, k)   == IF HasBlock(f.type) THEN CompressHeaders(EncodeHeaders(f.headers), k) ELSE <<>>
FramePayload(f, k) == EncodePayload(f, FrameBlock(f, k))

ASSUME FramesAssumption ==
  /\ \A headers \in SentHeaders : IsHeaderMap(headers)
  /\ \A f \in Frames :
       /\ f \in ControlFrames(SentHeaders) \cup DataFrames
       /\ f.type = "SETTINGS" => Len(f.settings) \in Word32
       /\ \A k \in 1..MaxFrames : Len(FramePayload(f, k)) < Power[3]

(* Malformed bytes have a header with another version, or a whole payload  *)
(* that the parser of their type has to refuse: no such type, too short, a *)
(* status that is none, a block no compressor of the peer made.            *)
NoFrame(b) ==
  LET h == SubSeq(b, 1, 8)
      p == SubSeq(b, 9, Len(b))
  IN  /\ b \in Seq(Nat) /\ Len(b) >= 8 /\ IsControl(h)
      /\ \/ Version(h) # SpdyVersion
         \/ /\ PayloadLength(h) = Len(p)
            /\ \A type \in DOMAIN TypeCode : Number(SubSeq(h, 3, 4)) = TypeCode[type] =>
                 \/ Refused(type, p)
                 \/ /\ HasBlock(type)
                    /\ \A headers \in SentHeaders, k \in 1..MaxFrames :
                         SubSeq(p, MinPayload[type] + 1, Len(p)) # CompressHeaders(EncodeHeaders(headers), k)

ASSUME MalformedAssumption == \A b \in Malformed : NoFrame(b)

(* A decompressor made anew for every frame.                               *)
DecompressHeadersAnew(bytes) ==
  LET capacity == (Growth * Len(bytes)) + Slack
  IN  IF blocks # <<>> /\ bytes = CompressHeaders(blocks[1], 1)
      THEN ParseHeaderBlock[SubSeq(blocks[1], 1, Min({capacity, Len(blocks[1])}))]
      ELSE [error |-> "compression"]

(* The loop of decompress_headers: the first call stops for the dictionary *)
(* and goes on behind the preamble, and the first call that makes progress *)
(* ends the loop, with whatever then is in the buffer.                     *)
DecompressHeaders(bytes) ==
  LET k        == inflated + 1
      capacity == (Growth * Len(bytes)) + Slack
  IN  IF k \in DOMAIN blocks /\ bytes = CompressHeaders(blocks[k], k)
      THEN ParseHeaderBlock[SubSeq(blocks[k], 1, Min({capacity, Len(blocks[k])}))]
      ELSE [error |-> "compression"]

----------------------------------------------------------------------------
(* The writer.                                                             *)

Total == IF ends = <<>> THEN 0 ELSE ends[Len(ends)]

CanWrite == open /\ pending = <<>> /\ Len(wrote) < MaxFrames

(* write_frame up to its first write_all: the block is deflated, then the  *)
(* header goes out.                                                        *)
WriteHeader(f) ==
  LET raw     == IF HasBlock(f.type) THEN EncodeHeaders(f.headers) ELSE <<>>
      block   == IF HasBlock(f.type) THEN CompressHeaders(raw, Len(blocks) + 1) ELSE <<>>
      payload == EncodePayload(f, block)
  IN  /\ CanWrite
      /\ blocks' = IF HasBlock(f.type) THEN Append(blocks, raw) ELSE blocks
      /\ wire' = wire \o EncodeHeader(f, Len(payload))
      /\ pending' = payload
      /\ wrote' = Append(wrote, f)
      /\ ends' = Append(ends, Total + 8 + Len(payload))
      /\ UNCHANGED <<inflated, header, open, outcome, consumed, got>>

WritePayload ==
  /\ open /\ pending # <<>>
  /\ wire' = wire \o pending
  /\ pending' = <<>>
  /\ UNCHANGED <<blocks, inflated, header, open, outcome, wrote, ends, consumed, got>>

WriteMalformed(bytes) ==
  /\ CanWrite
  /\ wire' = wire \o bytes
  /\ wrote' = Append(wrote, Junk)
  /\ ends' = Append(ends, Total + Len(bytes))
  /\ UNCHANGED <<pending, blocks, inflated, header, open, outcome, consumed, got>>

(* The peer or the transport closes the direction: of the bytes on their   *)
(* way the first n still arrive, and a write_frame in the middle fails.    *)
(* Another error of the transport, which read_frame hands on as it is, is  *)
(* left to Lifetime.                                                       *)
Cut(n) ==
  /\ open
  /\ open' = FALSE
  /\ wire' = SubSeq(wire, 1, n)
  /\ pending' = <<>>
  /\ UNCHANGED <<blocks, inflated, header, outcome, wrote, ends, consumed, got>>

----------------------------------------------------------------------------
(* The reader.                                                             *)

Take(n) == wire' = SubSeq(wire, n + 1, Len(wire)) /\ consumed' = consumed + n

(* A reader that waits for a byte behind the header.                       *)
ReadHeaderLate ==
  LET h == SubSeq(wire, 1, 8)
  IN  /\ outcome = "reading" /\ header = <<>> /\ Len(wire) > 8
      /\ Take(8)
      /\ IF IsControl(h) /\ Version(h) # SpdyVersion
         THEN outcome' = "protocol" /\ header' = header
         ELSE header' = h /\ outcome' = outcome
      /\ UNCHANGED <<inflated, got, writerVars>>

(* read_exact of the header, and the version check.                        *)
ReadHeader ==
  LET h == SubSeq(wire, 1, 8)
  IN  /\ outcome = "reading" /\ header = <<>> /\ Len(wire) >= 8
      /\ Take(8)
      /\ IF IsControl(h) /\ Version(h) # SpdyVersion
         THEN outcome' = "protocol" /\ header' = header
         ELSE header' = h /\ outcome' = outcome
      /\ UNCHANGED <<inflated, got, writerVars>>

Return(f)  == got' = Append(got, f) /\ outcome' = outcome
Fail(kind) == outcome' = kind /\ got' = got

(* parse_control_frame with the parse_* function of the type.              *)
ParseControlFrame(p) ==
  LET code  == Number(SubSeq(header, 3, 4))
      type  == CHOOSE t \in DOMAIN TypeCode : TypeCode[t] = code
      block == DecompressHeaders(SubSeq(p, MinPayload[type] + 1, Len(p)))
  IN  IF code \notin {TypeCode[t] : t \in DOMAIN TypeCode}
      THEN Fail("unknown_frame_type") /\ UNCHANGED inflated
      ELSE IF Refused(type, p)
      THEN Fail("protocol") /\ UNCHANGED inflated
      ELSE IF HasBlock(type)
      THEN /\ IF "error" \in DOMAIN block
              THEN Fail(block.error)
              ELSE Return(ParsePayload(type, header[5], p, block.headers))
           /\ inflated' = inflated + 1
      ELSE Return(ParsePayload(type, header[5], p, <<>>)) /\ UNCHANGED inflated

DataFrame(p) ==
  [type |-> "DATA", stream_id |-> Number(SubSeq(header, 1, 4)), flags |-> header[5], data |-> p]

(* read_exact of the payload, and what becomes of it.                      *)
ReadPayload ==
  LET n == PayloadLength(header)
      p == SubSeq(wire, 1, n)
  IN  /\ outcome = "reading" /\ header # <<>> /\ Len(wire) >= n
      /\ Take(n)
      /\ header' = <<>>
      /\ IF IsControl(header) THEN ParseControlFrame(p)
                              ELSE Return(DataFrame(p)) /\ UNCHANGED inflated
      /\ UNCHANGED writerVars

(* Every end of the transport taken for a closed connection.               *)
ReadEofAlwaysClosed ==
  /\ outcome = "reading" /\ ~open
  /\ Len(wire) < (IF header = <<>> THEN 8 ELSE PayloadLength(header))
  /\ outcome' = "closed"
  /\ wire' = <<>> /\ consumed' = consumed + Len(wire)
  /\ UNCHANGED <<inflated, header, got, writerVars>>

(* The end of the transport inside a header is ConnectionClosed, inside a  *)
(* payload it is an I/O error.                                             *)
ReadEof ==
  /\ outcome = "reading" /\ ~open
  /\ Len(wire) < (IF header = <<>> THEN 8 ELSE PayloadLength(header))
  /\ outcome' = IF header = <<>> THEN "closed" ELSE "io"
  /\ wire' = <<>> /\ consumed' = consumed + Len(wire)
  /\ UNCHANGED <<inflated, header, got, writerVars>>

Next ==
  \/ \E f \in Frames : WriteHeader(f)
  \/ WritePayload
  \/ \E b \in Malformed : WriteMalformed(b)
  \/ \E n \in 0..Len(wire) : Cut(n)
  \/ ReadHeader
  \/ ReadPayload
  \/ ReadEof

Spec == Init /\ [][Next]_vars

(* The read task is scheduled as long as it can run; neither the peer nor  *)
(* the transport owes anything.                                            *)
Fairness == WF_vars(ReadHeader) /\ WF_vars(ReadPayload) /\ WF_vars(ReadEof)

FairSpec == Spec /\ Fairness

----------------------------------------------------------------------------
(* Properties.                                                             *)

(* A frame as the wire can carry it: reserved bits are dropped, the types  *)
(* without flags lose none, an unknown GOAWAY status reads as Ok.          *)
OnTheWire(f) ==
  CASE f.type = "SYN_STREAM" -> [f EXCEPT !.stream_id = Mask31(@), !.priority = @ % 8,
                                          !.associated_stream_id = Mask31(@)]
    [] f.type = "SETTINGS"   -> [f EXCEPT !.settings =
                                  [i \in DOMAIN f.settings |->
                                    [f.settings[i] EXCEPT !.id = @ % Power[3]]]]
    [] f.type = "GOAWAY"     -> [f EXCEPT !.last_good_stream_id = Mask31(@),
                                          !.status = GoAwayStatusOf(@)]
    [] f.type = "WINDOW_UPDATE" -> [f EXCEPT !.stream_id = Mask31(@), !.delta = Mask31(@)]
    [] f.type \in {"PING", "JUNK"} -> f
    [] OTHER                 -> [f EXCEPT !.stream_id = Mask31(@)]

(* read_frame returns the frames written, whole, in order, with every      *)
(* field the wire has room for, and nothing after bytes that are no frame. *)
Channel == INSTANCE FrameChannel WITH
  sent      <- [i \in DOMAIN wrote |-> OnTheWire(wrote[i])],
  delivered <- got,
  up        <- outcome = "reading"
DeliversFrames == Channel!Spec

(* read_frame reports an error of the protocol or of the compression only  *)
(* for bytes that are no frame: what write_frame wrote, it accepts, with   *)
(* the header blocks of one direction inflated in the order they were      *)
(* deflated.                                                               *)
NoFrameRefused ==
  outcome \in {"protocol", "compression", "unknown_frame_type"} =>
    Len(got) < Len(wrote) /\ wrote[Len(got) + 1] = Junk

(* The frames that have arrived or still can.                              *)
Whole == Cardinality({i \in DOMAIN ends : ends[i] <= consumed + Len(wire)})

(* A reader that saw the end of the transport has returned every frame     *)
(* that arrived whole, and calls the end a closed connection unless it was *)
(* inside the payload of a frame.                                          *)
EofAccountsForFrames ==
  outcome \in {"closed", "io"} =>
    /\ Len(got) = Whole
    /\ outcome = "io" <=>
         /\ Len(got) < Len(wrote)
         /\ consumed >= (IF got = <<>> THEN 0 ELSE ends[Len(got)]) + 8

(* A frame on the wire is read, unless the transport fails first or bytes  *)
(* that are no frame come before it.                                       *)
WholeFrameIsRead ==
  \A n \in 1..MaxFrames :
    (n <= Whole /\ \A i \in 1..n : wrote[i] # Junk) ~> (Len(got) >= n \/ Whole < n)
=============================================================================
