------------------------------ MODULE MCFramer ------------------------------
(* Instances of Framer for TLC: bytes of 16 values, so that 32 bits are    *)
(* 0 .. 65535 and the top bit of an id is 32768.                           *)
EXTENDS Framer

NoHeaders == <<>>
OneHeader == (<<1>> :> <<<<3>>>>)
(* Two names in descending order of insertion, one of them with two values *)
(* of which the second is empty.                                           *)
TwoNames  == (<<2>> :> <<<<3>>, <<>>>>) @@ (<<1, 5>> :> <<<<4, 4>>>>)
(* A long value that deflate shrinks well.                                 *)
LongValue == (<<1>> :> <<[i \in 1..40 |-> 7]>>)

SynStream(id, h) == [type |-> "SYN_STREAM", stream_id |-> id, associated_stream_id |-> 32768 + 2,
                     priority |-> 13, headers |-> h, flags |-> 1]

SampleFrames ==
  { SynStream(32768 + 257, TwoNames),
    [type |-> "SYN_REPLY", stream_id |-> 3, headers |-> NoHeaders, flags |-> 1],
    [type |-> "HEADERS", stream_id |-> 4660, headers |-> OneHeader, flags |-> 0],
    [type |-> "RST_STREAM", stream_id |-> 3, status |-> 11],
    [type |-> "SETTINGS", flags |-> 2, settings |-> <<[flags |-> 15, id |-> 4096 + 7, value |-> 65535],
                                                      [flags |-> 0, id |-> 4, value |-> 100]>>],
    [type |-> "PING", id |-> 65535],
    [type |-> "GOAWAY", last_good_stream_id |-> 32769, status |-> 7],
    [type |-> "WINDOW_UPDATE", stream_id |-> 1, delta |-> 40000],
    [type |-> "DATA", stream_id |-> 32768 + 3, flags |-> 1, data |-> <<>>],
    [type |-> "DATA", stream_id |-> 3, flags |-> 0, data |-> <<8, 3, 0, 6, 0, 0, 0, 4, 1>>] }

(* A wrong version, an unknown type, a short frame, an unknown status, a   *)
(* count of settings that reaches too far, a block of another stream.      *)
SampleMalformed ==
  { <<8, 2, 0, 6, 0, 0, 0, 4, 0, 0, 0, 1>>, <<8, 3, 0, 5, 0, 0, 0, 0>>,
    <<8, 3, 0, 3, 0, 0, 0, 4, 0, 0, 0, 1>>, <<8, 3, 0, 3, 0, 0, 0, 8, 0, 0, 0, 1, 0, 0, 0, 12>>,
    <<8, 3, 0, 4, 0, 0, 0, 12, 0, 0, 0, 2, 0, 0, 0, 4, 0, 0, 0, 1>>,
    <<8, 3, 0, 8, 0, 0, 0, 6, 0, 0, 0, 1, 16 + 9 * 256, 17 + 9 * 256>> }

LongHeaders == {SynStream(1, LongValue)} \cup {SynStream(3, OneHeader)}
=============================================================================
