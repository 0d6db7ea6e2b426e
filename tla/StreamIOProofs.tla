---------------------------- MODULE StreamIOProofs ----------------------------
(***************************************************************************)
(* Theorems about the frames a stream's owner sends through AsyncWrite,    *)
(* write_data and send_reply, and the bytes it receives through AsyncRead and read_data,  *)
(* for every capacity of the frame channel, any number of calls and        *)
(* buffers of any size.                                                    *)
(***************************************************************************)
EXTENDS StreamIO, SequenceLemmas

(* OneFin is inductive once it is known of the frame that waits for a      *)
(* permit: if it is a Data frame with FIN, that is recorded and no FIN is  *)
(* out yet.                                                                *)
NoFinOut == \A i \in DOMAIN out : ~out[i].fin

Waiting == call \in {"queued", "granted"}

FinInv ==
  /\ out \in Seq(OutFrame) /\ frame \in OutFrame
  /\ localFin \in BOOLEAN
  /\ OneFin
  /\ Waiting /\ frame.type = "Data" /\ frame.fin => localFin /\ NoFinOut

LEMMA AppendFrame ==
  ASSUME NEW q \in Seq(OutFrame), NEW f \in OutFrame
  PROVE  /\ Append(q, f) \in Seq(OutFrame)
         /\ \A i \in DOMAIN Append(q, f) :
              \/ i \in DOMAIN q /\ i < Len(q) + 1 /\ Append(q, f)[i] = q[i]
              \/ i = Len(q) + 1 /\ Append(q, f)[i] = f
  OBVIOUS

LEMMA FinInit == Init => FinInv
<1>1. <<>> \in Seq(OutFrame) /\ DOMAIN <<>> = {}
  OBVIOUS
<1>2. ASSUME Init PROVE FinInv
  <2>1. out = <<>> /\ localFin = FALSE /\ ~Waiting /\ frame \in OutFrame
    BY <1>2 DEF Init, OutFrame, Waiting
  <2>2. OneFin
    BY <1>1, <2>1 DEF OneFin
  <2>. QED
    BY <1>1, <2>1, <2>2 DEF FinInv
<1>. QED
  BY <1>2

(* A frame goes in; a Data frame with FIN only when no FIN is out.         *)
LEMMA SendKeepsOneFin ==
  ASSUME FinInv, NEW f \in OutFrame, out' = Append(out, f), frame' = frame, call' = "none",
         localFin' \in BOOLEAN, localFin \/ f.fin => localFin',
         f.type = "Data" /\ f.fin => NoFinOut
  PROVE  FinInv'
<1>1. out \in Seq(OutFrame) /\ frame \in OutFrame /\ localFin \in BOOLEAN /\ OneFin
  BY DEF FinInv
<1>2. /\ out' \in Seq(OutFrame)
      /\ \A i \in DOMAIN out' :
           \/ i \in DOMAIN out /\ i < Len(out) + 1 /\ out'[i] = out[i]
           \/ i = Len(out) + 1 /\ out'[i] = f
  BY <1>1, AppendFrame
<1>3. ASSUME NEW i \in DOMAIN out', NEW j \in DOMAIN out', i < j, out'[i].fin, out'[j].fin
      PROVE  out'[j].type = "SynReply"
  <2>1. DOMAIN out' \subseteq Nat /\ Len(out) \in Nat
    BY <1>1, <1>2
  <2>2. i \in DOMAIN out /\ out'[i] = out[i]
    BY <1>2, <1>3, <2>1
  <2>3. CASE j \in DOMAIN out /\ out'[j] = out[j]
    BY <1>1, <1>3, <2>2, <2>3 DEF OneFin
  <2>4. CASE out'[j] = f
    <3>1. ~NoFinOut
      BY <1>3, <2>2 DEF NoFinOut
    <3>. QED
      BY <1>3, <2>4, <3>1 DEF OutFrame
  <2>. QED
    BY <1>2, <2>3, <2>4
<1>4. ASSUME NEW i \in DOMAIN out', out'[i].fin PROVE localFin'
  BY <1>1, <1>2, <1>4 DEF OneFin
<1>. QED
  BY <1>1, <1>2, <1>3, <1>4 DEF FinInv, OneFin, Waiting

(* Nothing is sent, and the owner does not begin to wait.                  *)
LEMMA NothingSent ==
  ASSUME FinInv, out' = out, frame' = frame, localFin' \in BOOLEAN, localFin => localFin',
         Waiting' => Waiting
  PROVE  FinInv'
BY DEF FinInv, OneFin, NoFinOut

(* The owner begins to wait with f.                                        *)
LEMMA WaitKeepsOneFin ==
  ASSUME FinInv, out' = out, frame' \in OutFrame, localFin' \in BOOLEAN, localFin => localFin',
         frame'.type = "Data" /\ frame'.fin => localFin' /\ NoFinOut
  PROVE  FinInv'
BY DEF FinInv, OneFin, NoFinOut

LEMMA NoFinRecorded == FinInv /\ ~localFin => NoFinOut
BY DEF FinInv, OneFin, NoFinOut

(* What send(f).await does at first.                                       *)
LEMMA SendBegins ==
  ASSUME FinInv, call = "none", NEW f \in OutFrame, f.type = "Data" /\ f.fin => ~localFin,
         \/ SendNow(f)
         \/ /\ SendWaits(f) \/ SendFails
            /\ localFin' = (localFin \/ (f.type = "Data" /\ f.fin))
  PROVE  FinInv'
<1>1. localFin \in BOOLEAN /\ f.fin \in BOOLEAN
  BY DEF FinInv, OutFrame
<1>2. f.type = "Data" /\ f.fin => NoFinOut
  BY NoFinRecorded
<1>3. CASE SendNow(f)
  <2>1. out' = Append(out, f) /\ frame' = frame /\ call' = "none" /\ localFin' = (localFin \/ f.fin)
    BY <1>3 DEF SendNow, TrySend, Flags
  <2>2. localFin' \in BOOLEAN /\ (localFin \/ f.fin => localFin')
    BY <1>1, <2>1
  <2>. QED
    BY <1>2, <2>1, <2>2, SendKeepsOneFin
<1>4. ASSUME SendWaits(f), localFin' = (localFin \/ (f.type = "Data" /\ f.fin)) PROVE FinInv'
  <2>1. out' = out /\ frame' = f
    BY <1>4 DEF SendWaits
  <2>2. localFin' \in BOOLEAN /\ (localFin => localFin') /\ (f.type = "Data" /\ f.fin => localFin')
    BY <1>1, <1>4
  <2>. QED
    BY <1>2, <2>1, <2>2, WaitKeepsOneFin
<1>5. ASSUME SendFails, localFin' = (localFin \/ (f.type = "Data" /\ f.fin)) PROVE FinInv'
  <2>1. out' = out /\ frame' = frame /\ call' = call
    BY <1>5 DEF SendFails
  <2>2. localFin' \in BOOLEAN /\ (localFin => localFin')
    BY <1>1, <1>5
  <2>. QED
    BY <2>1, <2>2, NothingSent DEF Waiting
<1>. QED
  BY <1>3, <1>4, <1>5

LEMMA FinStep == FinInv /\ [Next]_vars => FinInv'
<1>. SUFFICES ASSUME FinInv, [Next]_vars PROVE FinInv'
  OBVIOUS
<1>1. localFin \in BOOLEAN /\ frame \in OutFrame
  BY DEF FinInv
<1>2. CASE UNCHANGED ownVars
  BY <1>1, <1>2, NothingSent DEF ownVars, Waiting
<1>3. ASSUME NEW room \in 0..MaxBuf, PollReadUnread(room) \/ PollReadChunk(room)
      PROVE  UNCHANGED ownVars
  BY <1>3 DEF PollReadUnread, PollReadChunk, ReadOnly
<1>4. ReadData \/ WriterStops \/ OtherSend => UNCHANGED ownVars
  BY DEF ReadData, ReadOnly, WriterStops, OtherSend
<1>5. UNCHANGED vars => UNCHANGED ownVars
  BY DEF vars, ownVars
<1>6. CASE PollWrite
  <2>. DEFINE f == [type |-> "Data", fin |-> FALSE]
  <2>1. f \in OutFrame /\ ~f.fin
    BY DEF OutFrame
  <2>2. out' = Append(out, f) /\ frame' = frame /\ call' = "none" /\ localFin' = localFin
    BY <1>6 DEF PollWrite, Write, TrySend
  <2>. HIDE DEF f
  <2>. QED
    BY <1>1, <2>1, <2>2, SendKeepsOneFin
<1>7. ASSUME NEW fin \in BOOLEAN, WriteData(fin) PROVE FinInv'
  <2>. DEFINE f == [type |-> "Data", fin |-> fin]
  <2>1. f \in OutFrame /\ f.type = "Data" /\ f.fin = fin
    BY DEF OutFrame
  <2>2. call = "none" /\ ~localFin
    BY <1>7 DEF WriteData, Write
  <2>3. \/ SendNow(f)
        \/ (SendWaits(f) \/ SendFails) /\ localFin' = (localFin \/ (f.type = "Data" /\ f.fin))
    <3>1. SendNow(f) \/ ((SendWaits(f) \/ SendFails) /\ localFin' = fin)
      BY <1>7 DEF WriteData
    <3>2. fin = (localFin \/ (f.type = "Data" /\ f.fin))
      BY <2>1, <2>2
    <3>. HIDE DEF f
    <3>. QED
      BY <3>1, <3>2
  <2>. HIDE DEF f
  <2>. QED
    BY <2>1, <2>2, <2>3, SendBegins
<1>8. ASSUME NEW fin \in BOOLEAN, SendReply(fin) PROVE FinInv'
  <2>. DEFINE f == [type |-> "SynReply", fin |-> fin]
  <2>1. f \in OutFrame /\ f.type = "SynReply"
    BY DEF OutFrame
  <2>2. call = "none"
    BY <1>8 DEF SendReply, Write
  <2>3. \/ SendNow(f)
        \/ (SendWaits(f) \/ SendFails) /\ localFin' = (localFin \/ (f.type = "Data" /\ f.fin))
    <3>1. SendNow(f) \/ ((SendWaits(f) \/ SendFails) /\ localFin' = localFin)
      BY <1>8 DEF SendReply
    <3>2. localFin = (localFin \/ (f.type = "Data" /\ f.fin))
      BY <1>1, <2>1
    <3>. HIDE DEF f
    <3>. QED
      BY <3>1, <3>2
  <2>. HIDE DEF f
  <2>. QED
    BY <2>1, <2>2, <2>3, SendBegins
<1>9. CASE SendGranted
  <2>1. /\ call = "granted" /\ call' = "none" /\ out' = Append(out, frame) /\ frame' = frame
        /\ localFin' = (localFin \/ frame.fin)
    BY <1>9 DEF SendGranted, Flags
  <2>2. frame.fin \in BOOLEAN
    BY <1>1 DEF OutFrame
  <2>3. frame.type = "Data" /\ frame.fin => NoFinOut
    BY <2>1 DEF FinInv, Waiting
  <2>4. localFin' \in BOOLEAN /\ (localFin \/ frame.fin => localFin')
    BY <1>1, <2>1, <2>2
  <2>. QED
    BY <1>1, <2>1, <2>3, <2>4, SendKeepsOneFin
<1>10. CASE SendGivenUp \/ ShutdownBegin
  <2>1. UNCHANGED <<localFin, frame, out>> /\ call' \in {"none", "shutdown"}
    BY <1>10 DEF SendGivenUp, ShutdownBegin
  <2>. QED
    BY <1>1, <2>1, NothingSent DEF Waiting
<1>11. CASE ShutdownPoll
  <2>1. call' = "none" /\ frame' = frame
    BY <1>11 DEF ShutdownPoll
  <2>2. CASE UNCHANGED <<localFin, out>>
    BY <1>1, <2>1, <2>2, NothingSent DEF Waiting
  <2>3. CASE ~localFin /\ TrySend(ShutdownFrame) /\ localFin' = TRUE
    <3>1. ShutdownFrame \in OutFrame
      BY DEF ShutdownFrame, OutFrame
    <3>2. out' = Append(out, ShutdownFrame)
      BY <2>3 DEF TrySend
    <3>. QED
      BY <2>1, <2>3, <3>1, <3>2, NoFinRecorded, SendKeepsOneFin
  <2>. QED
    BY <1>11, <2>2, <2>3 DEF ShutdownPoll
<1>12. CASE WriteFrame
  <2>1. UNCHANGED <<localFin, frame, out>> /\ (call' = call \/ call = "queued")
    BY <1>12 DEF WriteFrame, Release
  <2>. QED
    BY <1>1, <2>1, NothingSent DEF Waiting
<1>. QED
  BY <1>2, <1>3, <1>4, <1>5, <1>6, <1>7, <1>8, <1>9, <1>10, <1>11, <1>12 DEF Next

(* However poll_shutdown, write_data and send_reply follow each other, and *)
(* whether a send is queued, granted a permit or given up: after a FIN     *)
(* only send_reply sends another, and a FIN that is out is recorded.       *)
THEOREM FinSentOnce == Spec => []OneFin
<1>1. FinInv => OneFin
  BY DEF FinInv
<1>. QED
  BY FinInit, FinStep, <1>1, PTL DEF Spec

----------------------------------------------------------------------------
(* The bytes read.                                                         *)

All == taken \o Rest

ReadTypeInv ==
  /\ arrived \in Seq(Seq(Nat)) /\ queue \in Seq(Seq(Nat))
  /\ unread \in Seq(Nat) /\ taken \in Seq(Nat)
  /\ overtook \in BOOLEAN

ReadInv ==
  /\ ReadTypeInv
  /\ Len(All) = Len(FlattenSeq(arrived)) /\ Range(All) = Range(FlattenSeq(arrived))
  /\ ~overtook => All = FlattenSeq(arrived)

LEMMA ReadTypes ==
  ASSUME ReadTypeInv
  PROVE  /\ FlattenSeq(queue) \in Seq(Nat) /\ Rest \in Seq(Nat) /\ All \in Seq(Nat)
         /\ FlattenSeq(arrived) \in Seq(Nat)
<1>1. /\ arrived \in Seq(Seq(Nat)) /\ queue \in Seq(Seq(Nat))
      /\ unread \in Seq(Nat) /\ taken \in Seq(Nat)
  BY DEF ReadTypeInv
<1>2. FlattenSeq(queue) \in Seq(Nat) /\ FlattenSeq(arrived) \in Seq(Nat)
  BY <1>1, FlattenFacts
<1>3. Rest \in Seq(Nat)
  BY <1>1, <1>2, ConcatProperties DEF Rest
<1>4. All \in Seq(Nat)
  BY <1>1, <1>3, ConcatProperties DEF All
<1>. QED
  BY <1>2, <1>3, <1>4

LEMMA ReadInvImplies == ReadInv => ReadsAreTheStream
<1>. SUFFICES ASSUME ReadInv PROVE ReadsAreTheStream
  OBVIOUS
<1>1. taken \in Seq(Nat) /\ Rest \in Seq(Nat)
  BY ReadTypes DEF ReadInv, ReadTypeInv
<1>2. Len(All) = Len(taken) + Len(Rest)
  BY <1>1, ConcatProperties DEF All
<1>. QED
  BY <1>2 DEF ReadInv, ReadsAreTheStream, All

LEMMA ReadInit == Init => ReadInv
<1>. SUFFICES ASSUME Init PROVE ReadInv
  OBVIOUS
<1>1. /\ arrived \in Seq(Seq(Nat)) /\ queue = arrived /\ unread = <<>> /\ taken = <<>>
      /\ overtook = FALSE
  BY StreamIOAssumption DEF Init
<1>2. <<>> \in Seq(Nat)
  OBVIOUS
<1>3. ReadTypeInv
  BY <1>1, <1>2 DEF ReadTypeInv
<1>4. All = FlattenSeq(arrived)
  <2>. DEFINE f == FlattenSeq(arrived)
  <2>1. f \in Seq(Nat)
    BY <1>1, FlattenFacts
  <2>2. <<>> \o f = f /\ <<>> \o (<<>> \o f) = f
    BY <2>1, ConcatEmptySeq
  <2>. QED
    BY <1>1, <2>2 DEF All, Rest
<1>. QED
  BY <1>1, <1>3, <1>4 DEF ReadInv

(* A step that only moves bytes from what is left to what was taken.       *)
LEMMA BytesMove ==
  ASSUME ReadInv, ReadTypeInv', All' = All, arrived' = arrived, overtook' = overtook
  PROVE  ReadInv'
BY DEF ReadInv

LEMMA ByteConcatAssociative == \A u, v, w \in Seq(Nat) : (u \o v) \o w = u \o (v \o w)
  BY ConcatAssociative, SMTT(30)

(* The bytes that fit are taken, the others are left.                      *)
LEMMA FillMoves ==
  ASSUME NEW chunk \in Seq(Nat), NEW room \in Nat, Fill(chunk, room), taken \in Seq(Nat)
  PROVE  /\ taken' \in Seq(Nat) /\ unread' \in Seq(Nat)
         /\ taken' \o unread' = taken \o chunk
         /\ chunk = <<>> => taken' = taken /\ unread' = <<>>
<1>. DEFINE n == Min({Len(chunk), room})
            a == SubSeq(chunk, 1, n)
            b == SubSeq(chunk, n + 1, Len(chunk))
<1>1. Len(chunk) \in Nat /\ n \in 0..Len(chunk)
  <2>1. Len(chunk) \in Nat
    OBVIOUS
  <2>2. \A i, j \in Nat : Min({i, j}) \in 0..i
    <3>. SUFFICES ASSUME NEW i \in Nat, NEW j \in Nat PROVE Min({i, j}) \in 0..i
      OBVIOUS
    <3>1. {i, j} \in SUBSET Nat /\ {i, j} # {}
      OBVIOUS
    <3>2. Min({i, j}) \in {i, j} /\ \A y \in {i, j} : Min({i, j}) <= y
      BY <3>1, MinFacts
    <3>. QED
      BY <3>2
  <2>. QED
    BY <2>1, <2>2
<1>2. taken' = taken \o a /\ unread' = b
  BY DEF Fill
<1>3. a \o b = chunk
  <2>1. 1 \in 1..(Len(chunk) + 1) /\ n \in (1 - 1)..Len(chunk) /\ Len(chunk) \in n..Len(chunk)
    BY <1>1
  <2>2. SubSeq(chunk, 1, n) \o SubSeq(chunk, n + 1, Len(chunk)) = SubSeq(chunk, 1, Len(chunk))
    BY <2>1, ConcatAdjacentSubSeq
  <2>3. SubSeq(chunk, 1, Len(chunk)) = chunk
    BY SubSeqFull
  <2>. QED
    BY <2>2, <2>3
<1>4. a \in Seq(Nat) /\ b \in Seq(Nat)
  <2>1. \A j, k \in Int : (\A i \in j..k : chunk[i] \in Nat) => SubSeq(chunk, j, k) \in Seq(Nat)
    BY SubSeqProperties
  <2>2. \A i \in 1..Len(chunk) : chunk[i] \in Nat
    OBVIOUS
  <2>3. (\A i \in 1..n : chunk[i] \in Nat) /\ (\A i \in (n + 1)..Len(chunk) : chunk[i] \in Nat)
    <3>. HIDE DEF n
    <3>. QED
      BY <1>1, <2>2
  <2>4. n \in Int /\ n + 1 \in Int /\ Len(chunk) \in Int /\ 1 \in Int
    BY <1>1
  <2>. QED
    BY <2>1, <2>3, <2>4
<1>. HIDE DEF n, a, b
<1>5. taken \o a \in Seq(Nat)
  BY <1>4, ConcatProperties
<1>6. (taken \o a) \o b = taken \o (a \o b)
  BY <1>4, ByteConcatAssociative
<1>7. chunk = <<>> => a = <<>> /\ b = <<>>
  BY <1>3, <1>4, ConcatEqualIffEmpty
<1>8. taken \o <<>> = taken
  BY ConcatEmptySeq
<1>. QED
  BY <1>2, <1>3, <1>4, <1>5, <1>6, <1>7, <1>8

(* Bytes that change places are as many and the same.                      *)
LEMMA Overtaking ==
  ASSUME NEW a \in Seq(Nat), NEW b \in Seq(Nat), NEW c \in Seq(Nat), NEW d \in Seq(Nat)
  PROVE  /\ Len((a \o c) \o (b \o d)) = Len(a \o (b \o (c \o d)))
         /\ Range((a \o c) \o (b \o d)) = Range(a \o (b \o (c \o d)))
<1>1. \A u, v \in Seq(Nat) : /\ u \o v \in Seq(Nat) /\ Len(u \o v) = Len(u) + Len(v)
                              /\ Range(u \o v) = Range(u) \cup Range(v)
                              /\ Len(u) \in Nat
  BY ConcatProperties, RangeConcatenation
<1>2. /\ a \o c \in Seq(Nat) /\ b \o d \in Seq(Nat) /\ c \o d \in Seq(Nat)
      /\ b \o (c \o d) \in Seq(Nat)
  BY <1>1
<1>3. /\ Len((a \o c) \o (b \o d)) = (Len(a) + Len(c)) + (Len(b) + Len(d))
      /\ Len(a \o (b \o (c \o d))) = Len(a) + (Len(b) + (Len(c) + Len(d)))
  BY <1>1, <1>2
<1>4. /\ Range((a \o c) \o (b \o d)) = (Range(a) \cup Range(c)) \cup (Range(b) \cup Range(d))
      /\ Range(a \o (b \o (c \o d))) = Range(a) \cup (Range(b) \cup (Range(c) \cup Range(d)))
  <2>1. \A u, v \in Seq(Nat) : Range(u \o v) = Range(u) \cup Range(v)
    BY <1>1
  <2>2. Range((a \o c) \o (b \o d)) = Range(a \o c) \cup Range(b \o d)
    BY <1>2, <2>1
  <2>3. Range(a \o c) = Range(a) \cup Range(c) /\ Range(b \o d) = Range(b) \cup Range(d)
    BY <2>1
  <2>4. Range(a \o (b \o (c \o d))) = Range(a) \cup Range(b \o (c \o d))
    BY <1>2, <2>1
  <2>5. Range(b \o (c \o d)) = Range(b) \cup Range(c \o d) /\ Range(c \o d) = Range(c) \cup Range(d)
    BY <1>2, <2>1
  <2>. QED
    BY <2>2, <2>3, <2>4, <2>5, Zenon
<1>. QED
  BY <1>1, <1>3, <1>4

LEMMA ReadStep == ReadInv /\ [Next]_vars => ReadInv'
<1>. SUFFICES ASSUME ReadInv, [Next]_vars PROVE ReadInv'
  OBVIOUS
<1>. DEFINE rest == FlattenSeq(queue)
<1>1. /\ arrived \in Seq(Seq(Nat)) /\ queue \in Seq(Seq(Nat))
      /\ unread \in Seq(Nat) /\ taken \in Seq(Nat)
      /\ overtook \in BOOLEAN
  BY DEF ReadInv, ReadTypeInv
<1>2. rest \in Seq(Nat) /\ Rest = unread \o rest /\ All = taken \o (unread \o rest)
  BY ReadTypes DEF ReadInv, Rest, All
<1>3. /\ \A u, v, w \in Seq(Nat) : (u \o v) \o w = u \o (v \o w)
      /\ \A u \in Seq(Nat) : <<>> \o u = u /\ u \o <<>> = u
  BY ConcatAssociative, ConcatEmptySeq
<1>4. ASSUME NEW room \in 0..MaxBuf, PollReadUnread(room) PROVE ReadInv'
  <2>1. /\ Fill(unread, room) /\ room \in Nat
        /\ UNCHANGED <<arrived, queue, overtook>>
    BY <1>4, StreamIOAssumption DEF PollReadUnread, ReadOnly
  <2>2. /\ taken' \in Seq(Nat) /\ unread' \in Seq(Nat)
        /\ taken' \o unread' = taken \o unread
    BY <1>1, <2>1, FillMoves
  <2>3. ReadTypeInv'
    BY <1>1, <2>1, <2>2 DEF ReadTypeInv
  <2>4. All' = taken' \o (unread' \o rest)
    BY <2>1 DEF All, Rest
  <2>5. All' = All
    <3>1. taken' \o (unread' \o rest) = (taken' \o unread') \o rest
      BY <1>2, <1>3, <2>2
    <3>2. taken \o (unread \o rest) = (taken \o unread) \o rest
      BY <1>1, <1>2, <1>3, ZenonT(40)
    <3>. QED
      BY <1>2, <2>2, <2>4, <3>1, <3>2
  <2>. QED
    BY <2>1, <2>3, <2>5, BytesMove
<1>5. ASSUME NEW room \in 0..MaxBuf, PollReadChunk(room) PROVE ReadInv'
  <2>. DEFINE chunk == Head(queue)
              t     == FlattenSeq(Tail(queue))
  <2>1. /\ unread = <<>> /\ queue # <<>> /\ Fill(chunk, room) /\ room \in Nat
        /\ queue' = Tail(queue)
        /\ arrived' = arrived /\ overtook' = overtook
    BY <1>5, StreamIOAssumption DEF PollReadChunk, ReadOnly
  <2>2. chunk \in Seq(Nat) /\ Tail(queue) \in Seq(Seq(Nat)) /\ rest = chunk \o t /\ t \in Seq(Nat)
    BY <1>1, <2>1, FlattenHeadTail, FlattenFacts
  <2>3. /\ taken' \in Seq(Nat) /\ unread' \in Seq(Nat)
        /\ taken' \o unread' = taken \o chunk
    BY <1>1, <2>1, <2>2, FillMoves
  <2>4. ReadTypeInv'
    BY <1>1, <2>1, <2>2, <2>3 DEF ReadTypeInv
  <2>5. All' = taken' \o (unread' \o t)
    BY <2>1 DEF All, Rest
  <2>. HIDE DEF chunk, t, rest
  <2>6. All' = All
    <3>1. taken' \o (unread' \o t) = (taken' \o unread') \o t
      BY <1>3, <2>2, <2>3, ZenonT(40)
    <3>2. taken \o (chunk \o t) = (taken \o chunk) \o t
      BY <1>1, <1>3, <2>2, ZenonT(40)
    <3>3. unread \o rest = rest
      BY <1>2, <1>3, <2>1
    <3>. QED
      BY <1>2, <2>2, <2>3, <2>5, <3>1, <3>2, <3>3
  <2>. QED
    BY <2>1, <2>4, <2>6, BytesMove
<1>6. CASE ReadData
  <2>1. /\ arrived' = arrived /\ unread' = unread
        /\ overtook' = (overtook \/ unread # <<>>)
    BY <1>6 DEF ReadData, ReadOnly
  <2>2. CASE queue = <<>>
    <3>1. queue' = queue /\ taken' = taken
      BY <1>6, <2>2 DEF ReadData
    <3>2. All' = All /\ ReadTypeInv'
      BY <1>1, <2>1, <3>1 DEF All, Rest, ReadTypeInv
    <3>. QED
      BY <2>1, <3>2 DEF ReadInv
  <2>3. CASE queue # <<>>
    <3>. DEFINE chunk == Head(queue)
                t     == FlattenSeq(Tail(queue))
    <3>1. taken' = taken \o chunk /\ queue' = Tail(queue)
      BY <1>6, <2>3 DEF ReadData
    <3>2. chunk \in Seq(Nat) /\ Tail(queue) \in Seq(Seq(Nat)) /\ rest = chunk \o t /\ t \in Seq(Nat)
      BY <1>1, <2>3, FlattenHeadTail, FlattenFacts
    <3>3. taken' \in Seq(Nat)
      BY <1>1, <3>1, <3>2, ConcatProperties
    <3>4. ReadTypeInv'
      BY <1>1, <2>1, <3>1, <3>2, <3>3 DEF ReadTypeInv
    <3>5. All' = (taken \o chunk) \o (unread \o t)
      BY <2>1, <3>1 DEF All, Rest
    <3>6. All = taken \o (unread \o (chunk \o t))
      BY <1>2, <3>2
    <3>. HIDE DEF chunk, t, rest
    <3>7. CASE unread = <<>>
      <4>1. (taken \o chunk) \o t = taken \o (chunk \o t)
        BY <1>1, <1>3, <3>2, ZenonT(40)
      <4>2. unread \o t = t /\ unread \o (chunk \o t) = chunk \o t
        <5>1. chunk \o t \in Seq(Nat)
          BY <3>2, ConcatProperties
        <5>. QED
          BY <5>1, <1>3, <3>2, <3>7
      <4>3. All' = All /\ overtook' = overtook
        BY <1>1, <2>1, <3>5, <3>6, <3>7, <4>1, <4>2
      <4>. QED
        BY <2>1, <3>4, <4>3, BytesMove
    <3>8. CASE unread # <<>>
      <4>1. Len(All') = Len(All) /\ Range(All') = Range(All)
        BY <1>1, <3>2, <3>5, <3>6, Overtaking
      <4>2. overtook' = TRUE
        BY <2>1, <3>8
      <4>. QED
        BY <2>1, <3>4, <4>1, <4>2 DEF ReadInv
    <3>. QED
      BY <3>7, <3>8
  <2>. QED
    BY <2>2, <2>3
<1>7. CASE UNCHANGED readVars
  <2>1. UNCHANGED <<arrived, queue, unread, taken, overtook>>
    BY <1>7 DEF readVars
  <2>2. All' = All /\ ReadTypeInv'
    BY <1>1, <2>1 DEF All, Rest, ReadTypeInv
  <2>. QED
    BY <2>1, <2>2, BytesMove
<1>8. ASSUME NEW fin \in BOOLEAN, WriteData(fin) \/ SendReply(fin) PROVE UNCHANGED readVars
  BY <1>8 DEF WriteData, SendReply
<1>9. PollWrite \/ SendGranted \/ SendGivenUp \/ ShutdownBegin \/ ShutdownPoll => UNCHANGED readVars
  BY DEF PollWrite, SendGranted, SendGivenUp, ShutdownBegin, ShutdownPoll
<1>10. WriteFrame \/ WriterStops \/ OtherSend => UNCHANGED readVars
  BY DEF WriteFrame, WriterStops, OtherSend
<1>11. UNCHANGED vars => UNCHANGED readVars
  BY DEF vars, readVars
<1>. QED
  BY <1>4, <1>5, <1>6, <1>7, <1>8, <1>9, <1>10, <1>11 DEF Next

(* Whatever the sizes of the callers' buffers, however poll_read and       *)
(* read_data mix and wherever poll_read says the end: no byte is lost,     *)
(* none returned twice, and they come in order unless read_data overtook a *)
(* remainder.  That the end comes after the last byte is not so, and not   *)
(* stated.                                                                 *)
THEOREM ReadsComplete == Spec => []ReadsAreTheStream
  BY ReadInit, ReadStep, ReadInvImplies, PTL DEF Spec
=============================================================================
