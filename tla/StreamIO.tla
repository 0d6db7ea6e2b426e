------------------------------ MODULE StreamIO ------------------------------
(***************************************************************************)
(* AsyncRead and AsyncWrite of a stream, src/src/stream.rs, mixed with     *)
(* read_data, write_data and send_reply.  The poll functions take the      *)
(* stream by exclusive reference, which its owner has only when the        *)
(* streams map and the worker queues have let go of it: after a reset, or  *)
(* after the end of the connection.  Nothing is pushed any more then,      *)
(* remote_closed is set, and data_tx, a field of the stream itself, still  *)
(* is alive.                                                               *)
(*                                                                         *)
(* The frame channel is the connection's: other streams, pings and the     *)
(* read task send on it too.  It is tokio's bounded channel, a semaphore   *)
(* with one permit per place: send(..).await queues for a permit, a permit *)
(* that comes back goes to the first in the queue, and try_send takes one  *)
(* only if it is free.                                                     *)
(*                                                                         *)
(* A byte is a number of its own, so that its place in the stream shows.   *)
(***************************************************************************)
EXTENDS Integers, Sequences, SequencesExt

CONSTANTS
  Arrivals,   (* what may be in the receive buffer: sequences of chunks     *)
  WriteCap,   (* capacity of the frame channel: 64 in the code              *)
  MaxBuf,     (* bound of the model: room in a caller's buffer              *)
  MaxWrites,  (* bound of the model: frames the owner puts in               *)
  MaxWaiters  (* bound of the model: others that wait for a permit          *)

ASSUME StreamIOAssumption ==
  /\ WriteCap \in Nat \ {0} /\ MaxBuf \in Nat \ {0} /\ MaxWrites \in Nat
  /\ MaxWaiters \in Nat
  /\ \A a \in Arrivals : a \in Seq(Seq(Nat))

VARIABLES
  arrived,    (* the chunks in the buffer when the owner took over          *)
  queue,      (* data_rx: those still there                                 *)
  unread,     (* the remainder of a chunk; <<>> for None                    *)
  (* The owner's writing side.                                             *)
  replied,    (* replied                                                    *)
  localFin,   (* local_fin_sent                                             *)
  call,       (* its call: "none", "shutdown" while it polls poll_shutdown, *)
              (* or send(..).await, "queued" or "granted" a permit          *)
  frame,      (* the frame of that send                                     *)
  (* The frame channel and the write task.                                 *)
  used,       (* permits taken: frames in the channel, and one granted      *)
  ahead,      (* others in the queue for permits: those before the owner,   *)
  behind,     (* and those after it while it is queued                      *)
  writer,     (* "running" or "stopped"                                     *)
  (* History.                                                              *)
  out,        (* every frame of this stream put into the channel            *)
  taken,      (* bytes returned by poll_read and read_data                  *)
  overtook    (* read_data was called while unread had bytes                *)

readVars  == <<arrived, queue, unread, taken, overtook>>
ownVars   == <<replied, localFin, call, frame, out>>
chanVars  == <<used, ahead, behind>>
vars == <<arrived, queue, unread, replied, localFin, call, frame, used, ahead, behind, writer,
          out, taken, overtook>>

OutFrame == [type : {"SynReply", "Data"}, fin : BOOLEAN]

(* The owner has what the worker pushed, and the client may have replied.  *)
Init ==
  /\ arrived \in Arrivals /\ queue = arrived /\ unread = <<>>
  /\ replied \in BOOLEAN /\ localFin = FALSE
  /\ call = "none" /\ frame = [type |-> "Data", fin |-> FALSE]
  /\ used = 0 /\ ahead = 0 /\ behind = 0 /\ writer \in {"running", "stopped"}
  /\ out = <<>> /\ taken = <<>> /\ overtook = FALSE

----------------------------------------------------------------------------
(* Reading.  A poll_read that reports the end of the stream is no step: it *)
(* changes nothing.  It may do so with chunks queued, for it takes Pending *)
(* of poll_recv, once remote_closed is set, as empty, and poll_recv is     *)
(* Pending also when the task has spent its cooperative budget, or         *)
(* spuriously.  Whoever reads on after such an end goes on here.           *)

(* What does not fit is dropped.                                           *)
FillAndDrop(chunk, room) ==
  /\ taken' = taken \o SubSeq(chunk, 1, Min({Len(chunk), room}))
  /\ unread' = <<>>

(* The bytes of chunk that fit into the caller's buffer, and the others.   *)
Fill(chunk, room) ==
  LET n == Min({Len(chunk), room})
  IN  /\ taken' = taken \o SubSeq(chunk, 1, n)
      /\ unread' = SubSeq(chunk, n + 1, Len(chunk))

ReadOnly == UNCHANGED <<arrived, ownVars, chanVars, writer>>

(* poll_read with a remainder: the channel is not looked at.               *)
PollReadUnread(room) ==
  /\ unread # <<>>
  /\ Fill(unread, room)
  /\ UNCHANGED <<queue, overtook>> /\ ReadOnly

(* poll_read without one, from the channel.                                *)
PollReadChunk(room) ==
  /\ unread = <<>> /\ queue # <<>>
  /\ Fill(Head(queue), room)
  /\ queue' = Tail(queue)
  /\ UNCHANGED overtook /\ ReadOnly

(* read_data, which does not know of unread; try_recv has no budget.       *)
ReadData ==
  /\ IF queue = <<>>
     THEN UNCHANGED <<queue, taken>>
     ELSE taken' = taken \o Head(queue) /\ queue' = Tail(queue)
  /\ overtook' = (overtook \/ unread # <<>>)
  /\ UNCHANGED unread /\ ReadOnly

----------------------------------------------------------------------------
(* The frame channel.                                                      *)

Open == writer = "running"
Full == used >= WriteCap

(* A permit comes back: the first in the queue has it.  Another sender     *)
(* uses it at once.                                                        *)
Release ==
  \/ /\ ahead > 0 /\ ahead' = ahead - 1
     /\ UNCHANGED <<used, behind, call>>
  \/ /\ ahead = 0 /\ call = "queued"
     /\ call' = "granted" /\ ahead' = behind /\ behind' = 0
     /\ UNCHANGED used
  \/ /\ ahead = 0 /\ call # "queued"
     /\ used' = used - 1
     /\ UNCHANGED <<ahead, behind, call>>

(* The write task takes a frame out.                                       *)
WriteFrame ==
  /\ Open /\ used > (IF call = "granted" THEN 1 ELSE 0)
  /\ Release
  /\ UNCHANGED <<readVars, replied, localFin, frame, writer, out>>

WriterStops ==
  /\ Open
  /\ writer' = "stopped"
  /\ UNCHANGED <<readVars, ownVars, chanVars>>

(* send(..).await of another stream, a ping or the read task.              *)
OtherSend ==
  /\ Open
  /\ \/ ~Full /\ used' = used + 1 /\ UNCHANGED <<ahead, behind>>
     \/ /\ Full /\ ahead + behind < MaxWaiters
        /\ IF call = "queued" THEN behind' = behind + 1 /\ UNCHANGED ahead
                              ELSE ahead' = ahead + 1 /\ UNCHANGED behind
        /\ UNCHANGED used
  /\ UNCHANGED <<readVars, ownVars, writer>>

TrySend(f) ==
  /\ Open /\ ~Full
  /\ used' = used + 1 /\ out' = Append(out, f)
  /\ UNCHANGED <<ahead, behind>>

----------------------------------------------------------------------------
(* Writing.                                                                *)

Write == call = "none" /\ Len(out) < MaxWrites

(* poll_write that finds room; otherwise it changes nothing, and says      *)
(* Pending or BrokenPipe.  It looks at neither replied nor local_fin_sent. *)
PollWrite ==
  /\ Write
  /\ TrySend([type |-> "Data", fin |-> FALSE])
  /\ UNCHANGED <<readVars, replied, localFin, call, frame, writer>>

(* f is in the channel; send_reply goes on and sets its flags, write_data  *)
(* with FIN has set local_fin_sent before.                                 *)
Flags(f) ==
  /\ replied'  = (replied \/ f.type = "SynReply")
  /\ localFin' = (localFin \/ f.fin)

(* send(f).await: at once, after a wait, or not at all.                    *)
SendNow(f) ==
  /\ TrySend(f) /\ Flags(f)
  /\ UNCHANGED <<call, frame>>
SendWaits(f) ==
  /\ Open /\ Full
  /\ call' = "queued" /\ frame' = f
  /\ UNCHANGED <<chanVars, out>>
SendFails == ~Open /\ UNCHANGED <<call, frame, chanVars, out>>

(* write_data.  Without a reply it waits, and nobody else can give one.    *)
(* local_fin_sent is set before the send, whatever becomes of that.        *)
WriteData(fin) ==
  /\ Write /\ replied /\ ~localFin
  /\ LET f == [type |-> "Data", fin |-> fin]
     IN  \/ SendNow(f)
         \/ (SendWaits(f) \/ SendFails) /\ localFin' = fin /\ UNCHANGED replied
  /\ UNCHANGED <<readVars, writer>>

(* send_reply, which looks at no flag and sets them after the send.        *)
SendReply(fin) ==
  /\ Write
  /\ LET f == [type |-> "SynReply", fin |-> fin]
     IN  \/ SendNow(f)
         \/ (SendWaits(f) \/ SendFails) /\ UNCHANGED <<replied, localFin>>
  /\ UNCHANGED <<readVars, writer>>

(* The owner uses its permit.                                              *)
SendGranted ==
  /\ call = "granted" /\ call' = "none"
  /\ out' = Append(out, frame) /\ Flags(frame)
  /\ UNCHANGED <<readVars, frame, chanVars, writer>>

(* The owner drops the future of its send, or the channel is closed and    *)
(* the send fails: its place in the queue is gone, its permit goes on.     *)
SendGivenUp ==
  /\ call' = "none"
  /\ \/ /\ call = "queued" /\ ahead' = ahead + behind /\ behind' = 0
        /\ UNCHANGED used
     \/ /\ call = "granted" /\ UNCHANGED behind
        /\ IF ahead = 0 THEN used' = used - 1 /\ UNCHANGED ahead
                        ELSE ahead' = ahead - 1 /\ UNCHANGED used
  /\ UNCHANGED <<readVars, replied, localFin, frame, writer, out>>

ShutdownBegin ==
  /\ call = "none" /\ call' = "shutdown"
  /\ UNCHANGED <<readVars, replied, localFin, frame, chanVars, writer, out>>

ShutdownFrame == [type |-> "Data", fin |-> TRUE]

(* The FIN is not recorded.                                                *)
ShutdownPollForgets ==
  /\ call = "shutdown" /\ call' = "none"
  /\ \/ (localFin \/ ~Open) /\ UNCHANGED <<localFin, chanVars, out>>
     \/ ~localFin /\ TrySend(ShutdownFrame) /\ UNCHANGED localFin
  /\ UNCHANGED <<readVars, replied, frame, writer>>

(* A closed channel is tried again like a full one.                        *)
ShutdownPollRetriesClosed ==
  /\ call = "shutdown" /\ call' = "none"
  /\ \/ localFin /\ UNCHANGED <<localFin, chanVars, out>>
     \/ ~localFin /\ TrySend(ShutdownFrame) /\ localFin' = TRUE
  /\ UNCHANGED <<readVars, replied, frame, writer>>

(* One poll of poll_shutdown that is ready: the FIN was sent before, or    *)
(* the channel is closed, or the FIN goes in.  With the channel full it is *)
(* Pending and polled again; it is in no queue.                            *)
ShutdownPoll ==
  /\ call = "shutdown" /\ call' = "none"
  /\ \/ (localFin \/ ~Open) /\ UNCHANGED <<localFin, chanVars, out>>
     \/ ~localFin /\ TrySend(ShutdownFrame) /\ localFin' = TRUE
  /\ UNCHANGED <<readVars, replied, frame, writer>>

Next ==
  \/ \E room \in 0..MaxBuf : PollReadUnread(room) \/ PollReadChunk(room)
  \/ ReadData
  \/ PollWrite
  \/ \E fin \in BOOLEAN : WriteData(fin) \/ SendReply(fin)
  \/ SendGranted \/ SendGivenUp
  \/ ShutdownBegin
  \/ ShutdownPoll
  \/ WriteFrame \/ WriterStops
  \/ OtherSend

Spec == Init /\ [][Next]_vars

(* A pending poll_shutdown has woken its own task; the write task writes   *)
(* or fails.  Nobody gives a polled try_send a turn.                       *)
Fairness == WF_vars(ShutdownPoll) /\ WF_vars(WriteFrame)

FairSpec == Spec /\ Fairness

----------------------------------------------------------------------------
(* Properties.                                                             *)

Rest == unread \o FlattenSeq(queue)

(* However reads of every size mix, no byte is lost or returned twice;     *)
(* and as long as read_data did not overtake a remainder, they come in     *)
(* order.  Nothing is said of when the end is reported: see above.         *)
ReadsAreTheStream ==
  LET all == FlattenSeq(arrived)
  IN  /\ Len(taken) + Len(Rest) = Len(all) /\ Range(taken \o Rest) = Range(all)
      /\ ~overtook => taken \o Rest = all

(* After a FIN, of whichever call, no second one goes out, save that of a  *)
(* send_reply, which looks at no flag; and a FIN that is out is recorded.  *)
OneFin ==
  /\ \A i, j \in DOMAIN out :
       i < j /\ out[i].fin /\ out[j].fin => out[j].type = "SynReply"
  /\ (\E i \in DOMAIN out : out[i].fin) => localFin

(* poll_shutdown gets its FIN in or fails, once nobody else sends on the   *)
(* connection any more.  While others do, it may be polled for ever.       *)
ShutdownReturns ==
  <>[][~OtherSend]_vars => (call = "shutdown" ~> call # "shutdown")
=============================================================================
