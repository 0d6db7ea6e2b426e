----------------------------- MODULE StreamSend -----------------------------
(***************************************************************************)
(* The send half of one stream, src/src/stream.rs: application tasks that  *)
(* share the stream and call send_reply, write_data and reset on it, the   *)
(* worker that applies the client's SYN_REPLY to it, and the frame channel *)
(* with the write task behind it.                                          *)
(*                                                                         *)
(* Notify is modelled by what tokio promises of notify_waiters: it wakes   *)
(* every Notified future that was created before the call, polled or not.  *)
(* `wakeups` counts the calls and a future's ticket is the count at its    *)
(* creation.                                                               *)
(*                                                                         *)
(* One action is one atomic operation, or one send(..).await on the frame  *)
(* channel, which has this stream's frames only: frames of other streams   *)
(* take room in it as a slow write task does.                              *)
(***************************************************************************)
EXTENDS Integers, Sequences

CONSTANTS
  Tasks,      (* application tasks that share the stream                    *)
  WriteCap,   (* capacity of the frame channel: 64 in the code              *)
  MaxCalls    (* bound of the model: calls the application makes            *)

ASSUME SendAssumption ==
  /\ WriteCap \in Nat \ {0}
  /\ MaxCalls \in Nat

VARIABLES
  (* Fields of Stream.                                                     *)
  replied,    (* replied                                                    *)
  localFin,   (* local_fin_sent                                             *)
  wakeups,    (* calls of reply_notify.notify_waiters()                     *)
  (* The frame channel and the write task.                                 *)
  out,        (* every frame of this stream ever put in, in order           *)
  written,    (* how many of them the write task has taken out              *)
  writer,     (* "running" or "stopped"                                     *)
  (* The worker.                                                           *)
  peerPc,     (* where it is in applying the client's SYN_REPLY             *)
  (* The application.                                                      *)
  pc,         (* where each task is; "idle" outside every call              *)
  fin,        (* the fin argument of each task's call                       *)
  ticket,     (* the ticket of each task's Notified future                  *)
  ncalls,     (* calls begun so far                                         *)
  (* History.                                                              *)
  flagAt,     (* frames in out when localFin was set for the first time     *)
  peerReplied,(* the client's SYN_REPLY has set replied                     *)
  finReturned,(* a call with fin has returned Ok                            *)
  late,       (* each task's call began after that                          *)
  abandoned   (* a write_data that had set local_fin_sent was dropped, or   *)
              (* found the channel closed, before its frame went in         *)

outVars  == <<out, written, writer>>
finVars  == <<localFin, flagAt>>
flagVars == <<replied, finVars, wakeups>>
callVars == <<fin, ticket, ncalls, late>>
histVars == <<peerReplied, finReturned, abandoned>>
vars == <<replied, localFin, flagAt, wakeups, out, written, writer, peerPc, pc, fin, ticket,
          ncalls, peerReplied, finReturned, late, abandoned>>

OutFrame == [type : {"SynReply", "Data", "RstStream"}, fin : BOOLEAN, by : Tasks]

Init ==
  /\ replied = FALSE /\ localFin = FALSE /\ flagAt = 0 /\ wakeups = 0
  /\ out = <<>> /\ written = 0 /\ writer = "running"
  /\ peerPc = "none"
  /\ pc = [t \in Tasks |-> "idle"]
  /\ fin = [t \in Tasks |-> FALSE]
  /\ ticket = [t \in Tasks |-> 0]
  /\ ncalls = 0
  /\ peerReplied = FALSE /\ finReturned = FALSE /\ abandoned = FALSE
  /\ late = [t \in Tasks |-> FALSE]

----------------------------------------------------------------------------
(* The frame channel and the write task, as in Connection.                 *)

WriteFrame ==
  /\ writer = "running" /\ written < Len(out)
  /\ written' = written + 1
  /\ UNCHANGED <<flagVars, out, writer, peerPc, pc, callVars, histVars>>

(* write_frame fails, and every later send returns ConnectionClosed.       *)
WriteFail ==
  /\ writer = "running" /\ written < Len(out)
  /\ writer' = "stopped"
  /\ UNCHANGED <<flagVars, out, written, peerPc, pc, callVars, histVars>>

(* A channel without a bound.                                              *)
SentUnbounded(t, type) ==
  /\ writer = "running"
  /\ out' = Append(out, [type |-> type, fin |-> fin[t], by |-> t])
(* send(..).await puts t's frame in once there is room.                    *)
Sent(t, type) ==
  /\ writer = "running" /\ Len(out) - written < WriteCap
  /\ out' = Append(out, [type |-> type, fin |-> fin[t], by |-> t])

Goto(t, label) == pc' = [pc EXCEPT ![t] = label]

(* local_fin_sent is set.                                                  *)
CloseSending ==
  /\ localFin' = TRUE
  /\ flagAt' = IF localFin THEN flagAt ELSE Len(out)

----------------------------------------------------------------------------
(* Task t calls op.                                                        *)

Ops == {"send_reply", "write_data", "reset"}

Call(t, op, withFin) ==
  /\ pc[t] = "idle" /\ ncalls < MaxCalls
  /\ op = "reset" => ~withFin
  /\ ncalls' = ncalls + 1
  /\ fin' = [fin EXCEPT ![t] = withFin]
  /\ late' = [late EXCEPT ![t] = finReturned]
  /\ Goto(t, op)
  /\ UNCHANGED <<flagVars, outVars, peerPc, ticket, histVars>>

(* The call returns Ok.                                                    *)
ReturnOk(t) ==
  /\ Goto(t, "idle")
  /\ finReturned' = (finReturned \/ fin[t])

(* send_reply with replied set before the frame is in the channel.         *)
ReplySendFlagFirst(t) ==
  /\ pc[t] = "send_reply"
  /\ \/ ~replied /\ replied' = TRUE /\ UNCHANGED <<out, pc>>
     \/ replied /\ Sent(t, "SynReply") /\ Goto(t, "store") /\ UNCHANGED replied
  /\ UNCHANGED <<finVars, wakeups, written, writer, peerPc, callVars, histVars>>
(* send_reply: the frame,                                                  *)
ReplySend(t) ==
  /\ pc[t] = "send_reply"
  /\ Sent(t, "SynReply") /\ Goto(t, "store")
  /\ UNCHANGED <<flagVars, written, writer, peerPc, callVars, histVars>>

(* then replied,                                                           *)
ReplyStore(t) ==
  /\ pc[t] = "store"
  /\ replied' = TRUE /\ Goto(t, "notify")
  /\ UNCHANGED <<finVars, wakeups, outVars, peerPc, callVars, histVars>>

(* then the wake-up; a reply without FIN is done,                          *)
ReplyNotify(t) ==
  /\ pc[t] = "notify"
  /\ wakeups' = wakeups + 1
  /\ IF fin[t] THEN Goto(t, "storeFin") /\ UNCHANGED finReturned ELSE ReturnOk(t)
  /\ UNCHANGED <<replied, finVars, outVars, peerPc, callVars, peerReplied, abandoned>>

(* A reply with FIN that does not close the sending side.                  *)
ReplyStoreFinSkipped(t) ==
  /\ pc[t] = "storeFin" /\ ReturnOk(t)
  /\ UNCHANGED <<flagVars, outVars, peerPc, callVars, peerReplied, abandoned>>
(* and last, for a reply with FIN, local_fin_sent.                         *)
ReplyStoreFin(t) ==
  /\ pc[t] = "storeFin"
  /\ CloseSending /\ ReturnOk(t)
  /\ UNCHANGED <<replied, wakeups, outVars, peerPc, callVars, peerReplied, abandoned>>

----------------------------------------------------------------------------
(* write_data: the loop that waits for the reply.                          *)

WriteCheck(t) ==
  /\ pc[t] = "write_data"
  /\ Goto(t, IF replied THEN "finCheck" ELSE "notified")
  /\ UNCHANGED <<flagVars, outVars, peerPc, callVars, histVars>>

(* A wait that does not look at replied again.                             *)
CreateNotifiedNoRecheck(t) ==
  /\ pc[t] = "notified"
  /\ ticket' = [ticket EXCEPT ![t] = wakeups]
  /\ Goto(t, "wait")
  /\ UNCHANGED <<flagVars, outVars, peerPc, fin, ncalls, late, histVars>>
(* reply_notify.notified().                                                *)
CreateNotified(t) ==
  /\ pc[t] = "notified"
  /\ ticket' = [ticket EXCEPT ![t] = wakeups]
  /\ Goto(t, "recheck")
  /\ UNCHANGED <<flagVars, outVars, peerPc, fin, ncalls, late, histVars>>

(* The second look at replied, with the future in hand.                    *)
WriteRecheck(t) ==
  /\ pc[t] = "recheck"
  /\ Goto(t, IF replied THEN "finCheck" ELSE "wait")
  /\ UNCHANGED <<flagVars, outVars, peerPc, callVars, histVars>>

(* notified.await.                                                         *)
WriteWoken(t) ==
  /\ pc[t] = "wait" /\ wakeups > ticket[t]
  /\ Goto(t, "write_data")
  /\ UNCHANGED <<flagVars, outVars, peerPc, callVars, histVars>>

----------------------------------------------------------------------------
(* write_data: the frame.                                                  *)

(* local_fin_sent set by the call that then finds it set.                  *)
FinCheckAfterSet(t) ==
  /\ pc[t] = "finCheck"
  /\ IF fin[t] THEN CloseSending ELSE UNCHANGED finVars
  /\ Goto(t, IF localFin' THEN "idle" ELSE "send")
  /\ UNCHANGED <<replied, wakeups, outVars, peerPc, callVars, histVars>>
(* local_fin_sent is looked at: StreamClosed,                              *)
FinCheck(t) ==
  /\ pc[t] = "finCheck"
  /\ \/ localFin /\ Goto(t, "idle")
     \/ ~localFin /\ Goto(t, IF fin[t] THEN "setFin" ELSE "send")
  /\ UNCHANGED <<flagVars, outVars, peerPc, callVars, histVars>>

(* A FIN that leaves the flag alone.                                       *)
SetFinSkipped(t) ==
  /\ pc[t] = "setFin" /\ Goto(t, "send")
  /\ UNCHANGED <<flagVars, outVars, peerPc, callVars, histVars>>
(* or, in a second step, set by a write with FIN,                          *)
SetFin(t) ==
  /\ pc[t] = "setFin"
  /\ CloseSending /\ Goto(t, "send")
  /\ UNCHANGED <<replied, wakeups, outVars, peerPc, callVars, histVars>>

(* and the frame goes into the channel.                                    *)
WriteSend(t) ==
  /\ pc[t] = "send"
  /\ Sent(t, "Data") /\ ReturnOk(t)
  /\ UNCHANGED <<flagVars, written, writer, peerPc, callVars, peerReplied, abandoned>>

----------------------------------------------------------------------------
(* reset: nothing but the frame.                                           *)
ResetSend(t) ==
  /\ pc[t] = "reset"
  /\ Sent(t, "RstStream") /\ ReturnOk(t)
  /\ UNCHANGED <<flagVars, written, writer, peerPc, callVars, peerReplied, abandoned>>

(* A send finds that the write task has gone: the call returns             *)
(* ConnectionClosed.                                                       *)
SendFails(t) ==
  /\ pc[t] \in {"send_reply", "send", "reset"} /\ writer = "stopped"
  /\ Goto(t, "idle")
  /\ abandoned' = (abandoned \/ (pc[t] = "send" /\ fin[t]))
  /\ UNCHANGED <<flagVars, outVars, peerPc, callVars, peerReplied, finReturned>>

(* The caller drops the future of its call at one of its awaits.           *)
Cancel(t) ==
  /\ pc[t] \in {"send_reply", "wait", "send", "reset"}
  /\ Goto(t, "idle")
  /\ abandoned' = (abandoned \/ (pc[t] = "send" /\ fin[t]))
  /\ UNCHANGED <<flagVars, outVars, peerPc, callVars, peerReplied, finReturned>>

----------------------------------------------------------------------------
(* The worker applies a SYN_REPLY of the client: it opens the sending side  *)
(* just as send_reply does.                                                *)
PeerReply ==
  /\ peerPc = "none"
  /\ replied' = TRUE /\ peerReplied' = TRUE /\ peerPc' = "notify"
  /\ UNCHANGED <<finVars, wakeups, outVars, pc, callVars, finReturned, abandoned>>

PeerNotify ==
  /\ peerPc = "notify"
  /\ wakeups' = wakeups + 1 /\ peerPc' = "done"
  /\ UNCHANGED <<replied, finVars, outVars, pc, callVars, histVars>>

----------------------------------------------------------------------------
Task(t) ==
  \/ ReplySend(t)  \/ ReplyStore(t)     \/ ReplyNotify(t)  \/ ReplyStoreFin(t)
  \/ WriteCheck(t) \/ CreateNotified(t) \/ WriteRecheck(t) \/ WriteWoken(t)
  \/ FinCheck(t)   \/ SetFin(t)         \/ WriteSend(t)    \/ ResetSend(t)
  \/ SendFails(t)

Next ==
  \/ \E t \in Tasks :
       \/ \E op \in Ops, withFin \in BOOLEAN : Call(t, op, withFin)
       \/ Task(t) \/ Cancel(t)
  \/ PeerReply \/ PeerNotify
  \/ WriteFrame \/ WriteFail

Spec == Init /\ [][Next]_vars

(* A task inside a call and a worker inside a frame keep running.  Nobody   *)
(* need call or cancel, and the write task may block for ever.             *)
Fairness ==
  /\ \A t \in Tasks : WF_vars(Task(t))
  /\ WF_vars(PeerNotify)

FairSpec == Spec /\ Fairness

----------------------------------------------------------------------------
WaitPcs == {"write_data", "notified", "recheck", "wait"}
TaskPcs == WaitPcs \cup {"idle", "send_reply", "store", "notify", "storeFin", "finCheck",
                         "setFin", "send", "reset"}

(* Types, and the frame channel within its capacity.                       *)
TypeOK ==
  /\ replied \in BOOLEAN /\ localFin \in BOOLEAN /\ flagAt \in Nat /\ wakeups \in Nat
  /\ out \in Seq(OutFrame) /\ written \in 0 .. Len(out)
  /\ Len(out) - written <= WriteCap
  /\ writer \in {"running", "stopped"} /\ peerPc \in {"none", "notify", "done"}
  /\ pc \in [Tasks -> TaskPcs] /\ fin \in [Tasks -> BOOLEAN]
  /\ ticket \in [Tasks -> Nat] /\ ncalls \in Nat
  /\ peerReplied \in BOOLEAN /\ finReturned \in BOOLEAN /\ abandoned \in BOOLEAN
  /\ late \in [Tasks -> BOOLEAN]

IsData(i) == out[i].type = "Data"

(* However many tasks share the stream, no data overtakes the reply: a      *)
(* Data frame has a SYN_REPLY before it in the channel, unless the client   *)
(* opened the sending side with a SYN_REPLY of its own.                    *)
ReplyFirst ==
  ~peerReplied =>
    \A i \in DOMAIN out : IsData(i) => \E j \in 1 .. i : out[j].type = "SynReply"

(* Sending was closed before frame i went in: local_fin_sent had been set, *)
(* or the FIN of a write_data was in the channel.                          *)
Closed(i) ==
  \/ localFin /\ flagAt < i
  \/ \E k \in 1 .. i : IsData(k) /\ out[k].fin

(* The check of local_fin_sent and its store are two steps, so Data frames *)
(* can follow that store, and the FIN of another write_data: one per task, *)
(* the FIN included, and no more.  Nothing is said of the frames between   *)
(* the FIN of a send_reply and the store that send_reply does later.       *)
OneStragglerPerTask ==
  \A i, j \in DOMAIN out :
    IsData(i) /\ Closed(i) /\ IsData(j) /\ i < j => out[i].by # out[j].by

(* Once a call with FIN, send_reply or write_data, has returned Ok, no      *)
(* write_data that begins later sends anything.                            *)
NoDataAfterFin ==
  [][\A t \in Tasks : WriteSend(t) => ~late[t]]_vars

(* local_fin_sent is set only by a call that puts the FIN into the channel, *)
(* unless that call is dropped or finds the channel closed.                *)
FinFlagAccounted ==
  localFin /\ ~abandoned =>
    \/ \E i \in DOMAIN out : out[i].fin
    \/ \E t \in Tasks : pc[t] = "send" /\ fin[t]

(* What "Whether a local FIN has been sent" says of is_local_fin_sent, with *)
(* every call over and the write task alive.                               *)
FinFlagMeansSent ==
  localFin /\ writer = "running" /\ (\A t \in Tasks : pc[t] = "idle") =>
    \E i \in DOMAIN out : out[i].fin

(* No wake-up is lost: once the stream is replied to, no write_data keeps   *)
(* waiting for it, whichever of its steps the reply fell between.          *)
ReplyWakesWriters ==
  \A t \in Tasks : replied /\ pc[t] \in WaitPcs ~> pc[t] \notin WaitPcs
=============================================================================
