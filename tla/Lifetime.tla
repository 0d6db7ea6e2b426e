------------------------------ MODULE Lifetime ------------------------------
(***************************************************************************)
(* The life of a connection after Connection::serve has returned,          *)
(* src/src/connection.rs: which task, queue or handle keeps the sending    *)
(* ends of the channels alive, when each task ends, who learns of it, and  *)
(* the pings that are in flight meanwhile.                                 *)
(*                                                                         *)
(* Connection has the frames and close(), which ends none of the tasks;    *)
(* here a frame is a ping with its id or one of no interest, one stream    *)
(* and one worker stand for all of them, and the worker's queue is never   *)
(* full.  The peer may be slow, silent or gone, and may echo a ping late   *)
(* or twice, but not one it has not received.                              *)
(***************************************************************************)
EXTENDS Integers, Sequences, Functions

CONSTANTS
  Pingers,    (* application tasks that call ping()                         *)
  WriteCap,   (* capacity of the frame channel: 64 in the code              *)
  IdSpace,    (* values of next_ping_id: 2^32 in the code                   *)
  MaxEvents   (* bound of the model: calls of ping() and frames sent by the *)
              (* peer and by the handler, in all                            *)

ASSUME LifetimeAssumption ==
  /\ WriteCap \in Nat \ {0} /\ MaxEvents \in Nat
  /\ IdSpace \in Nat /\ IdSpace % 2 = 0 /\ IdSpace > 2 * MaxEvents
  /\ "gone" \notin Pingers

VARIABLES
  held,       (* the application holds an Arc<Connection>                   *)
  readPc,     (* the read task: "reading", "closing" after GOAWAY, "ended"  *)
  worker,     (* the worker tasks: "running" or "ended"                     *)
  workQueue,  (* messages to the worker, each with its Arc<Stream>          *)
  inMap,      (* the stream is in the streams map                           *)
  handler,    (* its handler: "none", "running" or "done"                   *)
  out,        (* the frame channel                                          *)
  writer,     (* the write task: "running", "ended" or "failed"             *)
  closed,     (* the value of close_tx                                      *)
  waiter,     (* a call of wait_closed() waits                              *)
  (* ping().                                                               *)
  nextPingId, (* next_ping_id                                               *)
  pingMap,    (* ping_map: the call that waits for each id, or Gone         *)
  pc,         (* where each call is: "idle", "register", "send" or "wait"   *)
  id,         (* its id                                                     *)
  resolved,   (* its oneshot: "no", "echoed", or "dropped" with the sender  *)
  (* The peer.                                                             *)
  inbound,    (* frames on their way from it                                *)
  peerOpen,   (* it has not closed its side                                 *)
  received,   (* ping ids it has received                                   *)
  nframes,    (* frames sent so far by the peer and the handler             *)
  (* History.                                                              *)
  call,       (* the number of each task's call                             *)
  ncalls,     (* calls so far                                               *)
  onWire      (* the calls whose ping was written                           *)

appVars  == <<held, waiter>>
taskVars == <<readPc, worker, workQueue, inMap, handler>>
pingVars == <<nextPingId, pingMap, pc, id, resolved, call, ncalls>>
peerVars == <<inbound, peerOpen, received>>
vars == <<held, readPc, worker, workQueue, inMap, handler, out, writer, closed, waiter,
          nextPingId, pingMap, pc, id, resolved, inbound, peerOpen, received, nframes,
          call, ncalls, onWire>>

Gone  == "gone"
Other == [ping |-> -1, by |-> 0]

(* Frames of the peer besides its echoes, which are their even ids.        *)
ClientPing == 1
Syn    == -1
Rst    == -3
GoAway == -5

(* serve returns with SETTINGS in the channel.                             *)
Init ==
  /\ held = TRUE /\ readPc = "reading" /\ worker = "running" /\ workQueue = <<>>
  /\ inMap = FALSE /\ handler = "none" /\ out = <<Other>> /\ writer = "running"
  /\ closed = FALSE /\ waiter = FALSE
  /\ nextPingId = 2 /\ pingMap = <<>>
  /\ pc = [p \in Pingers |-> "idle"] /\ id = [p \in Pingers |-> 0]
  /\ resolved = [p \in Pingers |-> "no"]
  /\ inbound = <<>> /\ peerOpen = TRUE /\ received = {} /\ nframes = 0
  /\ call = [p \in Pingers |-> 0] /\ ncalls = 0 /\ onWire = {}

----------------------------------------------------------------------------
(* The frame channel.  Its senders are in the connection, which handles    *)
(* and the read task hold, in the read task, and in every stream: those of *)
(* handlers, of queued messages, and of the map, which the connection and  *)
(* the workers hold.                                                       *)
ConnectionAlive == held \/ readPc # "ended"
StreamAliveByMapAlone ==
  handler = "running" \/ workQueue # <<>> \/ inMap
StreamAlive ==
  \/ handler = "running"
  \/ workQueue # <<>>
  \/ inMap /\ (ConnectionAlive \/ worker = "running")
SenderAlive == ConnectionAlive \/ StreamAlive

(* send(frame).await: it waits for room, or finds the receiver dropped.    *)
Send(frame) ==
  \/ writer = "running" /\ Len(out) < WriteCap /\ out' = Append(out, frame)
  \/ writer # "running" /\ UNCHANGED out

WriteFrame ==
  /\ writer = "running" /\ out # <<>>
  /\ out' = Tail(out)
  /\ LET frame == Head(out)
     IN  IF frame.ping % 2 = 0
         THEN received' = received \cup {frame.ping} /\ onWire' = onWire \cup {frame.by}
         ELSE UNCHANGED <<received, onWire>>
  /\ UNCHANGED <<appVars, taskVars, writer, closed, pingVars, inbound, peerOpen, nframes>>

(* write_frame fails; nobody is told but the senders, by their next send.  *)
WriteFail ==
  /\ writer = "running" /\ out # <<>>
  /\ writer' = "failed" /\ out' = <<>>
  /\ UNCHANGED <<appVars, taskVars, closed, pingVars, peerVars, nframes, onWire>>

(* recv() returns None: the channel is empty and has no sender.            *)
WriterEnd ==
  /\ writer = "running" /\ out = <<>> /\ ~SenderAlive
  /\ writer' = "ended"
  /\ UNCHANGED <<appVars, taskVars, out, closed, pingVars, peerVars, nframes, onWire>>

----------------------------------------------------------------------------
(* The read task.                                                          *)

Arrived(m) == readPc = "reading" /\ inbound # <<>> /\ Head(inbound) = m
Consume    == inbound' = Tail(inbound) /\ UNCHANGED <<peerOpen, received>>

ReadSyn ==
  /\ Arrived(Syn) /\ Consume
  /\ inMap' = TRUE /\ workQueue' = Append(workQueue, Syn)
  /\ UNCHANGED <<appVars, readPc, worker, handler, out, writer, closed, pingVars, nframes, onWire>>

ReadRst ==
  /\ Arrived(Rst) /\ Consume
  /\ workQueue' = IF inMap THEN Append(workQueue, Rst) ELSE workQueue
  /\ UNCHANGED <<appVars, readPc, worker, inMap, handler, out, writer, closed, pingVars, nframes, onWire>>

(* A ping of the client is echoed; the task waits until there is room.     *)
ReadClientPing ==
  /\ Arrived(ClientPing) /\ Consume
  /\ Send(Other)
  /\ UNCHANGED <<appVars, taskVars, writer, closed, pingVars, nframes, onWire>>

(* The echo of a ping: its entry is removed and its waiter, if there still *)
(* is one, resolved.                                                       *)
ReadEcho(n) ==
  /\ Arrived(n) /\ Consume
  /\ IF n \in DOMAIN pingMap
     THEN /\ pingMap' = Restrict(pingMap, DOMAIN pingMap \ {n})
          /\ resolved' = [p \in Pingers |-> IF pingMap[n] = p THEN "echoed" ELSE resolved[p]]
     ELSE UNCHANGED <<pingMap, resolved>>
  /\ UNCHANGED <<appVars, taskVars, out, writer, closed, nextPingId, pc, id, call, ncalls, nframes, onWire>>

ReadGoAway ==
  /\ Arrived(GoAway) /\ Consume
  /\ closed' = TRUE /\ readPc' = "closing"
  /\ UNCHANGED <<appVars, worker, workQueue, inMap, handler, out, writer, pingVars, nframes, onWire>>

(* The code behind the loop; the task drops what it holds.                 *)
EndTask ==
  /\ readPc' = "ended" /\ closed' = TRUE
  /\ UNCHANGED <<appVars, worker, workQueue, inMap, handler, out, writer, pingVars, peerVars,
                 nframes, onWire>>

(* The end of the transport, or a read or protocol error at any time.      *)
ReadFails == readPc = "reading" /\ EndTask
ReadEnds  == readPc = "closing" /\ EndTask

----------------------------------------------------------------------------
(* The worker and the handler it spawns.                                   *)

WorkerStep ==
  /\ worker = "running" /\ workQueue # <<>>
  /\ workQueue' = Tail(workQueue)
  /\ \/ Head(workQueue) = Syn /\ handler' = "running" /\ UNCHANGED inMap
     \/ Head(workQueue) = Rst /\ inMap' = FALSE /\ UNCHANGED handler
  /\ UNCHANGED <<appVars, readPc, worker, out, writer, closed, pingVars, peerVars, nframes, onWire>>

(* The only senders of the workers' queues that are left are the read      *)
(* task's.                                                                 *)
WorkerEnd ==
  /\ worker = "running" /\ workQueue = <<>> /\ readPc = "ended"
  /\ worker' = "ended"
  /\ UNCHANGED <<appVars, readPc, workQueue, inMap, handler, out, writer, closed, pingVars,
                 peerVars, nframes, onWire>>

HandlerSend ==
  /\ handler = "running" /\ ncalls + nframes < MaxEvents
  /\ Send(Other) /\ nframes' = nframes + 1
  /\ UNCHANGED <<appVars, taskVars, writer, closed, pingVars, peerVars, onWire>>

HandlerDone ==
  /\ handler = "running"
  /\ handler' = "done"
  /\ UNCHANGED <<appVars, readPc, worker, workQueue, inMap, out, writer, closed, pingVars,
                 peerVars, nframes, onWire>>

----------------------------------------------------------------------------
(* The application.  A call borrows a handle.                              *)

DropHandles ==
  /\ held /\ ~waiter /\ \A p \in Pingers : pc[p] = "idle"
  /\ held' = FALSE
  /\ UNCHANGED <<waiter, taskVars, out, writer, closed, pingVars, peerVars, nframes, onWire>>

WaitClosed ==
  /\ held /\ ~waiter
  /\ waiter' = TRUE
  /\ UNCHANGED <<held, taskVars, out, writer, closed, pingVars, peerVars, nframes, onWire>>

WaitReturns ==
  /\ waiter /\ closed
  /\ waiter' = FALSE
  /\ UNCHANGED <<held, taskVars, out, writer, closed, pingVars, peerVars, nframes, onWire>>

PingStep(p, from, to) == pc[p] = from /\ pc' = [pc EXCEPT ![p] = to]
PingOnly == UNCHANGED <<appVars, taskVars, writer, closed, peerVars, nframes, onWire>>

(* next_ping_id is read and not stepped.                                   *)
PingBeginSameId(p) ==
  /\ held /\ ncalls + nframes < MaxEvents /\ PingStep(p, "idle", "register")
  /\ id' = [id EXCEPT ![p] = nextPingId]
  /\ ncalls' = ncalls + 1 /\ call' = [call EXCEPT ![p] = ncalls + 1]
  /\ UNCHANGED <<nextPingId, pingMap, resolved, out>> /\ PingOnly

PingBegin(p) ==
  /\ held /\ ncalls + nframes < MaxEvents /\ PingStep(p, "idle", "register")
  /\ id' = [id EXCEPT ![p] = nextPingId]
  /\ nextPingId' = (nextPingId + 2) % IdSpace
  /\ ncalls' = ncalls + 1 /\ call' = [call EXCEPT ![p] = ncalls + 1]
  /\ UNCHANGED <<pingMap, resolved, out>> /\ PingOnly

(* The insert is left out.                                                 *)
PingRegisterNothing(p) ==
  /\ PingStep(p, "register", "send")
  /\ UNCHANGED <<nextPingId, id, call, ncalls, out, pingMap, resolved>> /\ PingOnly

(* ping_map.lock().await.insert(id, tx): a sender that had the id is       *)
(* dropped.                                                                *)
PingRegister(p) ==
  /\ PingStep(p, "register", "send")
  /\ pingMap' = [n \in DOMAIN pingMap \cup {id[p]} |-> IF n = id[p] THEN p ELSE pingMap[n]]
  /\ resolved' = [q \in Pingers |->
                    IF id[p] \in DOMAIN pingMap /\ pingMap[id[p]] = q THEN "dropped" ELSE resolved[q]]
  /\ UNCHANGED <<nextPingId, id, call, ncalls, out>> /\ PingOnly

PingSend(p) ==
  /\ writer = "running" /\ PingStep(p, "send", "wait")
  /\ Send([ping |-> id[p], by |-> call[p]])
  /\ UNCHANGED <<nextPingId, pingMap, id, resolved, call, ncalls>> /\ PingOnly

Return(p) ==
  /\ pc' = [pc EXCEPT ![p] = "idle"] /\ id' = [id EXCEPT ![p] = 0]
  /\ resolved' = [resolved EXCEPT ![p] = "no"] /\ call' = [call EXCEPT ![p] = 0]
  /\ UNCHANGED <<nextPingId, ncalls, out>> /\ PingOnly

(* The end of a call by its oneshot.                                       *)
PingAnswered(p) ==
  /\ pc[p] = "wait" /\ resolved[p] # "no"
  /\ UNCHANGED pingMap /\ Return(p)

(* The end of a call without an answer: the send fails, the timeout, which *)
(* covers only the wait, or the call is dropped.  Its entry stays.         *)
GiveUp(p) ==
  /\ pingMap' = [n \in DOMAIN pingMap |-> IF pingMap[n] = p THEN Gone ELSE pingMap[n]]
  /\ Return(p)

(* The wait has no timeout.                                                *)
PingTimeoutNever(p) == FALSE

PingSendFails(p) == pc[p] = "send" /\ writer # "running" /\ GiveUp(p)
PingTimeout(p)   == pc[p] = "wait" /\ resolved[p] = "no" /\ GiveUp(p)
PingDropped(p)   == pc[p] # "idle" /\ GiveUp(p)

----------------------------------------------------------------------------
(* The peer.                                                               *)

Frames == {ClientPing, Syn, Rst, GoAway} \cup received

PeerSend(m) ==
  /\ peerOpen /\ ncalls + nframes < MaxEvents
  /\ m = Syn => handler = "none" /\ workQueue = <<>> /\ Syn \notin Range(inbound)
  /\ inbound' = Append(inbound, m) /\ nframes' = nframes + 1
  /\ UNCHANGED <<appVars, taskVars, out, writer, closed, pingVars, peerOpen, received, onWire>>

PeerClose ==
  /\ peerOpen
  /\ peerOpen' = FALSE
  /\ UNCHANGED <<appVars, taskVars, out, writer, closed, pingVars, inbound, received, nframes, onWire>>

ReadStep == ReadSyn \/ ReadRst \/ ReadClientPing \/ ReadGoAway \/ \E n \in received : ReadEcho(n)
ReadEof  == ~peerOpen /\ inbound = <<>> /\ ReadFails

Next ==
  \/ WriteFrame \/ WriteFail \/ WriterEnd
  \/ ReadStep \/ ReadFails \/ ReadEnds
  \/ WorkerStep \/ WorkerEnd
  \/ HandlerSend \/ HandlerDone
  \/ DropHandles \/ WaitClosed \/ WaitReturns
  \/ \E p \in Pingers : \/ PingBegin(p) \/ PingRegister(p) \/ PingSend(p) \/ PingAnswered(p)
                        \/ PingSendFails(p) \/ PingTimeout(p) \/ PingDropped(p)
  \/ \E m \in Frames : PeerSend(m)
  \/ PeerClose

Spec == Init /\ [][Next]_vars

(* Every task is scheduled while it can run and the timer fires; a sender  *)
(* in the queue of the channel gets its turn; the transport takes what the *)
(* write task writes or fails.  The peer, the handler and the application  *)
(* owe nothing.                                                            *)
Fairness ==
  /\ WF_vars(WriteFrame) /\ WF_vars(WriterEnd)
  /\ SF_vars(ReadStep) /\ WF_vars(ReadEof) /\ WF_vars(ReadEnds)
  /\ WF_vars(WorkerStep) /\ WF_vars(WorkerEnd) /\ WF_vars(WaitReturns)
  /\ \A p \in Pingers : /\ WF_vars(PingRegister(p)) /\ SF_vars(PingSend(p))
                        /\ WF_vars(PingAnswered(p)) /\ WF_vars(PingSendFails(p))
                        /\ WF_vars(PingTimeout(p))

FairSpec == Spec /\ Fairness

----------------------------------------------------------------------------
(* Properties.                                                             *)

(* ping() returns Ok only for an echo of the ping this very call sent,     *)
(* however late or often the peer echoes those of others and of calls that *)
(* timed out.  It needs that no id comes round again (IdSpace).            *)
PingOkMeansEchoed ==
  \A p \in Pingers : pc[p] # "idle" /\ resolved[p] = "echoed" => call[p] \in onWire

(* From before its ping can reach the peer, a call that waits has its own  *)
(* entry in the map until an echo resolves it; nobody else removes it.     *)
EntryUntilResolved ==
  \A p \in Pingers : pc[p] \in {"send", "wait"} /\ resolved[p] = "no" =>
    id[p] \in DOMAIN pingMap /\ pingMap[id[p]] = p

(* Every ping returns, also when the connection ends under it, as long as  *)
(* the transport moves or fails.                                           *)
PingReturns == \A p \in Pingers : pc[p] # "idle" ~> pc[p] = "idle"

(* When the peer closes its side, wait_closed returns and, once the        *)
(* application has dropped its handles and unless a handler still runs,    *)
(* every task ends: no cycle of references keeps them alive.               *)
EndReachesEveryone ==
  /\ (~peerOpen /\ waiter) ~> ~waiter
  /\ (~peerOpen /\ ~held) ~>
       (handler = "running" \/ (readPc = "ended" /\ worker = "ended" /\ writer # "running"))
=============================================================================
