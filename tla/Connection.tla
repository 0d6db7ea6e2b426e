----------------------------- MODULE Connection -----------------------------
(***************************************************************************)
(* The server half of one SPDY/3.1 connection, src/src/connection.rs,      *)
(* from the moment serve() has returned: the read task that demultiplexes  *)
(* the client's frames, the worker tasks that apply them to the streams,   *)
(* the write task that drains the bounded frame channel, and the           *)
(* application tasks that call close().                                    *)
(*                                                                         *)
(* One action is one stretch of a task between two points at which other   *)
(* tasks can observe it: an await that may block, an atomic load or store, *)
(* or a critical section of the `streams` mutex.  No critical section      *)
(* awaits while it holds the mutex (but for the one that NoStreamInUse     *)
(* shows unreachable), so the mutex itself needs no variable.              *)
(*                                                                         *)
(* Left to other modules: the receive buffer and read_data (StreamRecv),   *)
(* send_reply, write_data and reset (StreamSend), and server pings.        *)
(***************************************************************************)
EXTENDS Integers, Sequences, FiniteSets

CONSTANTS
  StreamIds,     (* ids the client may put in a frame                       *)
  ClientFrames,  (* the frames the client may send                          *)
  NWorkers,      (* N_WORKERS                                               *)
  WorkerCap,     (* capacity of a worker's channel: 128 in the code         *)
  WriteCap,      (* capacity of the frame channel: 64 in the code           *)
  Closers,       (* application tasks that call Connection::close           *)
  MaxFrames      (* bound of the model: how many frames the client sends    *)

FrameTypes == {"SynStream", "SynReply", "RstStream", "Settings", "Ping",
               "GoAway", "Headers", "WindowUpdate", "Data"}

ASSUME ConnectionAssumption ==
  /\ StreamIds \subseteq Nat
  /\ ClientFrames \subseteq [type : FrameTypes, id : StreamIds, fin : BOOLEAN]
  /\ NWorkers \in Nat \ {0}
  /\ WorkerCap \in Nat \ {0}
  /\ WriteCap \in Nat \ {0}
  /\ MaxFrames \in Nat

VARIABLES
  (* The read task.                                                        *)
  readPc,        (* where it is in its loop                                 *)
  nread,         (* frames it has read so far                               *)
  cur,           (* the frame in hand, numbered in the order of arrival     *)
  reply,         (* the frame it is about to send to the write channel      *)
  (* Fields of Connection.                                                 *)
  streams,       (* ids in the `streams` map                                *)
  lastClientStreamId,
  goneAway,      (* gone_away                                               *)
  closed,        (* the value of the close watch channel                    *)
  (* The frame channel and the write task.                                 *)
  out,           (* every frame ever put into the channel, in order         *)
  written,       (* how many of them the write task has taken out           *)
  writer,        (* "running" or "stopped"                                  *)
  (* The workers.                                                          *)
  workerQ,       (* each worker's channel                                   *)
  workerPc,      (* where each worker is in handling workerCur              *)
  workerCur,     (* the frame each worker has in hand                       *)
  (* What the rest of the system sees of a stream.                         *)
  accepted,      (* history: every id ever inserted into `streams`          *)
  spawned,       (* how often the handler was called for each id            *)
  received,      (* history: the Data frames given to push_data, per stream *)
  remoteClosed,  (* the value of each stream's remote_closed watch          *)
  (* The callers of close().                                               *)
  closerPc,      (* where each caller is                                    *)
  lastGood       (* the last_good each caller has loaded                    *)

readVars   == <<readPc, nread, cur, reply>>
outVars    == <<out, written, writer>>
workerVars == <<workerQ, workerPc, workerCur>>
streamVars == <<accepted, spawned, received, remoteClosed>>
closerVars == <<closerPc, lastGood>>
vars == <<readPc, nread, cur, reply, streams, lastClientStreamId, goneAway, closed,
          out, written, writer, workerQ, workerPc, workerCur,
          accepted, spawned, received, remoteClosed, closerPc, lastGood>>

Workers == 0 .. NWorkers - 1

(* A frame as the read task holds it: n is its place in the order of      *)
(* arrival and stands for its payload.                                    *)
Frame == [type : FrameTypes, id : Nat, fin : BOOLEAN, n : Nat]

(* What this module sends: a stream or ping id, and a status where the    *)
(* frame has one.                                                         *)
OutFrame == [type : {"Settings", "RstStream", "Ping", "GoAway"}, id : Nat,
             status : {"None", "ProtocolError", "InvalidStream", "RefusedStream",
                       "StreamInUse"}]

Settings         == [type |-> "Settings", id |-> 0, status |-> "None"]
Rst(id, status)  == [type |-> "RstStream", id |-> id, status |-> status]
PingEcho(id)     == [type |-> "Ping", id |-> id, status |-> "None"]
GoAway(lastId)   == [type |-> "GoAway", id |-> lastId, status |-> "None"]

(* Routing that ignores the stream: frames dealt out in turn.             *)
WorkerOfRoundRobin(f) == f.n % NWorkers
(* The worker a frame is routed to: fixed by its stream.                  *)
WorkerOf(f) == f.id % NWorkers

NoFrame == [type |-> "Settings", id |-> 0, fin |-> FALSE, n |-> 0]

Init ==
  /\ readPc = "read" /\ nread = 0 /\ cur = NoFrame /\ reply = Settings
  /\ streams = {} /\ lastClientStreamId = 0 /\ goneAway = FALSE /\ closed = FALSE
  /\ out = <<Settings>> /\ written = 0 /\ writer = "running"
  /\ workerQ = [w \in Workers |-> <<>>]
  /\ workerPc = [w \in Workers |-> "recv"]
  /\ workerCur = [w \in Workers |-> NoFrame]
  /\ accepted = {}
  /\ spawned = [s \in StreamIds |-> 0]
  /\ received = [s \in StreamIds |-> <<>>]
  /\ remoteClosed = [s \in StreamIds |-> FALSE]
  /\ closerPc = [c \in Closers |-> "idle"]
  /\ lastGood = [c \in Closers |-> 0]

----------------------------------------------------------------------------
(* The frame channel.                                                     *)

ChannelHasRoom == Len(out) - written < WriteCap

(* send(f).await on the frame channel: it waits while the channel is full, *)
(* and returns an error at once when the write task has gone (every caller *)
(* in this module ignores that error).                                     *)
ChannelSend(f) ==
  \/ writer = "running" /\ ChannelHasRoom /\ out' = Append(out, f)
  \/ writer = "stopped" /\ UNCHANGED out

(* The write task takes one frame and writes it to the transport.         *)
WriteFrame ==
  /\ writer = "running" /\ written < Len(out)
  /\ written' = written + 1
  /\ UNCHANGED <<readVars, streams, lastClientStreamId, goneAway, closed, out,
                 writer, workerVars, streamVars, closerVars>>

(* write_frame fails (I/O or compression error): the task ends and drops   *)
(* its end of the channel.  It tells nobody.                               *)
WriteFail ==
  /\ writer = "running" /\ written < Len(out)
  /\ writer' = "stopped"
  /\ UNCHANGED <<readVars, streams, lastClientStreamId, goneAway, closed, out,
                 written, workerVars, streamVars, closerVars>>

----------------------------------------------------------------------------
(* The read task.                                                         *)

(* read_frame returns f.                                                   *)
Take(f) ==
  /\ readPc = "read" /\ nread < MaxFrames
  /\ nread' = nread + 1
  /\ cur' = [type |-> f.type, id |-> f.id, fin |-> f.fin, n |-> nread + 1]

(* The check of a new id with `<` where the code has `<=`.                 *)
ValidIdOffByOne(id) == id % 2 = 1 /\ id >= lastClientStreamId
(* The id of a new stream is odd and above every earlier one.  Only this   *)
(* task writes last_client_stream_id, so its check cannot go stale.        *)
ValidId(id) == id % 2 = 1 /\ id > lastClientStreamId

(* SYN_STREAM admitted without a look at gone_away.                        *)
ReadSynStreamNoGoAway(f) ==
  /\ f.type = "SynStream" /\ Take(f)
  /\ \/ /\ ~ValidId(f.id)
        /\ reply' = Rst(f.id, "ProtocolError") /\ readPc' = "reply"
     \/ /\ ValidId(f.id)
        /\ readPc' = "register" /\ UNCHANGED reply
  /\ UNCHANGED <<streams, lastClientStreamId, goneAway, closed, outVars,
                 workerVars, streamVars, closerVars>>
(* SYN_STREAM, up to the load of gone_away.                                *)
ReadSynStream(f) ==
  /\ f.type = "SynStream" /\ Take(f)
  /\ \/ /\ ~ValidId(f.id)
        /\ reply' = Rst(f.id, "ProtocolError") /\ readPc' = "reply"
     \/ /\ ValidId(f.id) /\ goneAway
        /\ reply' = Rst(f.id, "RefusedStream") /\ readPc' = "reply"
     \/ /\ ValidId(f.id) /\ ~goneAway
        /\ readPc' = "register" /\ UNCHANGED reply
  /\ UNCHANGED <<streams, lastClientStreamId, goneAway, closed, outVars,
                 workerVars, streamVars, closerVars>>

(* The map's critical section for a new stream.                            *)
RegisterStream ==
  /\ readPc = "register"
  /\ IF cur.id \in streams
     THEN /\ reply' = Rst(cur.id, "StreamInUse") /\ readPc' = "reply"
          /\ UNCHANGED <<streams, accepted>>
     ELSE /\ streams' = streams \cup {cur.id}
          /\ accepted' = accepted \cup {cur.id}
          /\ readPc' = "store" /\ UNCHANGED reply
  /\ UNCHANGED <<nread, cur, lastClientStreamId, goneAway, closed, outVars,
                 workerVars, spawned, received, remoteClosed, closerVars>>

StoreLastId ==
  /\ readPc = "store"
  /\ lastClientStreamId' = cur.id
  /\ readPc' = "dispatch"
  /\ UNCHANGED <<nread, cur, reply, streams, goneAway, closed, outVars,
                 workerVars, streamVars, closerVars>>

(* A frame of an existing stream, up to the lookup in the map: a Data frame *)
(* of an unknown stream is answered, the others are dropped.                *)
ReadStreamFrame(f) ==
  /\ f.type \in {"Data", "SynReply", "RstStream", "Headers"} /\ Take(f)
  /\ \/ f.id \in streams /\ readPc' = "dispatch" /\ UNCHANGED reply
     \/ /\ f.id \notin streams /\ f.type = "Data"
        /\ reply' = Rst(f.id, "InvalidStream") /\ readPc' = "reply"
     \/ /\ f.id \notin streams /\ f.type # "Data"
        /\ readPc' = "read" /\ UNCHANGED reply
  /\ UNCHANGED <<streams, lastClientStreamId, goneAway, closed, outVars,
                 workerVars, streamVars, closerVars>>

(* A dispatch that gives a frame up when the worker's channel is full.     *)
DispatchTrySend ==
  /\ readPc = "dispatch"
  /\ workerQ' = [workerQ EXCEPT ![WorkerOf(cur)] =
                   IF Len(@) < WorkerCap THEN Append(@, cur) ELSE @]
  /\ readPc' = "read"
  /\ UNCHANGED <<nread, cur, reply, streams, lastClientStreamId, goneAway, closed,
                 outVars, workerPc, workerCur, streamVars, closerVars>>
(* A channel without a bound.                                              *)
DispatchUnbounded ==
  /\ readPc = "dispatch"
  /\ workerQ' = [workerQ EXCEPT ![WorkerOf(cur)] = Append(@, cur)]
  /\ readPc' = "read"
  /\ UNCHANGED <<nread, cur, reply, streams, lastClientStreamId, goneAway, closed,
                 outVars, workerPc, workerCur, streamVars, closerVars>>
(* worker_txs[..].send(..).await: waits while that worker's channel is full. *)
Dispatch ==
  /\ readPc = "dispatch"
  /\ Len(workerQ[WorkerOf(cur)]) < WorkerCap
  /\ workerQ' = [workerQ EXCEPT ![WorkerOf(cur)] = Append(@, cur)]
  /\ readPc' = "read"
  /\ UNCHANGED <<nread, cur, reply, streams, lastClientStreamId, goneAway, closed,
                 outVars, workerPc, workerCur, streamVars, closerVars>>

(* An odd ping is the client's and is echoed.  An even one answers a ping  *)
(* of ours and touches nothing but ping_map.                               *)
ReadPing(f) ==
  /\ f.type = "Ping" /\ Take(f)
  /\ \/ f.id % 2 = 1 /\ reply' = PingEcho(f.id) /\ readPc' = "reply"
     \/ f.id % 2 = 0 /\ readPc' = "read" /\ UNCHANGED reply
  /\ UNCHANGED <<streams, lastClientStreamId, goneAway, closed, outVars,
                 workerVars, streamVars, closerVars>>

(* SETTINGS changes initial_window_size, which no code reads, and          *)
(* WINDOW_UPDATE changes nothing.                                          *)
ReadIgnored(f) ==
  /\ f.type \in {"Settings", "WindowUpdate"} /\ Take(f)
  /\ UNCHANGED <<readPc, reply, streams, lastClientStreamId, goneAway, closed,
                 outVars, workerVars, streamVars, closerVars>>

SendReply ==
  /\ readPc = "reply" /\ ChannelSend(reply)
  /\ readPc' = "read"
  /\ UNCHANGED <<nread, cur, reply, streams, lastClientStreamId, goneAway, closed,
                 written, writer, workerVars, streamVars, closerVars>>

(* The client's GOAWAY: the flag, then the broadcast, then out of the loop. *)
ReadGoAway(f) ==
  /\ f.type = "GoAway" /\ Take(f)
  /\ goneAway' = TRUE
  /\ readPc' = "broadcast"
  /\ UNCHANGED <<reply, streams, lastClientStreamId, closed, outVars,
                 workerVars, streamVars, closerVars>>

BroadcastGoAway ==
  /\ readPc = "broadcast"
  /\ closed' = TRUE /\ readPc' = "closing"
  /\ UNCHANGED <<nread, cur, reply, streams, lastClientStreamId, goneAway, outVars,
                 workerVars, streamVars, closerVars>>

(* read_frame fails: end of input, a malformed frame or an I/O error.      *)
ReadFail ==
  /\ readPc = "read"
  /\ readPc' = "closing"
  /\ UNCHANGED <<nread, cur, reply, streams, lastClientStreamId, goneAway, closed,
                 outVars, workerVars, streamVars, closerVars>>

(* An end of the read task that forgets the streams.                       *)
CloseStreamsSkipped ==
  /\ readPc = "closing"
  /\ readPc' = "closed"
  /\ UNCHANGED <<nread, cur, reply, streams, lastClientStreamId, goneAway, closed,
                 outVars, workerVars, streamVars, closerVars>>
(* After the loop: close_remote on every stream of the map.                *)
CloseStreams ==
  /\ readPc = "closing"
  /\ remoteClosed' = [s \in StreamIds |-> remoteClosed[s] \/ s \in streams]
  /\ readPc' = "closed"
  /\ UNCHANGED <<nread, cur, reply, streams, lastClientStreamId, goneAway, closed,
                 outVars, workerVars, accepted, spawned, received, closerVars>>

EndRead ==
  /\ readPc = "closed"
  /\ closed' = TRUE /\ readPc' = "done"
  /\ UNCHANGED <<nread, cur, reply, streams, lastClientStreamId, goneAway, outVars,
                 workerVars, streamVars, closerVars>>

----------------------------------------------------------------------------
(* The workers.                                                           *)

(* Worker w receives a frame and will go on at pc.                         *)
Receive(w, pc) ==
  /\ workerPc[w] = "recv" /\ workerQ[w] # <<>>
  /\ workerQ' = [workerQ EXCEPT ![w] = Tail(@)]
  /\ workerCur' = [workerCur EXCEPT ![w] = Head(workerQ[w])]
  /\ workerPc' = [workerPc EXCEPT ![w] = pc]

(* SYN_STREAM: the handler is spawned.  The frame's FIN flag is not looked  *)
(* at.                                                                     *)
WorkerSynStream(w) ==
  /\ workerQ[w] # <<>> /\ Head(workerQ[w]).type = "SynStream"
  /\ Receive(w, "recv")
  /\ spawned' = [spawned EXCEPT ![Head(workerQ[w]).id] = @ + 1]
  /\ UNCHANGED <<readVars, streams, lastClientStreamId, goneAway, closed, outVars,
                 accepted, received, remoteClosed, closerVars>>

(* DATA: push_data, then close_remote when FIN is set.                     *)
WorkerData(w) ==
  /\ workerQ[w] # <<>> /\ Head(workerQ[w]).type = "Data"
  /\ Receive(w, IF Head(workerQ[w]).fin THEN "fin" ELSE "recv")
  /\ received' = [received EXCEPT ![Head(workerQ[w]).id] =
                    Append(@, Head(workerQ[w]).n)]
  /\ UNCHANGED <<readVars, streams, lastClientStreamId, goneAway, closed, outVars,
                 accepted, spawned, remoteClosed, closerVars>>

(* SYN_REPLY and HEADERS: close_remote when FIN is set.                    *)
WorkerHeaders(w) ==
  /\ workerQ[w] # <<>> /\ Head(workerQ[w]).type \in {"SynReply", "Headers"}
  /\ Receive(w, IF Head(workerQ[w]).fin THEN "fin" ELSE "recv")
  /\ UNCHANGED <<readVars, streams, lastClientStreamId, goneAway, closed, outVars,
                 streamVars, closerVars>>

WorkerFin(w) ==
  /\ workerPc[w] = "fin"
  /\ remoteClosed' = [remoteClosed EXCEPT ![workerCur[w].id] = TRUE]
  /\ workerPc' = [workerPc EXCEPT ![w] = "recv"]
  /\ UNCHANGED <<readVars, streams, lastClientStreamId, goneAway, closed, outVars,
                 workerQ, workerCur, accepted, spawned, received, closerVars>>

(* RST_STREAM handled the other way round: the map first.                  *)
WorkerRstMapFirst(w) ==
  /\ workerQ[w] # <<>> /\ Head(workerQ[w]).type = "RstStream"
  /\ Receive(w, "fin")
  /\ streams' = streams \ {Head(workerQ[w]).id}
  /\ UNCHANGED <<readVars, lastClientStreamId, goneAway, closed, outVars,
                 accepted, spawned, received, remoteClosed, closerVars>>
(* RST_STREAM: close_remote, then, under the lock, out of the map.         *)
WorkerRst(w) ==
  /\ workerQ[w] # <<>> /\ Head(workerQ[w]).type = "RstStream"
  /\ Receive(w, "remove")
  /\ remoteClosed' = [remoteClosed EXCEPT ![Head(workerQ[w]).id] = TRUE]
  /\ UNCHANGED <<readVars, streams, lastClientStreamId, goneAway, closed, outVars,
                 accepted, spawned, received, closerVars>>

WorkerRemove(w) ==
  /\ workerPc[w] = "remove"
  /\ streams' = streams \ {workerCur[w].id}
  /\ workerPc' = [workerPc EXCEPT ![w] = "recv"]
  /\ UNCHANGED <<readVars, lastClientStreamId, goneAway, closed, outVars,
                 workerQ, workerCur, streamVars, closerVars>>

----------------------------------------------------------------------------
(* Connection::close, called by application task c.                       *)

(* gone_away read, then set in a second step elsewhere: both callers go on. *)
CloseLoadFlag(c) ==
  /\ closerPc[c] = "idle"
  /\ closerPc' = [closerPc EXCEPT ![c] = IF goneAway THEN "refused" ELSE "load"]
  /\ UNCHANGED <<readVars, streams, lastClientStreamId, goneAway, closed, outVars,
                 workerVars, streamVars, lastGood>>
(* gone_away.swap(true).                                                   *)
CloseSwap(c) ==
  /\ closerPc[c] = "idle"
  /\ closerPc' = [closerPc EXCEPT ![c] = IF goneAway THEN "refused" ELSE "load"]
  /\ goneAway' = TRUE
  /\ UNCHANGED <<readVars, streams, lastClientStreamId, closed, outVars,
                 workerVars, streamVars, lastGood>>

CloseLoadLast(c) ==
  /\ closerPc[c] = "load"
  /\ lastGood' = [lastGood EXCEPT ![c] = lastClientStreamId]
  /\ closerPc' = [closerPc EXCEPT ![c] = "send"]
  /\ UNCHANGED <<readVars, streams, lastClientStreamId, goneAway, closed, outVars,
                 workerVars, streamVars>>

CloseSendGoAway(c) ==
  /\ closerPc[c] = "send" /\ ChannelSend(GoAway(lastGood[c]))
  /\ closerPc' = [closerPc EXCEPT ![c] = "broadcast"]
  /\ UNCHANGED <<readVars, streams, lastClientStreamId, goneAway, closed,
                 written, writer, workerVars, streamVars, lastGood>>

CloseBroadcast(c) ==
  /\ closerPc[c] = "broadcast"
  /\ closed' = TRUE
  /\ closerPc' = [closerPc EXCEPT ![c] = "drain"]
  /\ UNCHANGED <<readVars, streams, lastClientStreamId, goneAway, outVars,
                 workerVars, streamVars, lastGood>>

(* A drain without its timeout.                                            *)
CloseReturnNoTimeout(c) ==
  /\ closerPc[c] = "drain" /\ streams = {}
  /\ closerPc' = [closerPc EXCEPT ![c] = "returned"]
  /\ UNCHANGED <<readVars, streams, lastClientStreamId, goneAway, closed, outVars,
                 workerVars, streamVars, lastGood>>
(* The drain loop sees the map empty, or CLOSE_DRAIN_TIMEOUT passes: the    *)
(* two returns cannot be told apart, and the second may come at any time.  *)
CloseReturn(c) ==
  /\ closerPc[c] = "drain"
  /\ closerPc' = [closerPc EXCEPT ![c] = "returned"]
  /\ UNCHANGED <<readVars, streams, lastClientStreamId, goneAway, closed, outVars,
                 workerVars, streamVars, lastGood>>

(* The caller drops the future of close() at one of its awaits.            *)
CloseDropped(c) ==
  /\ closerPc[c] \in {"send", "drain"}
  /\ closerPc' = [closerPc EXCEPT ![c] = "dropped"]
  /\ UNCHANGED <<readVars, streams, lastClientStreamId, goneAway, closed, outVars,
                 workerVars, streamVars, lastGood>>

----------------------------------------------------------------------------
Client ==
  \/ \E f \in ClientFrames :
       \/ ReadSynStream(f) \/ ReadStreamFrame(f) \/ ReadPing(f)
       \/ ReadIgnored(f)   \/ ReadGoAway(f)
  \/ ReadFail

ReadTask ==
  \/ RegisterStream \/ StoreLastId \/ Dispatch \/ SendReply
  \/ BroadcastGoAway \/ CloseStreams \/ EndRead

Worker(w) ==
  \/ WorkerSynStream(w) \/ WorkerData(w) \/ WorkerHeaders(w) \/ WorkerFin(w)
  \/ WorkerRst(w) \/ WorkerRemove(w)

Closer(c) ==
  \/ CloseLoadLast(c) \/ CloseSendGoAway(c) \/ CloseBroadcast(c) \/ CloseReturn(c)

Next ==
  \/ Client \/ ReadTask
  \/ \E w \in Workers : Worker(w)
  \/ WriteFrame \/ WriteFail
  \/ \E c \in Closers : CloseSwap(c) \/ Closer(c) \/ CloseDropped(c)

(* Every task keeps running: a step that stays possible is taken.  The      *)
(* client need not send, nothing need fail, nobody need call close or drop  *)
(* it, and the write task may block for ever on a peer that stops reading.  *)
Fairness ==
  /\ WF_vars(ReadTask)
  /\ \A w \in Workers : WF_vars(Worker(w))
  /\ \A c \in Closers : WF_vars(Closer(c))

Spec == Init /\ [][Next]_vars

FairSpec == Spec /\ Fairness

----------------------------------------------------------------------------
ReadPcs   == {"read", "register", "store", "dispatch", "reply", "broadcast",
              "closing", "closed", "done"}
CloserPcs == {"idle", "refused", "load", "send", "broadcast", "drain", "returned",
              "dropped"}

(* Types of the variables, and the two channels never above capacity.      *)
TypeOK ==
  /\ readPc \in ReadPcs /\ nread \in Nat /\ cur \in Frame /\ reply \in OutFrame
  /\ streams \subseteq StreamIds /\ lastClientStreamId \in Nat
  /\ goneAway \in BOOLEAN /\ closed \in BOOLEAN
  /\ out \in Seq(OutFrame) /\ written \in 0 .. Len(out)
  /\ Len(out) - written <= WriteCap
  /\ writer \in {"running", "stopped"}
  /\ workerQ \in [Workers -> Seq(Frame)]
  /\ \A w \in Workers : Len(workerQ[w]) <= WorkerCap
  /\ workerPc \in [Workers -> {"recv", "fin", "remove"}]
  /\ workerCur \in [Workers -> Frame]
  /\ accepted \subseteq StreamIds
  /\ spawned \in [StreamIds -> Nat]
  /\ received \in [StreamIds -> Seq(Nat)]
  /\ remoteClosed \in [StreamIds -> BOOLEAN]
  /\ closerPc \in [Closers -> CloserPcs]
  /\ lastGood \in [Closers -> Nat]

(* The branch of the read task that awaits the frame channel while it holds *)
(* the lock of the streams map (and would stall every worker that handles a *)
(* reset) is never taken: a StreamInUse reset is never sent.                *)
NoStreamInUse ==
  /\ reply.status # "StreamInUse"
  /\ \A i \in DOMAIN out : out[i].status # "StreamInUse"

(* However often the client repeats an id, reset streams included, the      *)
(* handler runs at most once for it, and only for a registered stream.      *)
HandlerAtMostOnce ==
  \A s \in StreamIds : spawned[s] <= 1 /\ (spawned[s] = 1 => s \in accepted)

(* Each stream is handed its Data frames in the order the client sent them, *)
(* although several tasks stand between the socket and the stream.          *)
ReceivedInOrder ==
  \A s \in StreamIds : \A i, j \in DOMAIN received[s] :
    i < j => received[s][i] < received[s][j]

(* No Data frame reaches a stream before its handler has been started.      *)
HandlerBeforeData ==
  \A s \in StreamIds : received[s] # <<>> => spawned[s] > 0

(* A worker marks a stream as closed by the client only when it has handed  *)
(* over every Data frame the client sent on it before the closing frame.    *)
FinAfterData ==
  [][\A s \in StreamIds :
       ~remoteClosed[s] /\ remoteClosed'[s] /\ readPc # "closing" =>
         \E w \in Workers :
           /\ workerCur'[w].id = s
           /\ \A v \in Workers : \A i \in DOMAIN workerQ'[v] :
                workerQ'[v][i].id = s /\ workerQ'[v][i].type = "Data" =>
                  workerQ'[v][i].n > workerCur'[w].n]_vars

(* Whoever calls close(), however often and at whatever point of another    *)
(* call, the client is sent at most one GOAWAY.                             *)
GoAwayAtMostOnce ==
  \A i, j \in DOMAIN out : out[i].type = "GoAway" /\ out[j].type = "GoAway" => i = j

(* The admission check and close() race: a stream that passed the check     *)
(* before the flag was set may be registered after GOAWAY announced the     *)
(* last good id.  It can be no more than one stream.                        *)
AtMostOneBeyondLastGood ==
  \A i \in DOMAIN out : out[i].type = "GoAway" =>
    \A s, t \in accepted : s > out[i].id /\ t > out[i].id => s = t

(* What "Refuse new streams after GoAway" promises: once the client has     *)
(* been told the last good id, no stream above it is ever served.           *)
NothingBeyondLastGood ==
  \A i \in DOMAIN out : out[i].type = "GoAway" =>
    \A s \in accepted : s <= out[i].id

(* When the read task is done no stream is left waiting for the client: all *)
(* that were ever registered are closed, also those a worker was just       *)
(* taking out of the map.                                                   *)
AllClosedAtEnd ==
  readPc \in {"closed", "done"} => \A s \in accepted : remoteClosed[s]

(* Every registered stream gets its handler, even if the peer has stopped   *)
(* reading and the write task never moves again: nothing between the        *)
(* registration and the handler waits for the frame channel.                *)
AcceptedIsServed ==
  \A s \in StreamIds : s \in accepted ~> spawned[s] = 1

(* close() returns as long as the frame channel keeps moving, whatever the  *)
(* client does with its streams.                                            *)
CloseReturns ==
  []<>(ChannelHasRoom \/ writer = "stopped") =>
    \A c \in Closers : closerPc[c] = "load" ~> closerPc[c] \in {"returned", "dropped"}
=============================================================================
