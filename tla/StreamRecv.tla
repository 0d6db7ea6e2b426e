----------------------------- MODULE StreamRecv -----------------------------
(***************************************************************************)
(* The receive half of one stream, src/src/stream.rs: the bounded channel  *)
(* behind push_data, the remote_closed watch behind close_remote, and any  *)
(* number of application tasks inside read_data.                           *)
(*                                                                         *)
(* The environment is what connection.rs does to a stream: the stream's    *)
(* worker pushes a Data frame and then, in a second step, closes when the  *)
(* frame has FIN; a HEADERS, SYN_REPLY or RST_STREAM frame and the end of  *)
(* the read task close as well, the last at any point of the worker's work.*)
(*                                                                         *)
(* One action is one operation on the channel, the watch or the data_rx    *)
(* mutex.  The stream owns data_tx, so the channel is never disconnected   *)
(* while a reader borrows the stream and those branches are left out.      *)
(***************************************************************************)
EXTENDS Integers, Sequences, Functions

CONSTANTS
  Readers,    (* application tasks that call read_data                      *)
  Cap,        (* capacity of the data channel: 64 in the code               *)
  MaxChunks,  (* bound of the model: Data frames of the client              *)
  MaxCloses,  (* bound of the model: calls of close_remote                  *)
  MaxCalls    (* bound of the model: calls of read_data                     *)

ASSUME RecvAssumption ==
  /\ Cap \in Nat \ {0}
  /\ MaxChunks \in Nat /\ MaxCloses \in Nat /\ MaxCalls \in Nat

VARIABLES
  (* Fields of Stream.                                                     *)
  buf,        (* the data channel: chunks, numbered as the client sent them *)
  version,    (* version of the remote_closed watch: its value is TRUE from *)
              (* the first send on                                         *)
  lockQ,      (* the data_rx mutex: its holder, then the tasks waiting, FIFO*)
  (* The worker.                                                           *)
  pushed,     (* chunks given to push_data so far                           *)
  workerPc,   (* "recv", or "fin" between push_data and close_remote        *)
  (* The readers.                                                          *)
  pc,         (* where each reader is in read_data; "idle" outside          *)
  seen,       (* the version each reader's clone of remote_closed_rx has seen*)
  result,     (* what each reader's last call came to                       *)
  ncalls,     (* calls of read_data so far                                  *)
  (* History.                                                              *)
  dropped,    (* chunks that found the channel full                         *)
  delivered,  (* chunks returned by read_data, in order                     *)
  closeMark,  (* the value of `pushed` at the first close_remote            *)
  callMark    (* the value of `pushed` when each reader's call began        *)

workerVars == <<pushed, workerPc>>
readerVars == <<pc, seen, result, ncalls>>
histVars   == <<delivered, callMark>>
vars == <<buf, version, lockQ, pushed, workerPc, pc, seen, result, ncalls,
          dropped, delivered, closeMark, callMark>>

RemoteClosed == version > 0

Init ==
  /\ buf = <<>> /\ version = 0 /\ lockQ = <<>>
  /\ pushed = 0 /\ workerPc = "recv"
  /\ pc = [r \in Readers |-> "idle"]
  /\ seen = [r \in Readers |-> 0]
  /\ result = [r \in Readers |-> "none"]
  /\ ncalls = 0
  /\ dropped = {} /\ delivered = <<>> /\ closeMark = 0
  /\ callMark = [r \in Readers |-> 0]

----------------------------------------------------------------------------
(* The worker and the read task.                                          *)

(* push_data with a channel that has no bound.                             *)
PushUnbounded(fin) ==
  /\ workerPc = "recv" /\ pushed < MaxChunks
  /\ pushed' = pushed + 1
  /\ buf' = Append(buf, pushed + 1) /\ UNCHANGED dropped
  /\ workerPc' = IF fin THEN "fin" ELSE "recv"
  /\ UNCHANGED <<version, lockQ, readerVars, histVars, closeMark>>
(* push_data: try_send, and the chunk is lost when the channel is full.     *)
Push(fin) ==
  /\ workerPc = "recv" /\ pushed < MaxChunks
  /\ pushed' = pushed + 1
  /\ IF Len(buf) < Cap
     THEN buf' = Append(buf, pushed + 1) /\ UNCHANGED dropped
     ELSE dropped' = dropped \cup {pushed + 1} /\ UNCHANGED buf
  /\ workerPc' = IF fin THEN "fin" ELSE "recv"
  /\ UNCHANGED <<version, lockQ, readerVars, histVars, closeMark>>

(* remote_closed_tx.send(true).                                            *)
CloseRemote ==
  /\ version' = version + 1
  /\ closeMark' = IF RemoteClosed THEN closeMark ELSE pushed

PushFin ==
  /\ workerPc = "fin" /\ CloseRemote
  /\ workerPc' = "recv"
  /\ UNCHANGED <<buf, lockQ, pushed, readerVars, dropped, histVars>>

(* A HEADERS or SYN_REPLY frame with FIN, a RST_STREAM, or the end of the   *)
(* read task.                                                              *)
CloseWithoutData ==
  /\ version < MaxCloses /\ CloseRemote
  /\ UNCHANGED <<buf, lockQ, workerVars, readerVars, dropped, histVars>>

----------------------------------------------------------------------------
(* read_data, called by reader r.                                         *)

Holds(r) == lockQ # <<>> /\ Head(lockQ) = r

Goto(r, label) == pc' = [pc EXCEPT ![r] = label]

(* r's call returns, or its future is dropped: its place in the mutex is    *)
(* given up, and the mutex goes to the next.                               *)
Leave(r, outcome) ==
  /\ Goto(r, "idle")
  /\ result' = [result EXCEPT ![r] = outcome]
  /\ \E i \in DOMAIN lockQ :
       /\ lockQ[i] = r
       /\ lockQ' = SubSeq(lockQ, 1, i - 1) \o SubSeq(lockQ, i + 1, Len(lockQ))

(* r takes the first chunk of the channel and returns it.                  *)
Deliver(r) ==
  /\ delivered' = Append(delivered, Head(buf))
  /\ buf' = Tail(buf)
  /\ Leave(r, "data")

Call(r) ==
  /\ pc[r] = "idle" /\ ncalls < MaxCalls
  /\ ncalls' = ncalls + 1
  /\ callMark' = [callMark EXCEPT ![r] = pushed]
  /\ lockQ' = Append(lockQ, r)
  /\ Goto(r, "lock")
  /\ UNCHANGED <<buf, version, workerVars, seen, result, dropped, delivered,
                 closeMark>>

(* A read that looks at remote_closed before it looks at the channel.       *)
TryRecvSkipped(r) ==
  /\ pc[r] = "lock" /\ Holds(r) /\ Goto(r, "check")
  /\ UNCHANGED <<buf, version, lockQ, workerVars, seen, result, ncalls, dropped,
                 histVars, closeMark>>
(* The mutex is r's: the first try_recv.                                   *)
TryRecv(r) ==
  /\ pc[r] = "lock" /\ Holds(r)
  /\ IF buf # <<>>
     THEN Deliver(r)
     ELSE Goto(r, "check") /\ UNCHANGED <<buf, lockQ, result, delivered>>
  /\ UNCHANGED <<version, workerVars, seen, ncalls, dropped, closeMark, callMark>>

(* remote_closed_rx.borrow().                                              *)
CheckClosed(r) ==
  /\ pc[r] = "check"
  /\ IF RemoteClosed
     THEN Leave(r, "eof")
     ELSE Goto(r, "clone") /\ UNCHANGED <<lockQ, result>>
  /\ UNCHANGED <<buf, version, workerVars, seen, ncalls, dropped, histVars,
                 closeMark>>

(* A receiver that counts every close so far as seen (watch's subscribe).   *)
SubscribeWatch(r) ==
  /\ pc[r] = "clone"
  /\ seen' = [seen EXCEPT ![r] = version]
  /\ Goto(r, "select")
  /\ UNCHANGED <<buf, version, lockQ, workerVars, result, ncalls, dropped,
                 histVars, closeMark>>
(* The clone of remote_closed_rx has seen what the original has, which is   *)
(* nothing: borrow() does not mark a value as seen.                        *)
CloneWatch(r) ==
  /\ pc[r] = "clone"
  /\ seen' = [seen EXCEPT ![r] = 0]
  /\ Goto(r, "select")
  /\ UNCHANGED <<buf, version, lockQ, workerVars, result, ncalls, dropped,
                 histVars, closeMark>>

(* select!: the recv branch.                                               *)
SelectData(r) ==
  /\ pc[r] = "select" /\ buf # <<>>
  /\ Deliver(r)
  /\ UNCHANGED <<version, workerVars, seen, ncalls, dropped, closeMark, callMark>>

(* select!: the changed branch, which also wins when both are ready.       *)
SelectClosed(r) ==
  /\ pc[r] = "select" /\ version > seen[r]
  /\ Goto(r, "drain")
  /\ UNCHANGED <<buf, version, lockQ, workerVars, seen, result, ncalls, dropped,
                 histVars, closeMark>>

(* A changed branch without its try_recv.                                  *)
DrainNothing(r) ==
  /\ pc[r] = "drain" /\ Leave(r, "eof")
  /\ UNCHANGED <<buf, version, workerVars, seen, ncalls, dropped, histVars,
                 closeMark>>
(* A changed branch that receives and answers EOF whatever it received.     *)
DrainDiscards(r) ==
  /\ pc[r] = "drain" /\ Leave(r, "eof")
  /\ buf' = IF buf = <<>> THEN buf ELSE Tail(buf)
  /\ UNCHANGED <<version, workerVars, seen, ncalls, dropped, histVars,
                 closeMark>>
(* The try_recv of the changed branch.                                     *)
Drain(r) ==
  /\ pc[r] = "drain"
  /\ IF buf # <<>>
     THEN Deliver(r)
     ELSE Leave(r, "eof") /\ UNCHANGED <<buf, delivered>>
  /\ UNCHANGED <<version, workerVars, seen, ncalls, dropped, closeMark, callMark>>

(* A dropped future that does not give the mutex, or its place, back.       *)
CancelKeepsMutex(r) ==
  /\ pc[r] \in {"lock", "select"}
  /\ Goto(r, "idle") /\ result' = [result EXCEPT ![r] = "cancelled"]
  /\ UNCHANGED <<buf, version, lockQ, workerVars, seen, ncalls, dropped, histVars,
                 closeMark>>
(* A dropped future that loses the chunk it had received.                  *)
CancelLosesChunk(r) ==
  /\ pc[r] \in {"lock", "select"} /\ Leave(r, "cancelled")
  /\ buf' = IF pc[r] = "select" /\ buf # <<>> THEN Tail(buf) ELSE buf
  /\ UNCHANGED <<version, workerVars, seen, ncalls, dropped, histVars, closeMark>>
(* The caller drops the future of read_data at one of its awaits.          *)
Cancel(r) ==
  /\ pc[r] \in {"lock", "select"} /\ Leave(r, "cancelled")
  /\ UNCHANGED <<buf, version, workerVars, seen, ncalls, dropped, histVars,
                 closeMark>>

----------------------------------------------------------------------------
Reader(r) ==
  \/ TryRecv(r) \/ CheckClosed(r) \/ CloneWatch(r)
  \/ SelectData(r) \/ SelectClosed(r) \/ Drain(r)

Next ==
  \/ \E fin \in BOOLEAN : Push(fin)
  \/ PushFin \/ CloseWithoutData
  \/ \E r \in Readers : Call(r) \/ Reader(r) \/ Cancel(r)

Spec == Init /\ [][Next]_vars

(* A reader that is in a call keeps running and the worker finishes a frame *)
(* it has begun.  Nobody need call, cancel, send or close.                 *)
Fairness ==
  /\ WF_vars(PushFin)
  /\ \A r \in Readers : WF_vars(Reader(r))

FairSpec == Spec /\ Fairness

----------------------------------------------------------------------------
(* The chunks that entered the channel.                                    *)
Accepted == (1 .. pushed) \ dropped

(* Types, the channel within its capacity, and the mutex with the tasks     *)
(* that are inside read_data, past its lock only at the head.               *)
TypeOK ==
  /\ buf \in Seq(Nat) /\ Len(buf) <= Cap
  /\ version \in Nat /\ closeMark \in Nat /\ pushed \in Nat /\ ncalls \in Nat
  /\ workerPc \in {"recv", "fin"}
  /\ pc \in [Readers -> {"idle", "lock", "check", "clone", "select", "drain"}]
  /\ seen \in [Readers -> Nat] /\ callMark \in [Readers -> Nat]
  /\ result \in [Readers -> {"none", "data", "eof", "cancelled"}]
  /\ lockQ \in Seq(Readers)
  /\ \A r \in Readers : pc[r] \notin {"idle", "lock"} => Holds(r)
  /\ dropped \subseteq Nat /\ delivered \in Seq(Nat)

(* Whatever readers, cancellations and closes do to one another, every      *)
(* chunk that found room is, once and in the order of arrival, with a       *)
(* reader or still in the channel.                                         *)
NothingElseLost ==
  LET all == delivered \o buf IN
  /\ Range(all) = Accepted
  /\ \A i, j \in DOMAIN all : i < j => all[i] < all[j]

(* r's call ends in this step with Ok(None).                               *)
ReturnsEof(r) == pc[r] # "idle" /\ pc'[r] = "idle" /\ result'[r] = "eof"

AllDelivered(upTo) == \A n \in Accepted : n <= upTo => n \in Range(delivered)

(* End of stream is never reported ahead of data that was there when the    *)
(* call began: a reader that calls again after a premature None gets the    *)
(* rest.                                                                   *)
EofAccountsForCall ==
  [][\A r \in Readers : ReturnsEof(r) => AllDelivered(callMark[r])]_vars

(* A reader woken by the close reports the end only when it has handed out  *)
(* everything that was pushed before the stream was closed.                *)
EofAfterDrain ==
  [][\A r \in Readers :
       ReturnsEof(r) /\ pc[r] = "drain" => AllDelivered(closeMark)]_vars

(* A call of read_data, with its mutex, its two looks at the channel and    *)
(* its select!, is as good as one step for everybody else.                  *)
Contract == INSTANCE ReadContract WITH
  queue   <- buf,
  closed  <- RemoteClosed,
  calling <- {r \in Readers : pc[r] # "idle"},
  mark    <- callMark,
  answer  <- result
CallsAreAtomic == Contract!Spec

(* What "Returns None on EOF" says of every None: all that came before the  *)
(* close has been read.                                                    *)
EofMeansDrained ==
  [][\A r \in Readers : ReturnsEof(r) => AllDelivered(closeMark)]_vars

(* Once the client has closed, every call of read_data returns, the ones    *)
(* that queue for the mutex behind a waiting reader included.              *)
CloseUnblocksReaders ==
  \A r \in Readers : RemoteClosed /\ pc[r] # "idle" ~> pc[r] = "idle"

(* A chunk does not stay in the channel while somebody waits in read_data.  *)
DataWakesReader ==
  \A n \in 1 .. MaxChunks :
    n \in Range(buf) /\ lockQ # <<>> ~> n \notin Range(buf) \/ lockQ = <<>>
=============================================================================
