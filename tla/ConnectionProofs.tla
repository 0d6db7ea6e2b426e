-------------------------- MODULE ConnectionProofs --------------------------
(***************************************************************************)
(* Theorems about Connection, for every set of stream ids and client       *)
(* frames, every number of workers, all channel capacities and any number  *)
(* of callers of close().                                                  *)
(***************************************************************************)
EXTENDS Connection, TLAPS

(* TypeOK, and that the id about to be registered is one the client may     *)
(* send: what `streams \subseteq StreamIds` needs to be inductive.         *)
TypeInv ==
  /\ TypeOK
  /\ readPc = "register" => cur.id \in StreamIds

(* The index a frame is routed by is one of the workers.                   *)
LEMMA WorkerOfType ==
  ASSUME NEW f \in Frame PROVE WorkerOf(f) \in Workers
  BY ConnectionAssumption DEF Frame, WorkerOf, Workers

(* Updating a function at one place keeps its type when the new value has   *)
(* the type, which matters only for a place in its domain.                 *)
LEMMA ExceptType ==
  ASSUME NEW S, NEW T, NEW g \in [S -> T], NEW x, NEW e, x \in S => e \in T
  PROVE  [g EXCEPT ![x] = e] \in [S -> T]
  OBVIOUS

(* The initial state is well typed.                                        *)
LEMMA TypeInit == Init => TypeInv
  <1>. SUFFICES ASSUME Init PROVE TypeInv
    OBVIOUS
  <1>1. NoFrame \in Frame /\ Settings \in OutFrame
    BY DEF NoFrame, Frame, FrameTypes, Settings, OutFrame
  <1>2. out \in Seq(OutFrame) /\ Len(out) = 1
    BY <1>1 DEF Init
  <1>3. /\ workerQ \in [Workers -> Seq(Frame)]
        /\ \A w \in Workers : Len(workerQ[w]) <= WorkerCap
    BY ConnectionAssumption DEF Init
  <1>4. received \in [StreamIds -> Seq(Nat)]
    BY DEF Init
  <1>5. Len(out) - written <= WriteCap
    BY <1>2, ConnectionAssumption DEF Init
  <1>6. written \in 0 .. Len(out)
    BY <1>2 DEF Init
  <1>7. QED
    BY <1>1, <1>2, <1>3, <1>4, <1>5, <1>6
    DEF Init, TypeInv, TypeOK, ReadPcs, CloserPcs

(* A send on the frame channel keeps it a sequence of frames, no longer     *)
(* than its capacity beyond what the write task has taken.                 *)
LEMMA ChannelSendType ==
  ASSUME TypeOK, NEW f \in OutFrame, ChannelSend(f)
  PROVE  /\ out' \in Seq(OutFrame)
         /\ written \in 0 .. Len(out')
         /\ Len(out') - written <= WriteCap
  <1>1. /\ out \in Seq(OutFrame) /\ written \in 0 .. Len(out)
        /\ Len(out) - written <= WriteCap /\ WriteCap \in Nat
    BY ConnectionAssumption DEF TypeOK
  <1>2. CASE ChannelHasRoom /\ out' = Append(out, f)
    <2>1. out' \in Seq(OutFrame) /\ Len(out') = Len(out) + 1
      BY <1>1, <1>2
    <2>2. QED
      BY <1>1, <1>2, <2>1 DEF ChannelHasRoom
  <1>3. CASE UNCHANGED out
    BY <1>1, <1>3
  <1>4. QED
    BY <1>2, <1>3 DEF ChannelSend

(* A frame taken from the client is well typed.                            *)
LEMMA TakeType ==
  ASSUME TypeOK, NEW f \in ClientFrames, Take(f)
  PROVE  /\ nread' \in Nat
         /\ cur' \in Frame
         /\ cur'.id = f.id
         /\ cur'.id \in StreamIds
  <1>1. /\ f.type \in FrameTypes /\ f.id \in StreamIds /\ f.id \in Nat
        /\ f.fin \in BOOLEAN
    BY ConnectionAssumption
  <1>2. nread + 1 \in Nat
    BY DEF TypeOK
  <1>3. QED
    BY <1>1, <1>2 DEF Take, Frame

(* Receiving keeps the worker channels and the frames in hand well typed.   *)
LEMMA ReceiveType ==
  ASSUME TypeOK, NEW w \in Workers, NEW pc \in {"recv", "fin", "remove"}, Receive(w, pc)
  PROVE  /\ workerQ' \in [Workers -> Seq(Frame)]
         /\ \A v \in Workers : Len(workerQ'[v]) <= WorkerCap
         /\ workerPc' \in [Workers -> {"recv", "fin", "remove"}]
         /\ workerCur' \in [Workers -> Frame]
         /\ Head(workerQ[w]) \in Frame
  <1>1. workerQ[w] \in Seq(Frame) /\ workerQ[w] # <<>> /\ Len(workerQ[w]) <= WorkerCap
    BY DEF TypeOK, Receive
  <1>2. /\ Head(workerQ[w]) \in Frame
        /\ Tail(workerQ[w]) \in Seq(Frame)
        /\ Len(Tail(workerQ[w])) <= WorkerCap
    BY <1>1, ConnectionAssumption
  <1>3. QED
    BY <1>1, <1>2 DEF TypeOK, Receive

----------------------------------------------------------------------------
(* Every step keeps the types.                                             *)
LEMMA TypeStep == TypeInv /\ [Next]_vars => TypeInv'
  <1>. SUFFICES ASSUME TypeInv, [Next]_vars PROVE TypeInv'
    OBVIOUS
  <1>. USE DEF TypeInv, TypeOK, ReadPcs, CloserPcs, readVars, outVars, workerVars,
               streamVars, closerVars
  <1>1. ASSUME NEW f \in ClientFrames, ReadSynStream(f) PROVE TypeInv'
    <2>1. f.id \in Nat
      BY ConnectionAssumption
    <2>2. /\ Rst(f.id, "ProtocolError") \in OutFrame
          /\ Rst(f.id, "RefusedStream") \in OutFrame
      BY <2>1 DEF Rst, OutFrame
    <2>3. QED
      BY <1>1, <2>2, TakeType DEF ReadSynStream, Take
  <1>2. ASSUME NEW f \in ClientFrames, ReadStreamFrame(f) PROVE TypeInv'
    <2>1. Rst(f.id, "InvalidStream") \in OutFrame
      BY ConnectionAssumption DEF Rst, OutFrame
    <2>2. QED
      BY <1>2, <2>1, TakeType DEF ReadStreamFrame, Take
  <1>3. ASSUME NEW f \in ClientFrames, ReadPing(f) PROVE TypeInv'
    <2>1. PingEcho(f.id) \in OutFrame
      BY ConnectionAssumption DEF PingEcho, OutFrame
    <2>2. QED
      BY <1>3, <2>1, TakeType DEF ReadPing, Take
  <1>4. ASSUME NEW f \in ClientFrames, ReadIgnored(f) PROVE TypeInv'
    BY <1>4, TakeType DEF ReadIgnored, Take
  <1>5. ASSUME NEW f \in ClientFrames, ReadGoAway(f) PROVE TypeInv'
    BY <1>5, TakeType DEF ReadGoAway, Take
  <1>6. CASE ReadFail
    BY <1>6 DEF ReadFail
  <1>7. CASE RegisterStream
    <2>1. Rst(cur.id, "StreamInUse") \in OutFrame
      BY DEF Rst, OutFrame, Frame
    <2>2. QED
      BY <1>7, <2>1 DEF RegisterStream
  <1>8. CASE StoreLastId
    BY <1>8 DEF StoreLastId, Frame
  <1>9. CASE Dispatch
    <2>1. WorkerOf(cur) \in Workers
      BY WorkerOfType
    <2>2. Append(workerQ[WorkerOf(cur)], cur) \in Seq(Frame)
      BY <2>1
    <2>3. Len(Append(workerQ[WorkerOf(cur)], cur)) <= WorkerCap
      BY <1>9, <2>1, ConnectionAssumption DEF Dispatch
    <2>4. QED
      BY <1>9, <2>1, <2>2, <2>3 DEF Dispatch
  <1>10. CASE SendReply
    BY <1>10, ChannelSendType DEF SendReply
  <1>11. CASE BroadcastGoAway
    BY <1>11 DEF BroadcastGoAway
  <1>12. CASE CloseStreams
    BY <1>12 DEF CloseStreams
  <1>13. CASE EndRead
    BY <1>13 DEF EndRead
  <1>14. ASSUME NEW w \in Workers, WorkerSynStream(w) PROVE TypeInv'
    <2>1. Receive(w, "recv")
      BY <1>14 DEF WorkerSynStream
    <2>2. spawned' \in [StreamIds -> Nat]
      <3>1. PICK s : spawned' = [spawned EXCEPT ![s] = spawned[s] + 1]
        BY <1>14 DEF WorkerSynStream
      <3>2. s \in StreamIds => spawned[s] + 1 \in Nat
        OBVIOUS
      <3>3. QED
        BY <3>1, <3>2
    <2>3. QED
      BY <1>14, <2>1, <2>2, ReceiveType DEF WorkerSynStream
  <1>15. ASSUME NEW w \in Workers, WorkerData(w) PROVE TypeInv'
    <2>1. Receive(w, IF Head(workerQ[w]).fin THEN "fin" ELSE "recv")
      BY <1>15 DEF WorkerData
    <2>2. Head(workerQ[w]).n \in Nat
      BY <2>1, ReceiveType DEF Frame
    <2>3. received' \in [StreamIds -> Seq(Nat)]
      <3>1. PICK s : received' =
                       [received EXCEPT ![s] = Append(received[s], Head(workerQ[w]).n)]
        BY <1>15 DEF WorkerData
      <3>2. s \in StreamIds => Append(received[s], Head(workerQ[w]).n) \in Seq(Nat)
        BY <2>2
      <3>3. QED
        BY <3>1, <3>2, ExceptType
    <2>4. QED
      BY <1>15, <2>1, <2>3, ReceiveType DEF WorkerData
  <1>16. ASSUME NEW w \in Workers, WorkerHeaders(w) PROVE TypeInv'
    BY <1>16, ReceiveType DEF WorkerHeaders
  <1>17. ASSUME NEW w \in Workers, WorkerFin(w) PROVE TypeInv'
    BY <1>17 DEF WorkerFin
  <1>18. ASSUME NEW w \in Workers, WorkerRst(w) PROVE TypeInv'
    <2>1. Receive(w, "remove")
      BY <1>18 DEF WorkerRst
    <2>2. remoteClosed' \in [StreamIds -> BOOLEAN]
      <3>1. PICK s : remoteClosed' = [remoteClosed EXCEPT ![s] = TRUE]
        BY <1>18 DEF WorkerRst
      <3>2. QED
        BY <3>1, ExceptType
    <2>3. QED
      BY <1>18, <2>1, <2>2, ReceiveType DEF WorkerRst
  <1>19. ASSUME NEW w \in Workers, WorkerRemove(w) PROVE TypeInv'
    BY <1>19 DEF WorkerRemove
  <1>20. CASE WriteFrame
    <2>1. written' \in 0 .. Len(out) /\ Len(out) - written' <= WriteCap
      <3>1. Len(out) \in Nat /\ WriteCap \in Nat
        BY ConnectionAssumption
      <3>2. written \in 0 .. Len(out) /\ written < Len(out) /\ written' = written + 1
        BY <1>20 DEF WriteFrame
      <3>3. Len(out) - written <= WriteCap
        OBVIOUS
      <3>4. QED
        BY <3>1, <3>2, <3>3
    <2>2. QED
      BY <1>20, <2>1 DEF WriteFrame
  <1>21. CASE WriteFail
    BY <1>21 DEF WriteFail
  <1>22. ASSUME NEW c \in Closers, CloseSwap(c) PROVE TypeInv'
    BY <1>22 DEF CloseSwap
  <1>23. ASSUME NEW c \in Closers, CloseLoadLast(c) PROVE TypeInv'
    BY <1>23 DEF CloseLoadLast
  <1>24. ASSUME NEW c \in Closers, CloseSendGoAway(c) PROVE TypeInv'
    <2>1. GoAway(lastGood[c]) \in OutFrame
      BY DEF GoAway, OutFrame
    <2>2. QED
      BY <1>24, <2>1, ChannelSendType DEF CloseSendGoAway
  <1>25. ASSUME NEW c \in Closers, CloseBroadcast(c) PROVE TypeInv'
    BY <1>25 DEF CloseBroadcast
  <1>26. ASSUME NEW c \in Closers, CloseReturn(c) PROVE TypeInv'
    BY <1>26 DEF CloseReturn
  <1>27. ASSUME NEW c \in Closers, CloseDropped(c) PROVE TypeInv'
    BY <1>27 DEF CloseDropped
  <1>28. CASE UNCHANGED vars
    BY <1>28 DEF vars
  <1>29. QED
    BY <1>1, <1>2, <1>3, <1>4, <1>5, <1>6, <1>7, <1>8, <1>9, <1>10, <1>11, <1>12,
       <1>13, <1>14, <1>15, <1>16, <1>17, <1>18, <1>19, <1>20, <1>21, <1>22, <1>23,
       <1>24, <1>25, <1>26, <1>27, <1>28
    DEF Next, Client, ReadTask, Worker, Closer

(* Types and the bounds of both kinds of channel hold in every run.        *)
THEOREM TypeCorrect == Spec => []TypeOK
  <1>1. TypeInv => TypeOK
    BY DEF TypeInv
  <1>2. QED
    BY TypeInit, TypeStep, <1>1, PTL DEF Spec

----------------------------------------------------------------------------
(* Stream ids.                                                             *)

(* last_client_stream_id bounds the ids registered so far, but for the one  *)
(* the read task has put into the map and not yet stored; an id that passed *)
(* the check is above it until it is stored.                               *)
IdInv ==
  /\ streams \subseteq accepted
  /\ \A s \in accepted :
       s <= lastClientStreamId \/ (readPc = "store" /\ s = cur.id)
  /\ readPc \in {"register", "store"} => cur.id > lastClientStreamId
  /\ NoStreamInUse

LEMMA IdInit == Init => IdInv
  BY DEF Init, IdInv, NoStreamInUse, Settings

(* A send on the frame channel adds at most the frame at the end.          *)
LEMMA ChannelSendEntries ==
  ASSUME TypeOK, NEW f \in OutFrame, ChannelSend(f)
  PROVE  /\ DOMAIN out' = 1 .. Len(out')
         /\ Len(out') \in {Len(out), Len(out) + 1}
         /\ \A i \in DOMAIN out : i \in DOMAIN out' /\ out'[i] = out[i]
         /\ \A i \in DOMAIN out' \ DOMAIN out : i = Len(out) + 1 /\ out'[i] = f
  <1>1. out \in Seq(OutFrame)
    BY DEF TypeOK
  <1>2. CASE out' = Append(out, f)
    BY <1>1, <1>2
  <1>3. CASE UNCHANGED out
    BY <1>1, <1>3
  <1>4. QED
    BY <1>2, <1>3 DEF ChannelSend

(* No step registers an id twice or reaches the StreamInUse branch.        *)
LEMMA IdStep == TypeInv /\ IdInv /\ [Next]_vars => IdInv'
  <1>. SUFFICES ASSUME TypeInv, IdInv, [Next]_vars PROVE IdInv'
    OBVIOUS
  <1>. USE DEF IdInv, NoStreamInUse, readVars, outVars, workerVars, streamVars, closerVars
  <1>t. TypeOK /\ cur.id \in Nat /\ lastClientStreamId \in Nat
    BY DEF TypeInv, TypeOK, Frame
  <1>1. ASSUME NEW f \in ClientFrames, ReadSynStream(f) PROVE IdInv'
    <2>1. cur'.id = f.id
      BY <1>1, <1>t, TakeType DEF ReadSynStream
    <2>2. reply' \in {reply, Rst(f.id, "ProtocolError"), Rst(f.id, "RefusedStream")}
      BY <1>1 DEF ReadSynStream
    <2>3. readPc = "read" /\ readPc' \in {"reply", "register"}
      BY <1>1 DEF ReadSynStream, Take
    <2>4. readPc' = "register" => f.id > lastClientStreamId
      BY <1>1 DEF ReadSynStream, ValidId
    <2>5. QED
      BY <1>1, <2>1, <2>2, <2>3, <2>4 DEF ReadSynStream, Rst
  <1>2. ASSUME NEW f \in ClientFrames,
               ReadStreamFrame(f) \/ ReadPing(f) \/ ReadIgnored(f) \/ ReadGoAway(f)
        PROVE  IdInv'
    <2>1. readPc = "read" /\ readPc' \in {"read", "dispatch", "reply", "broadcast"}
      BY <1>2 DEF ReadStreamFrame, ReadPing, ReadIgnored, ReadGoAway, Take
    <2>2. reply' \in {reply, Rst(f.id, "InvalidStream"), PingEcho(f.id)}
      BY <1>2 DEF ReadStreamFrame, ReadPing, ReadIgnored, ReadGoAway
    <2>3. UNCHANGED <<streams, lastClientStreamId, accepted, out>>
      BY <1>2 DEF ReadStreamFrame, ReadPing, ReadIgnored, ReadGoAway
    <2>4. QED
      BY <2>1, <2>2, <2>3 DEF Rst, PingEcho
  <1>3. CASE RegisterStream
    <2>1. cur.id \notin streams
      BY <1>3, <1>t DEF RegisterStream
    <2>2. QED
      BY <1>3, <2>1 DEF RegisterStream
  <1>4. CASE StoreLastId
    <2>1. accepted \subseteq Nat
      BY <1>t, ConnectionAssumption DEF TypeOK
    <2>2. /\ readPc = "store" /\ readPc' = "dispatch" /\ lastClientStreamId' = cur.id
          /\ UNCHANGED <<cur, reply, streams, accepted, out>>
      BY <1>4 DEF StoreLastId
    <2>3. \A s \in accepted : s <= cur.id
      BY <1>t, <2>1, <2>2
    <2>4. QED
      BY <2>2, <2>3
  <1>5. CASE SendReply
    <2>1. \A i \in DOMAIN out' : out'[i].status # "StreamInUse"
      <3>1. reply \in OutFrame
        BY <1>t DEF TypeOK
      <3>2. QED
        BY <1>5, <1>t, <3>1, ChannelSendEntries DEF SendReply
    <2>2. QED
      BY <1>5, <2>1 DEF SendReply
  <1>6. ASSUME NEW c \in Closers, CloseSendGoAway(c) PROVE IdInv'
    <2>1. GoAway(lastGood[c]) \in OutFrame /\ GoAway(lastGood[c]).status = "None"
      BY <1>t DEF GoAway, OutFrame, TypeOK
    <2>2. \A i \in DOMAIN out' : out'[i].status # "StreamInUse"
      BY <1>6, <1>t, <2>1, ChannelSendEntries DEF CloseSendGoAway
    <2>3. QED
      BY <1>6, <2>2 DEF CloseSendGoAway
  <1>7. ASSUME Dispatch \/ BroadcastGoAway \/ CloseStreams \/ EndRead \/ ReadFail
        PROVE  IdInv'
    <2>1. readPc # "store" /\ readPc' \notin {"register", "store"}
      BY <1>7 DEF Dispatch, BroadcastGoAway, CloseStreams, EndRead, ReadFail
    <2>2. UNCHANGED <<cur, reply, streams, lastClientStreamId, accepted, out>>
      BY <1>7 DEF Dispatch, BroadcastGoAway, CloseStreams, EndRead, ReadFail
    <2>3. QED
      BY <2>1, <2>2
  <1>8. ASSUME NEW w \in Workers, Worker(w) PROVE IdInv'
    <2>1. streams' \subseteq streams
      BY <1>8 DEF Worker, WorkerSynStream, WorkerData, WorkerHeaders, WorkerFin,
                  WorkerRst, WorkerRemove
    <2>2. UNCHANGED <<readPc, cur, reply, lastClientStreamId, accepted, out>>
      BY <1>8 DEF Worker, WorkerSynStream, WorkerData, WorkerHeaders, WorkerFin,
                  WorkerRst, WorkerRemove
    <2>3. QED
      BY <2>1, <2>2
  <1>9. ASSUME NEW c \in Closers,
               CloseSwap(c) \/ CloseLoadLast(c) \/ CloseBroadcast(c) \/ CloseReturn(c)
                 \/ CloseDropped(c)
        PROVE  IdInv'
    BY <1>9 DEF CloseSwap, CloseLoadLast, CloseBroadcast, CloseReturn, CloseDropped
  <1>10. CASE WriteFrame \/ WriteFail \/ UNCHANGED vars
    BY <1>10 DEF WriteFrame, WriteFail, vars
  <1>11. QED
    BY <1>1, <1>2, <1>3, <1>4, <1>5, <1>6, <1>7, <1>8, <1>9, <1>10
    DEF Next, Client, ReadTask, Closer

(* The critical section that would hold the lock of the streams map while   *)
(* it waits for the frame channel is unreachable.                          *)
THEOREM StreamNeverInUse == Spec => []NoStreamInUse
  <1>1. IdInv => NoStreamInUse
    BY DEF IdInv
  <1>2. QED
    BY TypeInit, TypeStep, IdInit, IdStep, <1>1, PTL DEF Spec

----------------------------------------------------------------------------
(* GOAWAY.                                                                 *)

(* c has won the swap of gone_away, and c may have sent its GOAWAY.        *)
Active(c)    == closerPc[c] \notin {"idle", "refused"}
Announced(c) == closerPc[c] \in {"broadcast", "drain", "returned", "dropped"}

(* One caller of close() at most gets past the swap, and a GOAWAY in the    *)
(* channel is that caller's, who is past its send.                         *)
GoAwayInv ==
  /\ \A c, d \in Closers : Active(c) /\ Active(d) => c = d
  /\ \A c \in Closers : Active(c) => goneAway
  /\ \A i \in DOMAIN out : out[i].type = "GoAway" => \E c \in Closers : Announced(c)
  /\ reply.type # "GoAway"
  /\ GoAwayAtMostOnce

LEMMA GoAwayInit == Init => GoAwayInv
  BY DEF Init, GoAwayInv, GoAwayAtMostOnce, Active, Announced, Settings

LEMMA GoAwayStep == TypeInv /\ GoAwayInv /\ [Next]_vars => GoAwayInv'
  <1>. SUFFICES ASSUME TypeInv, GoAwayInv, [Next]_vars PROVE GoAwayInv'
    OBVIOUS
  <1>. USE DEF GoAwayInv, GoAwayAtMostOnce, Active, Announced, readVars, outVars,
               workerVars, streamVars, closerVars
  <1>t. /\ TypeOK /\ out \in Seq(OutFrame) /\ reply \in OutFrame
        /\ closerPc \in [Closers -> CloserPcs] /\ lastGood \in [Closers -> Nat]
    BY DEF TypeInv, TypeOK
  <1>1. ASSUME NEW f \in ClientFrames,
               ReadSynStream(f) \/ ReadStreamFrame(f) \/ ReadPing(f) \/ ReadIgnored(f)
                 \/ ReadGoAway(f)
        PROVE  GoAwayInv'
    <2>1. reply' \in {reply, Rst(f.id, "ProtocolError"), Rst(f.id, "RefusedStream"),
                      Rst(f.id, "InvalidStream"), PingEcho(f.id)}
      BY <1>1 DEF ReadSynStream, ReadStreamFrame, ReadPing, ReadIgnored, ReadGoAway
    <2>2. reply'.type # "GoAway"
      BY <2>1 DEF Rst, PingEcho
    <2>3. UNCHANGED <<out, closerPc>> /\ (goneAway => goneAway')
      BY <1>1 DEF ReadSynStream, ReadStreamFrame, ReadPing, ReadIgnored, ReadGoAway
    <2>4. QED
      BY <2>2, <2>3
  <1>2. CASE RegisterStream
    BY <1>2 DEF RegisterStream, Rst
  <1>3. CASE SendReply
    <2>1. \A i \in DOMAIN out' :
            out'[i].type = "GoAway" => i \in DOMAIN out /\ out[i] = out'[i]
      BY <1>3, <1>t, ChannelSendEntries DEF SendReply
    <2>2. QED
      BY <1>3, <2>1 DEF SendReply
  <1>4. ASSUME NEW c \in Closers, CloseSwap(c) PROVE GoAwayInv'
    <2>1. CASE goneAway
      BY <1>4, <1>t, <2>1 DEF CloseSwap
    <2>2. CASE ~goneAway
      BY <1>4, <1>t, <2>2 DEF CloseSwap
    <2>3. QED
      BY <2>1, <2>2
  <1>5. ASSUME NEW c \in Closers, CloseSendGoAway(c) PROVE GoAwayInv'
    <2>1. closerPc[c] = "send" /\ closerPc' = [closerPc EXCEPT ![c] = "broadcast"]
      BY <1>5 DEF CloseSendGoAway
    <2>2. \A i \in DOMAIN out : out[i].type # "GoAway"
      BY <2>1
    <2>3. GoAway(lastGood[c]) \in OutFrame
      BY <1>t DEF GoAway, OutFrame
    <2>4. \A i \in DOMAIN out' : out'[i].type = "GoAway" => i = Len(out) + 1
      BY <1>5, <1>t, <2>2, <2>3, ChannelSendEntries DEF CloseSendGoAway
    <2>5. QED
      BY <1>5, <1>t, <2>1, <2>4 DEF CloseSendGoAway
  <1>6. ASSUME NEW c \in Closers,
               CloseLoadLast(c) \/ CloseBroadcast(c) \/ CloseReturn(c) \/ CloseDropped(c)
        PROVE  GoAwayInv'
    <2>1. /\ Active(c)
          /\ \A d \in Closers \ {c} : closerPc'[d] = closerPc[d]
          /\ closerPc'[c] \in CloserPcs \ {"idle", "refused"}
          /\ Announced(c) => closerPc'[c] \in {"broadcast", "drain", "returned", "dropped"}
      BY <1>6, <1>t
      DEF CloseLoadLast, CloseBroadcast, CloseReturn, CloseDropped, CloserPcs
    <2>2. UNCHANGED <<out, reply, goneAway>>
      BY <1>6 DEF CloseLoadLast, CloseBroadcast, CloseReturn, CloseDropped
    <2>3. QED
      BY <2>1, <2>2
  <1>7. CASE StoreLastId \/ Dispatch \/ BroadcastGoAway \/ CloseStreams \/ EndRead
               \/ ReadFail
    BY <1>7
    DEF StoreLastId, Dispatch, BroadcastGoAway, CloseStreams, EndRead, ReadFail
  <1>8. ASSUME NEW w \in Workers, Worker(w) PROVE GoAwayInv'
    BY <1>8 DEF Worker, WorkerSynStream, WorkerData, WorkerHeaders, WorkerFin,
                WorkerRst, WorkerRemove
  <1>9. CASE WriteFrame \/ WriteFail \/ UNCHANGED vars
    BY <1>9 DEF WriteFrame, WriteFail, vars
  <1>10. QED
    BY <1>1, <1>2, <1>3, <1>4, <1>5, <1>6, <1>7, <1>8, <1>9
    DEF Next, Client, ReadTask, Closer

(* The client is told to go away at most once.                             *)
THEOREM OneGoAway == Spec => []GoAwayAtMostOnce
  <1>1. GoAwayInv => GoAwayAtMostOnce
    BY DEF GoAwayInv
  <1>2. QED
    BY TypeInit, TypeStep, GoAwayInit, GoAwayStep, <1>1, PTL DEF Spec

----------------------------------------------------------------------------
(* The race between the admission of a stream and close().                 *)

(* At most one registered id is above b, and while the read task still      *)
(* holds an admitted one, none is.                                         *)
OneBeyond(b) ==
  /\ \A s, t \in accepted : s > b /\ t > b => s = t
  /\ readPc = "register" => \A s \in accepted : ~(s > b)

(* So it is with every last good id that has been loaded or announced.     *)
LastGoodInv ==
  /\ \A c \in Closers : closerPc[c] = "send" => OneBeyond(lastGood[c])
  /\ \A i \in DOMAIN out : out[i].type = "GoAway" => OneBeyond(out[i].id)

LEMMA LastGoodInit == Init => LastGoodInv
  BY DEF Init, LastGoodInv, Settings

(* A step that neither admits nor registers a stream keeps OneBeyond.      *)
LEMMA OneBeyondKept ==
  ASSUME NEW b, OneBeyond(b), UNCHANGED accepted,
         readPc' = "register" => readPc = "register"
  PROVE  OneBeyond(b)'
  BY DEF OneBeyond

(* Registering the one admitted stream keeps it too: none was above b.     *)
LEMMA OneBeyondRegister ==
  ASSUME NEW b, OneBeyond(b), RegisterStream
  PROVE  OneBeyond(b)'
  <1>1. readPc = "register" /\ readPc' # "register"
    BY DEF RegisterStream
  <1>2. \A s \in accepted : ~(s > b)
    BY <1>1 DEF OneBeyond
  <1>3. accepted' \subseteq accepted \cup {cur.id}
    BY DEF RegisterStream
  <1>4. \A s \in accepted' : s > b => s = cur.id
    BY <1>2, <1>3
  <1>5. QED
    BY <1>1, <1>4 DEF OneBeyond

LEMMA LastGoodStep ==
  TypeInv /\ IdInv /\ GoAwayInv /\ LastGoodInv /\ [Next]_vars => LastGoodInv'
  <1>. SUFFICES ASSUME TypeInv, IdInv, GoAwayInv, LastGoodInv, [Next]_vars
                PROVE  LastGoodInv'
    OBVIOUS
  <1>. USE DEF LastGoodInv, readVars, outVars, workerVars, streamVars, closerVars
  <1>t. /\ TypeOK /\ out \in Seq(OutFrame) /\ reply \in OutFrame
        /\ closerPc \in [Closers -> CloserPcs] /\ lastGood \in [Closers -> Nat]
        /\ accepted \subseteq Nat /\ lastClientStreamId \in Nat
    BY ConnectionAssumption DEF TypeInv, TypeOK
  <1>1. ASSUME NEW f \in ClientFrames, ReadSynStream(f) PROVE LastGoodInv'
    <2>1. CASE goneAway
      <3>1. readPc' # "register" /\ UNCHANGED <<accepted, out, closerPc, lastGood>>
        BY <1>1, <2>1 DEF ReadSynStream
      <3>2. QED
        BY <3>1, OneBeyondKept
    <2>2. CASE ~goneAway
      <3>1. \A c \in Closers : closerPc[c] # "send"
        BY <2>2 DEF GoAwayInv, Active
      <3>2. \A i \in DOMAIN out : out[i].type # "GoAway"
        BY <2>2 DEF GoAwayInv, Active, Announced
      <3>3. UNCHANGED <<out, closerPc>>
        BY <1>1 DEF ReadSynStream
      <3>4. QED
        BY <3>1, <3>2, <3>3
    <2>3. QED
      BY <2>1, <2>2
  <1>2. CASE RegisterStream
    <2>1. UNCHANGED <<out, closerPc, lastGood>>
      BY <1>2 DEF RegisterStream
    <2>2. QED
      BY <1>2, <2>1, OneBeyondRegister
  <1>3. ASSUME NEW f \in ClientFrames,
               ReadStreamFrame(f) \/ ReadPing(f) \/ ReadIgnored(f) \/ ReadGoAway(f)
        PROVE  LastGoodInv'
    <2>1. readPc' # "register" /\ UNCHANGED <<accepted, out, closerPc, lastGood>>
      BY <1>3 DEF ReadStreamFrame, ReadPing, ReadIgnored, ReadGoAway, Take
    <2>2. QED
      BY <2>1, OneBeyondKept
  <1>4. CASE SendReply
    <2>1. \A i \in DOMAIN out' :
            out'[i].type = "GoAway" => i \in DOMAIN out /\ out[i] = out'[i]
      BY <1>4, <1>t, ChannelSendEntries DEF SendReply, GoAwayInv
    <2>2. readPc' # "register" /\ UNCHANGED <<accepted, closerPc, lastGood>>
      BY <1>4 DEF SendReply
    <2>3. QED
      BY <2>1, <2>2, OneBeyondKept
  <1>5. ASSUME NEW c \in Closers, CloseLoadLast(c) PROVE LastGoodInv'
    <2>1. OneBeyond(lastClientStreamId)
      BY <1>t DEF IdInv, OneBeyond
    <2>2. /\ UNCHANGED <<readPc, accepted, out>>
          /\ closerPc' = [closerPc EXCEPT ![c] = "send"]
          /\ lastGood' = [lastGood EXCEPT ![c] = lastClientStreamId]
      BY <1>5 DEF CloseLoadLast
    <2>3. \A d \in Closers : closerPc'[d] = "send" => OneBeyond(lastGood'[d])
      BY <1>t, <2>1, <2>2
    <2>4. QED
      BY <2>2, <2>3 DEF OneBeyond
  <1>6. ASSUME NEW c \in Closers, CloseSendGoAway(c) PROVE LastGoodInv'
    <2>1. GoAway(lastGood[c]) \in OutFrame /\ GoAway(lastGood[c]).id = lastGood[c]
      BY <1>t DEF GoAway, OutFrame
    <2>2. /\ closerPc[c] = "send" /\ OneBeyond(lastGood[c])
          /\ \A d \in Closers : closerPc'[d] = "send" => closerPc[d] = "send"
          /\ UNCHANGED <<readPc, accepted, lastGood>>
      BY <1>6, <1>t DEF CloseSendGoAway
    <2>3. \A i \in DOMAIN out' : out'[i].type = "GoAway" => OneBeyond(out'[i].id)
      <3>1. ASSUME NEW i \in DOMAIN out', out'[i].type = "GoAway"
            PROVE  OneBeyond(out'[i].id)
        <4>1. CASE i \in DOMAIN out
          BY <1>6, <1>t, <2>1, <3>1, <4>1, ChannelSendEntries DEF CloseSendGoAway
        <4>2. CASE i \notin DOMAIN out
          BY <1>6, <1>t, <2>1, <2>2, <3>1, <4>2, ChannelSendEntries DEF CloseSendGoAway
        <4>3. QED
          BY <4>1, <4>2
      <3>2. QED
        BY <3>1
    <2>4. QED
      BY <2>2, <2>3 DEF OneBeyond
  <1>7. ASSUME NEW c \in Closers,
               CloseSwap(c) \/ CloseBroadcast(c) \/ CloseReturn(c) \/ CloseDropped(c)
        PROVE  LastGoodInv'
    <2>1. \A d \in Closers : closerPc'[d] = "send" => closerPc[d] = "send"
      BY <1>7, <1>t DEF CloseSwap, CloseBroadcast, CloseReturn, CloseDropped
    <2>2. UNCHANGED <<readPc, accepted, out, lastGood>>
      BY <1>7 DEF CloseSwap, CloseBroadcast, CloseReturn, CloseDropped
    <2>3. QED
      BY <2>1, <2>2, OneBeyondKept
  <1>8. CASE StoreLastId \/ Dispatch \/ BroadcastGoAway \/ CloseStreams \/ EndRead
               \/ ReadFail
    <2>1. readPc' # "register" /\ UNCHANGED <<accepted, out, closerPc, lastGood>>
      BY <1>8
      DEF StoreLastId, Dispatch, BroadcastGoAway, CloseStreams, EndRead, ReadFail
    <2>2. QED
      BY <2>1, OneBeyondKept
  <1>9. ASSUME NEW w \in Workers, Worker(w) PROVE LastGoodInv'
    <2>1. UNCHANGED <<readPc, accepted, out, closerPc, lastGood>>
      BY <1>9 DEF Worker, WorkerSynStream, WorkerData, WorkerHeaders, WorkerFin,
                  WorkerRst, WorkerRemove
    <2>2. QED
      BY <2>1, OneBeyondKept
  <1>10. CASE WriteFrame \/ WriteFail \/ UNCHANGED vars
    <2>1. UNCHANGED <<readPc, accepted, out, closerPc, lastGood>>
      BY <1>10 DEF WriteFrame, WriteFail, vars
    <2>2. QED
      BY <2>1, OneBeyondKept
  <1>11. QED
    BY <1>1, <1>2, <1>3, <1>4, <1>5, <1>6, <1>7, <1>8, <1>9, <1>10
    DEF Next, Client, ReadTask, Closer

(* However close() and the read task interleave, the server serves at most  *)
(* one stream that its GOAWAY did not announce.                            *)
THEOREM OneStreamBeyondLastGood == Spec => []AtMostOneBeyondLastGood
  <1>1. LastGoodInv => AtMostOneBeyondLastGood
    BY DEF LastGoodInv, OneBeyond, AtMostOneBeyondLastGood
  <1>2. QED
    BY TypeInit, TypeStep, IdInit, IdStep, GoAwayInit, GoAwayStep, LastGoodInit,
       LastGoodStep, <1>1, PTL DEF Spec

----------------------------------------------------------------------------
(* The end of the read task.                                               *)

(* A registered stream is in the map, where the end of the read task finds  *)
(* it, or closed already; a worker closes a stream before it removes it.   *)
ClosedInv ==
  /\ \A s \in accepted : s \in streams \/ remoteClosed[s]
  /\ \A w \in Workers :
       workerPc[w] = "remove" /\ workerCur[w].id \in StreamIds =>
         remoteClosed[workerCur[w].id]
  /\ AllClosedAtEnd

LEMMA ClosedInit == Init => ClosedInv
  BY DEF Init, ClosedInv, AllClosedAtEnd

LEMMA ClosedStep == TypeInv /\ ClosedInv /\ [Next]_vars => ClosedInv'
  <1>. SUFFICES ASSUME TypeInv, ClosedInv, [Next]_vars PROVE ClosedInv'
    OBVIOUS
  <1>. USE DEF ClosedInv, AllClosedAtEnd, readVars, outVars, workerVars, streamVars,
               closerVars
  <1>t. /\ TypeOK /\ accepted \subseteq StreamIds /\ streams \subseteq StreamIds
        /\ remoteClosed \in [StreamIds -> BOOLEAN]
        /\ workerPc \in [Workers -> {"recv", "fin", "remove"}]
        /\ workerCur \in [Workers -> Frame]
    BY DEF TypeInv, TypeOK
  <1>1. ASSUME NEW f \in ClientFrames,
               ReadSynStream(f) \/ ReadStreamFrame(f) \/ ReadPing(f) \/ ReadIgnored(f)
                 \/ ReadGoAway(f)
        PROVE  ClosedInv'
    <2>1. readPc' \notin {"closed", "done"}
      BY <1>1 DEF ReadSynStream, ReadStreamFrame, ReadPing, ReadIgnored, ReadGoAway, Take
    <2>2. UNCHANGED <<streams, accepted, remoteClosed, workerPc, workerCur>>
      BY <1>1 DEF ReadSynStream, ReadStreamFrame, ReadPing, ReadIgnored, ReadGoAway
    <2>3. QED
      BY <2>1, <2>2
  <1>2. CASE RegisterStream
    <2>1. accepted' \ accepted \subseteq streams' /\ streams \subseteq streams'
      BY <1>2 DEF RegisterStream
    <2>2. readPc' \notin {"closed", "done"}
      BY <1>2 DEF RegisterStream
    <2>3. UNCHANGED <<remoteClosed, workerPc, workerCur>>
      BY <1>2 DEF RegisterStream
    <2>4. QED
      BY <2>1, <2>2, <2>3
  <1>3. CASE StoreLastId \/ Dispatch \/ SendReply \/ BroadcastGoAway \/ ReadFail
    <2>1. readPc' \notin {"closed", "done"}
      BY <1>3 DEF StoreLastId, Dispatch, SendReply, BroadcastGoAway, ReadFail
    <2>2. UNCHANGED <<streams, accepted, remoteClosed, workerPc, workerCur>>
      BY <1>3 DEF StoreLastId, Dispatch, SendReply, BroadcastGoAway, ReadFail
    <2>3. QED
      BY <2>1, <2>2
  <1>4. CASE CloseStreams
    <2>1. \A s \in StreamIds : remoteClosed'[s] = (remoteClosed[s] \/ s \in streams)
      BY <1>4 DEF CloseStreams
    <2>2. UNCHANGED <<streams, accepted, workerPc, workerCur>>
      BY <1>4 DEF CloseStreams
    <2>3. QED
      BY <1>t, <2>1, <2>2
  <1>5. CASE EndRead
    BY <1>5 DEF EndRead
  <1>6. ASSUME NEW w \in Workers,
               WorkerSynStream(w) \/ WorkerData(w) \/ WorkerHeaders(w)
        PROVE  ClosedInv'
    <2>1. /\ \A v \in Workers \ {w} : /\ workerPc'[v] = workerPc[v]
                                     /\ workerCur'[v] = workerCur[v]
          /\ workerPc'[w] # "remove"
      BY <1>6, <1>t DEF WorkerSynStream, WorkerData, WorkerHeaders, Receive
    <2>2. UNCHANGED <<readPc, streams, accepted, remoteClosed>>
      BY <1>6 DEF WorkerSynStream, WorkerData, WorkerHeaders
    <2>3. QED
      BY <2>1, <2>2
  <1>7. ASSUME NEW w \in Workers, WorkerFin(w) PROVE ClosedInv'
    <2>1. /\ \A s \in StreamIds : remoteClosed[s] => remoteClosed'[s]
          /\ \A v \in Workers : workerPc'[v] = "remove" => workerPc[v] = "remove"
      BY <1>7, <1>t DEF WorkerFin
    <2>2. UNCHANGED <<readPc, streams, accepted, workerCur>>
      BY <1>7 DEF WorkerFin
    <2>3. QED
      BY <1>t, <2>1, <2>2
  <1>8. ASSUME NEW w \in Workers, WorkerRst(w) PROVE ClosedInv'
    <2>1. /\ \A s \in StreamIds : remoteClosed[s] => remoteClosed'[s]
          /\ workerCur'[w].id \in StreamIds => remoteClosed'[workerCur'[w].id]
      <3>1. PICK f : /\ workerCur'[w] = f
                     /\ remoteClosed' = [remoteClosed EXCEPT ![f.id] = TRUE]
        BY <1>8, <1>t DEF WorkerRst, Receive
      <3>2. QED
        BY <1>t, <3>1
    <2>2. \A v \in Workers \ {w} : workerPc'[v] = workerPc[v] /\ workerCur'[v] = workerCur[v]
      BY <1>8, <1>t DEF WorkerRst, Receive
    <2>3. UNCHANGED <<readPc, streams, accepted>>
      BY <1>8 DEF WorkerRst
    <2>4. QED
      BY <1>t, <2>1, <2>2, <2>3
  <1>9. ASSUME NEW w \in Workers, WorkerRemove(w) PROVE ClosedInv'
    <2>1. workerPc[w] = "remove" /\ streams' = streams \ {workerCur[w].id}
      BY <1>9 DEF WorkerRemove
    <2>2. \A v \in Workers : workerPc'[v] = "remove" => workerPc[v] = "remove"
      BY <1>9, <1>t DEF WorkerRemove
    <2>3. UNCHANGED <<readPc, accepted, remoteClosed, workerCur>>
      BY <1>9 DEF WorkerRemove
    <2>4. QED
      BY <1>t, <2>1, <2>2, <2>3
  <1>10. ASSUME NEW c \in Closers,
                CloseSwap(c) \/ CloseLoadLast(c) \/ CloseSendGoAway(c)
                  \/ CloseBroadcast(c) \/ CloseReturn(c) \/ CloseDropped(c)
         PROVE  ClosedInv'
    BY <1>10 DEF CloseSwap, CloseLoadLast, CloseSendGoAway, CloseBroadcast, CloseReturn,
                 CloseDropped
  <1>11. CASE WriteFrame \/ WriteFail \/ UNCHANGED vars
    BY <1>11 DEF WriteFrame, WriteFail, vars
  <1>12. QED
    BY <1>1, <1>2, <1>3, <1>4, <1>5, <1>6, <1>7, <1>8, <1>9, <1>10, <1>11
    DEF Next, Client, ReadTask, Worker, Closer

(* When the read task has ended, no reader of any stream ever registered    *)
(* can still be waiting for a close.                                       *)
THEOREM EveryStreamClosedAtEnd == Spec => []AllClosedAtEnd
  <1>1. ClosedInv => AllClosedAtEnd
    BY DEF ClosedInv
  <1>2. QED
    BY TypeInit, TypeStep, ClosedInit, ClosedStep, <1>1, PTL DEF Spec

----------------------------------------------------------------------------
(* The order in which the frames of a stream reach it, and the start of its *)
(* handler before them: through the read task, a bounded channel and a     *)
(* worker.                                                                 *)

(* What is left of a channel when its head is taken, and after a send.     *)
LEMMA TailEntries ==
  ASSUME NEW S, NEW q \in Seq(S), q # <<>>
  PROVE  /\ 1 \in DOMAIN q /\ Head(q) = q[1]
         /\ \A i \in DOMAIN Tail(q) : /\ i \in Nat /\ i + 1 \in DOMAIN q /\ i + 1 > 1
                                      /\ Tail(q)[i] = q[i + 1]
  OBVIOUS

LEMMA AppendEntries ==
  ASSUME NEW S, NEW q \in Seq(S), NEW e \in S
  PROVE  \A i \in DOMAIN Append(q, e) :
           /\ i \in Nat
           /\ \/ i \in DOMAIN q /\ Append(q, e)[i] = q[i] /\ i < Len(q) + 1
              \/ i \notin DOMAIN q /\ i = Len(q) + 1 /\ Append(q, e)[i] = e
  OBVIOUS

(* The entries of worker w's channel.                                      *)
Entries(w) == DOMAIN workerQ[w]

LEMMA EntryType ==
  ASSUME TypeInv
  PROVE  \A w \in Workers : \A i \in Entries(w) : workerQ[w][i] \in Frame
  <1>1. \A w \in Workers : workerQ[w] \in Seq(Frame)
    BY DEF TypeInv, TypeOK
  <1>2. QED
    BY <1>1 DEF Entries

(* The number of the newest frame that has left the read task.             *)
Newest == IF readPc \in {"register", "store", "dispatch"} THEN nread - 1 ELSE nread

(* Each worker's channel holds frames of its own streams, with numbers that *)
(* increase, above that of the frame the worker has in hand.               *)
QueueInv ==
  /\ cur.n = nread
  /\ \A w \in Workers : \A i \in Entries(w) :
       /\ WorkerOf(workerQ[w][i]) = w
       /\ workerQ[w][i].n <= Newest
  /\ \A w \in Workers : \A i, j \in Entries(w) : i < j => workerQ[w][i].n < workerQ[w][j].n
  /\ \A w \in Workers : workerPc[w] # "recv" =>
       /\ WorkerOf(workerCur[w]) = w
       /\ workerCur[w].n <= Newest
       /\ \A i \in Entries(w) : workerCur[w].n < workerQ[w][i].n

(* What a stream has received is older than what its worker still has.     *)
ReceivedInv ==
  /\ \A s \in StreamIds : \A k \in DOMAIN received[s] :
       /\ received[s][k] <= Newest
       /\ \A w \in Workers : \A i \in Entries(w) :
            workerQ[w][i].id = s => received[s][k] < workerQ[w][i].n
  /\ ReceivedInOrder

LEMMA QueueInit == Init => QueueInv
  BY DEF Init, QueueInv, Entries, NoFrame

LEMMA ReceivedInit == Init => ReceivedInv
  BY DEF Init, ReceivedInv, ReceivedInOrder

(* A step of the read task that leaves the channels alone lets no number go *)
(* down.                                                                   *)
LEMMA ReadStepNewest ==
  ASSUME TypeInv, QueueInv,
         \/ \E f \in ClientFrames : Take(f)
         \/ /\ UNCHANGED <<nread, cur>>
            /\ readPc' \in {"register", "store", "dispatch"} =>
                 readPc \in {"register", "store", "dispatch"}
  PROVE  /\ Newest \in Int /\ Newest' \in Int /\ Newest <= Newest'
         /\ cur'.n = nread'
  <1>1. nread \in Nat
    BY DEF TypeInv, TypeOK
  <1>2. CASE \E f \in ClientFrames : Take(f)
    BY <1>1, <1>2 DEF Newest, Take, QueueInv
  <1>3. CASE /\ UNCHANGED <<nread, cur>>
             /\ readPc' \in {"register", "store", "dispatch"} =>
                  readPc \in {"register", "store", "dispatch"}
    BY <1>1, <1>3 DEF Newest, QueueInv
  <1>4. QED
    BY <1>2, <1>3

(* Such a step keeps both invariants.                                      *)
LEMMA ReadStepOrder ==
  ASSUME TypeInv, QueueInv, ReceivedInv,
         \/ \E f \in ClientFrames : Take(f)
         \/ /\ UNCHANGED <<nread, cur>>
            /\ readPc' \in {"register", "store", "dispatch"} =>
                 readPc \in {"register", "store", "dispatch"},
         UNCHANGED <<workerQ, workerPc, workerCur, received>>
  PROVE  QueueInv' /\ ReceivedInv'
  <1>1. /\ Newest \in Int /\ Newest' \in Int /\ Newest <= Newest'
        /\ cur'.n = nread'
    BY ReadStepNewest
  <1>2. \A w \in Workers : \A i \in Entries(w) : workerQ[w][i].n \in Int
    BY EntryType DEF Frame
  <1>3. \A s \in StreamIds : \A k \in DOMAIN received[s] : received[s][k] \in Int
    BY DEF TypeInv, TypeOK
  <1>4. QueueInv'
    <2>1. \A w \in Workers : \A i \in Entries(w) : workerQ[w][i].n <= Newest'
      BY <1>1, <1>2 DEF QueueInv
    <2>2. \A w \in Workers : workerPc[w] # "recv" => workerCur[w].n <= Newest'
      <3>1. \A w \in Workers : workerCur[w].n \in Int
        BY DEF TypeInv, TypeOK, Frame
      <3>2. QED
        BY <1>1, <3>1 DEF QueueInv
    <2>3. QED
      BY <1>1, <2>1, <2>2 DEF QueueInv, Entries
  <1>5. ReceivedInv'
    <2>1. \A s \in StreamIds : \A k \in DOMAIN received[s] : received[s][k] <= Newest'
      BY <1>1, <1>3 DEF ReceivedInv
    <2>2. QED
      BY <2>1 DEF ReceivedInv, ReceivedInOrder, Entries
  <1>6. QED
    BY <1>4, <1>5

(* The frame in hand goes to the end of its worker's channel.              *)
LEMMA DispatchEntries ==
  ASSUME TypeInv, Dispatch
  PROVE  /\ WorkerOf(cur) \in Workers
         /\ \A w \in Workers : \A i \in Entries(w)' :
              /\ i \in Nat
              /\ \/ i \in Entries(w) /\ workerQ'[w][i] = workerQ[w][i]
                 \/ /\ w = WorkerOf(cur) /\ i \notin Entries(w)
                    /\ workerQ'[w][i] = cur
                    /\ \A j \in Entries(w)' : j # i => j \in Entries(w) /\ j < i
         /\ \A w \in Workers : \A i \in Entries(w) : i \in Entries(w)'
         /\ \E i \in DOMAIN workerQ'[WorkerOf(cur)] : workerQ'[WorkerOf(cur)][i] = cur
  <1>. DEFINE v == WorkerOf(cur)
  <1>1. cur \in Frame /\ v \in Workers /\ workerQ \in [Workers -> Seq(Frame)]
    BY WorkerOfType DEF TypeInv, TypeOK
  <1>2. workerQ' = [workerQ EXCEPT ![v] = Append(workerQ[v], cur)]
    BY DEF Dispatch
  <1>. HIDE DEF v
  <1>3. workerQ[v] \in Seq(Frame) /\ workerQ'[v] = Append(workerQ[v], cur)
    BY <1>1, <1>2
  <1>4. \A w \in Workers \ {v} : workerQ'[w] = workerQ[w]
    BY <1>1, <1>2
  <1>5. \A i \in DOMAIN workerQ'[v] :
          /\ i \in Nat
          /\ \/ i \in DOMAIN workerQ[v] /\ workerQ'[v][i] = workerQ[v][i]
             \/ /\ i \notin DOMAIN workerQ[v] /\ workerQ'[v][i] = cur
                /\ \A j \in DOMAIN workerQ'[v] : j # i => j \in DOMAIN workerQ[v] /\ j < i
    BY <1>1, <1>3
  <1>6. /\ \A i \in DOMAIN workerQ[v] : i \in DOMAIN workerQ'[v]
        /\ Len(workerQ[v]) + 1 \in DOMAIN workerQ'[v]
        /\ workerQ'[v][Len(workerQ[v]) + 1] = cur
    BY <1>1, <1>3
  <1>7. \A w \in Workers : \A i \in DOMAIN workerQ[w] : i \in Nat
    BY <1>1
  <1>8. \A w \in Workers : \A i \in DOMAIN workerQ'[w] :
          /\ i \in Nat
          /\ \/ i \in DOMAIN workerQ[w] /\ workerQ'[w][i] = workerQ[w][i]
             \/ /\ w = v /\ i \notin DOMAIN workerQ[w] /\ workerQ'[w][i] = cur
                /\ \A j \in DOMAIN workerQ'[w] : j # i => j \in DOMAIN workerQ[w] /\ j < i
    <2>1. SUFFICES ASSUME NEW w \in Workers
                   PROVE  <1>8!(w)
      OBVIOUS
    <2>2. CASE w = v
      BY <1>5, <2>2
    <2>3. CASE w # v
      BY <1>4, <1>7, <2>3
    <2>4. QED
      BY <2>2, <2>3
  <1>9. \A w \in Workers : \A i \in DOMAIN workerQ[w] : i \in DOMAIN workerQ'[w]
    BY <1>4, <1>6
  <1>10. QED
    BY <1>1, <1>6, <1>8, <1>9 DEF Entries, v

LEMMA DispatchOrder ==
  ASSUME TypeInv, QueueInv, ReceivedInv, Dispatch
  PROVE  QueueInv' /\ ReceivedInv'
  <1>1. /\ nread \in Nat /\ Newest = nread - 1 /\ Newest' = nread /\ cur.n = nread
        /\ cur' = cur /\ nread' = nread
        /\ UNCHANGED <<workerPc, workerCur, received>>
    BY DEF Dispatch, Newest, QueueInv, TypeInv, TypeOK, streamVars
  <1>2. /\ \A w \in Workers : \A i \in Entries(w) : workerQ[w][i].n \in Int
        /\ \A w \in Workers : workerCur[w].n \in Int
        /\ \A s \in StreamIds : \A k \in DOMAIN received[s] : received[s][k] \in Int
    <2>1. \A w \in Workers : workerCur[w] \in Frame
      BY DEF TypeInv, TypeOK
    <2>2. \A s \in StreamIds : received[s] \in Seq(Nat)
      BY DEF TypeInv, TypeOK
    <2>3. QED
      BY EntryType, <2>1, <2>2 DEF Frame
  <1>3. \A w \in Workers : \A i \in Entries(w) : workerQ[w][i].n < cur.n
    BY <1>1, <1>2 DEF QueueInv
  <1>4. \A w \in Workers : workerPc[w] # "recv" => workerCur[w].n < cur.n
    BY <1>1, <1>2 DEF QueueInv
  <1>5. \A s \in StreamIds : \A k \in DOMAIN received[s] : received[s][k] < cur.n
    BY <1>1, <1>2 DEF ReceivedInv
  <1>6. QueueInv'
    <2>1. \A w \in Workers : \A i \in Entries(w)' :
            WorkerOf(workerQ'[w][i]) = w /\ workerQ'[w][i].n <= nread
      BY <1>1, <1>2, <1>3, DispatchEntries DEF QueueInv
    <2>2. \A w \in Workers : \A i, j \in Entries(w)' :
            i < j => workerQ'[w][i].n < workerQ'[w][j].n
      <3>1. SUFFICES ASSUME NEW w \in Workers, NEW i \in Entries(w)', NEW j \in Entries(w)',
                            i < j
                     PROVE  workerQ'[w][i].n < workerQ'[w][j].n
        OBVIOUS
      <3>2. i \in Nat /\ j \in Nat
        BY DispatchEntries
      <3>3. i \in Entries(w) /\ workerQ'[w][i] = workerQ[w][i]
        BY <3>1, <3>2, DispatchEntries
      <3>4. CASE j \in Entries(w) /\ workerQ'[w][j] = workerQ[w][j]
        BY <3>1, <3>3, <3>4 DEF QueueInv
      <3>5. CASE workerQ'[w][j] = cur
        BY <1>3, <3>3, <3>5
      <3>6. QED
        BY <3>4, <3>5, DispatchEntries
    <2>3. \A w \in Workers : workerPc[w] # "recv" =>
            /\ WorkerOf(workerCur[w]) = w /\ workerCur[w].n <= nread
            /\ \A i \in Entries(w)' : workerCur[w].n < workerQ'[w][i].n
      BY <1>1, <1>2, <1>4, DispatchEntries DEF QueueInv
    <2>4. QED
      BY <1>1, <2>1, <2>2, <2>3 DEF QueueInv, WorkerOf
  <1>7. ReceivedInv'
    <2>1. \A s \in StreamIds : \A k \in DOMAIN received[s] : received[s][k] <= nread
      BY <1>1, <1>2, <1>5
    <2>2. \A s \in StreamIds : \A k \in DOMAIN received[s] :
            \A w \in Workers : \A i \in Entries(w)' :
              workerQ'[w][i].id = s => received[s][k] < workerQ'[w][i].n
      BY <1>5, DispatchEntries DEF ReceivedInv
    <2>3. QED
      BY <1>1, <2>1, <2>2 DEF ReceivedInv, ReceivedInOrder
  <1>8. QED
    BY <1>6, <1>7

(* A worker that receives takes the oldest entry of its channel.           *)
LEMMA ReceiveEntries ==
  ASSUME TypeInv, NEW w \in Workers, NEW pc, Receive(w, pc)
  PROVE  /\ 1 \in Entries(w) /\ Head(workerQ[w]) = workerQ[w][1]
         /\ workerQ[w][1] \in Frame
         /\ workerCur'[w] = workerQ[w][1] /\ workerPc'[w] = pc
         /\ \A i \in Entries(w)' :
              /\ i \in Nat /\ i + 1 \in Entries(w) /\ i + 1 > 1
              /\ workerQ'[w][i] = workerQ[w][i + 1]
         /\ \A v \in Workers \ {w} :
              /\ workerQ'[v] = workerQ[v] /\ workerCur'[v] = workerCur[v]
              /\ workerPc'[v] = workerPc[v]
  <1>1. /\ workerQ \in [Workers -> Seq(Frame)] /\ workerQ[w] \in Seq(Frame)
        /\ workerPc \in [Workers -> {"recv", "fin", "remove"}]
        /\ workerCur \in [Workers -> Frame]
    BY DEF TypeInv, TypeOK
  <1>2. /\ workerQ[w] # <<>>
        /\ workerQ'[w] = Tail(workerQ[w])
        /\ workerCur'[w] = Head(workerQ[w]) /\ workerPc'[w] = pc
        /\ \A v \in Workers \ {w} :
             /\ workerQ'[v] = workerQ[v] /\ workerCur'[v] = workerCur[v]
             /\ workerPc'[v] = workerPc[v]
    BY <1>1 DEF Receive
  <1>3. /\ 1 \in DOMAIN workerQ[w] /\ Head(workerQ[w]) = workerQ[w][1]
        /\ \A i \in DOMAIN Tail(workerQ[w]) :
             /\ i \in Nat /\ i + 1 \in DOMAIN workerQ[w] /\ i + 1 > 1
             /\ Tail(workerQ[w])[i] = workerQ[w][i + 1]
    BY <1>1, <1>2, TailEntries
  <1>4. workerQ[w][1] \in Frame
    BY <1>1, <1>3
  <1>5. QED
    BY <1>2, <1>3, <1>4 DEF Entries

LEMMA ReceiveQueue ==
  ASSUME TypeInv, QueueInv, NEW w \in Workers, NEW pc, Receive(w, pc), UNCHANGED readVars
  PROVE  QueueInv' /\ Newest' = Newest
  <1>1. Newest' = Newest /\ cur'.n = nread'
    BY DEF readVars, Newest, QueueInv
  <1>2. \A v \in Workers : \A i \in Entries(v)' :
          WorkerOf(workerQ'[v][i]) = v /\ workerQ'[v][i].n <= Newest
    BY ReceiveEntries DEF QueueInv, Entries
  <1>3. \A v \in Workers : \A i, j \in Entries(v)' :
          i < j => workerQ'[v][i].n < workerQ'[v][j].n
    <2>1. SUFFICES ASSUME NEW v \in Workers, NEW i \in Entries(v)', NEW j \in Entries(v)',
                          i < j
                   PROVE  workerQ'[v][i].n < workerQ'[v][j].n
      OBVIOUS
    <2>2. CASE v = w
      <3>1. i + 1 < j + 1
        BY <2>1, <2>2, ReceiveEntries
      <3>2. QED
        BY <2>2, <3>1, ReceiveEntries DEF QueueInv
    <2>3. CASE v # w
      BY <2>1, <2>3, ReceiveEntries DEF QueueInv, Entries
    <2>4. QED
      BY <2>2, <2>3
  <1>4. \A v \in Workers : workerPc'[v] # "recv" =>
          /\ WorkerOf(workerCur'[v]) = v
          /\ workerCur'[v].n <= Newest
          /\ \A i \in Entries(v)' : workerCur'[v].n < workerQ'[v][i].n
    <2>1. SUFFICES ASSUME NEW v \in Workers, workerPc'[v] # "recv"
                   PROVE  /\ WorkerOf(workerCur'[v]) = v
                          /\ workerCur'[v].n <= Newest
                          /\ \A i \in Entries(v)' : workerCur'[v].n < workerQ'[v][i].n
      OBVIOUS
    <2>2. CASE v = w
      <3>1. WorkerOf(workerQ[w][1]) = w /\ workerQ[w][1].n <= Newest
        BY ReceiveEntries DEF QueueInv
      <3>2. \A i \in Entries(w)' : workerQ[w][1].n < workerQ'[w][i].n
        BY ReceiveEntries DEF QueueInv
      <3>3. QED
        BY <2>2, <3>1, <3>2, ReceiveEntries
    <2>3. CASE v # w
      BY <2>1, <2>3, ReceiveEntries DEF QueueInv, Entries
    <2>4. QED
      BY <2>2, <2>3
  <1>5. QED
    BY <1>1, <1>2, <1>3, <1>4 DEF QueueInv, WorkerOf

(* Taking an entry out of a channel leaves less to be newer than.          *)
LEMMA ReceiveReceived ==
  ASSUME TypeInv, QueueInv, ReceivedInv, NEW w \in Workers, NEW pc, Receive(w, pc),
         UNCHANGED readVars, UNCHANGED received
  PROVE  ReceivedInv'
  <1>1. Newest' = Newest
    BY ReceiveQueue
  <1>2. \A s \in StreamIds : \A k \in DOMAIN received[s] :
          \A v \in Workers : \A i \in Entries(v)' :
            workerQ'[v][i].id = s => received[s][k] < workerQ'[v][i].n
    BY ReceiveEntries DEF ReceivedInv, Entries
  <1>3. QED
    BY <1>1, <1>2 DEF ReceivedInv, ReceivedInOrder

(* A stream is given the frame its worker takes: newer than all it has, and *)
(* older than what its worker still has to take.                           *)
LEMMA DataReceived ==
  ASSUME TypeInv, QueueInv, ReceivedInv, NEW w \in Workers, WorkerData(w)
  PROVE  ReceivedInv'
  <1>. DEFINE f == workerQ[w][1]
              pc == IF Head(workerQ[w]).fin THEN "fin" ELSE "recv"
  <1>1. Receive(w, pc) /\ UNCHANGED readVars
    BY DEF WorkerData
  <1>2. /\ 1 \in Entries(w) /\ f = Head(workerQ[w]) /\ f \in Frame /\ f.n \in Nat
        /\ WorkerOf(f) = w /\ f.n <= Newest
    BY <1>1, ReceiveEntries DEF QueueInv, Frame
  <1>3. Newest' = Newest /\ Newest \in Int
    BY <1>1, ReceiveQueue DEF Newest, TypeInv, TypeOK
  <1>4. /\ received \in [StreamIds -> Seq(Nat)]
        /\ received' = [received EXCEPT ![f.id] = Append(received[f.id], f.n)]
    BY <1>2 DEF WorkerData, TypeInv, TypeOK
  <1>5. \A i \in Entries(w)' : f.n < workerQ'[w][i].n
    BY <1>1, <1>2, ReceiveEntries DEF QueueInv
  <1>. HIDE DEF f, pc
  <1>6. ASSUME NEW s \in StreamIds
        PROVE  \A k \in DOMAIN received'[s] :
                 /\ k \in Nat
                 /\ \/ k \in DOMAIN received[s] /\ received'[s][k] = received[s][k]
                    \/ /\ s = f.id /\ received'[s][k] = f.n
                       /\ \A j \in DOMAIN received'[s] : j # k => j \in DOMAIN received[s] /\ j < k
    <2>1. CASE s = f.id
      <3>1. received'[s] = Append(received[s], f.n) /\ received[s] \in Seq(Nat)
        BY <1>4, <2>1
      <3>2. QED
        BY <1>2, <2>1, <3>1
    <2>2. CASE s # f.id
      <3>1. received'[s] = received[s] /\ received[s] \in Seq(Nat)
        BY <1>4, <2>2
      <3>2. QED
        BY <3>1
    <2>3. QED
      BY <2>1, <2>2
  <1>7. \A s \in StreamIds : \A k \in DOMAIN received'[s] : received'[s][k] <= Newest
    BY <1>2, <1>6 DEF ReceivedInv
  <1>8. \A s \in StreamIds : \A k \in DOMAIN received'[s] :
          \A v \in Workers : \A i \in Entries(v)' :
            workerQ'[v][i].id = s => received'[s][k] < workerQ'[v][i].n
    <2>1. SUFFICES ASSUME NEW s \in StreamIds, NEW k \in DOMAIN received'[s],
                          NEW v \in Workers, NEW i \in Entries(v)', workerQ'[v][i].id = s
                   PROVE  received'[s][k] < workerQ'[v][i].n
      OBVIOUS
    <2>2. CASE k \in DOMAIN received[s] /\ received'[s][k] = received[s][k]
      BY <1>1, <2>1, <2>2, ReceiveEntries DEF ReceivedInv, Entries
    <2>3. CASE s = f.id /\ received'[s][k] = f.n
      <3>1. v = w
        <4>1. WorkerOf(workerQ'[v][i]) = v
          BY <1>1, ReceiveQueue DEF QueueInv, WorkerOf
        <4>2. QED
          BY <1>2, <2>1, <2>3, <4>1 DEF WorkerOf
      <3>2. QED
        BY <1>5, <2>3, <3>1
    <2>4. QED
      BY <1>6, <2>2, <2>3
  <1>9. \A s \in StreamIds : \A j, k \in DOMAIN received'[s] :
          j < k => received'[s][j] < received'[s][k]
    <2>1. SUFFICES ASSUME NEW s \in StreamIds, NEW j \in DOMAIN received'[s],
                          NEW k \in DOMAIN received'[s], j < k
                   PROVE  received'[s][j] < received'[s][k]
      OBVIOUS
    <2>2. j \in DOMAIN received[s] /\ received'[s][j] = received[s][j]
      BY <1>6, <2>1
    <2>3. CASE k \in DOMAIN received[s] /\ received'[s][k] = received[s][k]
      BY <2>1, <2>2, <2>3 DEF ReceivedInv, ReceivedInOrder
    <2>4. CASE s = f.id /\ received'[s][k] = f.n
      BY <1>2, <2>2, <2>4 DEF ReceivedInv
    <2>5. QED
      BY <1>6, <2>3, <2>4
  <1>10. QED
    BY <1>3, <1>7, <1>8, <1>9 DEF ReceivedInv, ReceivedInOrder

(* Every step keeps the order of the channels and of what has arrived.      *)
LEMMA OrderStep == TypeInv /\ QueueInv /\ ReceivedInv /\ [Next]_vars
                     => QueueInv' /\ ReceivedInv'
  <1>. SUFFICES ASSUME TypeInv, QueueInv, ReceivedInv, [Next]_vars
                PROVE  QueueInv' /\ ReceivedInv'
    OBVIOUS
  <1>. DEFINE Goal == QueueInv' /\ ReceivedInv'
  <1>1. ASSUME NEW f \in ClientFrames, ReadSynStream(f) PROVE Goal
    BY <1>1, ReadStepOrder DEF ReadSynStream, workerVars, streamVars
  <1>2. ASSUME NEW f \in ClientFrames, ReadStreamFrame(f) PROVE Goal
    BY <1>2, ReadStepOrder DEF ReadStreamFrame, workerVars, streamVars
  <1>3. ASSUME NEW f \in ClientFrames, ReadPing(f) PROVE Goal
    BY <1>3, ReadStepOrder DEF ReadPing, workerVars, streamVars
  <1>4. ASSUME NEW f \in ClientFrames, ReadIgnored(f) PROVE Goal
    BY <1>4, ReadStepOrder DEF ReadIgnored, workerVars, streamVars
  <1>5. ASSUME NEW f \in ClientFrames, ReadGoAway(f) PROVE Goal
    BY <1>5, ReadStepOrder DEF ReadGoAway, workerVars, streamVars
  <1>6. CASE ReadFail
    BY <1>6, ReadStepOrder DEF ReadFail, workerVars, streamVars
  <1>7. CASE RegisterStream
    BY <1>7, ReadStepOrder DEF RegisterStream, workerVars
  <1>8. CASE StoreLastId
    BY <1>8, ReadStepOrder DEF StoreLastId, workerVars, streamVars
  <1>9. CASE Dispatch
    BY <1>9, DispatchOrder
  <1>10. CASE SendReply
    BY <1>10, ReadStepOrder DEF SendReply, workerVars, streamVars
  <1>11. CASE BroadcastGoAway
    BY <1>11, ReadStepOrder DEF BroadcastGoAway, workerVars, streamVars
  <1>12. CASE CloseStreams
    BY <1>12, ReadStepOrder DEF CloseStreams, workerVars
  <1>13. CASE EndRead
    BY <1>13, ReadStepOrder DEF EndRead, workerVars, streamVars
  <1>14. ASSUME NEW w \in Workers, WorkerSynStream(w) PROVE Goal
    BY <1>14, ReceiveQueue, ReceiveReceived DEF WorkerSynStream
  <1>15. ASSUME NEW w \in Workers, WorkerData(w) PROVE Goal
    BY <1>15, ReceiveQueue, DataReceived DEF WorkerData
  <1>16. ASSUME NEW w \in Workers, WorkerHeaders(w) PROVE Goal
    BY <1>16, ReceiveQueue, ReceiveReceived DEF WorkerHeaders, streamVars
  <1>17. ASSUME NEW w \in Workers, WorkerFin(w) PROVE Goal
    <2>1. /\ UNCHANGED <<readVars, workerQ, workerCur, received>>
          /\ \A v \in Workers : workerPc'[v] # "recv" => workerPc[v] # "recv"
      BY <1>17 DEF WorkerFin, TypeInv, TypeOK
    <2>2. QED
      BY <2>1 DEF QueueInv, ReceivedInv, ReceivedInOrder, Newest, Entries, readVars, WorkerOf
  <1>18. ASSUME NEW w \in Workers, WorkerRst(w) PROVE Goal
    BY <1>18, ReceiveQueue, ReceiveReceived DEF WorkerRst
  <1>19. ASSUME NEW w \in Workers, WorkerRemove(w) PROVE Goal
    <2>1. /\ UNCHANGED <<readVars, workerQ, workerCur, received>>
          /\ \A v \in Workers : workerPc'[v] # "recv" => workerPc[v] # "recv"
      BY <1>19 DEF WorkerRemove, TypeInv, TypeOK, streamVars
    <2>2. QED
      BY <2>1 DEF QueueInv, ReceivedInv, ReceivedInOrder, Newest, Entries, readVars, WorkerOf
  <1>20. CASE \/ WriteFrame \/ WriteFail \/ UNCHANGED vars
              \/ \E c \in Closers : CloseSwap(c) \/ Closer(c) \/ CloseDropped(c)
    <2>1. UNCHANGED <<readVars, workerVars, received>>
      BY <1>20 DEF WriteFrame, WriteFail, vars, CloseSwap, Closer, CloseLoadLast,
                   CloseSendGoAway, CloseBroadcast, CloseReturn, CloseDropped,
                   readVars, workerVars, streamVars
    <2>2. QED
      BY <2>1, ReadStepOrder DEF readVars, workerVars
  <1>21. QED
    BY <1>1, <1>2, <1>3, <1>4, <1>5, <1>6, <1>7, <1>8, <1>9, <1>10, <1>11, <1>12,
       <1>13, <1>14, <1>15, <1>16, <1>17, <1>18, <1>19, <1>20
    DEF Next, Client, ReadTask, Worker

(* Every stream is handed its Data frames in the order the client sent      *)
(* them, however many workers there are and however slow each of them is.   *)
THEOREM DataInOrder == Spec => []ReceivedInOrder
  <1>1. ReceivedInv => ReceivedInOrder
    BY DEF ReceivedInv
  <1>2. QED
    BY TypeInit, TypeStep, QueueInit, ReceivedInit, OrderStep, <1>1, PTL DEF Spec

(* A worker closes a stream for the client when it has nothing older for it *)
(* left in its channel, and no other worker has anything for it.           *)
LEMMA FinStep ==
  ASSUME TypeInv, QueueInv, TypeInv', QueueInv', [Next]_vars, NEW s \in StreamIds,
         ~remoteClosed[s], remoteClosed'[s], readPc # "closing"
  PROVE  \E w \in Workers :
           /\ workerCur'[w].id = s
           /\ \A v \in Workers : \A i \in DOMAIN workerQ'[v] :
                workerQ'[v][i].id = s => workerQ'[v][i].n > workerCur'[w].n
  <1>1. ASSUME NEW w \in Workers, workerCur'[w].id = s,
               WorkerOf(workerCur'[w]) = w,
               \A i \in Entries(w)' : workerCur'[w].n < workerQ'[w][i].n
        PROVE  \A v \in Workers : \A i \in DOMAIN workerQ'[v] :
                 workerQ'[v][i].id = s => workerQ'[v][i].n > workerCur'[w].n
    <2>1. SUFFICES ASSUME NEW v \in Workers, NEW i \in DOMAIN workerQ'[v],
                          workerQ'[v][i].id = s
                   PROVE  workerQ'[v][i].n > workerCur'[w].n
      OBVIOUS
    <2>2. WorkerOf(workerQ'[v][i]) = v
      BY DEF QueueInv, Entries, WorkerOf
    <2>3. v = w
      BY <1>1, <2>1, <2>2 DEF WorkerOf
    <2>4. workerQ'[w][i].n \in Int /\ workerCur'[w].n \in Int
      <3>1. workerQ'[w] \in Seq(Frame) /\ workerCur'[w] \in Frame
        BY DEF TypeInv, TypeOK
      <3>2. workerQ'[w][i] \in Frame
        BY <2>1, <2>3, <3>1
      <3>3. QED
        BY <3>1, <3>2 DEF Frame
    <2>5. QED
      BY <1>1, <2>3, <2>4 DEF Entries
  <1>2. ASSUME NEW w \in Workers, WorkerFin(w)
        PROVE  /\ workerCur'[w].id = s /\ WorkerOf(workerCur'[w]) = w
               /\ \A i \in Entries(w)' : workerCur'[w].n < workerQ'[w][i].n
    BY <1>2 DEF WorkerFin, QueueInv, Entries, TypeInv, TypeOK
  <1>3. ASSUME NEW w \in Workers, WorkerRst(w)
        PROVE  /\ workerCur'[w].id = s /\ WorkerOf(workerCur'[w]) = w
               /\ \A i \in Entries(w)' : workerCur'[w].n < workerQ'[w][i].n
    <2>1. /\ Receive(w, "remove")
          /\ remoteClosed' = [remoteClosed EXCEPT ![Head(workerQ[w]).id] = TRUE]
      BY <1>3 DEF WorkerRst
    <2>2. workerPc'[w] = "remove" /\ workerCur'[w] = Head(workerQ[w])
      BY <2>1, ReceiveEntries
    <2>3. workerCur'[w].id = s
      BY <2>1, <2>2 DEF TypeInv, TypeOK
    <2>4. QED
      BY <2>2, <2>3 DEF QueueInv, WorkerOf
  <1>4. \E w \in Workers : WorkerFin(w) \/ WorkerRst(w)
    <2>1. CASE CloseStreams
      BY <2>1 DEF CloseStreams
    <2>2. CASE UNCHANGED remoteClosed
      BY <2>2
    <2>3. QED
      BY <2>1, <2>2
      DEF Next, Client, ReadTask, Worker, Closer, ReadSynStream, ReadStreamFrame, ReadPing,
          ReadIgnored, ReadGoAway, ReadFail, RegisterStream, StoreLastId, Dispatch,
          SendReply, BroadcastGoAway, EndRead, WorkerSynStream, WorkerData, WorkerHeaders,
          WorkerRemove, WriteFrame, WriteFail, CloseSwap, CloseLoadLast, CloseSendGoAway,
          CloseBroadcast, CloseReturn, CloseDropped, streamVars, vars
  <1>5. QED
    BY <1>1, <1>2, <1>3, <1>4

(* A stream is marked as closed by the client only when every Data frame    *)
(* the client sent before the closing frame has been handed to it.         *)
THEOREM FinComesLast == Spec => FinAfterData
  <1>1. /\ TypeInv /\ QueueInv /\ TypeInv' /\ QueueInv' /\ [Next]_vars
        => [\A s \in StreamIds :
              ~remoteClosed[s] /\ remoteClosed'[s] /\ readPc # "closing" =>
                \E w \in Workers :
                  /\ workerCur'[w].id = s
                  /\ \A v \in Workers : \A i \in DOMAIN workerQ'[v] :
                       workerQ'[v][i].id = s /\ workerQ'[v][i].type = "Data" =>
                         workerQ'[v][i].n > workerCur'[w].n]_vars
    BY FinStep
  <1>2. QED
    BY TypeInit, TypeStep, QueueInit, ReceivedInit, OrderStep, <1>1, PTL
    DEF Spec, FinAfterData

----------------------------------------------------------------------------
(* The handler of a stream is started at most once, and before the stream *)
(* is given any data, although the frames pass through a channel after the *)
(* stream has been put into the map.                                       *)

Syn(f) == f.type = "SynStream"

(* The SYN_STREAM of s waits in worker w's channel.                        *)
SynQueued(w, s) == \E i \in Entries(w) : Syn(workerQ[w][i]) /\ workerQ[w][i].id = s

(* The read task holds a frame it is about to put into a channel.          *)
InHand == readPc \in {"store", "dispatch"}

(* A SYN_STREAM in hand belongs to a stream whose handler has not been      *)
(* started and that has no other SYN_STREAM on its way.                    *)
HandInv ==
  /\ readPc \in {"register", "store"} => Syn(cur)
  /\ InHand => cur.id \in accepted
  /\ InHand /\ Syn(cur) =>
       /\ spawned[cur.id] = 0
       /\ \A w \in Workers : ~SynQueued(w, cur.id)

(* The same of a SYN_STREAM in a channel; any other frame there belongs to  *)
(* a stream whose handler has been started or whose SYN_STREAM is ahead.   *)
WellQueued(w, i) ==
  /\ workerQ[w][i].id \in accepted
  /\ Syn(workerQ[w][i]) =>
       /\ spawned[workerQ[w][i].id] = 0
       /\ \A j \in Entries(w) :
            Syn(workerQ[w][j]) /\ workerQ[w][j].id = workerQ[w][i].id => j = i
  /\ ~Syn(workerQ[w][i]) =>
       \/ spawned[workerQ[w][i].id] > 0
       \/ \E j \in Entries(w) :
            j < i /\ Syn(workerQ[w][j]) /\ workerQ[w][j].id = workerQ[w][i].id

ChannelInv == \A w \in Workers : \A i \in Entries(w) : WellQueued(w, i)

(* A registered stream has its handler, or its SYN_STREAM is on the way.    *)
ServedInv ==
  \A s \in accepted :
    \/ spawned[s] > 0
    \/ InHand /\ Syn(cur) /\ cur.id = s
    \/ SynQueued(s % NWorkers, s)

SynInv == HandlerAtMostOnce /\ HandInv /\ ChannelInv /\ ServedInv

LEMMA SynInit == Init => SynInv
  BY DEF Init, SynInv, HandlerAtMostOnce, HandInv, ChannelInv, ServedInv, InHand,
         Entries, WellQueued

(* A step that leaves the channels, the handlers and the frame in hand alone. *)
LEMMA SynKeep ==
  ASSUME SynInv,
         UNCHANGED <<cur, workerQ, accepted, spawned>>,
         InHand' = InHand,
         readPc' \in {"register", "store"} => readPc \in {"register", "store"}
  PROVE  SynInv'
  BY DEF SynInv, HandlerAtMostOnce, HandInv, ChannelInv, ServedInv, SynQueued, Entries, Syn,
         WellQueued

(* A new frame in hand: a SYN_STREAM still to be registered, a frame of a   *)
(* stream of the map, or one that goes no further.                         *)
LEMMA SynTake ==
  ASSUME SynInv, readPc = "read",
         UNCHANGED <<workerQ, accepted, spawned>>,
         \/ readPc' \notin {"register", "store", "dispatch"}
         \/ readPc' = "register" /\ Syn(cur')
         \/ readPc' = "dispatch" /\ ~Syn(cur') /\ cur'.id \in accepted
  PROVE  SynInv'
  <1>1. HandInv'
    BY DEF HandInv, InHand, Syn
  <1>2. ~InHand
    BY DEF InHand
  <1>3. QED
    BY <1>1, <1>2
    DEF SynInv, HandlerAtMostOnce, ChannelInv, ServedInv, SynQueued, Entries, Syn,
         WellQueued

(* The id that is registered has never been registered before.             *)
LEMMA SynRegister ==
  ASSUME TypeInv, IdInv, SynInv, RegisterStream
  PROVE  SynInv'
  <1>1. /\ cur.id \in StreamIds /\ cur.id \notin streams /\ cur.id \notin accepted
    <2>1. /\ cur.id \in StreamIds /\ cur.id \in Nat /\ lastClientStreamId \in Nat
          /\ cur.id > lastClientStreamId /\ streams \subseteq accepted
      BY ConnectionAssumption DEF RegisterStream, IdInv, TypeInv, TypeOK
    <2>2. \A s \in accepted : s <= lastClientStreamId
      BY DEF RegisterStream, IdInv
    <2>3. QED
      BY <2>1, <2>2
  <1>2. /\ accepted' = accepted \cup {cur.id} /\ readPc' = "store" /\ readPc = "register"
        /\ UNCHANGED <<cur, workerQ, spawned>>
    BY <1>1 DEF RegisterStream, workerVars
  <1>3. HandlerAtMostOnce' /\ spawned[cur.id] = 0
    <2>1. spawned[cur.id] \in Nat /\ spawned[cur.id] <= 1 /\ spawned[cur.id] # 1
      BY <1>1 DEF SynInv, HandlerAtMostOnce, TypeInv, TypeOK
    <2>2. QED
      BY <1>2, <2>1 DEF SynInv, HandlerAtMostOnce
  <1>4. HandInv'
    BY <1>1, <1>2, <1>3 DEF SynInv, HandInv, ChannelInv, WellQueued, InHand, SynQueued,
                      Entries, Syn
  <1>5. ChannelInv'
    BY <1>2 DEF SynInv, ChannelInv, WellQueued, Entries, Syn
  <1>6. ServedInv'
    BY <1>2 DEF SynInv, HandInv, ServedInv, InHand, SynQueued, Entries, Syn
  <1>7. QED
    BY <1>3, <1>4, <1>5, <1>6 DEF SynInv

(* The frame in hand goes to the end of its stream's channel.              *)
LEMMA SynDispatch ==
  ASSUME TypeInv, QueueInv, SynInv, Dispatch
  PROVE  SynInv'
  <1>1. /\ readPc = "dispatch" /\ readPc' = "read" /\ cur' = cur
        /\ UNCHANGED <<accepted, spawned>>
    BY DEF Dispatch, streamVars
  <1>2. /\ cur.id \in accepted /\ accepted \subseteq StreamIds
        /\ spawned \in [StreamIds -> Nat]
        /\ WorkerOf(cur) \in Workers /\ WorkerOf(cur) = cur.id % NWorkers
    BY <1>1, DispatchEntries DEF SynInv, HandInv, InHand, TypeInv, TypeOK, WorkerOf
  <1>3. \A w \in Workers : \A s : SynQueued(w, s) => SynQueued(w, s)'
    <2>1. \A w \in Workers : \A i \in Entries(w) :
            i \in Entries(w)' /\ workerQ'[w][i] = workerQ[w][i]
      BY DispatchEntries
    <2>2. QED
      BY <2>1 DEF SynQueued, Syn
  <1>4. HandInv' /\ HandlerAtMostOnce'
    BY <1>1 DEF HandInv, InHand, SynInv, HandlerAtMostOnce
  <1>5. ServedInv'
    <2>1. Syn(cur) => SynQueued(cur.id % NWorkers, cur.id)'
      BY <1>1, <1>2, DispatchEntries DEF SynQueued, Syn, Entries
    <2>2. \A s \in accepted : s % NWorkers \in Workers
      BY <1>2, ConnectionAssumption DEF Workers
    <2>3. QED
      BY <1>1, <1>3, <2>1, <2>2 DEF SynInv, ServedInv, InHand
  <1>6. ChannelInv'
    <2>1. SUFFICES ASSUME NEW w \in Workers, NEW i \in Entries(w)'
                   PROVE  WellQueued(w, i)'
      BY DEF ChannelInv
    <2>2. CASE i \in Entries(w) /\ workerQ'[w][i] = workerQ[w][i]
      <3>1. WellQueued(w, i)
        BY <2>2 DEF SynInv, ChannelInv
      <3>2. ASSUME NEW j \in Entries(w)', Syn(workerQ'[w][i]), Syn(workerQ'[w][j]),
                   workerQ'[w][j].id = workerQ'[w][i].id
            PROVE  j = i
        <4>1. CASE j \in Entries(w) /\ workerQ'[w][j] = workerQ[w][j]
          BY <2>2, <3>1, <3>2, <4>1 DEF WellQueued
        <4>2. CASE workerQ'[w][j] = cur
          <5>1. Syn(cur) /\ SynQueued(w, cur.id)
            BY <2>2, <3>2, <4>2 DEF SynQueued
          <5>2. QED
            BY <1>1, <5>1 DEF SynInv, HandInv, InHand
        <4>3. QED
          BY <4>1, <4>2, DispatchEntries
      <3>3. \A j \in Entries(w) : j \in Entries(w)' /\ workerQ'[w][j] = workerQ[w][j]
        BY DispatchEntries
      <3>4. QED
        BY <1>1, <2>2, <3>1, <3>2, <3>3 DEF WellQueued, Syn
    <2>3. CASE /\ w = WorkerOf(cur) /\ workerQ'[w][i] = cur
               /\ \A j \in Entries(w)' : j # i => j \in Entries(w) /\ j < i
      <3>1. \A j \in Entries(w)' : j # i => workerQ'[w][j] = workerQ[w][j]
        BY <2>3, DispatchEntries
      <3>2. CASE Syn(cur)
        <4>1. spawned[cur.id] = 0 /\ ~SynQueued(w, cur.id)
          BY <1>1, <3>2, SMTT(30) DEF SynInv, HandInv, InHand
        <4>2. QED
          BY <1>1, <1>2, <2>3, <3>1, <3>2, <4>1 DEF WellQueued, SynQueued, Syn
      <3>3. CASE ~Syn(cur)
        <4>1. spawned[cur.id] > 0 \/ SynQueued(w, cur.id)
          BY <1>2, <2>3, <3>3 DEF SynInv, ServedInv
        <4>2. \A j \in Entries(w) :
                /\ j \in Entries(w)' /\ workerQ'[w][j] = workerQ[w][j]
                /\ Syn(workerQ[w][j]) => j # i
          BY <2>3, <3>3, DispatchEntries
        <4>3. QED
          BY <1>1, <1>2, <2>3, <3>3, <4>1, <4>2 DEF WellQueued, SynQueued, Syn
      <3>4. QED
        BY <3>2, <3>3
    <2>4. QED
      BY <2>2, <2>3, DispatchEntries
  <1>7. QED
    BY <1>4, <1>5, <1>6 DEF SynInv

(* The entries behind the one a worker takes move up by one.               *)
LEMMA ReceiveShift ==
  ASSUME TypeInv, NEW w \in Workers, NEW pc, Receive(w, pc)
  PROVE  \A j \in Entries(w) : j # 1 =>
           /\ j \in Nat /\ j - 1 \in Entries(w)'
           /\ workerQ'[w][j - 1] = workerQ[w][j]
  <1>1. workerQ[w] \in Seq(Frame) /\ workerQ[w] # <<>> /\ workerQ'[w] = Tail(workerQ[w])
    BY DEF TypeInv, TypeOK, Receive
  <1>2. QED
    BY <1>1 DEF Entries

(* A worker takes the frame h and, when it is a SYN_STREAM, starts the      *)
(* handler.                                                                *)
LEMMA SynReceive ==
  ASSUME TypeInv, QueueInv, SynInv, NEW w \in Workers, NEW pc, Receive(w, pc),
         UNCHANGED <<readPc, cur, accepted>>,
         NEW h, h = workerQ[w][1],
         \A s \in StreamIds : spawned'[s] = IF Syn(h) /\ s = h.id THEN 1 ELSE spawned[s]
  PROVE  SynInv'
  <1>1. /\ 1 \in Entries(w) /\ h.id \in accepted /\ accepted \subseteq StreamIds
        /\ WorkerOf(h) = w /\ WellQueued(w, 1)
        /\ spawned \in [StreamIds -> Nat]
    BY ReceiveEntries DEF SynInv, ChannelInv, WellQueued, QueueInv, TypeInv, TypeOK
  <1>2. \A i \in Entries(w)' : /\ i \in Nat /\ i + 1 \in Entries(w) /\ i + 1 # 1
                               /\ workerQ'[w][i] = workerQ[w][i + 1]
    BY ReceiveEntries
  <1>3. \A v \in Workers \ {w} : Entries(v)' = Entries(v) /\ workerQ'[v] = workerQ[v]
    BY ReceiveEntries DEF Entries
  <1>4. \A v \in Workers \ {w} : \A i \in Entries(v) : workerQ[v][i].id # h.id
    BY <1>1 DEF QueueInv, WorkerOf
  <1>5. \A i \in Entries(w) : Syn(workerQ[w][i]) /\ Syn(h) /\ i # 1 => workerQ[w][i].id # h.id
    BY <1>1 DEF WellQueued
  <1>6. ASSUME NEW v \in Workers, NEW s, SynQueued(v, s)'
        PROVE  SynQueued(v, s) /\ ~(Syn(h) /\ s = h.id)
    <2>1. PICK i \in Entries(v)' : Syn(workerQ'[v][i]) /\ workerQ'[v][i].id = s
      BY <1>6 DEF SynQueued, Syn
    <2>2. CASE v = w
      BY <1>2, <1>5, <2>1, <2>2 DEF SynQueued
    <2>3. CASE v # w
      BY <1>3, <1>4, <2>1, <2>3 DEF SynQueued
    <2>4. QED
      BY <2>2, <2>3
  <1>7. ASSUME NEW v \in Workers, NEW s, SynQueued(v, s), ~(Syn(h) /\ s = h.id)
        PROVE  SynQueued(v, s)'
    <2>1. PICK i \in Entries(v) : Syn(workerQ[v][i]) /\ workerQ[v][i].id = s
      BY <1>7 DEF SynQueued
    <2>2. CASE v = w
      <3>1. i - 1 \in Entries(v)' /\ workerQ'[v][i - 1] = workerQ[v][i]
        BY <1>7, <2>1, <2>2, ReceiveShift
      <3>2. QED
        BY <2>1, <3>1 DEF SynQueued, Syn
    <2>3. CASE v # w
      BY <1>3, <2>1, <2>3 DEF SynQueued, Syn
    <2>4. QED
      BY <2>2, <2>3
  <1>8. HandlerAtMostOnce'
    BY <1>1 DEF SynInv, HandlerAtMostOnce
  <1>9. HandInv'
    <2>1. Syn(h) => SynQueued(w, h.id)
      BY <1>1 DEF SynQueued
    <2>2. QED
      BY <1>1, <1>6, <2>1 DEF SynInv, HandInv, InHand, Syn
  <1>10. ServedInv'
    <2>1. \A s \in accepted : s % NWorkers \in Workers
      BY <1>1, ConnectionAssumption DEF Workers
    <2>2. QED
      BY <1>1, <1>7, <2>1 DEF SynInv, ServedInv, InHand, Syn
  <1>11. ChannelInv'
    <2>1. SUFFICES ASSUME NEW v \in Workers, NEW i \in Entries(v)'
                   PROVE  WellQueued(v, i)'
      BY DEF ChannelInv
    <2>2. CASE v # w
      BY <1>1, <1>3, <1>4, <2>1, <2>2 DEF SynInv, ChannelInv, WellQueued, Syn
    <2>3. CASE v = w
      <3>1. /\ WellQueued(w, i + 1) /\ workerQ'[w][i] = workerQ[w][i + 1]
            /\ i \in Nat /\ i + 1 \in Entries(w) /\ i + 1 # 1
        BY <1>2, <2>1, <2>3 DEF SynInv, ChannelInv
      <3>2. workerQ'[w][i].id \in StreamIds
        BY <1>1, <3>1 DEF WellQueued
      <3>3. ASSUME Syn(workerQ'[w][i])
            PROVE  /\ spawned'[workerQ'[w][i].id] = 0
                   /\ \A j \in Entries(w)' :
                        Syn(workerQ'[w][j]) /\ workerQ'[w][j].id = workerQ'[w][i].id => j = i
        BY <1>2, <1>5, <3>1, <3>2, <3>3 DEF WellQueued
      <3>4. ASSUME ~Syn(workerQ'[w][i])
            PROVE  \/ spawned'[workerQ'[w][i].id] > 0
                   \/ \E j \in Entries(w)' : /\ j < i /\ Syn(workerQ'[w][j])
                                             /\ workerQ'[w][j].id = workerQ'[w][i].id
        <4>1. CASE spawned[workerQ'[w][i].id] > 0
          BY <3>2, <4>1
        <4>2. ASSUME NEW j \in Entries(w), j < i + 1, Syn(workerQ[w][j]),
                     workerQ[w][j].id = workerQ'[w][i].id
              PROVE  \/ spawned'[workerQ'[w][i].id] > 0
                     \/ \E k \in Entries(w)' : /\ k < i /\ Syn(workerQ'[w][k])
                                               /\ workerQ'[w][k].id = workerQ'[w][i].id
          <5>1. CASE j = 1
            BY <3>2, <4>2, <5>1
          <5>2. CASE j # 1
            <6>1. j \in Nat /\ j - 1 \in Entries(w)' /\ workerQ'[w][j - 1] = workerQ[w][j]
              BY <5>2, ReceiveShift
            <6>2. QED
              BY <3>1, <4>2, <6>1
          <5>3. QED
            BY <5>1, <5>2
        <4>3. QED
          BY <3>1, <3>4, <4>1, <4>2 DEF WellQueued
      <3>5. QED
        BY <1>1, <2>3, <3>1, <3>3, <3>4 DEF WellQueued, Syn
    <2>4. QED
      BY <2>2, <2>3
  <1>12. QED
    BY <1>8, <1>9, <1>10, <1>11 DEF SynInv

(* SYN_STREAM taken by its worker.                                         *)
LEMMA SynSpawn ==
  ASSUME TypeInv, QueueInv, SynInv, NEW w \in Workers, WorkerSynStream(w)
  PROVE  SynInv'
  <1>. DEFINE h == workerQ[w][1]
  <1>1. /\ Receive(w, "recv") /\ UNCHANGED <<readPc, cur, accepted>>
        /\ spawned' = [spawned EXCEPT ![Head(workerQ[w]).id] =
                         spawned[Head(workerQ[w]).id] + 1]
        /\ Syn(Head(workerQ[w]))
    BY DEF WorkerSynStream, readVars, Syn
  <1>2. h = Head(workerQ[w]) /\ 1 \in Entries(w)
    BY <1>1, ReceiveEntries
  <1>3. Syn(h) /\ h.id \in StreamIds /\ spawned[h.id] = 0
    BY <1>1, <1>2 DEF SynInv, ChannelInv, WellQueued, TypeInv, TypeOK
  <1>4. \A s \in StreamIds : spawned'[s] = IF Syn(h) /\ s = h.id THEN 1 ELSE spawned[s]
    BY <1>1, <1>2, <1>3 DEF TypeInv, TypeOK
  <1>. HIDE DEF h
  <1>5. QED
    BY <1>1, <1>4, SynReceive DEF h

(* Any other frame taken by its worker.                                    *)
LEMMA SynReceiveOther ==
  ASSUME TypeInv, QueueInv, SynInv, NEW w \in Workers, NEW pc, Receive(w, pc),
         ~Syn(Head(workerQ[w])), UNCHANGED readVars, UNCHANGED <<accepted, spawned>>
  PROVE  SynInv'
  <1>1. ~Syn(workerQ[w][1])
    BY ReceiveEntries
  <1>2. QED
    BY <1>1, SynReceive DEF readVars

LEMMA SynStep ==
  TypeInv /\ IdInv /\ QueueInv /\ SynInv /\ [Next]_vars => SynInv'
  <1>. SUFFICES ASSUME TypeInv, IdInv, QueueInv, SynInv, [Next]_vars
                PROVE  SynInv'
    OBVIOUS
  <1>1. ASSUME NEW f \in ClientFrames, ReadSynStream(f) PROVE SynInv'
    BY <1>1, SynTake DEF ReadSynStream, Take, Syn, workerVars, streamVars
  <1>2. ASSUME NEW f \in ClientFrames, ReadStreamFrame(f) PROVE SynInv'
    BY <1>2, SynTake DEF ReadStreamFrame, Take, Syn, IdInv, workerVars, streamVars
  <1>3. ASSUME NEW f \in ClientFrames, ReadPing(f) PROVE SynInv'
    BY <1>3, SynTake DEF ReadPing, Take, workerVars, streamVars
  <1>4. ASSUME NEW f \in ClientFrames, ReadIgnored(f) PROVE SynInv'
    BY <1>4, SynTake DEF ReadIgnored, Take, workerVars, streamVars
  <1>5. ASSUME NEW f \in ClientFrames, ReadGoAway(f) PROVE SynInv'
    BY <1>5, SynTake DEF ReadGoAway, Take, workerVars, streamVars
  <1>6. CASE ReadFail
    BY <1>6, SynKeep DEF ReadFail, InHand, workerVars, streamVars
  <1>7. CASE RegisterStream
    BY <1>7, SynRegister
  <1>8. CASE StoreLastId
    BY <1>8, SynKeep DEF StoreLastId, InHand, workerVars, streamVars
  <1>9. CASE Dispatch
    BY <1>9, SynDispatch
  <1>10. CASE SendReply
    BY <1>10, SynKeep DEF SendReply, InHand, workerVars, streamVars
  <1>11. CASE BroadcastGoAway
    BY <1>11, SynKeep DEF BroadcastGoAway, InHand, workerVars, streamVars
  <1>12. CASE CloseStreams
    BY <1>12, SynKeep DEF CloseStreams, InHand, workerVars
  <1>13. CASE EndRead
    BY <1>13, SynKeep DEF EndRead, InHand, workerVars, streamVars
  <1>14. ASSUME NEW w \in Workers, WorkerSynStream(w) PROVE SynInv'
    BY <1>14, SynSpawn
  <1>15. ASSUME NEW w \in Workers, WorkerData(w) PROVE SynInv'
    BY <1>15, SynReceiveOther DEF WorkerData, Syn
  <1>16. ASSUME NEW w \in Workers, WorkerHeaders(w) PROVE SynInv'
    BY <1>16, SynReceiveOther DEF WorkerHeaders, Syn, streamVars
  <1>17. ASSUME NEW w \in Workers, WorkerRst(w) PROVE SynInv'
    BY <1>17, SynReceiveOther DEF WorkerRst, Syn
  <1>18. ASSUME NEW w \in Workers, WorkerFin(w) \/ WorkerRemove(w) PROVE SynInv'
    BY <1>18, SynKeep DEF WorkerFin, WorkerRemove, InHand, readVars, streamVars
  <1>19. CASE \/ WriteFrame \/ WriteFail \/ UNCHANGED vars
              \/ \E c \in Closers : CloseSwap(c) \/ Closer(c) \/ CloseDropped(c)
    <2>1. UNCHANGED <<readPc, cur, workerQ, accepted, spawned>>
      BY <1>19 DEF WriteFrame, WriteFail, vars, CloseSwap, Closer, CloseLoadLast,
                   CloseSendGoAway, CloseBroadcast, CloseReturn, CloseDropped,
                   readVars, workerVars, streamVars
    <2>2. QED
      BY <2>1, SynKeep DEF InHand
  <1>20. QED
    BY <1>1, <1>2, <1>3, <1>4, <1>5, <1>6, <1>7, <1>8, <1>9, <1>10, <1>11, <1>12,
       <1>13, <1>14, <1>15, <1>16, <1>17, <1>18, <1>19
    DEF Next, Client, ReadTask, Worker

(* However often the client repeats an id, a stream's handler is started at *)
(* most once, and only for a stream that was registered.                   *)
THEOREM HandlerOnce == Spec => []HandlerAtMostOnce
  <1>1. SynInv => HandlerAtMostOnce
    BY DEF SynInv
  <1>2. QED
    BY TypeInit, TypeStep, IdInit, IdStep, QueueInit, ReceivedInit, OrderStep,
       SynInit, SynStep, <1>1, PTL DEF Spec

----------------------------------------------------------------------------
LEMMA DataStep ==
  TypeInv /\ QueueInv /\ SynInv /\ HandlerBeforeData /\ [Next]_vars => HandlerBeforeData'
  <1>. SUFFICES ASSUME TypeInv, QueueInv, SynInv, HandlerBeforeData, [Next]_vars
                PROVE  HandlerBeforeData'
    OBVIOUS
  <1>1. ASSUME NEW w \in Workers, WorkerData(w) PROVE HandlerBeforeData'
    <2>1. PICK pc : Receive(w, pc)
      BY <1>1 DEF WorkerData
    <2>2. 1 \in Entries(w) /\ workerQ[w][1] = Head(workerQ[w]) /\ Entries(w) \subseteq Nat \ {0}
      <3>1. workerQ[w] \in Seq(Frame)
        BY DEF TypeInv, TypeOK
      <3>2. QED
        BY <2>1, <3>1, ReceiveEntries DEF Entries
    <2>3. spawned[Head(workerQ[w]).id] > 0
      <3>1. ~Syn(workerQ[w][1]) /\ WellQueued(w, 1)
        BY <1>1, <2>2 DEF WorkerData, Syn, SynInv, ChannelInv
      <3>2. QED
        BY <2>2, <3>1 DEF WellQueued
    <2>4. /\ spawned' = spawned
          /\ \A s \in StreamIds : received'[s] # <<>> =>
               received[s] # <<>> \/ s = Head(workerQ[w]).id
      BY <1>1 DEF WorkerData, TypeInv, TypeOK
    <2>5. QED
      BY <2>3, <2>4 DEF HandlerBeforeData
  <1>2. ASSUME NEW w \in Workers, WorkerSynStream(w) PROVE HandlerBeforeData'
    <2>1. received' = received /\ \A s \in StreamIds : spawned[s] > 0 => spawned'[s] > 0
      BY <1>2 DEF WorkerSynStream, TypeInv, TypeOK
    <2>2. QED
      BY <2>1 DEF HandlerBeforeData
  <1>3. CASE UNCHANGED <<received, spawned>>
    BY <1>3 DEF HandlerBeforeData
  <1>4. QED
    BY <1>1, <1>2, <1>3
    DEF Next, Client, ReadTask, Worker, Closer, ReadSynStream, ReadStreamFrame, ReadPing,
        ReadIgnored, ReadGoAway, ReadFail, RegisterStream, StoreLastId, Dispatch,
        SendReply, BroadcastGoAway, CloseStreams, EndRead, WorkerHeaders, WorkerFin,
        WorkerRst, WorkerRemove, WriteFrame, WriteFail, CloseSwap, CloseLoadLast,
        CloseSendGoAway, CloseBroadcast, CloseReturn, CloseDropped, streamVars, vars

(* No Data frame reaches a stream before its handler has been started.      *)
THEOREM HandlerFirst == Spec => []HandlerBeforeData
  <1>1. Init => HandlerBeforeData
    BY DEF Init, HandlerBeforeData
  <1>2. QED
    BY TypeInit, TypeStep, IdInit, IdStep, QueueInit, ReceivedInit, OrderStep,
       SynInit, SynStep, DataStep, <1>1, PTL DEF Spec
=============================================================================
