-------------------------- MODULE StreamSendProofs --------------------------
(***************************************************************************)
(* Theorems about StreamSend, for every set of tasks that share the        *)
(* stream, every capacity of the frame channel and any number of calls.    *)
(***************************************************************************)
EXTENDS StreamSend, TLAPS

----------------------------------------------------------------------------
(* The inductive invariant, one part per concern.                          *)

HasReply    == \E j \in DOMAIN out : out[j].type = "SynReply"
HasFinFrame == \E i \in DOMAIN out : out[i].fin

(* What leads to a Data frame: a task past the wait has found replied set,  *)
(* and replied, unless the client set it, follows a SYN_REPLY frame.       *)
ReplyInv ==
  /\ \A t \in Tasks : pc[t] \in {"store", "notify", "storeFin"} => HasReply
  /\ replied /\ ~peerReplied => HasReply
  /\ \A t \in Tasks : pc[t] \in {"finCheck", "setFin", "send"} => replied
  /\ ReplyFirst

(* How a FIN travels: the steps that only a call with fin takes, the frame  *)
(* that a reply with FIN has already sent, the flag that a write with FIN   *)
(* has already set.                                                        *)
FinInv ==
  /\ \A t \in Tasks :
       /\ pc[t] \in {"storeFin", "setFin"} => fin[t]
       /\ pc[t] = "reset" => ~fin[t]
       /\ pc[t] \in {"store", "notify", "storeFin"} /\ fin[t] => HasFinFrame
       /\ pc[t] = "send" /\ fin[t] => localFin
  /\ FinFlagAccounted

(* A FIN that has returned is behind local_fin_sent, so a call that began   *)
(* after it cannot be past the check.                                      *)
LateInv ==
  /\ finReturned => localFin
  /\ \A t \in Tasks :
       late[t] => finReturned /\ pc[t] \notin {"setFin", "send"}

(* From the store of local_fin_sent on, and every FIN of a write_data is   *)
(* behind it, nobody gets past the check, and a task that has sent a Data  *)
(* frame since is not past it.                                             *)
AfterFlag(i) == localFin /\ flagAt < i

StragglerInv ==
  /\ localFin => flagAt <= Len(out)
  /\ \A i \in DOMAIN out : IsData(i) /\ out[i].fin => AfterFlag(i)
  /\ \A i \in DOMAIN out :
       IsData(i) /\ AfterFlag(i) => pc[out[i].by] \notin {"setFin", "send"}
  /\ \A i, j \in DOMAIN out :
       IsData(i) /\ AfterFlag(i) /\ IsData(j) /\ i < j => out[i].by # out[j].by

(* The Notified future of a waiting task is no older than the last wake-up, *)
(* and once the stream is replied to either a wake-up has come since or     *)
(* somebody is about to send one.                                          *)
WakeInv ==
  \A t \in Tasks :
    /\ pc[t] \in {"recheck", "wait"} => ticket[t] <= wakeups
    /\ pc[t] = "wait" /\ replied /\ ticket[t] = wakeups =>
         peerPc = "notify" \/ \E u \in Tasks : pc[u] = "notify"

SendInv == TypeOK /\ ReplyInv /\ FinInv /\ LateInv /\ StragglerInv /\ WakeInv
----------------------------------------------------------------------------
(* Types.                                                                  *)

LEMMA TypeInit == Init => TypeOK
  <1>. SUFFICES ASSUME Init PROVE TypeOK
    OBVIOUS
  <1>1. out \in Seq(OutFrame) /\ written \in 0 .. Len(out) /\ Len(out) - written <= WriteCap
    <2>1. out = <<>> /\ Len(out) = 0 /\ written = 0
      BY DEF Init
    <2>2. QED
      BY <2>1, SendAssumption
  <1>2. pc \in [Tasks -> TaskPcs] /\ fin \in [Tasks -> BOOLEAN]
    BY DEF Init, TaskPcs
  <1>3. ticket \in [Tasks -> Nat] /\ late \in [Tasks -> BOOLEAN]
    BY DEF Init
  <1>4. QED
    BY <1>1, <1>2, <1>3 DEF Init, TypeOK

(* A send(..).await puts one frame in and stays within the capacity.        *)
LEMMA SentEffect ==
  ASSUME TypeOK, NEW t \in Tasks, NEW type \in {"SynReply", "Data", "RstStream"},
         Sent(t, type)
  PROVE  /\ out' \in Seq(OutFrame)
         /\ Len(out) \in Nat /\ DOMAIN out = 1 .. Len(out)
         /\ DOMAIN out' = 1 .. Len(out) + 1
         /\ out'[Len(out) + 1].type = type
         /\ out'[Len(out) + 1].fin = fin[t] /\ out'[Len(out) + 1].by = t
         /\ \A i \in DOMAIN out : i \in DOMAIN out' /\ out'[i] = out[i]
         /\ Len(out) + 1 \in DOMAIN out'
         /\ written \in 0 .. Len(out')
         /\ Len(out') - written <= WriteCap
  <1>1. /\ out \in Seq(OutFrame) /\ written \in 0 .. Len(out) /\ WriteCap \in Nat
        /\ Len(out) - written < WriteCap
    BY SendAssumption DEF TypeOK, Sent
  <1>2. [type |-> type, fin |-> fin[t], by |-> t] \in OutFrame
    BY DEF TypeOK, OutFrame
  <1>3. out' = Append(out, [type |-> type, fin |-> fin[t], by |-> t])
    BY DEF Sent
  <1>4. out' \in Seq(OutFrame) /\ Len(out') = Len(out) + 1
    BY <1>1, <1>2, <1>3
  <1>5. DOMAIN out = 1 .. Len(out) /\ DOMAIN out' = 1 .. Len(out')
    BY <1>1, <1>4
  <1>6. QED
    BY <1>1, <1>2, <1>3, <1>4, <1>5

LEMMA TypeStep == TypeOK /\ [Next]_vars => TypeOK'
  <1>. SUFFICES ASSUME TypeOK, [Next]_vars PROVE TypeOK'
    OBVIOUS
  <1>. USE DEF TypeOK, TaskPcs, WaitPcs, Goto, ReturnOk, CloseSending, outVars, flagVars,
               finVars, callVars, histVars
  <1>1. ASSUME NEW t \in Tasks, NEW op \in Ops, NEW withFin \in BOOLEAN,
               Call(t, op, withFin)
        PROVE  TypeOK'
    BY <1>1 DEF Call, Ops
  <1>2. ASSUME NEW t \in Tasks, Task(t) PROVE TypeOK'
    <2>1. CASE ReplySend(t)
      BY <2>1, SentEffect DEF ReplySend
    <2>2. CASE ReplyStore(t) \/ ReplyNotify(t) \/ ReplyStoreFin(t)
      <3>1. CASE ReplyStore(t)
        BY <3>1 DEF ReplyStore
      <3>2. CASE ReplyNotify(t)
        <4>1. finReturned' \in BOOLEAN
          BY <3>2 DEF ReplyNotify
        <4>2. pc' \in [Tasks -> TaskPcs]
          BY <3>2 DEF ReplyNotify
        <4>3. QED
          BY <3>2, <4>1, <4>2 DEF ReplyNotify
      <3>3. CASE ReplyStoreFin(t)
        BY <3>3 DEF ReplyStoreFin
      <3>4. QED
        BY <2>2, <3>1, <3>2, <3>3
    <2>3. CASE WriteCheck(t) \/ CreateNotified(t) \/ WriteRecheck(t) \/ WriteWoken(t)
      BY <2>3, ZenonT(40) DEF WriteCheck, CreateNotified, WriteRecheck, WriteWoken
    <2>4. CASE FinCheck(t) \/ SetFin(t)
      <3>1. CASE FinCheck(t)
        BY <3>1 DEF FinCheck
      <3>2. CASE SetFin(t)
        <4>1. localFin' = TRUE /\ flagAt' \in Nat /\ pc' \in [Tasks -> TaskPcs]
          BY <3>2 DEF SetFin
        <4>2. QED
          BY <3>2, <4>1 DEF SetFin
      <3>3. QED
        BY <2>4, <3>1, <3>2
    <2>5. CASE WriteSend(t)
      BY <2>5, SentEffect DEF WriteSend
    <2>6. CASE ResetSend(t)
      BY <2>6, SentEffect DEF ResetSend
    <2>7. CASE SendFails(t)
      BY <2>7 DEF SendFails
    <2>8. QED
      BY <1>2, <2>1, <2>2, <2>3, <2>4, <2>5, <2>6, <2>7 DEF Task
  <1>3. ASSUME NEW t \in Tasks, Cancel(t) PROVE TypeOK'
    BY <1>3 DEF Cancel
  <1>4. CASE PeerReply \/ PeerNotify
    <2>1. CASE PeerReply
      BY <2>1 DEF PeerReply
    <2>2. CASE PeerNotify
      BY <2>2 DEF PeerNotify
    <2>3. QED
      BY <1>4, <2>1, <2>2
  <1>5. CASE WriteFrame \/ WriteFail
    <2>1. CASE WriteFrame
      BY <2>1, SendAssumption DEF WriteFrame
    <2>2. CASE WriteFail
      BY <2>2 DEF WriteFail
    <2>3. QED
      BY <1>5, <2>1, <2>2
  <1>6. CASE UNCHANGED vars
    BY <1>6 DEF vars
  <1>7. QED
    BY <1>1, <1>2, <1>3, <1>4, <1>5, <1>6 DEF Next

(* Every field has its type and the frame channel stays within its capacity.*)
THEOREM TypeCorrect == Spec => []TypeOK
  BY TypeInit, TypeStep, PTL DEF Spec

----------------------------------------------------------------------------
(* What any step does to the frames and to the flags.                      *)

(* Frames are only added, and at most one at the end.                      *)
LEMMA OutGrows ==
  ASSUME TypeOK, [Next]_vars
  PROVE  \A i \in DOMAIN out : i \in DOMAIN out' /\ out'[i] = out[i]
  <1>. USE DEF outVars
  <1>1. ASSUME NEW t \in Tasks, ReplySend(t)
        PROVE  \A i \in DOMAIN out : i \in DOMAIN out' /\ out'[i] = out[i]
    BY <1>1, SentEffect DEF ReplySend
  <1>2. ASSUME NEW t \in Tasks, WriteSend(t)
        PROVE  \A i \in DOMAIN out : i \in DOMAIN out' /\ out'[i] = out[i]
    BY <1>2, SentEffect DEF WriteSend
  <1>3. ASSUME NEW t \in Tasks, ResetSend(t)
        PROVE  \A i \in DOMAIN out : i \in DOMAIN out' /\ out'[i] = out[i]
    BY <1>3, SentEffect DEF ResetSend
  <1>4. \/ UNCHANGED out
        \/ \E t \in Tasks : ReplySend(t) \/ WriteSend(t) \/ ResetSend(t)
    BY DEF Next, Task, Call, ReplyStore, ReplyNotify, ReplyStoreFin, WriteCheck,
           CreateNotified, WriteRecheck, WriteWoken, FinCheck, SetFin, SendFails, Cancel,
           PeerReply, PeerNotify, WriteFrame, WriteFail, vars
  <1>5. QED
    BY <1>1, <1>2, <1>3, <1>4

(* Each flag, once set, stays set.                                         *)
LEMMA FlagsStay ==
  ASSUME [Next]_vars
  PROVE  /\ replied => replied'
         /\ localFin => localFin' /\ flagAt' = flagAt
         /\ ~localFin /\ localFin' => flagAt' = Len(out) /\ out' = out
         /\ peerReplied => peerReplied'
         /\ finReturned => finReturned'
         /\ abandoned => abandoned'
  <1>. DEFINE Stay == /\ replied => replied'
                      /\ localFin => localFin' /\ flagAt' = flagAt
                      /\ ~localFin /\ localFin' => flagAt' = Len(out) /\ out' = out
                      /\ peerReplied => peerReplied'
                      /\ finReturned => finReturned'
                      /\ abandoned => abandoned'
  <1>. USE DEF flagVars, finVars, outVars, CloseSending, histVars
  <1>1. ASSUME NEW t \in Tasks, ReturnOk(t) PROVE finReturned => finReturned'
    BY <1>1 DEF ReturnOk
  <1>2. ASSUME NEW t \in Tasks, Task(t)
        PROVE  Stay
    <2>1. CASE ReplySend(t) \/ ReplyStore(t) \/ ReplyNotify(t) \/ ReplyStoreFin(t)
      BY <1>1, <2>1 DEF ReplySend, ReplyStore, ReplyNotify, ReplyStoreFin
    <2>2. CASE WriteCheck(t) \/ CreateNotified(t) \/ WriteRecheck(t) \/ WriteWoken(t)
      BY <2>2 DEF WriteCheck, CreateNotified, WriteRecheck, WriteWoken
    <2>3. CASE FinCheck(t) \/ SetFin(t) \/ WriteSend(t)
      BY <1>1, <2>3 DEF FinCheck, SetFin, WriteSend
    <2>4. CASE ResetSend(t)
      BY <1>1, <2>4 DEF ResetSend
    <2>5. CASE SendFails(t)
      BY <2>5 DEF SendFails
    <2>6. QED
      BY <1>2, <2>1, <2>2, <2>3, <2>4, <2>5 DEF Task
  <1>3. ASSUME NEW t \in Tasks, Cancel(t)
        PROVE  Stay
    BY <1>3 DEF Cancel
  <1>4. ASSUME NEW t \in Tasks, NEW op \in Ops, NEW withFin \in BOOLEAN,
               Call(t, op, withFin)
        PROVE  Stay
    BY <1>4 DEF Call
  <1>5. ASSUME PeerReply \/ PeerNotify \/ WriteFrame \/ WriteFail PROVE Stay
    BY <1>5 DEF PeerReply, PeerNotify, WriteFrame, WriteFail
  <1>6. ASSUME UNCHANGED vars PROVE Stay
    BY <1>6 DEF vars
  <1>7. Stay
    <2>. HIDE DEF Stay
    <2>. QED
      BY <1>2, <1>3, <1>4, <1>5, <1>6 DEF Next
  <1>8. QED
    BY <1>7

----------------------------------------------------------------------------
(* No data overtakes the reply.                                            *)

LEMMA ReplyInit == Init => ReplyInv
  BY DEF Init, ReplyInv, ReplyFirst

(* A frame that is not data overtakes nothing.                             *)
LEMMA NotDataSent ==
  ASSUME TypeOK, ReplyFirst, ~peerReplied' => ~peerReplied,
         NEW t \in Tasks, NEW type \in {"SynReply", "RstStream"}, Sent(t, type)
  PROVE  ReplyFirst'
  <1>1. SUFFICES ASSUME ~peerReplied', NEW i \in DOMAIN out', IsData(i)'
                 PROVE  \E j \in 1 .. i : out'[j].type = "SynReply"
    BY DEF ReplyFirst, IsData
  <1>2. i # Len(out) + 1
    BY <1>1, SentEffect DEF IsData
  <1>3. i \in DOMAIN out /\ IsData(i)
    BY <1>1, <1>2, SentEffect DEF IsData
  <1>4. PICK j \in 1 .. i : out[j].type = "SynReply"
    BY <1>1, <1>3 DEF ReplyFirst
  <1>5. j \in DOMAIN out
    BY <1>3, SentEffect
  <1>6. QED
    BY <1>4, <1>5, SentEffect

LEMMA ReplyStep == TypeOK /\ ReplyInv /\ [Next]_vars => ReplyInv'
  <1>. SUFFICES ASSUME TypeOK, ReplyInv, [Next]_vars PROVE ReplyInv'
    OBVIOUS
  <1>1. HasReply => HasReply'
    BY OutGrows DEF HasReply
  <1>2. UNCHANGED out => ReplyFirst'
    BY FlagsStay DEF ReplyInv, ReplyFirst, IsData
  <1>. USE DEF Goto, ReturnOk, CloseSending, outVars, flagVars, finVars, callVars, histVars
  <1>3. ASSUME NEW t \in Tasks, NEW op \in Ops, NEW withFin \in BOOLEAN,
               Call(t, op, withFin)
        PROVE  ReplyInv'
    BY <1>1, <1>2, <1>3 DEF Call, Ops, TypeOK, ReplyInv
  <1>4. ASSUME NEW t \in Tasks, Task(t) PROVE ReplyInv'
    <2>1. CASE ReplySend(t)
      <3>1. HasReply'
        <4>1. Len(out) + 1 \in DOMAIN out' /\ out'[Len(out) + 1].type = "SynReply"
          <5>1. Sent(t, "SynReply")
            BY <2>1 DEF ReplySend
          <5>2. QED
            BY <5>1, SentEffect
        <4>2. QED
          BY <4>1 DEF HasReply
      <3>2. ReplyFirst'
        BY <2>1, NotDataSent DEF ReplySend, ReplyInv
      <3>3. QED
        BY <2>1, <3>1, <3>2 DEF ReplySend, TypeOK, ReplyInv
    <2>2. CASE ReplyStore(t)
      BY <1>1, <1>2, <2>2 DEF ReplyStore, TypeOK, ReplyInv
    <2>3. CASE ReplyNotify(t) \/ ReplyStoreFin(t)
      BY <1>1, <1>2, <2>3 DEF ReplyNotify, ReplyStoreFin, TypeOK, ReplyInv
    <2>4. CASE WriteCheck(t) \/ CreateNotified(t) \/ WriteRecheck(t) \/ WriteWoken(t)
      BY <1>1, <1>2, <2>4
      DEF WriteCheck, CreateNotified, WriteRecheck, WriteWoken, TypeOK, ReplyInv
    <2>5. CASE FinCheck(t) \/ SetFin(t)
      BY <1>1, <1>2, <2>5 DEF FinCheck, SetFin, TypeOK, ReplyInv
    <2>6. CASE WriteSend(t)
      <3>1. ReplyFirst'
        <4>1. SUFFICES ASSUME ~peerReplied', NEW i \in DOMAIN out', IsData(i)'
                       PROVE  \E j \in 1 .. i : out'[j].type = "SynReply"
          BY DEF ReplyFirst, IsData
        <4>2. ~peerReplied /\ HasReply
          BY <2>6, <4>1, FlagsStay DEF WriteSend, ReplyInv
        <4>3. CASE i \in DOMAIN out
          <5>1. IsData(i)
            BY <4>1, <4>3, OutGrows DEF IsData
          <5>2. PICK j \in 1 .. i : out[j].type = "SynReply"
            BY <4>2, <4>3, <5>1 DEF ReplyInv, ReplyFirst
          <5>3. j \in DOMAIN out
            BY <4>3 DEF TypeOK
          <5>4. QED
            BY <5>2, <5>3, OutGrows
        <4>4. CASE i \notin DOMAIN out
          <5>1. i = Len(out) + 1
            <6>1. Sent(t, "Data")
              BY <2>6 DEF WriteSend
            <6>2. QED
              BY <4>4, <6>1, SentEffect
          <5>2. PICK j \in DOMAIN out : out[j].type = "SynReply"
            BY <4>2 DEF HasReply
          <5>3. j \in 1 .. i
            BY <5>1 DEF TypeOK
          <5>4. QED
            BY <5>2, <5>3, OutGrows
        <4>5. QED
          BY <4>3, <4>4
      <3>2. QED
        BY <1>1, <2>6, <3>1 DEF WriteSend, TypeOK, ReplyInv
    <2>7. CASE ResetSend(t)
      <3>1. ReplyFirst'
        BY <2>7, NotDataSent DEF ResetSend, ReplyInv
      <3>2. QED
        BY <1>1, <2>7, <3>1 DEF ResetSend, TypeOK, ReplyInv
    <2>8. CASE SendFails(t)
      BY <1>1, <1>2, <2>8 DEF SendFails, TypeOK, ReplyInv
    <2>9. QED
      BY <1>4, <2>1, <2>2, <2>3, <2>4, <2>5, <2>6, <2>7, <2>8 DEF Task
  <1>5. ASSUME NEW t \in Tasks, Cancel(t) PROVE ReplyInv'
    BY <1>1, <1>2, <1>5 DEF Cancel, TypeOK, ReplyInv
  <1>6. CASE PeerReply \/ PeerNotify
    BY <1>1, <1>2, <1>6 DEF PeerReply, PeerNotify, TypeOK, ReplyInv
  <1>7. CASE WriteFrame \/ WriteFail
    BY <1>1, <1>2, <1>7 DEF WriteFrame, WriteFail, TypeOK, ReplyInv
  <1>8. CASE UNCHANGED vars
    BY <1>1, <1>2, <1>8 DEF vars, TypeOK, ReplyInv
  <1>9. QED
    BY <1>3, <1>4, <1>5, <1>6, <1>7, <1>8 DEF Next

----------------------------------------------------------------------------
(* The FIN and its flag.                                                   *)

LEMMA FinInit == Init => FinInv
  BY DEF Init, FinInv, FinFlagAccounted

(* A frame of t carries t's FIN.                                           *)
LEMMA FinSent ==
  ASSUME TypeOK, NEW t \in Tasks, NEW type \in {"SynReply", "Data", "RstStream"},
         Sent(t, type), fin[t]
  PROVE  HasFinFrame'
  <1>1. Len(out) + 1 \in DOMAIN out' /\ out'[Len(out) + 1].fin
    BY SentEffect
  <1>2. QED
    BY <1>1 DEF HasFinFrame

LEMMA FinStep == TypeOK /\ FinInv /\ [Next]_vars => FinInv'
  <1>. SUFFICES ASSUME TypeOK, FinInv, [Next]_vars PROVE FinInv'
    OBVIOUS
  <1>1. HasFinFrame => HasFinFrame'
    BY OutGrows DEF HasFinFrame
  <1>. USE DEF Goto, ReturnOk, CloseSending, outVars, flagVars, finVars, callVars, histVars, FinFlagAccounted,
               TypeOK, FinInv
  <1>2. ASSUME NEW t \in Tasks, NEW op \in Ops, NEW withFin \in BOOLEAN,
               Call(t, op, withFin)
        PROVE  FinInv'
    BY <1>1, <1>2 DEF Call, Ops, HasFinFrame
  <1>3. ASSUME NEW t \in Tasks, Task(t) PROVE FinInv'
    <2>1. CASE ReplySend(t)
      <3>1. Sent(t, "SynReply")
        BY <2>1 DEF ReplySend
      <3>2. fin[t] => HasFinFrame'
        BY <3>1, FinSent
      <3>3. QED
        BY <1>1, <2>1, <3>2 DEF ReplySend, HasFinFrame
    <2>2. CASE ReplyStore(t)
      BY <1>1, <2>2 DEF ReplyStore, HasFinFrame
    <2>3. CASE ReplyNotify(t)
      BY <1>1, <2>3 DEF ReplyNotify, HasFinFrame
    <2>4. CASE ReplyStoreFin(t)
      BY <1>1, <2>4 DEF ReplyStoreFin, HasFinFrame
    <2>5. CASE WriteCheck(t) \/ CreateNotified(t) \/ WriteRecheck(t) \/ WriteWoken(t)
      BY <1>1, <2>5
      DEF WriteCheck, CreateNotified, WriteRecheck, WriteWoken, HasFinFrame
    <2>6. CASE FinCheck(t)
      BY <1>1, <2>6 DEF FinCheck, HasFinFrame
    <2>7. CASE SetFin(t)
      BY <1>1, <2>7 DEF SetFin, HasFinFrame
    <2>8. CASE WriteSend(t)
      <3>1. Sent(t, "Data")
        BY <2>8 DEF WriteSend
      <3>2. fin[t] => HasFinFrame'
        BY <3>1, FinSent
      <3>3. QED
        BY <1>1, <2>8, <3>2 DEF WriteSend, HasFinFrame
    <2>9. CASE ResetSend(t)
      BY <1>1, <2>9 DEF ResetSend, HasFinFrame
    <2>10. CASE SendFails(t)
      BY <1>1, <2>10 DEF SendFails, HasFinFrame
    <2>11. QED
      BY <1>3, <2>1, <2>2, <2>3, <2>4, <2>5, <2>6, <2>7, <2>8, <2>9, <2>10 DEF Task
  <1>4. ASSUME NEW t \in Tasks, Cancel(t) PROVE FinInv'
    BY <1>1, <1>4 DEF Cancel, HasFinFrame
  <1>5. CASE PeerReply \/ PeerNotify
    BY <1>1, <1>5 DEF PeerReply, PeerNotify, HasFinFrame
  <1>6. CASE WriteFrame \/ WriteFail
    BY <1>1, <1>6 DEF WriteFrame, WriteFail, HasFinFrame
  <1>7. CASE UNCHANGED vars
    BY <1>1, <1>7 DEF vars, HasFinFrame
  <1>8. QED
    BY <1>2, <1>3, <1>4, <1>5, <1>6, <1>7 DEF Next

----------------------------------------------------------------------------
(* Calls that began after a FIN had returned.                              *)

LEMMA LateInit == Init => LateInv
  BY DEF Init, LateInv

LEMMA LateStep == TypeOK /\ FinInv /\ LateInv /\ [Next]_vars => LateInv'
  <1>. SUFFICES ASSUME TypeOK, FinInv, LateInv, [Next]_vars PROVE LateInv'
    OBVIOUS
  <1>1. (finReturned => finReturned') /\ (localFin => localFin')
    BY FlagsStay
  <1>. USE DEF Goto, ReturnOk, CloseSending, outVars, flagVars, finVars, callVars, histVars, TypeOK, LateInv
  <1>2. ASSUME NEW t \in Tasks, NEW op \in Ops, NEW withFin \in BOOLEAN,
               Call(t, op, withFin)
        PROVE  LateInv'
    BY <1>1, <1>2 DEF Call, Ops
  <1>3. ASSUME NEW t \in Tasks, Task(t) PROVE LateInv'
    <2>1. CASE ReplySend(t)
      BY <1>1, <2>1 DEF ReplySend
    <2>2. CASE ReplyStore(t)
      BY <1>1, <2>2 DEF ReplyStore
    <2>3. CASE ReplyNotify(t)
      BY <1>1, <2>3 DEF ReplyNotify
    <2>4. CASE ReplyStoreFin(t)
      BY <1>1, <2>4 DEF ReplyStoreFin
    <2>5. CASE WriteCheck(t) \/ CreateNotified(t) \/ WriteRecheck(t) \/ WriteWoken(t)
      BY <1>1, <2>5 DEF WriteCheck, CreateNotified, WriteRecheck, WriteWoken
    <2>6. CASE FinCheck(t)
      BY <1>1, <2>6 DEF FinCheck
    <2>7. CASE SetFin(t)
      BY <1>1, <2>7 DEF SetFin
    <2>8. CASE WriteSend(t)
      BY <1>1, <2>8 DEF WriteSend, FinInv
    <2>9. CASE ResetSend(t)
      BY <1>1, <2>9 DEF ResetSend, FinInv
    <2>10. CASE SendFails(t)
      BY <1>1, <2>10 DEF SendFails
    <2>11. QED
      BY <1>3, <2>1, <2>2, <2>3, <2>4, <2>5, <2>6, <2>7, <2>8, <2>9, <2>10 DEF Task
  <1>4. ASSUME NEW t \in Tasks, Cancel(t) PROVE LateInv'
    BY <1>1, <1>4 DEF Cancel
  <1>5. CASE PeerReply \/ PeerNotify
    BY <1>1, <1>5 DEF PeerReply, PeerNotify
  <1>6. CASE WriteFrame \/ WriteFail
    BY <1>1, <1>6 DEF WriteFrame, WriteFail
  <1>7. CASE UNCHANGED vars
    BY <1>1, <1>7 DEF vars
  <1>8. QED
    BY <1>2, <1>3, <1>4, <1>5, <1>6, <1>7 DEF Next

----------------------------------------------------------------------------
(* Data after a FIN.                                                       *)

LEMMA StragglerInit == Init => StragglerInv
  BY DEF Init, StragglerInv, AfterFlag

LEMMA StragglersFew == TypeOK /\ StragglerInv => OneStragglerPerTask
  <1>1. SUFFICES ASSUME TypeOK, StragglerInv, NEW i \in DOMAIN out, NEW j \in DOMAIN out,
                        IsData(i), Closed(i), IsData(j), i < j
                 PROVE  out[i].by # out[j].by
    BY DEF OneStragglerPerTask
  <1>2. DOMAIN out \subseteq Nat /\ flagAt \in Nat /\ \A k \in 1 .. i : k \in DOMAIN out
    <2>1. out \in Seq(OutFrame) /\ flagAt \in Nat
      BY <1>1 DEF TypeOK
    <2>2. Len(out) \in Nat /\ DOMAIN out = 1 .. Len(out)
      BY <2>1
    <2>3. QED
      BY <1>1, <2>1, <2>2
  <1>3. AfterFlag(i)
    BY <1>1, <1>2 DEF Closed, StragglerInv, AfterFlag
  <1>4. QED
    BY <1>1, <1>3 DEF StragglerInv

(* Every frame in the channel is some task's.                              *)
LEMMA FrameOfTask ==
  ASSUME TypeOK, NEW i \in DOMAIN out PROVE out[i].by \in Tasks
  <1>1. out[i] \in OutFrame
    BY DEF TypeOK
  <1>2. QED
    BY <1>1 DEF OutFrame

(* A step that puts no Data frame in, lets nobody past the check and leaves *)
(* the flag set disturbs nothing.                                          *)
LEMMA NoDataSent ==
  ASSUME TypeOK, TypeOK', StragglerInv, [Next]_vars,
         \A i \in DOMAIN out' : i \in DOMAIN out \/ ~IsData(i)',
         \A t \in Tasks :
           pc'[t] \in {"setFin", "send"} => pc[t] \in {"setFin", "send"} \/ ~localFin
  PROVE  StragglerInv'
  <1>1. \A i \in DOMAIN out' :
          IsData(i)' => /\ i \in DOMAIN out /\ IsData(i)
                        /\ out'[i] = out[i] /\ out[i].by \in Tasks
    BY OutGrows, FrameOfTask DEF IsData
  <1>2. /\ Len(out) \in Nat /\ DOMAIN out = 1 .. Len(out)
        /\ Len(out') \in Nat /\ DOMAIN out' = 1 .. Len(out') /\ flagAt \in Nat
    BY DEF TypeOK
  <1>3. Len(out) <= Len(out')
    <2>1. Len(out) # 0 => Len(out) \in DOMAIN out'
      BY <1>2, OutGrows
    <2>2. QED
      BY <1>2, <2>1
  <1>4. /\ localFin => localFin' /\ flagAt' = flagAt
        /\ ~localFin /\ localFin' => flagAt' = Len(out) /\ out' = out
    BY FlagsStay
  <1>5. localFin' => flagAt' <= Len(out')
    BY <1>2, <1>3, <1>4 DEF StragglerInv
  <1>6. \A i \in DOMAIN out : AfterFlag(i)' <=> AfterFlag(i)
    BY <1>2, <1>4 DEF AfterFlag
  <1>7. ASSUME NEW i \in DOMAIN out', IsData(i)', out'[i].fin PROVE AfterFlag(i)'
    BY <1>1, <1>6, <1>7 DEF StragglerInv
  <1>8. ASSUME NEW i \in DOMAIN out', IsData(i)', AfterFlag(i)'
        PROVE  pc'[out'[i].by] \notin {"setFin", "send"}
    <2>1. i \in DOMAIN out /\ IsData(i) /\ AfterFlag(i) /\ out'[i] = out[i] /\ out[i].by \in Tasks
      BY <1>1, <1>6, <1>8
    <2>2. pc[out[i].by] \notin {"setFin", "send"} /\ localFin
      BY <2>1 DEF StragglerInv, AfterFlag
    <2>3. QED
      BY <2>1, <2>2
  <1>9. ASSUME NEW i \in DOMAIN out', NEW j \in DOMAIN out',
               IsData(i)', AfterFlag(i)', IsData(j)', i < j
        PROVE  out'[i].by # out'[j].by
    <2>1. /\ i \in DOMAIN out /\ IsData(i) /\ AfterFlag(i) /\ out'[i] = out[i]
          /\ j \in DOMAIN out /\ IsData(j) /\ out'[j] = out[j]
      BY <1>1, <1>6, <1>9
    <2>2. QED
      BY <1>9, <2>1 DEF StragglerInv
  <1>10. QED
    BY <1>5, <1>7, <1>8, <1>9 DEF StragglerInv, IsData

LEMMA StragglerStep ==
  TypeOK /\ TypeOK' /\ FinInv /\ StragglerInv /\ [Next]_vars => StragglerInv'
  <1>. SUFFICES ASSUME TypeOK, TypeOK', FinInv, StragglerInv, [Next]_vars PROVE StragglerInv'
    OBVIOUS
  <1>1. ASSUME UNCHANGED out
        PROVE  \A i \in DOMAIN out' : i \in DOMAIN out \/ ~IsData(i)'
    BY <1>1
  <1>2. ASSUME NEW t \in Tasks, NEW type \in {"SynReply", "RstStream"}, Sent(t, type)
        PROVE  \A i \in DOMAIN out' : i \in DOMAIN out \/ ~IsData(i)'
    BY <1>2, SentEffect DEF IsData
  <1>. USE DEF Goto, ReturnOk, CloseSending, outVars, flagVars, finVars, callVars, histVars, TypeOK
  <1>3. ASSUME NEW t \in Tasks, NEW op \in Ops, NEW withFin \in BOOLEAN,
               Call(t, op, withFin)
        PROVE  StragglerInv'
    BY <1>1, <1>3, NoDataSent DEF Call, Ops
  <1>4. ASSUME NEW t \in Tasks, Task(t) PROVE StragglerInv'
    <2>1. CASE ReplySend(t)
      BY <1>2, <2>1, NoDataSent DEF ReplySend
    <2>2. CASE ReplyStore(t)
      BY <1>1, <2>2, NoDataSent DEF ReplyStore
    <2>3. CASE ReplyNotify(t)
      BY <1>1, <2>3, NoDataSent DEF ReplyNotify
    <2>4. CASE ReplyStoreFin(t)
      BY <1>1, <2>4, NoDataSent DEF ReplyStoreFin
    <2>5. CASE WriteCheck(t) \/ CreateNotified(t) \/ WriteRecheck(t) \/ WriteWoken(t)
      BY <1>1, <2>5, NoDataSent DEF WriteCheck, CreateNotified, WriteRecheck, WriteWoken
    <2>6. CASE FinCheck(t)
      BY <1>1, <2>6, NoDataSent DEF FinCheck
    <2>7. CASE SetFin(t)
      BY <1>1, <2>7, NoDataSent DEF SetFin
    <2>8. CASE WriteSend(t)
      <3>. DEFINE n == Len(out) + 1
      <3>1. Sent(t, "Data")
        BY <2>8 DEF WriteSend
      <3>2. /\ Len(out) \in Nat /\ DOMAIN out = 1 .. Len(out)
            /\ DOMAIN out' = 1 .. n /\ out'[n].by = t /\ out'[n].fin = fin[t]
            /\ \A i \in DOMAIN out : i \in DOMAIN out' /\ out'[i] = out[i]
        BY <3>1, SentEffect
      <3>3. \A i \in DOMAIN out' : i \in DOMAIN out \/ i = n
        BY <3>2
      <3>4. pc' = [pc EXCEPT ![t] = "idle"] /\ pc[t] = "send" /\ UNCHANGED <<localFin, flagAt>>
        BY <2>8 DEF WriteSend
      <3>. HIDE DEF n
      <3>5. n \in Nat /\ n = Len(out) + 1 /\ (localFin => flagAt < n) /\ Len(out') = n
        BY <3>1, <3>2, SentEffect DEF StragglerInv, n
      <3>6. \A i \in DOMAIN out' : AfterFlag(i)' <=> AfterFlag(i)
        BY <3>4 DEF AfterFlag
      <3>7. \A i \in DOMAIN out : IsData(i)' <=> IsData(i)
        BY <3>2 DEF IsData
      (* t was past the check, so it has sent nothing since the flag.       *)
      <3>8. ASSUME NEW i \in DOMAIN out, IsData(i), AfterFlag(i) PROVE out[i].by # t
        BY <3>4, <3>8 DEF StragglerInv
      <3>9. localFin' => flagAt' <= Len(out')
        BY <3>4, <3>5
      <3>10. ASSUME NEW i \in DOMAIN out', IsData(i)', out'[i].fin PROVE AfterFlag(i)
        <4>1. CASE i = n
          <5>1. localFin
            BY <3>2, <3>4, <3>10, <4>1 DEF FinInv
          <5>2. QED
            BY <3>5, <4>1, <5>1 DEF AfterFlag
        <4>2. CASE i \in DOMAIN out
          BY <3>2, <3>7, <3>10, <4>2 DEF StragglerInv
        <4>3. QED
          BY <3>3, <4>1, <4>2
      <3>11. ASSUME NEW i \in DOMAIN out', IsData(i)', AfterFlag(i)
             PROVE  pc'[out'[i].by] \notin {"setFin", "send"}
        <4>1. CASE i = n
          BY <3>2, <3>4, <4>1
        <4>2. CASE i \in DOMAIN out
          <5>1. pc[out[i].by] \notin {"setFin", "send"} /\ out[i].by \in Tasks
            BY <3>7, <3>11, <4>2, FrameOfTask DEF StragglerInv
          <5>2. QED
            BY <3>2, <3>4, <4>2, <5>1
        <4>3. QED
          BY <3>3, <4>1, <4>2
      <3>12. ASSUME NEW i \in DOMAIN out', NEW j \in DOMAIN out',
                    IsData(i)', AfterFlag(i), IsData(j)', i < j
             PROVE  out'[i].by # out'[j].by
        <4>1. i \in DOMAIN out /\ IsData(i) /\ out'[i] = out[i]
          BY <3>2, <3>5, <3>7, <3>12
        <4>2. CASE j = n
          BY <3>2, <3>8, <3>12, <4>1, <4>2
        <4>3. CASE j \in DOMAIN out
          BY <3>2, <3>7, <3>12, <4>1, <4>3 DEF StragglerInv
        <4>4. QED
          BY <3>3, <4>2, <4>3
      <3>13. QED
        BY <3>6, <3>9, <3>10, <3>11, <3>12 DEF StragglerInv, IsData
    <2>9. CASE ResetSend(t)
      BY <1>2, <2>9, NoDataSent DEF ResetSend
    <2>10. CASE SendFails(t)
      BY <1>1, <2>10, NoDataSent DEF SendFails
    <2>11. QED
      BY <1>4, <2>1, <2>2, <2>3, <2>4, <2>5, <2>6, <2>7, <2>8, <2>9, <2>10 DEF Task
  <1>5. ASSUME NEW t \in Tasks, Cancel(t) PROVE StragglerInv'
    BY <1>1, <1>5, NoDataSent DEF Cancel
  <1>6. CASE PeerReply \/ PeerNotify
    BY <1>1, <1>6, NoDataSent DEF PeerReply, PeerNotify
  <1>7. CASE WriteFrame \/ WriteFail
    BY <1>1, <1>7, NoDataSent DEF WriteFrame, WriteFail
  <1>8. CASE UNCHANGED vars
    BY <1>1, <1>8, NoDataSent DEF vars
  <1>9. QED
    BY <1>3, <1>4, <1>5, <1>6, <1>7, <1>8 DEF Next

----------------------------------------------------------------------------
(* The wake-up.                                                            *)

LEMMA WakeInit == Init => WakeInv
  BY DEF Init, WakeInv

LEMMA WakeStep == TypeOK /\ WakeInv /\ [Next]_vars => WakeInv'
  <1>. SUFFICES ASSUME TypeOK, WakeInv, [Next]_vars PROVE WakeInv'
    OBVIOUS
  <1>. USE DEF Goto, ReturnOk, CloseSending, outVars, flagVars, finVars, callVars, histVars, TypeOK, WakeInv
  <1>1. ASSUME NEW t \in Tasks, NEW op \in Ops, NEW withFin \in BOOLEAN,
               Call(t, op, withFin)
        PROVE  WakeInv'
    BY <1>1 DEF Call, Ops
  <1>2. ASSUME NEW t \in Tasks, Task(t) PROVE WakeInv'
    <2>1. CASE ReplySend(t)
      BY <2>1 DEF ReplySend
    (* t itself is now the one that owes the wake-up.                      *)
    <2>2. CASE ReplyStore(t)
      BY <2>2 DEF ReplyStore
    <2>3. CASE ReplyNotify(t)
      <3>1. wakeups' = wakeups + 1 /\ UNCHANGED ticket
        BY <2>3 DEF ReplyNotify
      <3>2. \A u \in Tasks : pc'[u] \in {"recheck", "wait"} => pc[u] \in {"recheck", "wait"}
        BY <2>3 DEF ReplyNotify
      <3>3. \A u \in Tasks : pc'[u] \in {"recheck", "wait"} => ticket'[u] < wakeups'
        BY <3>1, <3>2
      <3>4. ASSUME NEW u \in Tasks, pc'[u] \in {"recheck", "wait"}
            PROVE  ticket'[u] <= wakeups' /\ ticket'[u] # wakeups'
        BY <3>1, <3>3, <3>4
      <3>5. QED
        BY <3>4
    <2>4. CASE ReplyStoreFin(t)
      BY <2>4 DEF ReplyStoreFin
    <2>5. CASE WriteCheck(t)
      BY <2>5 DEF WriteCheck
    <2>6. CASE CreateNotified(t)
      BY <2>6 DEF CreateNotified
    <2>7. CASE WriteRecheck(t)
      BY <2>7 DEF WriteRecheck
    <2>8. CASE WriteWoken(t)
      BY <2>8 DEF WriteWoken
    <2>9. CASE FinCheck(t) \/ SetFin(t) \/ WriteSend(t)
      BY <2>9 DEF FinCheck, SetFin, WriteSend
    <2>10. CASE ResetSend(t) \/ SendFails(t)
      BY <2>10 DEF ResetSend, SendFails
    <2>11. QED
      BY <1>2, <2>1, <2>2, <2>3, <2>4, <2>5, <2>6, <2>7, <2>8, <2>9, <2>10 DEF Task
  <1>3. ASSUME NEW t \in Tasks, Cancel(t) PROVE WakeInv'
    BY <1>3 DEF Cancel
  <1>4. CASE PeerReply
    BY <1>4 DEF PeerReply
  <1>5. CASE PeerNotify
    BY <1>5 DEF PeerNotify
  <1>6. CASE WriteFrame \/ WriteFail
    BY <1>6 DEF WriteFrame, WriteFail
  <1>7. CASE UNCHANGED vars
    BY <1>7 DEF vars
  <1>8. QED
    BY <1>1, <1>2, <1>3, <1>4, <1>5, <1>6, <1>7 DEF Next

----------------------------------------------------------------------------
LEMMA SendInvariant == Spec => []SendInv
  <1>1. Init => SendInv
    BY TypeInit, ReplyInit, FinInit, LateInit, StragglerInit, WakeInit DEF SendInv
  <1>2. SendInv /\ [Next]_vars => SendInv'
    BY TypeStep, ReplyStep, FinStep, LateStep, StragglerStep, WakeStep DEF SendInv
  <1>3. QED
    BY <1>1, <1>2, PTL DEF Spec

(* write_data lets no data into the channel ahead of the SYN_REPLY, unless  *)
(* the client has opened the sending side: send_reply sends its frame       *)
(* before it sets replied, and every path of write_data sees replied set.   *)
THEOREM DataFollowsReply == Spec => []ReplyFirst
  <1>1. SendInv => ReplyFirst
    BY DEF SendInv, ReplyInv
  <1>2. QED
    BY <1>1, SendInvariant, PTL

(* The check of local_fin_sent and its store are two steps, and still each  *)
(* task sends at most one Data frame after that store, whichever call made  *)
(* it, or after the FIN of a write_data.                                   *)
THEOREM FewStragglers == Spec => []OneStragglerPerTask
  <1>1. SendInv => OneStragglerPerTask
    BY StragglersFew DEF SendInv
  <1>2. QED
    BY <1>1, SendInvariant, PTL

(* local_fin_sent is never set without a FIN in the channel or a call that  *)
(* is about to put it there, unless such a call was dropped or failed.     *)
THEOREM FinFlagHonest == Spec => []FinFlagAccounted
  <1>1. SendInv => FinFlagAccounted
    BY DEF SendInv, FinInv
  <1>2. QED
    BY <1>1, SendInvariant, PTL

(* Once a call with FIN has returned Ok, no write_data that begins later    *)
(* sends anything.                                                         *)
THEOREM FinIsFinal == Spec => NoDataAfterFin
  <1>1. ASSUME SendInv, NEW t \in Tasks, WriteSend(t) PROVE ~late[t]
    BY <1>1 DEF SendInv, LateInv, WriteSend
  <1>2. SendInv /\ [Next]_vars => [\A t \in Tasks : WriteSend(t) => ~late[t]]_vars
    BY <1>1
  <1>3. QED
    BY <1>2, SendInvariant, PTL DEF Spec, NoDataAfterFin

(* The reason why no wake-up of a write_data is lost: a task waits on a     *)
(* stream that is replied to only while a wake-up has come since it created *)
(* its future, or the task or worker that set replied has yet to call       *)
(* notify_waiters.                                                         *)
NoLostWakeup ==
  \A t \in Tasks : pc[t] = "wait" /\ replied =>
    \/ wakeups > ticket[t]
    \/ peerPc = "notify" \/ \E u \in Tasks : pc[u] = "notify"

(* A write_data that waits is never passed over by a reply: the second     *)
(* check behind notified() leaves no gap between the two.                  *)
THEOREM WakeupNotLost == Spec => []NoLostWakeup
  <1>1. SendInv => NoLostWakeup
    BY DEF SendInv, TypeOK, WakeInv, NoLostWakeup
  <1>2. QED
    BY <1>1, SendInvariant, PTL
=============================================================================
