--------------------------- MODULE LifetimeProofs ---------------------------
(***************************************************************************)
(* Theorems about Lifetime, for every set of tasks that ping, every        *)
(* capacity of the frame channel, and any number of calls and frames that  *)
(* the space of ping ids can number.                                       *)
(***************************************************************************)
EXTENDS Lifetime, SequenceTheorems, TLAPS

----------------------------------------------------------------------------
(* The inductive invariant.                                                *)

(* A frame is of no interest or the ping of a call, whose id is twice the   *)
(* number of the call.                                                     *)
OutFrame == {Other} \cup {[ping |-> 2 * c, by |-> c] : c \in Nat}

PingPcs == {"idle", "register", "send", "wait"}

TypeInv ==
  /\ worker \in {"running", "ended"}
  /\ out \in Seq(OutFrame)
  /\ pc \in [Pingers -> PingPcs] /\ id \in [Pingers -> Nat] /\ call \in [Pingers -> Nat]
  /\ resolved \in [Pingers -> {"no", "echoed", "dropped"}]
  /\ ncalls \in Nat /\ nframes \in Nat

(* The ids have not come round: a call's id is twice its number.           *)
IdInv ==
  /\ ncalls < MaxEvents => nextPingId = 2 * (ncalls + 1)
  /\ \A p \in Pingers : pc[p] # "idle" => id[p] = 2 * call[p]

(* The peer knows no id but those of pings that were written.              *)
WireInv ==
  /\ onWire \subseteq Nat
  /\ \A n \in received : \E c \in onWire : n = 2 * c

(* An entry of the map that has a waiter is the entry of a call that is     *)
(* still unanswered; a call that has not registered has no answer.         *)
MapInv ==
  /\ \A n \in DOMAIN pingMap : pingMap[n] \in Pingers =>
       /\ pc[pingMap[n]] \in {"send", "wait"} /\ id[pingMap[n]] = n
       /\ resolved[pingMap[n]] = "no"
  /\ \A p \in Pingers : pc[p] \in {"idle", "register"} => resolved[p] = "no"
  /\ EntryUntilResolved
  /\ PingOkMeansEchoed

LifeInv == TypeInv /\ IdInv /\ WireInv /\ MapInv

----------------------------------------------------------------------------
(* The frame channel.                                                      *)

(* A send leaves a channel of frames.                                      *)
LEMMA SendType ==
  ASSUME TypeInv, NEW frame \in OutFrame, Send(frame) PROVE out' \in Seq(OutFrame)
  <1>1. out \in Seq(OutFrame)
    BY DEF TypeInv
  <1>2. CASE out' = Append(out, frame)
    BY <1>1, <1>2
  <1>3. CASE UNCHANGED out
    BY <1>1, <1>3
  <1>4. QED
    BY <1>2, <1>3 DEF Send

(* The steps that change neither the calls nor the frame channel.          *)
Elsewhere ==
  \/ WriterEnd \/ ReadSyn \/ ReadRst \/ ReadGoAway \/ ReadFails \/ ReadEnds
  \/ WorkerStep \/ WorkerEnd \/ HandlerDone \/ DropHandles \/ WaitClosed \/ WaitReturns
  \/ (\E m \in Frames : PeerSend(m)) \/ PeerClose \/ UNCHANGED vars

(* Every step, by what it does to the calls of ping().                     *)
LEMMA Steps ==
  ASSUME [Next]_vars
  PROVE  \/ WriteFrame \/ WriteFail \/ ReadClientPing \/ HandlerSend \/ Elsewhere
         \/ \E n \in received : ReadEcho(n)
         \/ \E p \in Pingers : PingBegin(p) \/ PingRegister(p) \/ PingSend(p)
                               \/ PingAnswered(p) \/ PingSendFails(p)
                               \/ PingTimeout(p) \/ PingDropped(p)
  BY DEF Next, ReadStep, Elsewhere

LEMMA ElsewhereEffect ==
  ASSUME Elsewhere, TypeInv
  PROVE  /\ UNCHANGED <<pingVars, out, received, onWire>>
         /\ worker' \in {"running", "ended"} /\ nframes' \in Nat
  <1>1. CASE \E m \in Frames : PeerSend(m)
    BY <1>1 DEF PeerSend, TypeInv, taskVars
  <1>2. CASE ~(\E m \in Frames : PeerSend(m))
    BY <1>2 DEF Elsewhere, WriterEnd, ReadSyn, ReadRst, ReadGoAway, ReadFails, ReadEnds,
                EndTask, WorkerStep, WorkerEnd, HandlerDone, DropHandles, WaitClosed,
                WaitReturns, PeerClose, Consume, TypeInv, taskVars, peerVars, vars, pingVars
  <1>3. QED
    BY <1>1, <1>2

----------------------------------------------------------------------------
(* Types.                                                                  *)

LEMMA TypeInit == Init => TypeInv
  <1>. SUFFICES ASSUME Init PROVE TypeInv
    OBVIOUS
  <1>1. out \in Seq(OutFrame)
    BY DEF Init, OutFrame
  <1>2. /\ pc \in [Pingers -> PingPcs] /\ id \in [Pingers -> Nat]
        /\ call \in [Pingers -> Nat]
        /\ resolved \in [Pingers -> {"no", "echoed", "dropped"}]
    BY DEF Init, PingPcs
  <1>3. QED
    BY <1>1, <1>2 DEF Init, TypeInv

LEMMA TypeStep == TypeInv /\ IdInv /\ [Next]_vars => TypeInv'
  <1>. SUFFICES ASSUME TypeInv, IdInv, [Next]_vars PROVE TypeInv'
    OBVIOUS
  <1>0. Other \in OutFrame
    BY DEF OutFrame
  <1>. USE DEF taskVars, peerVars, pingVars
  <1>1. CASE WriteFrame
    <2>1. out' \in Seq(OutFrame)
      BY <1>1 DEF WriteFrame, TypeInv
    <2>2. QED
      BY <1>1, <2>1 DEF WriteFrame, TypeInv
  <1>2. CASE WriteFail
    <2>1. out' \in Seq(OutFrame)
      BY <1>2 DEF WriteFail
    <2>2. QED
      BY <1>2, <2>1 DEF WriteFail, TypeInv
  <1>3. CASE ReadClientPing
    BY <1>0, <1>3, SendType DEF ReadClientPing, TypeInv
  <1>4. CASE HandlerSend
    BY <1>0, <1>4, SendType DEF HandlerSend, TypeInv
  <1>5. CASE Elsewhere
    BY <1>5, ElsewhereEffect DEF TypeInv
  <1>6. ASSUME NEW n \in received, ReadEcho(n) PROVE TypeInv'
    BY <1>6 DEF ReadEcho, TypeInv
  <1>7. ASSUME NEW p \in Pingers, PingBegin(p) PROVE TypeInv'
    <2>1. nextPingId \in Nat
      BY <1>7, LifetimeAssumption DEF PingBegin, IdInv, TypeInv
    <2>2. QED
      BY <1>7, <2>1 DEF PingBegin, PingStep, PingOnly, TypeInv, PingPcs
  <1>8. ASSUME NEW p \in Pingers, PingRegister(p) PROVE TypeInv'
    BY <1>8 DEF PingRegister, PingStep, PingOnly, TypeInv, PingPcs
  <1>9. ASSUME NEW p \in Pingers, PingSend(p) PROVE TypeInv'
    <2>1. id[p] = 2 * call[p] /\ call[p] \in Nat
      BY <1>9 DEF PingSend, PingStep, IdInv, TypeInv
    <2>2. [ping |-> id[p], by |-> call[p]] \in OutFrame
      BY <2>1 DEF OutFrame
    <2>3. out' \in Seq(OutFrame)
      BY <1>9, <2>2, SendType DEF PingSend
    <2>4. QED
      BY <1>9, <2>3 DEF PingSend, PingStep, PingOnly, TypeInv, PingPcs
  <1>10. ASSUME NEW p \in Pingers, Return(p) PROVE TypeInv'
    BY <1>10 DEF Return, PingOnly, TypeInv, PingPcs
  <1>11. QED
    BY <1>1, <1>2, <1>3, <1>4, <1>5, <1>6, <1>7, <1>8, <1>9, <1>10, Steps
    DEF PingAnswered, PingSendFails, PingTimeout, PingDropped, GiveUp

----------------------------------------------------------------------------
(* Ids and what the peer knows.                                            *)

LEMMA IdInit == Init => IdInv
  BY DEF Init, IdInv

LEMMA IdStep == TypeInv /\ IdInv /\ [Next]_vars => IdInv'
  <1>. SUFFICES ASSUME TypeInv, IdInv, [Next]_vars PROVE IdInv'
    OBVIOUS
  <1>. USE DEF taskVars, peerVars, pingVars
  <1>1. ASSUME UNCHANGED <<ncalls, nextPingId, pc, id, call>> PROVE IdInv'
    BY <1>1 DEF IdInv
  <1>2. CASE WriteFrame \/ WriteFail \/ ReadClientPing \/ HandlerSend
    BY <1>1, <1>2 DEF WriteFrame, WriteFail, ReadClientPing, HandlerSend
  <1>3. CASE Elsewhere
    BY <1>1, <1>3, ElsewhereEffect
  <1>4. ASSUME NEW n \in received, ReadEcho(n) PROVE IdInv'
    BY <1>1, <1>4 DEF ReadEcho
  <1>5. ASSUME NEW p \in Pingers, PingBegin(p) PROVE IdInv'
    <2>1. /\ ncalls \in Nat /\ ncalls < MaxEvents /\ ncalls' = ncalls + 1
          /\ nextPingId = 2 * (ncalls + 1) /\ nextPingId' = (nextPingId + 2) % IdSpace
      BY <1>5, LifetimeAssumption DEF PingBegin, TypeInv, IdInv
    <2>2. ASSUME ncalls' < MaxEvents PROVE nextPingId' = 2 * (ncalls' + 1)
      <3>1. nextPingId + 2 = 2 * (ncalls' + 1)
        BY <2>1
      <3>2. nextPingId + 2 \in Nat /\ nextPingId + 2 < IdSpace /\ IdSpace \in Nat
        BY <2>1, <2>2, <3>1, LifetimeAssumption
      <3>3. (nextPingId + 2) % IdSpace = nextPingId + 2
        BY <3>2
      <3>4. QED
        BY <2>1, <3>1, <3>3
    <2>3. id'[p] = 2 * call'[p]
      BY <1>5, <2>1 DEF PingBegin, TypeInv
    <2>4. \A q \in Pingers : q # p => pc'[q] = pc[q] /\ id'[q] = id[q] /\ call'[q] = call[q]
      BY <1>5 DEF PingBegin, PingStep, TypeInv
    <2>5. QED
      BY <2>2, <2>3, <2>4 DEF IdInv
  <1>6. ASSUME NEW p \in Pingers, PingRegister(p) \/ PingSend(p) PROVE IdInv'
    BY <1>6 DEF PingRegister, PingSend, PingStep, PingOnly, TypeInv, IdInv
  <1>7. ASSUME NEW p \in Pingers, Return(p) PROVE IdInv'
    BY <1>7 DEF Return, PingOnly, TypeInv, IdInv
  <1>8. QED
    BY <1>2, <1>3, <1>4, <1>5, <1>6, <1>7, Steps
    DEF PingAnswered, PingSendFails, PingTimeout, PingDropped, GiveUp

LEMMA WireInit == Init => WireInv
  BY DEF Init, WireInv

LEMMA WireStep == TypeInv /\ WireInv /\ [Next]_vars => WireInv'
  <1>. SUFFICES ASSUME TypeInv, WireInv, [Next]_vars PROVE WireInv'
    OBVIOUS
  <1>. USE DEF taskVars, peerVars, pingVars
  <1>1. ASSUME UNCHANGED <<received, onWire>> PROVE WireInv'
    BY <1>1 DEF WireInv
  <1>2. CASE WriteFrame
    <2>1. PICK frame : frame = Head(out)
      OBVIOUS
    <2>2. frame \in OutFrame
      BY <1>2, <2>1 DEF WriteFrame, TypeInv
    <2>3. CASE frame = Other
      <3>1. ASSUME NEW x \in Int, x = -1 PROVE x % 2 # 0
        BY <3>1
      <3>2. frame.ping % 2 # 0
        BY <2>3, <3>1 DEF Other
      <3>3. QED
        BY <1>1, <1>2, <2>1, <3>2 DEF WriteFrame
    <2>4. ASSUME NEW c \in Nat, frame = [ping |-> 2 * c, by |-> c] PROVE WireInv'
      <3>1. frame.ping = 2 * c /\ frame.by = c /\ frame.ping % 2 = 0
        BY <2>4
      <3>2. received' = received \cup {2 * c} /\ onWire' = onWire \cup {c}
        BY <1>2, <2>1, <3>1 DEF WriteFrame
      <3>3. QED
        BY <3>2 DEF WireInv
    <2>5. QED
      BY <2>2, <2>3, <2>4 DEF OutFrame
  <1>3. CASE WriteFail \/ ReadClientPing \/ HandlerSend
    BY <1>1, <1>3 DEF WriteFail, ReadClientPing, Consume, HandlerSend
  <1>4. CASE Elsewhere
    BY <1>1, <1>4, ElsewhereEffect
  <1>5. ASSUME NEW n \in received, ReadEcho(n) PROVE WireInv'
    BY <1>1, <1>5 DEF ReadEcho, Consume
  <1>6. ASSUME NEW p \in Pingers, PingBegin(p) \/ PingRegister(p) \/ PingSend(p) PROVE WireInv'
    BY <1>1, <1>6 DEF PingBegin, PingRegister, PingSend, PingOnly
  <1>7. ASSUME NEW p \in Pingers, Return(p) PROVE WireInv'
    BY <1>1, <1>7 DEF Return, PingOnly
  <1>8. QED
    BY <1>2, <1>3, <1>4, <1>5, <1>6, <1>7, Steps
    DEF PingAnswered, PingSendFails, PingTimeout, PingDropped, GiveUp

----------------------------------------------------------------------------
(* The ping map.                                                           *)

LEMMA MapInit == Init => MapInv
  <1>. SUFFICES ASSUME Init PROVE MapInv
    OBVIOUS
  <1>1. DOMAIN pingMap = {}
    BY DEF Init
  <1>2. QED
    BY <1>1 DEF Init, MapInv, EntryUntilResolved, PingOkMeansEchoed

(* An entry that no longer waits for its call's answer gives way with the   *)
(* call: it is out of the map, or is Gone.                                 *)
LEMMA MapReturn ==
  ASSUME TypeInv, MapInv, NEW p \in Pingers, Return(p),
         \A n \in DOMAIN pingMap' : n \in DOMAIN pingMap,
         \A n \in DOMAIN pingMap' : pingMap'[n] # p,
         \A n \in DOMAIN pingMap : n \in DOMAIN pingMap',
         \A n \in DOMAIN pingMap : pingMap[n] # p => pingMap'[n] = pingMap[n],
         \A n \in DOMAIN pingMap : pingMap[n] = p => pingMap'[n] \notin Pingers
  PROVE  MapInv'
  <1>1. \A q \in Pingers : q # p =>
          pc'[q] = pc[q] /\ id'[q] = id[q] /\ resolved'[q] = resolved[q] /\ call'[q] = call[q]
    BY DEF Return, TypeInv
  <1>2. pc'[p] = "idle" /\ resolved'[p] = "no" /\ onWire' = onWire
    BY DEF Return, PingOnly, TypeInv
  <1>3. ASSUME NEW n \in DOMAIN pingMap', pingMap'[n] \in Pingers
        PROVE  /\ pc'[pingMap'[n]] \in {"send", "wait"} /\ id'[pingMap'[n]] = n
               /\ resolved'[pingMap'[n]] = "no"
    BY <1>1, <1>3 DEF MapInv
  <1>4. \A q \in Pingers : pc'[q] \in {"idle", "register"} => resolved'[q] = "no"
    BY <1>1, <1>2 DEF MapInv
  <1>5. EntryUntilResolved'
    BY <1>1, <1>2 DEF MapInv, EntryUntilResolved
  <1>6. PingOkMeansEchoed'
    BY <1>1, <1>2 DEF MapInv, PingOkMeansEchoed
  <1>7. QED
    BY <1>3, <1>4, <1>5, <1>6 DEF MapInv

LEMMA MapStep == TypeInv /\ IdInv /\ WireInv /\ MapInv /\ [Next]_vars => MapInv'
  <1>. SUFFICES ASSUME TypeInv, IdInv, WireInv, MapInv, [Next]_vars PROVE MapInv'
    OBVIOUS
  <1>. USE DEF taskVars, peerVars, pingVars
  <1>0. ASSUME UNCHANGED <<pingMap, pc, id, resolved, call>>, onWire \subseteq onWire'
        PROVE  MapInv'
    BY <1>0 DEF MapInv, EntryUntilResolved, PingOkMeansEchoed
  <1>1. CASE WriteFrame
    BY <1>0, <1>1 DEF WriteFrame
  <1>2. CASE WriteFail \/ ReadClientPing \/ HandlerSend
    BY <1>0, <1>2 DEF WriteFail, ReadClientPing, HandlerSend
  <1>3. CASE Elsewhere
    BY <1>0, <1>3, ElsewhereEffect
  <1>4. ASSUME NEW n \in received, ReadEcho(n) PROVE MapInv'
    <2>1. CASE n \notin DOMAIN pingMap
      BY <1>0, <1>4, <2>1 DEF ReadEcho
    <2>2. CASE n \in DOMAIN pingMap
      <3>1. /\ DOMAIN pingMap' = DOMAIN pingMap \ {n}
            /\ \A m \in DOMAIN pingMap' : pingMap'[m] = pingMap[m]
            /\ \A p \in Pingers :
                 resolved'[p] = IF pingMap[n] = p THEN "echoed" ELSE resolved[p]
            /\ UNCHANGED <<pc, id, call, onWire>>
        BY <1>4, <2>2 DEF ReadEcho, Restrict
      (* The call that is answered is the one whose ping was written.      *)
      <3>2. ASSUME NEW p \in Pingers, pingMap[n] = p
            PROVE  pc[p] \in {"send", "wait"} /\ id[p] = n /\ call[p] \in onWire
        <4>1. pc[p] \in {"send", "wait"} /\ id[p] = n
          BY <2>2, <3>2 DEF MapInv
        <4>2. n = 2 * call[p] /\ call[p] \in Nat
          BY <4>1 DEF IdInv, TypeInv
        <4>3. PICK c \in onWire : n = 2 * c
          BY DEF WireInv
        <4>4. c = call[p]
          BY <4>2, <4>3 DEF WireInv
        <4>5. QED
          BY <4>1, <4>3, <4>4
      <3>3. ASSUME NEW m \in DOMAIN pingMap', pingMap'[m] \in Pingers
            PROVE  /\ pc'[pingMap'[m]] \in {"send", "wait"} /\ id'[pingMap'[m]] = m
                   /\ resolved'[pingMap'[m]] = "no"
        <4>1. m \in DOMAIN pingMap /\ m # n /\ pingMap'[m] = pingMap[m]
          BY <3>1, <3>3
        <4>2. id[pingMap[m]] = m /\ pingMap[n] # pingMap[m]
          BY <2>2, <3>3, <4>1 DEF MapInv
        <4>3. QED
          BY <3>1, <3>3, <4>1, <4>2 DEF MapInv
      <3>4. \A p \in Pingers : pc'[p] \in {"idle", "register"} => resolved'[p] = "no"
        BY <3>1, <3>2 DEF MapInv
      <3>5. EntryUntilResolved'
        BY <3>1 DEF MapInv, EntryUntilResolved
      <3>6. PingOkMeansEchoed'
        BY <3>1, <3>2 DEF MapInv, PingOkMeansEchoed
      <3>7. QED
        BY <3>3, <3>4, <3>5, <3>6 DEF MapInv
    <2>3. QED
      BY <2>1, <2>2
  <1>5. ASSUME NEW p \in Pingers, PingBegin(p) PROVE MapInv'
    <2>1. /\ pc[p] = "idle" /\ pc'[p] = "register"
          /\ \A q \in Pingers : q # p =>
               pc'[q] = pc[q] /\ id'[q] = id[q] /\ call'[q] = call[q]
          /\ UNCHANGED <<pingMap, resolved, onWire>>
      BY <1>5 DEF PingBegin, PingStep, PingOnly, TypeInv
    <2>2. QED
      BY <2>1 DEF MapInv, EntryUntilResolved, PingOkMeansEchoed
  <1>6. ASSUME NEW p \in Pingers, PingRegister(p) PROVE MapInv'
    <2>1. /\ pc[p] = "register" /\ pc'[p] = "send"
          /\ \A q \in Pingers : q # p => pc'[q] = pc[q]
          /\ UNCHANGED <<id, call, onWire>>
      BY <1>6 DEF PingRegister, PingStep, PingOnly, TypeInv
    <2>2. /\ DOMAIN pingMap' = DOMAIN pingMap \cup {id[p]}
          /\ pingMap'[id[p]] = p
          /\ \A n \in DOMAIN pingMap : n # id[p] => pingMap'[n] = pingMap[n]
          /\ \A q \in Pingers :
               resolved'[q] = IF id[p] \in DOMAIN pingMap /\ pingMap[id[p]] = q
                              THEN "dropped" ELSE resolved[q]
      BY <1>6 DEF PingRegister
    (* p has no entry yet, so nobody resolves or drops its sender.          *)
    <2>3. resolved'[p] = "no"
      BY <2>1, <2>2 DEF MapInv
    <2>4. ASSUME NEW n \in DOMAIN pingMap', pingMap'[n] \in Pingers
          PROVE  /\ pc'[pingMap'[n]] \in {"send", "wait"} /\ id'[pingMap'[n]] = n
                 /\ resolved'[pingMap'[n]] = "no"
      <3>1. CASE n = id[p]
        BY <2>1, <2>2, <2>3, <3>1
      <3>2. CASE n # id[p]
        <4>1. n \in DOMAIN pingMap /\ pingMap'[n] = pingMap[n]
          BY <2>2, <2>4, <3>2
        <4>2. /\ pc[pingMap[n]] \in {"send", "wait"} /\ id[pingMap[n]] = n
              /\ resolved[pingMap[n]] = "no"
          BY <2>4, <4>1 DEF MapInv
        <4>3. ~(id[p] \in DOMAIN pingMap /\ pingMap[id[p]] = pingMap[n])
          BY <2>4, <3>2, <4>1, <4>2 DEF MapInv
        <4>4. QED
          BY <2>1, <2>2, <2>4, <4>1, <4>2, <4>3
      <3>3. QED
        BY <3>1, <3>2
    <2>5. \A q \in Pingers : pc'[q] \in {"idle", "register"} => resolved'[q] = "no"
      BY <2>1, <2>2 DEF MapInv
    <2>6. EntryUntilResolved'
      BY <2>1, <2>2 DEF MapInv, EntryUntilResolved
    <2>7. PingOkMeansEchoed'
      BY <2>1, <2>2, <2>3 DEF MapInv, PingOkMeansEchoed
    <2>8. QED
      BY <2>4, <2>5, <2>6, <2>7 DEF MapInv
  <1>7. ASSUME NEW p \in Pingers, PingSend(p) PROVE MapInv'
    <2>1. /\ pc[p] = "send" /\ pc'[p] = "wait"
          /\ \A q \in Pingers : q # p => pc'[q] = pc[q]
          /\ UNCHANGED <<pingMap, id, resolved, call, onWire>>
      BY <1>7 DEF PingSend, PingStep, PingOnly, TypeInv
    <2>2. QED
      BY <2>1 DEF MapInv, EntryUntilResolved, PingOkMeansEchoed
  <1>8. ASSUME NEW p \in Pingers, PingAnswered(p) PROVE MapInv'
    <2>1. resolved[p] # "no" /\ pingMap' = pingMap /\ Return(p)
      BY <1>8 DEF PingAnswered
    <2>2. \A n \in DOMAIN pingMap : pingMap[n] # p
      BY <2>1 DEF MapInv
    <2>3. QED
      BY <2>1, <2>2, MapReturn
  <1>9. ASSUME NEW p \in Pingers, GiveUp(p) PROVE MapInv'
    <2>1. /\ DOMAIN pingMap' = DOMAIN pingMap
          /\ \A n \in DOMAIN pingMap :
               pingMap'[n] = IF pingMap[n] = p THEN Gone ELSE pingMap[n]
          /\ Return(p)
      BY <1>9 DEF GiveUp
    <2>2. Gone \notin Pingers
      BY LifetimeAssumption DEF Gone
    <2>3. QED
      BY <2>1, <2>2, MapReturn
  <1>10. QED
    BY <1>1, <1>2, <1>3, <1>4, <1>5, <1>6, <1>7, <1>8, <1>9, Steps
    DEF PingSendFails, PingTimeout, PingDropped

----------------------------------------------------------------------------
LEMMA LifeInvariant == Spec => []LifeInv
  <1>1. Init => LifeInv
    BY TypeInit, IdInit, WireInit, MapInit DEF LifeInv
  <1>2. LifeInv /\ [Next]_vars => LifeInv'
    BY TypeStep, IdStep, WireStep, MapStep DEF LifeInv
  <1>3. QED
    BY <1>1, <1>2, PTL DEF Spec

(* ping() returns Ok only for an echo of the ping this very call put on the *)
(* wire, however late or often the peer echoes the pings of other calls.   *)
THEOREM OkMeansEchoed == Spec => []PingOkMeansEchoed
  <1>1. LifeInv => PingOkMeansEchoed
    BY DEF LifeInv, MapInv
  <1>2. QED
    BY <1>1, LifeInvariant, PTL

(* A ping that waits and has no answer yet keeps its entry in ping_map,      *)
(* whatever other calls register, give up or get answered.                 *)
THEOREM EntryKept == Spec => []EntryUntilResolved
  <1>1. LifeInv => EntryUntilResolved
    BY DEF LifeInv, MapInv
  <1>2. QED
    BY <1>1, LifeInvariant, PTL
=============================================================================
