-------------------------- MODULE StreamRecvProofs --------------------------
(***************************************************************************)
(* Theorems about StreamRecv, for every set of readers, every capacity of  *)
(* the data channel, and any number of chunks, closes and calls.           *)
(***************************************************************************)
EXTENDS StreamRecv, SequenceTheorems, TLAPS

----------------------------------------------------------------------------
(* The inductive invariant.                                                *)

(* The queue of the mutex: the tasks inside read_data, each once.          *)
QueueInv ==
  /\ \A i, j \in DOMAIN lockQ : lockQ[i] = lockQ[j] => i = j
  /\ \A r \in Readers : pc[r] # "idle" => \E i \in DOMAIN lockQ : lockQ[i] = r
  /\ \A i \in DOMAIN lockQ : pc[lockQ[i]] # "idle"

(* Only chunks that were pushed are missing.                               *)
ChunkInv == dropped \subseteq 1 .. pushed /\ NothingElseLost

(* A reader that goes on to look at remote_closed has found the channel     *)
(* empty since its call began.                                             *)
EofInv ==
  \A r \in Readers :
    /\ callMark[r] <= pushed
    /\ pc[r] = "check" => AllDelivered(callMark[r])

RecvInv == TypeOK /\ QueueInv /\ ChunkInv /\ EofInv

----------------------------------------------------------------------------
(* Sequences.                                                              *)

(* The sequence q without its place i: the places behind it move up.       *)
Without(q, i) == SubSeq(q, 1, i - 1) \o SubSeq(q, i + 1, Len(q))

LEMMA WithoutPlace ==
  ASSUME NEW S, NEW q \in Seq(S), NEW i \in DOMAIN q
  PROVE  /\ Without(q, i) \in Seq(S) /\ Len(Without(q, i)) = Len(q) - 1
         /\ DOMAIN q = 1 .. Len(q) /\ DOMAIN Without(q, i) = 1 .. Len(q) - 1
         /\ \A k \in 1 .. Len(q) - 1 :
              Without(q, i)[k] = IF k < i THEN q[k] ELSE q[k + 1]
  <1>1. Len(q) \in Nat /\ DOMAIN q = 1 .. Len(q) /\ i \in 1 .. Len(q)
    OBVIOUS
  <1>. DEFINE a == SubSeq(q, 1, i - 1)
              b == SubSeq(q, i + 1, Len(q))
  <1>2. a \in Seq(S) /\ Len(a) = i - 1 /\ \A k \in 1 .. i - 1 : a[k] = q[k]
    BY <1>1
  <1>3. /\ b \in Seq(S) /\ Len(b) = Len(q) - i
        /\ \A k \in 1 .. Len(q) - i : b[k] = q[i + k]
    <2>1. \A k \in i + 1 .. Len(q) : q[k] \in S
      BY <1>1
    <2>2. /\ b \in Seq(S)
          /\ Len(b) = IF i + 1 <= Len(q) THEN Len(q) - (i + 1) + 1 ELSE 0
          /\ \A k \in 1 .. Len(q) - (i + 1) + 1 : b[k] = q[i + 1 + k - 1]
      <3>1. i + 1 \in Int /\ Len(q) \in Int
        BY <1>1
      <3>2. \A m, n \in Int :
              (\A k \in m .. n : q[k] \in S) =>
                /\ SubSeq(q, m, n) \in Seq(S)
                /\ Len(SubSeq(q, m, n)) = IF m <= n THEN n - m + 1 ELSE 0
                /\ \A k \in 1 .. n - m + 1 : SubSeq(q, m, n)[k] = q[m + k - 1]
        BY SubSeqProperties
      <3>3. QED
        BY <2>1, <3>1, <3>2
    <2>3. i + 1 <= Len(q) <=> Len(q) - i > 0
      BY <1>1
    <2>4. Len(b) = Len(q) - i /\ Len(q) - (i + 1) + 1 = Len(q) - i
      BY <1>1, <2>2, <2>3
    <2>5. \A k \in 1 .. Len(q) - i : i + 1 + k - 1 = i + k
      BY <1>1
    <2>6. QED
      BY <2>2, <2>4, <2>5
  <1>. DEFINE s == Without(q, i)
  <1>4. s = a \o b
    BY DEF Without
  <1>. HIDE DEF a, b, s
  <1>5. /\ s \in Seq(S) /\ Len(s) = Len(q) - 1
        /\ \A k \in 1 .. Len(a) + Len(b) :
             s[k] = IF k <= Len(a) THEN a[k] ELSE b[k - Len(a)]
    <2>1. /\ a \o b \in Seq(S) /\ Len(a \o b) = Len(a) + Len(b)
          /\ \A k \in 1 .. Len(a) + Len(b) :
               (a \o b)[k] = IF k <= Len(a) THEN a[k] ELSE b[k - Len(a)]
      BY <1>2, <1>3, ConcatProperties, Zenon
    <2>2. Len(a) + Len(b) = Len(q) - 1
      BY <1>1, <1>2, <1>3
    <2>3. QED
      BY <1>4, <2>1, <2>2
  <1>6. \A k \in 1 .. Len(q) - 1 : s[k] = IF k < i THEN q[k] ELSE q[k + 1]
    <2>1. SUFFICES ASSUME NEW k \in 1 .. Len(q) - 1
                   PROVE  s[k] = IF k < i THEN q[k] ELSE q[k + 1]
      OBVIOUS
    <2>2. CASE k < i
      BY <1>1, <1>2, <1>3, <1>5, <2>1, <2>2, SMTT(30)
    <2>3. CASE ~(k < i)
      <3>1. s[k] = b[k - (i - 1)]
        <4>1. k \in 1 .. Len(a) + Len(b) /\ ~(k <= Len(a)) /\ Len(a) = i - 1
          BY <1>1, <1>2, <1>3, <2>1, <2>3
        <4>2. QED
          BY <1>5, <4>1
      <3>2. k - (i - 1) \in 1 .. Len(q) - i
        BY <1>1, <2>1, <2>3
      <3>3. b[k - (i - 1)] = q[i + (k - (i - 1))] /\ i + (k - (i - 1)) = k + 1
        BY <1>1, <1>3, <3>2
      <3>4. QED
        BY <2>3, <3>1, <3>3
    <2>4. QED
      BY <2>2, <2>3
  <1>7. DOMAIN s = 1 .. Len(q) - 1
    BY <1>5, LenProperties
  <1>8. QED
    BY <1>1, <1>5, <1>6, <1>7 DEF s

(* Moving the head of one sequence to the end of another leaves the two     *)
(* together as they were.                                                  *)
LEMMA MoveHead ==
  ASSUME NEW S, NEW s \in Seq(S), NEW q \in Seq(S), q # <<>>
  PROVE  Append(s, Head(q)) \o Tail(q) = s \o q
  <1>. DEFINE u == Append(s, Head(q)) \o Tail(q)
              v == s \o q
  <1>1. u \in Seq(S) /\ v \in Seq(S) /\ Len(u) = Len(v)
    OBVIOUS
  <1>2. \A k \in 1 .. Len(u) : u[k] = v[k]
    OBVIOUS
  <1>. HIDE DEF u, v
  <1>3. u = v
    BY <1>1, <1>2, SeqEqual
  <1>4. QED
    BY <1>3 DEF u, v

(* Appending to the second of two sequences appends to the two together.   *)
LEMMA AppendBehind ==
  ASSUME NEW S, NEW s \in Seq(S), NEW q \in Seq(S), NEW e \in S
  PROVE  s \o Append(q, e) = Append(s \o q, e)
  <1>. DEFINE u == s \o Append(q, e)
              v == Append(s \o q, e)
  <1>1. u \in Seq(S) /\ v \in Seq(S) /\ Len(u) = Len(v)
    OBVIOUS
  <1>2. \A k \in 1 .. Len(u) : u[k] = v[k]
    OBVIOUS
  <1>. HIDE DEF u, v
  <1>3. u = v
    BY <1>1, <1>2, SeqEqual
  <1>4. QED
    BY <1>3 DEF u, v

----------------------------------------------------------------------------
(* What leaving does to the mutex: r's place goes, the others keep theirs,  *)
(* and a holder other than r keeps the mutex.                              *)
LEMMA LeaveQueue ==
  ASSUME TypeOK, NEW r \in Readers, NEW outcome, Leave(r, outcome)
  PROVE  /\ lockQ' \in Seq(Readers)
         /\ \A q \in Readers : q # r /\ Holds(q) => Holds(q)'
         /\ \E i \in DOMAIN lockQ :
              /\ lockQ[i] = r
              /\ DOMAIN lockQ = 1 .. Len(lockQ) /\ DOMAIN lockQ' = 1 .. Len(lockQ) - 1
              /\ \A k \in DOMAIN lockQ' :
                   lockQ'[k] = IF k < i THEN lockQ[k] ELSE lockQ[k + 1]
  <1>1. lockQ \in Seq(Readers)
    BY DEF TypeOK
  <1>2. PICK i \in DOMAIN lockQ :
          /\ lockQ[i] = r
          /\ lockQ' = SubSeq(lockQ, 1, i - 1) \o SubSeq(lockQ, i + 1, Len(lockQ))
    BY DEF Leave
  <1>3. /\ lockQ' \in Seq(Readers) /\ Len(lockQ') = Len(lockQ) - 1
        /\ DOMAIN lockQ = 1 .. Len(lockQ) /\ DOMAIN lockQ' = 1 .. Len(lockQ) - 1
        /\ \A k \in DOMAIN lockQ' :
             lockQ'[k] = IF k < i THEN lockQ[k] ELSE lockQ[k + 1]
    <2>1. lockQ' = Without(lockQ, i)
      BY <1>2 DEF Without
    <2>2. QED
      BY <1>1, <2>1, WithoutPlace
  <1>4. ASSUME NEW q \in Readers, q # r, Holds(q) PROVE Holds(q)'
    <2>1. Len(lockQ) \in Nat /\ i \in 1 .. Len(lockQ) /\ lockQ[1] = q /\ lockQ # <<>>
      BY <1>1, <1>3, <1>4 DEF Holds
    <2>2. i > 1
      BY <1>2, <1>4, <2>1
    <2>3. 1 \in DOMAIN lockQ' /\ lockQ'[1] = q
      BY <1>3, <2>1, <2>2
    <2>4. QED
      BY <1>3, <2>3 DEF Holds
  <1>5. QED
    BY <1>2, <1>3, <1>4

(* A call joins the queue at its end.                                      *)
LEMMA JoinQueue ==
  ASSUME lockQ \in Seq(Readers), NEW r \in Readers, lockQ' = Append(lockQ, r)
  PROVE  /\ lockQ' \in Seq(Readers)
         /\ DOMAIN lockQ = 1 .. Len(lockQ) /\ DOMAIN lockQ' = 1 .. Len(lockQ) + 1
         /\ lockQ'[Len(lockQ) + 1] = r
         /\ \A i \in DOMAIN lockQ : lockQ'[i] = lockQ[i]
         /\ \A q \in Readers : Holds(q) => Holds(q)'
  <1>1. /\ lockQ' \in Seq(Readers) /\ lockQ' # <<>> /\ Len(lockQ') = Len(lockQ) + 1
        /\ \A i \in 1 .. Len(lockQ) : lockQ'[i] = lockQ[i]
        /\ lockQ'[Len(lockQ) + 1] = r
    BY AppendProperties
  <1>2. DOMAIN lockQ = 1 .. Len(lockQ) /\ DOMAIN lockQ' = 1 .. Len(lockQ) + 1
    BY <1>1, LenProperties
  <1>3. lockQ # <<>> => Head(lockQ') = Head(lockQ)
    <2>1. Head(lockQ') = lockQ'[1]
      BY <1>1
    <2>2. lockQ # <<>> => Head(lockQ) = lockQ[1] /\ 1 \in 1 .. Len(lockQ)
      OBVIOUS
    <2>3. QED
      BY <1>1, <2>1, <2>2
  <1>4. QED
    BY <1>1, <1>2, <1>3 DEF Holds

----------------------------------------------------------------------------
(* Types.                                                                  *)

LEMMA TypeInit == Init => TypeOK
  <1>. SUFFICES ASSUME Init PROVE TypeOK
    OBVIOUS
  <1>1. buf \in Seq(Nat) /\ delivered \in Seq(Nat) /\ lockQ \in Seq(Readers) /\ Len(buf) <= Cap
    BY RecvAssumption DEF Init
  <1>2. /\ pc \in [Readers -> {"idle", "lock", "check", "clone", "select", "drain"}]
        /\ seen \in [Readers -> Nat] /\ callMark \in [Readers -> Nat]
        /\ result \in [Readers -> {"none", "data", "eof", "cancelled"}]
    BY DEF Init
  <1>3. QED
    BY <1>1, <1>2 DEF Init, TypeOK

(* A delivery moves a chunk from the channel to the reader.                *)
LEMMA DeliverType ==
  ASSUME TypeOK, NEW r \in Readers, buf # <<>>, Deliver(r)
  PROVE  /\ buf' \in Seq(Nat) /\ Len(buf') <= Cap
         /\ delivered' \in Seq(Nat)
         /\ delivered' \o buf' = delivered \o buf
         /\ Leave(r, "data")
  <1>1. buf \in Seq(Nat) /\ Len(buf) <= Cap /\ delivered \in Seq(Nat) /\ Cap \in Nat
    BY RecvAssumption DEF TypeOK
  <1>2. Head(buf) \in Nat /\ Tail(buf) \in Seq(Nat) /\ Len(Tail(buf)) = Len(buf) - 1
    BY <1>1
  <1>3. delivered' = Append(delivered, Head(buf)) /\ buf' = Tail(buf)
    BY DEF Deliver
  <1>4. delivered' \o buf' = delivered \o buf
    BY <1>1, <1>3, MoveHead
  <1>5. delivered' \in Seq(Nat) /\ buf' \in Seq(Nat) /\ Len(buf') <= Cap
    BY <1>1, <1>2, <1>3
  <1>6. QED
    BY <1>4, <1>5 DEF Deliver

LEMMA TypeStep == TypeOK /\ [Next]_vars => TypeOK'
  <1>. SUFFICES ASSUME TypeOK, [Next]_vars PROVE TypeOK'
    OBVIOUS
  <1>. USE DEF TypeOK, workerVars, readerVars, histVars, Goto
  <1>1. ASSUME NEW fin \in BOOLEAN, Push(fin) PROVE TypeOK'
    <2>1. buf' \in Seq(Nat) /\ Len(buf') <= Cap /\ dropped' \subseteq Nat
      <3>1. CASE Len(buf) < Cap
        <4>1. buf' = Append(buf, pushed + 1) /\ dropped' = dropped
          BY <1>1, <3>1 DEF Push
        <4>2. QED
          BY <3>1, <4>1, RecvAssumption
      <3>2. CASE ~(Len(buf) < Cap)
        <4>1. buf' = buf /\ dropped' = dropped \cup {pushed + 1}
          BY <1>1, <3>2 DEF Push
        <4>2. pushed + 1 \in Nat
          OBVIOUS
        <4>3. QED
          BY <4>1, <4>2
      <3>3. QED
        BY <3>1, <3>2
    <2>2. QED
      BY <1>1, <2>1 DEF Push, Holds
  <1>2. CASE PushFin
    BY <1>2 DEF PushFin, CloseRemote, Holds
  <1>3. CASE CloseWithoutData
    BY <1>3 DEF CloseWithoutData, CloseRemote, Holds
  (* The parts of TypeOK that leaving touches, for every way to leave.     *)
  <1>4. ASSUME NEW r \in Readers, NEW outcome \in {"data", "eof", "cancelled"},
               Leave(r, outcome)
        PROVE  /\ pc' \in [Readers -> {"idle", "lock", "check", "clone", "select", "drain"}]
               /\ result' \in [Readers -> {"none", "data", "eof", "cancelled"}]
               /\ lockQ' \in Seq(Readers)
               /\ \A q \in Readers : pc'[q] \notin {"idle", "lock"} => Holds(q)'
    <2>1. /\ lockQ' \in Seq(Readers)
          /\ \A q \in Readers : q # r /\ Holds(q) => Holds(q)'
      BY <1>4, LeaveQueue
    <2>2. \A q \in Readers : pc'[q] # "idle" => q # r /\ pc'[q] = pc[q]
      BY <1>4 DEF Leave
    <2>3. QED
      BY <1>4, <2>1, <2>2 DEF Leave
  (* Steps that leave the mutex alone, taken by its holder.                *)
  <1>5. ASSUME NEW r \in Readers, NEW label \in {"check", "clone", "select", "drain"},
               Goto(r, label), Holds(r), UNCHANGED lockQ
        PROVE  /\ pc' \in [Readers -> {"idle", "lock", "check", "clone", "select", "drain"}]
               /\ lockQ' \in Seq(Readers)
               /\ \A q \in Readers : pc'[q] \notin {"idle", "lock"} => Holds(q)'
    BY <1>5 DEF Holds
  <1>6. ASSUME NEW r \in Readers, Call(r) PROVE TypeOK'
    <2>1. lockQ' \in Seq(Readers) /\ \A q \in Readers : Holds(q) => Holds(q)'
      BY <1>6, JoinQueue DEF Call
    <2>2. QED
      BY <1>6, <2>1 DEF Call
  <1>7. ASSUME NEW r \in Readers, TryRecv(r) PROVE TypeOK'
    <2>1. CASE buf # <<>>
      <3>1. Deliver(r)
        BY <1>7, <2>1 DEF TryRecv
      <3>2. QED
        BY <1>4, <1>7, <2>1, <3>1, DeliverType DEF TryRecv
    <2>2. CASE buf = <<>>
      BY <1>5, <1>7, <2>2 DEF TryRecv
    <2>3. QED
      BY <2>1, <2>2
  <1>8. ASSUME NEW r \in Readers, CheckClosed(r) PROVE TypeOK'
    <2>1. CASE RemoteClosed
      BY <1>4, <1>8, <2>1 DEF CheckClosed
    <2>2. CASE ~RemoteClosed
      BY <1>5, <1>8, <2>2 DEF CheckClosed
    <2>3. QED
      BY <2>1, <2>2
  <1>9. ASSUME NEW r \in Readers, CloneWatch(r) PROVE TypeOK'
    BY <1>5, <1>9 DEF CloneWatch
  <1>10. ASSUME NEW r \in Readers, SelectData(r) PROVE TypeOK'
    BY <1>4, <1>10, DeliverType DEF SelectData
  <1>11. ASSUME NEW r \in Readers, SelectClosed(r) PROVE TypeOK'
    BY <1>5, <1>11 DEF SelectClosed
  <1>12. ASSUME NEW r \in Readers, Drain(r) PROVE TypeOK'
    <2>1. CASE buf # <<>>
      <3>1. Deliver(r)
        BY <1>12, <2>1 DEF Drain
      <3>2. QED
        BY <1>4, <1>12, <2>1, <3>1, DeliverType DEF Drain
    <2>2. CASE buf = <<>>
      BY <1>4, <1>12, <2>2 DEF Drain
    <2>3. QED
      BY <2>1, <2>2
  <1>13. ASSUME NEW r \in Readers, Cancel(r) PROVE TypeOK'
    BY <1>4, <1>13 DEF Cancel
  <1>14. CASE UNCHANGED vars
    BY <1>14 DEF vars, Holds
  <1>15. QED
    BY <1>1, <1>2, <1>3, <1>6, <1>7, <1>8, <1>9, <1>10, <1>11, <1>12, <1>13, <1>14
    DEF Next, Reader

(* Every field has its type, the channel stays within its capacity, and a   *)
(* reader is past the data_rx mutex only as its holder.                    *)
THEOREM TypeCorrect == Spec => []TypeOK
  BY TypeInit, TypeStep, PTL DEF Spec

----------------------------------------------------------------------------
(* The queue of the mutex.                                                 *)

LEMMA QueueInit == Init => QueueInv
  BY DEF Init, QueueInv

(* Who leaves is in the queue no more, and everybody else still once.      *)
LEMMA QueueLeave ==
  ASSUME TypeOK, QueueInv, NEW r \in Readers, NEW outcome, Leave(r, outcome)
  PROVE  QueueInv'
  <1>1. PICK i \in DOMAIN lockQ :
          /\ lockQ[i] = r
          /\ DOMAIN lockQ = 1 .. Len(lockQ) /\ DOMAIN lockQ' = 1 .. Len(lockQ) - 1
          /\ \A k \in DOMAIN lockQ' :
               lockQ'[k] = IF k < i THEN lockQ[k] ELSE lockQ[k + 1]
    BY LeaveQueue
  <1>2. lockQ \in Seq(Readers) /\ Len(lockQ) \in Nat /\ i \in Nat
    BY <1>1 DEF TypeOK
  <1>3. pc \in [Readers -> {"idle", "lock", "check", "clone", "select", "drain"}]
    BY DEF TypeOK
  <1>4. pc' = [pc EXCEPT ![r] = "idle"]
    BY DEF Leave, Goto
  <1>5. ASSUME NEW k \in DOMAIN lockQ'
        PROVE  \E j \in DOMAIN lockQ : j # i /\ lockQ'[k] = lockQ[j]
    BY <1>1, <1>2, <1>5
  <1>6. ASSUME NEW j \in DOMAIN lockQ, j # i
        PROVE  \E k \in DOMAIN lockQ' : lockQ'[k] = lockQ[j]
    <2>1. CASE j < i
      BY <1>1, <1>2, <2>1
    <2>2. CASE j > i
      <3>1. j - 1 \in DOMAIN lockQ' /\ ~(j - 1 < i) /\ (j - 1) + 1 = j
        BY <1>1, <1>2, <2>2
      <3>2. QED
        BY <1>1, <3>1
    <2>3. QED
      BY <1>1, <1>2, <1>6, <2>1, <2>2
  <1>7. \A k, l \in DOMAIN lockQ' : lockQ'[k] = lockQ'[l] => k = l
    BY <1>1, <1>2 DEF QueueInv
  <1>8. ASSUME NEW q \in Readers, pc'[q] # "idle"
        PROVE  \E k \in DOMAIN lockQ' : lockQ'[k] = q
    <2>1. q # r /\ pc[q] # "idle"
      BY <1>3, <1>4, <1>8
    <2>2. PICK j \in DOMAIN lockQ : lockQ[j] = q
      BY <2>1 DEF QueueInv
    <2>3. QED
      BY <1>1, <1>6, <2>1, <2>2
  <1>9. ASSUME NEW k \in DOMAIN lockQ' PROVE pc'[lockQ'[k]] # "idle"
    <2>1. PICK j \in DOMAIN lockQ : j # i /\ lockQ'[k] = lockQ[j]
      BY <1>5
    <2>2. lockQ[j] # r /\ pc[lockQ[j]] # "idle" /\ lockQ[j] \in Readers
      BY <1>1, <1>2, <2>1 DEF QueueInv
    <2>3. QED
      BY <1>3, <1>4, <2>1, <2>2
  <1>10. QED
    BY <1>7, <1>8, <1>9 DEF QueueInv

LEMMA QueueStep == TypeOK /\ QueueInv /\ [Next]_vars => QueueInv'
  <1>. SUFFICES ASSUME TypeOK, QueueInv, [Next]_vars PROVE QueueInv'
    OBVIOUS
  <1>. USE DEF workerVars, readerVars, histVars
  <1>1. pc \in [Readers -> {"idle", "lock", "check", "clone", "select", "drain"}]
    BY DEF TypeOK
  <1>2. ASSUME UNCHANGED <<pc, lockQ>> PROVE QueueInv'
    BY <1>2 DEF QueueInv
  <1>3. ASSUME NEW r \in Readers, NEW label \in {"check", "clone", "select", "drain"},
               pc[r] # "idle", Goto(r, label), UNCHANGED lockQ
        PROVE  QueueInv'
    <2>1. \A q \in Readers : pc'[q] # "idle" <=> pc[q] # "idle"
      BY <1>1, <1>3 DEF Goto
    <2>2. \A i \in DOMAIN lockQ : lockQ[i] \in Readers
      BY DEF TypeOK
    <2>3. QED
      BY <1>3, <2>1, <2>2 DEF QueueInv
  <1>4. ASSUME NEW r \in Readers, Call(r) PROVE QueueInv'
    <2>1. /\ lockQ \in Seq(Readers) /\ lockQ' = Append(lockQ, r) /\ pc[r] = "idle"
          /\ pc' = [pc EXCEPT ![r] = "lock"]
      BY <1>4 DEF Call, Goto, TypeOK
    <2>2. /\ DOMAIN lockQ = 1 .. Len(lockQ) /\ DOMAIN lockQ' = 1 .. Len(lockQ) + 1
          /\ lockQ'[Len(lockQ) + 1] = r /\ Len(lockQ) \in Nat
          /\ \A i \in DOMAIN lockQ : lockQ'[i] = lockQ[i]
      BY <2>1, JoinQueue
    <2>3. \A i \in DOMAIN lockQ' : i \in DOMAIN lockQ \/ i = Len(lockQ) + 1
      BY <2>2
    <2>4. \A i \in DOMAIN lockQ : lockQ[i] \in Readers /\ lockQ[i] # r
      BY <2>1 DEF QueueInv
    <2>5. \A i, j \in DOMAIN lockQ' : lockQ'[i] = lockQ'[j] => i = j
      BY <2>2, <2>3, <2>4 DEF QueueInv
    <2>6. ASSUME NEW q \in Readers, pc'[q] # "idle"
          PROVE  \E i \in DOMAIN lockQ' : lockQ'[i] = q
      <3>1. CASE q = r
        BY <2>2, <3>1
      <3>2. CASE q # r
        <4>1. PICK i \in DOMAIN lockQ : lockQ[i] = q
          BY <1>1, <2>1, <2>6, <3>2 DEF QueueInv
        <4>2. QED
          BY <2>2, <4>1
      <3>3. QED
        BY <3>1, <3>2
    <2>7. \A i \in DOMAIN lockQ' : pc'[lockQ'[i]] # "idle"
      BY <1>1, <2>1, <2>2, <2>3, <2>4 DEF QueueInv
    <2>8. QED
      BY <2>5, <2>6, <2>7 DEF QueueInv
  <1>5. ASSUME NEW r \in Readers, TryRecv(r) PROVE QueueInv'
    BY <1>3, <1>5, QueueLeave DEF TryRecv, Deliver
  <1>6. ASSUME NEW r \in Readers, CheckClosed(r) PROVE QueueInv'
    BY <1>3, <1>6, QueueLeave DEF CheckClosed
  <1>7. ASSUME NEW r \in Readers, CloneWatch(r) \/ SelectClosed(r) PROVE QueueInv'
    BY <1>3, <1>7 DEF CloneWatch, SelectClosed
  <1>8. ASSUME NEW r \in Readers, SelectData(r) \/ Drain(r) \/ Cancel(r) PROVE QueueInv'
    BY <1>8, QueueLeave DEF SelectData, Drain, Cancel, Deliver
  <1>9. ASSUME NEW fin \in BOOLEAN, Push(fin) PROVE QueueInv'
    BY <1>2, <1>9 DEF Push
  <1>10. CASE PushFin \/ CloseWithoutData
    BY <1>2, <1>10 DEF PushFin, CloseWithoutData
  <1>11. CASE UNCHANGED vars
    BY <1>2, <1>11 DEF vars
  <1>12. QED
    BY <1>4, <1>5, <1>6, <1>7, <1>8, <1>9, <1>10, <1>11 DEF Next, Reader

----------------------------------------------------------------------------
(* The chunks.                                                             *)

LEMMA ChunkInit == Init => ChunkInv
  <1>. SUFFICES ASSUME Init PROVE ChunkInv
    OBVIOUS
  <1>1. delivered \o buf = <<>> /\ pushed = 0 /\ dropped = {}
    BY DEF Init
  <1>2. Range(delivered \o buf) = {} /\ Accepted = {}
    BY <1>1 DEF Range, Accepted
  <1>3. QED
    BY <1>1, <1>2 DEF ChunkInv, NothingElseLost

(* A chunk that is appended to the channel is behind all that came before.  *)
LEMMA ChunkAppended ==
  ASSUME TypeOK, ChunkInv, buf' = Append(buf, pushed + 1), pushed' = pushed + 1,
         UNCHANGED <<delivered, dropped>>
  PROVE  ChunkInv'
  <1>. DEFINE all == delivered \o buf
  <1>1. /\ buf \in Seq(Nat) /\ delivered \in Seq(Nat) /\ pushed \in Nat
        /\ dropped \subseteq 1 .. pushed
    BY DEF TypeOK, ChunkInv
  <1>2. all \in Seq(Nat) /\ all' = Append(all, pushed + 1)
    <2>1. all' = delivered \o Append(buf, pushed + 1)
      OBVIOUS
    <2>2. QED
      BY <1>1, <2>1, AppendBehind
  <1>3. Range(all) = (1 .. pushed) \ dropped /\ \A i, j \in DOMAIN all : i < j => all[i] < all[j]
    BY DEF ChunkInv, NothingElseLost, Accepted
  <1>. HIDE DEF all
  <1>4. /\ Len(all) \in Nat /\ DOMAIN all = 1 .. Len(all)
        /\ DOMAIN all' = 1 .. Len(all) + 1
        /\ all'[Len(all) + 1] = pushed + 1
        /\ \A i \in DOMAIN all : all'[i] = all[i]
    BY <1>1, <1>2
  <1>5. \A i \in DOMAIN all : all[i] \in 1 .. pushed
    BY <1>3 DEF Range
  <1>6. \A i \in DOMAIN all' : i \in DOMAIN all \/ i = Len(all) + 1
    BY <1>4
  <1>7. ASSUME NEW i \in DOMAIN all', NEW j \in DOMAIN all', i < j
        PROVE  all'[i] < all'[j]
    <2>1. i \in DOMAIN all
      BY <1>4, <1>7
    <2>2. CASE j \in DOMAIN all
      BY <1>3, <1>4, <1>7, <2>1, <2>2
    <2>3. CASE j = Len(all) + 1
      BY <1>1, <1>4, <1>5, <2>1, <2>3
    <2>4. QED
      BY <1>6, <2>2, <2>3
  <1>8. Range(all') = Range(all) \cup {pushed + 1}
    BY <1>4, <1>6 DEF Range
  <1>9. (1 .. pushed + 1) \ dropped = ((1 .. pushed) \ dropped) \cup {pushed + 1}
    BY <1>1
  <1>10. Range(all') = Accepted'
    BY <1>3, <1>8, <1>9 DEF Accepted
  <1>11. dropped' \subseteq 1 .. pushed'
    BY <1>1
  <1>12. QED
    BY <1>7, <1>10, <1>11 DEF all, ChunkInv, NothingElseLost

(* What a step does to the chunks: one more is pushed, into the channel or  *)
(* dropped, or the first of the channel is delivered, or nothing.          *)
LEMMA ChunkMoves ==
  ASSUME TypeOK, [Next]_vars
  PROVE  \/ /\ pushed' = pushed + 1 /\ UNCHANGED delivered
            /\ \/ buf' = Append(buf, pushed + 1) /\ UNCHANGED dropped
               \/ dropped' = dropped \cup {pushed + 1} /\ UNCHANGED buf
         \/ /\ buf # <<>> /\ UNCHANGED <<pushed, dropped>>
            /\ delivered' = Append(delivered, Head(buf)) /\ buf' = Tail(buf)
         \/ UNCHANGED <<buf, pushed, dropped, delivered>>
  <1>. USE DEF workerVars, readerVars, histVars
  <1>1. ASSUME NEW fin \in BOOLEAN, Push(fin)
        PROVE  /\ pushed' = pushed + 1 /\ UNCHANGED delivered
               /\ \/ buf' = Append(buf, pushed + 1) /\ UNCHANGED dropped
                  \/ dropped' = dropped \cup {pushed + 1} /\ UNCHANGED buf
    BY <1>1 DEF Push
  <1>2. ASSUME NEW r \in Readers, TryRecv(r) \/ SelectData(r) \/ Drain(r)
        PROVE  /\ UNCHANGED <<pushed, dropped>>
               /\ \/ /\ buf # <<>>
                     /\ delivered' = Append(delivered, Head(buf)) /\ buf' = Tail(buf)
                  \/ UNCHANGED <<buf, delivered>>
    BY <1>2 DEF TryRecv, SelectData, Drain, Deliver
  <1>3. ASSUME NEW r \in Readers,
               Call(r) \/ CheckClosed(r) \/ CloneWatch(r) \/ SelectClosed(r) \/ Cancel(r)
        PROVE  UNCHANGED <<buf, pushed, dropped, delivered>>
    BY <1>3 DEF Call, CheckClosed, CloneWatch, SelectClosed, Cancel
  <1>4. CASE PushFin \/ CloseWithoutData
    BY <1>4 DEF PushFin, CloseWithoutData
  <1>5. CASE UNCHANGED vars
    BY <1>5 DEF vars
  <1>6. QED
    BY <1>1, <1>2, <1>3, <1>4, <1>5 DEF Next, Reader

LEMMA ChunkStep == TypeOK /\ ChunkInv /\ [Next]_vars => ChunkInv'
  <1>. SUFFICES ASSUME TypeOK, ChunkInv, [Next]_vars PROVE ChunkInv'
    OBVIOUS
  <1>1. /\ buf \in Seq(Nat) /\ delivered \in Seq(Nat) /\ pushed \in Nat
        /\ dropped \subseteq 1 .. pushed
    BY DEF TypeOK, ChunkInv
  <1>2. CASE /\ pushed' = pushed + 1 /\ UNCHANGED <<delivered, dropped>>
             /\ buf' = Append(buf, pushed + 1)
    BY <1>2, ChunkAppended
  <1>3. CASE /\ pushed' = pushed + 1 /\ UNCHANGED <<delivered, buf>>
             /\ dropped' = dropped \cup {pushed + 1}
    <2>1. Accepted' = Accepted
      BY <1>1, <1>3 DEF Accepted
    <2>2. dropped' \subseteq 1 .. pushed'
      BY <1>1, <1>3
    <2>3. QED
      BY <1>3, <2>1, <2>2 DEF ChunkInv, NothingElseLost
  <1>4. CASE /\ buf # <<>> /\ UNCHANGED <<pushed, dropped>>
             /\ delivered' = Append(delivered, Head(buf)) /\ buf' = Tail(buf)
    <2>1. (delivered \o buf)' = delivered \o buf
      BY <1>1, <1>4, MoveHead
    <2>2. Accepted' = Accepted
      BY <1>4 DEF Accepted
    <2>3. QED
      BY <1>4, <2>1, <2>2 DEF ChunkInv, NothingElseLost
  <1>5. CASE UNCHANGED <<buf, pushed, dropped, delivered>>
    BY <1>5 DEF ChunkInv, NothingElseLost, Accepted
  <1>6. QED
    BY <1>2, <1>3, <1>4, <1>5, ChunkMoves

----------------------------------------------------------------------------
(* The end of the stream.                                                  *)

(* With nothing in the channel, all that was accepted has been delivered.   *)
LEMMA EmptyMeansDelivered ==
  ASSUME TypeOK, ChunkInv, buf = <<>>, NEW n PROVE AllDelivered(n)
  <1>1. delivered \o buf = delivered
    BY DEF TypeOK
  <1>2. QED
    BY <1>1 DEF ChunkInv, NothingElseLost, AllDelivered

(* What has been delivered up to a chunk that was pushed stays delivered,   *)
(* and no chunk up to it is accepted any more.                             *)
LEMMA DeliveredStays ==
  ASSUME TypeOK, ChunkInv, [Next]_vars, NEW m \in Nat, m <= pushed, AllDelivered(m)
  PROVE  \A n \in Accepted' : n <= m => n \in Range(delivered')
  <1>1. buf \in Seq(Nat) /\ delivered \in Seq(Nat) /\ pushed \in Nat
    BY DEF TypeOK
  <1>2. \A n \in Accepted' : n <= m => n \in Accepted
    BY <1>1, ChunkMoves DEF Accepted
  <1>3. Range(delivered) \subseteq Range(delivered')
    <2>1. CASE UNCHANGED delivered
      BY <2>1
    <2>2. CASE buf # <<>> /\ delivered' = Append(delivered, Head(buf))
      <3>1. \A i \in DOMAIN delivered : i \in DOMAIN delivered' /\ delivered'[i] = delivered[i]
        BY <1>1, <2>2
      <3>2. QED
        BY <3>1 DEF Range
    <2>3. QED
      BY <2>1, <2>2, ChunkMoves
  <1>4. QED
    BY <1>2, <1>3 DEF AllDelivered

LEMMA EofInit == Init => EofInv
  BY DEF Init, EofInv

LEMMA EofStep == TypeOK /\ ChunkInv /\ EofInv /\ [Next]_vars => EofInv'
  <1>. SUFFICES ASSUME TypeOK, ChunkInv, EofInv, [Next]_vars PROVE EofInv'
    OBVIOUS
  <1>1. /\ pushed \in Nat /\ callMark \in [Readers -> Nat]
        /\ pc \in [Readers -> {"idle", "lock", "check", "clone", "select", "drain"}]
    BY DEF TypeOK
  <1>2. pushed' \in Nat /\ pushed <= pushed'
    BY <1>1, ChunkMoves
  (* The mark of a reader whose call goes on, and its reach.               *)
  <1>3. ASSUME NEW q \in Readers, callMark'[q] = callMark[q],
               pc'[q] = "check" => pc[q] = "check" \/ buf = <<>>
        PROVE  /\ callMark'[q] <= pushed'
               /\ pc'[q] = "check" => AllDelivered(callMark[q])'
    <2>1. callMark[q] \in Nat /\ callMark[q] <= pushed
      BY <1>1 DEF EofInv
    <2>2. pc'[q] = "check" => AllDelivered(callMark[q])
      BY <1>3, EmptyMeansDelivered DEF EofInv
    <2>3. pc'[q] = "check" =>
            \A n \in Accepted' : n <= callMark[q] => n \in Range(delivered')
      BY <2>1, <2>2, DeliveredStays
    <2>4. QED
      BY <1>1, <1>2, <1>3, <2>1, <2>3 DEF AllDelivered
  <1>. USE DEF workerVars, readerVars, histVars
  <1>4. ASSUME NEW r \in Readers, Call(r) PROVE EofInv'
    <2>1. ASSUME NEW q \in Readers, q # r
          PROVE  callMark'[q] = callMark[q] /\ pc'[q] = pc[q]
      BY <1>1, <1>4, <2>1 DEF Call, Goto
    <2>2. callMark'[r] = pushed /\ pc'[r] = "lock"
      BY <1>1, <1>4 DEF Call, Goto
    <2>3. QED
      BY <1>1, <1>2, <1>3, <2>1, <2>2 DEF EofInv
  <1>5. ASSUME NEW r \in Readers, TryRecv(r) PROVE EofInv'
    <2>1. /\ callMark' = callMark
          /\ \A q \in Readers : pc'[q] = "check" => pc[q] = "check" \/ buf = <<>>
      BY <1>1, <1>5 DEF TryRecv, Deliver, Leave, Goto
    <2>2. QED
      BY <1>3, <2>1 DEF EofInv
  <1>6. ASSUME NEW r \in Readers,
               \/ CheckClosed(r) \/ CloneWatch(r) \/ SelectData(r)
               \/ SelectClosed(r) \/ Drain(r) \/ Cancel(r)
        PROVE  EofInv'
    <2>1. callMark' = callMark /\ \A q \in Readers : pc'[q] = "check" => pc[q] = "check"
      BY <1>1, <1>6
      DEF CheckClosed, CloneWatch, SelectData, SelectClosed, Drain, Cancel, Deliver, Leave, Goto
    <2>2. QED
      BY <1>3, <2>1 DEF EofInv
  <1>7. ASSUME NEW fin \in BOOLEAN, Push(fin) PROVE EofInv'
    <2>1. UNCHANGED <<callMark, pc>>
      BY <1>7 DEF Push
    <2>2. QED
      BY <1>3, <2>1 DEF EofInv
  <1>8. CASE PushFin \/ CloseWithoutData \/ UNCHANGED vars
    <2>1. UNCHANGED <<callMark, pc>>
      BY <1>8 DEF PushFin, CloseWithoutData, vars
    <2>2. QED
      BY <1>3, <2>1 DEF EofInv
  <1>9. QED
    BY <1>4, <1>5, <1>6, <1>7, <1>8 DEF Next, Reader

----------------------------------------------------------------------------
LEMMA RecvInvariant == Spec => []RecvInv
  <1>1. Init => RecvInv
    BY TypeInit, QueueInit, ChunkInit, EofInit DEF RecvInv
  <1>2. RecvInv /\ [Next]_vars => RecvInv'
    BY TypeStep, QueueStep, ChunkStep, EofStep DEF RecvInv
  <1>3. QED
    BY <1>1, <1>2, PTL DEF Spec

(* Every chunk that found room in the channel is, once and in the order of  *)
(* arrival, with a reader or still in the channel, whatever readers and     *)
(* cancellations do to one another: read_data takes a chunk out and returns *)
(* it in one step.                                                         *)
THEOREM ChunksKept == Spec => []NothingElseLost
  <1>1. RecvInv => NothingElseLost
    BY DEF RecvInv, ChunkInv
  <1>2. QED
    BY <1>1, RecvInvariant, PTL

(* A reader past the lock is alone there, and a reader that is inside        *)
(* read_data is in the queue of the mutex in exactly one place.            *)
MutexQueue ==
  /\ \A q, r \in Readers :
       pc[q] \notin {"idle", "lock"} /\ pc[r] \notin {"idle", "lock"} => q = r
  /\ \A r \in Readers : pc[r] # "idle" =>
       \E i \in DOMAIN lockQ : lockQ[i] = r /\ \A j \in DOMAIN lockQ : lockQ[j] = r => j = i

(* However calls queue, finish and are dropped, one reader at most is past *)
(* the mutex and every caller stands in its queue exactly once.            *)
THEOREM MutexKept == Spec => []MutexQueue
  <1>1. RecvInv => MutexQueue
    BY DEF RecvInv, TypeOK, Holds, QueueInv, MutexQueue
  <1>2. QED
    BY <1>1, RecvInvariant, PTL

(* read_data reports the end of the stream only from two places: after the  *)
(* check of remote_closed and after the drain that found nothing.          *)
LEMMA EofFromWhere ==
  ASSUME TypeOK, [Next]_vars, NEW r \in Readers, ReturnsEof(r)
  PROVE  pc[r] = "check" \/ (pc[r] = "drain" /\ buf = <<>>)
  <1>. USE DEF ReturnsEof, TypeOK, Goto, Leave, workerVars, readerVars, histVars
  <1>1. ASSUME NEW q \in Readers, q # r, Call(q) \/ Reader(q) \/ Cancel(q) PROVE pc'[r] = pc[r]
    BY <1>1 DEF Call, Reader, TryRecv, CheckClosed, CloneWatch, SelectData, SelectClosed,
                Drain, Cancel, Deliver
  <1>2. CASE Call(r) \/ Reader(r) \/ Cancel(r)
    BY <1>2 DEF Call, Reader, TryRecv, CheckClosed, CloneWatch, SelectData, SelectClosed,
                Drain, Cancel, Deliver
  <1>3. ASSUME NEW fin \in BOOLEAN, Push(fin) PROVE pc' = pc
    BY <1>3 DEF Push
  <1>4. CASE PushFin \/ CloseWithoutData \/ UNCHANGED vars
    BY <1>4 DEF PushFin, CloseWithoutData, vars
  <1>5. QED
    BY <1>1, <1>2, <1>3, <1>4 DEF Next

(* None never comes ahead of a chunk that was in the channel when the call  *)
(* began.                                                                  *)
THEOREM EofAfterCall == Spec => EofAccountsForCall
  <1>1. ASSUME RecvInv, [Next]_vars, NEW r \in Readers, ReturnsEof(r)
        PROVE  AllDelivered(callMark[r])
    BY <1>1, EofFromWhere, EmptyMeansDelivered DEF RecvInv, EofInv
  <1>2. RecvInv /\ [Next]_vars =>
          [\A r \in Readers : ReturnsEof(r) => AllDelivered(callMark[r])]_vars
    BY <1>1
  <1>3. QED
    BY <1>2, RecvInvariant, PTL DEF Spec, EofAccountsForCall

(* A reader that the close has woken returns None only when all that was    *)
(* pushed before the close has been handed out.                            *)
THEOREM EofAfterWakeup == Spec => EofAfterDrain
  <1>1. ASSUME RecvInv, [Next]_vars, NEW r \in Readers, ReturnsEof(r), pc[r] = "drain"
        PROVE  AllDelivered(closeMark)
    BY <1>1, EofFromWhere, EmptyMeansDelivered DEF RecvInv
  <1>2. RecvInv /\ [Next]_vars =>
          [\A r \in Readers :
             ReturnsEof(r) /\ pc[r] = "drain" => AllDelivered(closeMark)]_vars
    BY <1>1
  <1>3. QED
    BY <1>2, RecvInvariant, PTL DEF Spec, EofAfterDrain

----------------------------------------------------------------------------
(* StreamRecv implements ReadContract.                                     *)

(* A reader is woken by the close only after the close.                    *)
DrainInv == \A r \in Readers : pc[r] = "drain" => RemoteClosed

LEMMA DrainStep == TypeOK /\ DrainInv /\ [Next]_vars => DrainInv'
  <1>. SUFFICES ASSUME TypeOK, DrainInv, [Next]_vars PROVE DrainInv'
    OBVIOUS
  <1>. USE DEF DrainInv, RemoteClosed, TypeOK, Goto, Leave, workerVars, readerVars, histVars
  <1>1. ASSUME NEW fin \in BOOLEAN, Push(fin) PROVE DrainInv'
    BY <1>1 DEF Push
  <1>2. CASE PushFin \/ CloseWithoutData
    BY <1>2 DEF PushFin, CloseWithoutData, CloseRemote
  <1>3. ASSUME NEW r \in Readers, Call(r) PROVE DrainInv'
    BY <1>3 DEF Call
  <1>4. ASSUME NEW r \in Readers, SelectClosed(r) PROVE DrainInv'
    BY <1>4 DEF SelectClosed
  <1>5. ASSUME NEW r \in Readers,
               TryRecv(r) \/ CheckClosed(r) \/ CloneWatch(r) \/ SelectData(r) \/ Drain(r) \/ Cancel(r)
        PROVE  DrainInv'
    BY <1>5 DEF TryRecv, CheckClosed, CloneWatch, SelectData, Drain, Cancel, Deliver
  <1>6. CASE UNCHANGED vars
    BY <1>6 DEF vars
  <1>7. QED
    BY <1>1, <1>2, <1>3, <1>4, <1>5, <1>6 DEF Next, Reader

(* What is still in the channel once all up to some chunk was delivered     *)
(* came later.                                                             *)
LEMMA LaterInBuffer ==
  ASSUME TypeOK, NothingElseLost, NEW upTo \in Nat, AllDelivered(upTo), NEW n \in Range(buf)
  PROVE  n > upTo
  <1>. DEFINE all == delivered \o buf
  <1>1. /\ delivered \in Seq(Nat) /\ buf \in Seq(Nat)
        /\ Len(delivered) \in Nat /\ Len(buf) \in Nat
        /\ DOMAIN delivered = 1 .. Len(delivered) /\ DOMAIN buf = 1 .. Len(buf)
        /\ DOMAIN all = 1 .. Len(delivered) + Len(buf)
    BY DEF TypeOK
  <1>2. /\ \A i \in 1 .. Len(delivered) : all[i] = delivered[i]
        /\ \A i \in 1 .. Len(buf) : all[Len(delivered) + i] = buf[i]
    BY <1>1
  <1>3. Range(all) = Accepted /\ \A i, j \in DOMAIN all : i < j => all[i] < all[j]
    BY DEF NothingElseLost
  <1>. HIDE DEF all
  <1>4. PICK j \in 1 .. Len(buf) : buf[j] = n
    BY <1>1 DEF Range
  <1>5. Len(delivered) + j \in DOMAIN all /\ all[Len(delivered) + j] = n /\ n \in Nat
    BY <1>1, <1>2, <1>4, ElementOfSeq
  <1>6. n \in Accepted
    BY <1>3, <1>5 DEF Range
  <1>. SUFFICES ASSUME n <= upTo PROVE FALSE
    BY <1>5
  <1>7. PICK i \in 1 .. Len(delivered) : delivered[i] = n
    BY <1>1, <1>6 DEF AllDelivered, Range
  <1>8. i \in DOMAIN all /\ all[i] = n /\ i < Len(delivered) + j
    BY <1>1, <1>2, <1>4, <1>7
  <1>9. QED
    BY <1>3, <1>5, <1>8

LEMMA ContractInit == Init => Contract!Init
  BY DEF Init, Contract!Init, RemoteClosed

(* A call that ends is an answer.                                          *)
LEMMA ContractAnswer ==
  ASSUME TypeOK, NEW r \in Readers, pc[r] # "idle", NEW what, Leave(r, what),
         UNCHANGED <<pushed, version, callMark>>
  PROVE  Contract!Answer(r, what)
  BY DEF Contract!Answer, Leave, Goto, TypeOK, RemoteClosed

(* A chunk that is received is returned.                                   *)
LEMMA ContractChunk ==
  ASSUME TypeOK, NEW r \in Readers, pc[r] # "idle", buf # <<>>, Deliver(r),
         UNCHANGED <<pushed, version, callMark>>
  PROVE  Contract!Chunk(r)
  BY ContractAnswer DEF Contract!Chunk, Deliver

(* The end is reported to a reader that has checked or has drained.        *)
LEMMA ContractEnd ==
  ASSUME RecvInv, NEW r \in Readers, Leave(r, "eof"), RemoteClosed,
         pc[r] = "check" \/ (pc[r] = "drain" /\ buf = <<>>),
         UNCHANGED <<pushed, version, callMark, buf, delivered>>
  PROVE  Contract!End(r)
  <1>1. callMark[r] \in Nat
    BY DEF RecvInv, TypeOK
  <1>2. AllDelivered(callMark[r])
    BY EmptyMeansDelivered DEF RecvInv, EofInv
  <1>3. \A n \in Range(buf) : n > callMark[r]
    BY <1>1, <1>2, LaterInBuffer DEF RecvInv, ChunkInv
  <1>4. Contract!Answer(r, "eof")
    BY ContractAnswer DEF RecvInv
  <1>5. QED
    BY <1>3, <1>4 DEF Contract!End, Contract!Range, Range

LEMMA ContractStep ==
  RecvInv /\ DrainInv /\ [Next]_vars => [Contract!Next]_(Contract!vars)
  <1>. SUFFICES ASSUME RecvInv, DrainInv, [Next]_vars
                PROVE  Contract!Next \/ UNCHANGED Contract!vars
    OBVIOUS
  <1>1. TypeOK
    BY DEF RecvInv
  <1>. USE DEF workerVars, readerVars, histVars
  <1>2. ASSUME NEW fin \in BOOLEAN, Push(fin) PROVE Contract!Arrive
    BY <1>2 DEF Push, Contract!Arrive, RemoteClosed
  <1>3. ASSUME CloseRemote, UNCHANGED <<buf, pushed, pc, result, delivered, callMark>>
        PROVE  Contract!Close
    BY <1>1, <1>3 DEF CloseRemote, RemoteClosed, TypeOK, Contract!Close
  <1>4. ASSUME PushFin \/ CloseWithoutData PROVE Contract!Close
    BY <1>3, <1>4 DEF PushFin, CloseWithoutData
  <1>5. ASSUME NEW r \in Readers, Call(r) PROVE Contract!Call(r)
    BY <1>1, <1>5 DEF Call, Goto, Contract!Call, RemoteClosed, TypeOK
  <1>6. ASSUME UNCHANGED <<buf, version, pushed, result, delivered, callMark>>,
               NEW r \in Readers, pc[r] # "idle", NEW label, label # "idle", Goto(r, label)
        PROVE  UNCHANGED Contract!vars
    BY <1>1, <1>6 DEF Goto, Contract!vars, RemoteClosed, TypeOK
  <1>7. ASSUME NEW r \in Readers, TryRecv(r)
        PROVE  Contract!Chunk(r) \/ UNCHANGED Contract!vars
    BY <1>1, <1>6, <1>7, ContractChunk DEF TryRecv
  <1>8. ASSUME NEW r \in Readers, CheckClosed(r)
        PROVE  Contract!End(r) \/ UNCHANGED Contract!vars
    BY <1>6, <1>8, ContractEnd DEF CheckClosed
  <1>9. ASSUME NEW r \in Readers, CloneWatch(r) \/ SelectClosed(r)
        PROVE  UNCHANGED Contract!vars
    BY <1>6, <1>9 DEF CloneWatch, SelectClosed
  <1>10. ASSUME NEW r \in Readers, SelectData(r) PROVE Contract!Chunk(r)
    BY <1>1, <1>10, ContractChunk DEF SelectData
  <1>11. ASSUME NEW r \in Readers, Drain(r) PROVE Contract!Chunk(r) \/ Contract!End(r)
    BY <1>1, <1>11, ContractChunk, ContractEnd DEF Drain, DrainInv
  <1>12. ASSUME NEW r \in Readers, Cancel(r) PROVE Contract!GiveUp(r)
    BY <1>1, <1>12, ContractAnswer DEF Cancel, Contract!GiveUp
  <1>13. CASE UNCHANGED vars
    BY <1>13 DEF vars, Contract!vars, RemoteClosed
  <1>14. QED
    BY <1>2, <1>4, <1>5, <1>7, <1>8, <1>9, <1>10, <1>11, <1>12, <1>13
    DEF Next, Reader, Contract!Next

(* Every call of read_data, whatever the other readers, the worker and the *)
(* read task do meanwhile, is for them as good as one step: it takes the   *)
(* first chunk, or reports the end with nothing left of what there was     *)
(* when it began, or is dropped and takes nothing.                         *)
THEOREM ImplementsContract == Spec => CallsAreAtomic
  <1>1. Init => DrainInv
    BY DEF Init, DrainInv
  <1>2. Spec => []DrainInv
    BY <1>1, DrainStep, TypeCorrect, PTL DEF Spec
  <1>3. Contract!Spec <=> Contract!Init /\ [][Contract!Next]_(Contract!vars)
    BY DEF Contract!Spec
  <1>4. QED
    BY <1>2, <1>3, ContractInit, ContractStep, RecvInvariant, PTL DEF Spec, CallsAreAtomic
=============================================================================
