---------------------------- MODULE FramerProofs ----------------------------
(***************************************************************************)
(* Theorems about the wire format and the frame reader, for bytes of any   *)
(* number of values (256 in the code), every number that fits its field    *)
(* and every frame of FramesAssumption.                                    *)
(*                                                                         *)
(* First the format: a header, a payload and a name/value block are read   *)
(* back as they were written.  Then the reader: FramerInv relates the      *)
(* bytes still on the wire, the decompressor's state and what was read to  *)
(* the frames the peer wrote, and every step keeps it.                     *)
(***************************************************************************)
EXTENDS Framer, SequenceLemmas

----------------------------------------------------------------------------
(* Division.                                                               *)

(* Quotient and remainder of natural numbers.                              *)
LEMMA DivMod ==
  ASSUME NEW n \in Nat, NEW a \in Nat \ {0}
  PROVE  /\ n \div a \in Nat /\ n % a \in 0..(a - 1)
         /\ n = (n \div a) * a + (n % a)
  OBVIOUS

LEMMA DivMul ==
  ASSUME NEW n \in Nat, NEW a \in Nat \ {0}, NEW b \in Nat \ {0}
  PROVE  a * b \in Nat \ {0} /\ n \div (a * b) = (n \div a) \div b
  OBVIOUS

LEMMA DivBound ==
  ASSUME NEW n \in Nat, NEW a \in Nat \ {0}, NEW b \in Nat \ {0}, n < a * b
  PROVE  n \div a < b
  OBVIOUS

LEMMA ModSmall ==
  ASSUME NEW n \in Nat, NEW a \in Nat \ {0}, n < a
  PROVE  n % a = n /\ n \div a = 0
  OBVIOUS

(* Powers of Byte.                                                         *)
LEMMA Powers ==
  /\ Byte \in Nat \ {0}
  /\ Power[0] = 1 /\ Power[1] = Byte
  /\ Power[2] = Byte * Byte
  /\ Power[3] = Byte * (Byte * Byte)
  /\ Power[4] = Byte * (Byte * (Byte * Byte))
<1>. DEFINE B2 == Byte * Byte
            B3 == Byte * B2
            B4 == Byte * B3
            G(p) == [k \in 0..4 |-> IF k = 0 THEN 1 ELSE Byte * p[k - 1]]
            w == [k \in 0..4 |-> IF k = 0 THEN 1 ELSE IF k = 1 THEN Byte ELSE
                                 IF k = 2 THEN B2 ELSE IF k = 3 THEN B3 ELSE B4]
<1>1. Byte \in Nat \ {0} /\ Byte * 1 = Byte
  BY ByteAssumption
<1>2. B2 = Byte * Byte /\ B3 = Byte * B2 /\ B4 = Byte * B3
  OBVIOUS
<1>. HIDE DEF B2, B3, B4
<1>3. w = G(w)
  <2>1. ASSUME NEW k \in 0..4 PROVE w[k] = IF k = 0 THEN 1 ELSE Byte * w[k - 1]
    <3>1. k = 0 \/ k = 1 \/ k = 2 \/ k = 3 \/ k = 4
      OBVIOUS
    <3>2. w[0] = 1 /\ w[1] = Byte /\ w[2] = B2 /\ w[3] = B3 /\ w[4] = B4
      OBVIOUS
    <3>. HIDE DEF w
    <3>. QED
      BY <3>1, <3>2, <1>1, <1>2
  <2>2. w = [k \in 0..4 |-> w[k]]
    OBVIOUS
  <2>. HIDE DEF w
  <2>. QED
    BY <2>1, <2>2
<1>. HIDE DEF w
<1>4. Power = G(Power)
  <2>1. Power = CHOOSE p : p = G(p)
    BY DEF Power
  <2>. HIDE DEF G
  <2>. QED
    BY <1>3, <2>1, Zenon
<1>5. Power[0] = 1
  BY <1>4
<1>6. Power[1] = Byte * Power[0] /\ Power[2] = Byte * Power[1]
  BY <1>4
<1>7. Power[3] = Byte * Power[2] /\ Power[4] = Byte * Power[3]
  BY <1>4
<1>. QED
  BY <1>1, <1>5, <1>6, <1>7

----------------------------------------------------------------------------
(* Big-endian numbers.                                                     *)

(* What up to four bytes stand for.                                        *)
LEMMA NumberSteps ==
  ASSUME NEW s, NEW l \in 1..4, Len(s) = l, \A i \in 1..l : s[i] \in Nat
  PROVE  \E n : /\ n[0] = 0
                /\ \A i \in 1..l : n[i] = (n[i - 1] * Byte) + s[i]
                /\ Number(s) = n[l]
<1>. DEFINE G(n) == [i \in 0..Len(s) |-> IF i = 0 THEN 0 ELSE (n[i - 1] * Byte) + s[i]]
            v1 == (0 * Byte) + s[1]
            v2 == (v1 * Byte) + s[2]
            v3 == (v2 * Byte) + s[3]
            v4 == (v3 * Byte) + s[4]
            w == [i \in 0..l |-> IF i = 0 THEN 0 ELSE IF i = 1 THEN v1 ELSE
                                 IF i = 2 THEN v2 ELSE IF i = 3 THEN v3 ELSE v4]
            n == CHOOSE f : f = G(f)
<1>1. /\ v1 = (0 * Byte) + s[1] /\ v2 = (v1 * Byte) + s[2]
      /\ v3 = (v2 * Byte) + s[3] /\ v4 = (v3 * Byte) + s[4]
  OBVIOUS
<1>. HIDE DEF v1, v2, v3, v4
<1>2. w = G(w)
  <2>1. ASSUME NEW i \in 0..l PROVE w[i] = IF i = 0 THEN 0 ELSE (w[i - 1] * Byte) + s[i]
    <3>1. i = 0 \/ i = 1 \/ i = 2 \/ i = 3 \/ i = 4
      OBVIOUS
    <3>2. /\ w[0] = 0 /\ w[1] = v1
          /\ l >= 2 => w[2] = v2
          /\ l >= 3 => w[3] = v3
          /\ l >= 4 => w[4] = v4
      OBVIOUS
    <3>. HIDE DEF w
    <3>3. CASE i = 0
      BY <3>2, <3>3
    <3>4. CASE i = 1
      BY <3>2, <3>4, <1>1
    <3>5. CASE i = 2
      BY <3>2, <3>5, <1>1
    <3>6. CASE i = 3
      BY <3>2, <3>6, <1>1
    <3>7. CASE i = 4
      BY <3>2, <3>7, <1>1
    <3>. QED
      BY <3>1, <3>3, <3>4, <3>5, <3>6, <3>7
  <2>2. w = [i \in 0..l |-> w[i]]
    OBVIOUS
  <2>. HIDE DEF w
  <2>. QED
    BY <2>1, <2>2
<1>. HIDE DEF w
<1>3. n = G(n)
  <2>. HIDE DEF G
  <2>. QED
    BY <1>2, Zenon
<1>4. Number(s) = n[l]
  BY DEF Number
<1>. HIDE DEF n
<1>5. n[0] = 0 /\ \A i \in 1..l : n[i] = (n[i - 1] * Byte) + s[i]
  <2>1. \A i \in 0..l : n[i] = IF i = 0 THEN 0 ELSE (n[i - 1] * Byte) + s[i]
    BY <1>3
  <2>. QED
    BY <2>1
<1>. QED
  BY <1>4, <1>5

LEMMA Number2 ==
  ASSUME NEW s, Len(s) = 2, s[1] \in Nat, s[2] \in Nat
  PROVE  Number(s) = (s[1] * Byte) + s[2]
<1>1. \A i \in 1..2 : s[i] \in Nat
  OBVIOUS
<1>2. PICK n : n[0] = 0 /\ (\A i \in 1..2 : n[i] = (n[i - 1] * Byte) + s[i]) /\ Number(s) = n[2]
  BY <1>1, NumberSteps
<1>3. n[1] = (n[0] * Byte) + s[1] /\ n[2] = (n[1] * Byte) + s[2]
  BY <1>2
<1>. QED
  BY <1>2, <1>3, ByteAssumption

LEMMA Number3 ==
  ASSUME NEW s, Len(s) = 3, s[1] \in Nat, s[2] \in Nat, s[3] \in Nat
  PROVE  Number(s) = (((s[1] * Byte) + s[2]) * Byte) + s[3]
<1>1. \A i \in 1..3 : s[i] \in Nat
  OBVIOUS
<1>2. PICK n : n[0] = 0 /\ (\A i \in 1..3 : n[i] = (n[i - 1] * Byte) + s[i]) /\ Number(s) = n[3]
  BY <1>1, NumberSteps
<1>3. n[1] = (n[0] * Byte) + s[1] /\ n[2] = (n[1] * Byte) + s[2] /\ n[3] = (n[2] * Byte) + s[3]
  BY <1>2
<1>4. n[1] = s[1]
  BY <1>2, <1>3, ByteAssumption
<1>. QED
  BY <1>2, <1>3, <1>4

LEMMA Number4 ==
  ASSUME NEW s, Len(s) = 4, s[1] \in Nat, s[2] \in Nat, s[3] \in Nat, s[4] \in Nat
  PROVE  Number(s) = (((((s[1] * Byte) + s[2]) * Byte) + s[3]) * Byte) + s[4]
<1>1. \A i \in 1..4 : s[i] \in Nat
  OBVIOUS
<1>2. PICK n : n[0] = 0 /\ (\A i \in 1..4 : n[i] = (n[i - 1] * Byte) + s[i]) /\ Number(s) = n[4]
  BY <1>1, NumberSteps
<1>3. /\ n[1] = (n[0] * Byte) + s[1] /\ n[2] = (n[1] * Byte) + s[2]
      /\ n[3] = (n[2] * Byte) + s[3] /\ n[4] = (n[3] * Byte) + s[4]
  BY <1>2
<1>4. n[1] = s[1]
  BY <1>2, <1>3, ByteAssumption
<1>. QED
  BY <1>2, <1>3, <1>4

(* The bytes of a number, from the most significant one.                   *)
LEMMA BigEndianBytes ==
  ASSUME NEW n \in Nat
  PROVE  /\ Len(BigEndian(n, 2)) = 2 /\ Len(BigEndian(n, 3)) = 3 /\ Len(BigEndian(n, 4)) = 4
         /\ BigEndian(n, 2)[1] = (n \div Byte) % Byte
         /\ BigEndian(n, 2)[2] = n % Byte
         /\ BigEndian(n, 3)[1] = ((n \div Byte) \div Byte) % Byte
         /\ BigEndian(n, 3)[2] = (n \div Byte) % Byte
         /\ BigEndian(n, 3)[3] = n % Byte
         /\ BigEndian(n, 4)[1] = (((n \div Byte) \div Byte) \div Byte) % Byte
         /\ BigEndian(n, 4)[2] = ((n \div Byte) \div Byte) % Byte
         /\ BigEndian(n, 4)[3] = (n \div Byte) % Byte
         /\ BigEndian(n, 4)[4] = n % Byte
<1>1. /\ Byte \in Nat \ {0}
      /\ Power[0] = 1 /\ Power[1] = Byte /\ Power[2] = Byte * Byte
      /\ Power[3] = Byte * (Byte * Byte)
  BY Powers
<1>2. n \div 1 = n
  OBVIOUS
<1>3. Byte * Byte \in Nat \ {0} /\ n \div (Byte * Byte) = (n \div Byte) \div Byte
  BY <1>1, DivMul, ZenonT(40)
<1>4. n \div (Byte * (Byte * Byte)) = ((n \div Byte) \div Byte) \div Byte
  <2>1. n \div (Byte * (Byte * Byte)) = (n \div Byte) \div (Byte * Byte)
    <3>. DEFINE b == Byte * Byte
    <3>1. b \in Nat \ {0}
      BY <1>3
    <3>. HIDE DEF b
    <3>2. n \div (Byte * b) = (n \div Byte) \div b
      BY <1>1, <3>1, DivMul
    <3>. QED
      BY <3>2 DEF b
  <2>2. n \div Byte \in Nat
    BY <1>1, DivMod
  <2>. QED
    BY <2>1, <2>2, <1>1, DivMul
<1>5. ASSUME NEW width \in 1..4
      PROVE  /\ Len(BigEndian(n, width)) = width
             /\ \A i \in 1..width : BigEndian(n, width)[i] = (n \div Power[width - i]) % Byte
  BY DEF BigEndian
<1>6. /\ BigEndian(n, 2)[1] = (n \div Power[1]) % Byte
      /\ BigEndian(n, 2)[2] = (n \div Power[0]) % Byte
  BY <1>5
<1>7. /\ BigEndian(n, 3)[1] = (n \div Power[2]) % Byte
      /\ BigEndian(n, 3)[2] = (n \div Power[1]) % Byte
      /\ BigEndian(n, 3)[3] = (n \div Power[0]) % Byte
  BY <1>5
<1>8. /\ BigEndian(n, 4)[1] = (n \div Power[3]) % Byte
      /\ BigEndian(n, 4)[2] = (n \div Power[2]) % Byte
      /\ BigEndian(n, 4)[3] = (n \div Power[1]) % Byte
      /\ BigEndian(n, 4)[4] = (n \div Power[0]) % Byte
  BY <1>5
<1>. QED
  BY <1>1, <1>2, <1>3, <1>4, <1>5, <1>6, <1>7, <1>8

(* They are bytes.                                                         *)
LEMMA BigEndianType ==
  ASSUME NEW n \in Nat, NEW width \in 1..4
  PROVE  /\ BigEndian(n, width) \in Seq(Nat) /\ Len(BigEndian(n, width)) = width
         /\ \A i \in 1..width : BigEndian(n, width)[i] \in 0..(Byte - 1)
<1>1. ASSUME NEW k \in 0..4 PROVE Power[k] \in Nat \ {0}
  <2>1. Byte \in Nat \ {0} /\ Byte * Byte \in Nat \ {0}
    BY Powers, DivMul
  <2>2. Byte * (Byte * Byte) \in Nat \ {0}
    BY <2>1, DivMul
  <2>3. Byte * (Byte * (Byte * Byte)) \in Nat \ {0}
    BY <2>1, <2>2, DivMul
  <2>4. k = 0 \/ k = 1 \/ k = 2 \/ k = 3 \/ k = 4
    OBVIOUS
  <2>. QED
    BY <2>1, <2>2, <2>3, <2>4, Powers
<1>2. ASSUME NEW i \in 1..width PROVE (n \div Power[width - i]) % Byte \in 0..(Byte - 1)
  <2>1. Power[width - i] \in Nat \ {0}
    BY <1>1
  <2>2. n \div Power[width - i] \in Nat
    BY <2>1, DivMod
  <2>. QED
    BY <2>2, DivMod, Powers
<1>. DEFINE b == BigEndian(n, width)
<1>3. b = [i \in 1..width |-> (n \div Power[width - i]) % Byte]
  BY DEF BigEndian
<1>. HIDE DEF b
<1>4. \A i \in 1..width : b[i] \in 0..(Byte - 1) /\ b[i] \in Nat
  BY <1>2, <1>3, Powers
<1>5. b \in Seq(Nat) /\ Len(b) = width
  BY <1>3, <1>4
<1>. QED
  BY <1>4, <1>5 DEF b

(* Reading undoes writing, for every number that fits.                     *)
LEMMA NumberOfBigEndian ==
  ASSUME NEW n \in Nat
  PROVE  /\ n < Power[2] => Number(BigEndian(n, 2)) = n
         /\ n < Power[3] => Number(BigEndian(n, 3)) = n
         /\ n < Power[4] => Number(BigEndian(n, 4)) = n
<1>. DEFINE q1 == n \div Byte
            q2 == q1 \div Byte
            q3 == q2 \div Byte
<1>1. Byte \in Nat \ {0} /\ Byte * Byte \in Nat \ {0} /\ Byte * (Byte * Byte) \in Nat \ {0}
  <2>1. Byte \in Nat \ {0} /\ Byte * Byte \in Nat \ {0}
    BY Powers, DivMul
  <2>. QED
    BY <2>1, DivMul
<1>D. \A m \in Nat : /\ m \div Byte \in Nat /\ m % Byte \in Nat
                      /\ m = ((m \div Byte) * Byte) + (m % Byte)
  BY <1>1, DivMod
<1>2. q1 \in Nat /\ n % Byte \in Nat /\ n = (q1 * Byte) + (n % Byte)
  BY <1>1, DivMod
<1>3. q2 \in Nat /\ q1 % Byte \in Nat /\ q1 = (q2 * Byte) + (q1 % Byte)
  BY <1>1, <1>2, <1>D
<1>4. q3 \in Nat /\ q2 % Byte \in Nat /\ q2 = (q3 * Byte) + (q2 % Byte)
  BY <1>1, <1>3, <1>D
<1>5. /\ Len(BigEndian(n, 2)) = 2 /\ Len(BigEndian(n, 3)) = 3 /\ Len(BigEndian(n, 4)) = 4
      /\ BigEndian(n, 2)[1] = q1 % Byte /\ BigEndian(n, 2)[2] = n % Byte
      /\ BigEndian(n, 3)[1] = q2 % Byte /\ BigEndian(n, 3)[2] = q1 % Byte
      /\ BigEndian(n, 3)[3] = n % Byte
      /\ BigEndian(n, 4)[1] = q3 % Byte /\ BigEndian(n, 4)[2] = q2 % Byte
      /\ BigEndian(n, 4)[3] = q1 % Byte /\ BigEndian(n, 4)[4] = n % Byte
  BY BigEndianBytes
<1>6. n < Power[2] => q1 % Byte = q1
  <2>. SUFFICES ASSUME n < Byte * Byte PROVE q1 % Byte = q1
    BY Powers
  <2>1. q1 < Byte
    BY <1>1, DivBound
  <2>. HIDE DEF q1
  <2>. QED
    BY <2>1, <1>1, <1>2, ModSmall
<1>7. n < Power[3] => q2 % Byte = q2
  <2>. SUFFICES ASSUME n < Byte * (Byte * Byte) PROVE q2 % Byte = q2
    BY Powers
  <2>1. q1 < Byte * Byte
    BY <1>1, DivBound
  <2>. HIDE DEF q1
  <2>2. q2 < Byte
    BY <2>1, <1>1, <1>2, DivBound
  <2>. HIDE DEF q2
  <2>. QED
    BY <2>2, <1>1, <1>3, ModSmall
<1>8. n < Power[4] => q3 % Byte = q3
  <2>. SUFFICES ASSUME n < Byte * (Byte * (Byte * Byte)) PROVE q3 % Byte = q3
    BY Powers
  <2>1. q1 < Byte * (Byte * Byte)
    BY <1>1, DivBound
  <2>. HIDE DEF q1
  <2>2. q2 < Byte * Byte
    BY <2>1, <1>1, <1>2, DivBound
  <2>. HIDE DEF q2
  <2>3. q3 < Byte
    BY <2>2, <1>1, <1>3, DivBound
  <2>. HIDE DEF q3
  <2>. QED
    BY <2>3, <1>1, <1>4, ModSmall
<1>9. q3 % Byte \in Nat
  <2>. HIDE DEF q3
  <2>. QED
    BY <1>1, <1>4, DivMod
<1>. HIDE DEF q1, q2, q3
<1>10. n < Power[2] => Number(BigEndian(n, 2)) = n
  BY <1>2, <1>3, <1>5, <1>6, Number2
<1>11. n < Power[3] => Number(BigEndian(n, 3)) = n
  <2>. SUFFICES ASSUME n < Power[3] PROVE Number(BigEndian(n, 3)) = n
    OBVIOUS
  <2>1. Number(BigEndian(n, 3)) = (((q2 * Byte) + (q1 % Byte)) * Byte) + (n % Byte)
    BY <1>2, <1>3, <1>4, <1>5, <1>7, Number3
  <2>. QED
    BY <2>1, <1>2, <1>3
<1>12. n < Power[4] => Number(BigEndian(n, 4)) = n
  <2>. SUFFICES ASSUME n < Power[4] PROVE Number(BigEndian(n, 4)) = n
    OBVIOUS
  <2>1. Number(BigEndian(n, 4)) = (((((q3 * Byte) + (q2 % Byte)) * Byte) + (q1 % Byte)) * Byte) + (n % Byte)
    BY <1>2, <1>3, <1>4, <1>5, <1>8, <1>9, Number4
  <2>. QED
    BY <2>1, <1>2, <1>3, <1>4
<1>. QED
  BY <1>10, <1>11, <1>12

----------------------------------------------------------------------------
(* Pieces of sequences.                                                    *)

(* The bytes of a concatenation.                                           *)
LEMMA Concat ==
  ASSUME NEW s \in Seq(Nat), NEW t \in Seq(Nat)
  PROVE  /\ s \o t \in Seq(Nat) /\ Len(s) \in Nat /\ Len(t) \in Nat
         /\ Len(s \o t) = Len(s) + Len(t)
         /\ \A i \in 1..Len(s) : (s \o t)[i] = s[i]
         /\ \A i \in 1..Len(t) : (s \o t)[Len(s) + i] = t[i]
  OBVIOUS

(* t is in s from its m-th byte on.                                        *)
At(s, m, t) ==
  /\ s \in Seq(Nat) /\ t \in Seq(Nat) /\ m \in Nat \ {0}
  /\ m + Len(t) <= Len(s) + 1
  /\ \A i \in 1..Len(t) : s[m - 1 + i] = t[i]

(* What is in s from its m-th byte on is that part of s.                   *)
LEMMA AtSubSeq ==
  ASSUME NEW s, NEW m, NEW t, At(s, m, t), NEW n, n = m + Len(t) - 1
  PROVE  SubSeq(s, m, n) = t
<1>1. /\ s \in Seq(Nat) /\ t \in Seq(Nat) /\ m \in Nat \ {0}
      /\ Len(s) \in Nat /\ Len(t) \in Nat /\ n \in Int /\ n <= Len(s)
      /\ \A i \in 1..Len(t) : s[m - 1 + i] = t[i]
  BY LenProperties, SMTT(30) DEF At
<1>. DEFINE u == SubSeq(s, m, n)
<1>2. /\ u \in Seq(Nat) /\ Len(u) = IF m <= n THEN n - m + 1 ELSE 0
      /\ \A i \in 1..(n - m + 1) : u[i] = s[m + i - 1]
  <2>1. \A i \in m..n : s[i] \in Nat
    BY <1>1
  <2>2. \A j, k \in Int :
          (\A i \in j..k : s[i] \in Nat) =>
            /\ SubSeq(s, j, k) \in Seq(Nat)
            /\ Len(SubSeq(s, j, k)) = IF j <= k THEN k - j + 1 ELSE 0
            /\ \A i \in 1..(k - j + 1) : SubSeq(s, j, k)[i] = s[j + i - 1]
    BY SubSeqProperties
  <2>3. m \in Int
    BY <1>1
  <2>. QED
    BY <1>1, <2>1, <2>2, <2>3
<1>. HIDE DEF u
<1>3. Len(u) = Len(t) /\ n - m + 1 = Len(t)
  BY <1>1, <1>2
<1>4. ASSUME NEW i \in 1..Len(t) PROVE u[i] = t[i]
  <2>1. m + i - 1 = m - 1 + i
    BY <1>1
  <2>. QED
    BY <2>1, <1>1, <1>2, <1>3
<1>5. u = t
  BY <1>1, <1>2, <1>3, <1>4, SeqEqual
<1>. QED
  BY <1>5 DEF u

(* A piece of a front is a piece of the whole; the rest begins behind the  *)
(* front.                                                                  *)
LEMMA AtFront ==
  ASSUME NEW s, NEW m, NEW t, At(s, m, t), NEW r \in Seq(Nat)
  PROVE  At(s \o r, m, t)
<1>1. /\ s \in Seq(Nat) /\ t \in Seq(Nat) /\ m \in Nat \ {0}
      /\ Len(s) \in Nat /\ Len(t) \in Nat /\ Len(r) \in Nat /\ m + Len(t) <= Len(s) + 1
      /\ \A i \in 1..Len(t) : s[m - 1 + i] = t[i]
  BY LenProperties DEF At
<1>2. /\ s \o r \in Seq(Nat) /\ Len(s \o r) = Len(s) + Len(r)
      /\ \A i \in 1..Len(s) : (s \o r)[i] = s[i]
  BY <1>1, Concat
<1>3. ASSUME NEW i \in 1..Len(t) PROVE (s \o r)[m - 1 + i] = t[i]
  <2>1. m - 1 + i \in 1..Len(s)
    BY <1>1
  <2>. QED
    BY <2>1, <1>1, <1>2
<1>. QED
  BY <1>1, <1>2, <1>3 DEF At

LEMMA AtBack ==
  ASSUME NEW s \in Seq(Nat), NEW r \in Seq(Nat), NEW m, m = Len(s) + 1
  PROVE  At(s \o r, m, r)
<1>1. /\ s \o r \in Seq(Nat) /\ Len(s) \in Nat /\ Len(r) \in Nat
      /\ Len(s \o r) = Len(s) + Len(r)
      /\ \A i \in 1..Len(r) : (s \o r)[Len(s) + i] = r[i]
  BY Concat
<1>2. m \in Nat \ {0} /\ m - 1 = Len(s)
  BY <1>1
<1>. QED
  BY <1>1, <1>2 DEF At

LEMMA AtAll ==
  ASSUME NEW s \in Seq(Nat)
  PROVE  At(s, 1, s)
<1>1. Len(s) \in Nat
  BY LenProperties
<1>2. \A i \in 1..Len(s) : 1 - 1 + i = i
  BY <1>1
<1>. QED
  BY <1>1, <1>2 DEF At

----------------------------------------------------------------------------
(* Frame headers.                                                          *)

LEMMA HalfByte ==
  /\ Byte \in Nat /\ Byte >= 16 /\ Byte \div 2 \in Nat \ {0} /\ Byte \div 8 \in Nat \ {0}
  /\ Byte = (Byte \div 2) * 2 /\ (Byte \div 2) % (Byte \div 2) = 0
<1>1. Byte \in Nat /\ Byte >= 16 /\ Byte % 8 = 0
  BY ByteAssumption
<1>2. Byte = (Byte \div 8) * 8 /\ Byte \div 8 \in Nat \ {0}
  BY <1>1
<1>3. Byte \div 2 = (Byte \div 8) * 4
  BY <1>1, <1>2
<1>4. Byte \div 2 \in Nat \ {0}
  BY <1>2, <1>3
<1>5. \A a \in Nat \ {0} : a % a = 0
  OBVIOUS
<1>. QED
  BY <1>1, <1>2, <1>3, <1>4, <1>5

(* Every number of 24 bits fits into 32, and the id and status of a frame  *)
(* are what a word can hold.                                               *)
LEMMA Mask ==
  ASSUME NEW n \in Nat
  PROVE  /\ Mask31(n) \in Nat /\ Mask31(n) < Power[4]
         /\ Mask31(n) < (Byte \div 2) * (Byte * (Byte * Byte))
         /\ Mask31(Mask31(n)) = Mask31(n)
<1>. DEFINE h == Byte \div 2
            c == Byte * (Byte * Byte)
<1>1. h \in Nat \ {0} /\ Byte \in Nat \ {0} /\ Byte = h * 2
  BY HalfByte
<1>2. c \in Nat \ {0}
  BY <1>1, DivMul
<1>3. Power[4] = Byte * c
  BY Powers
<1>. HIDE DEF c
<1>4. \A x, y \in Nat : (x * 2) * y = (x * y) * 2 /\ x * y \in Nat /\ (x * y) * 2 = (x * y) + (x * y)
  OBVIOUS
<1>. HIDE DEF h
<1>5. Power[4] = (h * c) * 2 /\ h * c \in Nat
  BY <1>1, <1>2, <1>3, <1>4
<1>6. h * c \in Nat \ {0}
  BY <1>1, <1>2, DivMul
<1>7. Power[4] \div 2 = h * c /\ h * c < Power[4]
  <2>1. \A x \in Nat \ {0} : (x * 2) \div 2 = x /\ x < x * 2
    OBVIOUS
  <2>. QED
    BY <2>1, <1>5, <1>6
<1>8. Mask31(n) \in 0..((h * c) - 1)
  BY <1>6, <1>7, DivMod DEF Mask31
<1>9. Mask31(n) \in Nat /\ Mask31(n) < h * c
  BY <1>5, <1>8
<1>10. Mask31(Mask31(n)) = Mask31(n)
  <2>. DEFINE k == Mask31(n)
  <2>1. k \in Nat /\ k < h * c
    BY <1>9
  <2>. HIDE DEF k
  <2>2. k % (h * c) = k
    BY <2>1, <1>6, ModSmall
  <2>3. Mask31(k) = k
    BY <2>2, <1>7 DEF Mask31
  <2>. QED
    BY <2>3 DEF k
<1>11. Mask31(n) < Power[4]
  BY <1>5, <1>6, <1>7, <1>9
<1>. QED
  BY <1>9, <1>10, <1>11 DEF h, c

(* s has n bytes; u is s with t behind it.                                 *)
Has(s, n)         == s \in Seq(Nat) /\ n \in Nat /\ Len(s) = n
JoinedOf(u, s, t) == u = s \o t

(* What is in a sequence is in one that begins with it, and what is joined *)
(* to it comes behind it.                                                  *)
LEMMA Joined ==
  ASSUME NEW s, NEW t, NEW a, NEW b, Has(s, a), Has(t, b), NEW u, JoinedOf(u, s, t)
  PROVE  /\ Has(u, a + b)
         /\ At(u, a + 1, t)
         /\ \A k, v : At(s, k, v) => At(u, k, v)
<1>1. s \in Seq(Nat) /\ t \in Seq(Nat) /\ a \in Nat /\ b \in Nat /\ Len(s) = a /\ Len(t) = b
  BY DEF Has
<1>0. u = s \o t
  BY DEF JoinedOf
<1>2. Has(u, a + b)
  <2>1. u \in Seq(Nat) /\ Len(u) = Len(s) + Len(t)
    BY <1>0, <1>1, Concat
  <2>. QED
    BY <2>1, <1>1 DEF Has
<1>3. At(u, a + 1, t)
  BY <1>0, <1>1, AtBack
<1>4. \A k, v : At(s, k, v) => At(u, k, v)
  BY <1>0, <1>1, AtFront
<1>. QED
  BY <1>2, <1>3, <1>4

(* The byte at a place.                                                    *)
LEMMA AtByte ==
  ASSUME NEW s, NEW m \in Nat, NEW b \in Nat, At(s, m, <<b>>)
  PROVE  s[m] = b
<1>1. \A i \in 1..Len(<<b>>) : s[m - 1 + i] = <<b>>[i]
  BY DEF At
<1>2. Len(<<b>>) = 1 /\ <<b>>[1] = b
  OBVIOUS
<1>3. s[m - 1 + 1] = b
  BY <1>1, <1>2
<1>. QED
  BY <1>3

(* Sequences of one byte and of two.                                       *)
LEMMA OneByte ==
  ASSUME NEW a \in Nat
  PROVE  Has(<<a>>, 1)
<1>1. <<a>> \in Seq(Nat) /\ Len(<<a>>) = 1
  OBVIOUS
<1>. QED
  BY <1>1 DEF Has

LEMMA TwoBytes ==
  ASSUME NEW a \in Nat, NEW b \in Nat
  PROVE  Has(<<a, b>>, 2) /\ At(<<a, b>>, 1, <<a>>) /\ At(<<a, b>>, 2, <<b>>)
<1>1. /\ <<a, b>> \in Seq(Nat) /\ Len(<<a, b>>) = 2
      /\ <<a, b>>[1] = a /\ <<a, b>>[2] = b
  OBVIOUS
<1>2. Has(<<a, b>>, 2)
  BY <1>1 DEF Has
<1>3. \A x \in Nat : <<x>> \in Seq(Nat) /\ Len(<<x>>) = 1 /\ <<x>>[1] = x
  OBVIOUS
<1>4. At(<<a, b>>, 1, <<a>>)
  BY <1>1, <1>3 DEF At
<1>5. At(<<a, b>>, 2, <<b>>)
  BY <1>1, <1>3 DEF At
<1>. QED
  BY <1>2, <1>4, <1>5

(* The places in a sequence that is written in four parts.                 *)
LEMMA FourParts ==
  ASSUME NEW s, NEW a, Has(s, a), NEW t, NEW b, Has(t, b),
         NEW f, NEW c, Has(f, c), NEW l, NEW d, Has(l, d),
         NEW s1, JoinedOf(s1, s, t), NEW s2, JoinedOf(s2, s1, f), NEW h, JoinedOf(h, s2, l)
  PROVE  /\ Has(h, a + b + c + d)
         /\ At(h, a + 1, t) /\ At(h, a + b + 1, f) /\ At(h, a + b + c + 1, l)
         /\ \A k, v : At(s, k, v) => At(h, k, v)
<1>1. Has(s1, a + b) /\ At(s1, a + 1, t) /\ \A k, v : At(s, k, v) => At(s1, k, v)
  BY Joined
<1>2. Has(s2, a + b + c) /\ At(s2, a + b + 1, f) /\ \A k, v : At(s1, k, v) => At(s2, k, v)
  BY <1>1, Joined
<1>3. Has(h, a + b + c + d) /\ At(h, a + b + c + 1, l) /\ \A k, v : At(s2, k, v) => At(h, k, v)
  BY <1>2, Joined
<1>. QED
  BY <1>1, <1>2, <1>3

(* The w bytes from the m-th on; a piece of a sequence is what it gives. *)
Piece(s, m, w) == SubSeq(s, m, m + w - 1)

LEMMA AtPiece ==
  ASSUME NEW s, NEW m, NEW t, NEW w, Has(t, w), At(s, m, t)
  PROVE  Piece(s, m, w) = t
<1>1. m + w - 1 = m + Len(t) - 1
  BY DEF Has
<1>2. \A k : k = m + Len(t) - 1 => SubSeq(s, m, k) = t
  BY AtSubSeq, Zenon
<1>. QED
  BY <1>1, <1>2, Zenon DEF Piece

(* What read_frame finds in the 8 bytes <<a, b>>, t, <<c>>, l.             *)
LEMMA ControlHeaderBytes ==
  ASSUME NEW a \in Nat, NEW b \in Nat, NEW c \in Nat,
         NEW t, Has(t, 2), NEW l, Has(l, 3),
         NEW s1, JoinedOf(s1, <<a, b>>, t), NEW s2, JoinedOf(s2, s1, <<c>>),
         NEW h, JoinedOf(h, s2, l)
  PROVE  /\ Has(h, 8)
         /\ h[1] = a /\ h[2] = b /\ h[5] = c
         /\ SubSeq(h, 3, 4) = t /\ SubSeq(h, 6, 8) = l
<1>1. Has(<<a, b>>, 2) /\ At(<<a, b>>, 1, <<a>>) /\ At(<<a, b>>, 2, <<b>>)
  BY TwoBytes
<1>2. Has(<<c>>, 1)
  BY OneByte
<1>3. /\ Has(h, 2 + 2 + 1 + 3)
      /\ At(h, 2 + 1, t) /\ At(h, 2 + 2 + 1, <<c>>) /\ At(h, 2 + 2 + 1 + 1, l)
      /\ \A k, v : At(<<a, b>>, k, v) => At(h, k, v)
  BY <1>1, <1>2, FourParts
<1>4. At(h, 1, <<a>>) /\ At(h, 2, <<b>>)
  BY <1>1, <1>3, Zenon
<1>5. Has(h, 8) /\ At(h, 3, t) /\ At(h, 5, <<c>>) /\ At(h, 6, l)
  BY <1>3
<1>6. h[1] = a /\ h[2] = b /\ h[5] = c
  BY <1>4, <1>5, AtByte
<1>7. Piece(h, 3, 2) = t /\ Piece(h, 6, 3) = l
  BY <1>5, AtPiece
<1>8. SubSeq(h, 3, 4) = t /\ SubSeq(h, 6, 8) = l
  BY <1>7 DEF Piece
<1>. QED
  BY <1>5, <1>6, <1>8

(* The version bytes, the type and the length, as numbers.                 *)
LEMMA CodeNumber ==
  ASSUME NEW type \in DOMAIN TypeCode
  PROVE  TypeCode[type] \in Nat /\ TypeCode[type] < Power[2]
<1>1. TypeCode[type] \in 1..9
  BY DEF TypeCode
<1>2. Power[2] = Byte * Byte /\ Byte \in Nat /\ Byte >= 16
  BY Powers, HalfByte
<1>3. Byte * Byte >= Byte
  BY <1>2
<1>. QED
  BY <1>1, <1>2, <1>3

(* What read_frame finds in the header of a control frame is what          *)
(* write_control_frame_header put there, whatever the type, the flags and  *)
(* the length are.                                                         *)
THEOREM ControlHeaderReadBack ==
  ASSUME NEW type \in DOMAIN TypeCode, NEW flags \in Nat,
         NEW length \in Nat, length < Power[3],
         NEW h, h = ControlHeader(type, flags, length)
  PROVE  /\ Len(h) = 8 /\ h \in Seq(Nat)
         /\ IsControl(h) /\ Version(h) = SpdyVersion
         /\ Number(SubSeq(h, 3, 4)) = TypeCode[type]
         /\ h[5] = flags
         /\ PayloadLength(h) = length
<1>. DEFINE t  == BigEndian(TypeCode[type], 2)
            l  == BigEndian(length, 3)
            s1 == <<Byte \div 2, 3>> \o t
            s2 == s1 \o <<flags>>
<1>1. TypeCode[type] \in Nat /\ TypeCode[type] < Power[2]
  BY CodeNumber
<1>2. Number(t) = TypeCode[type] /\ Number(l) = length
  BY <1>1, NumberOfBigEndian
<1>3. Has(t, 2)
  BY <1>1, BigEndianType DEF Has
<1>4. Has(l, 3)
  BY BigEndianType DEF Has
<1>5. /\ JoinedOf(s1, <<Byte \div 2, 3>>, t) /\ JoinedOf(s2, s1, <<flags>>)
      /\ JoinedOf(h, s2, l)
  BY DEF JoinedOf, ControlHeader, SpdyVersion
<1>. HIDE DEF t, l, s1, s2
<1>6. Byte \div 2 \in Nat /\ 3 \in Nat
  BY HalfByte
<1>7. /\ Has(h, 8) /\ h[1] = Byte \div 2 /\ h[2] = 3 /\ h[5] = flags
      /\ SubSeq(h, 3, 4) = t /\ SubSeq(h, 6, 8) = l
  BY <1>3, <1>4, <1>5, <1>6, ControlHeaderBytes
<1>8. IsControl(h)
  BY <1>7, HalfByte DEF IsControl
<1>9. Version(h) = SpdyVersion
  <2>1. Version(h) = Number(<<0, 3>>)
    BY <1>7, HalfByte DEF Version
  <2>2. Number(<<0, 3>>) = (0 * Byte) + 3
    BY Number2
  <2>. QED
    BY <2>1, <2>2, HalfByte DEF SpdyVersion
<1>10. Len(h) = 8 /\ h \in Seq(Nat)
  BY <1>7 DEF Has
<1>. QED
  BY <1>2, <1>7, <1>8, <1>9, <1>10 DEF PayloadLength

(* The top byte of four.                                                   *)
LEMMA BigEndianTop ==
  ASSUME NEW n \in Nat
  PROVE  BigEndian(n, 4)[1] = (n \div Power[3]) % Byte
BY DEF BigEndian

(* The first byte of a piece.                                              *)
LEMMA AtFirst ==
  ASSUME NEW s, NEW m, NEW t, NEW w \in Nat \ {0}, Has(t, w), At(s, m, t)
  PROVE  s[m] = t[1]
<1>1. m \in Nat /\ w \in Nat \ {0} /\ Len(t) = w /\ \A i \in 1..Len(t) : s[m - 1 + i] = t[i]
  BY DEF Has, At
<1>2. 1 \in 1..Len(t) /\ m - 1 + 1 = m
  BY <1>1
<1>3. s[m - 1 + 1] = t[1]
  BY <1>1, <1>2
<1>. QED
  BY <1>2, <1>3

(* The places in a sequence that is written in three parts.                *)
LEMMA ThreeParts ==
  ASSUME NEW s, NEW a, Has(s, a), NEW f, NEW c, Has(f, c), NEW l, NEW d, Has(l, d),
         NEW s1, JoinedOf(s1, s, f), NEW h, JoinedOf(h, s1, l)
  PROVE  /\ Has(h, a + c + d)
         /\ At(h, 1, s) /\ At(h, a + 1, f) /\ At(h, a + c + 1, l)
<1>1. At(s, 1, s)
  BY AtAll DEF Has
<1>2. Has(s1, a + c) /\ At(s1, a + 1, f) /\ \A k, v : At(s, k, v) => At(s1, k, v)
  BY Joined
<1>3. Has(h, a + c + d) /\ At(h, a + c + 1, l) /\ \A k, v : At(s1, k, v) => At(h, k, v)
  BY <1>2, Joined
<1>. QED
  BY <1>1, <1>2, <1>3

LEMMA DataHeaderPlaces ==
  ASSUME NEW t, Has(t, 4), NEW c \in Nat, NEW l, Has(l, 3),
         NEW s1, JoinedOf(s1, t, <<c>>), NEW h, JoinedOf(h, s1, l)
  PROVE  Has(h, 8) /\ At(h, 1, t) /\ h[5] = c /\ At(h, 6, l)
<1>1. Has(<<c>>, 1)
  BY OneByte
<1>2. Has(h, 4 + 1 + 3) /\ At(h, 1, t) /\ At(h, 4 + 1, <<c>>) /\ At(h, 4 + 1 + 1, l)
  BY <1>1, ThreeParts
<1>3. Has(h, 8) /\ At(h, 5, <<c>>) /\ At(h, 6, l)
  BY <1>2
<1>4. h[5] = c
  BY <1>3, AtByte
<1>. QED
  BY <1>2, <1>3, <1>4

(* The first byte of a masked id is below the bit that marks control       *)
(* frames.                                                                 *)
LEMMA MaskedTopByte ==
  ASSUME NEW n \in Nat
  PROVE  U32(Mask31(n))[1] < Byte \div 2
<1>. DEFINE h == Byte \div 2
            c == Byte * (Byte * Byte)
            k == Mask31(n)
            q == k \div c
<1>1. k \in Nat /\ k < h * c
  BY Mask
<1>2. h \in Nat \ {0} /\ Byte \in Nat \ {0} /\ h < Byte
  BY HalfByte
<1>3. c \in Nat \ {0}
  BY <1>2, DivMul
<1>4. U32(k)[1] = q % Byte
  BY <1>1, Powers, BigEndianTop DEF U32
<1>. HIDE DEF c, k, h
<1>5. h * c = c * h
  BY <1>2, <1>3
<1>6. q \in Nat /\ q < h
  BY <1>1, <1>2, <1>3, <1>5, DivMod, DivBound
<1>. HIDE DEF q
<1>7. q < Byte
  BY <1>2, <1>6
<1>8. q % Byte = q
  BY <1>2, <1>6, <1>7, ModSmall
<1>. QED
  BY <1>4, <1>6, <1>8 DEF k, h

LEMMA HasBytes ==
  ASSUME NEW n \in Nat, NEW width \in 1..4
  PROVE  Has(BigEndian(n, width), width)
<1>1. BigEndian(n, width) \in Seq(Nat) /\ Len(BigEndian(n, width)) = width
  BY BigEndianType
<1>2. width \in Nat
  OBVIOUS
<1>. QED
  BY <1>1, <1>2 DEF Has

LEMMA FirstByte ==
  ASSUME NEW s, NEW n \in Nat \ {0}, Has(s, n)
  PROVE  s[1] \in Nat
BY DEF Has

(* Likewise of a data frame: the reader does not take it for a control     *)
(* frame and reads the id it was sent with, save for the reserved bit.     *)
THEOREM DataHeaderReadBack ==
  ASSUME NEW f, f.stream_id \in Nat, f.flags \in Nat,
         f.data \in Seq(Nat), Len(f.data) < Power[3],
         NEW h, h = DataHeader(f)
  PROVE  /\ Len(h) = 8 /\ h \in Seq(Nat)
         /\ ~IsControl(h)
         /\ Number(SubSeq(h, 1, 4)) = Mask31(f.stream_id)
         /\ h[5] = f.flags
         /\ PayloadLength(h) = Len(f.data)
<1>. DEFINE id == Mask31(f.stream_id)
            t  == U32(id)
            l  == BigEndian(Len(f.data), 3)
            s1 == t \o <<f.flags>>
<1>1. id \in Nat /\ id < Power[4] /\ Len(f.data) \in Nat
  BY Mask, LenProperties
<1>2. t[1] < Byte \div 2
  BY MaskedTopByte
<1>. HIDE DEF id
<1>3. Number(t) = id /\ Number(l) = Len(f.data)
  BY <1>1, NumberOfBigEndian DEF U32
<1>4. Has(t, 4) /\ Has(l, 3)
  <2>1. 4 \in 1..4 /\ 3 \in 1..4
    OBVIOUS
  <2>. QED
    BY <2>1, <1>1, HasBytes, Zenon DEF U32
<1>6. JoinedOf(s1, t, <<f.flags>>) /\ JoinedOf(h, s1, l)
  BY DEF JoinedOf, DataHeader, id
<1>. HIDE DEF t, l, s1
<1>7. Has(h, 8) /\ At(h, 1, t) /\ h[5] = f.flags /\ At(h, 6, l)
  BY <1>4, <1>6, DataHeaderPlaces
<1>8. SubSeq(h, 1, 4) = t /\ SubSeq(h, 6, 8) = l
  <2>1. Piece(h, 1, 4) = t /\ Piece(h, 6, 3) = l
    BY <1>4, <1>7, AtPiece
  <2>. QED
    BY <2>1 DEF Piece
<1>9. h[1] = t[1]
  BY <1>4, <1>7, AtFirst
<1>10. h[1] \in Nat /\ Byte \div 2 \in Nat
  <2>1. h[1] \in Nat
    BY <1>7, FirstByte
  <2>. QED
    BY <2>1, HalfByte
<1>11. ~IsControl(h)
  BY <1>2, <1>9, <1>10 DEF IsControl
<1>12. Len(h) = 8 /\ h \in Seq(Nat)
  BY <1>7 DEF Has
<1>. QED
  BY <1>3, <1>7, <1>8, <1>11, <1>12 DEF PayloadLength, id

----------------------------------------------------------------------------
(* Payloads.                                                               *)

LEMMA WordType ==
  ASSUME NEW n
  PROVE  /\ n \in Word32 => n \in Nat /\ n < Power[4]
         /\ n \in Nat => Mask31(n) \in Word32
         /\ Power[4] \in Nat
<1>1. Power[4] \in Nat
  BY Powers
<1>2. n \in Nat => Mask31(n) \in Nat /\ Mask31(n) < Power[4]
  BY Mask
<1>. QED
  BY <1>1, <1>2 DEF Word32

(* A number written into a word of the payload is read from it.            *)
LEMMA WordBack ==
  ASSUME NEW n \in Word32
  PROVE  /\ Has(U32(n), 4)
         /\ \A p : At(p, 1, U32(n)) => Word(p, 0) = n
         /\ \A p : At(p, 5, U32(n)) => Word(p, 1) = n
<1>. DEFINE t == U32(n)
<1>1. n \in Nat /\ n < Power[4]
  BY WordType
<1>2. Number(t) = n
  BY <1>1, NumberOfBigEndian DEF U32
<1>3. Has(t, 4)
  BY <1>1, BigEndianType DEF Has, U32
<1>. HIDE DEF t
<1>4. ASSUME NEW p, At(p, 1, t) PROVE Word(p, 0) = n
  <2>1. Piece(p, 1, 4) = t
    BY <1>3, <1>4, AtPiece
  <2>2. SubSeq(p, 4 * 0 + 1, 4 * 0 + 4) = t
    BY <2>1 DEF Piece
  <2>. QED
    BY <2>2, <1>2 DEF Word
<1>5. ASSUME NEW p, At(p, 5, t) PROVE Word(p, 1) = n
  <2>1. Piece(p, 5, 4) = t
    BY <1>3, <1>5, AtPiece
  <2>2. SubSeq(p, 4 * 1 + 1, 4 * 1 + 4) = t
    BY <2>1 DEF Piece
  <2>. QED
    BY <2>2, <1>2 DEF Word
<1>. QED
  BY <1>3, <1>4, <1>5 DEF t

(* A payload of one word, of two words.                                    *)
LEMMA OneWord ==
  ASSUME NEW a \in Word32
  PROVE  Has(U32(a), 4) /\ Word(U32(a), 0) = a
<1>1. Has(U32(a), 4)
  BY WordBack
<1>2. At(U32(a), 1, U32(a))
  BY <1>1, AtAll DEF Has
<1>. QED
  BY <1>1, <1>2, WordBack

LEMMA TwoWords ==
  ASSUME NEW a \in Word32, NEW b \in Word32, NEW p, JoinedOf(p, U32(a), U32(b))
  PROVE  Has(p, 8) /\ Word(p, 0) = a /\ Word(p, 1) = b
<1>1. Has(U32(a), 4) /\ Has(U32(b), 4)
  BY WordBack
<1>2. At(U32(a), 1, U32(a))
  BY <1>1, AtAll DEF Has
<1>3. Has(p, 4 + 4) /\ At(p, 4 + 1, U32(b)) /\ At(p, 1, U32(a))
  BY <1>1, <1>2, Joined
<1>4. Has(p, 8) /\ At(p, 5, U32(b))
  BY <1>3
<1>. QED
  BY <1>3, <1>4, WordBack

(* What is left behind the first w bytes.                                  *)
LEMMA AtRest ==
  ASSUME NEW p, NEW w \in Nat, NEW t, NEW d, Has(t, d), Has(p, w + d), At(p, w + 1, t)
  PROVE  SubSeq(p, w + 1, Len(p)) = t
<1>1. Len(p) = (w + 1) + Len(t) - 1
  BY DEF Has
<1>2. \A k : k = (w + 1) + Len(t) - 1 => SubSeq(p, w + 1, k) = t
  BY AtSubSeq, Zenon
<1>. QED
  BY <1>1, <1>2, Zenon

(* Bytes, n of them or more.                                               *)
AtLeast(p, n) == p \in Seq(Nat) /\ Len(p) \in Nat /\ Len(p) >= n

(* A word and the header block behind it.                                  *)
LEMMA WordAndBlock ==
  ASSUME NEW a \in Word32, NEW block \in Seq(Nat), NEW p, JoinedOf(p, U32(a), block)
  PROVE  /\ p \in Seq(Nat) /\ Len(p) \in Nat /\ Len(p) >= 4
         /\ Word(p, 0) = a
         /\ SubSeq(p, 4 + 1, Len(p)) = block
<1>. DEFINE d == Len(block)
<1>1. Has(U32(a), 4) /\ Has(block, d)
  BY WordBack, LenProperties DEF Has
<1>2. d \in Nat
  BY LenProperties
<1>. HIDE DEF d
<1>3. At(U32(a), 1, U32(a))
  BY <1>1, AtAll DEF Has
<1>4. Has(p, 4 + d) /\ At(p, 4 + 1, block) /\ At(p, 1, U32(a))
  BY <1>1, <1>3, Joined
<1>5. Word(p, 0) = a
  BY <1>4, WordBack
<1>6. SubSeq(p, 4 + 1, Len(p)) = block
  BY <1>1, <1>4, AtRest
<1>7. p \in Seq(Nat) /\ Len(p) = 4 + d
  BY <1>4 DEF Has
<1>. QED
  BY <1>2, <1>5, <1>6, <1>7

(* Two words, the priority, an unused byte and the header block.           *)
LEMMA SynStreamPlaces ==
  ASSUME NEW a \in Word32, NEW b \in Word32, NEW c \in Nat, NEW block \in Seq(Nat),
         NEW s1, JoinedOf(s1, U32(a), U32(b)), NEW s2, JoinedOf(s2, s1, <<c, 0>>),
         NEW p, JoinedOf(p, s2, block)
  PROVE  /\ AtLeast(p, 10)
         /\ Word(p, 0) = a /\ Word(p, 1) = b /\ p[9] = c
         /\ SubSeq(p, 10 + 1, Len(p)) = block
<1>. DEFINE d == Len(block)
<1>1. Has(U32(a), 4) /\ Has(U32(b), 4) /\ Has(block, d)
  BY WordBack, LenProperties DEF Has
<1>2. d \in Nat
  BY LenProperties
<1>. HIDE DEF d
<1>3. At(U32(a), 1, U32(a))
  BY <1>1, AtAll DEF Has
<1>4. Has(<<c, 0>>, 2) /\ At(<<c, 0>>, 1, <<c>>)
  BY TwoBytes
<1>5. /\ Has(p, 4 + 4 + 2 + d)
      /\ At(p, 4 + 1, U32(b)) /\ At(p, 4 + 4 + 1, <<c, 0>>) /\ At(p, 4 + 4 + 2 + 1, block)
      /\ \A k, v : At(U32(a), k, v) => At(p, k, v)
  BY <1>1, <1>4, FourParts
<1>6. Has(p, 10 + d) /\ At(p, 5, U32(b)) /\ At(p, 9, <<c, 0>>) /\ At(p, 10 + 1, block)
  BY <1>2, <1>5
<1>7. At(p, 1, U32(a))
  BY <1>3, <1>5
<1>8. Word(p, 0) = a /\ Word(p, 1) = b
  BY <1>6, <1>7, WordBack
<1>9. p[9] = <<c, 0>>[1]
  BY <1>4, <1>6, AtFirst
<1>10. SubSeq(p, 10 + 1, Len(p)) = block
  BY <1>1, <1>6, AtRest
<1>11. p \in Seq(Nat) /\ Len(p) = 10 + d
  BY <1>6 DEF Has
<1>. QED
  BY <1>2, <1>8, <1>9, <1>10, <1>11 DEF AtLeast

(* The three bits of a priority survive being the upper bits of a byte.    *)
LEMMA PriorityBack ==
  ASSUME NEW n \in Nat
  PROVE  EncodePriority(n) \in Nat /\ (EncodePriority(n) \div (Byte \div 8)) % 8 = n % 8
<1>. DEFINE e == Byte \div 8
            r == n % 8
<1>1. e \in Nat \ {0} /\ r \in 0..7
  BY HalfByte
<1>2. EncodePriority(n) = r * e
  BY DEF EncodePriority
<1>. HIDE DEF e, r
<1>3. \A x \in 0..7, y \in Nat \ {0} : x * y \in Nat /\ (x * y) \div y = x
  OBVIOUS
<1>4. r % 8 = r
  BY <1>1
<1>. QED
  BY <1>1, <1>2, <1>3, <1>4 DEF e, r

(* What ParsePayload makes of what EncodePayload wrote is the frame as the *)
(* wire can carry it, and the parser does not refuse it; the block it hands *)
(* to the decompressor is the one the compressor made.                     *)
LEMMA SynStreamBack ==
  ASSUME NEW Headers, NEW f \in SynStreams(Headers),
         NEW block \in Seq(Nat), NEW p, p = EncodePayload(f, block)
  PROVE  /\ p \in Seq(Nat)
         /\ ~Refused("SYN_STREAM", p)
         /\ SubSeq(p, 10 + 1, Len(p)) = block
         /\ ParsePayload("SYN_STREAM", f.flags, p, f.headers) = OnTheWire(f)
<1>. DEFINE a  == Mask31(f.stream_id)
            b  == Mask31(f.associated_stream_id)
            c  == EncodePriority(f.priority)
            s1 == U32(a) \o U32(b)
            s2 == s1 \o <<c, 0>>
<1>1. /\ f.stream_id \in Word32 /\ f.associated_stream_id \in Word32 /\ f.priority \in Octet
      /\ f.type = "SYN_STREAM"
      /\ f = [type |-> "SYN_STREAM", stream_id |-> f.stream_id,
              associated_stream_id |-> f.associated_stream_id, priority |-> f.priority,
              headers |-> f.headers, flags |-> f.flags]
  BY DEF SynStreams
<1>2. /\ f.stream_id \in Nat /\ f.associated_stream_id \in Nat
      /\ a \in Word32 /\ b \in Word32
      /\ Mask31(a) = a /\ Mask31(b) = b
  BY <1>1, WordType, Mask
<1>3. c \in Nat /\ (c \div (Byte \div 8)) % 8 = f.priority % 8
  <2>1. f.priority \in Nat
    BY <1>1, HalfByte DEF Octet
  <2>. QED
    BY <2>1, PriorityBack
<1>4. JoinedOf(s1, U32(a), U32(b)) /\ JoinedOf(s2, s1, <<c, 0>>) /\ JoinedOf(p, s2, block)
  BY <1>1 DEF JoinedOf, EncodePayload
<1>5. OnTheWire(f) = [type |-> "SYN_STREAM", stream_id |-> a, associated_stream_id |-> b,
                      priority |-> f.priority % 8, headers |-> f.headers, flags |-> f.flags]
  BY <1>1 DEF OnTheWire
<1>. HIDE DEF a, b, c, s1, s2
<1>6. /\ AtLeast(p, 10)
      /\ Word(p, 0) = a /\ Word(p, 1) = b /\ p[9] = c
      /\ SubSeq(p, 10 + 1, Len(p)) = block
  BY <1>2, <1>3, <1>4, SynStreamPlaces
<1>7. ~Refused("SYN_STREAM", p)
  BY <1>6 DEF Refused, MinPayload, AtLeast
<1>8. ParsePayload("SYN_STREAM", f.flags, p, f.headers)
        = [type |-> "SYN_STREAM", stream_id |-> a, associated_stream_id |-> b,
           priority |-> f.priority % 8, headers |-> f.headers, flags |-> f.flags]
  BY <1>2, <1>3, <1>6 DEF ParsePayload
<1>. QED
  BY <1>5, <1>6, <1>7, <1>8 DEF AtLeast

LEMMA WordAndBlockBack ==
  ASSUME NEW Headers, NEW f \in HeaderFrames(Headers),
         NEW block \in Seq(Nat), NEW p, p = EncodePayload(f, block)
  PROVE  /\ p \in Seq(Nat)
         /\ ~Refused(f.type, p)
         /\ SubSeq(p, 4 + 1, Len(p)) = block
         /\ ParsePayload(f.type, f.flags, p, f.headers) = OnTheWire(f)
<1>. DEFINE a == Mask31(f.stream_id)
<1>1. /\ f.stream_id \in Word32
      /\ f.type \in {"SYN_REPLY", "HEADERS"}
      /\ f = [type |-> f.type, stream_id |-> f.stream_id, headers |-> f.headers, flags |-> f.flags]
  BY DEF HeaderFrames
<1>2. f.stream_id \in Nat /\ a \in Word32 /\ Mask31(a) = a
  BY <1>1, WordType, Mask
<1>3. JoinedOf(p, U32(a), block)
  BY <1>1 DEF JoinedOf, EncodePayload
<1>4. OnTheWire(f) = [type |-> f.type, stream_id |-> a, headers |-> f.headers, flags |-> f.flags]
  BY <1>1 DEF OnTheWire
<1>. HIDE DEF a
<1>5. /\ p \in Seq(Nat) /\ Len(p) \in Nat /\ Len(p) >= 4
      /\ Word(p, 0) = a
      /\ SubSeq(p, 4 + 1, Len(p)) = block
  BY <1>2, <1>3, WordAndBlock
<1>6. ~Refused(f.type, p)
  BY <1>1, <1>5 DEF Refused, MinPayload
<1>7. ParsePayload(f.type, f.flags, p, f.headers)
        = [type |-> f.type, stream_id |-> a, headers |-> f.headers, flags |-> f.flags]
  BY <1>1, <1>2, <1>5 DEF ParsePayload
<1>. QED
  BY <1>4, <1>5, <1>6, <1>7

LEMMA RstStreamBack ==
  ASSUME NEW f \in RstStreams,
         NEW block, NEW p, p = EncodePayload(f, block), NEW flags, NEW headers
  PROVE  /\ p \in Seq(Nat)
         /\ ~Refused("RST_STREAM", p)
         /\ ParsePayload("RST_STREAM", flags, p, headers) = OnTheWire(f)
<1>. DEFINE a == Mask31(f.stream_id)
<1>1. /\ f.stream_id \in Word32 /\ f.status \in 1..11 /\ f.type = "RST_STREAM"
      /\ f = [type |-> "RST_STREAM", stream_id |-> f.stream_id, status |-> f.status]
  BY DEF RstStreams
<1>0. f.status \in Word32
  <2>1. Power[4] \in Nat
    BY WordType
  <2>2. \A x \in Nat : x >= 16 => x <= x * x
    OBVIOUS
  <2>3. Byte * Byte >= 16 /\ Byte * Byte \in Nat /\ Power[4] = Byte * (Byte * (Byte * Byte))
    BY <2>2, Powers, HalfByte
  <2>4. \A x, y \in Nat : x >= 16 /\ y >= 16 => x * y >= 16 /\ x * y \in Nat
    OBVIOUS
  <2>. DEFINE b == Byte * Byte
              c == Byte * b
  <2>5. c >= 16 /\ c \in Nat
    <3>. HIDE DEF b
    <3>. QED
      BY <2>3, <2>4, HalfByte DEF b
  <2>6. Power[4] >= 16
    <3>1. Power[4] = Byte * c
      BY <2>3
    <3>. HIDE DEF c
    <3>. QED
      BY <3>1, <2>5, <2>4, HalfByte
  <2>. QED
    BY <1>1, <2>1, <2>6 DEF Word32
<1>2. f.stream_id \in Nat /\ a \in Word32 /\ Mask31(a) = a
  BY <1>1, WordType, Mask
<1>3. JoinedOf(p, U32(a), U32(f.status))
  BY <1>1 DEF JoinedOf, EncodePayload
<1>4. OnTheWire(f) = [type |-> "RST_STREAM", stream_id |-> a, status |-> f.status]
  BY <1>1 DEF OnTheWire
<1>. HIDE DEF a
<1>5. p \in Seq(Nat) /\ Len(p) = 8 /\ Word(p, 0) = a /\ Word(p, 1) = f.status
  BY <1>0, <1>2, <1>3, TwoWords DEF Has
<1>6. ~Refused("RST_STREAM", p)
  BY <1>1, <1>5 DEF Refused, MinPayload, KnownRstStatus
<1>7. ParsePayload("RST_STREAM", flags, p, headers)
        = [type |-> "RST_STREAM", stream_id |-> a, status |-> f.status]
  BY <1>2, <1>5 DEF ParsePayload
<1>. QED
  BY <1>4, <1>5, <1>6, <1>7

LEMMA PingBack ==
  ASSUME NEW f \in Pings,
         NEW block, NEW p, p = EncodePayload(f, block), NEW flags, NEW headers
  PROVE  /\ p \in Seq(Nat)
         /\ ~Refused("PING", p)
         /\ ParsePayload("PING", flags, p, headers) = OnTheWire(f)
<1>1. f.id \in Word32 /\ f.type = "PING" /\ f = [type |-> "PING", id |-> f.id]
  BY DEF Pings
<1>2. p = U32(f.id)
  BY <1>1 DEF EncodePayload
<1>3. OnTheWire(f) = [type |-> "PING", id |-> f.id]
  BY <1>1 DEF OnTheWire
<1>4. p \in Seq(Nat) /\ Len(p) = 4 /\ Word(p, 0) = f.id
  BY <1>1, <1>2, OneWord DEF Has
<1>5. ~Refused("PING", p)
  BY <1>4 DEF Refused, MinPayload
<1>6. ParsePayload("PING", flags, p, headers) = [type |-> "PING", id |-> f.id]
  BY <1>4 DEF ParsePayload
<1>. QED
  BY <1>3, <1>4, <1>5, <1>6

LEMMA GoAwayBack ==
  ASSUME NEW f \in GoAways,
         NEW block, NEW p, p = EncodePayload(f, block), NEW flags, NEW headers
  PROVE  /\ p \in Seq(Nat)
         /\ ~Refused("GOAWAY", p)
         /\ ParsePayload("GOAWAY", flags, p, headers) = OnTheWire(f)
<1>. DEFINE a == Mask31(f.last_good_stream_id)
            g == GoAwayStatusOf(f.status)
<1>1. /\ f.last_good_stream_id \in Word32 /\ f.status \in Word32 /\ f.type = "GOAWAY"
      /\ f = [type |-> "GOAWAY", last_good_stream_id |-> f.last_good_stream_id,
              status |-> f.status]
  BY DEF GoAways
<1>2. f.last_good_stream_id \in Nat /\ a \in Word32 /\ Mask31(a) = a
  BY <1>1, WordType, Mask
<1>3. JoinedOf(p, U32(a), U32(f.status))
  BY <1>1 DEF JoinedOf, EncodePayload
<1>4. OnTheWire(f) = [type |-> "GOAWAY", last_good_stream_id |-> a, status |-> g]
  BY <1>1 DEF OnTheWire
<1>5. p \in Seq(Nat) /\ Len(p) = 8 /\ Word(p, 0) = a /\ GoAwayStatusOf(Word(p, 1)) = g
  BY <1>1, <1>2, <1>3, TwoWords DEF Has
<1>. HIDE DEF a, g
<1>6. ~Refused("GOAWAY", p)
  BY <1>5 DEF Refused, MinPayload
<1>7. ParsePayload("GOAWAY", flags, p, headers)
        = [type |-> "GOAWAY", last_good_stream_id |-> a, status |-> g]
  BY <1>2, <1>5 DEF ParsePayload
<1>. QED
  BY <1>4, <1>5, <1>6, <1>7

LEMMA WindowUpdateBack ==
  ASSUME NEW f \in WindowUpdates,
         NEW block, NEW p, p = EncodePayload(f, block), NEW flags, NEW headers
  PROVE  /\ p \in Seq(Nat)
         /\ ~Refused("WINDOW_UPDATE", p)
         /\ ParsePayload("WINDOW_UPDATE", flags, p, headers) = OnTheWire(f)
<1>. DEFINE a == Mask31(f.stream_id)
            b == Mask31(f.delta)
<1>1. /\ f.stream_id \in Word32 /\ f.delta \in Word32 /\ f.type = "WINDOW_UPDATE"
      /\ f = [type |-> "WINDOW_UPDATE", stream_id |-> f.stream_id, delta |-> f.delta]
  BY DEF WindowUpdates
<1>2. /\ f.stream_id \in Nat /\ a \in Word32 /\ Mask31(a) = a
      /\ f.delta \in Nat /\ b \in Word32 /\ Mask31(b) = b
  BY <1>1, WordType, Mask
<1>3. JoinedOf(p, U32(a), U32(b))
  BY <1>1 DEF JoinedOf, EncodePayload
<1>4. OnTheWire(f) = [type |-> "WINDOW_UPDATE", stream_id |-> a, delta |-> b]
  BY <1>1 DEF OnTheWire
<1>. HIDE DEF a, b
<1>5. p \in Seq(Nat) /\ Len(p) = 8 /\ Word(p, 0) = a /\ Word(p, 1) = b
  BY <1>2, <1>3, TwoWords DEF Has
<1>6. ~Refused("WINDOW_UPDATE", p)
  BY <1>5 DEF Refused, MinPayload
<1>7. ParsePayload("WINDOW_UPDATE", flags, p, headers)
        = [type |-> "WINDOW_UPDATE", stream_id |-> a, delta |-> b]
  BY <1>2, <1>5 DEF ParsePayload
<1>. QED
  BY <1>4, <1>5, <1>6, <1>7


(* off[k]: bytes of s before the (k + 1)-th piece of q.                    *)
Places(off, q, s) ==
  /\ off \in [0..Len(q) -> Nat] /\ off[0] = 0
  /\ Has(s, off[Len(q)])
  /\ \A k \in 1..Len(q) : off[k] = off[k - 1] + Len(q[k]) /\ At(s, off[k - 1] + 1, q[k])

(* They are its pieces.                                                    *)
LEMMA PlacesArePieces ==
  ASSUME NEW q, NEW s, NEW off, Places(off, q, s)
  PROVE  Pieces(off, q, s)
<1>1. /\ off \in [0..Len(q) -> Nat] /\ off[0] = 0 /\ Len(s) = off[Len(q)]
      /\ \A k \in 1..Len(q) : off[k] = off[k - 1] + Len(q[k]) /\ At(s, off[k - 1] + 1, q[k])
  BY DEF Places, Has
<1>2. ASSUME NEW k \in 1..Len(q), NEW i \in 1..Len(q[k]) PROVE s[off[k - 1] + i] = q[k][i]
  <2>1. At(s, off[k - 1] + 1, q[k])
    BY <1>1
  <2>2. \A x : At(s, x + 1, q[k]) /\ x \in Int => s[x + i] = q[k][i]
    <3>1. \A x \in Int : (x + 1) - 1 + i = x + i
      OBVIOUS
    <3>. QED
      BY <3>1 DEF At
  <2>3. off[k - 1] \in Int
    <3>1. k - 1 \in 0..Len(q)
      OBVIOUS
    <3>. QED
      BY <1>1, <3>1
  <2>. QED
    BY ONLY <2>1, <2>2, <2>3
<1>. QED
  BY <1>1, <1>2 DEF Pieces

(* Every piece is in the flattening, one behind the other.                 *)
LEMMA FlattenPlaces ==
  ASSUME NEW q \in Seq(Seq(Nat))
  PROVE  \E off : Places(off, q, FlattenSeq(q))
<1>. DEFINE s == FlattenSeq(q)
            Q == Seq(Nat)
<1>1. PICK off : Pieces(off, q, s)
  BY FlattenPieces
<1>2. s \in Seq(Nat) /\ Len(s) \in Nat
  BY FlattenPieces, LenProperties
<1>3. \A k \in 1..Len(q) : q[k] \in Seq(Nat) /\ Len(q[k]) \in Nat
  <2>1. q \in Seq(Q)
    OBVIOUS
  <2>2. \A t \in Q : Len(t) \in Nat
    OBVIOUS
  <2>. HIDE DEF Q
  <2>3. \A k \in 1..Len(q) : q[k] \in Q
    BY <2>1
  <2>. QED
    BY <2>2, <2>3 DEF Q
<1>. HIDE DEF s
<1>4. \A k \in 0..Len(q) : off[k] \in Nat /\ off[k] <= Len(s)
  BY <1>1, PiecesWithin
<1>5. /\ off \in [0..Len(q) -> Nat] /\ off[0] = 0 /\ Len(s) = off[Len(q)]
      /\ \A k \in 1..Len(q) : /\ off[k] = off[k - 1] + Len(q[k])
                              /\ \A i \in 1..Len(q[k]) : s[off[k - 1] + i] = q[k][i]
  BY <1>1 DEF Pieces
<1>6. ASSUME NEW k \in 1..Len(q) PROVE At(s, off[k - 1] + 1, q[k])
  <2>1. k - 1 \in 0..Len(q) /\ k \in 0..Len(q)
    OBVIOUS
  <2>2. off[k - 1] \in Nat /\ off[k] = off[k - 1] + Len(q[k]) /\ off[k] <= Len(s)
    BY <1>4, <1>5, <2>1
  <2>3. (off[k - 1] + 1) + Len(q[k]) <= Len(s) + 1
    BY <1>2, <1>3, <2>2
  <2>4. ASSUME NEW i \in 1..Len(q[k]) PROVE s[(off[k - 1] + 1) - 1 + i] = q[k][i]
    <3>1. (off[k - 1] + 1) - 1 + i = off[k - 1] + i
      BY <2>2
    <3>. QED
      BY <1>5, <3>1
  <2>. QED
    BY <1>2, <1>3, <2>2, <2>3, <2>4, SMTT(30) DEF At
<1>7. Has(s, off[Len(q)])
  BY <1>2, <1>5 DEF Has
<1>8. Places(off, q, s)
  BY <1>5, <1>6, <1>7 DEF Places
<1>. QED
  BY <1>8 DEF s

(* What is in a piece of s is in s.                                        *)
LEMMA AtWithin ==
  ASSUME NEW s, NEW m, NEW t, At(s, m, t), NEW k, NEW v, At(t, k, v)
  PROVE  At(s, m - 1 + k, v)
<1>1. /\ s \in Seq(Nat) /\ t \in Seq(Nat) /\ m \in Nat \ {0}
      /\ m + Len(t) <= Len(s) + 1 /\ Len(s) \in Nat /\ Len(t) \in Nat
      /\ \A i \in 1..Len(t) : s[m - 1 + i] = t[i]
  BY LenProperties DEF At
<1>2. /\ v \in Seq(Nat) /\ k \in Nat \ {0} /\ k + Len(v) <= Len(t) + 1 /\ Len(v) \in Nat
      /\ \A i \in 1..Len(v) : t[k - 1 + i] = v[i]
  BY LenProperties DEF At
<1>3. ASSUME NEW i \in 1..Len(v) PROVE s[(m - 1 + k) - 1 + i] = v[i]
  <2>1. k - 1 + i \in 1..Len(t)
    BY <1>1, <1>2
  <2>2. s[m - 1 + (k - 1 + i)] = t[k - 1 + i] /\ t[k - 1 + i] = v[i]
    BY <1>1, <1>2, <2>1
  <2>3. m - 1 + (k - 1 + i) = (m - 1 + k) - 1 + i
    BY <1>1, <1>2
  <2>. QED
    BY <2>2, <2>3
<1>4. m - 1 + k \in Nat \ {0} /\ (m - 1 + k) + Len(v) <= Len(s) + 1
  BY <1>1, <1>2
<1>. QED
  BY <1>1, <1>2, <1>3, <1>4 DEF At

(* A number written as the k-th word of p is read from there.              *)
LEMMA WordAt ==
  ASSUME NEW n \in Word32, NEW k \in Nat, NEW p, At(p, 4 * k + 1, U32(n))
  PROVE  Word(p, k) = n
<1>. DEFINE t == U32(n)
            m == 4 * k + 1
<1>1. Number(t) = n
  BY WordType, NumberOfBigEndian DEF U32
<1>2. Has(t, 4)
  BY WordBack
<1>. HIDE DEF t
<1>3. Piece(p, m, 4) = t
  <2>. HIDE DEF m
  <2>. QED
    BY <1>2, AtPiece DEF t, m
<1>4. m + 4 - 1 = 4 * k + 4
  OBVIOUS
<1>. QED
  BY <1>1, <1>3, <1>4 DEF Piece, Word

(* A setting's first word holds its flags above the 24 bits of its id.     *)
LEMMA SettingWord ==
  ASSUME NEW flags \in 0..(Byte - 1), NEW id \in Nat, NEW a, a = (flags * Power[3]) + (id % Power[3])
  PROVE  a \in Word32 /\ a \div Power[3] = flags /\ a % Power[3] = id % Power[3]
<1>. DEFINE b == Power[3]
            r == id % b
<1>1. b \in Nat \ {0} /\ Power[4] = Byte * b /\ Byte \in Nat \ {0} /\ flags \in Nat
  <2>1. Byte \in Nat \ {0} /\ Byte * Byte \in Nat \ {0}
    BY Powers, DivMul
  <2>2. Byte * (Byte * Byte) \in Nat \ {0}
    BY <2>1, DivMul
  <2>. QED
    BY <2>1, <2>2, Powers
<1>. HIDE DEF b
<1>2. r \in 0..(b - 1)
  BY <1>1, DivMod
<1>. HIDE DEF r
<1>3. a = (flags * b) + r
  BY DEF b, r
<1>4. \A x \in Nat, y \in Nat \ {0}, z \in Nat :
        z < y => ((x * y) + z) \div y = x /\ ((x * y) + z) % y = z
  OBVIOUS
<1>5. r \in Nat /\ r < b
  BY <1>1, <1>2
<1>6. a \div b = flags /\ a % b = r
  BY <1>1, <1>3, <1>4, <1>5
<1>7. \A x \in Nat, y \in Nat \ {0}, z \in Nat, w \in Nat :
        z < y /\ x + 1 <= w => (x * y) + z \in Nat /\ (x * y) + z < w * y
  <2>. SUFFICES ASSUME NEW x \in Nat, NEW y \in Nat \ {0}, NEW z \in Nat, NEW w \in Nat,
                       z < y, x + 1 <= w
                PROVE  (x * y) + z \in Nat /\ (x * y) + z < w * y
    OBVIOUS
  <2>1. (x + 1) * y <= w * y
    OBVIOUS
  <2>2. (x + 1) * y = (x * y) + y /\ x * y \in Nat /\ w * y \in Nat
    OBVIOUS
  <2>. QED
    BY <2>1, <2>2
<1>8. a \in Nat /\ a < Byte * b
  <2>1. flags + 1 <= Byte
    BY <1>1
  <2>. QED
    BY <2>1, <1>1, <1>3, <1>5, <1>7
<1>9. a \in Word32
  <2>1. Byte * b \in Nat
    BY <1>1, DivMul
  <2>. QED
    BY <2>1, <1>1, <1>8 DEF Word32
<1>. QED
  BY <1>6, <1>9 DEF b, r

Entry(e)     == U32((e.flags * Power[3]) + (e.id % Power[3])) \o U32(e.value)

LEMMA EntryPlaces ==
  ASSUME NEW e \in SettingEntry
  PROVE  /\ Has(Entry(e), 8)
         /\ At(Entry(e), 1, U32((e.flags * Power[3]) + (e.id % Power[3])))
         /\ At(Entry(e), 5, U32(e.value))
<1>. DEFINE a == (e.flags * Power[3]) + (e.id % Power[3])
<1>1. e.flags \in 0..(Byte - 1) /\ e.id \in Word32 /\ e.value \in Word32 /\ e.id \in Nat
  BY WordType DEF SettingEntry, Octet
<1>2. a \in Word32
  BY <1>1, SettingWord
<1>. HIDE DEF a
<1>3. Has(U32(a), 4) /\ Has(U32(e.value), 4)
  BY <1>1, <1>2, WordBack
<1>4. JoinedOf(Entry(e), U32(a), U32(e.value))
  BY DEF JoinedOf, Entry, a
<1>5. At(U32(a), 1, U32(a))
  BY <1>3, AtAll DEF Has
<1>6. Has(Entry(e), 4 + 4) /\ At(Entry(e), 4 + 1, U32(e.value)) /\ At(Entry(e), 1, U32(a))
  BY <1>3, <1>4, <1>5, Joined
<1>. QED
  BY <1>6 DEF a

(* Pieces of the same length.                                              *)
AllLong(q, w) == \A k \in 1..Len(q) : Len(q[k]) = w

LEMMA EqualPlaces ==
  ASSUME NEW q \in Seq(Seq(Nat)), NEW w \in Nat, AllLong(q, w), NEW s, NEW off, Places(off, q, s)
  PROVE  \A k \in 0..Len(q) : off[k] = w * k
<1>. DEFINE n == Len(q)
            T == {k \in Nat : k \in 0..n => off[k] = w * k}
<1>1. n \in Nat /\ off[0] = 0 /\ \A k \in 1..n : off[k] = off[k - 1] + w
  BY LenProperties DEF Places, AllLong
<1>. HIDE DEF n
<1>2. 0 \in T
  BY <1>1
<1>3. ASSUME NEW k \in T \cap Nat PROVE k + 1 \in T
  <2>. SUFFICES ASSUME k + 1 \in 0..n PROVE off[k + 1] = w * (k + 1)
    OBVIOUS
  <2>1. k \in Nat /\ k \in 0..n /\ k + 1 \in 1..n /\ (k + 1) - 1 = k
    BY <1>1
  <2>2. off[k] = w * k
    BY <2>1
  <2>3. off[k + 1] = off[k] + w
    BY <1>1, <2>1
  <2>4. w * (k + 1) = (w * k) + w
    BY <2>1
  <2>. QED
    BY <2>2, <2>3, <2>4
<1>. HIDE DEF T
<1>4. Nat \subseteq T
  BY <1>2, <1>3, NatInductionSet
<1>. QED
  BY <1>4 DEF T, n

(* The count, and the entries behind it, each at its place.                *)
LEMMA SettingsPlaces ==
  ASSUME NEW s \in Seq(SettingEntry), Len(s) \in Word32,
         NEW p, p = U32(Len(s)) \o FlattenSeq([i \in DOMAIN s |-> Entry(s[i])])
  PROVE  /\ Has(p, 4 + (8 * Len(s)))
         /\ Word(p, 0) = Len(s)
         /\ \A i \in 1..Len(s) :
              /\ Word(p, 2 * i - 1) = (s[i].flags * Power[3]) + (s[i].id % Power[3])
              /\ Word(p, 2 * i) = s[i].value
<1>. DEFINE q == [i \in DOMAIN s |-> Entry(s[i])]
            n == Len(s)
            flat == FlattenSeq(q)
            A(i) == (s[i].flags * Power[3]) + (s[i].id % Power[3])
<1>1. n \in Nat /\ DOMAIN s = 1..n /\ \A i \in 1..n : s[i] \in SettingEntry
  BY LenProperties
<1>2. \A i \in 1..n : /\ Has(Entry(s[i]), 8) /\ At(Entry(s[i]), 1, U32(A(i)))
                      /\ At(Entry(s[i]), 5, U32(s[i].value))
  BY <1>1, EntryPlaces
<1>. HIDE DEF A
<1>3. q \in Seq(Seq(Nat)) /\ Len(q) = n /\ \A i \in 1..n : q[i] = Entry(s[i]) /\ Len(q[i]) = 8
  <2>1. \A i \in 1..n : Entry(s[i]) \in Seq(Nat) /\ Len(Entry(s[i])) = 8
    BY <1>2 DEF Has
  <2>2. q = [i \in 1..n |-> Entry(s[i])]
    BY <1>1
  <2>. HIDE DEF q
  <2>. QED
    BY <1>1, <2>1, <2>2
<1>. HIDE DEF q, n
<1>4. PICK off : Places(off, q, flat)
  BY <1>3, FlattenPlaces
<1>5. \A k \in 0..n : off[k] = 8 * k
  <2>1. 8 \in Nat /\ AllLong(q, 8)
    BY <1>3 DEF AllLong
  <2>2. \A k \in 0..Len(q) : off[k] = 8 * k
    BY <1>3, <1>4, <2>1, EqualPlaces
  <2>. QED
    BY <1>3, <2>2
<1>6. /\ Has(flat, off[n])
      /\ \A k \in 1..n : At(flat, off[k - 1] + 1, q[k])
  BY <1>3, <1>4 DEF Places
<1>. HIDE DEF flat
<1>7. Has(flat, 8 * n)
  <2>1. n \in 0..n
    BY <1>1
  <2>. QED
    BY <2>1, <1>5, <1>6
<1>8. Has(U32(n), 4) /\ At(U32(n), 1, U32(n))
  <2>1. Has(U32(n), 4)
    BY WordBack DEF n
  <2>. QED
    BY <2>1, AtAll DEF Has
<1>9. JoinedOf(p, U32(n), flat)
  BY DEF JoinedOf, flat, n, q
<1>10. Has(p, 4 + (8 * n)) /\ At(p, 4 + 1, flat) /\ At(p, 1, U32(n))
  <2>. DEFINE d == 8 * n
  <2>1. Has(flat, d)
    BY <1>7
  <2>. HIDE DEF d
  <2>2. Has(p, 4 + d) /\ At(p, 4 + 1, flat) /\ At(p, 1, U32(n))
    BY <1>8, <1>9, <2>1, Joined
  <2>. QED
    BY <2>2 DEF d
<1>11. Word(p, 0) = n
  BY <1>10, WordBack DEF n
<1>12. ASSUME NEW i \in 1..n
       PROVE  At(p, 4 * (2 * i - 1) + 1, U32(A(i))) /\ At(p, 4 * (2 * i) + 1, U32(s[i].value))
  <2>1. At(flat, 8 * (i - 1) + 1, q[i])
    <3>1. i - 1 \in 0..n
      BY <1>1
    <3>. QED
      BY <3>1, <1>5, <1>6
  <2>2. At(p, (4 + 1) - 1 + (8 * (i - 1) + 1), q[i])
    BY <1>10, <2>1, AtWithin
  <2>. DEFINE m == (4 + 1) - 1 + (8 * (i - 1) + 1)
  <2>3. i \in Int
    BY <1>1
  <2>4. m - 1 + 1 = 4 * (2 * i - 1) + 1 /\ m - 1 + 5 = 4 * (2 * i) + 1
    BY <2>3
  <2>. HIDE DEF m
  <2>5. At(p, m, Entry(s[i])) /\ At(Entry(s[i]), 1, U32(A(i))) /\ At(Entry(s[i]), 5, U32(s[i].value))
    BY <1>2, <1>3, <2>2 DEF m
  <2>6. At(p, m - 1 + 1, U32(A(i))) /\ At(p, m - 1 + 5, U32(s[i].value))
    BY <2>5, AtWithin, Zenon
  <2>. QED
    BY <2>4, <2>6
<1>13. ASSUME NEW i \in 1..n PROVE Word(p, 2 * i - 1) = A(i) /\ Word(p, 2 * i) = s[i].value
  <2>1. s[i].flags \in 0..(Byte - 1) /\ s[i].id \in Nat /\ s[i].value \in Word32
    BY <1>1, WordType DEF SettingEntry, Octet
  <2>2. A(i) \in Word32
    BY <2>1, SettingWord DEF A
  <2>3. 2 * i - 1 \in Nat /\ 2 * i \in Nat
    BY <1>1
  <2>4. At(p, 4 * (2 * i - 1) + 1, U32(A(i))) /\ At(p, 4 * (2 * i) + 1, U32(s[i].value))
    BY <1>12
  <2>. DEFINE j == 2 * i - 1
              k == 2 * i
  <2>. HIDE DEF j, k
  <2>5. Word(p, j) = A(i) /\ Word(p, k) = s[i].value
    BY <2>1, <2>2, <2>3, <2>4, WordAt DEF j, k
  <2>. QED
    BY <2>5 DEF j, k
<1>. QED
  BY <1>10, <1>11, <1>13 DEF n, A

(* The settings of a frame as the wire carries them.                       *)
LEMMA SettingsOnTheWire ==
  ASSUME NEW f, f.type = "SETTINGS"
  PROVE  OnTheWire(f) = [f EXCEPT !.settings =
           [i \in DOMAIN f.settings |-> [f.settings[i] EXCEPT !.id = f.settings[i].id % Power[3]]]]
BY DEF OnTheWire

LEMMA SettingsBack ==
  ASSUME NEW f \in SettingsFrames, Len(f.settings) \in Word32,
         NEW block, NEW p, p = EncodePayload(f, block), NEW headers
  PROVE  /\ p \in Seq(Nat)
         /\ ~Refused("SETTINGS", p)
         /\ ParsePayload("SETTINGS", f.flags, p, headers) = OnTheWire(f)
<1>. DEFINE s == f.settings
            n == Len(s)
            r == [i \in 1..n |-> [flags |-> s[i].flags, id |-> s[i].id % Power[3], value |-> s[i].value]]
<1>1. /\ s \in Seq(SettingEntry) /\ f.type = "SETTINGS"
      /\ f = [type |-> "SETTINGS", settings |-> s, flags |-> f.flags]
  BY SMTT(30) DEF SettingsFrames
<1>2. p = U32(n) \o FlattenSeq([i \in DOMAIN s |-> Entry(s[i])])
  BY <1>1 DEF EncodePayload, Entry
<1>. HIDE DEF n
<1>3. /\ Has(p, 4 + (8 * n)) /\ Word(p, 0) = n
      /\ \A i \in 1..n :
           /\ Word(p, 2 * i - 1) = (s[i].flags * Power[3]) + (s[i].id % Power[3])
           /\ Word(p, 2 * i) = s[i].value
  BY <1>1, <1>2, SettingsPlaces DEF n
<1>4. n \in Nat /\ DOMAIN s = 1..n /\ \A i \in 1..n : s[i] \in SettingEntry
  BY <1>1, LenProperties DEF n
<1>5. p \in Seq(Nat) /\ Len(p) = 4 + (8 * n)
  BY <1>3 DEF Has
<1>6. ~Refused("SETTINGS", p)
  BY <1>3, <1>4, <1>5 DEF Refused, MinPayload
<1>7. ParseSettings(p) = r
  <2>1. ASSUME NEW i \in 1..n
        PROVE  /\ Word(p, 2 * i - 1) \div Power[3] = s[i].flags
               /\ Word(p, 2 * i - 1) % Power[3] = s[i].id % Power[3]
               /\ Word(p, 2 * i) = s[i].value
    <3>1. s[i].flags \in 0..(Byte - 1) /\ s[i].id \in Nat
      BY <1>4, WordType DEF SettingEntry, Octet
    <3>. QED
      BY <3>1, <1>3, SettingWord, ZenonT(40)
  <2>. QED
    BY <2>1, <1>3 DEF ParseSettings
<1>8. OnTheWire(f) = [type |-> "SETTINGS", settings |-> r, flags |-> f.flags]
  <2>1. ASSUME NEW i \in 1..n
        PROVE  [s[i] EXCEPT !.id = s[i].id % Power[3]]
                 = [flags |-> s[i].flags, id |-> s[i].id % Power[3], value |-> s[i].value]
    <3>1. s[i] = [flags |-> s[i].flags, id |-> s[i].id, value |-> s[i].value]
      BY <1>4 DEF SettingEntry, Octet
    <3>. QED
      BY <3>1
  <2>2. [i \in DOMAIN s |-> [s[i] EXCEPT !.id = s[i].id % Power[3]]] = r
    BY <2>1, <1>4
  <2>3. OnTheWire(f) = [f EXCEPT !.settings = [i \in DOMAIN s |-> [s[i] EXCEPT !.id = s[i].id % Power[3]]]]
    BY <1>1, SettingsOnTheWire
  <2>. HIDE DEF r, s
  <2>. QED
    BY <1>1, <2>2, <2>3
<1>9. ParsePayload("SETTINGS", f.flags, p, headers)
        = [type |-> "SETTINGS", settings |-> ParseSettings(p), flags |-> f.flags]
  BY DEF ParsePayload
<1>. QED
  BY <1>5, <1>6, <1>7, <1>8, <1>9

(* The payload of every control frame is accepted and read back field by   *)
(* field: whatever the ids, the status, the priority, the settings, the    *)
(* block and the flags are, the parse_* function returns the frame its     *)
(* write_* was given, save for what the wire has no room for.  `flags` is  *)
(* the header's byte, `headers` what the block decodes to.                 *)
THEOREM FrameFieldsReadBack ==
  ASSUME NEW Headers, NEW f \in ControlFrames(Headers),
         f.type = "SETTINGS" => Len(f.settings) \in Word32,
         NEW block \in Seq(Nat), NEW p, p = EncodePayload(f, block),
         NEW flags, NEW headers,
         HasBlock(f.type) \/ f.type = "SETTINGS" => flags = f.flags,
         HasBlock(f.type) => headers = f.headers
  PROVE  /\ p \in Seq(Nat)
         /\ ~Refused(f.type, p)
         /\ HasBlock(f.type) => SubSeq(p, MinPayload[f.type] + 1, Len(p)) = block
         /\ ParsePayload(f.type, flags, p, headers) = OnTheWire(f)
<1>1. CASE f \in SynStreams(Headers)
  <2>1. f.type = "SYN_STREAM" /\ HasBlock(f.type) /\ MinPayload[f.type] = 10
    BY <1>1 DEF HasBlock, MinPayload, SynStreams
  <2>. QED
    BY <1>1, <2>1, SynStreamBack
<1>2. CASE f \in HeaderFrames(Headers)
  <2>1. HasBlock(f.type) /\ MinPayload[f.type] = 4
    BY <1>2 DEF HasBlock, MinPayload, HeaderFrames
  <2>. QED
    BY <1>2, <2>1, WordAndBlockBack
<1>3. CASE f \in RstStreams
  <2>1. f.type = "RST_STREAM" /\ ~HasBlock(f.type)
    BY <1>3 DEF HasBlock, RstStreams
  <2>. QED
    BY <1>3, <2>1, RstStreamBack
<1>4. CASE f \in Pings
  <2>1. f.type = "PING" /\ ~HasBlock(f.type)
    BY <1>4 DEF HasBlock, Pings
  <2>. QED
    BY <1>4, <2>1, PingBack
<1>5. CASE f \in GoAways
  <2>1. f.type = "GOAWAY" /\ ~HasBlock(f.type)
    BY <1>5 DEF HasBlock, GoAways
  <2>. QED
    BY <1>5, <2>1, GoAwayBack
<1>6. CASE f \in WindowUpdates
  <2>1. f.type = "WINDOW_UPDATE" /\ ~HasBlock(f.type)
    BY <1>6 DEF HasBlock, WindowUpdates
  <2>. QED
    BY <1>6, <2>1, WindowUpdateBack
<1>7. CASE f \in SettingsFrames
  <2>1. f.type = "SETTINGS" /\ ~HasBlock(f.type)
    BY <1>7 DEF HasBlock, SettingsFrames
  <2>. QED
    BY <1>7, <2>1, SettingsBack
<1>. QED
  BY <1>1, <1>2, <1>3, <1>4, <1>5, <1>6, <1>7 DEF ControlFrames

----------------------------------------------------------------------------
----------------------------------------------------------------------------
(* The order of the names.                                                 *)

(* Before compares byte by byte, the end of a name before every byte.      *)
Digit(a, i) == IF i <= Len(a) THEN a[i] + 1 ELSE 0
Differ(a, b, k) ==
  k \in Nat \ {0} /\ Digit(a, k) < Digit(b, k) /\ \A i \in 1..(k - 1) : Digit(a, i) = Digit(b, i)

LEMMA SamePrefix ==
  ASSUME NEW a \in Seq(Nat), NEW b \in Seq(Nat), NEW m \in Nat, m <= Len(a), m <= Len(b)
  PROVE  SubSeq(a, 1, m) = SubSeq(b, 1, m) <=> \A i \in 1..m : a[i] = b[i]
<1>1. /\ SubSeq(a, 1, m) = [i \in 1..m |-> a[i]]
      /\ SubSeq(b, 1, m) = [i \in 1..m |-> b[i]]
  OBVIOUS
<1>2. ASSUME [i \in 1..m |-> a[i]] = [i \in 1..m |-> b[i]], NEW i \in 1..m PROVE a[i] = b[i]
  <2>1. [j \in 1..m |-> a[j]][i] = [j \in 1..m |-> b[j]][i]
    BY <1>2
  <2>. QED
    BY <2>1
<1>. QED
  BY <1>1, <1>2

LEMMA DigitType ==
  ASSUME NEW a \in Seq(Nat), NEW i \in Nat \ {0}
  PROVE  /\ Digit(a, i) \in Nat /\ Len(a) \in Nat
         /\ i <= Len(a) => a[i] \in Nat /\ Digit(a, i) = a[i] + 1
         /\ i > Len(a) => Digit(a, i) = 0
<1>1. Len(a) \in Nat
  BY LenProperties
<1>2. i <= Len(a) => a[i] \in Nat
  OBVIOUS
<1>. QED
  BY <1>1, <1>2 DEF Digit

LEMMA BeforeDigits ==
  ASSUME NEW a \in Seq(Nat), NEW b \in Seq(Nat)
  PROVE  Before(a, b) <=> \E k : Differ(a, b, k)
<1>0. Len(a) \in Nat /\ Len(b) \in Nat
  BY LenProperties
<1>1. ASSUME IsStrictPrefix(a, b) PROVE \E k : Differ(a, b, k)
  <2>. DEFINE k == Len(a) + 1
  <2>1. Len(a) <= Len(b) /\ SubSeq(a, 1, Len(a)) = SubSeq(b, 1, Len(a)) /\ a # b
    BY <1>1 DEF IsStrictPrefix, IsPrefix
  <2>2. \A i \in 1..Len(a) : a[i] = b[i]
    <3>1. Len(a) <= Len(a)
      BY <1>0
    <3>. QED
      BY <1>0, <2>1, <3>1, SamePrefix
  <2>3. Len(a) # Len(b)
    <3>. SUFFICES ASSUME Len(a) = Len(b) PROVE a = b
      BY <2>1
    <3>. QED
      BY <2>2, SeqEqual
  <2>4. k \in Nat \ {0} /\ Digit(a, k) = 0 /\ Digit(b, k) = b[k] + 1 /\ b[k] \in Nat
    <3>1. k \in Nat \ {0} /\ k > Len(a) /\ k <= Len(b)
      BY <1>0, <2>1, <2>3
    <3>. HIDE DEF k
    <3>. QED
      BY <3>1, DigitType
  <2>5. ASSUME NEW i \in 1..(k - 1) PROVE Digit(a, i) = Digit(b, i)
    <3>1. i \in 1..Len(a) /\ i <= Len(a) /\ i <= Len(b)
      BY <1>0, <2>1
    <3>. QED
      BY <2>2, <3>1 DEF Digit
  <2>. HIDE DEF k
  <2>6. Digit(a, k) < Digit(b, k)
    BY <2>4
  <2>7. Differ(a, b, k)
    BY <2>4, <2>5, <2>6 DEF Differ
  <2>. QED
    BY <2>7
<1>2. ASSUME NEW k \in 1..Len(a), k <= Len(b), a[k] < b[k], SubSeq(a, 1, k - 1) = SubSeq(b, 1, k - 1)
      PROVE  Differ(a, b, k)
  <2>1. \A i \in 1..(k - 1) : a[i] = b[i]
    <3>1. k - 1 \in Nat /\ k - 1 <= Len(a) /\ k - 1 <= Len(b)
      BY <1>0, <1>2
    <3>. QED
      BY <1>2, <3>1, SamePrefix
  <2>2. \A i \in 1..(k - 1) : i <= Len(a) /\ i <= Len(b)
    BY <1>0, <1>2
  <2>3. a[k] \in Nat /\ b[k] \in Nat /\ k <= Len(a)
    BY <1>0, <1>2
  <2>. QED
    BY <1>2, <2>1, <2>2, <2>3, SMTT(30) DEF Differ, Digit
<1>3. ASSUME NEW k, Differ(a, b, k) PROVE Before(a, b)
  <2>1. k \in Nat \ {0} /\ Digit(a, k) < Digit(b, k) /\ \A i \in 1..(k - 1) : Digit(a, i) = Digit(b, i)
    BY <1>3 DEF Differ
  <2>2. k <= Len(b)
    <3>1. k > Len(b) => Digit(b, k) = 0
      BY <2>1, DigitType
    <3>2. Digit(a, k) \in Nat
      BY <2>1, DigitType
    <3>. QED
      BY <1>0, <2>1, <3>1, <3>2
  <2>3. \A i \in 1..(k - 1) : i <= Len(a) => i <= Len(b) /\ a[i] = b[i]
    <3>. SUFFICES ASSUME NEW i \in 1..(k - 1), i <= Len(a) PROVE i <= Len(b) /\ a[i] = b[i]
      OBVIOUS
    <3>1. i \in Nat \ {0} /\ i <= Len(b)
      BY <1>0, <2>1, <2>2
    <3>2. a[i] + 1 = b[i] + 1 /\ a[i] \in Nat /\ b[i] \in Nat
      BY <2>1, <3>1, DigitType, ZenonT(40)
    <3>. QED
      BY <3>1, <3>2, SMTT(30)
  <2>4. CASE k <= Len(a)
    <3>1. a[k] + 1 < b[k] + 1 /\ a[k] \in Nat /\ b[k] \in Nat
      BY <2>1, <2>2, <2>4, DigitType
    <3>2. \A i \in 1..(k - 1) : a[i] = b[i]
      BY <1>0, <2>1, <2>3, <2>4
    <3>3. k - 1 \in Nat /\ k - 1 <= Len(a) /\ k - 1 <= Len(b)
      BY <1>0, <2>1, <2>2, <2>4
    <3>4. SubSeq(a, 1, k - 1) = SubSeq(b, 1, k - 1)
      BY <3>2, <3>3, SamePrefix
    <3>5. k \in 1..Len(a) /\ a[k] < b[k]
      BY <1>0, <2>1, <2>4, <3>1
    <3>. QED
      BY <2>2, <3>4, <3>5 DEF Before
  <2>5. CASE k > Len(a)
    <3>1. Len(a) < Len(b)
      BY <1>0, <2>1, <2>2, <2>5
    <3>2. \A i \in 1..Len(a) : a[i] = b[i]
      <4>. SUFFICES ASSUME NEW i \in 1..Len(a) PROVE a[i] = b[i]
        OBVIOUS
      <4>1. i \in 1..(k - 1) /\ i <= Len(a)
        BY <1>0, <2>1, <2>5
      <4>. QED
        BY <2>3, <4>1
    <3>3. SubSeq(a, 1, Len(a)) = SubSeq(b, 1, Len(a))
      <4>1. Len(a) <= Len(a) /\ Len(a) <= Len(b)
        BY <1>0, <3>1
      <4>. QED
        BY <1>0, <3>2, <4>1, SamePrefix
    <3>4. a # b /\ Len(a) <= Len(b)
      BY <1>0, <3>1
    <3>. QED
      BY <3>3, <3>4 DEF Before, IsStrictPrefix, IsPrefix
  <2>. QED
    BY <1>0, <2>1, <2>4, <2>5
<1>. QED
  BY <1>1, <1>2, <1>3 DEF Before

ByName(D) == {r \in D \X D : Before(r[1], r[2])}

(* Before is a strict order of any set of names.                           *)
LEMMA NamesOrdered ==
  ASSUME NEW D \in SUBSET Seq(Nat)
  PROVE  StrictOrder(ByName(D), D)
<1>1. \A x, y \in D : <<x, y>> \in ByName(D) <=> \E k : Differ(x, y, k)
  <2>1. \A x, y \in D : <<x, y>> \in ByName(D) <=> Before(x, y)
    BY DEF ByName
  <2>. QED
    BY <2>1, BeforeDigits
<1>2. ASSUME NEW x \in D, NEW k PROVE ~Differ(x, x, k)
  BY DigitType DEF Differ
<1>3. ASSUME NEW x \in D, NEW y \in D, NEW z \in D, NEW k, Differ(x, y, k), NEW l, Differ(y, z, l)
      PROVE  \E m : Differ(x, z, m)
  <2>1. /\ k \in Nat \ {0} /\ l \in Nat \ {0}
        /\ Digit(x, k) < Digit(y, k) /\ Digit(y, l) < Digit(z, l)
        /\ \A i \in 1..(k - 1) : Digit(x, i) = Digit(y, i)
        /\ \A i \in 1..(l - 1) : Digit(y, i) = Digit(z, i)
    BY <1>3 DEF Differ
  <2>2. /\ Digit(x, k) \in Nat /\ Digit(y, k) \in Nat /\ Digit(z, k) \in Nat
        /\ Digit(x, l) \in Nat /\ Digit(y, l) \in Nat /\ Digit(z, l) \in Nat
    BY <2>1, DigitType
  <2>3. CASE k <= l
    <3>1. Digit(x, k) < Digit(z, k)
      <4>1. CASE k = l
        BY <2>1, <2>2, <4>1
      <4>2. CASE k < l
        <5>1. k \in 1..(l - 1)
          BY <2>1, <4>2
        <5>. QED
          BY <2>1, <2>2, <5>1
      <4>. QED
        BY <2>1, <2>3, <4>1, <4>2
    <3>2. \A i \in 1..(k - 1) : i \in 1..(l - 1)
      BY <2>1, <2>3
    <3>3. Differ(x, z, k)
      BY <2>1, <3>1, <3>2 DEF Differ
    <3>. QED
      BY <3>3
  <2>4. CASE l < k
    <3>1. Digit(x, l) < Digit(z, l)
      <4>1. l \in 1..(k - 1)
        BY <2>1, <2>4
      <4>. QED
        BY <2>1, <2>2, <4>1
    <3>2. \A i \in 1..(l - 1) : i \in 1..(k - 1)
      BY <2>1, <2>4
    <3>3. Differ(x, z, l)
      BY <2>1, <3>1, <3>2 DEF Differ
    <3>. QED
      BY <3>3
  <2>. QED
    BY <2>1, <2>3, <2>4
<1>4. ASSUME NEW x \in D, NEW y \in D, x # y
      PROVE  (\E k : Differ(x, y, k)) \/ (\E k : Differ(y, x, k))
  <2>. DEFINE T == {i \in Nat \ {0} : Digit(x, i) # Digit(y, i)}
  <2>0. Len(x) \in Nat /\ Len(y) \in Nat /\ x \in Seq(Nat) /\ y \in Seq(Nat)
    BY LenProperties
  <2>1. T # {}
    <3>1. CASE Len(x) = Len(y)
      <4>1. PICK i \in 1..Len(x) : x[i] # y[i]
        BY <1>4, <2>0, <3>1, SeqEqual
      <4>2. i \in Nat \ {0} /\ i <= Len(x) /\ i <= Len(y)
        BY <2>0, <3>1
      <4>3. Digit(x, i) = x[i] + 1 /\ Digit(y, i) = y[i] + 1 /\ x[i] \in Nat /\ y[i] \in Nat
        BY <2>0, <4>2, DigitType
      <4>4. Digit(x, i) # Digit(y, i)
        BY <4>1, <4>3
      <4>. QED
        BY <4>2, <4>4
    <3>2. CASE Len(x) < Len(y)
      <4>1. Digit(x, Len(y)) = 0 /\ Digit(y, Len(y)) = y[Len(y)] + 1 /\ y[Len(y)] \in Nat /\ Len(y) \in Nat \ {0}
        BY <2>0, <3>2, DigitType
      <4>. QED
        BY <4>1
    <3>3. CASE Len(y) < Len(x)
      <4>1. Digit(y, Len(x)) = 0 /\ Digit(x, Len(x)) = x[Len(x)] + 1 /\ x[Len(x)] \in Nat /\ Len(x) \in Nat \ {0}
        BY <2>0, <3>3, DigitType
      <4>. QED
        BY <4>1
    <3>. QED
      BY <2>0, <3>1, <3>2, <3>3
  <2>2. PICK k \in T : \A i \in T : k <= i
    <3>1. T \in SUBSET Nat
      OBVIOUS
    <3>. HIDE DEF T
    <3>. QED
      BY <2>1, <3>1, LeastElement
  <2>3. ASSUME NEW i \in 1..(k - 1) PROVE Digit(x, i) = Digit(y, i)
    BY <2>2
  <2>4. Digit(x, k) \in Nat /\ Digit(y, k) \in Nat /\ Digit(x, k) # Digit(y, k) /\ k \in Nat \ {0}
    BY DigitType
  <2>5. Digit(x, k) < Digit(y, k) \/ Digit(y, k) < Digit(x, k)
    BY <2>4
  <2>. QED
    BY <2>3, <2>4, <2>5 DEF Differ
<1>. QED
  BY <1>1, <1>2, <1>3, <1>4 DEF StrictOrder

(* The names of a header block.                                            *)
LEMMA NamesListed ==
  ASSUME NEW D \in SUBSET Seq(Nat), IsFiniteSet(D)
  PROVE  Lists(InOrder(D, Before), ByName(D), D)
<1>1. PICK s : Lists(s, ByName(D), D)
  BY NamesOrdered, ListExists
<1>2. \A t : Lists(t, ByName(D), D) <=>
        /\ t \in [1..Cardinality(D) -> D]
        /\ \A i, j \in 1..Cardinality(D) : i < j => Before(t[i], t[j])
  <2>1. \A x, y \in D : <<x, y>> \in ByName(D) <=> Before(x, y)
    BY DEF ByName
  <2>. QED
    BY <2>1 DEF Lists
<1>3. /\ InOrder(D, Before) \in [1..Cardinality(D) -> D]
      /\ \A i, j \in 1..Cardinality(D) : i < j => Before(InOrder(D, Before)[i], InOrder(D, Before)[j])
  BY <1>1, <1>2 DEF InOrder
<1>. QED
  BY <1>2, <1>3

(* c lists numbers from the least to the greatest.                         *)
Rising(c, n)  == \A i, j \in 1..n : i < j => c[i] < c[j]
Onto(c, n, C) == \A x \in C : \E i \in 1..n : c[i] = x

(* There is one rising list of a set of numbers.                           *)
LEMMA RisingUnique ==
  ASSUME NEW C \in SUBSET Nat, NEW n \in Nat, NEW s \in [1..n -> C], NEW c \in [1..n -> C],
         Rising(s, n), Rising(c, n), Onto(s, n, C), Onto(c, n, C)
  PROVE  s = c
<1>. DEFINE T == {k \in 1..n : s[k] # c[k]}
<1>. SUFFICES ASSUME T # {} PROVE FALSE
  OBVIOUS
<1>1. PICK k \in T : \A j \in T : k <= j
  <2>1. T \in SUBSET Nat
    OBVIOUS
  <2>. HIDE DEF T
  <2>. QED
    BY <2>1, LeastElement
<1>2. k \in 1..n /\ s[k] # c[k] /\ s[k] \in C /\ c[k] \in C /\ s[k] \in Nat /\ c[k] \in Nat
  OBVIOUS
<1>3. \A j \in 1..n : j < k => s[j] = c[j]
  BY <1>1
<1>4. \A i \in 1..n : s[i] \in Nat /\ c[i] \in Nat
  OBVIOUS
<1>. HIDE DEF T
<1>5. CASE s[k] < c[k]
  <2>1. PICK j \in 1..n : c[j] = s[k]
    BY <1>2 DEF Onto
  <2>2. CASE j < k
    <3>1. s[j] = s[k] /\ s[j] < s[k]
      BY <1>2, <1>3, <2>1, <2>2 DEF Rising
    <3>. QED
      BY <1>4, <3>1
  <2>3. CASE k <= j
    <3>1. c[k] <= c[j]
      <4>1. k = j \/ k < j
        BY <1>2, <2>3
      <4>. QED
        BY <1>2, <1>4, <4>1 DEF Rising
    <3>. QED
      BY <1>4, <1>2, <1>5, <2>1, <3>1
  <2>. QED
    BY <1>2, <2>2, <2>3
<1>6. CASE c[k] < s[k]
  <2>1. PICK j \in 1..n : s[j] = c[k]
    BY <1>2 DEF Onto
  <2>2. CASE j < k
    <3>1. c[j] = c[k] /\ c[j] < c[k]
      BY <1>2, <1>3, <2>1, <2>2 DEF Rising
    <3>. QED
      BY <1>4, <3>1
  <2>3. CASE k <= j
    <3>1. s[k] <= s[j]
      <4>1. k = j \/ k < j
        BY <1>2, <2>3
      <4>. QED
        BY <1>2, <1>4, <4>1 DEF Rising
    <3>. QED
      BY <1>4, <1>2, <1>6, <2>1, <3>1
  <2>. QED
    BY <1>2, <2>2, <2>3
<1>. QED
  BY <1>2, <1>5, <1>6

(* A rising list as long as a set has every element of it.                 *)
LEMMA RisingOnto ==
  ASSUME NEW C \in SUBSET Nat, NEW n \in Nat, IsFiniteSet(C), Cardinality(C) = n,
         NEW s \in [1..n -> C], Rising(s, n)
  PROVE  Onto(s, n, C)
<1>1. ASSUME NEW i \in 1..n, NEW j \in 1..n, s[i] = s[j] PROVE i = j
  <2>1. s[i] \in Nat /\ s[j] \in Nat
    OBVIOUS
  <2>2. ~(i < j) /\ ~(j < i)
    BY <1>1, <2>1 DEF Rising
  <2>. QED
    BY <2>2
<1>2. s \in Injection(1..n, C)
  BY <1>1 DEF Injection, IsInjective
<1>3. 1 \in Int /\ n \in Int
  OBVIOUS
<1>4. IsFiniteSet(1..n) /\ Cardinality(1..n) = IF 1 > n THEN 0 ELSE n - 1 + 1
  BY <1>3, FS_Interval
<1>5. Cardinality(1..n) = n
  BY <1>4
<1>. QED
  BY <1>2, <1>4, <1>5, FS_Injection DEF Surjection, Onto

(* InOrder finds the rising list of a set of numbers.                      *)
LEMMA NumbersListed ==
  ASSUME NEW C \in SUBSET Nat, NEW n \in Nat, NEW c \in [1..n -> C], Rising(c, n), Onto(c, n, C)
  PROVE  InOrder(C, <) = c
<1>1. c \in Surjection(1..n, C)
  BY DEF Surjection, Onto
<1>2. 1 \in Int /\ n \in Int
  OBVIOUS
<1>3. IsFiniteSet(1..n) /\ Cardinality(1..n) = IF 1 > n THEN 0 ELSE n - 1 + 1
  BY <1>2, FS_Interval
<1>4. Cardinality(1..n) = n
  BY <1>3
<1>5. c \in Injection(1..n, C)
  <2>1. ASSUME NEW i \in 1..n, NEW j \in 1..n, c[i] = c[j] PROVE i = j
    <3>1. c[i] \in Nat /\ c[j] \in Nat
      OBVIOUS
    <3>2. ~(i < j) /\ ~(j < i)
      BY <2>1, <3>1 DEF Rising
    <3>. QED
      BY <3>2
  <2>. QED
    BY <2>1 DEF Injection, IsInjective
<1>6. IsFiniteSet(C) /\ Cardinality(C) = n
  BY <1>1, <1>3, <1>4, <1>5, FS_Surjection
<1>. DEFINE s == InOrder(C, <)
<1>7. s = CHOOSE t \in [1..n -> C] : \A i, j \in 1..n : i < j => t[i] < t[j]
  BY <1>6 DEF InOrder
<1>8. s \in [1..n -> C] /\ \A i, j \in 1..n : i < j => s[i] < s[j]
  <2>1. \A i, j \in 1..n : i < j => c[i] < c[j]
    BY DEF Rising
  <2>. HIDE DEF s
  <2>. QED
    BY <1>7, <2>1
<1>. HIDE DEF s
<1>9. Rising(s, n)
  BY <1>8 DEF Rising
<1>10. Onto(s, n, C)
  BY <1>6, <1>8, <1>9, RisingOnto
<1>11. s = c
  BY <1>8, <1>9, <1>10, RisingUnique
<1>. QED
  BY <1>11 DEF s

----------------------------------------------------------------------------
(* The values of a name.                                                   *)

(* A text is bytes, none of them NUL.                                      *)
LEMMA TextType ==
  ASSUME NEW t \in Text
  PROVE  /\ t \in Seq(Nat) /\ Len(t) \in Nat
         /\ \A i \in 1..Len(t) : t[i] \in Nat /\ t[i] # 0
<1>1. Byte \in Nat
  BY Powers
<1>2. t \in Seq(1..(Byte - 1)) /\ Len(t) \in Nat
  BY LenProperties DEF Text
<1>3. \A i \in 1..Len(t) : t[i] \in 1..(Byte - 1)
  <2>. DEFINE S == 1..(Byte - 1)
  <2>1. t \in Seq(S)
    BY <1>2
  <2>. HIDE DEF S
  <2>2. \A i \in 1..Len(t) : t[i] \in S
    BY <2>1
  <2>. QED
    BY <2>2 DEF S
<1>4. \A x \in 1..(Byte - 1) : x \in Nat /\ x # 0
  BY <1>1
<1>5. t \in Seq(Nat)
  BY <1>2, <1>3, <1>4
<1>. QED
  BY <1>2, <1>3, <1>4, <1>5

(* A NUL and a value.                                                      *)
Nul(t) == <<0>> \o t

(* The only NUL of NUL and a text is the first byte.                       *)
LEMMA NulFacts ==
  ASSUME NEW t \in Text
  PROVE  /\ Nul(t) \in Seq(Nat) /\ Len(Nul(t)) = Len(t) + 1 /\ Nul(t)[1] = 0
         /\ \A i \in 1..Len(t) : Nul(t)[i + 1] = t[i]
         /\ \A i \in 1..Len(Nul(t)) : Nul(t)[i] = 0 => i = 1
<1>1. t \in Seq(Nat) /\ Len(t) \in Nat /\ \A i \in 1..Len(t) : t[i] \in Nat /\ t[i] # 0
  BY TextType
<1>2. <<0>> \in Seq(Nat) /\ Len(<<0>>) = 1 /\ <<0>>[1] = 0
  OBVIOUS
<1>3. /\ Nul(t) \in Seq(Nat) /\ Len(Nul(t)) = 1 + Len(t)
      /\ \A i \in 1..1 : Nul(t)[i] = <<0>>[i]
      /\ \A i \in 1..Len(t) : Nul(t)[1 + i] = t[i]
  <2>. DEFINE z == <<0>>
  <2>1. z \in Seq(Nat) /\ Len(z) = 1 /\ z[1] = 0 /\ Nul(t) = z \o t
    BY <1>2 DEF Nul
  <2>. HIDE DEF z
  <2>2. /\ z \o t \in Seq(Nat) /\ Len(z \o t) = Len(z) + Len(t)
        /\ \A i \in 1..Len(z) : (z \o t)[i] = z[i]
        /\ \A i \in 1..Len(t) : (z \o t)[Len(z) + i] = t[i]
    BY <1>1, <2>1, Concat
  <2>. QED
    BY <2>1, <2>2, <1>2
<1>4. \A i \in 1..Len(t) : i + 1 = 1 + i
  OBVIOUS
<1>5. ASSUME NEW i \in 1..Len(Nul(t)), i # 1 PROVE Nul(t)[i] # 0
  <2>. DEFINE j == i - 1
  <2>1. j \in 1..Len(t) /\ i = 1 + j
    BY <1>1, <1>3, <1>5
  <2>. HIDE DEF j
  <2>. QED
    BY <1>1, <1>3, <2>1
<1>. QED
  BY <1>1, <1>2, <1>3, <1>4, <1>5

(* The bytes behind the first one.                                         *)
LEMMA TailFacts ==
  ASSUME NEW s \in Seq(Nat), s # <<>>
  PROVE  /\ Tail(s) \in Seq(Nat) /\ Len(s) \in Nat \ {0} /\ Len(Tail(s)) = Len(s) - 1
         /\ \A i \in 1..Len(Tail(s)) : Tail(s)[i] = s[i + 1]
BY HeadTailProperties

(* Where the bytes of a flattening without its first byte are.             *)
LEMMA AtTail ==
  ASSUME NEW s, s # <<>>, NEW m \in Nat, NEW t, At(s, m + 1, t),
         NEW u \in Seq(Nat), Len(t) = Len(u) + 1, \A i \in 1..Len(u) : t[i + 1] = u[i]
  PROVE  At(Tail(s), m + 1, u)
<1>1. /\ s \in Seq(Nat) /\ t \in Seq(Nat) /\ (m + 1) + Len(t) <= Len(s) + 1
      /\ \A i \in 1..Len(t) : s[(m + 1) - 1 + i] = t[i]
  BY DEF At
<1>2. /\ Tail(s) \in Seq(Nat) /\ Len(s) \in Nat \ {0} /\ Len(Tail(s)) = Len(s) - 1
      /\ \A i \in 1..Len(Tail(s)) : Tail(s)[i] = s[i + 1]
  BY <1>1, TailFacts
<1>3. Len(u) \in Nat
  BY LenProperties
<1>4. ASSUME NEW i \in 1..Len(u) PROVE Tail(s)[(m + 1) - 1 + i] = u[i]
  <2>1. m + i \in 1..Len(Tail(s)) /\ i + 1 \in 1..Len(t) /\ (m + 1) - 1 + i = m + i
        /\ (m + 1) - 1 + (i + 1) = (m + i) + 1
    BY <1>1, <1>2, <1>3
  <2>2. Tail(s)[m + i] = s[(m + i) + 1]
    BY <1>2, <2>1
  <2>3. s[(m + 1) - 1 + (i + 1)] = t[i + 1]
    BY <1>1, <2>1
  <2>. QED
    BY <2>1, <2>2, <2>3
<1>5. (m + 1) + Len(u) <= Len(Tail(s)) + 1 /\ m + 1 \in Nat \ {0}
  BY <1>1, <1>2, <1>3
<1>. QED
  BY <1>2, <1>4, <1>5 DEF At

(* The zeros of the pieces, and of what is left without the first byte.    *)
Marks(q) == \A k \in 1..Len(q) : /\ Len(q[k]) \in Nat \ {0} /\ q[k][1] = 0
                                 /\ \A i \in 1..Len(q[k]) : q[k][i] = 0 => i = 1

(* The zeros of a joined string are where the pieces begin.                *)
LEMMA ZerosOfTail ==
  ASSUME NEW q, NEW s, NEW off, Places(off, q, s), Len(q) \in Nat \ {0}, Marks(q)
  PROVE  /\ Tail(s) \in Seq(Nat) /\ s # <<>> /\ Len(Tail(s)) + 1 = off[Len(q)]
         /\ {0, Len(Tail(s)) + 1} \cup {i \in DOMAIN Tail(s) : Tail(s)[i] = 0}
              = {off[k] : k \in 0..Len(q)}
<1>. DEFINE n == Len(q)
            r == Tail(s)
<1>1. /\ off \in [0..n -> Nat] /\ off[0] = 0 /\ s \in Seq(Nat) /\ Len(s) = off[n]
      /\ \A k \in 1..n : off[k] = off[k - 1] + Len(q[k]) /\ At(s, off[k - 1] + 1, q[k])
  BY DEF Places, Has
<1>2. \A i, j \in 0..n : i < j => off[i] < off[j]
  BY PlacesArePieces, PiecesRise DEF NoneEmpty, Marks
<1>3. off[n] \in Nat /\ 0 < off[n]
  <2>1. 0 \in 0..n /\ n \in 0..n /\ 0 < n
    OBVIOUS
  <2>. HIDE DEF n
  <2>. QED
    BY <1>1, <1>2, <2>1
<1>4. s # <<>>
  <2>1. Len(s) # 0
    BY <1>1, <1>3
  <2>. QED
    BY <2>1
<1>5. /\ r \in Seq(Nat) /\ Len(r) = Len(s) - 1
      /\ \A i \in 1..Len(r) : r[i] = s[i + 1]
  BY <1>1, <1>4, TailFacts
<1>. HIDE DEF r
<1>6. Len(r) + 1 = off[n] /\ Len(r) \in Nat /\ DOMAIN r = 1..Len(r)
  BY <1>1, <1>3, <1>5, LenProperties
<1>7. ASSUME NEW k \in 1..n, NEW i \in 1..Len(q[k]) PROVE s[off[k - 1] + i] = q[k][i]
  <2>1. k - 1 \in 0..n
    OBVIOUS
  <2>2. off[k - 1] \in Nat
    BY <1>1, <2>1
  <2>3. (off[k - 1] + 1) - 1 + i = off[k - 1] + i
    BY <2>2
  <2>4. s[(off[k - 1] + 1) - 1 + i] = q[k][i]
    BY <1>1 DEF At
  <2>. QED
    BY <2>3, <2>4
<1>8. ASSUME NEW i \in 1..Len(r), r[i] = 0 PROVE \E k \in 0..n : off[k] = i
  <2>1. i + 1 \in 1..Len(s) /\ s[i + 1] = 0
    BY <1>5, <1>8, <1>6, <1>1
  <2>2. PICK k \in 1..n : off[k - 1] < i + 1 /\ i + 1 <= off[k]
    BY <2>1, PlacesArePieces, PieceOf
  <2>. DEFINE j == (i + 1) - off[k - 1]
  <2>3. k - 1 \in 0..n /\ k \in 0..n
    OBVIOUS
  <2>4. off[k - 1] \in Nat /\ off[k] = off[k - 1] + Len(q[k]) /\ Len(q[k]) \in Nat
    BY <1>1, <2>3 DEF Marks
  <2>5. j \in 1..Len(q[k]) /\ off[k - 1] + j = i + 1
    BY <2>2, <2>4
  <2>. HIDE DEF j
  <2>6. q[k][j] = 0
    BY <1>7, <2>1, <2>5
  <2>7. j = 1
    BY <2>5, <2>6 DEF Marks
  <2>8. off[k - 1] = i
    BY <2>4, <2>5, <2>7
  <2>. QED
    BY <2>3, <2>8
<1>9. ASSUME NEW k \in 0..n, off[k] # 0, off[k] # Len(r) + 1 PROVE off[k] \in 1..Len(r) /\ r[off[k]] = 0
  <2>1. k # 0 /\ k # n /\ off[k] \in Nat
    BY <1>1, <1>6, <1>9
  <2>2. k + 1 \in 1..n /\ (k + 1) - 1 = k /\ n \in 0..n /\ k < n
    BY <2>1
  <2>3. off[k] < off[n]
    BY <1>2, <2>2
  <2>4. off[k] \in 1..Len(r)
    BY <1>3, <1>6, <1>9, <2>1, <2>3
  <2>5. 1 \in 1..Len(q[k + 1]) /\ q[k + 1][1] = 0
    BY <2>2 DEF Marks
  <2>6. s[off[k] + 1] = 0
    BY <1>7, <2>2, <2>5
  <2>. QED
    BY <1>5, <2>4, <2>6
<1>10. {0, Len(r) + 1} \cup {i \in DOMAIN r : r[i] = 0} = {off[k] : k \in 0..n}
  <2>1. 0 \in 0..n /\ n \in 0..n
    OBVIOUS
  <2>2. 0 \in {off[k] : k \in 0..n} /\ Len(r) + 1 \in {off[k] : k \in 0..n}
    BY <1>1, <1>6, <2>1
  <2>3. \A i \in DOMAIN r : r[i] = 0 => i \in {off[k] : k \in 0..n}
    BY <1>6, <1>8
  <2>4. \A k \in 0..n : off[k] \in {0, Len(r) + 1} \cup {i \in DOMAIN r : r[i] = 0}
    BY <1>6, <1>9
  <2>. QED
    BY <2>2, <2>3, <2>4
<1>. QED
  BY <1>4, <1>5, <1>6, <1>10 DEF r

(* The values come out of the string as they went in.                      *)
LEMMA JoinSplit ==
  ASSUME NEW v \in Seq(Text), v # <<>>
  PROVE  JoinNul(v) \in Seq(Nat) /\ SplitNul[JoinNul(v)] = v
<1>. DEFINE m == Len(v)
            q == [i \in DOMAIN v |-> <<0>> \o v[i]]
            flat == FlattenSeq(q)
            raw == Tail(flat)
<1>1. /\ m \in Nat \ {0} /\ DOMAIN v = 1..m /\ v = [i \in 1..m |-> v[i]]
      /\ \A i \in 1..m : v[i] \in Text
  OBVIOUS
<1>2. /\ q \in Seq(Seq(Nat)) /\ Len(q) = m
      /\ \A i \in 1..m : q[i] = Nul(v[i])
  <2>1. \A i \in 1..m : Nul(v[i]) \in Seq(Nat)
    BY <1>1, NulFacts
  <2>2. q = [i \in 1..m |-> Nul(v[i])]
    BY <1>1 DEF Nul
  <2>. HIDE DEF q, m
  <2>. DEFINE S == Seq(Nat)
              z == [i \in 1..m |-> Nul(v[i])]
  <2>3. \A i \in 1..m : Nul(v[i]) \in S
    BY <2>1
  <2>. HIDE DEF S
  <2>4. z \in Seq(S) /\ Len(z) = m /\ \A i \in 1..m : z[i] = Nul(v[i])
    BY <1>1, <2>3
  <2>. QED
    BY <2>2, <2>4 DEF S, z
<1>. HIDE DEF q, m
<1>3. PICK off : Places(off, q, flat)
  BY <1>2, FlattenPlaces
<1>4. JoinNul(v) = raw
  BY DEF JoinNul, q
<1>. HIDE DEF flat
<1>5. Marks(q) /\ \A k \in 1..m : Len(q[k]) = Len(v[k]) + 1 /\ Len(v[k]) \in Nat
  <2>1. ASSUME NEW k \in 1..m
        PROVE  /\ Len(q[k]) \in Nat \ {0} /\ q[k][1] = 0
               /\ \A i \in 1..Len(q[k]) : q[k][i] = 0 => i = 1
               /\ Len(q[k]) = Len(v[k]) + 1 /\ Len(v[k]) \in Nat
    <3>1. v[k] \in Text /\ q[k] = Nul(v[k])
      BY <1>1, <1>2
    <3>2. Len(v[k]) \in Nat
      BY <3>1, TextType
    <3>. QED
      BY <3>1, <3>2, NulFacts, SMTT(30)
  <2>. QED
    BY <1>2, <2>1 DEF Marks
<1>6. /\ raw \in Seq(Nat) /\ flat # <<>> /\ Len(raw) + 1 = off[m]
      /\ {0, Len(raw) + 1} \cup {i \in DOMAIN raw : raw[i] = 0} = {off[k] : k \in 0..m}
  <2>1. Len(q) \in Nat \ {0}
    BY <1>1, <1>2
  <2>2. /\ Tail(flat) \in Seq(Nat) /\ flat # <<>> /\ Len(Tail(flat)) + 1 = off[Len(q)]
        /\ {0, Len(Tail(flat)) + 1} \cup {i \in DOMAIN Tail(flat) : Tail(flat)[i] = 0}
             = {off[k] : k \in 0..Len(q)}
    BY <1>3, <1>5, <2>1, ZerosOfTail
  <2>. QED
    BY <1>2, <2>2 DEF raw
<1>7. /\ off \in [0..m -> Nat]
      /\ \A k \in 1..m : off[k] = off[k - 1] + Len(q[k]) /\ At(flat, off[k - 1] + 1, q[k])
  BY <1>2, <1>3 DEF Places
<1>8. \A i, j \in 0..m : i < j => off[i] < off[j]
  BY <1>1, <1>2, <1>3, <1>5, PlacesArePieces, PiecesRise DEF NoneEmpty, Marks
<1>. HIDE DEF raw
<1>. DEFINE C == {off[k] : k \in 0..m}
            c == [k \in 1..(m + 1) |-> off[k - 1]]
<1>9. InOrder(C, <) = c
  <2>1. C \in SUBSET Nat /\ m + 1 \in Nat
    BY <1>1, <1>7
  <2>2. c \in [1..(m + 1) -> C]
    BY <1>1
  <2>3. Rising(c, m + 1)
    <3>1. ASSUME NEW i \in 1..(m + 1), NEW j \in 1..(m + 1), i < j PROVE c[i] < c[j]
      <4>1. i - 1 \in 0..m /\ j - 1 \in 0..m /\ i - 1 < j - 1
        BY <1>1, <3>1
      <4>2. off[i - 1] < off[j - 1]
        BY <1>8, <4>1
      <4>. QED
        BY <4>2
    <3>. HIDE DEF c
    <3>. QED
      BY <3>1 DEF Rising
  <2>4. Onto(c, m + 1, C)
    <3>1. ASSUME NEW k \in 0..m PROVE k + 1 \in 1..(m + 1) /\ c[k + 1] = off[k]
      BY <1>1
    <3>. HIDE DEF c
    <3>. QED
      BY <3>1 DEF Onto
  <2>. HIDE DEF C, c
  <2>. QED
    BY <2>1, <2>2, <2>3, <2>4, NumbersListed
<1>10. SplitNul[raw] = [k \in 1..(Len(c) - 1) |-> SubSeq(raw, c[k] + 1, c[k + 1] - 1)]
  <2>1. SplitNul[raw] =
          LET cuts == InOrder({0, Len(raw) + 1} \cup {i \in DOMAIN raw : raw[i] = 0}, <)
          IN  [k \in 1..(Len(cuts) - 1) |-> SubSeq(raw, cuts[k] + 1, cuts[k + 1] - 1)]
    BY <1>6 DEF SplitNul
  <2>2. {0, Len(raw) + 1} \cup {i \in DOMAIN raw : raw[i] = 0} = C
    BY <1>6
  <2>. HIDE DEF C, c
  <2>. QED
    BY <1>9, <2>1, <2>2
<1>11. Len(c) = m + 1 /\ \A k \in 1..m : c[k] = off[k - 1] /\ c[k + 1] = off[k]
  BY <1>1
<1>. HIDE DEF c, C
<1>12. ASSUME NEW k \in 1..m PROVE SubSeq(raw, c[k] + 1, c[k + 1] - 1) = v[k]
  <2>1. v[k] \in Text /\ q[k] = Nul(v[k]) /\ v[k] \in Seq(Nat) /\ Len(v[k]) \in Nat
    BY <1>1, <1>2, TextType
  <2>2. k - 1 \in 0..m /\ off[k - 1] \in Nat
    <3>1. k - 1 \in 0..m
      BY <1>1
    <3>. QED
      BY <1>7, <3>1
  <2>3. At(raw, off[k - 1] + 1, v[k])
    <3>1. Len(q[k]) = Len(v[k]) + 1 /\ \A i \in 1..Len(v[k]) : q[k][i + 1] = v[k][i]
      BY <2>1, NulFacts, ZenonT(40)
    <3>2. At(flat, off[k - 1] + 1, q[k])
      BY <1>7
    <3>. QED
      BY <1>6, <2>1, <2>2, <3>1, <3>2, AtTail DEF raw
  <2>4. off[k] - 1 = (off[k - 1] + 1) + Len(v[k]) - 1
    <3>1. off[k] = off[k - 1] + (Len(v[k]) + 1)
      BY <1>5, <1>7
    <3>2. off[k - 1] \in Nat /\ Len(v[k]) \in Nat
      BY <2>1, <2>2
    <3>3. \A x, y, z \in Nat : z = x + (y + 1) => z - 1 = (x + 1) + y - 1
      OBVIOUS
    <3>4. off[k] \in Nat
      BY ONLY <3>1, <3>2
    <3>. QED
      BY ONLY <3>1, <3>2, <3>3, <3>4
  <2>5. SubSeq(raw, off[k - 1] + 1, off[k] - 1) = v[k]
    BY <2>3, <2>4, AtSubSeq
  <2>. QED
    BY <1>11, <2>5
<1>13. SplitNul[raw] = [k \in 1..m |-> v[k]]
  <2>1. Len(c) - 1 = m
    BY <1>1, <1>11
  <2>. QED
    BY <1>10, <1>12, <2>1
<1>. QED
  BY <1>1, <1>4, <1>6, <1>13

----------------------------------------------------------------------------
(* The strings of a block.                                                 *)

(* pos[k]: bytes before the k-th string.                                   *)
Track(pos, raw, n) ==
  /\ pos \in [0..n -> Nat] /\ pos[0] = 4
  /\ \A k \in 1..n : /\ StringFits(raw, pos[k - 1])
                     /\ pos[k] = pos[k - 1] + 4 + StringLength(raw, pos[k - 1])

(* The strings that can follow those that begin in P.                      *)
Following(raw, P) == {p + 4 + StringLength(raw, p) : p \in {q \in P : StringFits(raw, q)}}

(* One string has one that follows.                                        *)
LEMMA FollowingOne ==
  ASSUME NEW raw, NEW p, StringFits(raw, p)
  PROVE  Following(raw, {p}) = {p + 4 + StringLength(raw, p)}
<1>1. {q \in {p} : StringFits(raw, q)} = {p}
  OBVIOUS
<1>. QED
  BY <1>1 DEF Following

(* Starts finds every string of a block that has room for them all.        *)
LEMMA StartsAre ==
  ASSUME NEW n \in Nat, NEW raw, NEW pos, Track(pos, raw, n)
  PROVE  \A k \in 0..n : Starts(raw, n)[k] = {pos[k]}
<1>. DEFINE G(f) == [k \in 0..n |-> IF k = 0 THEN {4} ELSE Following(raw, f[k - 1])]
            g == [k \in 0..n |-> {pos[k]}]
            f == CHOOSE h : h = G(h)
<1>1. g = G(g)
  <2>1. ASSUME NEW k \in 0..n PROVE g[k] = IF k = 0 THEN {4} ELSE Following(raw, g[k - 1])
    <3>1. CASE k = 0
      BY <3>1 DEF Track
    <3>2. CASE k # 0
      <4>1. k \in 1..n /\ k - 1 \in 0..n
        BY <3>2
      <4>2. StringFits(raw, pos[k - 1]) /\ pos[k] = pos[k - 1] + 4 + StringLength(raw, pos[k - 1])
        BY <4>1 DEF Track
      <4>3. Following(raw, {pos[k - 1]}) = {pos[k]}
        BY <4>2, FollowingOne
      <4>. QED
        BY <3>2, <4>1, <4>3
    <3>. QED
      BY <3>1, <3>2
  <2>2. g = [k \in 0..n |-> g[k]]
    OBVIOUS
  <2>. HIDE DEF g
  <2>. QED
    BY <2>1, <2>2
<1>. HIDE DEF g
<1>2. f = G(f)
  <2>. HIDE DEF G
  <2>. QED
    BY <1>1, Zenon
<1>3. Starts(raw, n) = f
  BY DEF Starts, Following
<1>. HIDE DEF f
<1>4. \A k \in 0..n : f[k] = IF k = 0 THEN {4} ELSE Following(raw, f[k - 1])
  BY <1>2
<1>. DEFINE T == {k \in Nat : k \in 0..n => f[k] = {pos[k]}}
<1>5. 0 \in T
  BY <1>4 DEF Track
<1>6. ASSUME NEW k \in T \cap Nat PROVE k + 1 \in T
  <2>. SUFFICES ASSUME k + 1 \in 0..n PROVE f[k + 1] = {pos[k + 1]}
    OBVIOUS
  <2>1. k + 1 \in 1..n /\ k \in 0..n /\ (k + 1) - 1 = k /\ k + 1 # 0
    OBVIOUS
  <2>2. f[k] = {pos[k]}
    BY <2>1
  <2>3. StringFits(raw, pos[k]) /\ pos[k + 1] = pos[k] + 4 + StringLength(raw, pos[k])
    BY <2>1 DEF Track
  <2>4. f[k + 1] = Following(raw, f[k])
    BY <1>4, <2>1
  <2>. QED
    BY <2>2, <2>3, <2>4, FollowingOne
<1>. HIDE DEF T
<1>7. Nat \subseteq T
  BY <1>5, <1>6, NatInductionSet
<1>. QED
  BY <1>3, <1>7 DEF T

(* A string is read where it was written.                                  *)
LEMMA StringBack ==
  ASSUME NEW raw, NEW p \in Nat, NEW s \in Seq(Nat), Len(s) \in Word32,
         At(raw, p + 1, EncodeString(s))
  PROVE  StringFits(raw, p) /\ StringLength(raw, p) = Len(s) /\ StringAt(raw, p) = s
<1>. DEFINE t == U32(Len(s))
            e == EncodeString(s)
            l == Len(s)
<1>1. Has(t, 4) /\ Has(s, l) /\ JoinedOf(e, t, s) /\ l \in Nat
  BY WordBack, LenProperties DEF Has, JoinedOf, EncodeString
<1>2. Number(t) = l
  BY WordType, NumberOfBigEndian DEF U32
<1>. HIDE DEF t, e, l
<1>3. At(e, 5, s) /\ \A k, v : At(t, k, v) => At(e, k, v)
  <2>1. At(e, 4 + 1, s) /\ \A k, v : At(t, k, v) => At(e, k, v)
    BY <1>1, Joined
  <2>. QED
    BY <2>1
<1>4. At(t, 1, t)
  BY <1>1 DEF At, Has
<1>5. At(e, 1, t)
  BY <1>3, <1>4
<1>6. At(raw, p + 1, e)
  BY DEF e
<1>7. At(raw, p + 1 - 1 + 5, s) /\ At(raw, p + 1 - 1 + 1, t)
  BY <1>3, <1>5, <1>6, AtWithin
<1>8. At(raw, p + 5, s) /\ At(raw, p + 1, t)
  <2>1. p + 1 - 1 + 5 = p + 5 /\ p + 1 - 1 + 1 = p + 1
    OBVIOUS
  <2>. QED
    BY <1>7, <2>1
<1>9. StringLength(raw, p) = l
  <2>1. p + 4 = (p + 1) + Len(t) - 1
    BY <1>1 DEF Has
  <2>2. \A n : n = (p + 1) + Len(t) - 1 => SubSeq(raw, p + 1, n) = t
    BY ONLY <1>8, AtSubSeq
  <2>3. SubSeq(raw, p + 1, p + 4) = t
    BY ONLY <2>1, <2>2
  <2>. QED
    BY <1>2, <2>3 DEF StringLength
<1>10. StringFits(raw, p)
  <2>1. Len(s) = l /\ (p + 5) + Len(s) <= Len(raw) + 1 /\ Len(raw) \in Nat
    BY <1>8, LenProperties DEF At, l
  <2>2. p + 4 <= Len(raw) /\ p + 4 + l <= Len(raw)
    BY <1>1, <2>1
  <2>. QED
    BY <1>9, <2>2 DEF StringFits
<1>11. StringAt(raw, p) = s
  <2>1. p + 4 + l = (p + 5) + Len(s) - 1
    BY <1>1 DEF Has
  <2>2. \A n : n = (p + 5) + Len(s) - 1 => SubSeq(raw, p + 5, n) = s
    BY ONLY <1>8, AtSubSeq
  <2>3. SubSeq(raw, p + 5, p + 4 + l) = s
    BY ONLY <2>1, <2>2
  <2>. QED
    BY <1>9, <2>3 DEF StringAt
<1>. QED
  BY <1>9, <1>10, <1>11 DEF l

(* The flattening of sequences of which one is not empty.                  *)
OnlyAt(q, i) == \A k \in 1..Len(q) : k # i => q[k] = <<>>

(* The flattening is the piece that is not empty.                          *)
LEMMA FlattenOne ==
  ASSUME NEW S, NEW q \in Seq(Seq(S)), NEW i \in 1..Len(q), OnlyAt(q, i)
  PROVE  FlattenSeq(q) = q[i]
<1>. DEFINE n == Len(q)
<1>1. n \in Nat \ {0} /\ \A k \in 1..n : q[k] \in Seq(S)
  <2>. DEFINE Q == Seq(S)
  <2>1. q \in Seq(Q)
    OBVIOUS
  <2>. HIDE DEF Q
  <2>2. n \in Nat /\ \A k \in 1..n : q[k] \in Q
    BY <2>1
  <2>. QED
    BY <2>2 DEF Q
<1>2. \A k \in 1..n : k # i => q[k] = <<>>
  BY DEF OnlyAt
<1>3. PICK f : Flattens(f, q, n) /\ FlattenSeq(q) = f[n]
  BY <1>1, FlattenFunction
<1>. HIDE DEF n
<1>4. /\ f[1] = q[1]
      /\ \A k \in 1..(n - 1) : f[k + 1] = Cat(f[k], q[k + 1])
  BY <1>1, <1>3, FlattensStep
<1>5. i \in 1..n
  BY DEF n
<1>. DEFINE T == {k \in Nat : k \in 1..n => f[k] = IF k < i THEN <<>> ELSE q[i]}
<1>6. 0 \in T
  OBVIOUS
<1>7. ASSUME NEW k \in T \cap Nat PROVE k + 1 \in T
  <2>. SUFFICES ASSUME k + 1 \in 1..n PROVE f[k + 1] = IF k + 1 < i THEN <<>> ELSE q[i]
    OBVIOUS
  <2>1. CASE k = 0
    <3>1. i = 1 \/ (1 < i /\ q[1] = <<>>)
      BY <1>1, <1>2, <1>5
    <3>. QED
      BY <1>4, <1>5, <2>1, <3>1
  <2>2. CASE k # 0
    <3>1. k \in 1..(n - 1) /\ k \in 1..n
      BY <1>1, <2>2
    <3>2. f[k + 1] = Cat(f[k], q[k + 1]) /\ f[k] = IF k < i THEN <<>> ELSE q[i]
      BY <1>4, <3>1
    <3>3. q[i] \in Seq(S) /\ q[k + 1] \in Seq(S) /\ <<>> \in Seq(S)
      BY <1>1, <1>5
    <3>4. Cat(<<>>, q[k + 1]) = q[k + 1] /\ Cat(q[i], <<>>) = q[i]
      BY <3>3, CatFacts
    <3>5. CASE k < i
      <4>1. f[k + 1] = q[k + 1]
        BY <3>2, <3>4, <3>5
      <4>2. k + 1 = i \/ (k + 1 < i /\ q[k + 1] = <<>>)
        BY <1>2, <1>5, <3>5
      <4>. QED
        BY <1>5, <4>1, <4>2
    <3>6. CASE ~(k < i)
      <4>1. q[k + 1] = <<>> /\ ~(k + 1 < i)
        BY <1>2, <1>5, <3>6
      <4>. QED
        BY <3>2, <3>4, <3>6, <4>1
    <3>. QED
      BY <3>5, <3>6
  <2>. QED
    BY <2>1, <2>2
<1>. HIDE DEF T
<1>8. Nat \subseteq T
  BY <1>6, <1>7, NatInductionSet
<1>9. n \in T /\ n \in 1..n /\ ~(n < i)
  BY <1>1, <1>5, <1>8
<1>10. f[n] = q[i]
  BY <1>9 DEF T
<1>. QED
  BY <1>3, <1>10 DEF n

(* e has the strings a and b.                                              *)
Pair(e, a, b) ==
  /\ a \in Seq(Nat) /\ Len(a) \in Word32
  /\ b \in Seq(Nat) /\ Len(b) \in Word32
  /\ e = EncodeString(a) \o EncodeString(b)

(* a[k] and b[k] are the strings of the k-th name, q[k] its bytes.         *)
Named(q, a, b, n) ==
  q \in Seq(Seq(Nat)) /\ Len(q) = n /\ \A k \in 1..n : Pair(q[k], a[k], b[k])

(* A string takes four bytes more than its text.                           *)
LEMMA StringHas ==
  ASSUME NEW s \in Seq(Nat), Len(s) \in Word32
  PROVE  EncodeString(s) \in Seq(Nat) /\ Len(EncodeString(s)) = 4 + Len(s)
<1>. DEFINE t == U32(Len(s))
<1>1. Has(t, 4)
  BY WordBack
<1>. HIDE DEF t
<1>2. t \in Seq(Nat) /\ Len(t) = 4
  BY <1>1 DEF Has
<1>3. t \o s \in Seq(Nat) /\ Len(t \o s) = Len(t) + Len(s)
  BY <1>2, Concat
<1>. QED
  BY <1>2, <1>3 DEF EncodeString, t

(* The two strings of a name, one behind the other.                        *)
LEMMA TwoStrings ==
  ASSUME NEW raw, NEW p \in Nat, NEW a, NEW b, NEW e, Pair(e, a, b), At(raw, p + 1, e),
         NEW l \in Nat, l = Len(a), NEW m \in Nat, m = Len(b)
  PROVE  /\ At(raw, p + 1, EncodeString(a))
         /\ At(raw, (p + 4 + l) + 1, EncodeString(b))
         /\ Has(e, (4 + l) + (4 + m))
<1>. DEFINE s == EncodeString(a)
            t == EncodeString(b)
<1>1. /\ s \in Seq(Nat) /\ Len(s) = 4 + l
      /\ t \in Seq(Nat) /\ Len(t) = 4 + m
  BY StringHas DEF Pair
<1>2. JoinedOf(e, s, t)
  BY DEF Pair, JoinedOf
<1>. HIDE DEF s, t
<1>3. Has(s, 4 + l) /\ Has(t, 4 + m)
  BY <1>1 DEF Has
<1>4. /\ Has(e, (4 + l) + (4 + m))
      /\ At(e, (4 + l) + 1, t)
      /\ \A k, v : At(s, k, v) => At(e, k, v)
  BY ONLY <1>2, <1>3, Joined
<1>5. At(s, 1, s)
  BY <1>1 DEF At
<1>6. At(e, 1, s)
  BY <1>4, <1>5
<1>7. At(raw, p + 1 - 1 + 1, s) /\ At(raw, p + 1 - 1 + ((4 + l) + 1), t)
  BY ONLY <1>4, <1>6, At(raw, p + 1, e), AtWithin
<1>8. p + 1 - 1 + 1 = p + 1 /\ p + 1 - 1 + ((4 + l) + 1) = (p + 4 + l) + 1
  OBVIOUS
<1>9. At(raw, p + 1, s) /\ At(raw, (p + 4 + l) + 1, t)
  BY ONLY <1>7, <1>8
<1>. QED
  BY <1>4, <1>9 DEF s, t

(* They are read back.                                                     *)
LEMMA PairBack ==
  ASSUME NEW raw, NEW p \in Nat, NEW a, NEW b, NEW e, Pair(e, a, b), At(raw, p + 1, e)
  PROVE  /\ StringFits(raw, p) /\ StringLength(raw, p) = Len(a) /\ StringAt(raw, p) = a
         /\ StringFits(raw, p + 4 + Len(a)) /\ StringLength(raw, p + 4 + Len(a)) = Len(b)
         /\ StringAt(raw, p + 4 + Len(a)) = b
         /\ Len(a) \in Nat /\ Len(b) \in Nat /\ Len(e) = 4 + Len(a) + (4 + Len(b))
<1>1. /\ a \in Seq(Nat) /\ Len(a) \in Word32 /\ Len(a) \in Nat
      /\ b \in Seq(Nat) /\ Len(b) \in Word32 /\ Len(b) \in Nat
  BY LenProperties DEF Pair
<1>. DEFINE l == Len(a)
            k == Len(b)
            m == p + 4 + l
<1>2. l \in Nat /\ l = Len(a) /\ k \in Nat /\ k = Len(b) /\ l \in Word32 /\ k \in Word32
  BY <1>1
<1>. HIDE DEF l, k
<1>3. m \in Nat
  BY <1>2
<1>4. /\ At(raw, p + 1, EncodeString(a))
      /\ At(raw, (p + 4 + l) + 1, EncodeString(b))
      /\ Has(e, (4 + l) + (4 + k))
  BY ONLY <1>2, p \in Nat, Pair(e, a, b), At(raw, p + 1, e), TwoStrings
<1>5. StringFits(raw, p) /\ StringLength(raw, p) = Len(a) /\ StringAt(raw, p) = a
  BY <1>1, <1>4, StringBack
<1>6. At(raw, m + 1, EncodeString(b))
  BY <1>4
<1>. HIDE DEF m
<1>7. StringFits(raw, m) /\ StringLength(raw, m) = Len(b) /\ StringAt(raw, m) = b
  BY <1>1, <1>3, <1>6, StringBack
<1>. QED
  BY <1>2, <1>4, <1>5, <1>7 DEF m, Has

(* The names and values of a block with `count` names; no length in it     *)
(* reaches beyond the block.                                               *)
NameIn(raw, count, k)  == StringAt(raw, CHOOSE p \in Starts(raw, 2 * count)[2 * k - 2] : TRUE)
ValueIn(raw, count, k) == StringAt(raw, CHOOSE p \in Starts(raw, 2 * count)[2 * k - 1] : TRUE)
AllThere(raw, count)      == Starts(raw, 2 * count)[2 * count] # {}

(* Both strings of every name are read back.                               *)
LEMMA StringsBack ==
  ASSUME NEW n \in Nat, NEW q, NEW a, NEW b, Named(q, a, b, n),
         NEW raw, NEW off,
         NEW body, Places(off, q, body), JoinedOf(raw, U32(n), body), n \in Word32
  PROVE  AllThere(raw, n) /\ \A k \in 1..n : NameIn(raw, n, k) = a[k] /\ ValueIn(raw, n, k) = b[k]
<1>1. /\ off \in [0..n -> Nat] /\ off[0] = 0 /\ Has(body, off[n])
      /\ \A k \in 1..n : off[k] = off[k - 1] + Len(q[k]) /\ At(body, off[k - 1] + 1, q[k])
  BY DEF Places, Named
<1>2. \A k, v : At(body, k, v) => At(raw, 4 + k, v)
  <2>. DEFINE t == U32(n)
  <2>1. Has(t, 4)
    BY WordBack
  <2>. HIDE DEF t
  <2>2. JoinedOf(raw, t, body)
    BY DEF t
  <2>3. At(raw, 4 + 1, body)
    BY ONLY <1>1, <2>1, <2>2, Joined
  <2>4. \A k, v : At(body, k, v) => At(raw, (4 + 1) - 1 + k, v)
    BY ONLY <2>3, AtWithin
  <2>5. (4 + 1) - 1 = 4
    OBVIOUS
  <2>. QED
    BY ONLY <2>4, <2>5
<1>. DEFINE name(k) == 4 + off[k - 1]
            value(k) == name(k) + 4 + Len(a[k])
<1>4. ASSUME NEW k \in 1..n
      PROVE  /\ name(k) \in Nat /\ value(k) \in Nat
             /\ StringFits(raw, name(k)) /\ StringLength(raw, name(k)) = Len(a[k])
             /\ StringAt(raw, name(k)) = a[k]
             /\ StringFits(raw, value(k)) /\ StringLength(raw, value(k)) = Len(b[k])
             /\ StringAt(raw, value(k)) = b[k]
             /\ 4 + off[k] = value(k) + 4 + Len(b[k])
  <2>1. k - 1 \in 0..n
    OBVIOUS
  <2>2. off[k - 1] \in Nat /\ off[k] = off[k - 1] + Len(q[k]) /\ At(body, off[k - 1] + 1, q[k])
    BY <1>1, <2>1
  <2>3. PICK o \in Nat : o = off[k - 1]
    BY ONLY <2>2
  <2>4. PICK x \in Nat : x = 4 + o
    OBVIOUS
  <2>5. PICK e : e = q[k]
    OBVIOUS
  <2>6. PICK s : s = a[k]
    OBVIOUS
  <2>7. PICK t : t = b[k]
    OBVIOUS
  <2>8. Pair(e, s, t)
    BY <2>5, <2>6, <2>7 DEF Named
  <2>9. At(raw, x + 1, e)
    <3>1. At(raw, 4 + (o + 1), e)
      BY ONLY <1>2, <2>2, <2>3, <2>5
    <3>2. 4 + (o + 1) = x + 1
      BY ONLY <2>4, o \in Nat, x \in Nat
    <3>. QED
      BY ONLY <3>1, <3>2
  <2>10. /\ StringFits(raw, x) /\ StringLength(raw, x) = Len(s) /\ StringAt(raw, x) = s
         /\ StringFits(raw, x + 4 + Len(s)) /\ StringLength(raw, x + 4 + Len(s)) = Len(t)
         /\ StringAt(raw, x + 4 + Len(s)) = t
         /\ Len(s) \in Nat /\ Len(t) \in Nat /\ Len(e) = 4 + Len(s) + (4 + Len(t))
    BY ONLY <2>8, <2>9, x \in Nat, PairBack
  <2>11. 4 + off[k] = x + 4 + Len(s) + 4 + Len(t)
    <3>1. off[k] = o + Len(e)
      BY ONLY <2>2, <2>3, <2>5
    <3>2. \A u, v \in Nat : 4 + (o + (4 + u + (4 + v))) = x + 4 + u + 4 + v
      BY ONLY <2>4, o \in Nat, x \in Nat
    <3>3. 4 + off[k] = 4 + (o + (4 + Len(s) + (4 + Len(t))))
      BY ONLY <2>10, <3>1
    <3>. QED
      BY ONLY <2>10, <3>2, <3>3
  <2>12. name(k) = x /\ value(k) = x + 4 + Len(s)
    BY ONLY <2>3, <2>4, <2>6
  <2>13. x + 4 + Len(s) \in Nat
    BY ONLY <2>10, x \in Nat
  <2>. HIDE DEF name, value
  <2>. QED
    BY ONLY <2>6, <2>7, <2>10, <2>11, <2>12, <2>13, x \in Nat
<1>. DEFINE pos == [j \in 0..(2 * n) |-> IF j % 2 = 0 THEN 4 + off[j \div 2] ELSE value((j \div 2) + 1)]
<1>5. /\ \A k \in 1..n : pos[2 * k - 2] = name(k) /\ pos[2 * k - 1] = value(k)
      /\ \A k \in 0..n : pos[2 * k] = 4 + off[k]
  <2>1. ASSUME NEW k \in 1..n
        PROVE  /\ 2 * k - 2 \in 0..(2 * n) /\ (2 * k - 2) % 2 = 0 /\ (2 * k - 2) \div 2 = k - 1
               /\ 2 * k - 1 \in 0..(2 * n) /\ (2 * k - 1) % 2 = 1 /\ ((2 * k - 1) \div 2) + 1 = k
    OBVIOUS
  <2>2. ASSUME NEW k \in 0..n
        PROVE  2 * k \in 0..(2 * n) /\ (2 * k) % 2 = 0 /\ (2 * k) \div 2 = k
    OBVIOUS
  <2>. HIDE DEF value
  <2>. QED
    BY <2>1, <2>2
<1>6. Track(pos, raw, 2 * n)
  <2>1. \A j \in 0..(2 * n) : \/ \E k \in 1..n : j = 2 * k - 1
                              \/ \E k \in 0..n : j = 2 * k
    <3>. SUFFICES ASSUME NEW j \in 0..(2 * n)
                  PROVE  (\E k \in 1..n : j = 2 * k - 1) \/ (\E k \in 0..n : j = 2 * k)
      OBVIOUS
    <3>1. CASE j % 2 = 0
      <4>1. j \div 2 \in 0..n /\ j = 2 * (j \div 2)
        BY <3>1
      <4>. QED
        BY <4>1
    <3>2. CASE j % 2 # 0
      <4>1. (j \div 2) + 1 \in 1..n /\ j = 2 * ((j \div 2) + 1) - 1
        BY <3>2
      <4>. QED
        BY <4>1
    <3>. QED
      BY <3>1, <3>2
  <2>2. \A k \in 0..n : off[k] \in Nat
    BY <1>1
  <2>. DEFINE N == 2 * n
  <2>3. \A j \in 0..N : pos[j] \in Nat
    <3>. SUFFICES ASSUME NEW j \in 0..N PROVE pos[j] \in Nat
      OBVIOUS
    <3>. HIDE DEF value, name, pos
    <3>1. CASE \E k \in 1..n : j = 2 * k - 1
      BY <1>4, <1>5, <3>1
    <3>2. CASE \E k \in 0..n : j = 2 * k
      <4>1. PICK k \in 0..n : j = 2 * k
        BY <3>2
      <4>2. pos[j] = 4 + off[k]
        BY <1>5, <4>1
      <4>3. off[k] \in Nat
        BY <2>2
      <4>. QED
        BY ONLY <4>2, <4>3
    <3>. QED
      BY <2>1, <3>1, <3>2
  <2>4. pos \in [0..N -> Nat]
    <3>1. pos = [j \in 0..N |-> pos[j]]
      OBVIOUS
    <3>. HIDE DEF pos, N
    <3>. QED
      BY <2>3, <3>1
  <2>. HIDE DEF pos
  <2>5. pos[0] = 4
    <3>1. 0 \in 0..n /\ 2 * 0 = 0
      OBVIOUS
    <3>2. pos[2 * 0] = 4 + off[0]
      BY <1>5, <3>1
    <3>. QED
      BY <1>1, <3>1, <3>2
  <2>6. ASSUME NEW j \in 1..N
        PROVE  StringFits(raw, pos[j - 1]) /\ pos[j] = pos[j - 1] + 4 + StringLength(raw, pos[j - 1])
    <3>1. CASE \E k \in 1..n : j = 2 * k - 1
      <4>1. PICK k \in 1..n : j = 2 * k - 1
        BY <3>1
      <4>2. j - 1 = 2 * k - 2
        BY <4>1
      <4>3. pos[j - 1] = name(k) /\ pos[j] = value(k)
        <5>. HIDE DEF name, value
        <5>. QED
          BY <1>5, <4>1, <4>2
      <4>4. StringFits(raw, name(k)) /\ StringLength(raw, name(k)) = Len(a[k])
        BY <1>4
      <4>. QED
        BY <4>3, <4>4
    <3>2. CASE \E k \in 0..n : j = 2 * k
      <4>1. PICK k \in 0..n : j = 2 * k
        BY <3>2
      <4>2. k \in 1..n /\ j - 1 = 2 * k - 1
        BY <4>1
      <4>. HIDE DEF name, value
      <4>3. pos[j - 1] = value(k) /\ pos[j] = 4 + off[k]
        BY <1>5, <4>1, <4>2
      <4>4. /\ StringFits(raw, value(k)) /\ StringLength(raw, value(k)) = Len(b[k])
            /\ 4 + off[k] = value(k) + 4 + Len(b[k])
        BY <1>4, <4>2
      <4>. QED
        BY <4>3, <4>4
    <3>3. j \in 0..(2 * n)
      OBVIOUS
    <3>. HIDE DEF value, name
    <3>. QED
      BY ONLY <2>1, <3>1, <3>2, <3>3
  <2>. QED
    BY <2>4, <2>5, <2>6 DEF Track
<1>. HIDE DEF pos, name, value
<1>7. \A j \in 0..(2 * n) : Starts(raw, 2 * n)[j] = {pos[j]}
  <2>1. 2 * n \in Nat
    OBVIOUS
  <2>. QED
    BY ONLY <1>6, <2>1, StartsAre
<1>8. \A x : (CHOOSE p \in {x} : TRUE) = x
  OBVIOUS
<1>9. ASSUME NEW k \in 1..n
      PROVE  NameIn(raw, n, k) = a[k] /\ ValueIn(raw, n, k) = b[k]
  <2>1. 2 * k - 2 \in 0..(2 * n) /\ 2 * k - 1 \in 0..(2 * n)
    OBVIOUS
  <2>2. Starts(raw, 2 * n)[2 * k - 2] = {name(k)} /\ Starts(raw, 2 * n)[2 * k - 1] = {value(k)}
    BY <1>5, <1>7, <2>1
  <2>. QED
    BY <1>4, <1>8, <2>2 DEF NameIn, ValueIn
<1>10. AllThere(raw, n)
  BY <1>7 DEF AllThere
<1>. QED
  BY <1>9, <1>10

(* What the parser makes of a block whose strings are all there.           *)
ValuesOf(raw, count, n) ==
  FlattenSeq([k \in 1..count |-> IF NameIn(raw, count, k) = n THEN SplitNul[ValueIn(raw, count, k)] ELSE <<>>])
MapOf(raw, count) == [n \in {NameIn(raw, count, k) : k \in 1..count} |-> ValuesOf(raw, count, n)]

(* The parser refuses no block whose strings are all there.                *)
LEMMA BlockParts ==
  ASSUME NEW raw \in Seq(Nat), NEW count, count = Word(raw, 0), ~(Len(raw) < 4), AllThere(raw, count),
         ~ \E k \in 1..count : NameIn(raw, count, k) = <<>>
  PROVE  ParseHeaderBlock[raw] = [headers |-> MapOf(raw, count)]
<1>1. ParseHeaderBlock[raw] =
        LET c == Word(raw, 0)
        IN  IF Len(raw) < 4 \/ Starts(raw, 2 * c)[2 * c] = {} \/ \E k \in 1..c : NameIn(raw, c, k) = <<>>
            THEN [error |-> "protocol"]
            ELSE [headers |-> [n \in {NameIn(raw, c, k) : k \in 1..c} |->
                    FlattenSeq([k \in 1..c |-> IF NameIn(raw, c, k) = n
                                               THEN SplitNul[ValueIn(raw, c, k)] ELSE <<>>])]]
  BY DEF ParseHeaderBlock, NameIn, ValueIn
<1>. DEFINE parsed == [headers |-> MapOf(raw, count)]
            failed == [error |-> "protocol"]
<1>2. parsed = [headers |-> [n \in {NameIn(raw, count, k) : k \in 1..count} |->
                 FlattenSeq([k \in 1..count |-> IF NameIn(raw, count, k) = n
                                                THEN SplitNul[ValueIn(raw, count, k)] ELSE <<>>])]]
  BY DEF MapOf, ValuesOf
<1>3. ParseHeaderBlock[raw] =
        IF Len(raw) < 4 \/ Starts(raw, 2 * count)[2 * count] = {} \/ \E k \in 1..count : NameIn(raw, count, k) = <<>>
        THEN failed ELSE parsed
  <2>. HIDE DEF parsed
  <2>. QED
    BY <1>1, <1>2
<1>. HIDE DEF parsed, failed
<1>4. ParseHeaderBlock[raw] = parsed
  BY <1>3 DEF AllThere
<1>. QED
  BY <1>4 DEF parsed

(* What is collected under a name that one string of the block has.        *)
Distinct(names, n) == \A j, k \in 1..n : names[j] = names[k] => j = k

(* The values of a name are those behind it, not those of another.         *)
LEMMA Collected ==
  ASSUME NEW n \in Nat, NEW names, Distinct(names, n), NEW values, Sequences(values, n, Text),
         NEW i \in 1..n
  PROVE  FlattenSeq([k \in 1..n |-> IF names[k] = names[i] THEN values[k] ELSE <<>>]) = values[i]
<1>. DEFINE S == Text
            Q == Seq(S)
            q == [k \in 1..n |-> IF names[k] = names[i] THEN values[k] ELSE <<>>]
<1>1. \A k \in 1..n : values[k] \in Q
  BY DEF Sequences
<1>2. <<>> \in Q
  OBVIOUS
<1>. HIDE DEF Q
<1>3. \A k \in 1..n : (IF names[k] = names[i] THEN values[k] ELSE <<>>) \in Q
  BY <1>1, <1>2
<1>4. q \in Seq(Q) /\ Len(q) = n
  BY <1>3
<1>5. q[i] = values[i] /\ \A k \in 1..n : k # i => q[k] = <<>>
  BY DEF Distinct
<1>. HIDE DEF q
<1>6. q \in Seq(Seq(S)) /\ i \in 1..Len(q) /\ OnlyAt(q, i)
  BY <1>4, <1>5 DEF OnlyAt, Q
<1>. HIDE DEF S
<1>7. FlattenSeq(q) = q[i]
  BY <1>6, FlattenOne
<1>. QED
  BY <1>5, <1>7 DEF q

(* A header map's names are listed without repetition, and its strings fit *)
(* their fields.                                                           *)
NamesOf(headers) == InOrder(DOMAIN headers, Before)

LEMMA NamesOfMap ==
  ASSUME NEW headers, IsHeaderMap(headers), NEW n, n = Cardinality(DOMAIN headers)
  PROVE  /\ n \in Nat /\ n \in Word32
         /\ NamesOf(headers) \in [1..n -> DOMAIN headers]
         /\ \A j, k \in 1..n : NamesOf(headers)[j] = NamesOf(headers)[k] => j = k
         /\ \A x \in DOMAIN headers : \E k \in 1..n : NamesOf(headers)[k] = x
         /\ \A x \in DOMAIN headers :
              /\ x # <<>> /\ x \in Seq(Nat) /\ Len(x) \in Word32
              /\ headers[x] \in Seq(Text)
              /\ JoinNul(headers[x]) \in Seq(Nat) /\ Len(JoinNul(headers[x])) \in Word32
              /\ SplitNul[JoinNul(headers[x])] = headers[x]
<1>. DEFINE D == DOMAIN headers
            s == NamesOf(headers)
<1>1. /\ IsFiniteSet(D) /\ n \in Word32
      /\ \A x \in D : /\ x \in Text /\ x # <<>> /\ Len(x) \in Word32
                      /\ headers[x] \in Seq(Text) /\ headers[x] # <<>>
                      /\ Len(JoinNul(headers[x])) \in Word32
  BY DEF IsHeaderMap
<1>2. D \in SUBSET Seq(Nat)
  BY <1>1, TextType
<1>3. n \in Nat
  BY <1>1, WordType
<1>4. Lists(s, ByName(D), D) /\ StrictOrder(ByName(D), D)
  BY <1>1, <1>2, NamesListed, NamesOrdered DEF NamesOf
<1>5. /\ \A j, k \in 1..n : s[j] = s[k] => j = k
      /\ \A x \in D : \E k \in 1..n : s[k] = x
  BY <1>1, <1>4, ListHasAll
<1>6. s \in [1..n -> D]
  BY <1>4 DEF Lists
<1>7. \A x \in D : JoinNul(headers[x]) \in Seq(Nat) /\ SplitNul[JoinNul(headers[x])] = headers[x]
  BY <1>1, JoinSplit
<1>. HIDE DEF s
<1>. QED
  BY <1>1, <1>2, <1>3, <1>5, <1>6, <1>7 DEF s

(* encode_headers and parse_header_block: every header map comes back from *)
(* its block with the same names, each with the same values in the same    *)
(* order, however many names and values there are.  A value may be empty;  *)
(* no name is, which is what parse_header_block asks.                      *)
THEOREM HeaderBlockReadBack ==
  ASSUME NEW headers, IsHeaderMap(headers)
  PROVE  /\ EncodeHeaders(headers) \in Seq(Nat)
         /\ ParseHeaderBlock[EncodeHeaders(headers)] = [headers |-> headers]
<1>. DEFINE D == DOMAIN headers
            n == Cardinality(D)
            a == NamesOf(headers)
            b == [k \in 1..n |-> JoinNul(headers[a[k]])]
            q == [k \in 1..n |-> EncodeString(a[k]) \o EncodeString(b[k])]
            body == FlattenSeq(q)
            raw == U32(n) \o body
<1>1. /\ n \in Nat /\ n \in Word32
      /\ a \in [1..n -> D]
      /\ \A j, k \in 1..n : a[j] = a[k] => j = k
      /\ \A x \in D : \E k \in 1..n : a[k] = x
      /\ \A x \in D :
           /\ x # <<>> /\ x \in Seq(Nat) /\ Len(x) \in Word32
           /\ headers[x] \in Seq(Text)
           /\ JoinNul(headers[x]) \in Seq(Nat) /\ Len(JoinNul(headers[x])) \in Word32
           /\ SplitNul[JoinNul(headers[x])] = headers[x]
  BY NamesOfMap
<1>. HIDE DEF n, a
<1>2. EncodeHeaders(headers) = raw
  <2>1. Len(a) = n /\ DOMAIN a = 1..n
    BY <1>1
  <2>2. EncodeHeaders(headers) =
          U32(Len(a)) \o FlattenSeq([k \in DOMAIN a |-> EncodeString(a[k]) \o EncodeString(JoinNul(headers[a[k]]))])
    BY DEF EncodeHeaders, a, NamesOf
  <2>3. \A k \in 1..n : b[k] = JoinNul(headers[a[k]])
    OBVIOUS
  <2>. HIDE DEF b
  <2>4. q = [k \in 1..n |-> EncodeString(a[k]) \o EncodeString(JoinNul(headers[a[k]]))]
    BY <2>3
  <2>. HIDE DEF q
  <2>. QED
    BY <2>1, <2>2, <2>4
<1>3. ASSUME NEW k \in 1..n
      PROVE  /\ a[k] \in D /\ b[k] = JoinNul(headers[a[k]])
             /\ Pair(EncodeString(a[k]) \o EncodeString(b[k]), a[k], b[k])
             /\ EncodeString(a[k]) \o EncodeString(b[k]) \in Seq(Nat)
  <2>1. a[k] \in D /\ b[k] = JoinNul(headers[a[k]])
    BY <1>1
  <2>. HIDE DEF b
  <2>2. /\ a[k] \in Seq(Nat) /\ Len(a[k]) \in Word32
        /\ b[k] \in Seq(Nat) /\ Len(b[k]) \in Word32
    BY <1>1, <2>1
  <2>3. EncodeString(a[k]) \in Seq(Nat) /\ EncodeString(b[k]) \in Seq(Nat)
    BY <2>2, StringHas
  <2>4. EncodeString(a[k]) \o EncodeString(b[k]) \in Seq(Nat)
    BY <2>3, Concat
  <2>. QED
    BY <2>1, <2>2, <2>4 DEF Pair
<1>. HIDE DEF b
<1>4. Named(q, a, b, n)
  <2>. DEFINE Q == Seq(Nat)
              e(k) == EncodeString(a[k]) \o EncodeString(b[k])
  <2>1. \A k \in 1..n : e(k) \in Q
    BY <1>3
  <2>2. q = [k \in 1..n |-> e(k)]
    OBVIOUS
  <2>. HIDE DEF q, Q, e
  <2>3. q \in Seq(Q) /\ Len(q) = n /\ \A k \in 1..n : q[k] = e(k)
    BY <1>1, <2>1, <2>2
  <2>4. \A k \in 1..n : Pair(q[k], a[k], b[k])
    BY <1>3, <2>3 DEF e
  <2>. QED
    BY <2>3, <2>4 DEF Named, Q
<1>. HIDE DEF q
<1>5. PICK off : Places(off, q, body)
  BY <1>4, FlattenPlaces DEF Named
<1>. HIDE DEF body
<1>6. /\ raw \in Seq(Nat) /\ Len(raw) \in Nat /\ ~(Len(raw) < 4)
      /\ Word(raw, 0) = n
      /\ JoinedOf(raw, U32(n), body)
  <2>. DEFINE t == U32(n)
              l == Len(body)
  <2>1. Has(t, 4) /\ Has(body, l) /\ JoinedOf(raw, t, body)
    BY <1>1, <1>5, WordBack, LenProperties DEF Places, Has, JoinedOf
  <2>2. At(t, 1, t)
    BY <2>1 DEF At, Has
  <2>. HIDE DEF t, l, raw
  <2>3. Has(raw, 4 + l) /\ At(raw, 1, t)
    BY ONLY <2>1, <2>2, Joined
  <2>4. Word(raw, 0) = n
    BY <1>1, <2>3, WordBack DEF t
  <2>5. l \in Nat
    BY <2>1 DEF Has
  <2>. QED
    BY <2>1, <2>3, <2>4, <2>5 DEF Has, t
<1>. HIDE DEF raw
<1>7. AllThere(raw, n) /\ \A k \in 1..n : NameIn(raw, n, k) = a[k] /\ ValueIn(raw, n, k) = b[k]
  <2>1. n \in Nat /\ n \in Word32
    BY <1>1
  <2>. QED
    BY ONLY <2>1, <1>4, <1>5, <1>6, StringsBack
<1>8. \A k \in 1..n : NameIn(raw, n, k) = a[k] /\ SplitNul[ValueIn(raw, n, k)] = headers[a[k]]
  <2>1. ASSUME NEW k \in 1..n PROVE SplitNul[ValueIn(raw, n, k)] = headers[a[k]]
    <3>1. ValueIn(raw, n, k) = b[k] /\ a[k] \in D /\ b[k] = JoinNul(headers[a[k]])
      BY <1>3, <1>7
    <3>2. SplitNul[JoinNul(headers[a[k]])] = headers[a[k]]
      BY <1>1, <3>1
    <3>. QED
      BY <3>1, <3>2
  <2>. QED
    BY <1>7, <2>1
<1>9. {NameIn(raw, n, k) : k \in 1..n} = D
  <2>1. \A k \in 1..n : NameIn(raw, n, k) \in D
    BY <1>3, <1>8
  <2>2. \A x \in D : \E k \in 1..n : NameIn(raw, n, k) = x
    BY <1>1, <1>8
  <2>. HIDE DEF D
  <2>. QED
    BY <2>1, <2>2
<1>10. ~ \E k \in 1..n : NameIn(raw, n, k) = <<>>
  BY <1>1, <1>3, <1>8
<1>11. ASSUME NEW x \in D PROVE ValuesOf(raw, n, x) = headers[x]
  <2>. DEFINE values == [k \in 1..n |-> headers[a[k]]]
  <2>1. PICK i \in 1..n : a[i] = x
    BY <1>1
  <2>. n \in Nat
    BY <1>1
  <2>2. \A k \in 1..n : values[k] \in Seq(Text) /\ values[k] = headers[a[k]]
    BY <1>1, <1>3
  <2>. HIDE DEF values
  <2>3. Distinct(a, n) /\ Sequences(values, n, Text)
    BY <1>1, <2>2 DEF Distinct, Sequences
  <2>4. FlattenSeq([k \in 1..n |-> IF a[k] = a[i] THEN values[k] ELSE <<>>]) = values[i]
    BY ONLY n \in Nat, i \in 1..n, <2>3, Collected
  <2>5. [k \in 1..n |-> IF NameIn(raw, n, k) = x THEN SplitNul[ValueIn(raw, n, k)] ELSE <<>>]
          = [k \in 1..n |-> IF a[k] = a[i] THEN values[k] ELSE <<>>]
    BY <1>8, <2>1, <2>2
  <2>. QED
    BY <2>1, <2>2, <2>4, <2>5 DEF ValuesOf
<1>12. ParseHeaderBlock[raw] = [headers |-> MapOf(raw, n)]
  BY <1>6, <1>7, <1>10, BlockParts
<1>13. headers = [x \in D |-> headers[x]]
  BY DEF IsHeaderMap
<1>14. MapOf(raw, n) = headers
  <2>1. MapOf(raw, n) = [x \in D |-> ValuesOf(raw, n, x)]
    BY <1>9 DEF MapOf
  <2>. QED
    BY <1>11, <1>13, <2>1
<1>. QED
  BY <1>2, <1>6, <1>12, <1>14

----------------------------------------------------------------------------
(* The bytes of a frame.                                                   *)

FrameHead(f, k) == EncodeHeader(f, Len(FramePayload(f, k)))

(* h announces the payload p, and read_frame goes on to read it.           *)
Announces(h, p) ==
  /\ Has(h, 8) /\ p \in Seq(Nat) /\ PayloadLength(h) = Len(p)
  /\ ~(IsControl(h) /\ Version(h) # SpdyVersion)

(* A control frame has a known type, and what its type needs.              *)
LEMMA TypeNames ==
  ASSUME NEW Headers, NEW f \in ControlFrames(Headers)
  PROVE  /\ f.type \in DOMAIN TypeCode /\ f.type # "DATA" /\ f # Junk
         /\ HasBlock(f.type) => f.headers \in Headers
         /\ HasBlock(f.type) \/ f.type = "SETTINGS" => f.flags \in Octet
BY DEF ControlFrames, SynStreams, HeaderFrames, RstStreams, SettingsFrames, Pings, GoAways,
       WindowUpdates, TypeCode, HasBlock, Junk

(* A compressed block is bytes, as many as were deflated at least.         *)
LEMMA CompressedType ==
  ASSUME NEW raw, Len(raw) \in Nat, NEW k \in Nat
  PROVE  /\ CompressHeaders(raw, k) \in Seq(Nat)
         /\ Deflated(raw) \in Nat /\ Deflated(raw) <= Len(CompressHeaders(raw, k))
<1>1. Len(raw) \div Ratio \in Nat
  BY FramerAssumption, DivMod
<1>2. Deflated(raw) \in Nat
  BY <1>1 DEF Deflated
<1>3. ASSUME NEW b \in Nat, NEW i \in Nat PROVE Symbol(b, i) \in Nat
  <2>1. Power[2] \in Nat /\ Byte \in Nat
    BY Powers
  <2>2. \A x, y \in Nat : x * y \in Nat
    OBVIOUS
  <2>3. b * Power[2] \in Nat
    BY <2>1, <2>2
  <2>. QED
    BY <2>1, <2>3, SMTT(30) DEF Symbol
<1>. DEFINE t == [i \in 1..Deflated(raw) |-> Symbol(k, i)]
            u == IF k = 1 THEN Preamble ELSE <<>>
<1>4. t \in Seq(Nat) /\ Len(t) = Deflated(raw)
  <2>1. \A i \in 1..Deflated(raw) : Symbol(k, i) \in Nat
    <3>1. \A i \in 1..Deflated(raw) : i \in Nat
      BY <1>2
    <3>. QED
      BY <1>3, <3>1
  <2>. QED
    BY <1>2, <2>1
<1>5. Preamble \in Seq(Nat) /\ <<>> \in Seq(Nat)
  BY <1>3 DEF Preamble
<1>6. u \in Seq(Nat)
  BY <1>5
<1>7. CompressHeaders(raw, k) = u \o t
  BY DEF CompressHeaders
<1>. HIDE DEF u, t
<1>8. u \o t \in Seq(Nat) /\ Len(u \o t) = Len(u) + Len(t) /\ Len(u) \in Nat
  BY <1>4, <1>6, Concat
<1>. QED
  BY <1>2, <1>4, <1>7, <1>8

(* What the proofs below take from the name/value block: it is read back.  *)
LEMMA HeadersReadBack ==
  \A headers \in SentHeaders :
    /\ EncodeHeaders(headers) \in Seq(Nat)
    /\ ParseHeaderBlock[EncodeHeaders(headers)] = [headers |-> headers]
BY FramesAssumption, HeaderBlockReadBack

(* The block of a frame is bytes.                                          *)
LEMMA BlockType ==
  ASSUME NEW f \in Frames, NEW k \in 1..MaxFrames
  PROVE  FrameBlock(f, k) \in Seq(Nat)
<1>1. CASE HasBlock(f.type)
  <2>1. EncodeHeaders(f.headers) \in Seq(Nat)
    BY <1>1, HeadersReadBack DEF SentHeaders
  <2>. DEFINE raw == EncodeHeaders(f.headers)
  <2>2. Len(raw) \in Nat /\ k \in Nat
    BY <2>1, FramerAssumption
  <2>. HIDE DEF raw
  <2>3. CompressHeaders(raw, k) \in Seq(Nat)
    BY <2>2, CompressedType
  <2>. QED
    BY <1>1, <2>3 DEF FrameBlock, raw
<1>2. CASE ~HasBlock(f.type)
  <2>1. <<>> \in Seq(Nat)
    OBVIOUS
  <2>. QED
    BY <1>2, <2>1 DEF FrameBlock
<1>. QED
  BY <1>1, <1>2

(* The header and the payload of a control frame, as read_frame and the    *)
(* parse_* functions take them.                                            *)
LEMMA ControlFrameBytes ==
  ASSUME NEW f \in Frames, f \in ControlFrames(SentHeaders),
         NEW k \in 1..MaxFrames, NEW h, h = FrameHead(f, k), NEW p, p = FramePayload(f, k)
  PROVE  /\ Announces(h, p) /\ IsControl(h)
         /\ f.type \in DOMAIN TypeCode /\ Number(SubSeq(h, 3, 4)) = TypeCode[f.type]
         /\ ~Refused(f.type, p)
         /\ HasBlock(f.type) => SubSeq(p, MinPayload[f.type] + 1, Len(p)) = FrameBlock(f, k)
         /\ \A headers : (HasBlock(f.type) => headers = f.headers) =>
                          ParsePayload(f.type, h[5], p, headers) = OnTheWire(f)
<1>1. /\ f.type \in DOMAIN TypeCode /\ f.type # "DATA"
      /\ HasBlock(f.type) \/ f.type = "SETTINGS" => f.flags \in Octet
  BY TypeNames
<1>2. p = EncodePayload(f, FrameBlock(f, k)) /\ FrameBlock(f, k) \in Seq(Nat)
  BY BlockType DEF FramePayload
<1>. DEFINE flags == IF HasBlock(f.type) \/ f.type = "SETTINGS" THEN f.flags ELSE 0
<1>3. h = ControlHeader(f.type, flags, Len(p)) /\ flags \in Nat
  <2>1. 0 \in Nat /\ \A x \in Octet : x \in Nat
    BY HalfByte DEF Octet
  <2>. QED
    BY <1>1, <2>1 DEF FrameHead, EncodeHeader
<1>4. HasBlock(f.type) \/ f.type = "SETTINGS" => flags = f.flags
  OBVIOUS
<1>. HIDE DEF flags
<1>5. Len(p) < Power[3] /\ (f.type = "SETTINGS" => Len(f.settings) \in Word32)
  BY FramesAssumption
<1>6. /\ p \in Seq(Nat) /\ ~Refused(f.type, p)
      /\ HasBlock(f.type) => SubSeq(p, MinPayload[f.type] + 1, Len(p)) = FrameBlock(f, k)
  <2>. DEFINE b == FrameBlock(f, k)
              hs == IF HasBlock(f.type) THEN f.headers ELSE <<>>
  <2>1. b \in Seq(Nat) /\ p = EncodePayload(f, b)
    BY <1>2
  <2>2. HasBlock(f.type) => hs = f.headers
    OBVIOUS
  <2>. HIDE DEF b, hs
  <2>. QED
    BY <2>1, <2>2, <1>4, <1>5, FrameFieldsReadBack DEF b
<1>7. ASSUME NEW hs, HasBlock(f.type) => hs = f.headers
      PROVE  ParsePayload(f.type, flags, p, hs) = OnTheWire(f)
  <2>. DEFINE b == FrameBlock(f, k)
  <2>1. b \in Seq(Nat) /\ p = EncodePayload(f, b)
    BY <1>2
  <2>. HIDE DEF b
  <2>. QED
    BY <2>1, <1>4, <1>5, <1>7, FrameFieldsReadBack
<1>8. /\ Len(h) = 8 /\ h \in Seq(Nat) /\ IsControl(h) /\ Version(h) = SpdyVersion
      /\ Number(SubSeq(h, 3, 4)) = TypeCode[f.type] /\ h[5] = flags
      /\ PayloadLength(h) = Len(p)
  <2>. DEFINE type == f.type
              l == Len(p)
  <2>1. l \in Nat /\ l < Power[3]
    BY <1>5, <1>6, LenProperties
  <2>2. type \in DOMAIN TypeCode /\ flags \in Nat /\ h = ControlHeader(type, flags, l)
    BY <1>1, <1>3
  <2>. HIDE DEF type, l
  <2>3. /\ Len(h) = 8 /\ h \in Seq(Nat) /\ IsControl(h) /\ Version(h) = SpdyVersion
        /\ Number(SubSeq(h, 3, 4)) = TypeCode[type] /\ h[5] = flags
        /\ PayloadLength(h) = l
    BY <2>1, <2>2, ControlHeaderReadBack
  <2>. QED
    BY <2>3 DEF type, l
<1>10. Announces(h, p)
  BY <1>6, <1>8 DEF Announces, Has
<1>. QED
  BY <1>1, <1>6, <1>7, <1>8, <1>10

(* Likewise of a data frame.                                               *)
LEMMA DataFrameBytes ==
  ASSUME NEW f \in Frames, f \in DataFrames, NEW k \in 1..MaxFrames,
         NEW h, h = FrameHead(f, k), NEW p, p = FramePayload(f, k)
  PROVE  /\ Announces(h, p) /\ ~IsControl(h) /\ ~HasBlock(f.type) /\ f # Junk
         /\ OnTheWire(f) = [type |-> "DATA", stream_id |-> Number(SubSeq(h, 1, 4)),
                            flags |-> h[5], data |-> p]
<1>1. /\ f.type = "DATA" /\ f.stream_id \in Word32 /\ f.flags \in Octet /\ f.data \in Seq(Octet)
      /\ f = [type |-> "DATA", stream_id |-> f.stream_id, flags |-> f.flags, data |-> f.data]
  BY DEF DataFrames
<1>2. ~HasBlock(f.type) /\ f # Junk
  BY <1>1 DEF HasBlock, Junk
<1>3. p = f.data /\ h = DataHeader(f)
  <2>1. f.type = "DATA"
    BY <1>1
  <2>2. \A b : EncodePayload(f, b) = f.data
    BY <2>1 DEF EncodePayload
  <2>3. \A l : EncodeHeader(f, l) = DataHeader(f)
    BY <2>1 DEF EncodeHeader, HasBlock
  <2>. QED
    BY <2>2, <2>3 DEF FramePayload, FrameHead
<1>4. f.stream_id \in Nat /\ f.flags \in Nat /\ f.data \in Seq(Nat)
  <2>1. \A x \in Octet : x \in Nat
    BY HalfByte DEF Octet
  <2>2. f.stream_id \in Nat
    BY <1>1, WordType
  <2>. QED
    BY <1>1, <2>1, <2>2
<1>5. Len(f.data) < Power[3]
  BY <1>3, FramesAssumption
<1>6. /\ Len(h) = 8 /\ h \in Seq(Nat) /\ ~IsControl(h)
      /\ Number(SubSeq(h, 1, 4)) = Mask31(f.stream_id)
      /\ h[5] = f.flags /\ PayloadLength(h) = Len(f.data)
  BY <1>3, <1>4, <1>5, DataHeaderReadBack
<1>7. OnTheWire(f) = [f EXCEPT !.stream_id = Mask31(@)]
  BY <1>1 DEF OnTheWire
<1>8. OnTheWire(f) = [type |-> "DATA", stream_id |-> Mask31(f.stream_id),
                      flags |-> f.flags, data |-> f.data]
  BY <1>1, <1>7
<1>9. Announces(h, p)
  BY <1>3, <1>4, <1>6 DEF Announces, Has
<1>. QED
  BY <1>2, <1>3, <1>6, <1>8, <1>9

(* A block is never longer than what Ratio makes of its compressed bytes.  *)
LEMMA BlockFits ==
  ASSUME Ratio <= Growth, NEW raw, NEW l \in Nat, Len(raw) = l, NEW c \in Nat, Deflated(raw) <= c
  PROVE  l <= (Growth * c) + Slack
<1>1. /\ Ratio \in Nat \ {0} /\ Growth \in Nat \ {0} /\ Slack \in Nat
  BY FramerAssumption
<1>. DEFINE q == l \div Ratio
<1>2. q \in Nat /\ l % Ratio \in 0..(Ratio - 1) /\ l = (q * Ratio) + (l % Ratio)
  BY <1>1, DivMod
<1>3. 1 + q <= c
  BY DEF Deflated
<1>. HIDE DEF q
<1>4. (q * Ratio) + Ratio = (1 + q) * Ratio
  BY <1>1, <1>2
<1>5. \A x, y, z, w \in Nat : x <= y /\ z <= w => x * z <= w * y
  <2>. SUFFICES ASSUME NEW x \in Nat, NEW y \in Nat, NEW z \in Nat, NEW w \in Nat, x <= y, z <= w
                PROVE  x * z <= w * y
    OBVIOUS
  <2>1. x * z <= y * z /\ y * z <= y * w /\ y * w = w * y
    OBVIOUS
  <2>. QED
    BY <2>1
<1>6. (1 + q) * Ratio <= Growth * c
  BY <1>1, <1>2, <1>3, <1>5
<1>7. l <= (q * Ratio) + Ratio
  BY <1>1, <1>2
<1>8. Growth * c \in Nat /\ q * Ratio \in Nat
  BY <1>1, <1>2
<1>. QED
  BY <1>1, <1>2, <1>4, <1>6, <1>7, <1>8

(* The next block of the direction is inflated and parsed.                 *)
LEMMA BlockInflated ==
  ASSUME Ratio <= Growth, NEW headers \in SentHeaders,
         NEW k \in Nat, k = inflated + 1, k \in DOMAIN blocks, blocks[k] = EncodeHeaders(headers),
         NEW bytes, bytes = CompressHeaders(blocks[k], k)
  PROVE  DecompressHeaders(bytes) = [headers |-> headers]
<1>. DEFINE raw == blocks[k]
            l == Len(raw)
            c == Len(bytes)
            capacity == (Growth * c) + Slack
<1>1. raw \in Seq(Nat) /\ ParseHeaderBlock[raw] = [headers |-> headers]
  BY HeadersReadBack
<1>2. l \in Nat
  BY <1>1, LenProperties
<1>3. DecompressHeaders(bytes) = ParseHeaderBlock[SubSeq(raw, 1, Min({capacity, l}))]
  BY DEF DecompressHeaders
<1>. HIDE DEF raw
<1>4. bytes = CompressHeaders(raw, k)
  BY DEF raw
<1>5. bytes \in Seq(Nat) /\ Deflated(raw) \in Nat /\ Deflated(raw) <= c
  BY <1>2, <1>4, CompressedType
<1>6. c \in Nat
  BY <1>5, LenProperties
<1>. HIDE DEF l, c
<1>7. l <= capacity
  BY <1>2, <1>5, <1>6, BlockFits DEF l
<1>8. capacity \in Nat
  <2>1. Growth \in Nat /\ Slack \in Nat
    BY FramerAssumption
  <2>2. \A x, y, z \in Nat : (x * y) + z \in Nat
    OBVIOUS
  <2>. QED
    BY <1>6, <2>1, <2>2
<1>. HIDE DEF capacity
<1>9. Min({capacity, l}) = l
  <2>1. {capacity, l} \in SUBSET Nat /\ {capacity, l} # {}
    BY <1>2, <1>8
  <2>2. Min({capacity, l}) \in {capacity, l} /\ \A y \in {capacity, l} : Min({capacity, l}) <= y
    BY <2>1, MinFacts
  <2>. QED
    BY <1>2, <1>7, <1>8, <2>2
<1>10. SubSeq(raw, 1, l) = raw
  <2>1. At(raw, 1, raw)
    BY <1>1, AtAll
  <2>2. l = 1 + Len(raw) - 1
    BY <1>2 DEF l
  <2>. QED
    BY <2>1, <2>2, AtSubSeq
<1>. QED
  BY <1>1, <1>3, <1>9, <1>10

(* What is left of read_frame once the payload is there.                   *)
ParseFrame(p) ==
  IF IsControl(header) THEN ParseControlFrame(p) ELSE Return(DataFrame(p)) /\ UNCHANGED inflated

BlockCount(f) == IF HasBlock(f.type) THEN 1 ELSE 0

(* The bytes of a frame become that frame.                                 *)
LEMMA FrameReturned ==
  ASSUME Ratio <= Growth, NEW f \in Frames, NEW k \in 1..MaxFrames,
         inflated \in Nat, k = inflated + 1,
         HasBlock(f.type) => k \in DOMAIN blocks /\ blocks[k] = EncodeHeaders(f.headers),
         header = FrameHead(f, k), NEW p, p = FramePayload(f, k), ParseFrame(p)
  PROVE  /\ got' = Append(got, OnTheWire(f)) /\ outcome' = outcome
         /\ inflated' = inflated + BlockCount(f)
<1>1. f \in ControlFrames(SentHeaders) \/ f \in DataFrames
  BY FramesAssumption
<1>2. CASE f \in DataFrames
  <2>1. /\ ~IsControl(header) /\ ~HasBlock(f.type)
        /\ OnTheWire(f) = [type |-> "DATA", stream_id |-> Number(SubSeq(header, 1, 4)),
                           flags |-> header[5], data |-> p]
    BY <1>2, DataFrameBytes
  <2>2. OnTheWire(f) = DataFrame(p)
    BY <2>1 DEF DataFrame
  <2>3. Return(DataFrame(p)) /\ UNCHANGED inflated
    BY <2>1 DEF ParseFrame
  <2>4. inflated = inflated + 0
    OBVIOUS
  <2>. QED
    BY <2>1, <2>2, <2>3, <2>4 DEF Return, BlockCount
<1>3. CASE f \in ControlFrames(SentHeaders)
  <2>. DEFINE code == Number(SubSeq(header, 3, 4))
              type == CHOOSE t \in DOMAIN TypeCode : TypeCode[t] = code
              block == DecompressHeaders(SubSeq(p, MinPayload[type] + 1, Len(p)))
  <2>1. /\ IsControl(header)
        /\ f.type \in DOMAIN TypeCode /\ code = TypeCode[f.type]
        /\ ~Refused(f.type, p)
        /\ HasBlock(f.type) => SubSeq(p, MinPayload[f.type] + 1, Len(p)) = FrameBlock(f, k)
        /\ \A headers : (HasBlock(f.type) => headers = f.headers) =>
                         ParsePayload(f.type, header[5], p, headers) = OnTheWire(f)
    BY <1>3, ControlFrameBytes
  <2>2. type = f.type
    <3>1. \A t \in DOMAIN TypeCode : TypeCode[t] = TypeCode[f.type] => t = f.type
      BY <2>1 DEF TypeCode
    <3>. QED
      BY <2>1, <3>1
  <2>3. ParseControlFrame(p)
    BY <2>1 DEF ParseFrame
  <2>4. code \in {TypeCode[t] : t \in DOMAIN TypeCode}
    BY <2>1
  <2>5. HasBlock(f.type) => block = [headers |-> f.headers]
    <3>. SUFFICES ASSUME HasBlock(f.type) PROVE block = [headers |-> f.headers]
      OBVIOUS
    <3>1. SubSeq(p, MinPayload[type] + 1, Len(p)) = CompressHeaders(blocks[k], k)
      BY <2>1, <2>2 DEF FrameBlock
    <3>2. f.headers \in SentHeaders /\ k \in Nat
      BY FramerAssumption DEF SentHeaders
    <3>. QED
      BY <3>1, <3>2, BlockInflated
  <2>6. IF HasBlock(type)
        THEN /\ IF "error" \in DOMAIN block
                THEN Fail(block.error)
                ELSE Return(ParsePayload(type, header[5], p, block.headers))
             /\ inflated' = inflated + 1
        ELSE Return(ParsePayload(type, header[5], p, <<>>)) /\ UNCHANGED inflated
    BY <2>1, <2>2, <2>3, <2>4 DEF ParseControlFrame
  <2>. HIDE DEF code, type, block
  <2>7. CASE HasBlock(f.type)
    <3>1. block = [headers |-> f.headers]
      BY <2>5, <2>7
    <3>2. "error" \notin DOMAIN block /\ block.headers = f.headers
      BY <3>1
    <3>. QED
      BY <2>1, <2>2, <2>6, <2>7, <3>2 DEF Return, BlockCount
  <2>8. CASE ~HasBlock(f.type)
    <3>1. Return(ParsePayload(type, header[5], p, <<>>)) /\ UNCHANGED inflated
      BY <2>2, <2>6, <2>8
    <3>2. ParsePayload(f.type, header[5], p, <<>>) = OnTheWire(f)
      BY <2>1, <2>8
    <3>3. inflated = inflated + 0
      OBVIOUS
    <3>. QED
      BY <2>2, <2>8, <3>1, <3>2, <3>3 DEF Return, BlockCount
  <2>. QED
    BY <2>7, <2>8
<1>. QED
  BY <1>1, <1>2, <1>3

SentBlocks == {EncodeHeaders(headers) : headers \in SentHeaders}

Errors == {"protocol", "compression", "unknown_frame_type"}

(* Bytes that are no frame become none.                                    *)
LEMMA JunkRefused ==
  ASSUME NEW b, NoFrame(b), header = SubSeq(b, 1, 8),
         ~(IsControl(header) /\ Version(header) # SpdyVersion),
         NEW p, p = SubSeq(b, 9, Len(b)), ParseFrame(p),
         blocks \in Seq(SentBlocks), Len(blocks) <= MaxFrames, inflated \in Nat
  PROVE  got' = got /\ outcome' \in Errors
<1>. DEFINE code == Number(SubSeq(header, 3, 4))
            type == CHOOSE t \in DOMAIN TypeCode : TypeCode[t] = code
            bytes == SubSeq(p, MinPayload[type] + 1, Len(p))
            block == DecompressHeaders(bytes)
<1>1. /\ IsControl(header)
      /\ \A t \in DOMAIN TypeCode : code = TypeCode[t] =>
           \/ Refused(t, p)
           \/ /\ HasBlock(t)
              /\ \A headers \in SentHeaders, k \in 1..MaxFrames :
                   SubSeq(p, MinPayload[t] + 1, Len(p)) # CompressHeaders(EncodeHeaders(headers), k)
  BY DEF NoFrame
<1>2. ParseControlFrame(p)
  BY <1>1 DEF ParseFrame
<1>3. CASE code \notin {TypeCode[t] : t \in DOMAIN TypeCode}
  BY <1>2, <1>3 DEF ParseControlFrame, Fail, Errors
<1>4. CASE code \in {TypeCode[t] : t \in DOMAIN TypeCode}
  <2>1. type \in DOMAIN TypeCode /\ TypeCode[type] = code
    BY <1>4
  <2>2. IF Refused(type, p)
        THEN Fail("protocol") /\ UNCHANGED inflated
        ELSE IF HasBlock(type)
        THEN /\ IF "error" \in DOMAIN block
                THEN Fail(block.error)
                ELSE Return(ParsePayload(type, header[5], p, block.headers))
             /\ inflated' = inflated + 1
        ELSE Return(ParsePayload(type, header[5], p, <<>>)) /\ UNCHANGED inflated
    BY <1>2, <1>4 DEF ParseControlFrame
  <2>. HIDE DEF type
  <2>3. CASE Refused(type, p)
    BY <2>2, <2>3 DEF Fail, Errors
  <2>4. CASE ~Refused(type, p)
    <3>1. /\ HasBlock(type)
          /\ \A headers \in SentHeaders, k \in 1..MaxFrames :
               bytes # CompressHeaders(EncodeHeaders(headers), k)
      BY <1>1, <2>1, <2>4
    <3>2. ~(inflated + 1 \in DOMAIN blocks
            /\ bytes = CompressHeaders(blocks[inflated + 1], inflated + 1))
      <4>. SUFFICES ASSUME inflated + 1 \in DOMAIN blocks
                    PROVE  bytes # CompressHeaders(blocks[inflated + 1], inflated + 1)
        OBVIOUS
      <4>1. inflated + 1 \in 1..MaxFrames
        BY FramerAssumption
      <4>2. blocks[inflated + 1] \in SentBlocks
        OBVIOUS
      <4>. HIDE DEF bytes
      <4>. QED
        BY <3>1, <4>1, <4>2 DEF SentBlocks
    <3>3. block = [error |-> "compression"]
      <4>. HIDE DEF bytes
      <4>. QED
        BY <3>2 DEF DecompressHeaders
    <3>4. "error" \in DOMAIN block /\ block.error = "compression"
      BY <3>3
    <3>. HIDE DEF block
    <3>5. Fail("compression")
      BY <2>2, <2>4, <3>1, <3>4
    <3>. QED
      BY <3>5 DEF Fail, Errors
  <2>. QED
    BY <2>3, <2>4
<1>. QED
  BY <1>3, <1>4

----------------------------------------------------------------------------
(* The bytes behind one another.                                           *)

LEMMA SameAt ==
  ASSUME NEW s, NEW m, NEW t, At(s, m, t), NEW u, At(s, m, u), Len(t) = Len(u)
  PROVE  t = u
<1>. DEFINE n == m + Len(t) - 1
<1>1. n = m + Len(u) - 1
  OBVIOUS
<1>. HIDE DEF n
<1>2. SubSeq(s, m, n) = t
  BY AtSubSeq DEF n
<1>3. SubSeq(s, m, n) = u
  BY <1>1, AtSubSeq
<1>. QED
  BY <1>2, <1>3

(* Adjacent pieces are one piece.                                          *)
LEMMA AtJoin ==
  ASSUME NEW s, NEW m, NEW t, At(s, m, t), NEW u, At(s, m + Len(t), u)
  PROVE  At(s, m, t \o u)
<1>1. /\ s \in Seq(Nat) /\ t \in Seq(Nat) /\ m \in Nat \ {0} /\ u \in Seq(Nat)
      /\ \A i \in 1..Len(t) : s[m - 1 + i] = t[i]
      /\ \A i \in 1..Len(u) : s[m + Len(t) - 1 + i] = u[i]
      /\ m + Len(t) + Len(u) <= Len(s) + 1
  BY DEF At
<1>. DEFINE a == Len(t)
            b == Len(u)
            v == t \o u
<1>2. /\ a \in Nat /\ b \in Nat /\ v \in Seq(Nat) /\ Len(v) = a + b
      /\ \A i \in 1..a : v[i] = t[i]
      /\ \A i \in 1..b : v[a + i] = u[i]
  BY <1>1, Concat
<1>3. Len(s) \in Nat
  BY <1>1, LenProperties
<1>. HIDE DEF v
<1>4. ASSUME NEW i \in 1..Len(v) PROVE s[m - 1 + i] = v[i]
  <2>1. CASE i <= a
    <3>1. i \in 1..a
      BY <1>2, <2>1
    <3>2. v[i] = t[i]
      BY <1>2, <3>1
    <3>. QED
      BY <1>1, <3>1, <3>2
  <2>2. CASE i > a
    <3>. DEFINE j == i - a
    <3>1. j \in 1..b /\ i = a + j /\ m + a - 1 + j = m - 1 + i
      BY <1>1, <1>2, <2>2
    <3>. HIDE DEF j, a, b
    <3>2. s[m + Len(t) - 1 + j] = u[j]
      BY <1>1, <3>1 DEF b
    <3>. QED
      BY <1>2, <3>1, <3>2 DEF a
  <2>. QED
    BY <1>2, <2>1, <2>2
<1>. HIDE DEF a, b
<1>5. m + Len(v) <= Len(s) + 1
  BY <1>1, <1>2, <1>3 DEF a, b
<1>6. At(s, m, v)
  BY <1>1, <1>2, <1>4, <1>5 DEF At
<1>. QED
  BY <1>6 DEF v

(* The first n bytes of a piece, and the rest.                             *)
LEMMA AtSplit ==
  ASSUME NEW s, NEW m, NEW t, At(s, m, t), NEW n \in 0..Len(t)
  PROVE  /\ At(s, m, SubSeq(t, 1, n)) /\ Len(SubSeq(t, 1, n)) = n
         /\ At(s, m + n, SubSeq(t, n + 1, Len(t)))
         /\ Len(SubSeq(t, n + 1, Len(t))) = Len(t) - n
<1>1. /\ s \in Seq(Nat) /\ t \in Seq(Nat) /\ m \in Nat \ {0} /\ Len(t) \in Nat /\ Len(s) \in Nat
      /\ \A i \in 1..Len(t) : s[m - 1 + i] = t[i]
      /\ m + Len(t) <= Len(s) + 1
  BY LenProperties DEF At
<1>. DEFINE l == Len(t)
            a == SubSeq(t, 1, n)
            b == SubSeq(t, n + 1, l)
<1>2. l \in Nat /\ n \in Nat /\ n <= l
  BY <1>1
<1>3. /\ a \in Seq(Nat) /\ Len(a) = n /\ \A i \in 1..n : a[i] = t[i]
  BY <1>1, <1>2
<1>4. /\ b \in Seq(Nat) /\ Len(b) = l - n /\ \A i \in 1..(l - n) : b[i] = t[n + i]
  <2>1. \A i \in (n + 1)..l : t[i] \in Nat
    <3>. SUFFICES ASSUME NEW i \in (n + 1)..l PROVE t[i] \in Nat
      OBVIOUS
    <3>1. i \in 1..l
      <4>. HIDE DEF l
      <4>. QED
        BY <1>2
    <3>2. t \in Seq(Nat)
      BY <1>1
    <3>. QED
      BY ONLY <3>1, <3>2 DEF l
  <2>2. \A j, k \in Int :
          (\A i \in j..k : t[i] \in Nat) =>
            /\ SubSeq(t, j, k) \in Seq(Nat)
            /\ Len(SubSeq(t, j, k)) = IF j <= k THEN k - j + 1 ELSE 0
            /\ \A i \in 1..(k - j + 1) : SubSeq(t, j, k)[i] = t[j + i - 1]
    BY SubSeqProperties
  <2>. HIDE DEF l
  <2>3. n + 1 \in Int /\ l \in Int
    BY <1>2
  <2>4. /\ b \in Seq(Nat) /\ Len(b) = IF n + 1 <= l THEN l - (n + 1) + 1 ELSE 0
        /\ \A i \in 1..(l - (n + 1) + 1) : b[i] = t[(n + 1) + i - 1]
    BY <2>1, <2>2, <2>3
  <2>. HIDE DEF b
  <2>5. l - (n + 1) + 1 = l - n /\ \A i \in Nat : (n + 1) + i - 1 = n + i
    BY <1>2
  <2>. QED
    BY <1>2, <2>4, <2>5
<1>. HIDE DEF a, b
<1>5. At(s, m, a)
  <2>1. \A i \in 1..Len(a) : i \in 1..n /\ i \in 1..l
    BY <1>2, <1>3
  <2>2. \A i \in 1..Len(a) : s[m - 1 + i] = a[i]
    BY <1>1, <1>3, <2>1
  <2>3. m + Len(a) <= Len(s) + 1
    BY <1>1, <1>2, <1>3
  <2>. QED
    BY <1>1, <1>3, <2>2, <2>3 DEF At
<1>6. At(s, m + n, b)
  <2>1. ASSUME NEW i \in 1..Len(b) PROVE s[m + n - 1 + i] = b[i]
    <3>0. i \in 1..(l - n)
      BY <1>4
    <3>1. n + i \in 1..l /\ m + n - 1 + i = m - 1 + (n + i)
      <4>. HIDE DEF l
      <4>. QED
        BY <1>1, <1>2, <3>0
    <3>. QED
      BY <1>1, <1>4, <3>0, <3>1
  <2>. QED
    BY <1>1, <1>2, <1>4, <2>1 DEF At
<1>. QED
  BY <1>3, <1>4, <1>5, <1>6 DEF a, b, l

----------------------------------------------------------------------------
(* What the writer has done.                                               *)

(* Bytes up to the end of the i-th write.                                  *)
Off(e, i) == IF i = 0 THEN 0 ELSE e[i]

(* The write x put the bytes m + 1 .. l into the stream s; k is the number *)
(* the next block has.                                                     *)
FrameAt(x, s, m, l, bs, k) ==
  /\ x \in Frames
  /\ HasBlock(x.type) => k \in DOMAIN bs /\ bs[k] = EncodeHeaders(x.headers)
  /\ At(s, m + 1, FrameHead(x, k)) /\ At(s, m + 9, FramePayload(x, k))
  /\ l = m + 8 + Len(FramePayload(x, k))
JunkAt(x, s, m, l) ==
  x = Junk /\ \E b \in Malformed : At(s, m + 1, b) /\ l = m + Len(b)
IsAt(x, s, m, l, bs, k) == FrameAt(x, s, m, l, bs, k) \/ JunkAt(x, s, m, l)

(* blk[i]: the blocks in the first i writes.                               *)
Counts(w, blk, n) ==
  /\ blk \in [0..n -> Nat] /\ blk[0] = 0
  /\ \A i \in 1..n : blk[i] = blk[i - 1] + BlockCount(w[i])
  /\ \A i \in 0..n : blk[i] <= i
Placed(w, e, bs, s, blk, n) ==
  \A i \in 1..n : IsAt(w[i], s, Off(e, i - 1), Off(e, i), bs, blk[i - 1] + 1)
Apart(e, n) == \A i, j \in 0..n : i < j => Off(e, i) + 8 <= Off(e, j)

Writes(w, e, bs, s, blk) ==
  /\ w \in Seq(Frames \cup {Junk}) /\ Len(w) <= MaxFrames
  /\ e \in Seq(Nat) /\ Len(e) = Len(w)
  /\ s \in Seq(Nat) /\ Len(s) = Off(e, Len(w))
  /\ bs \in Seq(SentBlocks) /\ Len(bs) = blk[Len(w)]
  /\ Counts(w, blk, Len(w))
  /\ Placed(w, e, bs, s, blk, Len(w))
  /\ Apart(e, Len(w))

(* bs2 has the blocks of bs, and perhaps more.                             *)
Extends(bs2, bs) == \A j \in DOMAIN bs : j \in DOMAIN bs2 /\ bs2[j] = bs[j]

(* A longer stream keeps what is in it.                                    *)
LEMMA IsAtGrows ==
  ASSUME NEW x, NEW s, NEW m, NEW l, NEW bs, NEW k, IsAt(x, s, m, l, bs, k),
         NEW d \in Seq(Nat), NEW bs2, Extends(bs2, bs)
  PROVE  IsAt(x, s \o d, m, l, bs2, k)
<1>0. \A j, t : At(s, j, t) => At(s \o d, j, t)
  BY AtFront
<1>1. CASE FrameAt(x, s, m, l, bs, k)
  BY <1>0, <1>1 DEF FrameAt, IsAt, Extends
<1>2. CASE JunkAt(x, s, m, l)
  BY <1>0, <1>2 DEF JunkAt, IsAt
<1>. QED
  BY <1>1, <1>2 DEF IsAt

(* w2 begins with w.                                                       *)
Begins(w2, w, n) == \A i \in 1..n : w2[i] = w[i]

(* One more frame adds its block to the count.                             *)
LEMMA CountsAppend ==
  ASSUME NEW w, NEW x, NEW n \in Nat, Len(w) = n, NEW blk, Counts(w, blk, n),
         NEW w2, w2[n + 1] = x, Begins(w2, w, n)
  PROVE  \E b : /\ Counts(w2, b, n + 1) /\ b[n + 1] = blk[n] + BlockCount(x)
                /\ \A i \in 0..n : b[i] = blk[i]
<1>. DEFINE b == [i \in 0..(n + 1) |-> IF i = n + 1 THEN blk[n] + BlockCount(x) ELSE blk[i]]
<1>1. /\ blk \in [0..n -> Nat] /\ blk[0] = 0
      /\ \A i \in 1..n : blk[i] = blk[i - 1] + BlockCount(w[i])
      /\ \A i \in 0..n : blk[i] <= i
  BY DEF Counts
<1>0. \A i \in 1..n : w2[i] = w[i]
  BY DEF Begins
<1>2. BlockCount(x) \in 0..1
  BY DEF BlockCount
<1>3. b[n + 1] = blk[n] + BlockCount(x) /\ \A i \in 0..n : b[i] = blk[i]
  OBVIOUS
<1>4. b \in [0..(n + 1) -> Nat]
  <2>1. ASSUME NEW i \in 0..(n + 1)
        PROVE  (IF i = n + 1 THEN blk[n] + BlockCount(x) ELSE blk[i]) \in Nat
    <3>1. CASE i = n + 1
      <4>1. blk[n] \in Nat
        BY <1>1
      <4>. QED
        BY <4>1, <3>1, <1>2
    <3>2. CASE i # n + 1
      <4>1. i \in 0..n
        BY <3>2
      <4>. QED
        BY <4>1, <3>2, <1>1
    <3>. QED
      BY <3>1, <3>2
  <2>. QED
    BY <2>1
<1>. HIDE DEF b
<1>5. ASSUME NEW i \in 1..(n + 1) PROVE b[i] = b[i - 1] + BlockCount(w2[i])
  <2>1. CASE i = n + 1
    <3>1. b[n] = blk[n] /\ n \in 0..n /\ i - 1 = n
      BY <1>3, <2>1
    <3>. QED
      BY <1>3, <2>1, <3>1
  <2>2. CASE i # n + 1
    <3>1. i \in 1..n /\ i \in 0..n /\ i - 1 \in 0..n
      BY <2>2
    <3>. QED
      BY <1>0, <1>1, <1>3, <3>1
  <2>. QED
    BY <2>1, <2>2
<1>6. ASSUME NEW i \in 0..(n + 1) PROVE b[i] <= i
  <2>1. CASE i = n + 1
    <3>1. blk[n] \in Nat /\ blk[n] <= n
      BY <1>1
    <3>. QED
      BY <1>2, <1>3, <2>1, <3>1
  <2>2. CASE i # n + 1
    <3>1. i \in 0..n
      BY <2>2
    <3>. QED
      BY <1>1, <1>3, <3>1
  <2>. QED
    BY <2>1, <2>2
<1>7. b[0] = 0
  BY <1>1, <1>3
<1>8. Counts(w2, b, n + 1)
  BY <1>4, <1>5, <1>6, <1>7 DEF Counts
<1>. QED
  BY <1>3, <1>8

(* The frames stay apart when one more is written.                         *)
LEMMA ApartAppend ==
  ASSUME NEW n \in Nat, NEW e \in Seq(Nat), Len(e) = n, Apart(e, n),
         NEW l \in Nat, Off(e, n) + 8 <= l, NEW e2, e2 = Append(e, l)
  PROVE  /\ Apart(e2, n + 1) /\ Off(e2, n + 1) = l
         /\ \A i \in 0..n : Off(e2, i) = Off(e, i) /\ Off(e, i) \in Nat
<1>1. /\ e2 \in Seq(Nat) /\ Len(e2) = n + 1 /\ e2[n + 1] = l /\ \A i \in 1..n : e2[i] = e[i]
  BY AppendProperties
<1>2. Off(e2, n + 1) = l
  BY <1>1 DEF Off
<1>3. ASSUME NEW i \in 0..n PROVE Off(e2, i) = Off(e, i) /\ Off(e, i) \in Nat
  <2>1. i = 0 \/ i \in 1..n
    OBVIOUS
  <2>2. \A j \in 1..n : e[j] \in Nat
    OBVIOUS
  <2>. QED
    BY <1>1, <2>1, <2>2 DEF Off
<1>4. ASSUME NEW i \in 0..(n + 1), NEW j \in 0..(n + 1), i < j PROVE Off(e2, i) + 8 <= Off(e2, j)
  <2>0. i \in 0..n
    BY <1>4
  <2>1. CASE j \in 0..n
    BY <1>3, <1>4, <2>0, <2>1 DEF Apart
  <2>2. CASE j = n + 1
    <3>1. i = n \/ (i < n /\ n \in 0..n)
      BY <2>0
    <3>2. Off(e, i) <= Off(e, n)
      <4>1. CASE i = n
        BY <4>1, <1>3, <2>0
      <4>2. CASE i < n /\ n \in 0..n
        <5>1. Off(e, i) + 8 <= Off(e, n)
          BY <2>0, <4>2 DEF Apart
        <5>. QED
          BY <5>1, <1>3, <2>0, <4>2
      <4>. QED
        BY <3>1, <4>1, <4>2
    <3>3. Off(e, i) \in Nat /\ Off(e, n) \in Nat
      BY <1>3, <2>0
    <3>. QED
      BY <1>2, <1>3, <2>0, <2>2, <3>2, <3>3
  <2>. QED
    BY <2>1, <2>2
<1>. QED
  BY <1>2, <1>3, <1>4 DEF Apart

(* The write x of the bytes d leaves w2, e2 and bs2.                       *)
Write(w, e, bs, s, x, d, w2, e2, bs2) ==
  /\ x \in Frames \cup {Junk} /\ Len(w) < MaxFrames
  /\ d \in Seq(Nat) /\ Len(d) >= 8
  /\ bs2 \in Seq(SentBlocks) /\ Len(bs2) = Len(bs) + BlockCount(x) /\ Extends(bs2, bs)
  /\ w2 = Append(w, x) /\ e2 = Append(e, Len(s) + Len(d))
  /\ IsAt(x, s \o d, Len(s), Len(s) + Len(d), bs2, Len(bs) + 1)

(* i writes are where they were.                                           *)
Unmoved(i, e, blk, e2, blk2) == blk2[i] = blk[i] /\ Off(e2, i) = Off(e, i)

(* The bytes written stay those of the frames when one more is written.    *)
LEMMA WritesAppend ==
  ASSUME NEW w, NEW e, NEW bs, NEW s, NEW blk, Writes(w, e, bs, s, blk),
         NEW x, NEW d, NEW w2, NEW e2, NEW bs2, Write(w, e, bs, s, x, d, w2, e2, bs2)
  PROVE  \E blk2 : /\ Writes(w2, e2, bs2, s \o d, blk2)
                   /\ \A i \in 0..Len(w) : Unmoved(i, e, blk, e2, blk2)
<1>0. /\ x \in Frames \cup {Junk} /\ Len(w) < MaxFrames
      /\ d \in Seq(Nat) /\ Len(d) >= 8
      /\ bs2 \in Seq(SentBlocks) /\ Len(bs2) = Len(bs) + BlockCount(x) /\ Extends(bs2, bs)
      /\ w2 = Append(w, x) /\ e2 = Append(e, Len(s) + Len(d))
      /\ IsAt(x, s \o d, Len(s), Len(s) + Len(d), bs2, Len(bs) + 1)
  BY DEF Write
<1>. USE <1>0
<1>. DEFINE n == Len(w)
            u == s \o d
            l == Len(s) + Len(d)
<1>1. /\ w \in Seq(Frames \cup {Junk}) /\ e \in Seq(Nat) /\ Len(e) = n
      /\ s \in Seq(Nat) /\ Len(s) = Off(e, n)
      /\ bs \in Seq(SentBlocks) /\ Len(bs) = blk[n]
      /\ Counts(w, blk, n) /\ Placed(w, e, bs, s, blk, n) /\ Apart(e, n)
  BY DEF Writes
<1>2. /\ n \in Nat /\ Len(w2) = n + 1 /\ w2[n + 1] = x /\ \A i \in 1..n : w2[i] = w[i]
      /\ w2 \in Seq(Frames \cup {Junk})
  BY <1>1, AppendProperties
<1>3. u \in Seq(Nat) /\ Len(u) = l /\ Len(s) \in Nat /\ Len(d) \in Nat
  BY <1>1, Concat
<1>4. l \in Nat /\ Off(e, n) + 8 <= l
  <2>1. Off(e, n) = Len(s) /\ Len(s) \in Nat /\ Len(d) \in Nat /\ Len(d) >= 8
    BY ONLY <1>0, <1>1, <1>3
  <2>2. \A a, b \in Nat : b >= 8 => a + b \in Nat /\ a + 8 <= a + b
    OBVIOUS
  <2>. QED
    BY ONLY <2>1, <2>2 DEF l
<1>5. /\ e2 \in Seq(Nat) /\ Len(e2) = n + 1
  <2>1. e \in Seq(Nat) /\ l \in Nat /\ Len(e) = n /\ e2 = Append(e, l)
    BY <1>1, <1>4
  <2>. QED
    BY ONLY <2>1, AppendProperties
<1>6. IsAt(x, u, Off(e, n), l, bs2, blk[n] + 1)
  BY <1>1
<1>7. e2 = Append(e, l)
  OBVIOUS
<1>. HIDE DEF n, u, l
<1>8. /\ Apart(e2, n + 1) /\ Off(e2, n + 1) = l
      /\ \A i \in 0..n : Off(e2, i) = Off(e, i) /\ Off(e, i) \in Nat
  <2>1. /\ n \in Nat /\ e \in Seq(Nat) /\ Len(e) = n /\ Apart(e, n)
        /\ l \in Nat /\ Off(e, n) + 8 <= l
    BY <1>1, <1>2, <1>4
  <2>2. \A l2 \in Nat : Off(e, n) + 8 <= l2 => \A e3 : e3 = Append(e, l2) =>
          /\ Apart(e3, n + 1) /\ Off(e3, n + 1) = l2
          /\ \A i \in 0..n : Off(e3, i) = Off(e, i) /\ Off(e, i) \in Nat
    BY ONLY <2>1, ApartAppend, Zenon
  <2>3. e2 = Append(e, l) => /\ Apart(e2, n + 1) /\ Off(e2, n + 1) = l
          /\ \A i \in 0..n : Off(e2, i) = Off(e, i) /\ Off(e, i) \in Nat
    BY ONLY <2>1, <2>2
  <2>. QED
    BY ONLY <1>7, <2>3
<1>9. PICK b : /\ Counts(w2, b, n + 1) /\ b[n + 1] = blk[n] + BlockCount(x)
               /\ \A i \in 0..n : b[i] = blk[i]
  <2>1. \E b : /\ Counts(w2, b, n + 1) /\ b[n + 1] = blk[n] + BlockCount(x)
               /\ \A i \in 0..n : b[i] = blk[i]
    <3>1. n \in Nat /\ Len(w) = n /\ Counts(w, blk, n) /\ w2[n + 1] = x /\ Begins(w2, w, n)
      BY <1>1, <1>2 DEF n, Begins
    <3>. QED
      <4>1. \A v : v[n + 1] = x /\ Begins(v, w, n) =>
              \E c : /\ Counts(v, c, n + 1) /\ c[n + 1] = blk[n] + BlockCount(x)
                    /\ \A i \in 0..n : c[i] = blk[i]
        BY ONLY <3>1, CountsAppend
      <4>. QED
        BY ONLY <3>1, <4>1
  <2>. QED
    BY <2>1
<1>10. ASSUME NEW i \in 1..(n + 1)
       PROVE  IsAt(w2[i], u, Off(e2, i - 1), Off(e2, i), bs2, b[i - 1] + 1)
  <2>1. CASE i = n + 1
    <3>1. i - 1 = n /\ n \in 0..n
      BY <1>2, <2>1
    <3>2. /\ w2[i] = x /\ Off(e2, i - 1) = Off(e, n) /\ Off(e2, i) = l
          /\ b[i - 1] + 1 = blk[n] + 1
      BY <1>2, <1>8, <1>9, <2>1, <3>1
    <3>. QED
      BY <1>6, <3>2
  <2>2. CASE i # n + 1
    <3>1. i \in 1..n /\ i \in 0..n /\ i - 1 \in 0..n
      BY <1>2, <2>2, SMTT(30)
    <3>2. IsAt(w[i], s, Off(e, i - 1), Off(e, i), bs, blk[i - 1] + 1)
      BY <1>1, <3>1 DEF Placed
    <3>3. IsAt(w[i], u, Off(e, i - 1), Off(e, i), bs2, blk[i - 1] + 1)
      BY <3>2, IsAtGrows DEF u
    <3>. QED
      BY <1>2, <1>8, <1>9, <3>1, <3>3
  <2>. QED
    BY <2>1, <2>2
<1>11. Placed(w2, e2, bs2, u, b, n + 1)
  BY <1>10 DEF Placed
<1>12. n + 1 <= MaxFrames
  BY <1>2, FramerAssumption DEF n
<1>13. Writes(w2, e2, bs2, u, b)
  BY <1>1, <1>2, <1>3, <1>5, <1>8, <1>9, <1>11, <1>12 DEF Writes
<1>. QED
  BY <1>8, <1>9, <1>13 DEF n, u, Unmoved

----------------------------------------------------------------------------
(* The invariant.                                                          *)

(* The frames returned are the first ones written.                         *)
Delivered ==
  /\ got \in Seq({OnTheWire(f) : f \in Frames}) /\ Len(got) <= Len(wrote)
  /\ \A i \in 1..Len(got) : wrote[i] # Junk /\ got[i] = OnTheWire(wrote[i])

(* A reader that goes on is in step with the writer: the bytes it has not  *)
(* consumed are on the wire or still pending, its decompressor is where    *)
(* the blocks of the frames returned have left it.                         *)
HeaderRead(s) ==
  \/ header = <<>>
  \/ /\ Has(header, 8) /\ At(s, Off(ends, Len(got)) + 1, header)
     /\ Len(got) < Len(wrote)
     /\ ~(IsControl(header) /\ Version(header) # SpdyVersion)
Reading(s, blk) ==
  /\ inflated = blk[Len(got)]
  /\ consumed \in Nat /\ consumed = Off(ends, Len(got)) + Len(header)
  /\ HeaderRead(s)
  /\ At(s, consumed + 1, wire)
  /\ open => /\ At(s, consumed + 1 + Len(wire), pending)
             /\ consumed + Len(wire) + Len(pending) = Len(s)

(* Where a reader that saw the end of the transport stopped.               *)
AtEnd ==
  /\ ~open /\ wire = <<>> /\ consumed \in Nat
  /\ Off(ends, Len(got)) <= consumed
  /\ Len(got) < Len(wrote) => consumed < Off(ends, Len(got) + 1)
  /\ outcome = "io" <=> Len(got) < Len(wrote) /\ consumed >= Off(ends, Len(got)) + 8

InStep(s, blk) ==
  Writes(wrote, ends, blocks, s, blk) /\ (outcome = "reading" => Reading(s, blk))

FramerInv ==
  /\ Delivered
  /\ ~open => pending = <<>>
  /\ outcome \in {"reading", "closed", "io"} \cup Errors
  /\ NoFrameRefused
  /\ outcome \in {"closed", "io"} => AtEnd
  /\ \E s, blk : InStep(s, blk)

(* Nothing is written and nothing read at first.                           *)
LEMMA InitFramerInv == Init => FramerInv
<1>. SUFFICES ASSUME Init PROVE FramerInv
  OBVIOUS
<1>. DEFINE blk == [i \in 0..0 |-> 0]
            s == <<>>
<1>1. s \in Seq(Nat) /\ Len(s) = 0 /\ blk \in [0..0 -> Nat] /\ blk[0] = 0
  OBVIOUS
<1>2. /\ wrote = s /\ ends = s /\ blocks = s /\ got = s /\ header = s /\ wire = s /\ pending = s
      /\ inflated = 0 /\ consumed = 0 /\ outcome = "reading" /\ open
  BY DEF Init
<1>3. \A S : <<>> \in Seq(S)
  OBVIOUS
<1>4. At(s, 1, s)
  BY <1>1, AtAll
<1>5. MaxFrames \in Nat
  BY FramerAssumption
<1>6. 1..0 = {} /\ 0..0 = {0}
  OBVIOUS
<1>7. s \in Seq(Frames \cup {Junk}) /\ s \in Seq(SentBlocks) /\ s \in Seq({OnTheWire(f) : f \in Frames})
  BY <1>3
<1>8. s = <<>>
  OBVIOUS
<1>. HIDE DEF s, blk
<1>9. Counts(s, blk, 0) /\ Placed(s, s, s, s, blk, 0) /\ Apart(s, 0) /\ Off(s, 0) = 0
  BY <1>1, <1>6 DEF Counts, Placed, Apart, Off
<1>10. Writes(wrote, ends, blocks, s, blk)
  BY <1>1, <1>2, <1>5, <1>7, <1>9 DEF Writes
<1>11. Reading(s, blk)
  <2>1. consumed + 1 = 1 /\ consumed + 1 + Len(wire) = 1 /\ consumed = 0 + Len(header)
    BY <1>1, <1>2
  <2>2. consumed + Len(wire) + Len(pending) = Len(s)
    BY <1>1, <1>2
  <2>3. HeaderRead(s)
    BY <1>2, <1>8 DEF HeaderRead
  <2>4. inflated = blk[Len(got)] /\ Off(ends, Len(got)) = 0
    BY <1>1, <1>2, <1>9
  <2>. QED
    BY <1>2, <1>4, <2>1, <2>2, <2>3, <2>4 DEF Reading
<1>12. Delivered
  BY <1>1, <1>2, <1>6, <1>7 DEF Delivered
<1>13. NoFrameRefused /\ outcome \notin {"closed", "io"} /\ outcome \in {"reading", "closed", "io"} \cup Errors
  BY <1>2 DEF NoFrameRefused
<1>. QED
  BY <1>2, <1>10, <1>11, <1>12, <1>13 DEF FramerInv, InStep

----------------------------------------------------------------------------
(* The writer's steps.                                                     *)

(* A write behind the stream.                                              *)
LEMMA Appended ==
  ASSUME NEW s \in Seq(Nat), NEW h \in Seq(Nat), NEW p \in Seq(Nat),
         NEW d, JoinedOf(d, h, p), NEW u, JoinedOf(u, s, d)
  PROVE  /\ At(u, Len(s) + 1, h) /\ At(u, Len(s) + 1 + Len(h), p)
         /\ u \in Seq(Nat) /\ Len(u) = Len(s) + Len(h) + Len(p)
         /\ d \in Seq(Nat) /\ Len(d) = Len(h) + Len(p)
         /\ \A m, t : At(s, m, t) => At(u, m, t)
<1>. DEFINE a == Len(s)
            b == Len(h)
            c == Len(p)
<1>1. a \in Nat /\ b \in Nat /\ c \in Nat /\ Has(s, a) /\ Has(h, b) /\ Has(p, c)
  BY LenProperties DEF Has
<1>2. At(h, 1, h)
  BY AtAll
<1>. HIDE DEF a, b, c
<1>3. Has(d, b + c) /\ At(d, b + 1, p) /\ At(d, 1, h)
  BY <1>1, <1>2, Joined
<1>4. Has(u, a + (b + c)) /\ At(u, a + 1, d) /\ \A m, t : At(s, m, t) => At(u, m, t)
  BY <1>1, <1>3, Joined
<1>5. At(u, (a + 1) - 1 + 1, h) /\ At(u, (a + 1) - 1 + (b + 1), p)
  BY <1>3, <1>4, AtWithin
<1>6. (a + 1) - 1 + 1 = a + 1 /\ (a + 1) - 1 + (b + 1) = a + 1 + b /\ a + (b + c) = a + b + c
  BY <1>1
<1>. QED
  BY <1>3, <1>4, <1>5, <1>6 DEF a, b, c, Has

(* The reader is where it was when the peer writes more.                   *)
LEMMA ReadingGrows ==
  ASSUME NEW s \in Seq(Nat), NEW blk, Reading(s, blk), Len(got) \in Nat, Len(wrote) \in Nat,
         open, open', pending = <<>>,
         NEW h \in Seq(Nat), NEW p \in Seq(Nat), wire' = wire \o h, pending' = p,
         NEW d, JoinedOf(d, h, p), NEW u, JoinedOf(u, s, d),
         inflated' = inflated, header' = header, consumed' = consumed, got' = got,
         Len(wrote') = Len(wrote) + 1,
         NEW blk2, blk2[Len(got)] = blk[Len(got)], Off(ends', Len(got)) = Off(ends, Len(got))
  PROVE  Reading(u, blk2)'
<1>1. /\ inflated = blk[Len(got)] /\ consumed = Off(ends, Len(got)) + Len(header)
      /\ HeaderRead(s) /\ At(s, consumed + 1, wire) /\ consumed \in Nat
      /\ consumed + Len(wire) + Len(pending) = Len(s)
  BY DEF Reading
<1>2. wire \in Seq(Nat)
  BY <1>1 DEF At
<1>3. Len(wire) \in Nat /\ Len(pending) = 0 /\ Len(h) \in Nat /\ Len(p) \in Nat /\ Len(s) \in Nat
  BY <1>2, LenProperties
<1>4. /\ At(u, Len(s) + 1, h) /\ At(u, Len(s) + 1 + Len(h), p)
      /\ u \in Seq(Nat) /\ Len(u) = Len(s) + Len(h) + Len(p)
      /\ \A m, t : At(s, m, t) => At(u, m, t)
  <2>1. JoinedOf(d, h, p) /\ JoinedOf(u, s, d)
    OBVIOUS
  <2>. QED
    BY ONLY <2>1, Appended
<1>5. Len(s) + 1 = consumed + 1 + Len(wire)
  <2>1. /\ consumed \in Nat /\ Len(wire) \in Nat /\ Len(pending) = 0
        /\ consumed + Len(wire) + Len(pending) = Len(s)
    BY ONLY <1>1, <1>3
  <2>. QED
    BY ONLY <2>1
<1>6. At(u, consumed + 1, wire) /\ At(u, (consumed + 1) + Len(wire), h)
  BY <1>1, <1>4, <1>5
<1>7. At(u, consumed + 1, wire \o h)
  BY <1>6, AtJoin
<1>8. Len(wire \o h) = Len(wire) + Len(h)
  BY <1>2, Concat
<1>9. /\ At(u, consumed + 1 + Len(wire \o h), p)
      /\ consumed + Len(wire \o h) + Len(p) = Len(u)
  <2>. DEFINE x == Len(wire)
              y == Len(h)
              z == Len(p)
              w == Len(s)
              v == Len(wire \o h)
  <2>1. v = x + y /\ w + 1 = consumed + 1 + x /\ consumed \in Nat
    BY <1>1, <1>5, <1>8
  <2>2. x \in Nat /\ y \in Nat /\ z \in Nat /\ w \in Nat
    BY <1>3
  <2>3. At(u, w + 1 + y, p) /\ Len(u) = w + y + z
    BY <1>4
  <2>. HIDE DEF x, y, z, w, v
  <2>4. w + 1 + y = consumed + 1 + v /\ w + y + z = consumed + v + z
    BY <2>1, <2>2
  <2>. QED
    BY <2>3, <2>4 DEF z, v
<1>10. HeaderRead(u)'
  <2>1. HeaderRead(s)
    BY <1>1
  <2>. QED
    BY <2>1, <1>4 DEF HeaderRead
<1>. QED
  BY <1>1, <1>7, <1>9, <1>10 DEF Reading

(* The bytes on the wire end where the last frame ends.                    *)
LEMMA TotalIsLength ==
  ASSUME NEW s, NEW blk, InStep(s, blk)
  PROVE  /\ Total = Len(s) /\ s \in Seq(Nat) /\ Len(s) \in Nat
         /\ Len(wrote) \in Nat /\ Len(ends) = Len(wrote)
         /\ blocks \in Seq(SentBlocks) /\ Len(blocks) \in Nat /\ Len(blocks) <= Len(wrote)
<1>1. /\ ends \in Seq(Nat) /\ Len(ends) = Len(wrote) /\ wrote \in Seq(Frames \cup {Junk})
      /\ s \in Seq(Nat) /\ Len(s) = Off(ends, Len(wrote))
      /\ blocks \in Seq(SentBlocks) /\ Len(blocks) = blk[Len(wrote)]
      /\ Counts(wrote, blk, Len(wrote))
  BY DEF InStep, Writes
<1>2. Len(wrote) \in Nat /\ Len(s) \in Nat /\ Len(blocks) \in Nat /\ (ends = <<>> <=> Len(ends) = 0)
  BY <1>1, LenProperties, EmptySeq
<1>3. Total = Len(s)
  BY <1>1, <1>2 DEF Total, Off
<1>4. Len(blocks) <= Len(wrote)
  <2>1. Len(wrote) \in 0..Len(wrote)
    BY <1>2
  <2>. QED
    BY <1>1, <2>1 DEF Counts
<1>. QED
  BY <1>1, <1>2, <1>3, <1>4

(* What a write puts behind the stream is where it belongs.                *)
LEMMA WrittenIsAt ==
  ASSUME NEW x, NEW h \in Seq(Nat), NEW p \in Seq(Nat), NEW bs, NEW k,
         \/ /\ x \in Frames /\ h = FrameHead(x, k) /\ p = FramePayload(x, k) /\ Len(h) = 8
            /\ HasBlock(x.type) => k \in DOMAIN bs /\ bs[k] = EncodeHeaders(x.headers)
         \/ x = Junk /\ h \in Malformed /\ p = <<>>,
         NEW s \in Seq(Nat), NEW d, JoinedOf(d, h, p), NEW u, JoinedOf(u, s, d)
  PROVE  IsAt(x, u, Len(s), Len(s) + Len(d), bs, k)
<1>1. /\ At(u, Len(s) + 1, h) /\ At(u, Len(s) + 1 + Len(h), p)
      /\ Len(d) = Len(h) + Len(p)
  <2>1. JoinedOf(d, h, p) /\ JoinedOf(u, s, d)
    OBVIOUS
  <2>. QED
    BY ONLY <2>1, Appended
<1>2. Len(s) \in Nat /\ Len(h) \in Nat /\ Len(p) \in Nat
  BY LenProperties
<1>3. CASE /\ x \in Frames /\ h = FrameHead(x, k) /\ p = FramePayload(x, k) /\ Len(h) = 8
           /\ HasBlock(x.type) => k \in DOMAIN bs /\ bs[k] = EncodeHeaders(x.headers)
  <2>. DEFINE a == Len(s)
              c == Len(p)
  <2>1. a \in Nat /\ c \in Nat /\ At(u, a + 1 + 8, p) /\ Len(d) = 8 + c
    BY <1>1, <1>2, <1>3
  <2>. HIDE DEF a, c
  <2>2. a + 1 + 8 = a + 9 /\ a + Len(d) = a + 8 + c
    BY <2>1
  <2>3. At(u, a + 9, p)
    BY <2>1, <2>2
  <2>4. Len(s) + Len(d) = Len(s) + 8 + Len(p)
    BY <2>2 DEF a, c
  <2>5. At(u, Len(s) + 9, p)
    BY <2>3 DEF a
  <2>. QED
    BY <1>1, <1>3, <2>4, <2>5 DEF IsAt, FrameAt
<1>4. CASE x = Junk /\ h \in Malformed /\ p = <<>>
  <2>1. Len(d) = Len(h)
    BY <1>1, <1>2, <1>4
  <2>. QED
    BY <1>1, <1>4, <2>1 DEF IsAt, JunkAt
<1>. QED
  BY <1>3, <1>4

(* What the peer writes leaves the reader where it was.                    *)
LEMMA WriteKeepsInv ==
  ASSUME FramerInv, NEW x \in Frames \cup {Junk}, CanWrite,
         NEW h \in Seq(Nat), NEW p \in Seq(Nat), Len(h) >= 8,
         \/ /\ x \in Frames /\ h = FrameHead(x, Len(blocks) + 1)
            /\ p = FramePayload(x, Len(blocks) + 1) /\ Len(h) = 8
            /\ blocks' = IF HasBlock(x.type) THEN Append(blocks, EncodeHeaders(x.headers)) ELSE blocks
         \/ x = Junk /\ h \in Malformed /\ p = <<>> /\ blocks' = blocks,
         wire' = wire \o h, pending' = p, wrote' = Append(wrote, x),
         ends' = Append(ends, Total + Len(h) + Len(p)),
         UNCHANGED <<inflated, header, open, outcome, consumed, got>>
  PROVE  FramerInv'
<1>1. PICK s, blk : InStep(s, blk)
  BY DEF FramerInv
<1>2. /\ Total = Len(s) /\ s \in Seq(Nat) /\ Len(s) \in Nat
      /\ Len(wrote) \in Nat /\ Len(ends) = Len(wrote)
      /\ blocks \in Seq(SentBlocks) /\ Len(blocks) \in Nat /\ Len(blocks) <= Len(wrote)
  BY <1>1, TotalIsLength
<1>3. /\ open /\ pending = <<>> /\ Len(wrote) < MaxFrames /\ open'
      /\ inflated' = inflated /\ header' = header /\ consumed' = consumed /\ got' = got
      /\ outcome' = outcome
  BY DEF CanWrite
<1>4. Delivered /\ Len(got) \in Nat /\ Len(got) <= Len(wrote)
  BY LenProperties DEF FramerInv, Delivered
<1>5. /\ Len(wrote') = Len(wrote) + 1
      /\ \A i \in 1..Len(wrote) : wrote'[i] = wrote[i]
  <2>1. wrote \in Seq(Frames \cup {Junk})
    BY <1>1 DEF InStep, Writes
  <2>. QED
    BY <2>1, AppendProperties
<1>. DEFINE d == h \o p
            u == s \o d
<1>6. JoinedOf(d, h, p) /\ JoinedOf(u, s, d)
  BY DEF JoinedOf
<1>. HIDE DEF d, u
<1>7. /\ u \in Seq(Nat) /\ d \in Seq(Nat) /\ Len(d) = Len(h) + Len(p)
  BY ONLY <1>2, <1>6, Appended
<1>8. Len(h) \in Nat /\ Len(p) \in Nat /\ Len(d) >= 8
  BY <1>7, LenProperties
<1>9. /\ blocks' \in Seq(SentBlocks) /\ Len(blocks') = Len(blocks) + BlockCount(x)
      /\ Extends(blocks', blocks)
      /\ (x \in Frames /\ HasBlock(x.type)) =>
           Len(blocks) + 1 \in DOMAIN blocks' /\ blocks'[Len(blocks) + 1] = EncodeHeaders(x.headers)
  <2>1. CASE x \in Frames /\ HasBlock(x.type)
    <3>1. blocks' = Append(blocks, EncodeHeaders(x.headers)) /\ BlockCount(x) = 1
      <4>1. x # Junk
        BY <2>1 DEF HasBlock, Junk
      <4>. QED
        BY <2>1, <4>1 DEF BlockCount
    <3>2. EncodeHeaders(x.headers) \in SentBlocks
      BY <2>1 DEF SentBlocks, SentHeaders
    <3>3. /\ blocks' \in Seq(SentBlocks) /\ Len(blocks') = Len(blocks) + 1
          /\ \A i \in 1..Len(blocks) : blocks'[i] = blocks[i]
          /\ blocks'[Len(blocks) + 1] = EncodeHeaders(x.headers)
      BY <1>2, <3>1, <3>2, AppendProperties
    <3>4. DOMAIN blocks = 1..Len(blocks) /\ DOMAIN blocks' = 1..(Len(blocks) + 1)
      BY <1>2, <3>3
    <3>5. \A j \in 1..Len(blocks) : j \in 1..(Len(blocks) + 1)
      BY <1>2
    <3>6. Len(blocks) + 1 \in 1..(Len(blocks) + 1)
      BY <1>2
    <3>7. Extends(blocks', blocks)
      BY ONLY <3>3, <3>4, <3>5 DEF Extends
    <3>. QED
      BY ONLY <3>1, <3>3, <3>4, <3>6, <3>7
  <2>2. CASE ~(x \in Frames /\ HasBlock(x.type))
    <3>1. BlockCount(x) = 0 /\ blocks' = blocks
      <4>1. ~HasBlock(x.type)
        <5>1. x = Junk => ~HasBlock(x.type)
          BY ONLY DEF HasBlock, Junk
        <5>. QED
          BY <2>2, <5>1
      <4>2. BlockCount(x) = 0
        BY ONLY <4>1 DEF BlockCount
      <4>3. blocks' = blocks
        BY <4>1
      <4>. QED
        BY <4>2, <4>3
    <3>. QED
      BY <1>2, <2>2, <3>1 DEF Extends
  <2>. QED
    BY <2>1, <2>2
<1>10. IsAt(x, u, Len(s), Len(s) + Len(d), blocks', Len(blocks) + 1)
  <2>1. \/ /\ x \in Frames /\ h = FrameHead(x, Len(blocks) + 1)
           /\ p = FramePayload(x, Len(blocks) + 1) /\ Len(h) = 8
           /\ HasBlock(x.type) => /\ Len(blocks) + 1 \in DOMAIN blocks'
                                  /\ blocks'[Len(blocks) + 1] = EncodeHeaders(x.headers)
        \/ x = Junk /\ h \in Malformed /\ p = <<>>
    BY <1>9
  <2>. QED
    BY <1>2, <1>6, <2>1, WrittenIsAt
<1>11. PICK blk2 : /\ Writes(wrote', ends', blocks', u, blk2)
                   /\ \A i \in 0..Len(wrote) : Unmoved(i, ends, blk, ends', blk2)
  <2>1. Writes(wrote, ends, blocks, s, blk)
    BY <1>1 DEF InStep
  <2>2. JoinedOf(u, s, d) /\ ends' = Append(ends, Len(s) + Len(d))
    <3>1. Len(s) + Len(h) + Len(p) = Len(s) + (Len(h) + Len(p))
      BY <1>2, <1>8
    <3>. QED
      BY <1>2, <1>6, <1>7, <3>1
  <2>3. u = s \o d
    BY <2>2 DEF JoinedOf
  <2>4. x \in Frames \cup {Junk} /\ Len(wrote) < MaxFrames /\ wrote' = Append(wrote, x)
    BY <1>3
  <2>5. IsAt(x, s \o d, Len(s), Len(s) + Len(d), blocks', Len(blocks) + 1)
    BY <1>10, <2>3
  <2>6. Write(wrote, ends, blocks, s, x, d, wrote', ends', blocks')
    BY ONLY <1>7, <1>8, <1>9, <2>2, <2>4, <2>5 DEF Write
  <2>7. \A w2, e2, bs2 : Write(wrote, ends, blocks, s, x, d, w2, e2, bs2) =>
          \E b : /\ Writes(w2, e2, bs2, s \o d, b)
                /\ \A i \in 0..Len(wrote) : Unmoved(i, ends, blk, e2, b)
    BY ONLY <2>1, WritesAppend, Zenon
  <2>8. \E b : /\ Writes(wrote', ends', blocks', s \o d, b)
               /\ \A i \in 0..Len(wrote) : Unmoved(i, ends, blk, ends', b)
    BY ONLY <2>6, <2>7
  <2>. QED
    BY <2>3, <2>8
<1>12. InStep(u, blk2)'
  <2>1. ASSUME outcome' = "reading" PROVE Reading(u, blk2)'
    <3>1. Len(got) \in 0..Len(wrote)
      BY <1>2, <1>4
    <3>2. blk2[Len(got)] = blk[Len(got)] /\ Off(ends', Len(got)) = Off(ends, Len(got))
      BY <1>11, <3>1 DEF Unmoved
    <3>3. Reading(s, blk)
      BY <1>1, <1>3, <2>1 DEF InStep
    <3>. QED
      BY <1>2, <1>3, <1>4, <1>5, <1>6, <3>2, <3>3, ReadingGrows
  <2>. QED
    BY <1>11, <2>1 DEF InStep
<1>13. Delivered'
  <2>1. \A i \in 1..Len(got) : i \in 1..Len(wrote)
    BY <1>2, <1>4
  <2>2. \A i \in 1..Len(got) : wrote'[i] # Junk /\ got[i] = OnTheWire(wrote'[i])
    BY <1>4, <1>5, <2>1 DEF Delivered
  <2>3. got \in Seq({OnTheWire(f) : f \in Frames}) /\ Len(got) <= Len(wrote')
    BY <1>2, <1>4, <1>5 DEF Delivered
  <2>. QED
    BY <1>3, <2>2, <2>3 DEF Delivered
<1>14. NoFrameRefused'
  <2>. SUFFICES ASSUME outcome \in Errors PROVE Len(got) < Len(wrote') /\ wrote'[Len(got) + 1] = Junk
    BY <1>3 DEF NoFrameRefused, Errors
  <2>1. Len(got) < Len(wrote) /\ wrote[Len(got) + 1] = Junk
    BY DEF FramerInv, NoFrameRefused, Errors
  <2>2. Len(got) + 1 \in 1..Len(wrote)
    BY <1>2, <1>4, <2>1, SMTT(30)
  <2>. QED
    BY <1>2, <1>4, <1>5, <2>1, <2>2
<1>15. outcome' \notin {"closed", "io"}
  BY <1>3 DEF FramerInv, AtEnd
<1>. QED
  BY <1>3, <1>12, <1>13, <1>14, <1>15 DEF FramerInv

(* What write_frame writes announces what it goes on to write.             *)
LEMMA FrameBytes ==
  ASSUME NEW f \in Frames, NEW k \in 1..MaxFrames,
         NEW h, h = FrameHead(f, k), NEW p, p = FramePayload(f, k)
  PROVE  Announces(h, p) /\ f # Junk
<1>1. f \in ControlFrames(SentHeaders) \/ f \in DataFrames
  BY FramesAssumption
<1>2. CASE f \in DataFrames
  BY <1>2, DataFrameBytes
<1>3. CASE f \in ControlFrames(SentHeaders)
  BY <1>3, ControlFrameBytes, TypeNames
<1>. QED
  BY <1>1, <1>2, <1>3

(* WriteHeader keeps FramerInv.                                            *)
LEMMA WriteHeaderKeepsInv ==
  ASSUME FramerInv, NEW f \in Frames, WriteHeader(f)
  PROVE  FramerInv'
<1>. DEFINE k == Len(blocks) + 1
            h == FrameHead(f, k)
            p == FramePayload(f, k)
            x == f
<1>1. CanWrite /\ UNCHANGED <<inflated, header, open, outcome, consumed, got>>
  BY DEF WriteHeader
<1>2. Len(wrote) \in Nat /\ Len(blocks) \in Nat /\ Len(blocks) <= Len(wrote)
  BY TotalIsLength DEF FramerInv
<1>3. k \in 1..MaxFrames
  BY <1>1, <1>2, FramerAssumption DEF CanWrite
<1>4. /\ p = EncodePayload(f, IF HasBlock(f.type)
                              THEN CompressHeaders(EncodeHeaders(f.headers), Len(blocks) + 1) ELSE <<>>)
      /\ h = EncodeHeader(f, Len(p))
  BY DEF FramePayload, FrameBlock, FrameHead
<1>5. /\ blocks' = IF HasBlock(f.type) THEN Append(blocks, EncodeHeaders(f.headers)) ELSE blocks
      /\ wire' = wire \o h /\ pending' = p /\ wrote' = Append(wrote, f)
      /\ ends' = Append(ends, Total + 8 + Len(p))
  <2>1. CASE HasBlock(f.type)
    BY <1>4, <2>1 DEF WriteHeader
  <2>2. CASE ~HasBlock(f.type)
    BY <1>4, <2>2 DEF WriteHeader
  <2>. QED
    BY <2>1, <2>2
<1>6. h = FrameHead(x, Len(blocks) + 1) /\ p = FramePayload(x, Len(blocks) + 1)
  OBVIOUS
<1>. HIDE DEF h, p
<1>7. Announces(h, p)
  <2>. HIDE DEF k
  <2>1. h = FrameHead(f, k) /\ p = FramePayload(f, k)
    BY <1>6 DEF k
  <2>. QED
    BY <1>3, <2>1, FrameBytes
<1>8. h \in Seq(Nat) /\ p \in Seq(Nat) /\ Len(h) = 8 /\ Len(h) >= 8
  BY <1>7 DEF Announces, Has
<1>9. ends' = Append(ends, Total + Len(h) + Len(p))
  BY <1>5, <1>8
<1>10. x \in Frames /\ x \in Frames \cup {Junk} /\ FramerInv
  OBVIOUS
<1>11. \/ /\ x \in Frames /\ h = FrameHead(x, Len(blocks) + 1)
          /\ p = FramePayload(x, Len(blocks) + 1) /\ Len(h) = 8
          /\ blocks' = IF HasBlock(x.type) THEN Append(blocks, EncodeHeaders(x.headers)) ELSE blocks
       \/ x = Junk /\ h \in Malformed /\ p = <<>> /\ blocks' = blocks
  BY <1>5, <1>6, <1>8
<1>12. wire' = wire \o h /\ pending' = p /\ wrote' = Append(wrote, x)
  BY <1>5
<1>. HIDE DEF x, k
<1>. QED
  BY ONLY <1>1, <1>8, <1>9, <1>10, <1>11, <1>12, WriteKeepsInv

(* WriteMalformed keeps FramerInv.                                         *)
LEMMA WriteMalformedKeepsInv ==
  ASSUME FramerInv, NEW b \in Malformed, WriteMalformed(b)
  PROVE  FramerInv'
<1>. DEFINE p == <<>>
            x == Junk
<1>1. CanWrite /\ UNCHANGED <<inflated, header, open, outcome, consumed, got>>
  BY DEF WriteMalformed
<1>2. b \in Seq(Nat) /\ Len(b) >= 8
  BY MalformedAssumption DEF NoFrame
<1>3. p \in Seq(Nat) /\ Len(p) = 0 /\ x \in Frames \cup {Junk} /\ FramerInv
  OBVIOUS
<1>4. Total \in Nat /\ Len(b) \in Nat
  BY <1>2, TotalIsLength, LenProperties DEF FramerInv
<1>5. /\ wire' = wire \o b /\ pending' = p /\ wrote' = Append(wrote, x)
      /\ ends' = Append(ends, Total + Len(b)) /\ blocks' = blocks
  BY DEF WriteMalformed, CanWrite
<1>6. ends' = Append(ends, Total + Len(b) + Len(p))
  BY <1>3, <1>4, <1>5
<1>7. \/ /\ x \in Frames /\ b = FrameHead(x, Len(blocks) + 1)
         /\ p = FramePayload(x, Len(blocks) + 1) /\ Len(b) = 8
         /\ blocks' = IF HasBlock(x.type) THEN Append(blocks, EncodeHeaders(x.headers)) ELSE blocks
      \/ x = Junk /\ b \in Malformed /\ p = <<>> /\ blocks' = blocks
  BY <1>5
<1>. HIDE DEF p, x
<1>. QED
  BY ONLY <1>1, <1>2, <1>3, <1>5, <1>6, <1>7, WriteKeepsInv

(* WritePayload keeps FramerInv.                                           *)
LEMMA WritePayloadKeepsInv ==
  ASSUME FramerInv, WritePayload
  PROVE  FramerInv'
<1>1. PICK s, blk : InStep(s, blk)
  BY DEF FramerInv
<1>2. /\ open /\ pending # <<>> /\ wire' = wire \o pending /\ pending' = <<>>
      /\ UNCHANGED <<blocks, inflated, header, open, outcome, wrote, ends, consumed, got>>
  BY DEF WritePayload
<1>3. ASSUME outcome = "reading" PROVE Reading(s, blk)'
  <2>1. /\ inflated = blk[Len(got)] /\ consumed = Off(ends, Len(got)) + Len(header)
        /\ consumed \in Nat /\ HeaderRead(s) /\ At(s, consumed + 1, wire)
        /\ At(s, consumed + 1 + Len(wire), pending)
        /\ consumed + Len(wire) + Len(pending) = Len(s)
    BY <1>1, <1>2, <1>3 DEF InStep, Reading
  <2>2. At(s, consumed + 1, wire \o pending)
    <3>. DEFINE m == consumed + 1
    <3>1. At(s, m, wire) /\ At(s, m + Len(wire), pending)
      BY <2>1
    <3>. HIDE DEF m
    <3>2. At(s, m, wire \o pending)
      BY <3>1, AtJoin
    <3>. QED
      BY <3>2 DEF m
  <2>3. wire \in Seq(Nat) /\ pending \in Seq(Nat) /\ s \in Seq(Nat)
    BY <2>1 DEF At
  <2>4. wire \o pending \in Seq(Nat) /\ Len(wire \o pending) = Len(wire) + Len(pending)
    BY <2>3, Concat
  <2>5. Len(wire) \in Nat /\ Len(pending) \in Nat /\ Len(s) \in Nat
    BY <2>3, LenProperties
  <2>6. /\ At(s, consumed + 1 + Len(wire \o pending), <<>>)
        /\ consumed + Len(wire \o pending) + Len(<<>>) = Len(s)
    <3>. DEFINE a == Len(wire)
                b == Len(pending)
                l == Len(s)
                v == Len(wire \o pending)
    <3>1. v = a + b /\ consumed + a + b = l /\ consumed \in Nat /\ a \in Nat /\ b \in Nat /\ l \in Nat
      BY <2>1, <2>4, <2>5
    <3>. HIDE DEF a, b, v
    <3>2. /\ consumed + 1 + v \in Nat \ {0} /\ consumed + 1 + v <= l + 1 /\ consumed + v + 0 = l
      BY <3>1
    <3>3. <<>> \in Seq(Nat) /\ Len(<<>>) = 0 /\ \A i \in 1..0 : s[consumed + 1 + v - 1 + i] = <<>>[i]
      OBVIOUS
    <3>4. At(s, consumed + 1 + v, <<>>)
      <4>1. consumed + 1 + v + Len(<<>>) <= Len(s) + 1
        BY <3>1, <3>2, <3>3
      <4>. QED
        BY <2>3, <3>2, <3>3, <4>1 DEF At
    <3>. QED
      BY <3>2, <3>3, <3>4 DEF v
  <2>7. HeaderRead(s)'
    BY <1>2, <2>1 DEF HeaderRead
  <2>. QED
    BY <1>2, <2>1, <2>2, <2>6, <2>7 DEF Reading
<1>4. InStep(s, blk)'
  BY <1>1, <1>2, <1>3 DEF InStep
<1>. QED
  BY <1>2, <1>4 DEF FramerInv, Delivered, NoFrameRefused, AtEnd

(* Cut keeps FramerInv.                                                    *)
LEMMA CutKeepsInv ==
  ASSUME FramerInv, NEW n \in 0..Len(wire), Cut(n)
  PROVE  FramerInv'
<1>1. PICK s, blk : InStep(s, blk)
  BY DEF FramerInv
<1>2. /\ open /\ ~open' /\ wire' = SubSeq(wire, 1, n) /\ pending' = <<>>
      /\ UNCHANGED <<blocks, inflated, header, outcome, wrote, ends, consumed, got>>
  BY DEF Cut
<1>3. ASSUME outcome = "reading" PROVE Reading(s, blk)'
  <2>1. /\ inflated = blk[Len(got)] /\ consumed = Off(ends, Len(got)) + Len(header)
        /\ consumed \in Nat /\ HeaderRead(s) /\ At(s, consumed + 1, wire)
    BY <1>1, <1>2, <1>3 DEF InStep, Reading
  <2>2. At(s, consumed + 1, SubSeq(wire, 1, n))
    BY <2>1, AtSplit
  <2>3. HeaderRead(s)'
    BY <1>2, <2>1 DEF HeaderRead
  <2>. QED
    BY <1>2, <2>1, <2>2, <2>3 DEF Reading
<1>4. InStep(s, blk)'
  BY <1>1, <1>2, <1>3 DEF InStep
<1>5. outcome \notin {"closed", "io"}
  BY <1>2 DEF FramerInv, AtEnd
<1>. QED
  BY <1>2, <1>4, <1>5 DEF FramerInv, Delivered, NoFrameRefused

----------------------------------------------------------------------------
(* The reader's steps.                                                     *)

WrongVersion(h) == IsControl(h) /\ Version(h) # SpdyVersion

(* h and q are the first 8 bytes and the others of the write x.            *)
Parts(x, k, bs, h, q) ==
  \/ /\ x \in Frames /\ x # Junk /\ h = FrameHead(x, k) /\ q = FramePayload(x, k) /\ ~WrongVersion(h)
     /\ HasBlock(x.type) => k \in DOMAIN bs /\ bs[k] = EncodeHeaders(x.headers)
  \/ /\ x = Junk
     /\ \E b \in Malformed : h = SubSeq(b, 1, 8) /\ q = SubSeq(b, 9, Len(b))

(* A header is that of the write it is in, and says where the write ends.  *)
LEMMA HeaderOf ==
  ASSUME NEW x, NEW s, NEW m \in Nat, NEW l, NEW bs, NEW k \in 1..MaxFrames,
         IsAt(x, s, m, l, bs, k), NEW h, Has(h, 8), At(s, m + 1, h)
  PROVE  \E q : /\ Parts(x, k, bs, h, q) /\ At(s, m + 9, q) /\ Len(q) \in Nat /\ l = m + 8 + Len(q)
                /\ ~WrongVersion(h) => PayloadLength(h) = Len(q)
<1>1. CASE FrameAt(x, s, m, l, bs, k)
  <2>. DEFINE q == FramePayload(x, k)
              h0 == FrameHead(x, k)
  <2>1. /\ x \in Frames /\ At(s, m + 1, h0) /\ At(s, m + 9, q) /\ l = m + 8 + Len(q)
        /\ HasBlock(x.type) => k \in DOMAIN bs /\ bs[k] = EncodeHeaders(x.headers)
    BY <1>1 DEF FrameAt
  <2>2. Announces(h0, q) /\ x # Junk
    BY <2>1, FrameBytes
  <2>3. /\ Has(h0, 8) /\ q \in Seq(Nat) /\ PayloadLength(h0) = Len(q) /\ ~WrongVersion(h0)
    BY <2>2 DEF Announces, WrongVersion
  <2>4. Len(q) \in Nat
    BY <2>3, LenProperties
  <2>. HIDE DEF q, h0
  <2>5. h = h0
    <3>1. Len(h) = Len(h0)
      BY <2>3 DEF Has
    <3>. QED
      BY <2>1, <3>1, SameAt
  <2>6. Parts(x, k, bs, h, q)
    BY <2>1, <2>2, <2>3, <2>5 DEF Parts, q, h0
  <2>. QED
    BY <2>1, <2>3, <2>4, <2>5, <2>6
<1>2. CASE JunkAt(x, s, m, l)
  <2>1. PICK b \in Malformed : At(s, m + 1, b) /\ l = m + Len(b)
    BY <1>2 DEF JunkAt
  <2>. DEFINE q == SubSeq(b, 9, Len(b))
              h0 == SubSeq(b, 1, 8)
              c == Len(b)
  <2>2. /\ b \in Seq(Nat) /\ c >= 8 /\ IsControl(h0)
        /\ Version(h0) # SpdyVersion \/ PayloadLength(h0) = Len(q)
    BY MalformedAssumption DEF NoFrame
  <2>3. c \in Nat
    BY <2>2, LenProperties
  <2>4. /\ At(s, m + 1, h0) /\ Len(h0) = 8 /\ At(s, (m + 1) + 8, q) /\ Len(q) = c - 8
    <3>1. 8 \in 0..Len(b)
      BY <2>2, <2>3
    <3>2. \A n \in 0..Len(b) : /\ At(s, m + 1, SubSeq(b, 1, n)) /\ Len(SubSeq(b, 1, n)) = n
                               /\ At(s, (m + 1) + n, SubSeq(b, n + 1, Len(b)))
                               /\ Len(SubSeq(b, n + 1, Len(b))) = Len(b) - n
      BY <2>1, AtSplit
    <3>3. 8 + 1 = 9
      OBVIOUS
    <3>. QED
      BY <3>1, <3>2, <3>3
  <2>. HIDE DEF q, h0
  <2>5. h = h0
    <3>1. Len(h) = Len(h0)
      BY <2>4 DEF Has
    <3>. QED
      BY <2>4, <3>1, SameAt
  <2>6. Parts(x, k, bs, h, q)
    BY <1>2, <2>5 DEF Parts, q, h0, JunkAt
  <2>7. Len(q) \in Nat /\ l = m + 8 + Len(q) /\ (m + 1) + 8 = m + 9
    <3>1. l = m + c
      BY <2>1
    <3>. HIDE DEF c
    <3>. QED
      BY <3>1, <2>2, <2>3, <2>4
  <2>8. At(s, m + 9, q)
    BY <2>4, <2>7
  <2>9. ~WrongVersion(h) => PayloadLength(h) = Len(q)
    BY <2>2, <2>5 DEF WrongVersion
  <2>. QED
    BY <2>6, <2>7, <2>8, <2>9
<1>. QED
  BY <1>1, <1>2 DEF IsAt

(* The write the reader is in.                                             *)
LEMMA NextWrite ==
  ASSUME FramerInv, NEW s, NEW blk, InStep(s, blk)
  PROVE  /\ Len(got) \in Nat /\ Len(got) <= Len(wrote) /\ Len(wrote) \in Nat
         /\ Len(wrote) <= MaxFrames /\ Len(blocks) <= MaxFrames
         /\ Off(ends, Len(got)) \in Nat /\ blk[Len(got)] \in Nat
         /\ s \in Seq(Nat) /\ Len(s) \in Nat /\ Len(s) = Off(ends, Len(wrote))
         /\ Len(got) < Len(wrote) =>
              /\ Len(got) + 1 \in 1..Len(wrote)
              /\ blk[Len(got)] + 1 \in 1..MaxFrames
              /\ IsAt(wrote[Len(got) + 1], s, Off(ends, Len(got)), Off(ends, Len(got) + 1),
                      blocks, blk[Len(got)] + 1)
              /\ Off(ends, Len(got)) + 8 <= Off(ends, Len(got) + 1)
              /\ blk[Len(got) + 1] = blk[Len(got)] + BlockCount(wrote[Len(got) + 1])
<1>. DEFINE g == Len(got)
            n == Len(wrote)
<1>1. /\ s \in Seq(Nat) /\ Len(s) \in Nat /\ n \in Nat /\ Len(ends) = n
      /\ blocks \in Seq(SentBlocks) /\ Len(blocks) \in Nat /\ Len(blocks) <= n
  BY TotalIsLength
<1>2. /\ n <= MaxFrames /\ ends \in Seq(Nat) /\ Len(s) = Off(ends, n)
      /\ Counts(wrote, blk, n) /\ Placed(wrote, ends, blocks, s, blk, n) /\ Apart(ends, n)
  BY DEF InStep, Writes
<1>3. g \in Nat /\ g <= n
  BY LenProperties DEF FramerInv, Delivered
<1>4. /\ blk \in [0..n -> Nat] /\ \A i \in 0..n : blk[i] <= i
      /\ \A i \in 1..n : blk[i] = blk[i - 1] + BlockCount(wrote[i])
  BY <1>2 DEF Counts
<1>5. MaxFrames \in Nat
  BY FramerAssumption
<1>6. Off(ends, g) \in Nat
  BY <1>1, <1>2, <1>3 DEF Off
<1>. HIDE DEF g, n
<1>7. blk[g] \in Nat /\ blk[g] <= g /\ g \in 0..n /\ Len(blocks) <= MaxFrames
  BY <1>1, <1>2, <1>3, <1>4, <1>5
<1>8. ASSUME g < n
      PROVE  /\ g + 1 \in 1..n /\ blk[g] + 1 \in 1..MaxFrames
             /\ IsAt(wrote[g + 1], s, Off(ends, g), Off(ends, g + 1), blocks, blk[g] + 1)
             /\ Off(ends, g) + 8 <= Off(ends, g + 1)
             /\ blk[g + 1] = blk[g] + BlockCount(wrote[g + 1])
  <2>1. g + 1 \in 1..n /\ g + 1 \in 0..n /\ g < g + 1 /\ (g + 1) - 1 = g
    BY <1>1, <1>3, <1>8
  <2>2. blk[g] + 1 \in 1..MaxFrames
    BY <1>1, <1>2, <1>3, <1>5, <1>7, <1>8
  <2>3. IsAt(wrote[g + 1], s, Off(ends, g), Off(ends, g + 1), blocks, blk[g] + 1)
    BY <1>2, <2>1 DEF Placed
  <2>4. Off(ends, g) + 8 <= Off(ends, g + 1)
    BY <1>2, <1>7, <2>1 DEF Apart
  <2>5. blk[g + 1] = blk[g] + BlockCount(wrote[g + 1])
    BY <1>4, <2>1
  <2>. QED
    BY <2>1, <2>2, <2>3, <2>4, <2>5
<1>. QED
  BY <1>1, <1>2, <1>3, <1>6, <1>7, <1>8 DEF g, n

(* ReadHeader keeps FramerInv.                                             *)
LEMMA ReadHeaderKeepsInv ==
  ASSUME FramerInv, ReadHeader
  PROVE  /\ FramerInv'
         /\ UNCHANGED <<wrote, got>>
         /\ outcome' # outcome => Len(got) < Len(wrote) /\ wrote[Len(got) + 1] = Junk
<1>1. PICK s, blk : InStep(s, blk)
  BY DEF FramerInv
<1>. DEFINE h == SubSeq(wire, 1, 8)
            r == SubSeq(wire, 9, Len(wire))
            o == Off(ends, Len(got))
<1>2. /\ outcome = "reading" /\ header = <<>> /\ Len(wire) >= 8
      /\ wire' = SubSeq(wire, 8 + 1, Len(wire)) /\ consumed' = consumed + 8
      /\ IF WrongVersion(h) THEN outcome' = "protocol" /\ header' = header
                            ELSE header' = h /\ outcome' = outcome
      /\ UNCHANGED <<inflated, got, pending, blocks, open, wrote, ends>>
  BY DEF ReadHeader, Take, writerVars, WrongVersion
<1>3. wire' = r
  <2>1. 8 + 1 = 9
    OBVIOUS
  <2>. QED
    BY <1>2, <2>1
<1>4. /\ inflated = blk[Len(got)] /\ consumed = o + Len(header) /\ consumed \in Nat
      /\ At(s, consumed + 1, wire)
      /\ open => /\ At(s, consumed + 1 + Len(wire), pending)
                 /\ consumed + Len(wire) + Len(pending) = Len(s)
  BY <1>1, <1>2 DEF InStep, Reading
<1>5. /\ Len(got) \in Nat /\ Len(got) <= Len(wrote) /\ Len(wrote) \in Nat
      /\ o \in Nat /\ Len(s) \in Nat /\ Len(s) = Off(ends, Len(wrote))
      /\ Len(got) < Len(wrote) =>
           /\ blk[Len(got)] + 1 \in 1..MaxFrames
           /\ IsAt(wrote[Len(got) + 1], s, o, Off(ends, Len(got) + 1), blocks, blk[Len(got)] + 1)
  BY <1>1, NextWrite
<1>6. consumed = o
  BY <1>2, <1>4, <1>5
<1>7. wire \in Seq(Nat) /\ Len(wire) \in Nat /\ consumed + 1 + Len(wire) <= Len(s) + 1
  BY <1>4, LenProperties DEF At
<1>. HIDE DEF o
<1>8. /\ At(s, o + 1, h) /\ Len(h) = 8 /\ At(s, (o + 1) + 8, r) /\ Len(r) = Len(wire) - 8
  <2>1. 8 \in 0..Len(wire) /\ 8 + 1 = 9
    BY <1>2, <1>7
  <2>2. At(s, o + 1, wire)
    BY <1>4, <1>6
  <2>3. \A n \in 0..Len(wire) : /\ At(s, o + 1, SubSeq(wire, 1, n)) /\ Len(SubSeq(wire, 1, n)) = n
                                /\ At(s, (o + 1) + n, SubSeq(wire, n + 1, Len(wire)))
                                /\ Len(SubSeq(wire, n + 1, Len(wire))) = Len(wire) - n
    BY <2>2, AtSplit
  <2>. QED
    BY <2>1, <2>3
<1>9. Len(got) < Len(wrote)
  <2>1. o + 8 <= Len(s)
    BY <1>2, <1>5, <1>6, <1>7
  <2>2. CASE Len(got) = Len(wrote)
    <3>1. o = Len(s)
      BY <1>5, <2>2 DEF o
    <3>. QED
      BY <1>5, <2>1, <3>1
  <2>. QED
    BY <1>5, <2>2
<1>. HIDE DEF h, r
<1>10. Has(h, 8)
  BY <1>8 DEF Has, At
<1>11. WrongVersion(h) => wrote[Len(got) + 1] = Junk
  <2>. DEFINE x == wrote[Len(got) + 1]
              k == blk[Len(got)] + 1
              l == Off(ends, Len(got) + 1)
  <2>1. k \in 1..MaxFrames /\ IsAt(x, s, o, l, blocks, k)
    BY <1>5, <1>9
  <2>. HIDE DEF x, k, l
  <2>2. PICK q : Parts(x, k, blocks, h, q)
    BY <1>5, <1>8, <1>10, <2>1, HeaderOf
  <2>3. WrongVersion(h) => x = Junk
    BY <2>2 DEF Parts
  <2>. QED
    BY <2>3 DEF x
<1>12. ASSUME outcome' = "reading" PROVE Reading(s, blk)'
  <2>1. ~WrongVersion(h) /\ header' = h
    BY <1>2, <1>12
  <2>2. Len(header') = 8 /\ consumed' = o + Len(header') /\ consumed' \in Nat
    <3>1. Len(header') = 8 /\ consumed' = consumed + 8 /\ consumed = o /\ o \in Nat
      BY <1>2, <1>5, <1>6, <1>8, <2>1
    <3>. QED
      BY ONLY <3>1
  <2>3. HeaderRead(s)'
    <3>1. Has(header', 8) /\ At(s, Off(ends', Len(got')) + 1, header') /\ Len(got') < Len(wrote')
      BY <1>2, <1>8, <1>9, <1>10, <2>1 DEF o
    <3>. QED
      BY <2>1, <3>1 DEF HeaderRead, WrongVersion
  <2>4. (o + 1) + 8 = consumed' + 1
    BY <1>2, <1>5, <1>6
  <2>5. At(s, consumed' + 1, wire')
    BY <1>3, <1>8, <2>4
  <2>6. ASSUME open' PROVE /\ At(s, consumed' + 1 + Len(wire'), pending')
                           /\ consumed' + Len(wire') + Len(pending') = Len(s)
    <3>1. /\ At(s, consumed + 1 + Len(wire), pending) /\ consumed + Len(wire) + Len(pending) = Len(s)
      BY <1>2, <1>4, <2>6
    <3>2. /\ consumed' + 1 + Len(wire') = consumed + 1 + Len(wire)
          /\ consumed' + Len(wire') = consumed + Len(wire)
      <4>1. /\ consumed' = consumed + 8 /\ consumed \in Nat /\ Len(wire) \in Nat
            /\ Len(wire') = Len(wire) - 8
        BY <1>2, <1>3, <1>4, <1>7, <1>8
      <4>. QED
        BY ONLY <4>1
    <3>. QED
      BY <1>2, <3>1, <3>2
  <2>7. inflated' = blk[Len(got')] /\ consumed' = Off(ends', Len(got')) + Len(header')
    BY <1>2, <1>4, <2>2 DEF o
  <2>. QED
    BY <2>2, <2>3, <2>5, <2>6, <2>7 DEF Reading
<1>13. InStep(s, blk)'
  BY <1>1, <1>2, <1>12 DEF InStep
<1>14. NoFrameRefused'
  BY <1>2, <1>9, <1>11 DEF NoFrameRefused
<1>15. Delivered' /\ (~open' => pending' = <<>>)
  BY <1>2 DEF FramerInv, Delivered
<1>16. outcome' \in {"reading"} \cup Errors /\ outcome' \notin {"closed", "io"}
  BY <1>2 DEF Errors
<1>17. FramerInv'
  BY <1>13, <1>14, <1>15, <1>16 DEF FramerInv
<1>. QED
  BY <1>2, <1>9, <1>11, <1>17

(* The reader behind the header of a write.                                *)
LEMMA InsideWrite ==
  ASSUME FramerInv, NEW s, NEW blk, InStep(s, blk),
         outcome = "reading", header # <<>>
  PROVE  /\ Len(got) < Len(wrote) /\ Has(header, 8) /\ ~WrongVersion(header)
         /\ consumed = Off(ends, Len(got)) + 8 /\ consumed \in Nat
         /\ At(s, consumed + 1, wire) /\ wire \in Seq(Nat) /\ Len(wire) \in Nat
         /\ inflated = blk[Len(got)]
         /\ \E q : /\ Parts(wrote[Len(got) + 1], blk[Len(got)] + 1, blocks, header, q)
                   /\ At(s, consumed + 1, q) /\ Len(q) \in Nat /\ PayloadLength(header) = Len(q)
                   /\ Off(ends, Len(got) + 1) = consumed + Len(q)
<1>. DEFINE o == Off(ends, Len(got))
            x == wrote[Len(got) + 1]
            k == blk[Len(got)] + 1
            l == Off(ends, Len(got) + 1)
<1>1. /\ Len(got) < Len(wrote) /\ Has(header, 8) /\ ~WrongVersion(header)
      /\ At(s, o + 1, header) /\ consumed = o + Len(header) /\ consumed \in Nat
      /\ At(s, consumed + 1, wire) /\ inflated = blk[Len(got)]
  BY DEF InStep, Reading, HeaderRead, WrongVersion
<1>2. o \in Nat /\ k \in 1..MaxFrames /\ IsAt(x, s, o, l, blocks, k)
  BY <1>1, NextWrite
<1>3. wire \in Seq(Nat) /\ Len(wire) \in Nat
  BY <1>1, LenProperties DEF At
<1>4. consumed = o + 8
  BY <1>1 DEF Has
<1>. HIDE DEF o, x, k, l
<1>5. PICK q : /\ Parts(x, k, blocks, header, q) /\ At(s, o + 9, q) /\ Len(q) \in Nat
               /\ l = o + 8 + Len(q)
               /\ ~WrongVersion(header) => PayloadLength(header) = Len(q)
  BY <1>1, <1>2, HeaderOf
<1>6. o + 9 = consumed + 1 /\ o + 8 + Len(q) = consumed + Len(q)
  BY <1>2, <1>4
<1>. QED
  BY <1>1, <1>3, <1>4, <1>5, <1>6 DEF o, x, k, l

(* What the payload becomes.                                               *)
LEMMA PayloadBecomes ==
  ASSUME Ratio <= Growth, NEW x, NEW k \in 1..MaxFrames, NEW p,
         Parts(x, k, blocks, header, p), ~WrongVersion(header), ParseFrame(p),
         blocks \in Seq(SentBlocks), Len(blocks) <= MaxFrames, inflated \in Nat, k = inflated + 1
  PROVE  \/ /\ x \in Frames /\ x # Junk
            /\ got' = Append(got, OnTheWire(x)) /\ outcome' = outcome
            /\ inflated' = inflated + BlockCount(x)
         \/ x = Junk /\ got' = got /\ outcome' \in Errors
<1>1. CASE /\ x \in Frames /\ x # Junk /\ header = FrameHead(x, k) /\ p = FramePayload(x, k)
           /\ HasBlock(x.type) => k \in DOMAIN blocks /\ blocks[k] = EncodeHeaders(x.headers)
  BY <1>1, FrameReturned
<1>2. CASE x = Junk /\ \E b \in Malformed : header = SubSeq(b, 1, 8) /\ p = SubSeq(b, 9, Len(b))
  <2>1. PICK b \in Malformed : header = SubSeq(b, 1, 8) /\ p = SubSeq(b, 9, Len(b))
    BY <1>2
  <2>2. NoFrame(b) /\ ~(IsControl(header) /\ Version(header) # SpdyVersion)
    BY MalformedAssumption DEF WrongVersion
  <2>. QED
    BY <1>2, <2>1, <2>2, JunkRefused
<1>. QED
  BY <1>1, <1>2 DEF Parts

(* ReadPayload keeps FramerInv; the frame it reads is the next one         *)
(* written, and it fails at malformed bytes only.                          *)
LEMMA ReadPayloadKeepsInv ==
  ASSUME Ratio <= Growth, FramerInv, ReadPayload
  PROVE  /\ FramerInv' /\ outcome = "reading" /\ UNCHANGED wrote
         /\ Len(got) \in Nat /\ Len(got) + 1 \in 1..Len(wrote)
         /\ \/ /\ wrote[Len(got) + 1] \in Frames /\ wrote[Len(got) + 1] # Junk
               /\ got' = Append(got, OnTheWire(wrote[Len(got) + 1])) /\ outcome' = outcome
            \/ wrote[Len(got) + 1] = Junk /\ got' = got /\ outcome' \in Errors
<1>1. PICK s, blk : InStep(s, blk)
  BY DEF FramerInv
<1>. DEFINE n == PayloadLength(header)
            p == SubSeq(wire, 1, n)
            r == SubSeq(wire, n + 1, Len(wire))
            g == Len(got)
            x == wrote[g + 1]
            k == blk[g] + 1
<1>2. /\ outcome = "reading" /\ header # <<>> /\ Len(wire) >= n
      /\ wire' = r /\ consumed' = consumed + n /\ header' = <<>> /\ ParseFrame(p)
      /\ UNCHANGED <<pending, blocks, open, wrote, ends>>
  BY DEF ReadPayload, Take, writerVars, ParseFrame
<1>3. /\ g < Len(wrote) /\ ~WrongVersion(header)
      /\ consumed = Off(ends, g) + 8 /\ consumed \in Nat
      /\ At(s, consumed + 1, wire) /\ wire \in Seq(Nat) /\ Len(wire) \in Nat
      /\ inflated = blk[g]
  BY <1>1, <1>2, InsideWrite
<1>4. PICK q : /\ Parts(x, k, blocks, header, q)
               /\ At(s, consumed + 1, q) /\ Len(q) \in Nat /\ n = Len(q)
               /\ Off(ends, g + 1) = consumed + Len(q)
  BY <1>1, <1>2, InsideWrite
<1>5. /\ g \in Nat /\ Len(wrote) \in Nat /\ g + 1 \in 1..Len(wrote) /\ k \in 1..MaxFrames
      /\ Len(blocks) <= MaxFrames /\ blk[g] \in Nat /\ blk[g + 1] = blk[g] + BlockCount(x)
      /\ Len(s) \in Nat
  BY <1>1, <1>3, NextWrite
<1>6. blocks \in Seq(SentBlocks)
  BY <1>1, TotalIsLength
<1>7. k = inflated + 1 /\ inflated \in Nat
  BY <1>3, <1>5
<1>. HIDE DEF n, g, x, k
<1>8. /\ At(s, consumed + 1, p) /\ Len(p) = n
      /\ At(s, (consumed + 1) + n, r) /\ Len(r) = Len(wire) - n
  <2>1. n \in 0..Len(wire)
    BY <1>2, <1>3, <1>4
  <2>. HIDE DEF p, r
  <2>2. At(s, consumed + 1, wire)
    BY <1>3
  <2>. QED
    BY <2>1, <2>2, AtSplit DEF p, r
<1>. HIDE DEF p, r
<1>9. p = q
  BY <1>4, <1>8, SameAt
<1>10. \/ /\ x \in Frames /\ x # Junk
          /\ got' = Append(got, OnTheWire(x)) /\ outcome' = outcome
          /\ inflated' = inflated + BlockCount(x)
       \/ x = Junk /\ got' = got /\ outcome' \in Errors
  <2>1. Parts(x, k, blocks, header, p) /\ ParseFrame(p) /\ ~WrongVersion(header)
    BY <1>2, <1>3, <1>4, <1>9
  <2>. QED
    BY <1>5, <1>6, <1>7, <2>1, PayloadBecomes
<1>11. CASE x = Junk /\ got' = got /\ outcome' \in Errors
  <2>1. InStep(s, blk)'
    BY <1>1, <1>2, <1>11 DEF InStep, Errors
  <2>2. NoFrameRefused'
    BY <1>2, <1>3, <1>11 DEF NoFrameRefused, g, x
  <2>3. Delivered' /\ (~open' => pending' = <<>>)
    BY <1>2, <1>11 DEF FramerInv, Delivered
  <2>4. FramerInv'
    BY <1>11, <2>1, <2>2, <2>3 DEF FramerInv, Errors
  <2>. QED
    BY <1>2, <1>5, <1>11, <2>4 DEF g, x
<1>12. CASE /\ x \in Frames /\ x # Junk
            /\ got' = Append(got, OnTheWire(x)) /\ outcome' = outcome
            /\ inflated' = inflated + BlockCount(x)
  <2>1. OnTheWire(x) \in {OnTheWire(f) : f \in Frames} /\ got \in Seq({OnTheWire(f) : f \in Frames})
    BY <1>12 DEF FramerInv, Delivered
  <2>2. /\ got' \in Seq({OnTheWire(f) : f \in Frames}) /\ Len(got') = g + 1
        /\ \A i \in 1..g : got'[i] = got[i]
        /\ got'[g + 1] = OnTheWire(x)
    <3>. DEFINE S == {OnTheWire(f) : f \in Frames}
                y == OnTheWire(x)
    <3>1. got \in Seq(S) /\ y \in S /\ got' = Append(got, y)
      BY <1>12, <2>1
    <3>. HIDE DEF S, y
    <3>2. /\ Append(got, y) \in Seq(S) /\ Len(Append(got, y)) = Len(got) + 1
          /\ \A i \in 1..Len(got) : Append(got, y)[i] = got[i]
          /\ Append(got, y)[Len(got) + 1] = y
      BY <3>1, AppendProperties
    <3>. QED
      BY <3>1, <3>2 DEF S, y, g
  <2>3. Delivered'
    <3>1. \A i \in 1..g : wrote[i] # Junk /\ got[i] = OnTheWire(wrote[i])
      BY DEF FramerInv, Delivered, g
    <3>2. \A i \in 1..(g + 1) : i \in 1..g \/ i = g + 1
      BY <1>5
    <3>3. \A i \in 1..(g + 1) : wrote[i] # Junk /\ got'[i] = OnTheWire(wrote[i])
      BY <1>12, <2>2, <3>1, <3>2 DEF x
    <3>4. g + 1 <= Len(wrote)
      BY <1>5
    <3>. QED
      BY <1>2, <2>2, <3>3, <3>4 DEF Delivered
  <2>4. Reading(s, blk)'
    <3>1. consumed' = Off(ends, g + 1) /\ consumed' \in Nat /\ (consumed + 1) + n = consumed' + 1
      <4>1. /\ consumed' = consumed + n /\ consumed \in Nat /\ n \in Nat
            /\ Off(ends, g + 1) = consumed + n
        BY <1>2, <1>3, <1>4
      <4>. QED
        BY ONLY <4>1
    <3>2. At(s, consumed' + 1, wire')
      BY <1>2, <1>8, <3>1
    <3>3. inflated' = blk[g + 1]
      BY <1>3, <1>5, <1>12
    <3>4. Len(header') = 0 /\ HeaderRead(s)'
      BY <1>2 DEF HeaderRead
    <3>5. ASSUME open' PROVE /\ At(s, consumed' + 1 + Len(wire'), pending')
                             /\ consumed' + Len(wire') + Len(pending') = Len(s)
      <4>1. At(s, consumed + 1 + Len(wire), pending) /\ consumed + Len(wire) + Len(pending) = Len(s)
        BY <1>1, <1>2, <3>5 DEF InStep, Reading
      <4>2. /\ consumed' = consumed + n /\ Len(wire') = Len(wire) - n
            /\ consumed \in Nat /\ n \in Nat /\ Len(wire) \in Nat
        BY <1>2, <1>3, <1>4, <1>8
      <4>3. /\ consumed' + 1 + Len(wire') = consumed + 1 + Len(wire)
            /\ consumed' + Len(wire') = consumed + Len(wire)
        BY ONLY <4>2
      <4>. QED
        BY <1>2, <4>1, <4>3
    <3>6. consumed' = Off(ends', Len(got')) + Len(header')
      BY <1>2, <2>2, <3>1, <3>4
    <3>. QED
      BY <1>2, <2>2, <3>1, <3>2, <3>3, <3>4, <3>5, <3>6 DEF Reading
  <2>5. InStep(s, blk)'
    BY <1>1, <1>2, <2>4 DEF InStep
  <2>6. FramerInv'
    BY <1>2, <1>12, <2>3, <2>5 DEF FramerInv, NoFrameRefused
  <2>. QED
    BY <1>2, <1>5, <1>12, <2>6 DEF g, x
<1>. QED
  BY <1>10, <1>11, <1>12

(* ReadEof keeps FramerInv.                                                *)
LEMMA ReadEofKeepsInv ==
  ASSUME FramerInv, ReadEof
  PROVE  FramerInv'
<1>1. PICK s, blk : InStep(s, blk)
  BY DEF FramerInv
<1>. DEFINE g == Len(got)
            o == Off(ends, g)
<1>2. /\ outcome = "reading" /\ ~open
      /\ Len(wire) < (IF header = <<>> THEN 8 ELSE PayloadLength(header))
      /\ outcome' = IF header = <<>> THEN "closed" ELSE "io"
      /\ wire' = <<>> /\ consumed' = consumed + Len(wire)
      /\ UNCHANGED <<inflated, header, got, pending, blocks, open, wrote, ends>>
  BY DEF ReadEof, writerVars
<1>3. /\ consumed = o + Len(header) /\ consumed \in Nat /\ At(s, consumed + 1, wire)
  BY <1>1, <1>2 DEF InStep, Reading
<1>4. Len(wire) \in Nat
  BY <1>3, LenProperties DEF At
<1>5. /\ o \in Nat /\ g \in Nat /\ Len(wrote) \in Nat
      /\ g < Len(wrote) => o + 8 <= Off(ends, g + 1)
  BY <1>1, NextWrite
<1>6. CASE header = <<>>
  <2>1. consumed' \in Nat /\ o <= consumed' /\ consumed' < o + 8 /\ outcome' = "closed"
    <3>1. Len(wire) < 8 /\ consumed = o
      BY <1>2, <1>3, <1>5, <1>6
    <3>. HIDE DEF o, g
    <3>. QED
      BY <1>2, <1>4, <1>5, <1>6, <3>1
  <2>2. g < Len(wrote) => consumed' < Off(ends, g + 1)
    <3>. SUFFICES ASSUME g < Len(wrote) PROVE consumed' < Off(ends, g + 1)
      OBVIOUS
    <3>1. o + 8 <= Off(ends, g + 1) /\ Off(ends, g + 1) \in Nat
      <4>1. ends \in Seq(Nat) /\ g + 1 \in 1..Len(ends)
        BY <1>1, <1>5, TotalIsLength DEF InStep, Writes
      <4>2. g + 1 # 0
        BY <1>5
      <4>. QED
        BY <1>5, <4>1, <4>2 DEF Off
    <3>. HIDE DEF o, g
    <3>. QED
      BY <1>5, <2>1, <3>1
  <2>3. ~(consumed' >= o + 8)
    <3>. HIDE DEF o
    <3>. QED
      BY <1>5, <2>1
  <2>. QED
    BY <1>1, <1>2, <2>1, <2>2, <2>3 DEF FramerInv, AtEnd, InStep, Delivered, NoFrameRefused
<1>7. CASE header # <<>>
  <2>1. g < Len(wrote) /\ consumed = o + 8
    BY <1>1, <1>2, <1>7, InsideWrite
  <2>2. PICK q : /\ Len(q) \in Nat /\ PayloadLength(header) = Len(q)
                 /\ Off(ends, g + 1) = consumed + Len(q)
    BY <1>1, <1>2, <1>7, InsideWrite
  <2>3. /\ consumed' \in Nat /\ o <= consumed' /\ consumed' >= o + 8
        /\ consumed' < Off(ends, g + 1)
    <3>1. Len(wire) < Len(q)
      BY <1>2, <1>7, <2>2
    <3>. HIDE DEF o, g
    <3>. QED
      BY <1>2, <1>3, <1>4, <1>5, <2>1, <2>2, <3>1
  <2>4. outcome' = "io"
    BY <1>2, <1>7
  <2>. QED
    BY <1>1, <1>2, <2>1, <2>3, <2>4 DEF FramerInv, AtEnd, InStep, Delivered, NoFrameRefused
<1>. QED
  BY <1>6, <1>7

(* FramerInv is inductive.                                                 *)
LEMMA NextKeepsFramerInv ==
  ASSUME Ratio <= Growth, FramerInv, [Next]_vars
  PROVE  FramerInv'
<1>1. CASE UNCHANGED vars
  BY <1>1 DEF vars, FramerInv, Delivered, NoFrameRefused, AtEnd, InStep, Reading, HeaderRead
<1>2. CASE \E f \in Frames : WriteHeader(f)
  BY <1>2, WriteHeaderKeepsInv
<1>3. CASE WritePayload
  BY <1>3, WritePayloadKeepsInv
<1>4. CASE \E b \in Malformed : WriteMalformed(b)
  BY <1>4, WriteMalformedKeepsInv
<1>5. CASE \E n \in 0..Len(wire) : Cut(n)
  BY <1>5, CutKeepsInv
<1>6. CASE ReadHeader
  BY <1>6, ReadHeaderKeepsInv
<1>7. CASE ReadPayload
  BY <1>7, ReadPayloadKeepsInv
<1>8. CASE ReadEof
  BY <1>8, ReadEofKeepsInv
<1>. QED
  BY <1>1, <1>2, <1>3, <1>4, <1>5, <1>6, <1>7, <1>8 DEF Next

----------------------------------------------------------------------------
(* What follows from the invariant.                                        *)

(* FramerInv holds of every behaviour.                                     *)
LEMMA SpecFramerInv ==
  ASSUME Ratio <= Growth
  PROVE  Spec => []FramerInv
<1>1. Init => FramerInv
  BY InitFramerInv
<1>2. FramerInv /\ [Next]_vars => FramerInv'
  BY NextKeepsFramerInv
<1>. QED
  BY <1>1, <1>2, PTL DEF Spec

(* read_frame reports an error of the protocol or of the compression only  *)
(* where the peer put bytes that are no frame: it accepts every frame      *)
(* write_frame wrote, whichever those are, however their bytes arrive, and *)
(* with the header blocks inflated in the order they were deflated.  The   *)
(* buffer decompress reserves has to hold what it inflates: Ratio <=       *)
(* Growth.  MCFramerGrow shows a refused frame without it.                 *)
THEOREM FramesAccepted ==
  ASSUME Ratio <= Growth
  PROVE  Spec => []NoFrameRefused
<1>1. FramerInv => NoFrameRefused
  BY DEF FramerInv
<1>. QED
  BY <1>1, SpecFramerInv, PTL

(* A reader that saw the end of the wire has every frame that arrived      *)
(* whole, and its error tells whether the end was inside a payload.        *)
LEMMA AtEndAccounts ==
  ASSUME FramerInv, outcome \in {"closed", "io"}
  PROVE  /\ Len(got) = Whole
         /\ outcome = "io" <=>
              /\ Len(got) < Len(wrote)
              /\ consumed >= (IF got = <<>> THEN 0 ELSE ends[Len(got)]) + 8
<1>1. PICK s, blk : InStep(s, blk)
  BY DEF FramerInv
<1>. DEFINE g == Len(got)
            n == Len(wrote)
<1>2. /\ wire = <<>> /\ consumed \in Nat /\ Off(ends, g) <= consumed
      /\ g < n => consumed < Off(ends, g + 1)
      /\ outcome = "io" <=> g < n /\ consumed >= Off(ends, g) + 8
  BY DEF FramerInv, AtEnd
<1>3. g \in Nat /\ n \in Nat /\ g <= n
  BY <1>1, NextWrite
<1>4. ends \in Seq(Nat) /\ Len(ends) = n /\ Apart(ends, n)
  BY <1>1 DEF InStep, Writes
<1>5. (IF got = <<>> THEN 0 ELSE ends[Len(got)]) = Off(ends, g)
  <2>1. got = <<>> <=> g = 0
    BY EmptySeq DEF FramerInv, Delivered
  <2>. QED
    BY <2>1 DEF Off
<1>6. consumed + Len(wire) = consumed
  BY <1>2
<1>. HIDE DEF g, n
<1>7. \A i \in 1..n : ends[i] \in Nat /\ Off(ends, i) = ends[i]
  BY <1>3, <1>4 DEF Off
<1>8. ASSUME NEW i \in 1..n PROVE ends[i] <= consumed <=> i <= g
  <2>1. CASE i < g
    <3>1. i \in 0..n /\ g \in 0..n /\ g \in 1..n
      BY <1>3, <2>1
    <3>2. Off(ends, i) + 8 <= Off(ends, g)
      BY <1>4, <2>1, <3>1 DEF Apart
    <3>. QED
      BY <1>2, <1>3, <1>7, <2>1, <3>1, <3>2
  <2>2. CASE i = g
    BY <1>2, <1>3, <1>7, <2>2
  <2>3. CASE i = g + 1
    BY <1>2, <1>3, <1>7, <2>3
  <2>4. CASE i > g + 1
    <3>1. g < n /\ g + 1 \in 0..n /\ g + 1 \in 1..n /\ i \in 0..n
      BY <1>3, <2>4
    <3>2. Off(ends, g + 1) + 8 <= Off(ends, i)
      BY <1>4, <2>4, <3>1 DEF Apart
    <3>. QED
      BY <1>2, <1>3, <1>7, <2>4, <3>1, <3>2
  <2>. QED
    BY <1>3, <2>1, <2>2, <2>3, <2>4
<1>9. {i \in DOMAIN ends : ends[i] <= consumed + Len(wire)} = 1..g
  <2>1. DOMAIN ends = 1..n
    BY <1>4
  <2>2. \A i : i \in 1..g <=> i \in 1..n /\ i <= g
    BY <1>3
  <2>. QED
    BY <1>6, <1>8, <2>1, <2>2
<1>10. Cardinality(1..g) = g
  <2>1. 1 \in Int /\ g \in Int
    BY <1>3
  <2>2. Cardinality(1..g) = IF 1 > g THEN 0 ELSE g - 1 + 1
    BY <2>1, FS_Interval
  <2>. QED
    BY <1>3, <2>2
<1>11. g = Whole
  BY <1>9, <1>10 DEF Whole
<1>. QED
  BY <1>2, <1>5, <1>11 DEF g, n

(* A read_frame that saw the end of the transport comes after one that     *)
(* returned every frame that arrived whole; it reports an I/O error        *)
(* exactly when the header of another frame had arrived, a closed          *)
(* connection otherwise.                                                   *)
THEOREM EndAccountedFor ==
  ASSUME Ratio <= Growth
  PROVE  Spec => []EofAccountsForFrames
<1>1. FramerInv => EofAccountsForFrames
  BY AtEndAccounts DEF EofAccountsForFrames
<1>. QED
  BY <1>1, SpecFramerInv, PTL

----------------------------------------------------------------------------
(* The refinement.                                                         *)

(* No frame comes out as Junk, and Junk stays itself.                      *)
LEMMA WireNotJunk ==
  ASSUME NEW f \in Frames
  PROVE  OnTheWire(f) # Junk
<1>1. f \in ControlFrames(SentHeaders) \/ f \in DataFrames
  BY FramesAssumption
<1>2. OnTheWire(f).type = f.type
  <2>1. CASE f \in DataFrames
    BY <2>1 DEF DataFrames, OnTheWire
  <2>2. CASE f \in SynStreams(SentHeaders)
    BY <2>2 DEF SynStreams, OnTheWire
  <2>3. CASE f \in HeaderFrames(SentHeaders)
    BY <2>3 DEF HeaderFrames, OnTheWire
  <2>4. CASE f \in RstStreams
    BY <2>4 DEF RstStreams, OnTheWire
  <2>5. CASE f \in SettingsFrames
    BY <2>5 DEF SettingsFrames, OnTheWire
  <2>6. CASE f \in Pings
    BY <2>6 DEF Pings, OnTheWire
  <2>7. CASE f \in GoAways
    BY <2>7 DEF GoAways, OnTheWire
  <2>8. CASE f \in WindowUpdates
    BY <2>8 DEF WindowUpdates, OnTheWire
  <2>. QED
    BY <1>1, <2>1, <2>2, <2>3, <2>4, <2>5, <2>6, <2>7, <2>8 DEF ControlFrames
<1>3. f.type # "JUNK"
  <2>1. CASE f \in DataFrames
    BY <2>1 DEF DataFrames
  <2>2. CASE f \in ControlFrames(SentHeaders)
    BY <2>2, TypeNames DEF TypeCode
  <2>. QED
    BY <1>1, <2>1, <2>2
<1>4. Junk.type = "JUNK"
  BY DEF Junk
<1>. QED
  BY <1>2, <1>3, <1>4

SentOf(w) == [i \in DOMAIN w |-> OnTheWire(w[i])]

(* The frames on their way, one for every frame written.                   *)
LEMMA SentFacts ==
  ASSUME NEW w, NEW S, w \in Seq(S)
  PROVE  /\ SentOf(w) \in Seq({OnTheWire(x) : x \in S}) /\ Len(SentOf(w)) = Len(w)
         /\ \A i \in 1..Len(w) : SentOf(w)[i] = OnTheWire(w[i])
<1>1. DOMAIN w = 1..Len(w) /\ Len(w) \in Nat
  BY LenProperties
<1>2. SentOf(w) = [i \in 1..Len(w) |-> OnTheWire(w[i])]
  BY <1>1 DEF SentOf
<1>3. \A i \in 1..Len(w) : OnTheWire(w[i]) \in {OnTheWire(x) : x \in S}
  BY <1>1
<1>. QED
  BY <1>1, <1>2, <1>3

(* A write extends what was sent.                                          *)
LEMMA SentAppend ==
  ASSUME NEW w, NEW S, w \in Seq(S), NEW x \in S, NEW w2, w2 = Append(w, x)
  PROVE  /\ Len(SentOf(w2)) = Len(SentOf(w)) + 1
         /\ SubSeq(SentOf(w2), 1, Len(SentOf(w))) = SentOf(w)
<1>. DEFINE T == {OnTheWire(y) : y \in S}
            n == Len(w)
            a == SentOf(w)
            b == SentOf(w2)
<1>1. w2 \in Seq(S) /\ Len(w2) = n + 1 /\ n \in Nat /\ \A i \in 1..n : w2[i] = w[i]
  BY AppendProperties, LenProperties
<1>2. /\ a \in Seq(T) /\ Len(a) = n /\ \A i \in 1..n : a[i] = OnTheWire(w[i])
      /\ b \in Seq(T) /\ Len(b) = n + 1 /\ \A i \in 1..(n + 1) : b[i] = OnTheWire(w2[i])
  BY <1>1, SentFacts
<1>. HIDE DEF a, b, T, n
<1>3. \A i \in 1..n : i \in 1..(n + 1) /\ b[i] = a[i]
  BY <1>1, <1>2
<1>4. SubSeq(b, 1, n) = a
  <2>1. SubSeq(b, 1, n) = [i \in 1..n |-> b[i]]
    BY <1>1, <1>2
  <2>2. a = [i \in 1..n |-> a[i]]
    BY <1>2
  <2>. QED
    BY <1>3, <2>1, <2>2
<1>. QED
  BY <1>2, <1>4 DEF a, b

(* Every step of the framer is one of the channel or leaves it alone.      *)
LEMMA StepDelivers ==
  ASSUME Ratio <= Growth, FramerInv, [Next]_vars
  PROVE  [Channel!Next]_(Channel!vars)
<1>. DEFINE sent == [i \in DOMAIN wrote |-> OnTheWire(wrote[i])]
<1>0. sent = SentOf(wrote) /\ sent' = SentOf(wrote')
  BY DEF SentOf
<1>1. wrote \in Seq(Frames \cup {Junk})
  <2>1. PICK s, blk : InStep(s, blk)
    BY DEF FramerInv
  <2>. QED
    BY <2>1 DEF InStep, Writes
<1>. HIDE DEF sent
<1>2. ASSUME UNCHANGED <<wrote, got, outcome>> PROVE UNCHANGED Channel!vars
  BY <1>2 DEF Channel!vars
<1>3. ASSUME NEW x \in Frames \cup {Junk}, wrote' = Append(wrote, x), UNCHANGED <<got, outcome>>
      PROVE  Channel!Next
  <2>1. Len(sent') = Len(sent) + 1 /\ SubSeq(sent', 1, Len(sent)) = sent
    BY <1>0, <1>1, <1>3, SentAppend
  <2>. QED
    BY <1>3, <2>1 DEF Channel!Next, Channel!Send, sent
<1>4. ASSUME UNCHANGED <<wrote, got>>, outcome = "reading", outcome' # "reading"
      PROVE  Channel!Next
  BY <1>4 DEF Channel!Next, Channel!Stop
<1>5. CASE UNCHANGED vars
  BY <1>2, <1>5 DEF vars
<1>6. CASE \E f \in Frames : WriteHeader(f)
  BY <1>3, <1>6 DEF WriteHeader
<1>7. CASE WritePayload
  BY <1>2, <1>7 DEF WritePayload
<1>8. CASE \E b \in Malformed : WriteMalformed(b)
  BY <1>3, <1>8 DEF WriteMalformed
<1>9. CASE \E n \in 0..Len(wire) : Cut(n)
  BY <1>2, <1>9 DEF Cut
<1>10. CASE ReadHeader
  <2>1. UNCHANGED <<wrote, got>> /\ outcome = "reading" /\ outcome' \in {outcome, "protocol"}
    BY <1>10 DEF ReadHeader, writerVars
  <2>. QED
    BY <1>2, <1>4, <2>1
<1>11. CASE ReadEof
  BY <1>4, <1>11 DEF ReadEof, writerVars
<1>12. CASE ReadPayload
  <2>. DEFINE x == wrote[Len(got) + 1]
  <2>1. /\ outcome = "reading" /\ wrote' = wrote
        /\ Len(got) \in Nat /\ Len(got) + 1 \in 1..Len(wrote)
        /\ \/ /\ x \in Frames /\ x # Junk
              /\ got' = Append(got, OnTheWire(x)) /\ outcome' = outcome
           \/ x = Junk /\ got' = got /\ outcome' \in Errors
    BY <1>12, ReadPayloadKeepsInv
  <2>2. CASE x = Junk /\ got' = got /\ outcome' \in Errors
    BY <1>4, <2>1, <2>2 DEF Errors
  <2>3. CASE x \in Frames /\ got' = Append(got, OnTheWire(x)) /\ outcome' = outcome
    <3>1. /\ Len(sent) = Len(wrote) /\ sent[Len(got) + 1] = OnTheWire(x)
      BY <1>0, <1>1, <2>1, SentFacts
    <3>2. sent' = sent /\ OnTheWire(x) # Junk /\ Len(got) + 1 <= Len(sent)
      BY <1>0, <2>1, <2>3, <3>1, WireNotJunk
    <3>. QED
      BY <2>1, <2>3, <3>1, <3>2 DEF Channel!Next, Channel!Deliver, sent
  <2>. QED
    BY <2>1, <2>2, <2>3
<1>. QED
  BY <1>5, <1>6, <1>7, <1>8, <1>9, <1>10, <1>11, <1>12 DEF Next

(* The pair of Framers implements FrameChannel: frames come out in the     *)
(* order they went in, as OnTheWire says, none twice and none made up, and *)
(* nothing passes bytes that are no frame.                                 *)
THEOREM FramesDelivered ==
  ASSUME Ratio <= Growth
  PROVE  Spec => DeliversFrames
<1>1. Init => Channel!Init
  <2>. SUFFICES ASSUME Init PROVE Channel!Init
    OBVIOUS
  <2>1. wrote = <<>> /\ got = <<>> /\ outcome = "reading"
    BY DEF Init
  <2>2. [i \in DOMAIN wrote |-> OnTheWire(wrote[i])] = <<>>
    BY <2>1
  <2>. QED
    BY <2>1, <2>2 DEF Channel!Init
<1>2. FramerInv /\ [Next]_vars => [Channel!Next]_(Channel!vars)
  BY StepDelivers
<1>. QED
  BY <1>1, <1>2, SpecFramerInv, PTL DEF Spec, DeliversFrames, Channel!Spec

=============================================================================
