--------------------------- MODULE SequenceLemmas ---------------------------
(***************************************************************************)
(* What the proofs need to know of sequences of sequences, the flattening  *)
(* of one, by induction over its length, and of the lists of a finite set  *)
(* in the order of its elements.  A set of numbers that has 0 and is       *)
(* closed under successor has every natural number: induction in this      *)
(* form needs no operator as a parameter.                                  *)
(***************************************************************************)
EXTENDS Integers, Sequences, SequencesExt, SequenceTheorems, FiniteSetTheorems,
        WellFoundedInduction, TLAPS

(* A set of numbers that is not empty has a least one.                     *)
LEMMA LeastElement ==
  ASSUME NEW T \in SUBSET Nat, T # {}
  PROVE  \E x \in T : \A y \in T : x <= y
<1>. DEFINE R == {ss \in Nat \X Nat : ss[1] < ss[2]}
<1>1. IsWellFoundedOn(R, Nat)
  BY NatLessThanWellFounded DEF OpToRel
<1>. HIDE DEF R
<1>2. \E x \in T : \A y \in T : ~(<<y, x>> \in R)
  BY <1>1, WFMin
<1>3. PICK x \in T : \A y \in T : ~(<<y, x>> \in R)
  BY <1>2
<1>4. \A y \in Nat : y < x => <<y, x>> \in R
  BY DEF R
<1>5. \A y \in T : x <= y
  <2>. SUFFICES ASSUME NEW y \in T PROVE x <= y
    OBVIOUS
  <2>1. x \in Nat /\ y \in Nat /\ ~(y < x)
    BY <1>3, <1>4
  <2>. QED
    BY <2>1
<1>. QED
  BY <1>5

(* Min of the community modules is that one.                               *)
LEMMA MinFacts ==
  ASSUME NEW T \in SUBSET Nat, T # {}
  PROVE  Min(T) \in T /\ \A y \in T : Min(T) <= y
<1>1. PICK x \in T : \A y \in T : x <= y
  BY LeastElement
<1>. QED
  BY <1>1 DEF Min

(* Induction over the natural numbers, for a set.                          *)
LEMMA NatInductionSet ==
  ASSUME NEW S, 0 \in S, \A n \in S \cap Nat : n + 1 \in S
  PROVE  Nat \subseteq S
<1>. DEFINE T == Nat \ S
<1>. SUFFICES ASSUME T # {} PROVE FALSE
  OBVIOUS
<1>1. PICK x \in T : \A y \in T : x <= y
  BY LeastElement
<1>2. x # 0 /\ x \in Nat /\ x - 1 \in Nat
  BY <1>1
<1>3. x - 1 \in S
  BY <1>1, <1>2
<1>4. (x - 1) + 1 \in S /\ (x - 1) + 1 = x
  <2>1. x - 1 \in S \cap Nat
    BY <1>2, <1>3
  <2>2. (x - 1) + 1 \in S
    BY <2>1
  <2>. QED
    BY <2>2, <1>2
<1>5. x \notin S
  BY <1>1
<1>. QED
  BY <1>4, <1>5

(* s \o t, as a name of its own for the provers. *)
Cat(s, t) == s \o t

(* f is the function in FlattenSeq(q), up to n.                            *)
Flattens(f, q, n) == f = [i \in 1..n |-> IF i = 1 THEN q[i] ELSE Cat(f[i - 1], q[i])]

(* The recursive function inside FlattenSeq exists, for any length.        *)
LEMMA FlattensExists ==
  ASSUME NEW q
  PROVE  \A n \in Nat : \E f : Flattens(f, q, n)
<1>. DEFINE S == {n \in Nat : \E f : Flattens(f, q, n)}
<1>1. 0 \in S
  <2>. DEFINE e == [i \in 1..0 |-> q[i]]
  <2>1. \A g : e = [i \in 1..0 |-> IF i = 1 THEN q[i] ELSE Cat(g[i - 1], q[i])]
    OBVIOUS
  <2>. HIDE DEF e
  <2>. QED
    BY <2>1, ZenonT(40) DEF Flattens
<1>2. ASSUME NEW n \in S \cap Nat PROVE n + 1 \in S
  <2>1. PICK f : Flattens(f, q, n)
    BY <1>2
  <2>. DEFINE g == [i \in 1..(n + 1) |-> IF i = n + 1 THEN (IF i = 1 THEN q[i] ELSE Cat(f[i - 1], q[i])) ELSE f[i]]
  <2>2. \A i \in 1..n : f[i] = IF i = 1 THEN q[i] ELSE Cat(f[i - 1], q[i])
    BY <2>1 DEF Flattens
  <2>3. \A i \in 1..n : g[i] = f[i]
    OBVIOUS
  <2>4. ASSUME NEW i \in 1..(n + 1) PROVE g[i] = IF i = 1 THEN q[i] ELSE Cat(g[i - 1], q[i])
    <3>1. i # 1 => i - 1 \in 1..n
      OBVIOUS
    <3>2. i # 1 => g[i - 1] = f[i - 1]
      BY <3>1, <2>3
    <3>3. CASE i = n + 1
      <4>1. g[i] = IF i = 1 THEN q[i] ELSE Cat(f[i - 1], q[i])
        BY <3>3
      <4>. HIDE DEF g
      <4>. QED
        BY <4>1, <3>2
    <3>4. CASE i # n + 1
      <4>1. i \in 1..n
        BY <3>4
      <4>. HIDE DEF g
      <4>. QED
        BY <4>1, <2>2, <2>3, <3>2
    <3>. QED
      BY <3>3, <3>4
  <2>5. DOMAIN g = 1..(n + 1) /\ g = [i \in DOMAIN g |-> g[i]]
    OBVIOUS
  <2>. HIDE DEF g
  <2>6. Flattens(g, q, n + 1)
    BY <2>4, <2>5, Zenon DEF Flattens
  <2>. QED
    BY <2>6
<1>. HIDE DEF S
<1>3. Nat \subseteq S
  BY <1>1, <1>2, NatInductionSet
<1>. QED
  BY <1>3 DEF S

(* FlattenSeq is that function at the last element.                        *)
LEMMA FlattenFunction ==
  ASSUME NEW q, Len(q) \in Nat
  PROVE  /\ Len(q) = 0 => FlattenSeq(q) = q
         /\ Len(q) # 0 => \E f : Flattens(f, q, Len(q)) /\ FlattenSeq(q) = f[Len(q)]
<1>1. \E f : Flattens(f, q, Len(q))
  BY FlattensExists
<1>2. Flattens(CHOOSE f : Flattens(f, q, Len(q)), q, Len(q))
  BY <1>1
<1>3. Len(q) # 0 => FlattenSeq(q) = (CHOOSE f : Flattens(f, q, Len(q)))[Len(q)]
  BY DEF FlattenSeq, Flattens, Cat
<1>4. Len(q) = 0 => FlattenSeq(q) = q
  BY DEF FlattenSeq
<1>. QED
  BY <1>2, <1>3, <1>4

(* The flattening up to the next element has it behind what was there.     *)
LEMMA FlattensStep ==
  ASSUME NEW q, NEW n \in Nat, NEW f, Flattens(f, q, n)
  PROVE  /\ n # 0 => f[1] = q[1]
         /\ \A i \in 1..(n - 1) : f[i + 1] = Cat(f[i], q[i + 1])
<1>1. \A i \in 1..n : f[i] = IF i = 1 THEN q[i] ELSE Cat(f[i - 1], q[i])
  BY DEF Flattens
<1>2. n # 0 => f[1] = q[1]
  BY <1>1
<1>3. ASSUME NEW i \in 1..(n - 1) PROVE f[i + 1] = Cat(f[i], q[i + 1])
  <2>1. i + 1 \in 1..n /\ i + 1 # 1 /\ (i + 1) - 1 = i
    OBVIOUS
  <2>2. f[i + 1] = Cat(f[(i + 1) - 1], q[i + 1])
    BY <1>1, <2>1
  <2>. QED
    BY <2>1, <2>2
<1>. QED
  BY <1>2, <1>3

(* Concatenation with the empty sequence.                                  *)
LEMMA CatFacts ==
  ASSUME NEW S, NEW s \in Seq(S), NEW t \in Seq(S)
  PROVE  /\ Cat(s, t) \in Seq(S) /\ Cat(s, <<>>) = s /\ Cat(<<>>, s) = s
<1>1. s \o t \in Seq(S) /\ s \o <<>> = s /\ <<>> \o s = s
  BY ConcatProperties, ConcatEmptySeq
<1>. QED
  BY <1>1 DEF Cat

(* Concatenation is associative.                                           *)
LEMMA CatAssociative ==
  ASSUME NEW S, NEW s \in Seq(S), NEW t \in Seq(S), NEW u \in Seq(S)
  PROVE  Cat(Cat(s, t), u) = Cat(s, Cat(t, u))
BY ConcatAssociative DEF Cat

(* A flattening has the type of its pieces.                                *)
LEMMA FlattensType ==
  ASSUME NEW S, NEW q, NEW n \in Nat, \A i \in 1..n : q[i] \in Seq(S), NEW f, Flattens(f, q, n)
  PROVE  \A i \in 1..n : f[i] \in Seq(S)
<1>. DEFINE T == {i \in Nat : i \in 1..n => f[i] \in Seq(S)}
<1>1. /\ n # 0 => f[1] = q[1]
      /\ \A i \in 1..(n - 1) : f[i + 1] = Cat(f[i], q[i + 1])
  BY FlattensStep
<1>2. 0 \in T
  OBVIOUS
<1>3. ASSUME NEW i \in T \cap Nat PROVE i + 1 \in T
  <2>1. CASE i + 1 \in 1..n /\ i # 0
    <3>1. i \in 1..(n - 1) /\ f[i] \in Seq(S) /\ q[i + 1] \in Seq(S)
      BY <2>1
    <3>2. f[i + 1] = Cat(f[i], q[i + 1])
      BY <3>1, <1>1
    <3>3. Cat(f[i], q[i + 1]) \in Seq(S)
      BY <3>1, CatFacts
    <3>. QED
      BY <3>2, <3>3
  <2>2. CASE i + 1 \in 1..n /\ i = 0
    <3>1. i + 1 = 1 /\ n # 0 /\ 1 \in 1..n
      BY <2>2
    <3>. QED
      BY <3>1, <1>1
  <2>. QED
    BY <2>1, <2>2
<1>. HIDE DEF T
<1>4. Nat \subseteq T
  BY <1>2, <1>3, NatInductionSet
<1>. QED
  BY <1>4 DEF T

(* With e in front.                                                        *)
Sequences(q, n, S)  == \A i \in 1..n : q[i] \in Seq(S)
Shifted(f, e, q, n) == f[1] = e /\ \A i \in 1..n : f[i + 1] = Cat(f[i], q[i])

(* Flattening with e in front is e in front of the flattening.             *)
LEMMA FlattensShift ==
  ASSUME NEW S, NEW n \in Nat, NEW e \in Seq(S), NEW q, Sequences(q, n, S),
         NEW g, Flattens(g, q, n), NEW f, Shifted(f, e, q, n)
  PROVE  \A i \in 1..n : f[i + 1] = Cat(e, g[i])
<1>0. /\ \A i \in 1..n : q[i] \in Seq(S)
      /\ f[1] = e /\ \A i \in 1..n : f[i + 1] = Cat(f[i], q[i])
  BY DEF Sequences, Shifted
<1>. DEFINE T == {i \in Nat : i \in 1..n => f[i + 1] = Cat(e, g[i])}
<1>1. /\ n # 0 => g[1] = q[1]
      /\ \A i \in 1..(n - 1) : g[i + 1] = Cat(g[i], q[i + 1])
  BY FlattensStep
<1>2. \A i \in 1..n : g[i] \in Seq(S)
  BY <1>0, FlattensType
<1>3. 0 \in T
  OBVIOUS
<1>4. ASSUME NEW i \in T \cap Nat PROVE i + 1 \in T
  <2>1. CASE i + 1 \in 1..n /\ i # 0
    <3>1. i \in 1..(n - 1) /\ i \in 1..n /\ f[i + 1] = Cat(e, g[i]) /\ q[i + 1] \in Seq(S)
      BY <2>1, <1>0
    <3>2. f[(i + 1) + 1] = Cat(Cat(e, g[i]), q[i + 1]) /\ g[i + 1] = Cat(g[i], q[i + 1])
      BY <3>1, <2>1, <1>0, <1>1
    <3>3. g[i] \in Seq(S) /\ q[i + 1] \in Seq(S)
      BY <3>1, <1>2
    <3>4. Cat(Cat(e, g[i]), q[i + 1]) = Cat(e, Cat(g[i], q[i + 1]))
      BY <3>3, CatAssociative, SMT
    <3>. QED
      BY <3>2, <3>4
  <2>2. CASE i + 1 \in 1..n /\ i = 0
    <3>1. i + 1 = 1 /\ n # 0 /\ 1 \in 1..n
      BY <2>2
    <3>2. f[1 + 1] = Cat(f[1], q[1])
      BY <3>1, <1>0
    <3>. QED
      BY <3>1, <3>2, <1>0, <1>1
  <2>. QED
    BY <2>1, <2>2
<1>. HIDE DEF T
<1>5. Nat \subseteq T
  BY <1>3, <1>4, NatInductionSet
<1>. QED
  BY <1>5 DEF T

(* The flattening of a sequence of sequences: its type, the empty one, one *)
(* taken in front, and one put behind.                                     *)
LEMMA FlattenFacts ==
  ASSUME NEW S, NEW q \in Seq(Seq(S))
  PROVE  /\ FlattenSeq(q) \in Seq(S)
         /\ q = <<>> => FlattenSeq(q) = <<>>
<1>1. Len(q) \in Nat /\ (Len(q) = 0 <=> q = <<>>) /\ <<>> \in Seq(S)
  OBVIOUS
<1>2. Len(q) = 0 => FlattenSeq(q) = q
  BY <1>1, FlattenFunction
<1>3. CASE Len(q) # 0
  <2>1. PICK f : Flattens(f, q, Len(q)) /\ FlattenSeq(q) = f[Len(q)]
    BY <1>1, <1>3, FlattenFunction
  <2>2. \A i \in 1..Len(q) : f[i] \in Seq(S)
    <3>1. \A i \in 1..Len(q) : q[i] \in Seq(S)
      OBVIOUS
    <3>. QED
      BY <2>1, <3>1, <1>1, FlattensType
  <2>. QED
    BY <2>1, <2>2, <1>1, <1>3
<1>. QED
  BY <1>1, <1>2, <1>3

(* A flattening is the first piece and the flattening of the rest.         *)
LEMMA FlattenHeadTail ==
  ASSUME NEW S, NEW q \in Seq(Seq(S)), q # <<>>
  PROVE  /\ Head(q) \in Seq(S) /\ Tail(q) \in Seq(Seq(S))
         /\ FlattenSeq(q) = Head(q) \o FlattenSeq(Tail(q))
<1>. DEFINE n == Len(q)
            t == Tail(q)
<1>1. /\ n \in Nat \ {0} /\ n - 1 \in Nat
      /\ q[1] \in Seq(S) /\ Head(q) = q[1] /\ t \in Seq(Seq(S)) /\ Len(t) = n - 1
  OBVIOUS
<1>2. PICK f : Flattens(f, q, n) /\ FlattenSeq(q) = f[n]
  BY <1>1, FlattenFunction
<1>3. CASE n = 1
  <2>1. f[1] = q[1]
    BY <1>1, <1>2, FlattensStep
  <2>2. t = <<>> /\ FlattenSeq(t) = <<>>
    <3>1. Len(t) = 0
      BY <1>1, <1>3
    <3>2. t = <<>>
      BY <1>1, <3>1, EmptySeq
    <3>. QED
      BY <1>1, <3>2, FlattenFacts
  <2>3. q[1] \o <<>> = q[1]
    BY <1>1, ConcatEmptySeq
  <2>. QED
    BY <1>1, <1>2, <1>3, <2>1, <2>2, <2>3
<1>4. CASE n # 1
  <2>1. Len(t) \in Nat /\ Len(t) # 0
    BY <1>1, <1>4
  <2>2. PICK g : Flattens(g, t, n - 1) /\ FlattenSeq(t) = g[n - 1]
    BY <1>1, <2>1, FlattenFunction
  <2>. DEFINE m == n - 1
  <2>a. /\ m \in Nat
        /\ \A i \in 1..m : t[i] \in Seq(S) /\ t[i] = q[i + 1]
    <3>1. \A i \in 1..(Len(q) - 1) : Tail(q)[i] \in Seq(S) /\ Tail(q)[i] = q[i + 1]
      OBVIOUS
    <3>. QED
      BY <1>1, <3>1
  <2>b. f[1] = q[1] /\ \A i \in 1..m : f[i + 1] = Cat(f[i], q[i + 1])
    BY <1>1, <1>2, FlattensStep, ZenonT(40)
  <2>c. \A i \in 1..m : f[i + 1] = Cat(f[i], t[i])
    BY <2>a, <2>b
  <2>d. Flattens(g, t, m) /\ FlattenSeq(t) = g[m]
    BY <2>2
  <2>. HIDE DEF m, t
  <2>3. \A i \in 1..m : f[i + 1] = Cat(q[1], g[i])
    <3>1. q[1] \in Seq(S) /\ m \in Nat /\ \A i \in 1..m : t[i] \in Seq(S)
      BY <1>1, <2>a
    <3>. DEFINE e == q[1]
    <3>2. e \in Seq(S) /\ Shifted(f, e, t, m) /\ Sequences(t, m, S)
      BY <3>1, <2>b, <2>c DEF Shifted, Sequences
    <3>. HIDE DEF e
    <3>3. \A i \in 1..m : f[i + 1] = Cat(e, g[i])
      BY <3>1, <3>2, <2>d, FlattensShift
    <3>. QED
      BY <3>3 DEF e
  <2>4. m \in 1..m /\ m + 1 = n
    BY <1>1, <1>4 DEF m
  <2>5. f[n] = Cat(q[1], g[m])
    BY <2>3, <2>4
  <2>. QED
    BY <1>1, <1>2, <2>d, <2>5 DEF Cat, t
<1>. QED
  BY <1>1, <1>3, <1>4

(* Two functions that flatten the same sequences agree.                    *)
LEMMA FlattensUnique ==
  ASSUME NEW n \in Nat, NEW q, NEW f, Flattens(f, q, n),
         NEW r, NEW m \in Nat, n <= m, NEW g, Flattens(g, r, m), \A i \in 1..n : q[i] = r[i]
  PROVE  \A i \in 1..n : f[i] = g[i]
<1>. DEFINE T == {i \in Nat : i \in 1..n => f[i] = g[i]}
<1>1. /\ n # 0 => f[1] = q[1]
      /\ \A i \in 1..(n - 1) : f[i + 1] = Cat(f[i], q[i + 1])
  BY FlattensStep
<1>2. /\ m # 0 => g[1] = r[1]
      /\ \A i \in 1..(m - 1) : g[i + 1] = Cat(g[i], r[i + 1])
  BY FlattensStep
<1>3. 0 \in T
  OBVIOUS
<1>4. ASSUME NEW i \in T \cap Nat PROVE i + 1 \in T
  <2>1. CASE i + 1 \in 1..n /\ i # 0
    <3>1. i \in 1..(n - 1) /\ i \in 1..(m - 1) /\ f[i] = g[i] /\ q[i + 1] = r[i + 1]
      BY <2>1
    <3>. QED
      BY <3>1, <1>1, <1>2
  <2>2. CASE i + 1 \in 1..n /\ i = 0
    <3>1. i + 1 = 1 /\ n # 0 /\ m # 0 /\ q[1] = r[1]
      BY <2>2
    <3>. QED
      BY <3>1, <1>1, <1>2
  <2>. QED
    BY <2>1, <2>2
<1>. HIDE DEF T
<1>5. Nat \subseteq T
  BY <1>3, <1>4, NatInductionSet
<1>. QED
  BY <1>5 DEF T

(* With one more piece, a flattening has it behind.                        *)
LEMMA FlattenAppend ==
  ASSUME NEW S, NEW q \in Seq(Seq(S)), NEW e \in Seq(S)
  PROVE  FlattenSeq(Append(q, e)) = FlattenSeq(q) \o e
<1>. DEFINE n == Len(q)
            r == Append(q, e)
<1>1. /\ n \in Nat /\ n + 1 \in Nat /\ n + 1 # 0 /\ n <= n + 1
      /\ Len(r) = n + 1 /\ r[n + 1] = e /\ \A i \in 1..n : q[i] = r[i]
  BY AppendProperties
<1>2. PICK g : Flattens(g, r, n + 1) /\ FlattenSeq(r) = g[n + 1]
  BY <1>1, FlattenFunction
<1>3. CASE n = 0
  <2>1. g[1] = e
    BY <1>1, <1>2, <1>3, FlattensStep
  <2>2. FlattenSeq(q) = <<>>
    <3>1. q = <<>>
      BY <1>3, EmptySeq
    <3>. QED
      BY <3>1, FlattenFacts
  <2>3. <<>> \o e = e
    BY ConcatEmptySeq
  <2>. QED
    BY <1>2, <1>3, <2>1, <2>2, <2>3
<1>4. CASE n # 0
  <2>1. PICK f : Flattens(f, q, n) /\ FlattenSeq(q) = f[n]
    BY <1>1, <1>4, FlattenFunction
  <2>. HIDE DEF n, r
  <2>2. f[n] = g[n]
    <3>1. n \in 1..n
      BY <1>1, <1>4
    <3>2. \A i \in 1..n : f[i] = g[i]
      BY <1>1, <1>2, <2>1, FlattensUnique
    <3>. QED
      BY <3>1, <3>2
  <2>3. g[n + 1] = Cat(g[n], r[n + 1])
    <3>1. n \in 1..((n + 1) - 1)
      BY <1>1, <1>4
    <3>2. \A i \in 1..((n + 1) - 1) : g[i + 1] = Cat(g[i], r[i + 1])
      BY <1>1, <1>2, FlattensStep, ZenonT(40)
    <3>. QED
      BY <3>1, <3>2
  <2>. QED
    BY <1>1, <1>2, <2>1, <2>2, <2>3 DEF Cat, r
<1>. QED
  BY <1>3, <1>4

----------------------------------------------------------------------------
(* Where the pieces of a flattening are.                                   *)

(* off[k]: elements of s before the (k + 1)-th piece of q.                 *)
Pieces(off, q, s) ==
  /\ off \in [0..Len(q) -> Nat] /\ off[0] = 0 /\ Len(s) = off[Len(q)]
  /\ \A k \in 1..Len(q) : /\ off[k] = off[k - 1] + Len(q[k])
                          /\ \A i \in 1..Len(q[k]) : s[off[k - 1] + i] = q[k][i]

(* No piece goes beyond the end.                                           *)
LEMMA PiecesWithin ==
  ASSUME NEW S, NEW q \in Seq(Seq(S)), NEW s, NEW off, Pieces(off, q, s)
  PROVE  /\ \A k \in 0..Len(q) : off[k] \in Nat /\ off[k] <= Len(s)
         /\ \A k \in 1..Len(q) : Len(q[k]) \in Nat
<1>. DEFINE n == Len(q)
            Q == Seq(S)
            T == {j \in Nat : j <= n => off[n - j] <= off[n]}
<1>1. n \in Nat /\ \A k \in 1..n : Len(q[k]) \in Nat
  <2>1. \A t \in Q : Len(t) \in Nat
    OBVIOUS
  <2>2. q \in Seq(Q)
    OBVIOUS
  <2>. HIDE DEF Q
  <2>. QED
    BY <2>1, <2>2
<1>2. /\ off \in [0..n -> Nat] /\ Len(s) = off[n]
      /\ \A k \in 1..n : off[k] = off[k - 1] + Len(q[k])
  BY DEF Pieces
<1>. HIDE DEF n
<1>3. 0 \in T
  BY <1>1, <1>2
<1>4. ASSUME NEW j \in T \cap Nat PROVE j + 1 \in T
  <2>. SUFFICES ASSUME j + 1 <= n PROVE off[n - (j + 1)] <= off[n]
    OBVIOUS
  <2>1. n - j \in 1..n /\ (n - j) - 1 = n - (j + 1) /\ n - j \in 0..n /\ n - (j + 1) \in 0..n /\ n \in 0..n
    BY <1>1
  <2>2. off[n - j] = off[n - (j + 1)] + Len(q[n - j]) /\ Len(q[n - j]) \in Nat
    BY <1>1, <1>2, <2>1
  <2>3. off[n - j] <= off[n]
    BY <1>1
  <2>4. off[n - j] \in Nat /\ off[n - (j + 1)] \in Nat /\ off[n] \in Nat
    BY <1>2, <2>1
  <2>. QED
    BY <2>2, <2>3, <2>4
<1>. HIDE DEF T
<1>5. Nat \subseteq T
  BY <1>3, <1>4, NatInductionSet
<1>6. ASSUME NEW k \in 0..n PROVE off[k] <= off[n]
  <2>1. n - k \in Nat /\ n - k <= n /\ n - (n - k) = k
    BY <1>1
  <2>2. n - k \in T
    BY <1>5, <2>1
  <2>. QED
    BY <2>1, <2>2 DEF T
<1>. QED
  BY <1>1, <1>2, <1>6 DEF n

(* The pieces keep their places when one more is appended.                 *)
LEMMA PiecesAppend ==
  ASSUME NEW S, NEW q \in Seq(Seq(S)), NEW e \in Seq(S), NEW s \in Seq(S), NEW off, Pieces(off, q, s)
  PROVE  \E o : Pieces(o, Append(q, e), s \o e)
<1>. DEFINE n == Len(q)
            r == Append(q, e)
            o == [i \in 0..(n + 1) |-> IF i = n + 1 THEN off[n] + Len(e) ELSE off[i]]
            u == s \o e
<1>1. /\ n \in Nat /\ Len(r) = n + 1 /\ r[n + 1] = e /\ \A i \in 1..n : r[i] = q[i]
      /\ Len(e) \in Nat
  BY AppendProperties, LenProperties
<1>2. /\ off \in [0..n -> Nat] /\ off[0] = 0 /\ Len(s) = off[n]
      /\ \A k \in 1..n : /\ off[k] = off[k - 1] + Len(q[k])
                         /\ \A i \in 1..Len(q[k]) : s[off[k - 1] + i] = q[k][i]
  BY DEF Pieces
<1>3. off[n] \in Nat
  BY <1>1, <1>2
<1>4. /\ Len(u) = off[n] + Len(e)
      /\ \A i \in 1..off[n] : u[i] = s[i]
      /\ \A i \in 1..Len(e) : u[off[n] + i] = e[i]
  <2>1. /\ Len(s \o e) = Len(s) + Len(e)
        /\ \A i \in 1..Len(s) : (s \o e)[i] = s[i]
        /\ \A i \in 1..Len(e) : (s \o e)[Len(s) + i] = e[i]
    OBVIOUS
  <2>. QED
    BY <1>2, <2>1
<1>5. \A k \in 0..n : off[k] \in Nat /\ off[k] <= off[n]
  BY <1>2, PiecesWithin
<1>6. \A k \in 1..n : Len(q[k]) \in Nat
  BY PiecesWithin
<1>. HIDE DEF u, r, n
<1>7. /\ o \in [0..(n + 1) -> Nat] /\ o[n + 1] = off[n] + Len(e)
      /\ \A i \in 0..n : o[i] = off[i]
  <2>1. \A i \in 0..(n + 1) : i = n + 1 \/ i \in 0..n
    BY <1>1
  <2>2. \A i \in 0..n : i \in 0..(n + 1) /\ i # n + 1
    BY <1>1
  <2>3. n + 1 \in 0..(n + 1) /\ off[n] + Len(e) \in Nat
    BY <1>1, <1>3
  <2>. HIDE <1>2
  <2>. QED
    BY <1>5, <2>1, <2>2, <2>3
<1>. HIDE DEF o
<1>8. ASSUME NEW k \in 1..(n + 1)
      PROVE  /\ o[k] = o[k - 1] + Len(r[k])
             /\ \A i \in 1..Len(r[k]) : u[o[k - 1] + i] = r[k][i]
  <2>1. CASE k = n + 1
    <3>1. k - 1 = n /\ n \in 0..n
      BY <2>1, <1>1
    <3>. QED
      BY <2>1, <3>1, <1>1, <1>4, <1>7, SMTT(30)
  <2>2. CASE k # n + 1
    <3>1. k \in 1..n /\ k \in 0..n /\ k - 1 \in 0..n
      BY <2>2, <1>1
    <3>2. r[k] = q[k] /\ o[k] = off[k] /\ o[k - 1] = off[k - 1]
      BY <3>1, <1>1, <1>7
    <3>3. /\ off[k] = off[k - 1] + Len(q[k]) /\ Len(q[k]) \in Nat
          /\ off[k] \in Nat /\ off[k - 1] \in Nat /\ off[k] <= off[n]
      BY <3>1, <1>2, <1>5, <1>6
    <3>4. ASSUME NEW i \in 1..Len(q[k]) PROVE u[off[k - 1] + i] = q[k][i]
      <4>1. off[k - 1] + i \in 1..off[n]
        <5>1. \A x, y, z, l \in Nat : \A j \in 1..l : y = x + l /\ y <= z => x + j \in 1..z
          OBVIOUS
        <5>2. i \in 1..Len(q[k])
          OBVIOUS
        <5>. QED
          BY ONLY <1>3, <3>3, <5>1, <5>2
      <4>2. s[off[k - 1] + i] = q[k][i]
        BY <3>1, <1>2
      <4>. QED
        BY <4>1, <4>2, <1>4
    <3>. QED
      BY <3>2, <3>3, <3>4
  <2>. QED
    BY <2>1, <2>2
<1>9. o[0] = 0
  <2>1. 0 \in 0..n
    BY <1>1
  <2>. QED
    BY <2>1, <1>2, <1>7
<1>10. Pieces(o, r, u)
  BY <1>1, <1>4, <1>7, <1>8, <1>9 DEF Pieces
<1>. QED
  BY <1>10 DEF r, u

(* Every piece is in the flattening, one behind the other.                 *)
LEMMA FlattenPieces ==
  ASSUME NEW S, NEW q \in Seq(Seq(S))
  PROVE  FlattenSeq(q) \in Seq(S) /\ \E off : Pieces(off, q, FlattenSeq(q))
<1>. DEFINE T == {n \in Nat : \A r \in Seq(Seq(S)) : Len(r) = n => \E off : Pieces(off, r, FlattenSeq(r))}
<1>1. 0 \in T
  <2>. SUFFICES ASSUME NEW r \in Seq(Seq(S)), Len(r) = 0 PROVE \E off : Pieces(off, r, FlattenSeq(r))
    OBVIOUS
  <2>1. r = <<>> /\ FlattenSeq(r) = <<>> /\ Len(<<>>) = 0
    BY EmptySeq, FlattenFacts
  <2>. DEFINE off == [i \in 0..0 |-> 0]
  <2>2. off \in [0..0 -> Nat] /\ off[0] = 0
    OBVIOUS
  <2>. HIDE DEF off
  <2>3. Pieces(off, r, FlattenSeq(r))
    BY <2>1, <2>2 DEF Pieces
  <2>. QED
    BY <2>3
<1>2. ASSUME NEW n \in T \cap Nat PROVE n + 1 \in T
  <2>. SUFFICES ASSUME NEW r \in Seq(Seq(S)), Len(r) = n + 1 PROVE \E off : Pieces(off, r, FlattenSeq(r))
    OBVIOUS
  <2>1. r # <<>>
    BY EmptySeq
  <2>2. PICK t \in Seq(Seq(S)), e \in Seq(S) : r = Append(t, e)
    BY <2>1, SequenceEmptyOrAppend
  <2>3. Len(t) = n
    <3>1. Len(t) \in Nat /\ Len(r) = Len(t) + 1
      BY <2>2, AppendProperties, LenProperties
    <3>. QED
      BY <3>1
  <2>4. PICK off : Pieces(off, t, FlattenSeq(t))
    BY <2>3
  <2>5. FlattenSeq(r) = FlattenSeq(t) \o e /\ FlattenSeq(t) \in Seq(S)
    BY <2>2, FlattenAppend, FlattenFacts
  <2>. QED
    BY <2>2, <2>4, <2>5, PiecesAppend
<1>. HIDE DEF T
<1>3. Nat \subseteq T
  BY <1>1, <1>2, NatInductionSet
<1>. QED
  BY <1>3, LenProperties, FlattenFacts DEF T

(* Pieces that are not empty begin apart.                                  *)
NoneEmpty(q) == \A k \in 1..Len(q) : Len(q[k]) \in Nat \ {0}

LEMMA PiecesRise ==
  ASSUME NEW q, NEW s, NEW off, Pieces(off, q, s), NoneEmpty(q), Len(q) \in Nat
  PROVE  \A i, j \in 0..Len(q) : i < j => off[i] < off[j]
<1>. DEFINE n == Len(q)
            T == {j \in Nat : j \in 0..n => \A i \in 0..n : i < j => off[i] < off[j]}
<1>1. /\ off \in [0..n -> Nat]
      /\ \A k \in 1..n : off[k] = off[k - 1] + Len(q[k]) /\ Len(q[k]) \in Nat \ {0}
  BY DEF Pieces, NoneEmpty
<1>. HIDE DEF n
<1>2. 0 \in T
  OBVIOUS
<1>3. ASSUME NEW j \in T \cap Nat PROVE j + 1 \in T
  <2>. SUFFICES ASSUME j + 1 \in 0..n, NEW i \in 0..n, i < j + 1 PROVE off[i] < off[j + 1]
    OBVIOUS
  <2>1. j + 1 \in 1..n /\ j \in 0..n /\ (j + 1) - 1 = j
    BY DEF n
  <2>2. off[j + 1] = off[j] + Len(q[j + 1]) /\ Len(q[j + 1]) \in Nat \ {0}
    BY <1>1, <2>1
  <2>3. off[j] \in Nat /\ off[i] \in Nat
    BY <1>1, <2>1
  <2>4. i = j \/ off[i] < off[j]
    BY <2>1
  <2>. QED
    BY <2>2, <2>3, <2>4
<1>. HIDE DEF T
<1>4. Nat \subseteq T
  BY <1>2, <1>3, NatInductionSet
<1>. QED
  BY <1>4 DEF T, n

(* Every element of a flattening is in a piece.                            *)
LEMMA PieceOf ==
  ASSUME NEW q, NEW s, NEW off, Pieces(off, q, s), Len(q) \in Nat, NEW j \in 1..Len(s)
  PROVE  \E k \in 1..Len(q) : off[k - 1] < j /\ j <= off[k]
<1>. DEFINE n == Len(q)
            T == {k \in 1..n : j <= off[k]}
<1>1. off \in [0..n -> Nat] /\ off[0] = 0 /\ Len(s) = off[n]
  BY DEF Pieces
<1>2. n # 0 /\ n \in 1..n /\ j <= off[n]
  BY <1>1
<1>3. PICK k \in T : \A l \in T : k <= l
  <2>1. T \in SUBSET Nat /\ T # {}
    BY <1>2
  <2>. HIDE DEF T
  <2>. QED
    BY <2>1, LeastElement
<1>4. off[k - 1] < j
  <2>1. CASE k = 1
    BY <1>1, <2>1
  <2>2. CASE k # 1
    <3>1. k - 1 \in 1..n /\ k - 1 \in 0..n /\ ~(k <= k - 1)
      BY <2>2
    <3>2. ~(j <= off[k - 1])
      BY <1>3, <3>1
    <3>. QED
      BY <1>1, <3>1, <3>2
  <2>. QED
    BY <2>1, <2>2
<1>. QED
  BY <1>3, <1>4

----------------------------------------------------------------------------
(* R orders D strictly and totally.                                        *)
StrictOrder(R, D) ==
  /\ \A x \in D : <<x, x>> \notin R
  /\ \A x, y, z \in D : <<x, y>> \in R /\ <<y, z>> \in R => <<x, z>> \in R
  /\ \A x, y \in D : x # y => <<x, y>> \in R \/ <<y, x>> \in R

(* s lists D in the order R.                                               *)
Lists(s, R, D) ==
  /\ s \in [1..Cardinality(D) -> D]
  /\ \A i, j \in 1..Cardinality(D) : i < j => <<s[i], s[j]>> \in R

(* An element comes behind as many others as are smaller.                  *)
LEMMA ListExists ==
  ASSUME NEW D, IsFiniteSet(D), NEW R, StrictOrder(R, D)
  PROVE  \E s : Lists(s, R, D)
<1>. DEFINE n == Cardinality(D)
            Less(x) == {y \in D : <<y, x>> \in R}
            rank == [x \in D |-> Cardinality(Less(x)) + 1]
<1>1. n \in Nat
  BY FS_CardinalityType
<1>2. ASSUME NEW x \in D
      PROVE  IsFiniteSet(Less(x)) /\ Cardinality(Less(x)) \in Nat /\ Cardinality(Less(x)) <= n - 1
  <2>1. Less(x) \in SUBSET (D \ {x})
    BY DEF StrictOrder
  <2>2. IsFiniteSet(D \ {x}) /\ Cardinality(D \ {x}) = n - 1
    BY FS_RemoveElement
  <2>. HIDE DEF Less
  <2>3. IsFiniteSet(Less(x)) /\ Cardinality(Less(x)) <= n - 1
    BY <2>1, <2>2, FS_Subset
  <2>. QED
    BY <2>3, FS_CardinalityType
<1>3. ASSUME NEW x \in D, NEW y \in D, <<x, y>> \in R PROVE rank[x] < rank[y]
  <2>1. Less(x) \in SUBSET Less(y) /\ x \in Less(y) /\ x \notin Less(x)
    BY <1>3 DEF StrictOrder
  <2>2. IsFiniteSet(Less(y)) /\ Cardinality(Less(x)) \in Nat /\ Cardinality(Less(y)) \in Nat
    BY <1>2
  <2>. HIDE DEF Less
  <2>3. Cardinality(Less(x)) <= Cardinality(Less(y)) /\ Cardinality(Less(x)) # Cardinality(Less(y))
    BY <2>1, <2>2, FS_Subset
  <2>. QED
    BY <2>2, <2>3
<1>4. rank \in [D -> 1..n]
  <2>1. \A x \in D : Cardinality(Less(x)) + 1 \in 1..n
    <3>. HIDE DEF Less, n
    <3>. QED
      BY <1>1, <1>2
  <2>. QED
    BY <2>1
<1>. HIDE DEF rank, Less, n
<1>5. ASSUME NEW x \in D, NEW y \in D, rank[x] = rank[y] PROVE x = y
  <2>1. rank[x] \in Nat /\ rank[y] \in Nat
    BY <1>1, <1>4
  <2>2. <<x, y>> \in R => rank[x] < rank[y]
    BY <1>3
  <2>3. <<y, x>> \in R => rank[y] < rank[x]
    BY <1>3
  <2>. QED
    BY <1>5, <2>1, <2>2, <2>3 DEF StrictOrder
<1>6. rank \in Surjection(D, 1..n)
  <2>1. rank \in Injection(D, 1..n)
    BY <1>4, <1>5 DEF Injection, IsInjective
  <2>2. 1 \in Int /\ n \in Int
    BY <1>1
  <2>3. IsFiniteSet(1..n) /\ Cardinality(1..n) = IF 1 > n THEN 0 ELSE n - 1 + 1
    BY <2>2, FS_Interval
  <2>4. Cardinality(1..n) = n
    BY <1>1, <2>3
  <2>. QED
    BY <2>1, <2>3, <2>4, FS_Injection DEF n
<1>7. \A i \in 1..n : \E x \in D : rank[x] = i
  BY <1>6 DEF Surjection
<1>. DEFINE s == [i \in 1..n |-> CHOOSE x \in D : rank[x] = i]
<1>8. \A i \in 1..n : s[i] \in D /\ rank[s[i]] = i
  BY <1>7
<1>9. s \in [1..n -> D]
  BY <1>7
<1>. HIDE DEF s
<1>10. ASSUME NEW i \in 1..n, NEW j \in 1..n, i < j PROVE <<s[i], s[j]>> \in R
  <2>1. s[i] \in D /\ s[j] \in D /\ rank[s[i]] = i /\ rank[s[j]] = j
    BY <1>8
  <2>2. s[i] # s[j]
    BY <1>10, <2>1
  <2>3. ~(<<s[j], s[i]>> \in R)
    BY <1>1, <1>3, <1>10, <2>1
  <2>. QED
    BY <2>1, <2>2, <2>3 DEF StrictOrder
<1>11. Lists(s, R, D)
  BY <1>9, <1>10 DEF Lists, n
<1>. QED
  BY <1>11

(* Such a list has every element once.                                     *)
LEMMA ListHasAll ==
  ASSUME NEW D, IsFiniteSet(D), NEW R, StrictOrder(R, D), NEW s, Lists(s, R, D)
  PROVE  /\ \A i, j \in 1..Cardinality(D) : s[i] = s[j] => i = j
         /\ \A x \in D : \E i \in 1..Cardinality(D) : s[i] = x
<1>. DEFINE n == Cardinality(D)
<1>1. n \in Nat
  BY FS_CardinalityType
<1>2. /\ s \in [1..n -> D]
      /\ \A i, j \in 1..n : i < j => <<s[i], s[j]>> \in R
  BY DEF Lists
<1>. HIDE DEF n
<1>3. ASSUME NEW i \in 1..n, NEW j \in 1..n, s[i] = s[j] PROVE i = j
  <2>1. s[i] \in D /\ s[j] \in D
    BY <1>2
  <2>2. ~(i < j) /\ ~(j < i)
    BY <1>2, <1>3, <2>1 DEF StrictOrder
  <2>. QED
    BY <1>1, <2>2
<1>4. s \in Surjection(1..n, D)
  <2>1. s \in Injection(1..n, D)
    BY <1>2, <1>3 DEF Injection, IsInjective
  <2>2. 1 \in Int /\ n \in Int
    BY <1>1
  <2>3. IsFiniteSet(1..n) /\ Cardinality(1..n) = IF 1 > n THEN 0 ELSE n - 1 + 1
    BY <2>2, FS_Interval
  <2>4. Cardinality(1..n) = n
    BY <1>1, <2>3
  <2>. QED
    BY <2>1, <2>3, <2>4, FS_Injection DEF n
<1>. QED
  BY <1>3, <1>4 DEF Surjection, n

=============================================================================
