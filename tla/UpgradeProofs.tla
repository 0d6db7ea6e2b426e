--------------------------- MODULE UpgradeProofs ----------------------------
(***************************************************************************)
(* Proofs about Upgrade: whatever the client sends, and whatever the limit *)
(* is, accept reads the request up to its blank line and never a byte of   *)
(* what follows, calls a request too large only if it is, and, of a well-  *)
(* formed request, works with the very request the client rendered.        *)
(*                                                                         *)
(* consecutive_crlf is the length of the run of CR and LF bytes at the end *)
(* of what was read (RunInv).  So while it stayed below four there were no *)
(* four such bytes in a row, hence no blank line (ReadInv).  The other     *)
(* direction, that four such bytes are a blank line, needs a client that   *)
(* ends its lines in CR LF.  A well-formed request is such a text, with    *)
(* one blank line, at its end; so what is parsed is all of it (ResultInv), *)
(* and the parser undoes Render: it cuts at the ends of the lines          *)
(* (LinesBack), and a line at its first colon or its two spaces            *)
(* (FieldBack, RequestLineBack, ParseBack).                                *)
(***************************************************************************)
EXTENDS Upgrade, SequenceLemmas

LineEnds == {"CR", "LF"}

(* A byte; the proofs need not know what it is.                            *)
Bytes == STRING

TypeInv ==
  /\ client \in Clients
  /\ sent \in 0..Len(Stream)
  /\ clientOpen \in BOOLEAN
  /\ buf \in Seq(Bytes)
  /\ run \in 0..4
  /\ phase \in {"reading", "responding", "serving", "failed"}

(* What was read is the front of what was sent.                            *)
FrontInv ==
  /\ Len(buf) <= sent
  /\ \A i \in 1..Len(buf) : buf[i] = Stream[i]

(* The last n of the first l bytes of s are the longest run of CR and LF   *)
(* bytes there.                                                            *)
RunAtEnd(s, l, n) ==
  /\ n \in Nat /\ n <= l
  /\ \A i \in (l - n + 1)..l : s[i] \in LineEnds
  /\ n < l => s[l - n] \notin LineEnds

(* consecutive_crlf is the length of the run at the end of what was read.  *)
RunInv == RunAtEnd(buf, Len(buf), run)

(* No four CR and LF bytes in a row among the first n.                     *)
NoFour(s, n) == \A i \in 4..n : \E j \in (i - 3)..i : s[j] \notin LineEnds

TooLarge == [error |-> "too_large"]

ReadInv ==
  /\ Len(buf) <= MaxRequest + 1
  /\ phase = "reading" => run < 4 /\ Len(buf) <= MaxRequest /\ result # TooLarge
  /\ Accepted => run = 4 /\ result # TooLarge
  /\ NoFour(buf, Len(buf) - 1)
  /\ result = TooLarge => Len(buf) = MaxRequest + 1 /\ run < 4

UpgradeInv == TypeInv /\ FrontInv /\ RunInv /\ ReadInv

----------------------------------------------------------------------------
(* Lemmas.                                                                 *)

(* What the client sends is a sequence of bytes: its request and what      *)
(* follows it.                                                             *)
LEMMA StreamType ==
  ASSUME client \in Clients
  PROVE  /\ Stream \in Seq(Bytes)
         /\ Len(Stream) = Len(client.text) + Len(client.spdy)
         /\ client.text \in Seq(Bytes)
         /\ \A i \in 1..Len(client.text) : Stream[i] = client.text[i]
<1>1. client.text \in Seq(Bytes) /\ client.spdy \in Seq(Bytes)
  BY UpgradeAssumption DEF Bytes
<1>2. \A s, t \in Seq(Bytes) :
        /\ s \o t \in Seq(Bytes)
        /\ Len(s \o t) = Len(s) + Len(t)
        /\ \A i \in 1..Len(s) : (s \o t)[i] = s[i]
  BY ConcatProperties, LenProperties
<1>. QED
  BY <1>1, <1>2 DEF Stream

(* The parser never says that a request is too large.                      *)
LEMMA ParseIsNotTooLarge ==
  ASSUME NEW text \in Seq(Bytes)
  PROVE  ParseHttpRequest[text] # TooLarge
<1>. USE DEF Bytes
<1>. DEFINE lines   == Lines[text]
            blanks  == {k \in 2..Len(lines) : lines[k] = <<>>}
            fields  == SubSeq(lines, 2, Min(blanks \cup {Len(lines) + 1}) - 1)
            headers == [k \in DOMAIN fields |-> Header[fields[k]]]
            spaces  == Positions("SP", lines[1])
            space1  == Min(spaces)
            space2  == Min(spaces \ {space1})
            wrong   == \/ Cardinality(spaces) < 2
                       \/ \E k \in DOMAIN fields :
                            Positions(":", fields[k]) = {} \/ ~ValidHeader(headers[k])
                       \/ ~\E k \in DOMAIN fields : IsUpgrade(headers[k])
            method  == SubSeq(lines[1], 1, space1 - 1)
            path    == SubSeq(lines[1], space1 + 1, space2 - 1)
<1>1. ParseHttpRequest[text] = IF wrong THEN [error |-> "protocol"]
                               ELSE [method |-> method, path |-> path, headers |-> headers]
  BY DEF ParseHttpRequest
<1>. HIDE DEF wrong, method, path, headers
<1>2. [error |-> "protocol"] # TooLarge
  <2>1. [error |-> "protocol"].error # TooLarge.error
    BY DEF TooLarge
  <2>. QED
    BY <2>1
<1>3. [method |-> method, path |-> path, headers |-> headers] # TooLarge
  <2>1. "error" \notin DOMAIN [method |-> method, path |-> path, headers |-> headers]
    OBVIOUS
  <2>2. "error" \in DOMAIN TooLarge
    BY DEF TooLarge
  <2>. QED
    BY <2>1, <2>2
<1>. QED
  BY <1>1, <1>2, <1>3

----------------------------------------------------------------------------
(* The inductive invariant.                                                *)

LEMMA UpgradeInit == Init => UpgradeInv
<1>. SUFFICES ASSUME Init PROVE UpgradeInv
  OBVIOUS
<1>. USE DEF Init
<1>1. TypeInv
  BY StreamType, LenProperties DEF TypeInv
<1>2. FrontInv /\ RunInv
  BY DEF FrontInv, RunInv, RunAtEnd
<1>3. ReadInv
  BY UpgradeAssumption DEF ReadInv, NoFour, Accepted, TooLarge
<1>. QED
  BY <1>1, <1>2, <1>3 DEF UpgradeInv

(* t is s with one byte more, its length is l + 1.                         *)
Extends(t, s, l) ==
  /\ t \in Seq(Bytes) /\ s \in Seq(Bytes)
  /\ l \in Nat /\ Len(s) = l /\ Len(t) = l + 1
  /\ \A i \in 1..l : t[i] = s[i]

LEMMA AppendFacts ==
  ASSUME NEW S, NEW s \in Seq(S), NEW b \in S
  PROVE  /\ Append(s, b) \in Seq(S)
         /\ Len(Append(s, b)) = Len(s) + 1
         /\ Append(s, b)[Len(s) + 1] = b
         /\ \A i \in 1..Len(s) : Append(s, b)[i] = s[i]
  OBVIOUS

LEMMA AppendExtends ==
  ASSUME NEW s \in Seq(Bytes), NEW b \in Bytes
  PROVE  Extends(Append(s, b), s, Len(s)) /\ Append(s, b)[Len(s) + 1] = b
  BY AppendFacts, LenProperties DEF Extends

(* A byte that is read goes on with the run or ends it.                    *)
LEMMA RunStep ==
  ASSUME NEW s, NEW t, NEW l, Extends(t, s, l), NEW n, RunAtEnd(s, l, n)
  PROVE  RunAtEnd(t, l + 1, IF t[l + 1] \in LineEnds THEN n + 1 ELSE 0)
<1>1. CASE t[l + 1] \in LineEnds
  <2>1. \A i \in (l - n + 1)..(l + 1) : t[i] \in LineEnds
    BY <1>1 DEF Extends, RunAtEnd
  <2>. QED
    BY <1>1, <2>1 DEF Extends, RunAtEnd
<1>2. CASE t[l + 1] \notin LineEnds
  BY <1>2 DEF Extends, RunAtEnd
<1>. QED
  BY <1>1, <1>2

(* A run shorter than four at the end of a text completes no four in a row. *)
LEMMA NoFourStep ==
  ASSUME NEW s, NEW l \in Nat, NEW n, RunAtEnd(s, l, n), n < 4, NoFour(s, l - 1)
  PROVE  NoFour(s, l)
  BY DEF NoFour, RunAtEnd

(* What is behind the first l bytes does not matter.                       *)
LEMMA NoFourAppend ==
  ASSUME NEW s, NEW t, NEW l, Extends(t, s, l), NoFour(s, l)
  PROVE  NoFour(t, l)
<1>. SUFFICES ASSUME NEW i \in 4..l PROVE \E j \in (i - 3)..i : t[j] \notin LineEnds
  BY DEF NoFour
<1>1. PICK j \in (i - 3)..i : s[j] \notin LineEnds
  BY DEF NoFour
<1>. QED
  BY <1>1 DEF Extends

(* ReadByte is the step that matters; the others leave what was read and   *)
(* the run alone.                                                          *)
LEMMA ReadByteKeeps ==
  ASSUME UpgradeInv, ReadByte
  PROVE  UpgradeInv'
<1>. DEFINE b == Stream[Len(buf) + 1]
            parsed == IF "not-utf8" \in Range(buf') THEN [error |-> "protocol"]
                                                    ELSE ParseHttpRequest[buf']
<1>. USE DEF UpgradeInv
<1>1. /\ phase = "reading" /\ Len(buf) < sent
      /\ buf' = Append(buf, b)
      /\ run' = IF b \in LineEnds THEN run + 1 ELSE 0
      /\ client' = client /\ sent' = sent /\ clientOpen' = clientOpen
      /\ Stream' = Stream
  BY DEF ReadByte, clientVars, LineEnds, Stream
<1>2. \/ run' = 4 /\ result' = parsed /\ phase' \in {"failed", "responding"}
      \/ run' # 4 /\ Len(buf') > MaxRequest /\ phase' = "failed" /\ result' = TooLarge
      \/ run' # 4 /\ ~(Len(buf') > MaxRequest) /\ phase' = phase /\ result' = result
  BY DEF ReadByte, Fail, TooLarge
<1>. HIDE DEF parsed
<1>3. Stream \in Seq(Bytes) /\ Len(buf) \in Nat /\ buf \in Seq(Bytes)
  BY StreamType, LenProperties DEF TypeInv
<1>4. b \in Bytes /\ Len(buf) + 1 \in 1..Len(Stream)
  <2>1. Len(buf) + 1 \in 1..Len(Stream)
    BY <1>1, <1>3, LenProperties DEF TypeInv
  <2>. QED
    BY <2>1, <1>3, ElementOfSeq
<1>. HIDE DEF b
<1>5. Extends(buf', buf, Len(buf)) /\ buf'[Len(buf) + 1] = b
  BY <1>1, <1>3, <1>4, AppendExtends
<1>6. buf' \in Seq(Bytes) /\ Len(buf') = Len(buf) + 1 /\ \A i \in 1..Len(buf) : buf'[i] = buf[i]
  BY <1>5 DEF Extends
<1>7. RunAtEnd(buf', Len(buf'), run')
  BY <1>1, <1>5, <1>6, RunStep DEF RunInv
<1>8. NoFour(buf, Len(buf))
  BY <1>1, <1>3, NoFourStep DEF RunInv, ReadInv
<1>9. NoFour(buf', Len(buf') - 1)
  <2>1. NoFour(buf', Len(buf))
    BY <1>5, <1>8, NoFourAppend
  <2>2. Len(buf') - 1 = Len(buf)
    BY <1>3, <1>6
  <2>. QED
    BY <2>1, <2>2
<1>10. run' \in 0..4
  BY <1>1 DEF TypeInv, ReadInv
<1>11. TypeInv'
  BY <1>1, <1>2, <1>6, <1>10 DEF TypeInv
<1>12. FrontInv'
  <2>1. Len(buf') <= sent'
    BY <1>1, <1>3, <1>6 DEF TypeInv
  <2>2. ASSUME NEW i \in 1..Len(buf') PROVE buf'[i] = Stream[i]
    <3>1. CASE i = Len(buf) + 1
      BY <3>1, <1>5 DEF b
    <3>2. CASE i # Len(buf) + 1
      BY <3>2, <1>3, <1>6 DEF FrontInv
    <3>. QED
      BY <3>1, <3>2
  <2>. QED
    BY <2>1, <2>2, <1>1 DEF FrontInv
<1>13. ReadInv'
  <2>1. parsed # TooLarge
    <3>1. [error |-> "protocol"] # TooLarge
      <4>1. [error |-> "protocol"].error # TooLarge.error
        BY DEF TooLarge
      <4>. QED
        BY <4>1
    <3>. QED
      BY <3>1, <1>6, ParseIsNotTooLarge DEF parsed
  <2>2. Len(buf') <= MaxRequest + 1 /\ MaxRequest \in Nat
    BY <1>1, <1>3, <1>6, UpgradeAssumption DEF ReadInv
  <2>. QED
    BY <2>1, <2>2, <1>1, <1>2, <1>3, <1>6, <1>9, <1>10 DEF ReadInv, Accepted
<1>. QED
  BY <1>7, <1>11, <1>12, <1>13 DEF RunInv

LEMMA UpgradeStep == UpgradeInv /\ [Next]_vars => UpgradeInv'
<1>. SUFFICES ASSUME UpgradeInv, [Next]_vars PROVE UpgradeInv'
  OBVIOUS
<1>. USE DEF UpgradeInv
<1>1. CASE ReadByte
  BY <1>1, ReadByteKeeps
<1>2. ASSUME UNCHANGED <<client, buf, run>>, sent' \in sent..Len(Stream), clientOpen' \in BOOLEAN,
             \/ phase' = phase /\ result' = result
             \/ phase' = "failed" /\ result' = [error |-> "io"]
             \/ phase = "responding" /\ phase' = "serving" /\ result' = result
      PROVE  UpgradeInv'
  <2>1. Stream' = Stream /\ Stream \in Seq(Bytes) /\ Len(Stream) \in Nat
    BY <1>2, StreamType, LenProperties DEF Stream, TypeInv
  <2>2. TypeInv' /\ FrontInv' /\ RunInv'
    <3>1. TypeInv'
      BY <1>2, <2>1 DEF TypeInv
    <3>2. FrontInv'
      <4>1. Len(buf) \in Nat /\ sent \in Nat /\ sent' \in Nat /\ sent <= sent'
        BY <1>2, <2>1, LenProperties DEF TypeInv
      <4>. QED
        BY <1>2, <2>1, <4>1 DEF FrontInv
    <3>. QED
      BY <1>2, <3>1, <3>2 DEF RunInv
  <2>3. [error |-> "io"] # TooLarge
    <3>1. [error |-> "io"].error # TooLarge.error
      BY DEF TooLarge
    <3>. QED
      BY <3>1
  <2>4. ReadInv'
    BY <1>2, <2>3 DEF ReadInv, Accepted
  <2>. QED
    BY <2>2, <2>4
<1>3. sent \in sent..Len(Stream) /\ clientOpen \in BOOLEAN
  BY StreamType, LenProperties DEF TypeInv
<1>4. CASE ReadEof
  BY <1>4, <1>3, <1>2 DEF ReadEof, Fail, clientVars
<1>5. CASE Respond
  BY <1>5, <1>3, <1>2 DEF Respond, clientVars
<1>6. CASE RespondFail
  BY <1>6, <1>3, <1>2 DEF RespondFail, Fail, clientVars
<1>7. CASE ClientSend
  <2>1. sent' \in sent..Len(Stream)
    BY <1>7, StreamType, LenProperties DEF ClientSend, TypeInv
  <2>. QED
    BY <1>7, <2>1, <1>3, <1>2 DEF ClientSend
<1>8. CASE ClientLeave
  BY <1>8, <1>3, <1>2 DEF ClientLeave
<1>9. CASE UNCHANGED vars
  BY <1>9, <1>3, <1>2 DEF vars
<1>. QED
  BY <1>1, <1>4, <1>5, <1>6, <1>7, <1>8, <1>9 DEF Next

LEMMA UpgradeInvariant == Spec => []UpgradeInv
<1>. QED
  BY UpgradeInit, UpgradeStep, PTL DEF Spec

----------------------------------------------------------------------------
(* The results.                                                            *)

(* The bytes of a blank line are in the text.                              *)
LEMMA BlankLineBytes ==
  ASSUME NEW s \in Seq(Bytes), NEW i \in 4..Len(s)
  PROVE  SubSeq(s, i - 3, i) = BlankLine <=>
           s[i - 3] = "CR" /\ s[i - 2] = "LF" /\ s[i - 1] = "CR" /\ s[i] = "LF"
<1>. DEFINE u == SubSeq(s, i - 3, i)
<1>1. i \in Nat /\ i >= 4 /\ i <= Len(s) /\ Len(s) \in Nat
  BY LenProperties
<1>2. /\ u \in Seq(Bytes) /\ Len(u) = 4
      /\ u[1] = s[i - 3] /\ u[2] = s[i - 2] /\ u[3] = s[i - 1] /\ u[4] = s[i]
  <2>1. /\ u \in Seq(Bytes)
        /\ Len(u) = IF i - 3 <= i THEN i - (i - 3) + 1 ELSE 0
        /\ \A k \in 1..(i - (i - 3) + 1) : u[k] = s[i - 3 + k - 1]
    BY <1>1, SubSeqProperties
  <2>. HIDE DEF u
  <2>2. Len(u) = 4
    BY <1>1, <2>1
  <2>3. ASSUME NEW k \in 1..4, NEW j \in Nat, j = i - 4 + k PROVE u[k] = s[j]
    <3>1. i - 3 + k - 1 = j /\ k \in 1..(i - (i - 3) + 1)
      BY <1>1, <2>3
    <3>. QED
      BY <3>1, <2>1
  <2>4. /\ 1 \in 1..4 /\ 2 \in 1..4 /\ 3 \in 1..4 /\ 4 \in 1..4
        /\ i - 3 \in Nat /\ i - 2 \in Nat /\ i - 1 \in Nat
        /\ i - 3 = i - 4 + 1 /\ i - 2 = i - 4 + 2 /\ i - 1 = i - 4 + 3 /\ i = i - 4 + 4
    BY <1>1
  <2>5. u[1] = s[i - 3] /\ u[2] = s[i - 2]
    BY <2>3, <2>4
  <2>6. u[3] = s[i - 1] /\ u[4] = s[i]
    BY <1>1, <2>3, <2>4
  <2>. QED
    BY <2>1, <2>2, <2>5, <2>6
<1>. HIDE DEF u
<1>4. CASE u = BlankLine
  <2>1. u[1] = "CR" /\ u[2] = "LF" /\ u[3] = "CR" /\ u[4] = "LF"
    BY <1>4 DEF BlankLine
  <2>. QED
    BY <1>2, <1>4, <2>1 DEF u
<1>5. CASE s[i - 3] = "CR" /\ s[i - 2] = "LF" /\ s[i - 1] = "CR" /\ s[i] = "LF"
  <2>1. "CR" \in Bytes /\ "LF" \in Bytes
    <3>1. u[1] \in Bytes /\ u[2] \in Bytes
      BY <1>2, ElementOfSeq
    <3>. QED
      BY <1>2, <1>5, <3>1
  <2>2. \A a, b \in Bytes : <<a, b, a, b>> \in Seq(Bytes)
    OBVIOUS
  <2>3. BlankLine \in Seq(Bytes)
    BY <2>1, <2>2 DEF BlankLine
  <2>4. /\ Len(BlankLine) = 4
        /\ BlankLine[1] = "CR" /\ BlankLine[2] = "LF" /\ BlankLine[3] = "CR" /\ BlankLine[4] = "LF"
    BY DEF BlankLine
  <2>5. \A k \in 1..4 : u[k] = BlankLine[k]
    <3>1. 1..4 = {1, 2, 3, 4}
      OBVIOUS
    <3>. QED
      BY <1>2, <1>5, <2>4, <3>1
  <2>6. u = BlankLine
    BY <1>2, <2>3, <2>4, <2>5, SeqEqual
  <2>. QED
    BY <1>5, <2>6 DEF u
<1>. QED
  BY <1>4, <1>5 DEF u

(* Four bytes of CR and LF in a row are needed for a blank line.           *)
LEMMA NoFourNoBlankLine ==
  ASSUME NEW s \in Seq(Bytes), NEW n \in Int, NoFour(s, n),
         NEW i \in BlankLines(s)
  PROVE  i > n
<1>1. i \in 4..Len(s) /\ SubSeq(s, i - 3, i) = BlankLine
  BY DEF BlankLines
<1>2. s[i - 3] = "CR" /\ s[i - 2] = "LF" /\ s[i - 1] = "CR" /\ s[i] = "LF"
  BY <1>1, BlankLineBytes
<1>. SUFFICES ASSUME i <= n PROVE FALSE
  BY <1>1, LenProperties
<1>3. PICK j \in (i - 3)..i : s[j] \notin LineEnds
  <2>1. i \in 4..n
    BY <1>1, LenProperties
  <2>. QED
    BY <2>1 DEF NoFour
<1>4. j = i - 3 \/ j = i - 2 \/ j = i - 1 \/ j = i
  BY <1>1, LenProperties
<1>. QED
  BY <1>2, <1>3, <1>4 DEF LineEnds

(* Of every client and for every limit: never more than one byte beyond    *)
(* the limit is held, and a request is called too large only if that much  *)
(* of it has no blank line.                                                *)
THEOREM TooLargeIsTooLarge == Spec => []TooLargeMeansTooLarge
<1>1. UpgradeInv => TooLargeMeansTooLarge
  <2>. SUFFICES ASSUME UpgradeInv PROVE TooLargeMeansTooLarge
    OBVIOUS
  <2>. USE DEF UpgradeInv
  <2>1. buf \in Seq(Bytes) /\ Len(buf) \in Nat
    BY LenProperties DEF TypeInv
  <2>2. Len(buf) <= MaxRequest + 1
    BY DEF ReadInv
  <2>3. ASSUME result = TooLarge PROVE Len(buf) = MaxRequest + 1 /\ BlankLines(buf) = {}
    <3>1. Len(buf) = MaxRequest + 1 /\ run < 4
      BY <2>3 DEF ReadInv
    <3>2. NoFour(buf, Len(buf))
      BY <3>1, <2>1, NoFourStep DEF RunInv, ReadInv
    <3>3. ASSUME NEW i \in BlankLines(buf) PROVE FALSE
      <4>1. i > Len(buf)
        BY <2>1, <3>2, NoFourNoBlankLine
      <4>2. i \in 4..Len(buf)
        BY DEF BlankLines
      <4>. QED
        BY <2>1, <4>1, <4>2
    <3>. QED
      BY <3>1, <3>3
  <2>. QED
    BY <2>2, <2>3 DEF TooLargeMeansTooLarge, TooLarge
<1>. QED
  BY <1>1, UpgradeInvariant, PTL

(* The invariant is enough for the bytes behind the request.               *)
LEMMA SpdyLeft ==
  ASSUME UpgradeInv, Accepted, CrLfOnly(client.text), BlankLines(client.text) # {}
  PROVE  /\ buf = SubSeq(client.text, 1, Len(buf)) /\ BlankLines(buf) = {Len(buf)}
         /\ Len(buf) <= Len(client.text)
<1>. DEFINE n == Len(buf)
            text == client.text
            l == Len(text)
<1>. USE DEF UpgradeInv
<1>1. /\ buf \in Seq(Bytes) /\ n \in Nat
      /\ text \in Seq(Bytes) /\ l \in Nat /\ DOMAIN text = 1..l
      /\ \A i \in 1..l : Stream[i] = text[i]
  BY StreamType, LenProperties DEF TypeInv
<1>2. /\ run = 4 /\ n >= 4
      /\ \A i \in (n - 3)..n : buf[i] \in LineEnds
      /\ n > 4 => buf[n - 4] \notin LineEnds
  BY <1>1 DEF ReadInv, RunInv, RunAtEnd
<1>3. NoFour(buf, n - 1)
  BY DEF ReadInv
<1>4. \A i \in 1..n : i <= l => buf[i] = text[i]
  BY <1>1 DEF FrontInv
<1>. HIDE DEF n, text, l
<1>5. n <= l
  <2>1. PICK b : b \in BlankLines(text)
    BY DEF text
  <2>2. b \in 4..l /\ SubSeq(text, b - 3, b) = BlankLine
    BY <2>1 DEF BlankLines, l
  <2>3. text[b - 3] = "CR" /\ text[b - 2] = "LF" /\ text[b - 1] = "CR" /\ text[b] = "LF"
    BY <1>1, <2>2, BlankLineBytes DEF l
  <2>. SUFFICES ASSUME n > l PROVE FALSE
    BY <1>1
  <2>4. PICK j \in (b - 3)..b : buf[j] \notin LineEnds
    <3>1. b \in 4..(n - 1)
      BY <1>1, <2>2
    <3>. QED
      BY <3>1, <1>3 DEF NoFour
  <2>5. j = b - 3 \/ j = b - 2 \/ j = b - 1 \/ j = b
    BY <1>1, <2>2
  <2>6. buf[j] = text[j]
    BY <1>1, <1>4, <2>2, <2>5
  <2>. QED
    BY <2>3, <2>4, <2>5, <2>6 DEF LineEnds
<1>6. buf = SubSeq(text, 1, n)
  <2>1. /\ SubSeq(text, 1, n) \in Seq(Bytes)
        /\ Len(SubSeq(text, 1, n)) = n
        /\ \A i \in 1..n : SubSeq(text, 1, n)[i] = text[i]
    BY <1>1, <1>5, SubSeqProperties DEF l
  <2>2. \A i \in 1..n : buf[i] = text[i]
    BY <1>1, <1>4, <1>5
  <2>. QED
    BY <1>1, <2>1, <2>2, SeqEqual DEF n
<1>7. n \in BlankLines(buf)
  <2>1. \A i \in (n - 3)..n :
          /\ i \in DOMAIN text /\ buf[i] = text[i]
          /\ text[i] \in LineEnds
    BY <1>1, <1>2, <1>4, <1>5
  <2>2. buf[n - 3] = "CR"
    <3>. SUFFICES ASSUME buf[n - 3] # "CR" PROVE FALSE
      OBVIOUS
    <3>1. n - 3 \in DOMAIN text /\ text[n - 3] = "LF" /\ buf[n - 3] = text[n - 3]
      BY <1>1, <2>1 DEF LineEnds
    <3>2. n - 3 > 1 /\ text[(n - 3) - 1] = "CR"
      BY <3>1 DEF CrLfOnly, text
    <3>3. buf[n - 4] = "CR" /\ n > 4
      BY <1>1, <1>4, <1>5, <3>2
    <3>. QED
      BY <1>2, <3>3 DEF LineEnds
  <2>3. buf[n - 2] = "LF"
    <3>1. text[n - 3] = "CR" /\ n - 3 \in DOMAIN text
      BY <1>1, <2>1, <2>2
    <3>2. text[(n - 3) + 1] = "LF"
      BY <3>1 DEF CrLfOnly, text
    <3>. QED
      BY <1>1, <2>1, <3>2
  <2>4. buf[n - 1] = "CR"
    <3>. SUFFICES ASSUME buf[n - 1] # "CR" PROVE FALSE
      OBVIOUS
    <3>1. n - 1 \in DOMAIN text /\ text[n - 1] = "LF"
      BY <1>1, <2>1 DEF LineEnds
    <3>2. text[(n - 1) - 1] = "CR"
      BY <3>1 DEF CrLfOnly, text
    <3>3. buf[n - 2] = "CR"
      BY <1>1, <2>1, <3>2
    <3>. QED
      BY <2>3, <3>3
  <2>5. buf[n] = "LF"
    <3>1. text[n - 1] = "CR" /\ n - 1 \in DOMAIN text
      BY <1>1, <2>1, <2>4
    <3>2. text[(n - 1) + 1] = "LF"
      BY <3>1 DEF CrLfOnly, text
    <3>. QED
      BY <1>1, <2>1, <3>2
  <2>6. n \in 4..Len(buf)
    BY <1>1, <1>2 DEF n
  <2>7. SubSeq(buf, n - 3, n) = BlankLine
    BY <1>1, <2>2, <2>3, <2>4, <2>5, <2>6, BlankLineBytes
  <2>. QED
    BY <2>6, <2>7 DEF BlankLines
<1>8. ASSUME NEW i \in BlankLines(buf) PROVE i = n
  <2>1. i > n - 1
    BY <1>1, <1>3, NoFourNoBlankLine
  <2>2. i \in 4..n
    BY DEF BlankLines, n
  <2>. QED
    BY <1>1, <2>1, <2>2
<1>. QED
  BY <1>5, <1>6, <1>7, <1>8 DEF n, text, l

(* Of every client that ends its lines in CR LF and sends a blank line,    *)
(* accept reads the front of the request that ends with its first blank    *)
(* line: the SPDY bytes behind the request are left to the framer.         *)
THEOREM SpdyBytesLeft == Spec => []SpdyUntouched
<1>1. UpgradeInv => SpdyUntouched
  BY SpdyLeft DEF SpdyUntouched
<1>. QED
  BY <1>1, UpgradeInvariant, PTL

(* The bytes the code names.                                               *)
LEMMA NamedBytes == {"CR", "LF", "SP", ":", "http/1.1"} \subseteq Bytes
  BY UpgradeAssumption DEF White, Bytes

----------------------------------------------------------------------------
(* The parser reads back what a client renders.                            *)

Ascending(c, n) == \A i, j \in 1..n : i < j => c[i] < c[j]

(* The first m values of a rising list are m values.                       *)
LEMMA RisingCount ==
  ASSUME NEW n \in Nat, NEW c \in [1..n -> Int], Ascending(c, n), NEW m \in 0..n
  PROVE  IsFiniteSet({c[k] : k \in 1..m}) /\ Cardinality({c[k] : k \in 1..m}) = m
<1>. DEFINE D == {c[k] : k \in 1..m}
            f == [k \in 1..m |-> c[k]]
<1>1. m \in Nat /\ m <= n /\ 1 \in Int /\ m \in Int
  OBVIOUS
<1>2. f \in Surjection(1..m, D)
  BY DEF Surjection
<1>3. ASSUME NEW i \in 1..m, NEW j \in 1..m, f[i] = f[j] PROVE i = j
  <2>1. i \in 1..n /\ j \in 1..n /\ c[i] = c[j] /\ c[i] \in Int /\ c[j] \in Int
    BY <1>1, <1>3
  <2>2. ~(i < j) /\ ~(j < i)
    BY <2>1 DEF Ascending
  <2>. QED
    BY <1>1, <2>2
<1>4. f \in Injection(1..m, D)
  <2>1. f \in [1..m -> D]
    OBVIOUS
  <2>. HIDE DEF f, D
  <2>. QED
    BY <1>3, <2>1 DEF Injection, IsInjective
<1>5. IsFiniteSet(1..m) /\ Cardinality(1..m) = IF 1 > m THEN 0 ELSE m - 1 + 1
  BY <1>1, FS_Interval
<1>6. Cardinality(1..m) = m
  BY <1>1, <1>5
<1>. HIDE DEF f, D
<1>7. IsFiniteSet(D) /\ (Cardinality(D) = Cardinality(1..m) <=> f \in Injection(1..m, D))
  BY <1>2, <1>5, FS_Surjection
<1>. QED
  BY <1>4, <1>6, <1>7 DEF D

(* The k-th of a set of numbers.                                           *)
Kth(k, C) == CHOOSE x \in C : Cardinality({d \in C : d < x}) = k - 1

(* So each is the one with its number of smaller ones before it.           *)
LEMMA Ranks ==
  ASSUME NEW n \in Nat, NEW c \in [1..n -> Int], Ascending(c, n), NEW C, C = {c[k] : k \in 1..n}
  PROVE  /\ Cardinality(C) = n
         /\ \A k \in 1..n : Kth(k, C) = c[k]
<1>1. Cardinality(C) = n
  <2>1. n \in 0..n
    OBVIOUS
  <2>. QED
    BY <2>1, RisingCount
<1>2. ASSUME NEW k \in 1..n PROVE Cardinality({d \in C : d < c[k]}) = k - 1
  <2>1. {d \in C : d < c[k]} = {c[j] : j \in 1..(k - 1)}
    <3>1. ASSUME NEW d \in C, d < c[k] PROVE d \in {c[j] : j \in 1..(k - 1)}
      <4>1. PICK j \in 1..n : d = c[j]
        OBVIOUS
      <4>2. ~(k < j) /\ k # j
        <5>1. c[j] \in Int /\ c[k] \in Int /\ c[j] < c[k]
          BY <3>1, <4>1
        <5>. QED
          BY <5>1 DEF Ascending
      <4>3. j \in 1..(k - 1)
        BY <4>2
      <4>. QED
        BY <4>1, <4>3
    <3>2. ASSUME NEW j \in 1..(k - 1) PROVE c[j] \in C /\ c[j] < c[k]
      <4>1. j \in 1..n /\ j < k
        OBVIOUS
      <4>. QED
        BY <4>1 DEF Ascending
    <3>. QED
      BY <3>1, <3>2
  <2>2. k - 1 \in 0..n
    OBVIOUS
  <2>3. Cardinality({c[j] : j \in 1..(k - 1)}) = k - 1
    BY <2>2, RisingCount
  <2>. QED
    BY <2>1, <2>3
<1>3. ASSUME NEW k \in 1..n
      PROVE  Kth(k, C) = c[k]
  <2>. DEFINE P(x) == Cardinality({d \in C : d < x}) = k - 1
  <2>1. c[k] \in C /\ P(c[k])
    BY <1>2
  <2>2. ASSUME NEW x \in C, P(x) PROVE x = c[k]
    <3>1. PICK j \in 1..n : x = c[j]
      OBVIOUS
    <3>2. Cardinality({d \in C : d < x}) = j - 1
      BY <3>1, <1>2
    <3>3. j = k
      BY <2>2, <3>2
    <3>. QED
      BY <3>1, <3>3
  <2>. HIDE DEF P
  <2>3. (CHOOSE x \in C : P(x)) = c[k]
    BY <2>1, <2>2
  <2>. QED
    BY <2>3 DEF P, Kth
<1>. QED
  BY <1>1, <1>3
(* Lines of a text, each with its CR LF, that has no CR or LF elsewhere.   *)
IsLine(e) ==
  /\ e \in Seq(Bytes) /\ Len(e) >= 2 /\ e[Len(e) - 1] = "CR" /\ e[Len(e)] = "LF"
  /\ \A i \in 1..(Len(e) - 2) : e[i] \notin LineEnds

Content(e) == SubSeq(e, 1, Len(e) - 2)

Lined(off, q, text) ==
  /\ q \in Seq(Seq(Bytes)) /\ text \in Seq(Bytes) /\ Pieces(off, q, text)
  /\ \A k \in 1..Len(q) : IsLine(q[k])

(* The plain facts of that.                                                *)
LEMMA LinedFacts ==
  ASSUME NEW off, NEW q, NEW text, Lined(off, q, text)
  PROVE  /\ Len(q) \in Nat /\ Len(text) \in Nat /\ off[0] = 0 /\ off[Len(q)] = Len(text)
         /\ \A k \in 0..Len(q) : off[k] \in Nat /\ off[k] <= Len(text)
         /\ \A k \in 1..Len(q) : /\ off[k] = off[k - 1] + Len(q[k])
                                 /\ Len(q[k]) \in Nat /\ Len(q[k]) >= 2
                                 /\ \A i \in 1..Len(q[k]) : text[off[k - 1] + i] = q[k][i]
         /\ \A i, j \in 0..Len(q) : i < j => off[i] < off[j]
<1>. DEFINE n == Len(q)
<1>1. /\ q \in Seq(Seq(Bytes)) /\ text \in Seq(Bytes) /\ Pieces(off, q, text)
      /\ \A k \in 1..n : IsLine(q[k])
  BY DEF Lined
<1>2. n \in Nat /\ Len(text) \in Nat
  BY <1>1, LenProperties
<1>3. /\ \A k \in 0..n : off[k] \in Nat /\ off[k] <= Len(text)
      /\ \A k \in 1..n : Len(q[k]) \in Nat
  BY <1>1, PiecesWithin
<1>4. NoneEmpty(q)
  <2>1. \A k \in 1..n : Len(q[k]) \in Nat /\ Len(q[k]) >= 2
    BY <1>1, <1>3 DEF IsLine
  <2>. QED
    BY <2>1 DEF NoneEmpty
<1>5. \A i, j \in 0..n : i < j => off[i] < off[j]
  BY <1>1, <1>2, <1>4, PiecesRise
<1>. QED
  BY <1>1, <1>2, <1>3, <1>5 DEF Pieces, IsLine

(* CR and LF are at the ends of the lines and nowhere else.                *)
LEMMA LineEndsAt ==
  ASSUME NEW off, NEW q, NEW text, Lined(off, q, text)
  PROVE  /\ \A k \in 1..Len(q) : /\ off[k] >= 2 /\ off[k] <= Len(text)
                                 /\ text[off[k] - 1] = "CR" /\ text[off[k]] = "LF"
         /\ \A i \in 1..Len(text) : text[i] = "CR" => \E k \in 1..Len(q) : i = off[k] - 1
         /\ \A i \in 1..Len(text) : text[i] = "LF" => \E k \in 1..Len(q) : i = off[k]
<1>. DEFINE n == Len(q)
<1>1. /\ n \in Nat /\ Len(text) \in Nat
      /\ \A k \in 0..n : off[k] \in Nat /\ off[k] <= Len(text)
      /\ \A k \in 1..n : /\ off[k] = off[k - 1] + Len(q[k])
                         /\ Len(q[k]) \in Nat /\ Len(q[k]) >= 2
                         /\ \A i \in 1..Len(q[k]) : text[off[k - 1] + i] = q[k][i]
  BY LinedFacts
<1>2. Pieces(off, q, text) /\ \A k \in 1..n : IsLine(q[k])
  BY DEF Lined
<1>. HIDE DEF n
<1>3. ASSUME NEW k \in 1..n
      PROVE  /\ off[k] >= 2 /\ off[k] <= Len(text)
             /\ text[off[k] - 1] = "CR" /\ text[off[k]] = "LF"
  <2>. DEFINE l == Len(q[k])
              o == off[k - 1]
  <2>1. /\ l \in Nat /\ l >= 2 /\ o \in Nat /\ off[k] = o + l /\ off[k] <= Len(text)
        /\ \A i \in 1..l : text[o + i] = q[k][i]
    <3>1. k - 1 \in 0..n /\ k \in 0..n
      BY <1>1
    <3>. QED
      BY <1>1, <3>1
  <2>2. q[k][l - 1] = "CR" /\ q[k][l] = "LF"
    BY <1>2 DEF IsLine
  <2>. HIDE DEF l, o
  <2>3. l - 1 \in 1..l /\ l \in 1..l /\ o + (l - 1) = off[k] - 1 /\ o + l = off[k]
    BY <2>1
  <2>4. text[o + (l - 1)] = "CR" /\ text[o + l] = "LF"
    BY <2>1, <2>2, <2>3
  <2>. QED
    BY <2>1, <2>3, <2>4
<1>4. ASSUME NEW i \in 1..Len(text), text[i] \in LineEnds
      PROVE  \E k \in 1..n : \/ i = off[k] - 1 /\ text[i] = "CR"
                             \/ i = off[k] /\ text[i] = "LF"
  <2>1. PICK k \in 1..n : off[k - 1] < i /\ i <= off[k]
    BY <1>1, <1>2, PieceOf DEF n
  <2>. DEFINE l == Len(q[k])
              o == off[k - 1]
              j == i - o
  <2>2. /\ l \in Nat /\ l >= 2 /\ o \in Nat /\ off[k] = o + l
        /\ \A x \in 1..l : text[o + x] = q[k][x]
    <3>1. k - 1 \in 0..n
      BY <1>1
    <3>. QED
      BY <1>1, <3>1
  <2>3. q[k][l - 1] = "CR" /\ q[k][l] = "LF" /\ \A x \in 1..(l - 2) : q[k][x] \notin LineEnds
    BY <1>2 DEF IsLine
  <2>4. i \in Nat /\ o < i /\ i <= off[k]
    BY <1>1, <2>1
  <2>. HIDE DEF l, o
  <2>5. j \in 1..l /\ o + j = i
    BY <2>2, <2>4
  <2>. HIDE DEF j
  <2>6. q[k][j] = text[i]
    BY <2>2, <2>5
  <2>7. j \notin 1..(l - 2)
    BY <1>4, <2>3, <2>6
  <2>8. j = l - 1 \/ j = l
    BY <2>2, <2>5, <2>7
  <2>9. CASE j = l - 1
    <3>1. i = off[k] - 1
      BY <2>2, <2>4, <2>5, <2>9
    <3>2. text[i] = "CR"
      BY <2>3, <2>6, <2>9
    <3>. QED
      BY <3>1, <3>2
  <2>10. CASE j = l
    BY <2>2, <2>3, <2>5, <2>6, <2>10
  <2>. QED
    BY <2>8, <2>9, <2>10
<1>5. "CR" # "LF" /\ "CR" \in LineEnds /\ "LF" \in LineEnds
  BY DEF LineEnds
<1>6. \A i \in 1..Len(text) : text[i] = "CR" => \E k \in 1..n : i = off[k] - 1
  BY <1>4, <1>5
<1>7. \A i \in 1..Len(text) : text[i] = "LF" => \E k \in 1..n : i = off[k]
  BY <1>4, <1>5
<1>. QED
  BY <1>3, <1>6, <1>7 DEF n

(* Where parse_http_request cuts.                                          *)
Cuts(text) ==
  {-1, Len(text) + 1} \cup
  {i \in 1..(Len(text) - 1) : text[i] = "CR" /\ text[i + 1] = "LF"}

LEMMA LinesAre ==
  ASSUME NEW text \in Seq(Bytes), NEW n \in Nat, NEW c \in [1..n -> Int], Ascending(c, n), n > 0,
         Cuts(text) = {c[k] : k \in 1..n}
  PROVE  Lines[text] = [k \in 1..(n - 1) |-> SubSeq(text, c[k] + 2, c[k + 1] - 1)]
<1>. DEFINE cuts == Cuts(text)
            Cut(k) == CHOOSE x \in cuts : Cardinality({d \in cuts : d < x}) = k - 1
<1>1. Lines[text] = [k \in 1..(Cardinality(cuts) - 1) |-> SubSeq(text, Cut(k) + 2, Cut(k + 1) - 1)]
  BY DEF Lines, Cuts, Bytes
<1>2. Cardinality(cuts) = n /\ \A k \in 1..n : Cut(k) = c[k]
  <2>1. cuts = {c[k] : k \in 1..n}
    OBVIOUS
  <2>. HIDE DEF cuts
  <2>2. /\ Cardinality(cuts) = n
        /\ \A k \in 1..n : Kth(k, cuts) = c[k]
    BY <2>1, Ranks, ZenonT(40)
  <2>3. \A k \in 1..n : Kth(k, cuts) = Cut(k)
    BY DEF Kth
  <2>. QED
    BY <2>2, <2>3
<1>. HIDE DEF Cut, cuts
<1>3. ASSUME NEW k \in 1..(n - 1) PROVE Cut(k) = c[k] /\ Cut(k + 1) = c[k + 1]
  <2>1. k \in 1..n /\ k + 1 \in 1..n
    OBVIOUS
  <2>. QED
    BY <2>1, <1>2
<1>. QED
  BY <1>1, <1>2, <1>3

(* split gives the contents of the lines, and an empty piece behind them.  *)
LEMMA LinesBack ==
  ASSUME NEW off, NEW q, NEW text, Lined(off, q, text)
  PROVE  Lines[text] = [k \in 1..(Len(q) + 1) |-> IF k = Len(q) + 1 THEN <<>> ELSE Content(q[k])]
<1>. DEFINE m == Len(q)
            c == [k \in 1..(m + 2) |-> IF k = m + 2 THEN Len(text) + 1 ELSE off[k - 1] - 1]
<1>1. /\ m \in Nat /\ Len(text) \in Nat /\ off[0] = 0 /\ off[m] = Len(text)
      /\ \A k \in 0..m : off[k] \in Nat /\ off[k] <= Len(text)
      /\ \A k \in 1..m : /\ off[k] = off[k - 1] + Len(q[k])
                         /\ Len(q[k]) \in Nat /\ Len(q[k]) >= 2
                         /\ \A i \in 1..Len(q[k]) : text[off[k - 1] + i] = q[k][i]
      /\ \A i, j \in 0..m : i < j => off[i] < off[j]
  BY LinedFacts
<1>2. /\ \A k \in 1..m : /\ off[k] >= 2 /\ off[k] <= Len(text)
                         /\ text[off[k] - 1] = "CR" /\ text[off[k]] = "LF"
      /\ \A i \in 1..Len(text) : text[i] = "CR" => \E k \in 1..m : i = off[k] - 1
  BY LineEndsAt
<1>3. text \in Seq(Bytes) /\ q \in Seq(Seq(Bytes)) /\ \A k \in 1..m : IsLine(q[k])
  BY DEF Lined
<1>. HIDE DEF m
<1>4. c \in [1..(m + 2) -> Int]
  BY <1>1
<1>5. /\ c[m + 2] = Len(text) + 1
      /\ \A k \in 1..(m + 1) : c[k] = off[k - 1] - 1
  BY <1>1
<1>. HIDE DEF c
<1>6. Ascending(c, m + 2)
  <2>. SUFFICES ASSUME NEW i \in 1..(m + 2), NEW j \in 1..(m + 2), i < j PROVE c[i] < c[j]
    BY DEF Ascending
  <2>1. i \in 1..(m + 1) /\ i - 1 \in 0..m
    BY <1>1
  <2>2. c[i] = off[i - 1] - 1 /\ off[i - 1] \in Nat /\ off[i - 1] <= Len(text)
    BY <1>1, <1>5, <2>1
  <2>3. CASE j = m + 2
    BY <1>1, <1>5, <2>2, <2>3
  <2>4. CASE j # m + 2
    <3>1. j \in 1..(m + 1) /\ j - 1 \in 0..m /\ i - 1 < j - 1
      BY <1>1, <2>4
    <3>2. c[j] = off[j - 1] - 1 /\ off[j - 1] \in Nat
      BY <1>1, <1>5, <3>1
    <3>3. off[i - 1] < off[j - 1]
      BY <1>1, <2>1, <3>1
    <3>. QED
      BY <2>2, <3>2, <3>3
  <2>. QED
    BY <2>3, <2>4
<1>7. Cuts(text) = {c[k] : k \in 1..(m + 2)}
  <2>1. ASSUME NEW x \in Cuts(text) PROVE \E k \in 1..(m + 2) : x = c[k]
    <3>1. CASE x = -1
      <4>1. c[1] = off[0] - 1 /\ 1 \in 1..(m + 2)
        <5>1. 1 \in 1..(m + 1) /\ 1 - 1 = 0
          BY <1>1
        <5>. QED
          BY <1>1, <1>5, <5>1
      <4>. QED
        BY <1>1, <3>1, <4>1
    <3>2. CASE x = Len(text) + 1
      BY <1>1, <1>5, <3>2
    <3>3. CASE x \in 1..(Len(text) - 1) /\ text[x] = "CR"
      <4>1. PICK k \in 1..m : x = off[k] - 1
        BY <1>1, <1>2, <3>3
      <4>2. k + 1 \in 1..(m + 1) /\ k + 1 \in 1..(m + 2) /\ (k + 1) - 1 = k
        BY <1>1
      <4>. QED
        BY <1>5, <4>1, <4>2
    <3>. QED
      BY <3>1, <3>2, <3>3 DEF Cuts
  <2>2. ASSUME NEW k \in 1..(m + 2) PROVE c[k] \in Cuts(text)
    <3>1. CASE k = m + 2
      BY <1>5, <3>1 DEF Cuts
    <3>2. CASE k = 1
      <4>1. 1 \in 1..(m + 1) /\ 1 - 1 = 0
        BY <1>1
      <4>2. c[1] = off[0] - 1
        BY <1>5, <4>1
      <4>3. c[1] = -1
        BY <1>1, <4>2
      <4>. QED
        BY <3>2, <4>3 DEF Cuts
    <3>3. CASE k # m + 2 /\ k # 1
      <4>. DEFINE j == k - 1
                  x == off[j] - 1
      <4>1. j \in 1..m /\ k \in 1..(m + 1) /\ j \in 0..m
        BY <1>1, <3>3
      <4>2. off[j] \in Nat /\ off[j] >= 2 /\ off[j] <= Len(text)
            /\ text[off[j] - 1] = "CR" /\ text[off[j]] = "LF"
        BY <1>1, <1>2, <4>1
      <4>3. c[k] = x
        BY <1>5, <4>1
      <4>. HIDE DEF j
      <4>4. x \in 1..(Len(text) - 1) /\ x + 1 = off[j]
        BY <1>1, <4>2
      <4>5. text[x] = "CR" /\ text[x + 1] = "LF"
        BY <4>2, <4>4
      <4>. HIDE DEF x
      <4>. QED
        BY <4>3, <4>4, <4>5 DEF Cuts
    <3>. QED
      BY <3>1, <3>2, <3>3
  <2>. QED
    BY <2>1, <2>2
<1>8. Lines[text] = [k \in 1..((m + 2) - 1) |-> SubSeq(text, c[k] + 2, c[k + 1] - 1)]
  <2>1. m + 2 \in Nat /\ m + 2 > 0
    BY <1>1
  <2>. QED
    BY <1>3, <1>4, <1>6, <1>7, <2>1, LinesAre
<1>11. m \in Nat /\ Len(text) \in Nat
  BY <1>1
<1>9. (m + 2) - 1 = m + 1
  BY <1>1
<1>10. ASSUME NEW k \in 1..(m + 1)
       PROVE  SubSeq(text, c[k] + 2, c[k + 1] - 1) = IF k = m + 1 THEN <<>> ELSE Content(q[k])
  <2>1. k - 1 \in 0..m /\ c[k] = off[k - 1] - 1 /\ off[k - 1] \in Nat
    BY <1>1, <1>5
  <2>2. CASE k = m + 1
    <3>1. c[k + 1] = Len(text) + 1 /\ c[k] + 2 = Len(text) + 1
      <4>1. k + 1 = m + 2 /\ k - 1 = m
        BY ONLY <1>11, <2>2
      <4>. QED
        BY <1>1, <1>5, <2>1, <4>1
    <3>2. SubSeq(text, Len(text) + 1, Len(text)) = <<>>
      <4>1. Len(text) + 1 > Len(text) /\ Len(text) + 1 \in Nat /\ Len(text) \in Nat
        BY <1>1
      <4>. QED
        BY <4>1
    <3>3. c[k + 1] - 1 = Len(text)
      BY <1>1, <3>1
    <3>. QED
      BY <2>2, <3>1, <3>2, <3>3
  <2>3. CASE k # m + 1
    <3>. DEFINE o == off[k - 1]
                l == Len(q[k])
                t == SubSeq(text, o + 1, o + l - 2)
                u == Content(q[k])
    <3>1. k \in 1..m /\ k + 1 \in 1..(m + 1) /\ (k + 1) - 1 = k
      BY <1>1, <2>3
    <3>2. /\ o \in Nat /\ l \in Nat /\ l >= 2 /\ off[k] = o + l /\ off[k] <= Len(text)
          /\ \A i \in 1..l : text[o + i] = q[k][i]
      <4>1. k \in 0..m
        BY <1>1, <3>1
      <4>. QED
        BY <1>1, <2>1, <3>1, <4>1
    <3>3. c[k + 1] = off[k] - 1 /\ c[k] = o - 1
      BY <1>5, <2>1, <3>1
    <3>4. q[k] \in Seq(Bytes) /\ l = Len(q[k])
      BY <1>3, <3>1 DEF IsLine
    <3>5. u \in Seq(Bytes) /\ Len(u) = l - 2 /\ \A i \in 1..(l - 2) : u[i] = q[k][i]
      <4>1. /\ SubSeq(q[k], 1, l - 2) \in Seq(Bytes)
            /\ Len(SubSeq(q[k], 1, l - 2)) = IF 1 <= l - 2 THEN l - 2 - 1 + 1 ELSE 0
            /\ \A i \in 1..(l - 2 - 1 + 1) : SubSeq(q[k], 1, l - 2)[i] = q[k][1 + i - 1]
        <5>1. \A i \in 1..(l - 2) : i \in 1..l
          BY <3>2
        <5>. QED
          BY <3>2, <3>4, SubSeqProperties
      <4>2. \A i \in 1..(l - 2) : i \in 1..(l - 2 - 1 + 1) /\ 1 + i - 1 = i
        BY <3>2
      <4>. HIDE DEF l
      <4>3. Len(SubSeq(q[k], 1, l - 2)) = l - 2
        BY <3>2, <4>1
      <4>. QED
        BY <4>1, <4>2, <4>3 DEF Content, l
    <3>6. t \in Seq(Bytes) /\ Len(t) = l - 2 /\ \A i \in 1..(l - 2) : t[i] = text[o + i]
      <4>. DEFINE a == o + 1
                  b == o + l - 2
      <4>1. a \in 1..(Len(text) + 1) /\ b \in 0..Len(text) /\ (b - a) + 1 = l - 2 /\ a <= b + 1
        <5>1. \A x, y, z \in Nat : y >= 2 /\ x + y <= z =>
                /\ x + 1 \in 1..(z + 1) /\ x + y - 2 \in 0..z
                /\ ((x + y - 2) - (x + 1)) + 1 = y - 2 /\ x + 1 <= (x + y - 2) + 1
          OBVIOUS
        <5>2. o \in Nat /\ l \in Nat /\ l >= 2 /\ o + l <= Len(text)
          BY <3>2
        <5>. HIDE DEF o, l
        <5>. QED
          BY ONLY <5>1, <5>2, <1>11
      <4>3. \A i \in 1..(l - 2) : a + i - 1 = o + i /\ i \in 1..(b - a + 1)
        <5>1. o \in Nat /\ l \in Nat /\ a = o + 1 /\ b = o + l - 2
          BY <3>2
        <5>. HIDE DEF o, l, a, b
        <5>. QED
          BY ONLY <5>1
      <4>. HIDE DEF a, b
      <4>2. /\ SubSeq(text, a, b) \in Seq(Bytes)
            /\ Len(SubSeq(text, a, b)) = IF a <= b THEN b - a + 1 ELSE 0
            /\ \A i \in 1..(b - a + 1) : SubSeq(text, a, b)[i] = text[a + i - 1]
        BY <1>3, <4>1, SubSeqProperties
      <4>4. Len(SubSeq(text, a, b)) = l - 2
        BY <1>1, <3>2, <4>1, <4>2, SMTT(30)
      <4>. QED
        BY <4>2, <4>3, <4>4 DEF a, b
    <3>. HIDE DEF t, u, o, l
    <3>7. t = u
      <4>1. \A i \in 1..(l - 2) : t[i] = u[i]
        <5>1. \A i \in 1..(l - 2) : i \in 1..l
          BY <3>2
        <5>. QED
          BY <3>2, <3>5, <3>6, <5>1
      <4>. QED
        BY <3>5, <3>6, <4>1, SeqEqual
    <3>8. c[k] + 2 = o + 1 /\ c[k + 1] - 1 = o + l - 2
      BY <3>2, <3>3
    <3>9. SubSeq(text, c[k] + 2, c[k + 1] - 1) = t
      BY <3>8 DEF t
    <3>. QED
      BY <2>3, <3>7, <3>9 DEF u
  <2>. QED
    BY <2>2, <2>3
<1>. QED
  BY <1>8, <1>9, <1>10 DEF m

(* The last of the lines is empty and no other.                            *)
OneBlank(q) ==
  /\ Len(q) >= 2 /\ Len(q[Len(q)]) = 2
  /\ \A k \in 1..(Len(q) - 1) : Len(q[k]) > 2

(* Such a text has its CR and LF in pairs, and a blank line at its end     *)
(* only.                                                                   *)
LEMMA BlankAtEnd ==
  ASSUME NEW off, NEW q, NEW text, Lined(off, q, text), OneBlank(q)
  PROVE  CrLfOnly(text) /\ BlankLines(text) = {Len(text)}
<1>. DEFINE m == Len(q)
            n == Len(text)
<1>1. /\ m \in Nat /\ n \in Nat /\ off[0] = 0 /\ off[m] = n
      /\ \A k \in 0..m : off[k] \in Nat /\ off[k] <= n
      /\ \A k \in 1..m : off[k] = off[k - 1] + Len(q[k]) /\ Len(q[k]) \in Nat /\ Len(q[k]) >= 2
      /\ \A i, j \in 0..m : i < j => off[i] < off[j]
  BY LinedFacts
<1>2. /\ \A k \in 1..m : /\ off[k] >= 2 /\ off[k] <= n
                         /\ text[off[k] - 1] = "CR" /\ text[off[k]] = "LF"
      /\ \A i \in 1..n : text[i] = "CR" => \E k \in 1..m : i = off[k] - 1
      /\ \A i \in 1..n : text[i] = "LF" => \E k \in 1..m : i = off[k]
  BY LineEndsAt
<1>3. m >= 2 /\ Len(q[m]) = 2 /\ \A k \in 1..(m - 1) : Len(q[k]) > 2
  BY DEF OneBlank
<1>4. text \in Seq(Bytes) /\ DOMAIN text = 1..n
  BY LenProperties DEF Lined
<1>. HIDE DEF m, n
<1>5. ASSUME NEW i \in 1..n, text[i] = "CR" PROVE i < n /\ text[i + 1] = "LF"
  <2>1. PICK k \in 1..m : i = off[k] - 1
    BY <1>2, <1>5
  <2>2. off[k] \in Nat /\ off[k] <= n /\ text[off[k]] = "LF"
    BY <1>1, <1>2
  <2>3. i + 1 = off[k] /\ i < n
    BY <2>1, <2>2, <1>1
  <2>. QED
    BY <2>2, <2>3
<1>6. ASSUME NEW i \in 1..n, text[i] = "LF" PROVE i > 1 /\ text[i - 1] = "CR"
  <2>1. PICK k \in 1..m : i = off[k]
    BY <1>2, <1>6
  <2>. QED
    BY <1>2, <2>1
<1>7. CrLfOnly(text)
  <2>1. Len(text) = n
    BY DEF n
  <2>. QED
    BY <1>4, <1>5, <1>6, <2>1, Zenon DEF CrLfOnly
<1>8. n \in BlankLines(text)
  <2>1. off[m - 1] \in Nat /\ off[m - 1] >= 2 /\ n = off[m - 1] + 2
        /\ text[off[m - 1] - 1] = "CR" /\ text[off[m - 1]] = "LF"
        /\ text[n - 1] = "CR" /\ text[n] = "LF"
    <3>1. m - 1 \in 1..m /\ m - 1 \in 0..m /\ m \in 1..m
      BY <1>1, <1>3
    <3>. QED
      BY <1>1, <1>2, <1>3, <3>1
  <2>2. n \in 4..n /\ n - 3 = off[m - 1] - 1 /\ n - 2 = off[m - 1]
    <3>1. \A x, y \in Nat : x >= 2 /\ y = x + 2 => y \in 4..y /\ y - 3 = x - 1 /\ y - 2 = x
      OBVIOUS
    <3>2. n \in Nat
      BY <1>1
    <3>. QED
      BY ONLY <2>1, <3>1, <3>2
  <2>3. n \in 4..Len(text)
    BY <2>2 DEF n
  <2>4. text[n - 3] = "CR" /\ text[n - 2] = "LF"
    BY <2>1, <2>2
  <2>5. SubSeq(text, n - 3, n) = BlankLine
    BY <1>4, <2>1, <2>3, <2>4, BlankLineBytes
  <2>. QED
    BY <2>3, <2>5 DEF BlankLines
<1>9. ASSUME NEW i \in BlankLines(text) PROVE i = n
  <2>1. i \in 4..Len(text) /\ SubSeq(text, i - 3, i) = BlankLine
    BY DEF BlankLines
  <2>2. text[i - 2] = "LF" /\ text[i] = "LF"
    BY <1>4, <2>1, BlankLineBytes
  <2>3. i \in Nat /\ i - 2 \in 1..n /\ i \in 1..n
    BY <1>1, <2>1 DEF n
  <2>4. PICK k \in 1..m : i - 2 = off[k]
    BY <1>2, <2>2, <2>3
  <2>5. PICK j \in 1..m : i = off[j]
    BY <1>2, <2>2, <2>3
  <2>6. off[k] \in Nat /\ off[j] \in Nat /\ off[j] = off[k] + 2
    <3>1. off[k] \in Nat /\ off[j] \in Nat
      BY <1>1
    <3>. QED
      BY <2>3, <2>4, <2>5, <3>1
  <2>7. k < j
    <3>1. k \in 0..m /\ j \in 0..m
      BY <1>1
    <3>2. ~(j < k) /\ j # k
      BY <1>1, <2>6, <3>1
    <3>. QED
      BY <3>1, <3>2
  <2>8. k + 1 \in 1..m /\ (k + 1) - 1 = k
    BY <1>1, <2>7
  <2>9. off[k + 1] = off[k] + Len(q[k + 1]) /\ Len(q[k + 1]) \in Nat /\ Len(q[k + 1]) >= 2
    BY <1>1, <2>8
  <2>10. ~(k + 1 < j)
    <3>. SUFFICES ASSUME k + 1 < j PROVE FALSE
      OBVIOUS
    <3>1. k + 1 \in 0..m /\ j \in 0..m
      BY <1>1, <2>8
    <3>2. off[k + 1] < off[j]
      BY <1>1, <3>1
    <3>. QED
      BY <2>6, <2>9, <3>2
  <2>11. j = k + 1
    BY <2>7, <2>8, <2>10
  <2>12. Len(q[j]) = 2
    <3>1. off[j] = off[k] + Len(q[j]) /\ Len(q[j]) \in Nat
      BY <2>9, <2>11
    <3>2. \A x, y, z \in Nat : y = x + 2 /\ y = x + z => z = 2
      OBVIOUS
    <3>. QED
      BY ONLY <2>6, <3>1, <3>2
  <2>13. j = m
    <3>. SUFFICES ASSUME j # m PROVE FALSE
      OBVIOUS
    <3>1. j \in 1..(m - 1)
      BY <1>1
    <3>2. Len(q[j]) > 2
      BY <1>3, <3>1
    <3>. QED
      BY ONLY <2>12, <3>2
  <2>. QED
    BY <1>1, <2>5, <2>13
<1>. QED
  BY <1>7, <1>8, <1>9 DEF n

(* s is the four parts, one behind the other.                              *)
Parts(s, a, b, c, d) ==
  /\ s \in Seq(Bytes) /\ a \in Seq(Bytes) /\ b \in Seq(Bytes) /\ c \in Seq(Bytes) /\ d \in Seq(Bytes)
  /\ Len(s) = Len(a) + Len(b) + Len(c) + Len(d)
  /\ \A i \in 1..Len(a) : s[i] = a[i]
  /\ \A i \in 1..Len(b) : s[Len(a) + i] = b[i]
  /\ \A i \in 1..Len(c) : s[Len(a) + Len(b) + i] = c[i]
  /\ \A i \in 1..Len(d) : s[Len(a) + Len(b) + Len(c) + i] = d[i]

LEMMA Join ==
  ASSUME NEW S, NEW s \in Seq(S), NEW t \in Seq(S)
  PROVE  /\ s \o t \in Seq(S) /\ Len(s \o t) = Len(s) + Len(t)
         /\ \A i \in 1..Len(s) : (s \o t)[i] = s[i]
         /\ \A i \in 1..Len(t) : (s \o t)[Len(s) + i] = t[i]
<1>1. Len(s) \in Nat /\ Len(t) \in Nat
  BY LenProperties
<1>2. /\ s \o t \in Seq(S) /\ Len(s \o t) = Len(s) + Len(t)
      /\ \A i \in 1..(Len(s) + Len(t)) : (s \o t)[i] = IF i <= Len(s) THEN s[i] ELSE t[i - Len(s)]
  BY ConcatProperties
<1>3. ASSUME NEW i \in 1..Len(t) PROVE (s \o t)[Len(s) + i] = t[i]
  <2>1. Len(s) + i \in 1..(Len(s) + Len(t)) /\ ~(Len(s) + i <= Len(s)) /\ (Len(s) + i) - Len(s) = i
    BY <1>1
  <2>2. (s \o t)[Len(s) + i] = t[(Len(s) + i) - Len(s)]
    BY <1>2, <2>1
  <2>. QED
    BY <2>1, <2>2
<1>4. ASSUME NEW i \in 1..Len(s) PROVE (s \o t)[i] = s[i]
  BY <1>1, <1>2
<1>. QED
  BY <1>2, <1>3, <1>4

LEMMA PartsOf ==
  ASSUME NEW a \in Seq(Bytes), NEW b \in Seq(Bytes), NEW c \in Seq(Bytes), NEW d \in Seq(Bytes)
  PROVE  Parts(a \o b \o c \o d, a, b, c, d)
<1>. DEFINE ab == a \o b
            abc == ab \o c
            s == abc \o d
<1>0. Len(a) \in Nat /\ Len(b) \in Nat /\ Len(c) \in Nat /\ Len(d) \in Nat
  BY LenProperties
<1>1. /\ ab \in Seq(Bytes) /\ Len(ab) = Len(a) + Len(b)
      /\ \A i \in 1..Len(a) : ab[i] = a[i]
      /\ \A i \in 1..Len(b) : ab[Len(a) + i] = b[i]
  BY Join
<1>. HIDE DEF ab
<1>2. /\ abc \in Seq(Bytes) /\ Len(abc) = Len(ab) + Len(c)
      /\ \A i \in 1..Len(ab) : abc[i] = ab[i]
      /\ \A i \in 1..Len(c) : abc[Len(ab) + i] = c[i]
  <2>1. ab \in Seq(Bytes)
    BY <1>1
  <2>. QED
    BY ONLY <2>1, c \in Seq(Bytes), Join
<1>. HIDE DEF abc
<1>3. /\ s \in Seq(Bytes) /\ Len(s) = Len(abc) + Len(d)
      /\ \A i \in 1..Len(abc) : s[i] = abc[i]
      /\ \A i \in 1..Len(d) : s[Len(abc) + i] = d[i]
  <2>1. abc \in Seq(Bytes)
    BY <1>2
  <2>. QED
    BY ONLY <2>1, d \in Seq(Bytes), Join
<1>. HIDE DEF s
<1>4. PICK la \in Nat, lb \in Nat, lc \in Nat : la = Len(a) /\ lb = Len(b) /\ lc = Len(c)
  BY <1>0
<1>5. Len(ab) = la + lb /\ Len(abc) = la + lb + lc
  BY <1>1, <1>2, <1>4
<1>6. ASSUME NEW i \in 1..la PROVE s[i] = a[i]
  <2>1. i \in 1..(la + lb) /\ i \in 1..(la + lb + lc)
    BY <1>4
  <2>. QED
    BY <1>1, <1>2, <1>3, <1>4, <1>5, <2>1
<1>7. ASSUME NEW i \in 1..lb PROVE s[la + i] = b[i]
  <2>1. la + i \in 1..(la + lb) /\ la + i \in 1..(la + lb + lc)
    BY <1>4
  <2>. QED
    BY <1>1, <1>2, <1>3, <1>4, <1>5, <2>1
<1>8. ASSUME NEW i \in 1..lc PROVE s[la + lb + i] = c[i]
  <2>1. la + lb + i \in 1..(la + lb + lc)
    BY <1>4
  <2>2. abc[la + lb + i] = c[i]
    BY <1>2, <1>4, <1>5
  <2>3. s[la + lb + i] = abc[la + lb + i]
    BY <1>3, <1>5, <2>1
  <2>. QED
    BY <2>2, <2>3
<1>9. \A i \in 1..Len(d) : s[la + lb + lc + i] = d[i]
  BY <1>3, <1>5
<1>10. Len(s) = la + lb + lc + Len(d)
  BY <1>3, <1>5
<1>11. Parts(s, a, b, c, d)
  BY <1>3, <1>4, <1>6, <1>7, <1>8, <1>9, <1>10 DEF Parts
<1>. QED
  BY <1>11 DEF s, abc, ab

(* What a client sends is lines.                                           *)
FirstOf(r) == r.method \o <<"SP">> \o r.path \o <<"SP", "http/1.1", "CR", "LF">>
FieldOf(h) == h.name \o <<":", "SP">> \o h.value \o <<"CR", "LF">>
FieldsOf(r) == [k \in 1..Len(r.headers) |-> FieldOf(r.headers[k])]
LinesOf(r) ==
  [k \in 1..(Len(r.headers) + 2) |->
     IF k = 1 THEN FirstOf(r)
     ELSE IF k = Len(r.headers) + 2 THEN <<"CR", "LF">> ELSE FieldOf(r.headers[k - 1])]

LEMMA RequestParts ==
  ASSUME NEW r, IsRequest(r)
  PROVE  /\ Len(r.headers) \in Nat /\ DOMAIN r.headers = 1..Len(r.headers)
         /\ Parts(FirstOf(r), r.method, <<"SP">>, r.path, <<"SP", "http/1.1", "CR", "LF">>)
         /\ \A k \in 1..Len(r.headers) :
              /\ r.headers[k] \in [name : Seq(Bytes), value : Seq(Bytes)]
              /\ Parts(FieldOf(r.headers[k]), r.headers[k].name, <<":", "SP">>,
                       r.headers[k].value, <<"CR", "LF">>)
<1>1. {"CR", "LF", "SP", ":", "http/1.1"} \subseteq Bytes
  BY NamedBytes
<1>2. /\ <<"SP">> \in Seq(Bytes) /\ <<"SP", "http/1.1", "CR", "LF">> \in Seq(Bytes)
      /\ <<":", "SP">> \in Seq(Bytes) /\ <<"CR", "LF">> \in Seq(Bytes)
  <2>1. \A x, y, z, u \in Bytes :
          <<x>> \in Seq(Bytes) /\ <<x, y>> \in Seq(Bytes) /\ <<x, y, z, u>> \in Seq(Bytes)
    OBVIOUS
  <2>. QED
    BY <1>1, <2>1
<1>3. /\ r.method \in Seq(Bytes) /\ r.path \in Seq(Bytes)
      /\ r.headers \in Seq([name : Seq(Bytes), value : Seq(Bytes)])
  BY DEF IsRequest, Token, Bytes
<1>4. Parts(FirstOf(r), r.method, <<"SP">>, r.path, <<"SP", "http/1.1", "CR", "LF">>)
  BY <1>2, <1>3, PartsOf DEF FirstOf
<1>5. Len(r.headers) \in Nat /\ DOMAIN r.headers = 1..Len(r.headers)
  BY <1>3, LenProperties
<1>6. ASSUME NEW k \in 1..Len(r.headers)
      PROVE  /\ r.headers[k] \in [name : Seq(Bytes), value : Seq(Bytes)]
             /\ Parts(FieldOf(r.headers[k]), r.headers[k].name, <<":", "SP">>,
                      r.headers[k].value, <<"CR", "LF">>)
  <2>1. r.headers[k] \in [name : Seq(Bytes), value : Seq(Bytes)]
    BY <1>3, ElementOfSeq
  <2>2. r.headers[k].name \in Seq(Bytes) /\ r.headers[k].value \in Seq(Bytes)
    BY <2>1
  <2>. QED
    BY <1>2, <2>1, <2>2, PartsOf DEF FieldOf
<1>. QED
  BY <1>4, <1>5, <1>6

LEMMA RenderIsLines ==
  ASSUME NEW r, IsRequest(r)
  PROVE  LinesOf(r) \in Seq(Seq(Bytes)) /\ Render(r) = FlattenSeq(LinesOf(r))
<1>. DEFINE n == Len(r.headers)
            Q == Seq(Bytes)
            first == FirstOf(r)
            e(k) == FieldOf(r.headers[k])
            fs == [k \in 1..n |-> e(k)]
            last == <<"CR", "LF">>
            h == <<first>> \o fs
<1>1. n \in Nat /\ DOMAIN r.headers = 1..n /\ first \in Q /\ \A k \in 1..n : e(k) \in Q
  BY RequestParts DEF Parts
<1>2. last \in Q
  <2>1. \A x, y \in Bytes : <<x, y>> \in Seq(Bytes)
    OBVIOUS
  <2>. QED
    BY <2>1, NamedBytes
<1>3. Render(r) = first \o FlattenSeq(fs) \o last
  BY <1>1 DEF Render, FirstOf, FieldOf
<1>4. LinesOf(r) = [k \in 1..(n + 2) |-> IF k = 1 THEN first ELSE IF k = n + 2 THEN last ELSE e(k - 1)]
  BY DEF LinesOf
<1>. HIDE DEF n, Q, first, e, last
<1>5. fs \in Seq(Q) /\ Len(fs) = n /\ \A k \in 1..n : fs[k] = e(k)
  BY <1>1
<1>. HIDE DEF fs
<1>6. /\ h \in Seq(Q) /\ Len(h) = n + 1 /\ h[1] = first /\ h # <<>> /\ Head(h) = first
      /\ \A k \in 1..n : h[k + 1] = e(k)
  <2>1. <<first>> \in Seq(Q) /\ Len(<<first>>) = 1 /\ <<first>>[1] = first
    BY <1>1
  <2>2. /\ h \in Seq(Q) /\ Len(h) = 1 + n
        /\ \A i \in 1..Len(<<first>>) : h[i] = <<first>>[i]
        /\ \A i \in 1..Len(fs) : h[Len(<<first>>) + i] = fs[i]
    BY <1>5, <2>1, Join
  <2>. HIDE DEF h
  <2>3. h[1] = first
    BY <2>1, <2>2
  <2>4. \A k \in 1..n : h[1 + k] = e(k)
    BY <1>5, <2>1, <2>2
  <2>5. \A k \in 1..n : 1 + k = k + 1
    BY <1>1
  <2>. QED
    BY <1>1, <2>2, <2>3, <2>4, <2>5
<1>7. Tail(h) = fs
  <2>. HIDE DEF h
  <2>1. Tail(h) \in Seq(Q) /\ Len(Tail(h)) = n /\ \A k \in 1..n : Tail(h)[k] = h[k + 1]
    BY <1>1, <1>6, HeadTailProperties
  <2>. QED
    BY <1>5, <1>6, <2>1, SeqEqual
<1>. HIDE DEF h
<1>8. FlattenSeq(h) = first \o FlattenSeq(fs)
  <2>1. h \in Seq(Seq(Bytes)) /\ h # <<>>
    BY <1>6 DEF Q
  <2>2. FlattenSeq(h) = Head(h) \o FlattenSeq(Tail(h))
    BY <2>1, FlattenHeadTail
  <2>. QED
    BY <1>6, <1>7, <2>2
<1>9. FlattenSeq(Append(h, last)) = FlattenSeq(h) \o last
  <2>1. h \in Seq(Seq(Bytes)) /\ last \in Seq(Bytes)
    BY <1>2, <1>6 DEF Q
  <2>. QED
    BY <2>1, FlattenAppend
<1>10. Append(h, last) = LinesOf(r)
  <2>1. /\ Append(h, last) \in Seq(Q) /\ Len(Append(h, last)) = n + 2
        /\ Append(h, last)[n + 2] = last /\ \A k \in 1..(n + 1) : Append(h, last)[k] = h[k]
    <3>1. /\ Append(h, last) \in Seq(Q) /\ Len(Append(h, last)) = Len(h) + 1
          /\ Append(h, last)[Len(h) + 1] = last /\ \A k \in 1..Len(h) : Append(h, last)[k] = h[k]
      BY <1>2, <1>6, AppendFacts
    <3>2. Len(h) + 1 = n + 2
      BY <1>1, <1>6
    <3>. QED
      BY <1>6, <3>1, <3>2
  <2>2. LinesOf(r) \in Seq(Q) /\ Len(LinesOf(r)) = n + 2
    <3>. DEFINE g(k) == IF k = 1 THEN first ELSE IF k = n + 2 THEN last ELSE e(k - 1)
    <3>1. \A k \in 1..(n + 2) : g(k) \in Q
      <4>. SUFFICES ASSUME NEW k \in 1..(n + 2), k # 1, k # n + 2 PROVE e(k - 1) \in Q
        BY <1>1, <1>2
      <4>1. k - 1 \in 1..n
        BY <1>1
      <4>. QED
        BY <1>1, <4>1
    <3>2. LinesOf(r) = [k \in 1..(n + 2) |-> g(k)]
      BY <1>4
    <3>. HIDE DEF g
    <3>. QED
      BY <1>1, <3>1, <3>2
  <2>3. \A k \in 1..(n + 2) : Append(h, last)[k] = LinesOf(r)[k]
    <3>. SUFFICES ASSUME NEW k \in 1..(n + 2) PROVE Append(h, last)[k] = LinesOf(r)[k]
      OBVIOUS
    <3>1. LinesOf(r)[k] = IF k = 1 THEN first ELSE IF k = n + 2 THEN last ELSE e(k - 1)
      BY <1>4
    <3>2. CASE k = n + 2
      BY <1>1, <2>1, <3>1, <3>2
    <3>3. CASE k # n + 2
      <4>1. k \in 1..(n + 1)
        BY <1>1, <3>3
      <4>2. k # 1 => k - 1 \in 1..n /\ (k - 1) + 1 = k
        BY <1>1, <4>1
      <4>3. k # 1 => h[k] = e(k - 1)
        BY <1>6, <4>2
      <4>. QED
        BY <1>6, <2>1, <3>1, <3>3, <4>1, <4>3
    <3>. QED
      BY <3>2, <3>3
  <2>. QED
    BY <2>1, <2>2, <2>3, SeqEqual
<1>. QED
  <2>1. LinesOf(r) \in Seq(Q)
    <3>1. Append(h, last) \in Seq(Q)
      BY <1>2, <1>6, AppendFacts
    <3>. QED
      BY <1>10, <3>1
  <2>. QED
    BY <2>1, <1>3, <1>8, <1>9, <1>10 DEF Q

(* Such parts of a line: its end is in the last, behind x bytes.           *)
LineParts(s, a, b, c, d, x) ==
  /\ Parts(s, a, b, c, d)
  /\ Len(d) = x + 2 /\ d[x + 1] = "CR" /\ d[x + 2] = "LF"
  /\ \A i \in 1..Len(a) : a[i] \notin LineEnds
  /\ \A i \in 1..Len(b) : b[i] \notin LineEnds
  /\ \A i \in 1..Len(c) : c[i] \notin LineEnds
  /\ \A i \in 1..x : d[i] \notin LineEnds

(* What is before the end of such a line.                                  *)
FrontOf(s, m) ==
  Content(s) \in Seq(Bytes) /\ Len(Content(s)) = m /\ \A i \in 1..m : Content(s)[i] = s[i]

(* Four parts are a line if the last is the end of one and the others have *)
(* no end of a line in them.                                               *)
LEMMA PartsAreLine ==
  ASSUME NEW s, NEW a, NEW b, NEW c, NEW d, NEW x \in Nat, LineParts(s, a, b, c, d, x)
  PROVE  IsLine(s) /\ FrontOf(s, Len(a) + Len(b) + Len(c) + x)
<1>0. /\ Parts(s, a, b, c, d)
      /\ Len(d) = x + 2 /\ d[x + 1] = "CR" /\ d[x + 2] = "LF"
      /\ \A i \in 1..Len(a) : a[i] \notin LineEnds
      /\ \A i \in 1..Len(b) : b[i] \notin LineEnds
      /\ \A i \in 1..Len(c) : c[i] \notin LineEnds
      /\ \A i \in 1..x : d[i] \notin LineEnds
  BY DEF LineParts
<1>1. /\ s \in Seq(Bytes)
      /\ Len(a) \in Nat /\ Len(b) \in Nat /\ Len(c) \in Nat
      /\ Len(s) = Len(a) + Len(b) + Len(c) + Len(d)
  BY <1>0, LenProperties DEF Parts
<1>2. PICK la \in Nat, lb \in Nat, lc \in Nat : la = Len(a) /\ lb = Len(b) /\ lc = Len(c)
  BY <1>1
<1>3. /\ Len(s) = la + lb + lc + x + 2
      /\ \A i \in 1..la : s[i] = a[i]
      /\ \A i \in 1..lb : s[la + i] = b[i]
      /\ \A i \in 1..lc : s[la + lb + i] = c[i]
      /\ \A i \in 1..(x + 2) : s[la + lb + lc + i] = d[i]
  BY <1>0, <1>1, <1>2 DEF Parts
<1>4. s[la + lb + lc + (x + 1)] = "CR" /\ s[la + lb + lc + (x + 2)] = "LF"
  <2>1. x + 1 \in 1..(x + 2) /\ x + 2 \in 1..(x + 2)
    OBVIOUS
  <2>. QED
    BY <1>0, <1>3, <2>1
<1>5. la + lb + lc + (x + 1) = Len(s) - 1 /\ la + lb + lc + (x + 2) = Len(s)
      /\ Len(s) - 2 = la + lb + lc + x /\ Len(s) >= 2
  BY <1>2, <1>3
<1>6. ASSUME NEW i \in 1..(la + lb + lc + x) PROVE s[i] \notin LineEnds
  <2>1. CASE i \in 1..la
    BY <1>0, <1>2, <1>3, <2>1
  <2>2. CASE i - la \in 1..lb
    <3>1. la + (i - la) = i
      BY <1>2
    <3>2. s[la + (i - la)] = b[i - la]
      BY <1>3, <2>2
    <3>. QED
      BY <1>0, <1>2, <2>2, <3>1, <3>2
  <2>3. CASE i - (la + lb) \in 1..lc
    <3>1. la + lb + (i - (la + lb)) = i
      BY <1>2
    <3>2. s[la + lb + (i - (la + lb))] = c[i - (la + lb)]
      BY <1>3, <2>3
    <3>. QED
      BY <1>0, <1>2, <2>3, <3>1, <3>2
  <2>4. CASE i - (la + lb + lc) \in 1..x
    <3>1. la + lb + lc + (i - (la + lb + lc)) = i /\ i - (la + lb + lc) \in 1..(x + 2)
      BY <1>2, <2>4
    <3>2. s[la + lb + lc + (i - (la + lb + lc))] = d[i - (la + lb + lc)]
      BY <1>3, <3>1
    <3>. QED
      BY <1>0, <2>4, <3>1, <3>2
  <2>. QED
    BY <1>2, <2>1, <2>2, <2>3, <2>4
<1>7. IsLine(s)
  BY <1>1, <1>4, <1>5, <1>6 DEF IsLine
<1>. DEFINE m == la + lb + lc + x
<1>8. m \in Nat /\ Len(s) = m + 2 /\ Len(s) - 2 = m
  BY <1>2, <1>3
<1>. HIDE DEF m
<1>9. /\ SubSeq(s, 1, m) \in Seq(Bytes)
      /\ Len(SubSeq(s, 1, m)) = IF 1 <= m THEN m - 1 + 1 ELSE 0
      /\ \A i \in 1..(m - 1 + 1) : SubSeq(s, 1, m)[i] = s[1 + i - 1]
  BY <1>1, <1>8, SubSeqProperties
<1>10. Len(SubSeq(s, 1, m)) = m /\ \A i \in 1..m : SubSeq(s, 1, m)[i] = s[i]
  <2>1. \A i \in 1..m : i \in 1..(m - 1 + 1) /\ 1 + i - 1 = i
    BY <1>8
  <2>. QED
    BY <1>8, <1>9, <2>1
<1>11. Content(s) = SubSeq(s, 1, m)
  BY <1>8 DEF Content
<1>12. Len(a) + Len(b) + Len(c) + x = m
  BY <1>2 DEF m
<1>. QED
  BY <1>7, <1>9, <1>10, <1>11, <1>12 DEF FrontOf

(* No byte of a token or of the value of a header ends a line.             *)
LEMMA NoLineEnds ==
  ASSUME NEW r, IsRequest(r)
  PROVE  /\ \A i \in 1..Len(r.method) : r.method[i] \notin White
         /\ \A i \in 1..Len(r.path) : r.path[i] \notin White
         /\ \A k \in 1..Len(r.headers) :
              /\ r.headers[k].name # <<>> /\ Trimmed(r.headers[k].value)
              /\ \A i \in 1..Len(r.headers[k].name) : r.headers[k].name[i] \notin White \cup {":"}
              /\ \A i \in 1..Len(r.headers[k].value) : r.headers[k].value[i] \notin {"CR", "LF"}
<1>1. /\ r.method \in Seq(Bytes) /\ r.path \in Seq(Bytes)
      /\ Len(r.headers) \in Nat /\ DOMAIN r.headers = 1..Len(r.headers)
      /\ \A k \in 1..Len(r.headers) : r.headers[k] \in [name : Seq(Bytes), value : Seq(Bytes)]
  BY RequestParts DEF IsRequest, Token, Bytes
<1>2. DOMAIN r.method = 1..Len(r.method) /\ DOMAIN r.path = 1..Len(r.path)
  BY <1>1, LenProperties
<1>3. /\ \A i \in 1..Len(r.method) : r.method[i] \notin White
      /\ \A i \in 1..Len(r.path) : r.path[i] \notin White
  BY <1>2 DEF IsRequest, Token
<1>4. ASSUME NEW k \in 1..Len(r.headers)
      PROVE  /\ r.headers[k].name # <<>> /\ Trimmed(r.headers[k].value)
             /\ \A i \in 1..Len(r.headers[k].name) : r.headers[k].name[i] \notin White \cup {":"}
             /\ \A i \in 1..Len(r.headers[k].value) : r.headers[k].value[i] \notin {"CR", "LF"}
  <2>. DEFINE h == r.headers[k]
  <2>1. h.name \in Seq(Bytes) /\ h.value \in Seq(Bytes)
    BY <1>1
  <2>2. DOMAIN h.name = 1..Len(h.name) /\ DOMAIN h.value = 1..Len(h.value)
    BY <2>1, LenProperties
  <2>3. /\ h.name # <<>> /\ Token(h.name) /\ (\A i \in DOMAIN h.name : h.name[i] # ":")
        /\ Trimmed(h.value) /\ \A i \in DOMAIN h.value : h.value[i] \notin {"CR", "LF"}
    BY <1>1 DEF IsRequest
  <2>. HIDE DEF h
  <2>4. \A i \in 1..Len(h.name) : h.name[i] \notin White
    BY <2>2, <2>3 DEF Token
  <2>5. \A i \in 1..Len(h.name) : h.name[i] \notin White \cup {":"}
    BY <2>2, <2>3, <2>4
  <2>6. \A i \in 1..Len(h.value) : h.value[i] \notin {"CR", "LF"}
    BY <2>2, <2>3
  <2>. QED
    BY <2>3, <2>5, <2>6 DEF h
<1>. QED
  BY <1>3, <1>4

(* The lines of a request, without their ends.                             *)
LEMMA RequestContents ==
  ASSUME NEW r, IsRequest(r)
  PROVE  /\ IsLine(FirstOf(r)) /\ FrontOf(FirstOf(r), Len(r.method) + Len(r.path) + 3)
         /\ \A k \in 1..Len(r.headers) :
              /\ IsLine(FieldOf(r.headers[k]))
              /\ FrontOf(FieldOf(r.headers[k]), Len(r.headers[k].name) + Len(r.headers[k].value) + 2)
<1>1. /\ Parts(FirstOf(r), r.method, <<"SP">>, r.path, <<"SP", "http/1.1", "CR", "LF">>)
      /\ \A k \in 1..Len(r.headers) :
           Parts(FieldOf(r.headers[k]), r.headers[k].name, <<":", "SP">>,
                 r.headers[k].value, <<"CR", "LF">>)
  BY RequestParts
<1>2. /\ \A i \in 1..Len(r.method) : r.method[i] \notin LineEnds
      /\ \A i \in 1..Len(r.path) : r.path[i] \notin LineEnds
      /\ \A k \in 1..Len(r.headers) :
           /\ \A i \in 1..Len(r.headers[k].name) : r.headers[k].name[i] \notin LineEnds
           /\ \A i \in 1..Len(r.headers[k].value) : r.headers[k].value[i] \notin LineEnds
  BY NoLineEnds DEF White, LineEnds
<1>3. /\ Len(<<"SP">>) = 1 /\ Len(<<":", "SP">>) = 2 /\ Len(<<"CR", "LF">>) = 0 + 2
      /\ Len(<<"SP", "http/1.1", "CR", "LF">>) = 2 + 2
      /\ \A i \in 1..1 : <<"SP">>[i] \notin LineEnds
      /\ \A i \in 1..2 : <<":", "SP">>[i] \notin LineEnds
      /\ \A i \in 1..2 : <<"SP", "http/1.1", "CR", "LF">>[i] \notin LineEnds
      /\ \A i \in 1..0 : <<"CR", "LF">>[i] \notin LineEnds
      /\ <<"CR", "LF">>[0 + 1] = "CR" /\ <<"CR", "LF">>[0 + 2] = "LF"
      /\ <<"SP", "http/1.1", "CR", "LF">>[2 + 1] = "CR" /\ <<"SP", "http/1.1", "CR", "LF">>[2 + 2] = "LF"
  <2>1. 1..1 = {1} /\ 1..2 = {1, 2}
    OBVIOUS
  <2>. QED
    BY <2>1 DEF LineEnds
<1>. DEFINE sp == <<"SP">>
            colon == <<":", "SP">>
            crlf == <<"CR", "LF">>
            version == <<"SP", "http/1.1", "CR", "LF">>
<1>4. /\ Len(sp) = 1 /\ Len(colon) = 2 /\ Len(crlf) = 0 + 2 /\ Len(version) = 2 + 2
      /\ \A i \in 1..Len(sp) : sp[i] \notin LineEnds
      /\ \A i \in 1..Len(colon) : colon[i] \notin LineEnds
      /\ \A i \in 1..2 : version[i] \notin LineEnds
      /\ \A i \in 1..0 : crlf[i] \notin LineEnds
      /\ crlf[0 + 1] = "CR" /\ crlf[0 + 2] = "LF" /\ version[2 + 1] = "CR" /\ version[2 + 2] = "LF"
  BY <1>3
<1>5. /\ Parts(FirstOf(r), r.method, sp, r.path, version)
      /\ \A k \in 1..Len(r.headers) :
           Parts(FieldOf(r.headers[k]), r.headers[k].name, colon, r.headers[k].value, crlf)
  BY <1>1
<1>. HIDE DEF sp, colon, crlf, version
<1>6. IsLine(FirstOf(r)) /\ FrontOf(FirstOf(r), Len(r.method) + Len(r.path) + 3)
  <2>1. LineParts(FirstOf(r), r.method, sp, r.path, version, 2)
    BY <1>2, <1>4, <1>5 DEF LineParts
  <2>2. /\ IsLine(FirstOf(r))
        /\ FrontOf(FirstOf(r), Len(r.method) + Len(sp) + Len(r.path) + 2)
    BY <2>1, PartsAreLine
  <2>3. Len(r.method) \in Nat /\ Len(r.path) \in Nat
    BY <1>5, LenProperties DEF Parts
  <2>4. Len(r.method) + Len(sp) + Len(r.path) + 2 = Len(r.method) + Len(r.path) + 3
    <3>1. \A x, y \in Nat : x + 1 + y + 2 = x + y + 3
      OBVIOUS
    <3>. QED
      BY <1>4, <2>3, <3>1
  <2>. QED
    BY <2>2, <2>4
<1>7. ASSUME NEW k \in 1..Len(r.headers)
      PROVE  /\ IsLine(FieldOf(r.headers[k]))
             /\ FrontOf(FieldOf(r.headers[k]), Len(r.headers[k].name) + Len(r.headers[k].value) + 2)
  <2>. DEFINE e == FieldOf(r.headers[k])
              a == r.headers[k].name
              b == r.headers[k].value
  <2>1. /\ Parts(e, a, colon, b, crlf)
        /\ \A i \in 1..Len(a) : a[i] \notin LineEnds
        /\ \A i \in 1..Len(b) : b[i] \notin LineEnds
    BY <1>2, <1>5
  <2>. HIDE DEF a, b, e
  <2>2. Len(a) \in Nat /\ Len(b) \in Nat
    BY <2>1, LenProperties DEF Parts
  <2>3. LineParts(e, a, colon, b, crlf, 0)
    BY <1>4, <2>1 DEF LineParts
  <2>4. IsLine(e) /\ FrontOf(e, Len(a) + Len(colon) + Len(b) + 0)
    BY <2>3, PartsAreLine
  <2>5. Len(a) + Len(colon) + Len(b) + 0 = Len(a) + Len(b) + 2
    BY <1>4, <2>2
  <2>. QED
    BY <2>4, <2>5 DEF e, a, b
<1>. QED
  BY <1>6, <1>7

(* The bytes of a rendered request are lines, with one empty line at the   *)
(* end.                                                                    *)
LEMMA RequestIsLined ==
  ASSUME NEW r, IsRequest(r)
  PROVE  /\ Render(r) \in Seq(Bytes) /\ OneBlank(LinesOf(r)) /\ Len(LinesOf(r)) = Len(r.headers) + 2
         /\ \E off : Lined(off, LinesOf(r), Render(r))
<1>. DEFINE n == Len(r.headers)
            q == LinesOf(r)
            Q == Seq(Bytes)
<1>1. q \in Seq(Seq(Bytes)) /\ Render(r) = FlattenSeq(q)
  BY RenderIsLines
<1>2. Render(r) \in Seq(Bytes) /\ \E off : Pieces(off, q, Render(r))
  <2>. HIDE DEF q
  <2>. QED
    BY <1>1, FlattenPieces
<1>3. n \in Nat
  BY RequestParts
<1>4. Len(q) = n + 2 /\ \A k \in 1..(n + 2) :
        q[k] = IF k = 1 THEN FirstOf(r) ELSE IF k = n + 2 THEN <<"CR", "LF">> ELSE FieldOf(r.headers[k - 1])
  <2>1. DOMAIN q = 1..(n + 2)
    BY DEF LinesOf
  <2>2. Len(q) \in Nat /\ DOMAIN q = 1..Len(q)
    BY <1>1, LenProperties
  <2>3. Len(q) = n + 2
    <3>. HIDE DEF q, n
    <3>1. n + 2 \in Nat
      BY <1>3
    <3>. QED
      BY <2>1, <2>2, <3>1
  <2>. QED
    BY <2>3 DEF LinesOf
<1>5. /\ IsLine(FirstOf(r)) /\ FrontOf(FirstOf(r), Len(r.method) + Len(r.path) + 3)
      /\ \A k \in 1..n : /\ IsLine(FieldOf(r.headers[k]))
                         /\ FrontOf(FieldOf(r.headers[k]), Len(r.headers[k].name) + Len(r.headers[k].value) + 2)
      /\ r.method \in Seq(Bytes) /\ r.path \in Seq(Bytes)
      /\ \A k \in 1..n : r.headers[k].name \in Seq(Bytes) /\ r.headers[k].value \in Seq(Bytes)
  BY RequestContents, RequestParts DEF IsRequest, Token, Bytes
<1>. HIDE DEF n, q
<1>6. ASSUME NEW e, NEW m \in Nat, m > 0, IsLine(e), FrontOf(e, m) PROVE Len(e) > 2
  <2>1. e \in Seq(Bytes) /\ Len(e) \in Nat /\ Len(e) >= 2
    BY <1>6, LenProperties DEF IsLine
  <2>2. Len(Content(e)) = m
    BY <1>6 DEF FrontOf
  <2>3. CASE Len(e) = 2
    <3>1. Content(e) = SubSeq(e, 1, 0)
      BY <2>3 DEF Content
    <3>2. SubSeq(e, 1, 0) = <<>>
      OBVIOUS
    <3>3. Len(Content(e)) = 0
      BY <3>1, <3>2
    <3>. QED
      BY <1>6, <2>2, <3>3
  <2>4. \A x \in Nat : x >= 2 /\ x # 2 => x > 2
    OBVIOUS
  <2>5. Len(e) # 2
    <3>. SUFFICES ASSUME Len(e) = 2 PROVE FALSE
      OBVIOUS
    <3>1. Len(e) > 2
      BY <2>3
    <3>. QED
      BY <3>1
  <2>. QED
    BY <2>1, <2>4, <2>5
<1>7. Len(FirstOf(r)) > 2
  <2>1. Len(r.method) \in Nat /\ Len(r.path) \in Nat
    BY <1>5, LenProperties
  <2>2. Len(r.method) + Len(r.path) + 3 \in Nat /\ Len(r.method) + Len(r.path) + 3 > 0
    <3>1. \A x, y \in Nat : x + y + 3 \in Nat /\ x + y + 3 > 0
      OBVIOUS
    <3>. QED
      BY ONLY <2>1, <3>1
  <2>. QED
    BY <1>5, <1>6, <2>2
<1>8. ASSUME NEW k \in 1..n PROVE Len(FieldOf(r.headers[k])) > 2
  <2>1. Len(r.headers[k].name) \in Nat /\ Len(r.headers[k].value) \in Nat
    BY <1>5, LenProperties
  <2>2. /\ Len(r.headers[k].name) + Len(r.headers[k].value) + 2 \in Nat
        /\ Len(r.headers[k].name) + Len(r.headers[k].value) + 2 > 0
    <3>1. \A x, y \in Nat : x + y + 2 \in Nat /\ x + y + 2 > 0
      OBVIOUS
    <3>. QED
      BY ONLY <2>1, <3>1
  <2>. QED
    BY <1>5, <1>6, <2>2
<1>9. ASSUME NEW k \in 1..(n + 2)
      PROVE  \/ k = 1 /\ q[k] = FirstOf(r)
             \/ k = n + 2 /\ q[k] = <<"CR", "LF">>
             \/ k # n + 2 /\ k - 1 \in 1..n /\ q[k] = FieldOf(r.headers[k - 1])
  <2>1. k # 1 /\ k # n + 2 => k - 1 \in 1..n
    BY <1>3
  <2>. QED
    BY <1>4, <2>1
<1>10. IsLine(<<"CR", "LF">>) /\ Len(<<"CR", "LF">>) = 2
  <2>1. \A x, y \in Bytes : <<x, y>> \in Seq(Bytes)
    OBVIOUS
  <2>2. <<"CR", "LF">> \in Seq(Bytes)
    BY <2>1, NamedBytes
  <2>3. Len(<<"CR", "LF">>) = 2 /\ <<"CR", "LF">>[1] = "CR" /\ <<"CR", "LF">>[2] = "LF"
    OBVIOUS
  <2>4. \A e : e \in Seq(Bytes) /\ Len(e) = 2 /\ e[1] = "CR" /\ e[2] = "LF" => IsLine(e)
    <3>. SUFFICES ASSUME NEW e, e \in Seq(Bytes), Len(e) = 2, e[1] = "CR", e[2] = "LF" PROVE IsLine(e)
      OBVIOUS
    <3>1. Len(e) >= 2 /\ Len(e) - 1 = 1 /\ 1..(Len(e) - 2) = {}
      OBVIOUS
    <3>. QED
      BY <3>1 DEF IsLine
  <2>. QED
    BY <2>2, <2>3, <2>4
<1>11. \A k \in 1..Len(q) : IsLine(q[k])
  <2>. SUFFICES ASSUME NEW k \in 1..(n + 2) PROVE IsLine(q[k])
    BY <1>4
  <2>. QED
    BY <1>5, <1>9, <1>10
<1>12. OneBlank(q)
  <2>1. Len(q) >= 2 /\ Len(q) = n + 2
    BY <1>3, <1>4
  <2>2. Len(q[n + 2]) = 2
    <3>1. n + 2 \in 1..(n + 2) /\ n + 2 # 1
      BY <1>3
    <3>. QED
      BY <1>4, <1>10, <3>1
  <2>3. ASSUME NEW k \in 1..((n + 2) - 1) PROVE Len(q[k]) > 2
    <3>1. k \in 1..(n + 2) /\ k # n + 2
      BY <1>3
    <3>. QED
      BY <1>7, <1>8, <1>9, <3>1
  <2>. QED
    BY <2>1, <2>2, <2>3 DEF OneBlank
<1>13. \E off : Lined(off, q, Render(r))
  BY <1>1, <1>2, <1>11 DEF Lined
<1>. QED
  BY <1>2, <1>4, <1>12, <1>13 DEF q, n

(* s is v behind a bytes of white space.                                   *)
Padded(s, a, v) ==
  /\ s \in Seq(Bytes) /\ v \in Seq(Bytes) /\ a \in Nat /\ Len(s) = a + Len(v)
  /\ \A i \in 1..a : s[i] \in White
  /\ \A i \in 1..Len(v) : s[a + i] = v[i]

(* trim takes them away and nothing else.                                  *)
LEMMA TrimBack ==
  ASSUME NEW s, NEW a, NEW v, Padded(s, a, v), Trimmed(v)
  PROVE  Trim[s] = v
<1>. DEFINE black == {i \in DOMAIN s : s[i] \notin White}
            l == Len(v)
<1>1. /\ s \in Seq(Bytes) /\ v \in Seq(Bytes) /\ a \in Nat /\ l \in Nat /\ Len(s) = a + l
      /\ DOMAIN s = 1..(a + l)
      /\ \A i \in 1..a : s[i] \in White
      /\ \A i \in 1..l : s[a + i] = v[i]
  BY LenProperties DEF Padded
<1>2. Trim[s] = IF black = {} THEN <<>> ELSE SubSeq(s, Min(black), Max(black))
  BY <1>1 DEF Trim, Bytes
<1>. HIDE DEF l
<1>3. CASE v = <<>>
  <2>1. l = 0
    BY <1>3 DEF l
  <2>2. black = {}
    BY <1>1, <2>1
  <2>. QED
    BY <1>2, <1>3, <2>2
<1>4. CASE v # <<>>
  <2>1. l > 0 /\ v[1] \notin White /\ v[l] \notin White
    <3>1. l # 0
      BY <1>1, <1>4, EmptySeq DEF l
    <3>. QED
      BY <1>1, <1>4, <3>1 DEF Trimmed, l
  <2>2. a + 1 \in black /\ a + l \in black
    <3>1. a + 1 \in 1..(a + l) /\ a + l \in 1..(a + l) /\ 1 \in 1..l /\ l \in 1..l
      BY <1>1, <2>1
    <3>. QED
      BY <1>1, <2>1, <3>1
  <2>3. \A i \in black : i \in (a + 1)..(a + l)
    <3>. SUFFICES ASSUME NEW i \in 1..(a + l), s[i] \notin White PROVE i \in (a + 1)..(a + l)
      BY <1>1
    <3>1. i \notin 1..a
      BY <1>1
    <3>. QED
      BY <1>1, <3>1
  <2>. HIDE DEF black
  <2>4. Min(black) = a + 1 /\ Max(black) = a + l
    <3>1. \A i \in black : i \in Int /\ a + 1 <= i /\ i <= a + l
      BY <1>1, <2>3
    <3>2. a + 1 \in Int /\ a + l \in Int
      BY <1>1
    <3>. QED
      BY <2>2, <3>1, <3>2 DEF Min, Max
  <2>5. SubSeq(s, a + 1, a + l) = v
    <3>. DEFINE x == a + 1
                y == a + l
                t == SubSeq(s, x, y)
    <3>1. /\ x \in 1..(Len(s) + 1) /\ y \in 0..Len(s) /\ x <= y + 1 /\ x <= y
          /\ (y - x) + 1 = l /\ x \in Nat /\ y \in Nat
      BY <1>1, <2>1
    <3>2. \A i \in 1..l : x + i - 1 = a + i /\ i \in 1..((y - x) + 1)
      BY <1>1, <3>1
    <3>. HIDE DEF x, y
    <3>3. /\ SubSeq(s, x, y) \in Seq(Bytes)
          /\ Len(SubSeq(s, x, y)) = IF x <= y THEN y - x + 1 ELSE 0
          /\ \A i \in 1..(y - x + 1) : SubSeq(s, x, y)[i] = s[x + i - 1]
      BY <1>1, <3>1, SubSeqProperties
    <3>4. t \in Seq(Bytes) /\ Len(t) = l
      BY <3>1, <3>3
    <3>5. \A i \in 1..l : t[i] = v[i]
      BY <1>1, <3>2, <3>3
    <3>. HIDE DEF t
    <3>6. t = v
      BY <1>1, <3>4, <3>5, SeqEqual DEF l
    <3>. QED
      BY <3>6 DEF t, x, y
  <2>6. black # {}
    BY <2>2
  <2>. QED
    BY <1>2, <2>4, <2>5, <2>6 DEF black
<1>. QED
  BY <1>3, <1>4

(* A cut out of a sequence.                                                *)
LEMMA Cutting ==
  ASSUME NEW s \in Seq(Bytes), NEW x \in Nat, NEW y \in Nat, x >= 1, x <= y + 1, y <= Len(s)
  PROVE  /\ SubSeq(s, x, y) \in Seq(Bytes) /\ Len(SubSeq(s, x, y)) = (y - x) + 1
         /\ \A i \in 1..((y - x) + 1) : SubSeq(s, x, y)[i] = s[(x - 1) + i]
<1>1. Len(s) \in Nat
  BY LenProperties
<1>2. /\ SubSeq(s, x, y) \in Seq(Bytes)
      /\ Len(SubSeq(s, x, y)) = IF x <= y THEN y - x + 1 ELSE 0
      /\ \A i \in 1..(y - x + 1) : SubSeq(s, x, y)[i] = s[x + i - 1]
  <2>1. \A i \in x..y : i \in 1..Len(s)
    BY <1>1
  <2>. QED
    BY <1>1, <2>1, SubSeqProperties
<1>3. \A i \in 1..((y - x) + 1) : x + i - 1 = (x - 1) + i
  OBVIOUS
<1>4. Len(SubSeq(s, x, y)) = (y - x) + 1
  BY <1>2
<1>. QED
  BY <1>2, <1>3, <1>4

(* The line of a header, as the parser takes it apart.                     *)
LEMMA HeaderBack ==
  ASSUME NEW line \in Seq(Bytes), NEW name \in Seq(Bytes), NEW value \in Seq(Bytes),
         Len(line) = Len(name) + Len(value) + 2,
         \A i \in 1..Len(name) : line[i] = name[i] /\ name[i] \notin White \cup {":"},
         line[Len(name) + 1] = ":", line[Len(name) + 2] = "SP",
         \A i \in 1..Len(value) : line[Len(name) + 2 + i] = value[i],
         name # <<>>, Trimmed(value)
  PROVE  Header[line] = [name |-> name, value |-> value] /\ Positions(":", line) # {}
<1>1. PICK n \in Nat, v \in Nat : n = Len(name) /\ v = Len(value)
  BY LenProperties
<1>2. /\ Len(line) = n + v + 2 /\ DOMAIN line = 1..(n + v + 2)
      /\ \A i \in 1..n : line[i] = name[i] /\ name[i] \notin White \cup {":"}
      /\ line[n + 1] = ":" /\ line[n + 2] = "SP"
      /\ \A i \in 1..v : line[n + 2 + i] = value[i]
  BY <1>1, LenProperties
<1>3. Colon(line) = n + 1 /\ Positions(":", line) # {}
  <2>. DEFINE P == Positions(":", line)
  <2>1. n + 1 \in P
    BY <1>1, <1>2 DEF Positions
  <2>2. \A i \in P : i \in Nat /\ n + 1 <= i
    <3>. SUFFICES ASSUME NEW i \in P PROVE i \in Nat /\ n + 1 <= i
      OBVIOUS
    <3>1. i \in 1..(n + v + 2) /\ line[i] = ":"
      BY <1>2 DEF Positions
    <3>2. i \notin 1..n
      BY <1>2, <3>1
    <3>. QED
      BY <1>1, <3>1, <3>2
  <2>. HIDE DEF P
  <2>3. Min(P) = n + 1
    BY <1>1, <2>1, <2>2 DEF Min
  <2>. QED
    BY <2>1, <2>3 DEF Colon, P
<1>4. Header[line] = [name  |-> Trim[SubSeq(line, 1, n)],
                      value |-> Trim[SubSeq(line, n + 2, n + v + 2)]]
  <2>1. Header[line] = [name  |-> Trim[SubSeq(line, 1, Colon(line) - 1)],
                        value |-> Trim[SubSeq(line, Colon(line) + 1, Len(line))]]
    BY DEF Header, Bytes
  <2>2. Colon(line) - 1 = n /\ Colon(line) + 1 = n + 2
    BY <1>1, <1>3
  <2>. QED
    BY <1>2, <2>1, <2>2
<1>5. Trim[SubSeq(line, 1, n)] = name
  <2>. DEFINE s == SubSeq(line, 1, n)
  <2>1. s \in Seq(Bytes) /\ Len(s) = (n - 1) + 1 /\ \A i \in 1..((n - 1) + 1) : s[i] = line[(1 - 1) + i]
    <3>1. 1 \in Nat /\ 1 >= 1 /\ 1 <= n + 1 /\ n <= Len(line)
      BY <1>1, <1>2
    <3>. QED
      BY ONLY <3>1, n \in Nat, line \in Seq(Bytes), Cutting
  <2>2. \A i \in 1..n : i \in 1..((n - 1) + 1) /\ (1 - 1) + i = i /\ 0 + i = i
    BY <1>1
  <2>3. Len(s) = 0 + n /\ \A i \in 1..n : s[0 + i] = name[i]
    BY <1>1, <1>2, <2>1, <2>2
  <2>. HIDE DEF s
  <2>4. Padded(s, 0, name)
    BY <1>1, <2>1, <2>3 DEF Padded
  <2>5. Trimmed(name)
    <3>1. n # 0
      BY <1>1, EmptySeq
    <3>2. 1 \in 1..n /\ n \in 1..n
      BY <1>1, <3>1
    <3>. QED
      BY <1>1, <1>2, <3>2 DEF Trimmed
  <2>. QED
    BY <2>4, <2>5, TrimBack DEF s
<1>6. Trim[SubSeq(line, n + 2, n + v + 2)] = value
  <2>. DEFINE x == n + 2
              y == n + v + 2
              s == SubSeq(line, x, y)
  <2>1. /\ x \in Nat /\ y \in Nat /\ x >= 1 /\ x <= y + 1 /\ y <= Len(line) /\ (y - x) + 1 = 1 + v
        /\ \A i \in 1..v : (x - 1) + (1 + i) = n + 2 + i /\ 1 + i \in 1..(1 + v)
        /\ (x - 1) + 1 = n + 2 /\ 1 \in 1..(1 + v)
    BY <1>1, <1>2
  <2>. HIDE DEF x, y
  <2>2. s \in Seq(Bytes) /\ Len(s) = (y - x) + 1 /\ \A i \in 1..((y - x) + 1) : s[i] = line[(x - 1) + i]
    BY <2>1, Cutting
  <2>3. s[1] = "SP" /\ \A i \in 1..v : s[1 + i] = value[i]
    BY <1>2, <2>1, <2>2
  <2>. HIDE DEF s
  <2>4. \A i \in 1..1 : s[i] \in White
    BY <2>3 DEF White
  <2>5. Padded(s, 1, value)
    BY <1>1, <2>1, <2>2, <2>3, <2>4 DEF Padded
  <2>. QED
    BY <2>5, TrimBack DEF s, x, y
<1>. QED
  BY <1>3, <1>4, <1>5, <1>6

(* Each line of a header is read as that header.                           *)
LEMMA FieldBack ==
  ASSUME NEW r, IsRequest(r), NEW k \in 1..Len(r.headers)
  PROVE  LET line == Content(FieldOf(r.headers[k]))
         IN  /\ line \in Seq(Bytes) /\ line # <<>>
             /\ Header[line] = r.headers[k] /\ Positions(":", line) # {}
<1>. DEFINE h == r.headers[k]
            e == FieldOf(h)
            line == Content(e)
            colon == <<":", "SP">>
            crlf == <<"CR", "LF">>
<1>1. /\ h \in [name : Seq(Bytes), value : Seq(Bytes)]
      /\ Parts(e, h.name, colon, h.value, crlf)
      /\ FrontOf(e, Len(h.name) + Len(h.value) + 2)
  BY RequestParts, RequestContents
<1>2. /\ h.name # <<>> /\ Trimmed(h.value)
      /\ \A i \in 1..Len(h.name) : h.name[i] \notin White \cup {":"}
  BY NoLineEnds
<1>3. Len(colon) = 2 /\ colon[1] = ":" /\ colon[2] = "SP" /\ Len(crlf) = 2
  OBVIOUS
<1>. HIDE DEF h, e, colon, crlf
<1>4. h.name \in Seq(Bytes) /\ h.value \in Seq(Bytes) /\ h = [name |-> h.name, value |-> h.value]
  BY <1>1
<1>5. PICK name \in Seq(Bytes), value \in Seq(Bytes) : name = h.name /\ value = h.value
  BY <1>4
<1>6. PICK n \in Nat, v \in Nat : n = Len(name) /\ v = Len(value)
  BY LenProperties
<1>7. line \in Seq(Bytes) /\ Len(line) = n + v + 2 /\ \A i \in 1..(n + v + 2) : line[i] = e[i]
  BY <1>1, <1>5, <1>6 DEF FrontOf
<1>8. /\ \A i \in 1..n : e[i] = name[i]
      /\ \A i \in 1..2 : e[n + i] = colon[i]
      /\ \A i \in 1..v : e[n + 2 + i] = value[i]
  BY <1>1, <1>3, <1>5, <1>6 DEF Parts
<1>. HIDE DEF line
<1>9. /\ \A i \in 1..n : line[i] = name[i]
      /\ line[n + 1] = ":" /\ line[n + 2] = "SP"
      /\ \A i \in 1..v : line[n + 2 + i] = value[i]
  <2>1. /\ \A i \in 1..n : i \in 1..(n + v + 2)
        /\ n + 1 \in 1..(n + v + 2) /\ n + 2 \in 1..(n + v + 2) /\ 1 \in 1..2 /\ 2 \in 1..2
        /\ \A i \in 1..v : n + 2 + i \in 1..(n + v + 2)
    BY <1>6
  <2>. QED
    BY <1>3, <1>7, <1>8, <2>1
<1>10. \A i \in 1..n : line[i] = name[i] /\ name[i] \notin White \cup {":"}
  BY <1>2, <1>5, <1>6, <1>9
<1>11. Header[line] = [name |-> name, value |-> value] /\ Positions(":", line) # {}
  <2>1. name # <<>> /\ Trimmed(value)
    BY <1>2, <1>5
  <2>. QED
    BY <1>6, <1>7, <1>9, <1>10, <2>1, HeaderBack, ZenonT(40)
<1>12. line # <<>>
  BY <1>6, <1>7
<1>13. Header[line] = h
  BY <1>4, <1>5, <1>11
<1>. QED
  BY <1>7, <1>11, <1>12, <1>13 DEF h, e, line

(* The request line is taken apart at its two spaces.                      *)
LEMMA RequestLineBack ==
  ASSUME NEW r, IsRequest(r)
  PROVE  LET line   == Content(FirstOf(r))
             spaces == Positions("SP", line)
             space1 == Min(spaces)
             space2 == Min(spaces \ {space1})
         IN  /\ ~(Cardinality(spaces) < 2)
             /\ SubSeq(line, 1, space1 - 1) = r.method
             /\ SubSeq(line, space1 + 1, space2 - 1) = r.path
<1>. DEFINE e == FirstOf(r)
            line == Content(e)
            spaces == Positions("SP", line)
            space1 == Min(spaces)
            space2 == Min(spaces \ {space1})
            sp == <<"SP">>
            version == <<"SP", "http/1.1", "CR", "LF">>
<1>1. /\ Parts(e, r.method, sp, r.path, version)
      /\ FrontOf(e, Len(r.method) + Len(r.path) + 3)
  BY RequestParts, RequestContents
<1>2. /\ \A i \in 1..Len(r.method) : r.method[i] \notin White
      /\ \A i \in 1..Len(r.path) : r.path[i] \notin White
  BY NoLineEnds
<1>3. Len(sp) = 1 /\ sp[1] = "SP" /\ Len(version) = 4 /\ version[1] = "SP" /\ version[2] = "http/1.1"
  OBVIOUS
<1>. HIDE DEF e, sp, version
<1>5. PICK m \in Seq(Bytes), p \in Seq(Bytes) : m = r.method /\ p = r.path
  BY <1>1 DEF Parts
<1>6. PICK a \in Nat, b \in Nat : a = Len(m) /\ b = Len(p)
  BY LenProperties
<1>7. line \in Seq(Bytes) /\ Len(line) = a + b + 3 /\ \A i \in 1..(a + b + 3) : line[i] = e[i]
  BY <1>1, <1>5, <1>6 DEF FrontOf
<1>8. /\ \A i \in 1..a : e[i] = m[i]
      /\ \A i \in 1..1 : e[a + i] = sp[i]
      /\ \A i \in 1..b : e[a + 1 + i] = p[i]
      /\ \A i \in 1..4 : e[a + 1 + b + i] = version[i]
  BY <1>1, <1>3, <1>5, <1>6 DEF Parts
<1>. HIDE DEF line
<1>9. /\ \A i \in 1..a : line[i] = m[i]
      /\ line[a + 1] = "SP"
      /\ \A i \in 1..b : line[a + 1 + i] = p[i]
      /\ line[a + b + 2] = "SP" /\ line[a + b + 3] = "http/1.1"
  <2>1. /\ \A i \in 1..a : i \in 1..(a + b + 3)
        /\ a + 1 \in 1..(a + b + 3) /\ 1 \in 1..1 /\ 1 \in 1..4 /\ 2 \in 1..4
        /\ \A i \in 1..b : a + 1 + i \in 1..(a + b + 3)
        /\ a + 1 + b + 1 = a + b + 2 /\ a + 1 + b + 2 = a + b + 3
        /\ a + b + 2 \in 1..(a + b + 3) /\ a + b + 3 \in 1..(a + b + 3)
    BY <1>6
  <2>2. e[a + 1] = "SP" /\ e[a + b + 2] = "SP" /\ e[a + b + 3] = "http/1.1"
    BY <1>3, <1>8, <2>1
  <2>. QED
    BY <1>7, <1>8, <2>1, <2>2
<1>10. DOMAIN line = 1..(a + b + 3)
  BY <1>7, LenProperties
<1>11. spaces = {a + 1, a + b + 2}
  <2>1. a + 1 \in 1..(a + b + 3) /\ a + b + 2 \in 1..(a + b + 3)
    BY <1>6
  <2>2. ASSUME NEW i \in 1..(a + b + 3), line[i] = "SP" PROVE i = a + 1 \/ i = a + b + 2
    <3>1. i \notin 1..a
      BY <1>2, <1>5, <1>6, <1>9, <2>2 DEF White
    <3>2. i - (a + 1) \notin 1..b
      <4>. SUFFICES ASSUME i - (a + 1) \in 1..b PROVE FALSE
        OBVIOUS
      <4>1. a + 1 + (i - (a + 1)) = i
        BY <1>6
      <4>2. line[a + 1 + (i - (a + 1))] = p[i - (a + 1)]
        BY <1>9
      <4>. QED
        BY <1>2, <1>5, <1>6, <2>2, <4>1, <4>2 DEF White
    <3>3. i # a + b + 3
      BY <1>9, <2>2
    <3>. QED
      BY <1>6, <3>1, <3>2, <3>3
  <2>. QED
    BY <1>9, <1>10, <2>1, <2>2 DEF Positions
<1>. HIDE DEF spaces
<1>12. Cardinality(spaces) = 2
  <2>1. a + 1 # a + b + 2
    BY <1>6
  <2>. QED
    <3>1. IsFiniteSet({a + 1}) /\ Cardinality({a + 1}) = 1
      BY FS_Singleton
    <3>2. a + b + 2 \notin {a + 1}
      BY <2>1
    <3>3. Cardinality({a + 1} \cup {a + b + 2}) = 1 + 1
      BY ONLY <3>1, <3>2, FS_AddElement
    <3>4. spaces = {a + 1} \cup {a + b + 2}
      BY <1>11
    <3>. QED
      BY <3>3, <3>4
<1>13. space1 = a + 1
  <2>1. \A i \in spaces : i \in Nat /\ a + 1 <= i
    BY <1>6, <1>11
  <2>. QED
    BY <1>6, <1>11, <2>1 DEF Min
<1>14. space2 = a + b + 2
  <2>1. spaces \ {space1} = {a + b + 2}
    BY <1>6, <1>11, <1>13
  <2>2. \A x \in Nat : Min({x}) = x
    BY DEF Min
  <2>3. a + b + 2 \in Nat
    BY <1>6
  <2>. HIDE DEF space1
  <2>. QED
    BY <2>1, <2>2, <2>3
<1>. HIDE DEF space1, space2
<1>15. SubSeq(line, 1, a) = m
  <2>. DEFINE s == SubSeq(line, 1, a)
  <2>1. s \in Seq(Bytes) /\ Len(s) = (a - 1) + 1 /\ \A i \in 1..((a - 1) + 1) : s[i] = line[(1 - 1) + i]
    <3>1. 1 \in Nat /\ 1 >= 1 /\ 1 <= a + 1 /\ a <= Len(line) /\ line \in Seq(Bytes)
      BY <1>6, <1>7
    <3>. QED
      BY ONLY <3>1, a \in Nat, Cutting
  <2>2. Len(s) = a /\ \A i \in 1..a : i \in 1..((a - 1) + 1) /\ (1 - 1) + i = i
    BY <1>6, <2>1
  <2>3. \A i \in 1..a : s[i] = m[i]
    BY <1>9, <2>1, <2>2
  <2>. HIDE DEF s
  <2>4. s = m
    BY <1>6, <2>1, <2>2, <2>3, SeqEqual
  <2>. QED
    BY <2>4 DEF s
<1>16. SubSeq(line, a + 2, a + b + 1) = p
  <2>. DEFINE x == a + 2
              y == a + b + 1
              s == SubSeq(line, x, y)
  <2>1. /\ x \in Nat /\ y \in Nat /\ x >= 1 /\ x <= y + 1 /\ y <= Len(line) /\ (y - x) + 1 = b
        /\ \A i \in 1..b : (x - 1) + i = a + 1 + i
    BY <1>6, <1>7
  <2>. HIDE DEF x, y
  <2>2. s \in Seq(Bytes) /\ Len(s) = (y - x) + 1 /\ \A i \in 1..((y - x) + 1) : s[i] = line[(x - 1) + i]
    BY <1>7, <2>1, Cutting
  <2>3. Len(s) = b /\ \A i \in 1..b : s[i] = p[i]
    BY <1>9, <2>1, <2>2, ZenonT(40)
  <2>. HIDE DEF s
  <2>4. s = p
    BY <1>6, <2>2, <2>3, SeqEqual
  <2>. QED
    BY <2>4 DEF s, x, y
<1>17. space1 - 1 = a /\ space1 + 1 = a + 2 /\ space2 - 1 = a + b + 1
  BY <1>6, <1>13, <1>14
<1>18. /\ ~(Cardinality(spaces) < 2)
       /\ SubSeq(line, 1, space1 - 1) = r.method
       /\ SubSeq(line, space1 + 1, space2 - 1) = r.path
  BY <1>5, <1>12, <1>15, <1>16, <1>17
<1>. QED
  BY <1>18 DEF space1, space2, spaces, line, e

(* What the parser splits a rendered request into.                         *)
LEMMA RequestLines ==
  ASSUME NEW r, IsRequest(r)
  PROVE  /\ Lines[Render(r)] = [k \in 1..(Len(r.headers) + 3) |-> Lines[Render(r)][k]]
         /\ Lines[Render(r)][1] = Content(FirstOf(r))
         /\ \A k \in 1..Len(r.headers) : Lines[Render(r)][k + 1] = Content(FieldOf(r.headers[k]))
         /\ Lines[Render(r)][Len(r.headers) + 2] = <<>>
         /\ Lines[Render(r)][Len(r.headers) + 3] = <<>>
<1>. DEFINE n == Len(r.headers)
            q == LinesOf(r)
            ls == Lines[Render(r)]
<1>1. n \in Nat /\ Len(q) = n + 2 /\ \E off : Lined(off, q, Render(r))
  BY RequestParts, RequestIsLined
<1>2. ls = [k \in 1..(Len(q) + 1) |-> IF k = Len(q) + 1 THEN <<>> ELSE Content(q[k])]
  <2>. HIDE DEF q
  <2>. QED
    BY <1>1, LinesBack
<1>3. \A k \in 1..(n + 2) :
        q[k] = IF k = 1 THEN FirstOf(r) ELSE IF k = n + 2 THEN <<"CR", "LF">> ELSE FieldOf(r.headers[k - 1])
  BY DEF LinesOf
<1>. HIDE DEF n, q, ls
<1>4. ls = [k \in 1..(n + 3) |-> IF k = n + 3 THEN <<>> ELSE Content(q[k])]
  <2>1. Len(q) + 1 = n + 3
    BY <1>1
  <2>. QED
    BY <1>2, <2>1
<1>5. ls[1] = Content(FirstOf(r))
  <2>1. 1 \in 1..(n + 3) /\ 1 # n + 3 /\ 1 \in 1..(n + 2)
    BY <1>1
  <2>. QED
    BY <1>3, <1>4, <2>1
<1>6. ASSUME NEW k \in 1..n PROVE ls[k + 1] = Content(FieldOf(r.headers[k]))
  <2>1. k + 1 \in 1..(n + 3) /\ k + 1 # n + 3 /\ k + 1 \in 1..(n + 2) /\ k + 1 # 1 /\ k + 1 # n + 2
        /\ (k + 1) - 1 = k
    BY <1>1
  <2>2. q[k + 1] = FieldOf(r.headers[k])
    BY <1>3, <2>1
  <2>3. ls[k + 1] = Content(q[k + 1])
    BY <1>4, <2>1
  <2>. QED
    BY <2>2, <2>3
<1>7. ls[n + 2] = <<>> /\ ls[n + 3] = <<>>
  <2>1. n + 2 \in 1..(n + 3) /\ n + 2 # n + 3 /\ n + 2 # 1 /\ n + 2 \in 1..(n + 2) /\ n + 3 \in 1..(n + 3)
    BY <1>1
  <2>2. Content(<<"CR", "LF">>) = <<>>
    <3>1. Len(<<"CR", "LF">>) = 2
      OBVIOUS
    <3>2. Content(<<"CR", "LF">>) = SubSeq(<<"CR", "LF">>, 1, 0)
      BY <3>1 DEF Content
    <3>. QED
      BY <3>2
  <2>. QED
    BY <1>3, <1>4, <2>1, <2>2
<1>8. ls = [k \in 1..(n + 3) |-> ls[k]]
  BY <1>4
<1>. QED
  BY <1>5, <1>6, <1>7, <1>8 DEF ls, n

(* A request that is rendered is refused or read back as it is; then one   *)
(* of its headers is the upgrade to spdy/3.1.                              *)
LEMMA ParseBack ==
  ASSUME NEW r, IsRequest(r), "error" \notin DOMAIN ParseHttpRequest[Render(r)]
  PROVE  /\ ParseHttpRequest[Render(r)] = r
         /\ \E k \in DOMAIN r.headers :
              r.headers[k] = [name |-> <<"upgrade">>, value |-> <<"spdy/3.1">>]
<1>. DEFINE n == Len(r.headers)
            text == Render(r)
            lines   == Lines[text]
            blanks  == {k \in 2..Len(lines) : lines[k] = <<>>}
            fields  == SubSeq(lines, 2, Min(blanks \cup {Len(lines) + 1}) - 1)
            headers == [k \in DOMAIN fields |-> Header[fields[k]]]
            spaces  == Positions("SP", lines[1])
            space1  == Min(spaces)
            space2  == Min(spaces \ {space1})
            wrong   == \/ Cardinality(spaces) < 2
                       \/ \E k \in DOMAIN fields :
                            Positions(":", fields[k]) = {} \/ ~ValidHeader(headers[k])
                       \/ ~\E k \in DOMAIN fields : IsUpgrade(headers[k])
            method  == SubSeq(lines[1], 1, space1 - 1)
            path    == SubSeq(lines[1], space1 + 1, space2 - 1)
<1>1. text \in Seq(Bytes)
  BY RequestIsLined
<1>2. ParseHttpRequest[text] = IF wrong THEN [error |-> "protocol"]
                               ELSE [method |-> method, path |-> path, headers |-> headers]
  BY <1>1 DEF ParseHttpRequest, Bytes
<1>3. /\ n \in Nat /\ DOMAIN r.headers = 1..n
      /\ r.headers \in Seq([name : Seq(Bytes), value : Seq(Bytes)])
      /\ \A k \in 1..n : r.headers[k] \in [name : Seq(Bytes), value : Seq(Bytes)]
      /\ r = [method |-> r.method, path |-> r.path, headers |-> r.headers]
  BY RequestParts DEF IsRequest, Bytes
<1>4. /\ lines = [k \in 1..(n + 3) |-> lines[k]]
      /\ lines[1] = Content(FirstOf(r))
      /\ \A k \in 1..n : lines[k + 1] = Content(FieldOf(r.headers[k]))
      /\ lines[n + 2] = <<>> /\ lines[n + 3] = <<>>
  BY RequestLines
<1>5. \A k \in 1..n : LET line == Content(FieldOf(r.headers[k]))
                      IN  /\ line \in Seq(Bytes) /\ line # <<>>
                          /\ Header[line] = r.headers[k] /\ Positions(":", line) # {}
  BY FieldBack
<1>6. method = r.method /\ path = r.path
  BY <1>4, RequestLineBack
<1>. HIDE DEF n, method, path, lines, spaces
<1>7. Len(lines) = n + 3 /\ lines \in Seq(Seq(Bytes))
  <2>. DEFINE Q == Seq(Bytes)
              g(k) == lines[k]
  <2>1. \A k \in 1..(n + 3) : g(k) \in Q
    <3>. SUFFICES ASSUME NEW k \in 1..(n + 3) PROVE lines[k] \in Seq(Bytes)
      OBVIOUS
    <3>1. CASE k = 1
      BY <1>4, <3>1, RequestContents, ZenonT(40) DEF FrontOf
    <3>2. CASE k - 1 \in 1..n
      <4>1. (k - 1) + 1 = k
        OBVIOUS
      <4>2. lines[(k - 1) + 1] = Content(FieldOf(r.headers[k - 1]))
        BY <1>4, <3>2
      <4>. QED
        BY <1>5, <3>2, <4>1, <4>2
    <3>3. CASE k = n + 2 \/ k = n + 3
      <4>1. <<>> \in Seq(Bytes)
        OBVIOUS
      <4>. QED
        BY <1>4, <3>3, <4>1
    <3>4. k = 1 \/ k - 1 \in 1..n \/ k = n + 2 \/ k = n + 3
      BY <1>3, SMTT(30)
    <3>. QED
      BY <3>1, <3>2, <3>3, <3>4
  <2>2. lines = [k \in 1..(n + 3) |-> g(k)]
    BY <1>4
  <2>. HIDE DEF Q, g
  <2>3. lines \in Seq(Q) /\ Len(lines) = n + 3
    <3>. DEFINE m == n + 3
    <3>1. m \in Nat
      BY <1>3
    <3>2. lines = [k \in 1..m |-> g(k)] /\ \A k \in 1..m : g(k) \in Q
      BY <2>1, <2>2
    <3>. HIDE DEF m
    <3>3. lines \in Seq(Q) /\ Len(lines) = m
      BY ONLY <3>1, <3>2
    <3>. QED
      BY <3>3 DEF m
  <2>. QED
    BY <2>3 DEF Q
<1>8. Min(blanks \cup {Len(lines) + 1}) = n + 2
  <2>. DEFINE B == blanks \cup {Len(lines) + 1}
  <2>1. n + 2 \in B
    <3>1. n + 2 \in 2..(n + 3)
      BY <1>3
    <3>. QED
      BY <1>4, <1>7, <3>1
  <2>2. ASSUME NEW k \in B PROVE k \in Nat /\ n + 2 <= k
    <3>1. CASE k = Len(lines) + 1
      BY <1>3, <1>7, <3>1
    <3>2. CASE k \in 2..(n + 3) /\ lines[k] = <<>>
      <4>1. k - 1 \notin 1..n
        <5>. SUFFICES ASSUME k - 1 \in 1..n PROVE FALSE
          OBVIOUS
        <5>1. (k - 1) + 1 = k
          BY <3>2
        <5>2. lines[(k - 1) + 1] = Content(FieldOf(r.headers[k - 1]))
          BY <1>4
        <5>. QED
          BY <1>5, <3>2, <5>1, <5>2
      <4>. QED
        BY <1>3, <3>2, <4>1, SMTT(30)
    <3>. QED
      BY <1>7, <3>1, <3>2
  <2>. HIDE DEF B
  <2>3. n + 2 \in Nat
    BY <1>3
  <2>4. Min(B) = n + 2
    BY <2>1, <2>2, <2>3 DEF Min
  <2>. QED
    BY <2>4 DEF B
<1>9. fields = SubSeq(lines, 2, n + 1)
  <2>1. (n + 2) - 1 = n + 1
    BY <1>3
  <2>. HIDE DEF blanks
  <2>. QED
    BY <1>8, <2>1
<1>. HIDE DEF fields
<1>10. DOMAIN fields = 1..n /\ \A k \in 1..n : fields[k] = Content(FieldOf(r.headers[k]))
  <2>. DEFINE a == n + 1
              Q == Seq(Bytes)
  <2>1. lines \in Seq(Q) /\ a \in Nat /\ a <= Len(lines) /\ Len(lines) \in Nat
    BY <1>3, <1>7
  <2>. HIDE DEF a, Q
  <2>2. /\ SubSeq(lines, 2, a) \in Seq(Q)
        /\ Len(SubSeq(lines, 2, a)) = IF 2 <= a THEN a - 2 + 1 ELSE 0
        /\ \A i \in 1..(a - 2 + 1) : SubSeq(lines, 2, a)[i] = lines[2 + i - 1]
    <3>1. \A i \in 2..a : i \in 1..Len(lines)
      BY <2>1
    <3>. QED
      BY <2>1, <3>1, SubSeqProperties
  <2>3. Len(fields) = n /\ \A i \in 1..n : i \in 1..(a - 2 + 1) /\ 2 + i - 1 = i + 1
    <3>1. a = n + 1 /\ n \in Nat
      BY <1>3 DEF a
    <3>2. Len(fields) = IF 2 <= a THEN a - 2 + 1 ELSE 0
      BY <1>9, <2>2 DEF a
    <3>. QED
      BY ONLY <3>1, <3>2
  <2>4. \A i \in 1..n : fields[i] = lines[i + 1]
    BY <1>9, <2>2, <2>3 DEF a
  <2>5. DOMAIN fields = 1..n
    <3>1. fields \in Seq(Q)
      BY <1>9, <2>2 DEF a
    <3>. QED
      BY <2>3, <3>1, LenProperties
  <2>. QED
    BY <1>4, <2>4, <2>5
<1>11. headers = r.headers
  <2>1. headers = [k \in 1..n |-> Header[fields[k]]]
    BY <1>10
  <2>2. \A k \in 1..n : Header[fields[k]] = r.headers[k]
    BY <1>5, <1>10
  <2>3. r.headers = [k \in 1..n |-> r.headers[k]]
    BY <1>3
  <2>. QED
    BY <2>1, <2>2, <2>3
<1>. HIDE DEF headers
<1>12. ~wrong
  <2>1. "error" \in DOMAIN [error |-> "protocol"]
    OBVIOUS
  <2>. HIDE DEF wrong
  <2>. QED
    BY <1>2, <2>1
<1>13. ParseHttpRequest[text] = r
  <2>. HIDE DEF wrong
  <2>. QED
    BY <1>2, <1>3, <1>6, <1>11, <1>12
<1>14. PICK k \in 1..n : IsUpgrade(r.headers[k])
  BY <1>10, <1>11, <1>12
<1>15. r.headers[k] = [name |-> <<"upgrade">>, value |-> <<"spdy/3.1">>]
  <2>1. r.headers[k] = [name |-> r.headers[k].name, value |-> r.headers[k].value]
    BY <1>3
  <2>. QED
    BY <1>14, <2>1 DEF IsUpgrade
<1>. QED
  BY <1>3, <1>13, <1>15

(* An accepted request is what the parser makes of all that was read.      *)
ResultInv == Accepted => result = ParseHttpRequest[buf] /\ "error" \notin DOMAIN result

LEMMA ResultStep == ResultInv /\ [Next]_vars => ResultInv'
<1>. SUFFICES ASSUME ResultInv, [Next]_vars, Accepted'
              PROVE  result' = ParseHttpRequest[buf'] /\ "error" \notin DOMAIN result'
  BY DEF ResultInv
<1>1. CASE ReadByte
  <2>. DEFINE parsed == IF "not-utf8" \in Range(buf') THEN [error |-> "protocol"]
                                                      ELSE ParseHttpRequest[buf']
  <2>1. phase' # "failed" /\ phase' # "reading"
    BY DEF Accepted
  <2>2. \/ /\ result' = parsed
           /\ phase' = IF "error" \in DOMAIN parsed THEN "failed" ELSE "responding"
        \/ phase' = "failed"
        \/ phase' = phase /\ phase = "reading"
    BY <1>1 DEF ReadByte, Fail
  <2>. HIDE DEF parsed
  <2>3. result' = parsed /\ "error" \notin DOMAIN parsed
    BY <2>1, <2>2
  <2>4. "error" \in DOMAIN [error |-> "protocol"]
    OBVIOUS
  <2>5. parsed = ParseHttpRequest[buf']
    BY <2>3, <2>4 DEF parsed
  <2>. QED
    BY <2>3, <2>5
<1>2. CASE Respond
  BY <1>2 DEF Respond, Accepted, ResultInv
<1>3. CASE ReadEof \/ RespondFail
  BY <1>3 DEF ReadEof, RespondFail, Fail, Accepted
<1>4. CASE ClientSend \/ ClientLeave \/ UNCHANGED vars
  BY <1>4 DEF ClientSend, ClientLeave, vars, Accepted, ResultInv
<1>. QED
  BY <1>1, <1>2, <1>3, <1>4 DEF Next

LEMMA ResultInvariant == Spec => []ResultInv
<1>1. Init => ResultInv
  BY DEF Init, ResultInv, Accepted
<1>. QED
  BY <1>1, ResultStep, PTL DEF Spec

(* Of every well-formed request, whatever its method, path and headers and *)
(* however its bytes arrive: if accept takes it, what it works with is     *)
(* that request, and one of its headers is the upgrade to spdy/3.1.        *)
THEOREM RequestReadBack == Spec => []RequestIsTheClients
<1>1. UpgradeInv /\ ResultInv => RequestIsTheClients
  <2>. SUFFICES ASSUME UpgradeInv, ResultInv, Accepted, NEW r \in client.requests
                PROVE  /\ result = r
                       /\ \E k \in DOMAIN r.headers :
                            r.headers[k] = [name |-> <<"upgrade">>, value |-> <<"spdy/3.1">>]
    BY DEF RequestIsTheClients
  <2>. DEFINE text == Render(r)
              q == LinesOf(r)
  <2>1. IsRequest(r) /\ client.text = text
    BY RequestsAssumption DEF UpgradeInv, TypeInv
  <2>2. PICK off : Lined(off, q, text)
    BY <2>1, RequestIsLined
  <2>3. OneBlank(q) /\ text \in Seq(Bytes)
    BY <2>1, RequestIsLined
  <2>. HIDE DEF text, q
  <2>4. CrLfOnly(text) /\ BlankLines(text) = {Len(text)}
    BY <2>2, <2>3, BlankAtEnd
  <2>5. /\ buf = SubSeq(text, 1, Len(buf)) /\ BlankLines(buf) = {Len(buf)}
        /\ Len(buf) <= Len(text)
    BY <2>1, <2>4, SpdyLeft
  <2>6. buf \in Seq(Bytes) /\ Len(buf) \in Nat /\ Len(text) \in Nat
    BY <2>3, LenProperties DEF UpgradeInv, TypeInv
  <2>7. Len(buf) \in BlankLines(text)
    <3>. DEFINE n == Len(buf)
    <3>1. n \in 4..Len(buf) /\ SubSeq(buf, n - 3, n) = BlankLine
      BY <2>5 DEF BlankLines
    <3>2. buf[n - 3] = "CR" /\ buf[n - 2] = "LF" /\ buf[n - 1] = "CR" /\ buf[n] = "LF"
      BY <2>6, <3>1, BlankLineBytes
    <3>3. \A i \in 1..n : buf[i] = text[i]
      <4>1. /\ Len(SubSeq(text, 1, n)) = (n - 1) + 1
            /\ \A i \in 1..((n - 1) + 1) : SubSeq(text, 1, n)[i] = text[(1 - 1) + i]
        <5>1. 1 \in Nat /\ 1 >= 1 /\ 1 <= n + 1 /\ n <= Len(text) /\ n \in Nat
          BY <2>5, <2>6
        <5>. HIDE DEF n
        <5>. QED
          BY ONLY <2>3, <5>1, Cutting
      <4>2. \A i \in 1..n : i \in 1..((n - 1) + 1) /\ (1 - 1) + i = i
        BY <2>6
      <4>. QED
        BY <2>5, <4>1, <4>2
    <3>4. /\ n - 3 \in 1..n /\ n - 2 \in 1..n /\ n - 1 \in 1..n /\ n \in 1..n
          /\ n \in 4..Len(text)
      BY <2>5, <2>6, <3>1
    <3>5. text[n - 3] = "CR" /\ text[n - 2] = "LF" /\ text[n - 1] = "CR" /\ text[n] = "LF"
      BY <3>2, <3>3, <3>4
    <3>6. SubSeq(text, n - 3, n) = BlankLine
      BY <2>3, <3>4, <3>5, BlankLineBytes
    <3>. QED
      BY <3>4, <3>6 DEF BlankLines
  <2>8. buf = text
    <3>1. Len(buf) = Len(text)
      BY <2>4, <2>7
    <3>2. SubSeq(text, 1, Len(text)) = text
      BY <2>3
    <3>. QED
      BY <2>5, <3>1, <3>2
  <2>9. result = ParseHttpRequest[text] /\ "error" \notin DOMAIN ParseHttpRequest[text]
    BY <2>8 DEF ResultInv
  <2>. QED
    BY <2>1, <2>9, ParseBack DEF text
<1>. QED
  BY <1>1, UpgradeInvariant, ResultInvariant, PTL
=============================================================================
