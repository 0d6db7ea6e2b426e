------------------------------ MODULE Upgrade -------------------------------
(***************************************************************************)
(* The HTTP upgrade in front of a connection, src/src/server.rs: accept    *)
(* reads the request byte by byte, parses it, answers 101 and hands the    *)
(* socket to Connection::serve.  The client sends its request and, without *)
(* waiting for the answer if it likes, SPDY bytes behind it, and may go    *)
(* away at any byte.                                                       *)
(*                                                                         *)
(* A byte is "CR", "LF", "SP", ":" or a word; a word stands for a run of   *)
(* other characters and counts as one byte.  Words are compared without    *)
(* regard to case in the code and are lower case here.                     *)
(***************************************************************************)
EXTENDS Integers, Sequences, FiniteSets, SequencesExt

CONSTANTS
  Clients,    (* what clients send: the request and what follows it, byte   *)
              (* sequences `text` and `spdy`, and `requests`: the request   *)
              (* that the text renders, if it renders one                   *)
  MaxRequest  (* the limit on a request: 8192 in the code                   *)

White == {"SP", "CR", "LF"}

(* The last conjunct tells the provers that a literal is a string.         *)
ASSUME UpgradeAssumption ==
  /\ MaxRequest \in Nat
  /\ \A c \in Clients : c.text \in Seq(STRING) /\ c.spdy \in Seq(STRING)
  /\ White \cup {":", "http/1.1"} \subseteq STRING

(* A request of HTTP: no white space in its method, path and names, no     *)
(* line ends in its values and no white space around them.                 *)
Token(s)   == s \in Seq(STRING) /\ \A i \in DOMAIN s : s[i] \notin White
Trimmed(s) == s = <<>> \/ (s[1] \notin White /\ s[Len(s)] \notin White)
IsRequest(r) ==
  /\ r = [method |-> r.method, path |-> r.path, headers |-> r.headers]
  /\ Token(r.method) /\ Token(r.path)
  /\ r.headers \in Seq([name : Seq(STRING), value : Seq(STRING)])
  /\ \A k \in DOMAIN r.headers :
       LET h == r.headers[k]
       IN  /\ h.name # <<>> /\ Token(h.name) /\ (\A i \in DOMAIN h.name : h.name[i] # ":")
           /\ Trimmed(h.value) /\ \A i \in DOMAIN h.value : h.value[i] \notin {"CR", "LF"}

(* What a client sends for it.                                             *)
Render(r) ==
  r.method \o <<"SP">> \o r.path \o <<"SP", "http/1.1", "CR", "LF">>
  \o FlattenSeq([k \in DOMAIN r.headers |->
       r.headers[k].name \o <<":", "SP">> \o r.headers[k].value \o <<"CR", "LF">>])
  \o <<"CR", "LF">>

ASSUME RequestsAssumption ==
  \A c \in Clients : \A r \in c.requests : IsRequest(r) /\ c.text = Render(r)

VARIABLES
  client,     (* the client: its request and the SPDY bytes that follow     *)
  sent,       (* how many of its bytes it has sent                          *)
  clientOpen, (* it has not gone away                                       *)
  buf,        (* the bytes parse_upgrade_request has read                   *)
  run,        (* consecutive_crlf                                           *)
  phase,      (* "reading", "responding", "serving" or "failed"             *)
  result      (* the UpgradeRequest parsed, or the error accept returned    *)

vars == <<client, sent, clientOpen, buf, run, phase, result>>
clientVars == <<client, sent, clientOpen>>

Stream == client.text \o client.spdy

Init ==
  /\ client \in Clients
  /\ sent = 0 /\ clientOpen = TRUE
  /\ buf = <<>> /\ run = 0 /\ phase = "reading" /\ result = <<>>

----------------------------------------------------------------------------
(* parse_http_request.                                                     *)

Trim[s \in Seq(STRING)] ==
  LET black == {i \in DOMAIN s : s[i] \notin White}
  IN  IF black = {} THEN <<>> ELSE SubSeq(s, Min(black), Max(black))

(* text.split("\r\n")                                                      *)
Lines[text \in Seq(STRING)] ==
  LET cuts   == {-1, Len(text) + 1} \cup
                {i \in 1..(Len(text) - 1) : text[i] = "CR" /\ text[i + 1] = "LF"}
      Cut(k) == CHOOSE c \in cuts : Cardinality({d \in cuts : d < c}) = k - 1
  IN  [k \in 1..(Cardinality(cuts) - 1) |-> SubSeq(text, Cut(k) + 2, Cut(k + 1) - 1)]

Positions(b, line) == {i \in DOMAIN line : line[i] = b}

Colon(line) == Min(Positions(":", line))
Header[line \in Seq(STRING)] ==
  [name  |-> Trim[SubSeq(line, 1, Colon(line) - 1)],
   value |-> Trim[SubSeq(line, Colon(line) + 1, Len(line))]]

(* HeaderName::from_bytes takes a token, HeaderValue::from_str no control  *)
(* characters.                                                             *)
ValidHeader(h) ==
  /\ h.name # <<>> /\ \A i \in DOMAIN h.name : h.name[i] \notin White \cup {":"}
  /\ \A i \in DOMAIN h.value : h.value[i] \notin {"CR", "LF"}

IsUpgradeToAnything(h) == h.name = <<"upgrade">>

IsUpgrade(h) == h.name = <<"upgrade">> /\ h.value = <<"spdy/3.1">>

ParseHttpRequest[text \in Seq(STRING)] ==
  LET lines   == Lines[text]
      blanks  == {k \in 2..Len(lines) : lines[k] = <<>>}
      fields  == SubSeq(lines, 2, Min(blanks \cup {Len(lines) + 1}) - 1)
      headers == [k \in DOMAIN fields |-> Header[fields[k]]]
      spaces  == Positions("SP", lines[1])
      space1  == Min(spaces)
      space2  == Min(spaces \ {space1})
  IN  IF \/ Cardinality(spaces) < 2
         \/ \E k \in DOMAIN fields : Positions(":", fields[k]) = {} \/ ~ValidHeader(headers[k])
         \/ ~\E k \in DOMAIN fields : IsUpgrade(headers[k])
      THEN [error |-> "protocol"]
      ELSE [method  |-> SubSeq(lines[1], 1, space1 - 1),
            path    |-> SubSeq(lines[1], space1 + 1, space2 - 1),
            headers |-> headers]

----------------------------------------------------------------------------
(* accept.                                                                 *)

Fail(kind) == phase' = "failed" /\ result' = [error |-> kind]

(* consecutive_crlf is not reset by other bytes.                           *)
ReadByteRunNotReset ==
  LET b    == Stream[Len(buf) + 1]
      text == Append(buf, b)
  IN  /\ phase = "reading" /\ Len(buf) < sent
      /\ buf' = text
      /\ run' = IF b \in {"CR", "LF"} THEN run + 1 ELSE run
      /\ IF run' = 4
         THEN LET parsed == ParseHttpRequest[text]
              IN  /\ result' = parsed
                  /\ phase' = IF "error" \in DOMAIN parsed THEN "failed" ELSE "responding"
         ELSE IF Len(text) > MaxRequest THEN Fail("too_large")
         ELSE UNCHANGED <<phase, result>>
      /\ UNCHANGED clientVars

(* The size is looked at before the end.                                   *)
ReadByteSizeFirst ==
  LET b    == Stream[Len(buf) + 1]
      text == Append(buf, b)
  IN  /\ phase = "reading" /\ Len(buf) < sent
      /\ buf' = text
      /\ run' = IF b \in {"CR", "LF"} THEN run + 1 ELSE 0
      /\ IF Len(text) > MaxRequest THEN Fail("too_large")
         ELSE IF run' = 4
         THEN LET parsed == ParseHttpRequest[text]
              IN  /\ result' = parsed
                  /\ phase' = IF "error" \in DOMAIN parsed THEN "failed" ELSE "responding"
         ELSE UNCHANGED <<phase, result>>
      /\ UNCHANGED clientVars

(* One turn of the loop of parse_upgrade_request, and the parse after the  *)
(* last: the end is looked for before the size.                            *)
ReadByte ==
  LET b    == Stream[Len(buf) + 1]
      text == Append(buf, b)
  IN  /\ phase = "reading" /\ Len(buf) < sent
      /\ buf' = text
      /\ run' = IF b \in {"CR", "LF"} THEN run + 1 ELSE 0
      /\ IF run' = 4
         THEN LET parsed == IF "not-utf8" \in Range(text) THEN [error |-> "protocol"]
                                                          ELSE ParseHttpRequest[text]
              IN  /\ result' = parsed
                  /\ phase' = IF "error" \in DOMAIN parsed THEN "failed" ELSE "responding"
         ELSE IF Len(text) > MaxRequest THEN Fail("too_large")
         ELSE UNCHANGED <<phase, result>>
      /\ UNCHANGED clientVars

(* A read of no bytes is tried again.                                      *)
ReadEofRetry ==
  /\ phase = "reading" /\ ~clientOpen /\ Len(buf) = sent
  /\ UNCHANGED vars

ReadEof ==
  /\ phase = "reading" /\ ~clientOpen /\ Len(buf) = sent
  /\ Fail("io")
  /\ UNCHANGED <<clientVars, buf, run>>

(* send_upgrade_response, and Connection::serve on the same socket.        *)
Respond ==
  /\ phase = "responding"
  /\ phase' = "serving"
  /\ UNCHANGED <<clientVars, buf, run, result>>

RespondFail ==
  /\ phase = "responding" /\ ~clientOpen
  /\ Fail("io")
  /\ UNCHANGED <<clientVars, buf, run>>

----------------------------------------------------------------------------
(* The client.                                                             *)

ClientSend ==
  /\ clientOpen /\ sent < Len(Stream)
  /\ sent' = sent + 1
  /\ UNCHANGED <<client, clientOpen, buf, run, phase, result>>

ClientLeave ==
  /\ clientOpen
  /\ clientOpen' = FALSE
  /\ UNCHANGED <<client, sent, buf, run, phase, result>>

Next == ReadByte \/ ReadEof \/ Respond \/ RespondFail \/ ClientSend \/ ClientLeave

Spec == Init /\ [][Next]_vars

(* The task that runs accept is scheduled while it can run, and the        *)
(* transport takes the answer or fails; the client owes nothing else.      *)
Fairness == WF_vars(ReadByte) /\ WF_vars(ReadEof) /\ WF_vars(Respond)

FairSpec == Spec /\ Fairness

----------------------------------------------------------------------------
(* Properties.                                                             *)

Accepted == phase \in {"responding", "serving"}

BlankLine == <<"CR", "LF", "CR", "LF">>

(* Where the blank lines of a text end.                                    *)
BlankLines(text) == {i \in 4..Len(text) : SubSeq(text, i - 3, i) = BlankLine}

(* Lines end in CR LF, and CR and LF appear nowhere else.                  *)
CrLfOnly(text) ==
  \A i \in DOMAIN text : /\ text[i] = "CR" => i < Len(text) /\ text[i + 1] = "LF"
                         /\ text[i] = "LF" => i > 1 /\ text[i - 1] = "CR"

(* Of a client that ends its lines in CR LF and sends a blank line, accept *)
(* consumes the request up to its first blank line and not a byte more:    *)
(* the first byte the framer reads is the first the client sent behind it, *)
(* even if both were in one segment.                                       *)
SpdyUntouched ==
  Accepted /\ CrLfOnly(client.text) /\ BlankLines(client.text) # {} =>
    /\ buf = SubSeq(client.text, 1, Len(buf))
    /\ BlankLines(buf) = {Len(buf)}

(* The request accept works with is the one the client rendered: no header *)
(* lost, merged, cut short or made up, however the bytes arrived; and one  *)
(* of them asks for spdy/3.1.                                              *)
RequestIsTheClients ==
  Accepted => \A r \in client.requests :
    /\ result = r
    /\ \E k \in DOMAIN r.headers :
         r.headers[k] = [name |-> <<"upgrade">>, value |-> <<"spdy/3.1">>]

(* At most one byte more than the limit is held, and a request is too      *)
(* large only if its end is not within that.                               *)
TooLargeMeansTooLarge ==
  /\ Len(buf) <= MaxRequest + 1
  /\ result = [error |-> "too_large"] =>
       /\ Len(buf) = MaxRequest + 1
       /\ BlankLines(buf) = {}

(* accept returns once the client has gone away or has sent a request with *)
(* its blank line.  Nothing else ends it: there is no timeout.             *)
AcceptReturns ==
  (~clientOpen \/ (sent >= Len(client.text) /\ Len(client.text) \in BlankLines(client.text)))
    ~> phase \in {"serving", "failed"}
=============================================================================
