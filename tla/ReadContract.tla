---------------------------- MODULE ReadContract ----------------------------
(***************************************************************************)
(* What the receive half of a stream promises to the tasks that call       *)
(* read_data: however many there are, each call is as if it were one step, *)
(* which takes the first chunk of a bounded queue, or reports the end, or  *)
(* is given up and takes nothing.  StreamRecv implements it.               *)
(***************************************************************************)
EXTENDS Naturals, Sequences, Functions

CONSTANTS
  Readers,    (* the tasks                                                  *)
  Cap         (* capacity of the queue                                      *)

VARIABLES
  pushed,     (* chunks that arrived so far                                 *)
  queue,      (* those to be read, by number                                *)
  delivered,  (* those that were read, in order                             *)
  closed,     (* the client has closed the stream                           *)
  calling,    (* the tasks in a call                                        *)
  mark,       (* the value of `pushed` when each task's last call began     *)
  answer      (* what each task's last call came to                         *)

vars == <<pushed, queue, delivered, closed, calling, mark, answer>>

Init ==
  /\ pushed = 0 /\ queue = <<>> /\ delivered = <<>> /\ closed = FALSE
  /\ calling = {} /\ mark = [r \in Readers |-> 0]
  /\ answer = [r \in Readers |-> "none"]

(* A chunk arrives and is dropped only if there is no room for it.         *)
Arrive ==
  /\ pushed' = pushed + 1
  /\ queue' = IF Len(queue) < Cap THEN Append(queue, pushed + 1) ELSE queue
  /\ UNCHANGED <<delivered, closed, calling, mark, answer>>

Close ==
  /\ closed' = TRUE
  /\ UNCHANGED <<pushed, queue, delivered, calling, mark, answer>>

Call(r) ==
  /\ r \notin calling
  /\ calling' = calling \cup {r}
  /\ mark' = [mark EXCEPT ![r] = pushed]
  /\ UNCHANGED <<pushed, queue, delivered, closed, answer>>

Answer(r, what) ==
  /\ r \in calling
  /\ calling' = calling \ {r}
  /\ answer' = [answer EXCEPT ![r] = what]
  /\ UNCHANGED <<pushed, closed, mark>>

(* The call returns the chunk that has waited longest.                     *)
Chunk(r) ==
  /\ queue # <<>>
  /\ delivered' = Append(delivered, Head(queue))
  /\ queue' = Tail(queue)
  /\ Answer(r, "data")

(* The call returns None: the client has closed, and what there was when   *)
(* the call began has been read.                                           *)
End(r) ==
  /\ closed
  /\ \A n \in Range(queue) : n > mark[r]
  /\ Answer(r, "eof")
  /\ UNCHANGED <<queue, delivered>>

(* The call is dropped before it is ready; no chunk is lost.               *)
GiveUp(r) ==
  /\ Answer(r, "cancelled")
  /\ UNCHANGED <<queue, delivered>>

Next ==
  \/ Arrive \/ Close
  \/ \E r \in Readers : Call(r) \/ Chunk(r) \/ End(r) \/ GiveUp(r)

Spec == Init /\ [][Next]_vars
=============================================================================
