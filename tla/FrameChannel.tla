---------------------------- MODULE FrameChannel ----------------------------
(***************************************************************************)
(* What a pair of Framers promises: frames come out as they went in, in    *)
(* order, none twice, none made up, until the receiving side stops.  Junk  *)
(* stands for bytes that are no frame; nothing passes it.                  *)
(***************************************************************************)
EXTENDS Naturals, Sequences

CONSTANT Junk

VARIABLES
  sent,       (* what was put in                                            *)
  delivered,  (* what came out                                              *)
  up          (* the receiver has not stopped                               *)

vars == <<sent, delivered, up>>

Init == sent = <<>> /\ delivered = <<>> /\ up = TRUE

Send ==
  /\ Len(sent') = Len(sent) + 1 /\ SubSeq(sent', 1, Len(sent)) = sent
  /\ UNCHANGED <<delivered, up>>

Deliver ==
  LET n == Len(delivered) + 1
  IN  /\ up /\ n <= Len(sent) /\ sent[n] # Junk
      /\ delivered' = Append(delivered, sent[n])
      /\ UNCHANGED <<sent, up>>

Stop ==
  /\ up /\ up' = FALSE
  /\ UNCHANGED <<sent, delivered>>

Next == Send \/ Deliver \/ Stop

Spec == Init /\ [][Next]_vars
=============================================================================
