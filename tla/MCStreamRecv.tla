---------------------------- MODULE MCStreamRecv ----------------------------
(* Instances of StreamRecv for TLC.                                        *)
EXTENDS StreamRecv, TLC

CONSTANTS r1, r2

OneReader  == {r1}
TwoReaders == {r1, r2}
=============================================================================
