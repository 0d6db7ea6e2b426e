---------------------------- MODULE MCStreamSend ----------------------------
(* Instances of StreamSend for TLC.                                        *)
EXTENDS StreamSend, TLC

CONSTANTS t1, t2

OneTask  == {t1}
TwoTasks == {t1, t2}
=============================================================================
