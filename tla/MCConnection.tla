---------------------------- MODULE MCConnection ----------------------------
(* Instances of Connection for TLC.                                        *)
EXTENDS Connection, TLC

CONSTANTS c1, c2

ClosersOne == {c1}
ClosersTwo == {c1, c2}

Ids == {1, 2, 3}
OddIds == {1, 3}

Shape(types, ids, fins) == [type : types, id : ids, fin : fins]

(* Every type of frame the client can send, on few ids.                    *)
AllFrames ==
  Shape({"SynStream"}, Ids, {FALSE}) \cup Shape({"Data"}, {1, 3}, BOOLEAN)
    \cup Shape({"SynReply"}, {1}, {TRUE}) \cup Shape({"RstStream"}, {1, 3}, {FALSE})
    \cup Shape({"Headers"}, {1}, BOOLEAN) \cup Shape({"Ping"}, {1, 2}, {FALSE})
    \cup Shape({"GoAway", "Settings", "WindowUpdate"}, {1}, {FALSE})

(* Opening, feeding and resetting streams: what close() and the workers    *)
(* race with.                                                              *)
StreamFrames ==
  Shape({"SynStream"}, OddIds, {FALSE}) \cup Shape({"Data"}, OddIds, {TRUE})
    \cup Shape({"RstStream"}, OddIds, {FALSE})

SynFrames == Shape({"SynStream"}, OddIds, {FALSE})
=============================================================================
