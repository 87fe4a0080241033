---------------------------- MODULE MCVideoTasks ----------------------------
(* Instances of VideoTasks: every task on a channel of its own.              *)
EXTENDS VideoTasks

CONSTANTS t1, c1, c2

MCChannelId == [t \in Tasks |-> IF t = t1 THEN c1 ELSE c2]
AllFaults == {"insert", "query", "refund", "update", "crash"}
=============================================================================
