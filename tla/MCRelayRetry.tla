---------------------------- MODULE MCRelayRetry ----------------------------
(* Instances of RelayRetry: a primary group with a preferred channel that   *)
(* maps its model, and a backup group that shares one channel with it.      *)
EXTENDS RelayRetry

CONSTANTS c1, c2, c3, m1, m2

MCMembers == [g \in Groups |-> IF g = "primary" THEN {c1, c2} ELSE {c2, c3}]
MCPriority == [c \in Channels |-> IF c = c1 THEN 1 ELSE 0]
MCNewModel == [c \in Channels |-> [m \in Models |-> IF c = c1 THEN m2 ELSE m]]
MCUnsuitable == [r \in Requests |-> {}]
=============================================================================
