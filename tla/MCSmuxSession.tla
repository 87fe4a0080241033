---------------------------- MODULE MCSmuxSession ----------------------------
(* Instances of SmuxSession: stream 0 is opened by the server and stream 1 by *)
(* the client.                                                                *)
EXTENDS SmuxSession

Setup(v, w, l, c0, s0, c1, s1, r) ==
    [version |-> [client |-> v, server |-> w], last |-> l, rare |-> r,
     units |-> [e \in Ends |-> [s \in Sids |->
                 IF e = "client" THEN IF s = 0 THEN c0 ELSE c1
                                 ELSE IF s = 0 THEN s0 ELSE s1]]]

\* Two streams that carry data to the server and that nothing disturbs; one with a
\* request, an answer of three units and a rare event, in version 2 one of both; one
\* on which both ends write more than the channels hold; one with so many updates that
\* they overtake each other; and ends of different versions.
MCSetups ==
    {Setup(1, 1, 1, 2, 0, 1, 0, 0), Setup(1, 1, 0, 3, 1, 0, 0, 1),
     Setup(1, 1, 0, 5, 5, 0, 0, 0),
     Setup(2, 2, 0, 3, 1, 0, 0, 0), Setup(2, 2, 0, 3, 0, 0, 0, 1),
     Setup(2, 2, 0, 5, 0, 0, 0, 0),
     Setup(1, 2, 0, 1, 1, 0, 0, 1)}
==============================================================================
