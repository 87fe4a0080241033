-------------------------- MODULE MCTokiameClient --------------------------
(* An instance of TokiameClient: two failures where everything can happen,    *)
(* fewer where a configuration leaves out a transport.                       *)
EXTENDS TokiameClient

Setup(m, q, f) == [mode |-> m, quicWorks |-> q, faults |-> f]

MCSetups ==
    {Setup("auto", TRUE, 2), Setup("auto", FALSE, 1), Setup("websocket", FALSE, 1),
     Setup("quic", TRUE, 1), Setup("quic", FALSE, 0)}
=============================================================================
