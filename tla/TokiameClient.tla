--------------------------- MODULE TokiameClient ---------------------------
(***************************************************************************)
(* The worker process (tokiame/client.go): the loop that dials the gateway, *)
(* registers and waits, the three goroutines of a connection, and the       *)
(* gateway's control loop with the lease on the worker's namespace.         *)
(*                                                                         *)
(* A connection is known by an id that is used again once neither side has  *)
(* anything left of it.  Goroutines of an earlier connection live on beside *)
(* the current one, as all of them run under the context of the process.    *)
(* Requests through the tunnel are in TunnelRoundTrip; rows and channels of *)
(* the worker in WorkerLifecycle.                                           *)
(***************************************************************************)
EXTENDS Naturals, Sequences

CONSTANTS Conns, None,
          Setups,      \* mode: TransportMode, "auto" where ShouldAttemptQUIC;
                       \* quicWorks: QUIC gets through to the gateway; faults:
                       \* bounds the failures of network, database and processes
          MaxQueue     \* bounds the control messages under way

ASSUME ClientAssumption ==
    /\ Conns \subseteq Nat /\ None \notin Conns
    /\ Setups \subseteq [mode : {"websocket", "quic", "auto"}, quicWorks : BOOLEAN,
                        faults : Nat]
    /\ MaxQueue \in Nat \ {0}

VARIABLES
    \* the process
    mode, quicWorks, \* of the setup
    stop,            \* the context of the process is done
    run, awaiting,   \* what Run is at; a request waits for its ack
    cur,             \* the tunnel of runOnce
    accs, recs, beats, \* connections whose goroutines are running
    errs,            \* errors in the errCh of a connection
    \* the network, per connection
    link, up, down,  \* control messages to the gateway and back
    cclosed, gclosed, \* tunnels that the client, the gateway has closed
    \* the gateway
    gs,              \* HandleGatewayConnection of a connection
    authed, worker,  \* sessions that are authenticated, that have a WorkerID
    lease,           \* who has claimed the namespace
    faults

process == <<mode, quicWorks, stop>>
main == <<run, awaiting, cur>>
goroutines == <<accs, recs, beats, errs>>
network == <<link, up, down>>
gateway == <<gs, authed, worker, lease>>
vars == <<process, main, goroutines, network, cclosed, gclosed, gateway, faults>>

Phases == {"auth", "register", "models"}
Reply(kind, p) == [kind |-> kind, of |-> p]

Messages == Phases \cup {"heartbeat"}
Replies == [kind : {"ack", "error"}, of : Messages]

RunTypes ==
    /\ mode \in {"websocket", "quic", "auto"}
    /\ quicWorks \in BOOLEAN /\ stop \in BOOLEAN
    /\ run \in Phases \cup {"dial", "fallback", "connected", "sleep", "done"}
    /\ awaiting \in BOOLEAN /\ cur \in Conns \cup {None}

GoroutineTypes ==
    /\ accs \subseteq Conns /\ recs \subseteq Conns /\ beats \subseteq Conns
    /\ errs \in [Conns -> 0..2]

LinkTypes ==
    /\ link \in [Conns -> {"none", "up", "silent", "broken"}]
    /\ cclosed \subseteq Conns /\ gclosed \subseteq Conns

MessageTypes == up \in [Conns -> Seq(Messages)] /\ down \in [Conns -> Seq(Replies)]

GatewayTypes ==
    /\ gs \in [Conns -> {"none", "serving", "ending", "gone"}]
    /\ authed \subseteq Conns /\ worker \subseteq Conns
    /\ lease \in Conns \cup {None}

\* Every variable has its type; errCh takes the error of both its senders.
TypeOK ==
    /\ RunTypes /\ GoroutineTypes /\ LinkTypes /\ MessageTypes /\ GatewayTypes
    /\ faults \in Nat

Init ==
    /\ \E u \in Setups : mode = u.mode /\ quicWorks = u.quicWorks /\ faults = u.faults
    /\ stop = FALSE /\ run = "dial" /\ awaiting = FALSE /\ cur = None
    /\ accs = {} /\ recs = {} /\ beats = {} /\ errs = [k \in Conns |-> 0]
    /\ link = [k \in Conns |-> "none"]
    /\ up = [k \in Conns |-> <<>>] /\ down = [k \in Conns |-> <<>>]
    /\ cclosed = {} /\ gclosed = {}
    /\ gs = [k \in Conns |-> "none"] /\ authed = {} /\ worker = {}
    /\ lease = None

Fault == faults > 0 /\ faults' = faults - 1

\* The client's side of a tunnel sees that it has failed, or was closed by the peer.
Dead(k) == link[k] = "broken" \/ (link[k] = "up" /\ k \in gclosed)
-----------------------------------------------------------------------------
(* Run and runOnce.                                                        *)

\* Mutant: Run does not test the context.
EndedAgain ==
    /\ run' = "sleep" /\ awaiting' = FALSE /\ cur' = None
    /\ UNCHANGED <<accs, recs, beats>>

\* runOnce returns and Run tests the context; with Run the process ends.
Ended ==
    /\ run' = IF stop THEN "done" ELSE "sleep"
    /\ awaiting' = FALSE /\ cur' = None
    /\ IF stop THEN accs' = {} /\ recs' = {} /\ beats' = {}
               ELSE UNCHANGED <<accs, recs, beats>>

\* ... which closes the tunnel first.
Return ==
    /\ Ended
    /\ cclosed' = cclosed \cup {cur}
    /\ UNCHANGED <<process, errs, network, gclosed, gateway>>

Wake ==
    /\ run = "sleep"
    /\ \/ run' = "dial" /\ UNCHANGED <<accs, recs, beats>>
       \/ stop /\ run' = "done" /\ accs' = {} /\ recs' = {} /\ beats' = {}
    /\ UNCHANGED <<process, awaiting, cur, errs, network, cclosed, gclosed, gateway, faults>>

Unused(k) ==
    \/ link[k] = "none"
    \/ k \in cclosed /\ gs[k] = "gone" /\ k \notin accs \cup recs \cup beats

\* A tunnel with its control stream; a websocket is authenticated by its request.
Dialled(k, quic) ==
    /\ Unused(k) /\ \A j \in Conns : j < k => ~Unused(j)
    /\ run' = IF quic THEN "auth" ELSE "register"
    /\ cur' = k
    /\ authed' = IF quic THEN authed \ {k} ELSE authed \cup {k}
    /\ link' = [link EXCEPT ![k] = "up"]
    /\ up' = [up EXCEPT ![k] = <<>>] /\ down' = [down EXCEPT ![k] = <<>>]
    /\ errs' = [errs EXCEPT ![k] = 0]
    /\ cclosed' = cclosed \ {k} /\ gclosed' = gclosed \ {k}
    /\ gs' = [gs EXCEPT ![k] = "serving"] /\ worker' = worker \ {k}
    /\ UNCHANGED <<process, awaiting, accs, recs, beats, lease, faults>>

DialQUICTunnel(k) ==
    /\ run = "dial" /\ mode # "websocket" /\ quicWorks
    /\ Dialled(k, TRUE)

\* Mutant: no transport falls back.
DialQUICFailsForGood ==
    /\ run = "dial" /\ mode # "websocket"
    /\ IF quicWorks /\ ~stop THEN Fault ELSE UNCHANGED faults
    /\ Ended
    /\ UNCHANGED <<process, errs, network, cclosed, gclosed, gateway>>

\* Only "auto" falls back.
DialQUICFails ==
    /\ run = "dial" /\ mode # "websocket"
    /\ IF quicWorks /\ ~stop THEN Fault ELSE UNCHANGED faults
    /\ IF mode = "auto" THEN run' = "fallback" /\ UNCHANGED <<awaiting, cur, accs, recs, beats>>
                        ELSE Ended
    /\ UNCHANGED <<process, errs, network, cclosed, gclosed, gateway>>

DialsWebSocket == run = "fallback" \/ (run = "dial" /\ mode = "websocket")

DialWebSocketTunnel(k) == DialsWebSocket /\ Dialled(k, FALSE)

\* The dial fails, or the tunnel is up and its control stream cannot be opened.
DialWebSocketFails ==
    /\ DialsWebSocket
    /\ IF stop THEN UNCHANGED faults ELSE Fault
    /\ Ended
    /\ UNCHANGED <<process, errs, network, cclosed, gclosed, gateway>>

\* authenticate, register and syncModels write their message ...
SendRequest ==
    /\ run \in Phases /\ ~awaiting /\ ~Dead(cur) /\ Len(up[cur]) < MaxQueue
    /\ up' = [up EXCEPT ![cur] = Append(@, run)]
    /\ awaiting' = TRUE
    /\ UNCHANGED <<process, run, cur, goroutines, link, down, cclosed, gclosed, gateway,
                   faults>>

\* Mutant: the tunnel is left open.
SendFailsOpen ==
    /\ run \in Phases /\ ~awaiting /\ Dead(cur)
    /\ Ended /\ UNCHANGED <<process, errs, network, cclosed, gclosed, gateway, faults>>

SendFails ==
    /\ run \in Phases /\ ~awaiting /\ Dead(cur)
    /\ Return /\ UNCHANGED faults

\* ... and awaitAck reads until the answer to it is there; the last one starts the
\* goroutines.
AfterAck ==
    CASE run = "auth" -> "register" [] run = "register" -> "models" [] OTHER -> "connected"

AwaitAck ==
    LET m == Head(down[cur])
        started == IF m.of = run /\ run = "models" THEN {cur} ELSE {} IN
    /\ awaiting /\ link[cur] = "up" /\ down[cur] # <<>> /\ m # Reply("error", run)
    /\ down' = [down EXCEPT ![cur] = Tail(@)]
    /\ awaiting' = (m.of # run)
    /\ run' = IF m.of = run THEN AfterAck ELSE run
    /\ accs' = accs \cup started /\ recs' = recs \cup started
    /\ beats' = beats \cup started
    /\ UNCHANGED <<process, cur, errs, link, up, cclosed, gclosed, gateway, faults>>

Rejected ==
    /\ awaiting /\ link[cur] = "up" /\ down[cur] # <<>>
    /\ Head(down[cur]) = Reply("error", run)
    /\ Return /\ UNCHANGED faults

\* The read fails, or the deadline of the ack passes.
AwaitFails ==
    /\ awaiting
    /\ IF link[cur] = "silent" \/ (Dead(cur) /\ down[cur] = <<>>) THEN UNCHANGED faults
                                                                ELSE Fault
    /\ Return

\* The select of runOnce.
ConnectionLost ==
    /\ run = "connected" /\ (errs[cur] > 0 \/ stop)
    /\ Return /\ UNCHANGED faults

Stop ==
    /\ ~stop /\ run # "done"
    /\ stop' = TRUE
    /\ UNCHANGED <<mode, quicWorks, main, goroutines, network, cclosed, gclosed, gateway, faults>>
-----------------------------------------------------------------------------
(* The goroutines of a connection.                                         *)

Failed(k) == k \in cclosed \/ Dead(k)

\* Mutant: errCh belongs to the client, not to the connection.
ReportShared(k) ==
    errs' = IF cur = None THEN errs ELSE [errs EXCEPT ![cur] = IF @ < 3 THEN @ + 1 ELSE @]

Report(k) == errs' = [errs EXCEPT ![k] = IF @ < 3 THEN @ + 1 ELSE @]

AcceptDataStreams(k) ==
    /\ k \in accs /\ (Failed(k) \/ stop)
    /\ accs' = accs \ {k}
    /\ IF stop THEN UNCHANGED errs ELSE Report(k)
    /\ UNCHANGED <<process, main, recs, beats, network, cclosed, gclosed, gateway, faults>>

\* An error of the gateway or of the read ends the loop, and nobody is told.
ReceiveControlMessages(k) ==
    /\ k \in recs
    /\ \/ /\ k \notin cclosed /\ link[k] = "up" /\ down[k] # <<>>
          /\ down' = [down EXCEPT ![k] = Tail(@)]
          /\ recs' = IF Head(down[k]).kind = "error" THEN recs \ {k} ELSE recs
       \/ /\ k \in cclosed \/ (Dead(k) /\ down[k] = <<>>)
          /\ recs' = recs \ {k} /\ UNCHANGED down
    /\ UNCHANGED <<process, main, accs, beats, errs, link, up, cclosed, gclosed, gateway,
                   faults>>

\* Mutant: the loop goes on after a write has failed.
HeartbeatGoesOn(k) ==
    /\ k \in beats
    /\ \/ /\ ~Failed(k) /\ Len(up[k]) < MaxQueue
          /\ up' = [up EXCEPT ![k] = Append(@, "heartbeat")]
          /\ UNCHANGED <<beats, errs>>
       \/ Failed(k) /\ Report(k) /\ UNCHANGED <<beats, up>>
       \/ stop /\ beats' = beats \ {k} /\ UNCHANGED <<errs, up>>
    /\ UNCHANGED <<process, main, accs, recs, link, down, cclosed, gclosed, gateway, faults>>

\* A tick, or the end of the context.
HeartbeatLoop(k) ==
    /\ k \in beats
    /\ \/ /\ ~Failed(k) /\ Len(up[k]) < MaxQueue
          /\ up' = [up EXCEPT ![k] = Append(@, "heartbeat")]
          /\ UNCHANGED <<beats, errs>>
       \/ Failed(k) /\ beats' = beats \ {k} /\ Report(k) /\ UNCHANGED up
       \/ stop /\ beats' = beats \ {k} /\ UNCHANGED <<errs, up>>
    /\ UNCHANGED <<process, main, accs, recs, link, down, cclosed, gclosed, gateway, faults>>
-----------------------------------------------------------------------------
(* The gateway's serveControlStream.                                       *)

Reads(k, p) ==
    /\ gs[k] = "serving" /\ link[k] = "up"
    /\ up[k] # <<>> /\ Head(up[k]) = p
    /\ k \in cclosed \/ Len(down[k]) < MaxQueue
    /\ up' = [up EXCEPT ![k] = Tail(@)]

\* The answer is written; a write that fails ends the loop, as an error does.
Answer(k, kind, p) ==
    /\ down' = IF k \in cclosed THEN down
                ELSE [down EXCEPT ![k] = Append(@, Reply(kind, p))]
    /\ gs' = [gs EXCEPT ![k] = IF kind = "ack" /\ k \notin cclosed THEN "serving" ELSE "ending"]

\* Each handler answers with an error what it does not allow, or when it fails.
Serves(k, p, ok, fails) ==
    /\ Reads(k, p) /\ Answer(k, IF ok THEN "ack" ELSE "error", p)
    /\ IF fails THEN Fault ELSE UNCHANGED faults

ServeAuth(k, fails) ==
    LET ok == k \notin authed /\ ~fails IN
    /\ Serves(k, "auth", ok, fails)
    /\ authed' = IF ok THEN authed \cup {k} ELSE authed
    /\ UNCHANGED <<process, main, goroutines, link, cclosed, gclosed, worker, lease>>

\* RegisterWorker gives a claim back when it fails later on.
ServeRegister(k, fails) ==
    LET ok == k \in authed /\ k \notin worker /\ lease = None /\ ~fails IN
    /\ Serves(k, "register", ok, fails)
    /\ lease' = IF ok THEN k ELSE lease
    /\ worker' = IF ok THEN worker \cup {k} ELSE worker
    /\ UNCHANGED <<process, main, goroutines, link, cclosed, gclosed, authed>>

\* UpdateHeartbeat and SyncModels.
ServeUpdate(k, p, fails) ==
    /\ Serves(k, p, k \in authed /\ k \in worker /\ ~fails, fails)
    /\ UNCHANGED <<process, main, goroutines, link, cclosed, gclosed, authed, worker, lease>>

\* The read fails, or its deadline passes: the interval between two heartbeats is
\* taken to be shorter, which Validate does not demand.
ServeEnds(k) ==
    /\ gs[k] = "serving"
    /\ IF link[k] # "up" \/ (k \in cclosed /\ up[k] = <<>>) THEN UNCHANGED faults ELSE Fault
    /\ gs' = [gs EXCEPT ![k] = "ending"]
    /\ UNCHANGED <<process, main, goroutines, network, cclosed, gclosed, authed, worker, lease>>

\* Mutant: the namespace is released whoever holds it.
CleanupAny(k) ==
    /\ gs[k] = "ending"
    /\ gs' = [gs EXCEPT ![k] = "gone"]
    /\ lease' = None
    /\ gclosed' = gclosed \cup {k}
    /\ UNCHANGED <<process, main, goroutines, network, cclosed, authed, worker, faults>>

\* The deferred CleanupWorker, Release and Close, in one step; WorkerLifecycle has
\* them one by one.
Cleanup(k) ==
    /\ gs[k] = "ending"
    /\ gs' = [gs EXCEPT ![k] = "gone"]
    /\ lease' = IF lease = k THEN None ELSE lease
    /\ gclosed' = gclosed \cup {k}
    /\ UNCHANGED <<process, main, goroutines, network, cclosed, authed, worker, faults>>
-----------------------------------------------------------------------------
(* Failures.                                                               *)

Break(k) ==
    /\ link[k] \in {"up", "silent"} /\ Fault
    /\ link' = [link EXCEPT ![k] = "broken"]
    /\ up' = [up EXCEPT ![k] = <<>>] /\ down' = [down EXCEPT ![k] = <<>>]
    /\ UNCHANGED <<process, main, goroutines, cclosed, gclosed, gateway>>

Silence(k) ==
    /\ link[k] = "up" /\ Fault
    /\ link' = [link EXCEPT ![k] = "silent"]
    /\ UNCHANGED <<process, main, goroutines, up, down, cclosed, gclosed, gateway>>

\* It comes back, or the transport gives up on what it cannot deliver.
SilenceEnds(k) ==
    /\ link[k] = "silent"
    /\ \/ link' = [link EXCEPT ![k] = "up"] /\ UNCHANGED <<up, down>>
       \/ /\ link' = [link EXCEPT ![k] = "broken"]
          /\ up' = [up EXCEPT ![k] = <<>>] /\ down' = [down EXCEPT ![k] = <<>>]
    /\ UNCHANGED <<process, main, goroutines, cclosed, gclosed, gateway, faults>>

\* Every connection is lost with the process at one of its ends.
AllBroken ==
    /\ link' = [k \in Conns |-> IF link[k] = "none" THEN "none" ELSE "broken"]
    /\ up' = [k \in Conns |-> <<>>] /\ down' = [k \in Conns |-> <<>>]

GatewayRestart ==
    /\ Fault /\ AllBroken
    /\ gs' = [k \in Conns |-> IF gs[k] = "none" THEN "none" ELSE "gone"]
    /\ gclosed' = {k \in Conns : gs[k] # "none"}
    /\ lease' = None
    /\ UNCHANGED <<process, main, goroutines, cclosed, authed, worker>>

WorkerRestart ==
    /\ Fault /\ AllBroken /\ run # "done"
    /\ run' = "dial" /\ awaiting' = FALSE /\ cur' = None
    /\ accs' = {} /\ recs' = {} /\ beats' = {}
    /\ cclosed' = {k \in Conns : link[k] # "none"}
    /\ UNCHANGED <<process, errs, gclosed, gateway>>
-----------------------------------------------------------------------------
Main ==
    \/ Wake \/ DialQUICFails \/ DialWebSocketFails
    \/ \E k \in Conns : DialQUICTunnel(k) \/ DialWebSocketTunnel(k)
    \/ SendRequest \/ SendFails \/ AwaitAck \/ Rejected \/ AwaitFails \/ ConnectionLost

Serve(k) ==
    \/ \E fails \in BOOLEAN :
        \/ ServeAuth(k, fails) \/ ServeRegister(k, fails)
        \/ ServeUpdate(k, "models", fails) \/ ServeUpdate(k, "heartbeat", fails)
    \/ ServeEnds(k) \/ Cleanup(k)

Next ==
    \/ Main \/ Stop \/ GatewayRestart \/ WorkerRestart
    \/ \E k \in Conns :
        \/ AcceptDataStreams(k) \/ ReceiveControlMessages(k) \/ HeartbeatLoop(k)
        \/ Serve(k) \/ Break(k) \/ Silence(k) \/ SilenceEnds(k)

Spec == Init /\ [][Next]_vars

\* The goroutines of both processes run, and a network that has fallen silent is
\* noticed: heartbeats that are not acknowledged make the transport give up.
FairSpec ==
    /\ Spec /\ WF_vars(Main)
    /\ \A k \in Conns :
        /\ WF_vars(AcceptDataStreams(k)) /\ WF_vars(ReceiveControlMessages(k))
        /\ WF_vars(HeartbeatLoop(k)) /\ WF_vars(Serve(k)) /\ WF_vars(SilenceEnds(k))
-----------------------------------------------------------------------------
\* A tunnel that the client has not closed is that of the current runOnce: however
\* a connection ends, it is closed before the next one is dialled.
OneTunnel ==
    \A k \in Conns : link[k] # "none" /\ k \notin cclosed => k = cur

\* Whoever has got all acks holds the namespace, as long as the gateway has not
\* ended the session.
ConnectedIsRegistered ==
    run = "connected" /\ gs[cur] = "serving" => lease = cur

\* A registered connection is given up only if it has failed, or the process is
\* asked to stop: what is left of earlier connections does not end it.
KeptWhileHealthy ==
    [][run = "connected" /\ run' = "sleep" => link[cur] = "broken" \/ cur \in gclosed]_vars

\* Failures at any point, of network, gateway and worker, do not keep the worker
\* away: in the end it is registered and stays so, or was asked to stop.  (With a
\* heartbeat interval below the gateway's 45 seconds.)
Reconnects ==
    <>[](stop \/ (mode = "quic" /\ ~quicWorks) \/ (run = "connected" /\ lease = cur))

\* A worker that is asked to stop ends, and the gateway gives its namespace free.
StopReleases == stop ~> (run = "done" /\ lease = None)
-----------------------------------------------------------------------------
(* The inductive invariant behind the safety properties.                   *)

\* runOnce has a tunnel from dialling to its return, and has not closed it.
Current ==
    /\ cur = None <=> run \in {"dial", "fallback", "sleep", "done"}
    /\ awaiting => run \in Phases
    /\ cur # None => cur \notin cclosed /\ link[cur] # "none"

\* An id that was never used has no trace; the goroutines of a connection start
\* with an empty errCh once it is registered, and each of them sends at most once.
Goroutines ==
    /\ \A k \in Conns :
        /\ link[k] = "none" => /\ gs[k] = "none" /\ k \notin gclosed
                               /\ k \notin accs \cup recs \cup beats /\ errs[k] = 0
        /\ k \in accs \/ k \in beats => errs[k] <= 1
        /\ k \in accs /\ k \in beats => errs[k] = 0
    /\ run \in Phases => cur \notin accs \cup recs \cup beats /\ errs[cur] = 0

\* Only the failure of a connection is reported to its errCh.
ErrorsTrue ==
    \A k \in Conns :
       errs[k] > 0 /\ k \notin cclosed => link[k] = "broken" \/ k \in gclosed

\* A session with a WorkerID that was not cleaned up yet holds the namespace, and
\* only such a session has its registration acknowledged.
Registered ==
    /\ \A k \in Conns : k \in worker /\ gs[k] \in {"serving", "ending"} => lease = k
    /\ \A k \in Conns : \A i \in 1..Len(down[k]) :
          down[k][i] = Reply("ack", "register") => k \in worker
    /\ run \in {"models", "connected"} => cur \in worker

IInv == TypeOK /\ Current /\ OneTunnel /\ Goroutines /\ ErrorsTrue /\ Registered
=============================================================================
