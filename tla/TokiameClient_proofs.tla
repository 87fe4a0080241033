------------------------ MODULE TokiameClient_proofs ------------------------
(* Proofs of the safety properties of TokiameClient for any number of      *)
(* connections, any setups and any number of failures.  IInv says which    *)
(* goroutines and errors a connection can have at each point of Run, and   *)
(* what an ack under way promises.                                         *)
EXTENDS TokiameClient, TLAPS

USE ClientAssumption DEF process, main, goroutines, network, gateway
-----------------------------------------------------------------------------
\* The invariant holds when the process starts.
LEMMA InitIInv == Init => IInv
<1> SUFFICES ASSUME Init PROVE IInv
    OBVIOUS
<1> PICK u \in Setups : mode = u.mode /\ quicWorks = u.quicWorks /\ faults = u.faults
    BY DEF Init
<1>1. TypeOK
  <2>1. RunTypes
      BY Zenon DEF Init, RunTypes, Phases
  <2>2. GoroutineTypes /\ LinkTypes /\ GatewayTypes
      BY DEF Init, GoroutineTypes, LinkTypes, GatewayTypes
  <2>3. MessageTypes
      BY DEF Init, MessageTypes
  <2> QED
      BY <2>1, <2>2, <2>3 DEF TypeOK
<1>2. Current /\ OneTunnel /\ Goroutines /\ ErrorsTrue
    BY DEF Init, Current, OneTunnel, Goroutines, ErrorsTrue, Phases
<1>3. Registered
    BY DEF Init, Registered, Phases
<1> QED
    BY <1>1, <1>2, <1>3 DEF IInv

\* What runOnce and Run do when they end does not depend on why.
LEMMA EndedTypes ==
  ASSUME IInv, Ended
  PROVE  /\ run' \in {"sleep", "done"} /\ awaiting' = FALSE /\ cur' = None
         /\ accs' \subseteq accs /\ recs' \subseteq recs /\ beats' \subseteq beats
BY DEF Ended

\* The tunnel of runOnce.
LEMMA CurrentConn ==
  ASSUME IInv, run \in Phases \/ run = "connected" \/ awaiting
  PROVE  /\ cur \in Conns /\ cur \notin cclosed /\ link[cur] # "none"
         /\ awaiting => run \in Phases
BY DEF IInv, TypeOK, RunTypes, Current, Phases

\* The steps in which runOnce returns, and Run goes on or ends.
Returns ==
    /\ run \in Phases \/ run = "connected"
    /\ Return /\ (UNCHANGED faults \/ Fault)

LEMMA ReturnSteps ==
  ASSUME IInv, SendFails \/ Rejected \/ AwaitFails \/ ConnectionLost
  PROVE  Returns
<1>1. awaiting => run \in Phases
    BY DEF IInv, Current
<1> QED
    BY <1>1 DEF Returns, SendFails, Rejected, AwaitFails, ConnectionLost

\* The steps in which dialling fails.
DialFails ==
    /\ run \in {"dial", "fallback"}
    /\ UNCHANGED faults \/ Fault
    /\ Ended \/ (run' = "fallback" /\ UNCHANGED <<awaiting, cur, accs, recs, beats>>)
    /\ UNCHANGED <<process, errs, network, cclosed, gclosed, gateway>>

LEMMA DialSteps ==
  ASSUME IInv, DialQUICFails \/ DialWebSocketFails
  PROVE  DialFails
BY DEF DialFails, DialQUICFails, DialWebSocketFails, DialsWebSocket

\* The steps of a handler of the gateway's control loop.
Handles(k, p, ok) ==
    /\ Reads(k, p) /\ Answer(k, IF ok THEN "ack" ELSE "error", p)
    /\ UNCHANGED faults \/ Fault
    /\ UNCHANGED <<process, main, goroutines, link, cclosed, gclosed>>
    /\ authed \subseteq authed' /\ authed' \subseteq authed \cup {k}
    /\ \/ /\ p = "register" /\ ok /\ lease = None /\ lease' = k
          /\ worker' = worker \cup {k}
       \/ /\ p = "register" => ~ok
          /\ UNCHANGED <<lease, worker>>

LEMMA HandlerSteps ==
  ASSUME NEW k \in Conns, NEW fails \in BOOLEAN,
         \/ ServeAuth(k, fails) \/ ServeRegister(k, fails)
         \/ ServeUpdate(k, "models", fails) \/ ServeUpdate(k, "heartbeat", fails)
  PROVE  \E p \in Messages, ok \in BOOLEAN : Handles(k, p, ok)
<1> USE DEF Handles, Serves, Messages, Phases
<1>1. CASE ServeAuth(k, fails)
  <2>1. Handles(k, "auth", k \notin authed /\ ~fails)
      BY <1>1 DEF ServeAuth
  <2> QED
      BY <2>1, Zenon
<1>2. CASE ServeRegister(k, fails)
  <2>1. Handles(k, "register", k \in authed /\ k \notin worker /\ lease = None /\ ~fails)
      BY <1>2 DEF ServeRegister
  <2> QED
      BY <2>1, Zenon
<1>3. CASE ServeUpdate(k, "models", fails)
  <2>1. Handles(k, "models", k \in authed /\ k \in worker /\ ~fails)
      BY <1>3 DEF ServeUpdate
  <2> QED
      BY <2>1, Zenon
<1>4. CASE ServeUpdate(k, "heartbeat", fails)
  <2>1. Handles(k, "heartbeat", k \in authed /\ k \in worker /\ ~fails)
      BY <1>4 DEF ServeUpdate
  <2> QED
      BY <2>1, Zenon
<1> QED
    BY <1>1, <1>2, <1>3, <1>4

LEMMA Steps ==
  ASSUME IInv, [Next]_vars
  PROVE  \/ Returns \/ DialFails \/ Wake \/ SendRequest \/ AwaitAck \/ Stop
         \/ GatewayRestart \/ WorkerRestart
         \/ \E k \in Conns :
              \/ run \in {"dial", "fallback"} /\ \E quic \in BOOLEAN : Dialled(k, quic)
              \/ AcceptDataStreams(k) \/ ReceiveControlMessages(k) \/ HeartbeatLoop(k)
              \/ \E p \in Messages, ok \in BOOLEAN : Handles(k, p, ok)
              \/ ServeEnds(k) \/ Cleanup(k) \/ Break(k) \/ Silence(k) \/ SilenceEnds(k)
         \/ UNCHANGED vars
<1>1. ASSUME NEW k \in Conns, DialQUICTunnel(k) \/ DialWebSocketTunnel(k)
     PROVE  run \in {"dial", "fallback"} /\ \E quic \in BOOLEAN : Dialled(k, quic)
    BY <1>1, Zenon DEF DialQUICTunnel, DialWebSocketTunnel, DialsWebSocket
<1> QED
    BY <1>1, ReturnSteps, DialSteps, HandlerSteps, Zenon DEF Next, Main, Serve
-----------------------------------------------------------------------------
\* Types are preserved: what Run knows ...
LEMMA RunStep == IInv /\ [Next]_vars => RunTypes'
<1> SUFFICES ASSUME IInv, [Next]_vars PROVE RunTypes'
    OBVIOUS
<1>0. RunTypes
    BY DEF IInv, TypeOK
<1> USE DEF RunTypes
<1>1. CASE Returns
    BY <1>1, <1>0, EndedTypes DEF Returns, Return
<1>2. CASE DialFails
    BY <1>2, <1>0, EndedTypes, Zenon DEF DialFails
<1>3. CASE Wake
    BY <1>3, <1>0 DEF Wake
<1>4. CASE SendRequest \/ Stop
    BY <1>4, <1>0, Zenon DEF SendRequest, Stop
<1>5. CASE AwaitAck
  <2>1. awaiting' \in BOOLEAN
      BY <1>5, Zenon DEF AwaitAck
  <2>2. run' \in Phases \cup {"connected"} \/ run' = run
      BY <1>5, Zenon DEF AwaitAck, AfterAck, Phases
  <2>3. UNCHANGED <<process, cur>>
      BY <1>5 DEF AwaitAck
  <2> QED
      BY <2>1, <2>2, <2>3, <1>0
<1>6. CASE WorkerRestart
    BY <1>6, <1>0, Zenon DEF WorkerRestart
<1>7. ASSUME NEW k \in Conns, NEW quic \in BOOLEAN, Dialled(k, quic) PROVE RunTypes'
    BY <1>7, <1>0 DEF Dialled, Phases
<1>8. ASSUME \/ GatewayRestart \/ UNCHANGED vars
            \/ \E k \in Conns :
                 \/ AcceptDataStreams(k) \/ ReceiveControlMessages(k) \/ HeartbeatLoop(k)
                 \/ \E p \in Messages, ok \in BOOLEAN : Handles(k, p, ok)
                 \/ ServeEnds(k) \/ Cleanup(k) \/ Break(k) \/ Silence(k) \/ SilenceEnds(k)
     PROVE  UNCHANGED <<process, main>>
    BY <1>8, Zenon DEF GatewayRestart, AcceptDataStreams, ReceiveControlMessages,
       HeartbeatLoop, Handles, ServeEnds, Cleanup, Break, Silence, SilenceEnds, vars
<1>9. UNCHANGED <<process, main>> => RunTypes'
    BY <1>0
<1> QED
    BY <1>1, <1>2, <1>3, <1>4, <1>5, <1>6, <1>7, <1>8, <1>9, Steps, Zenon

\* ... its goroutines, of which the two senders of an errCh find room in it ...
LEMMA GoroutineTypesStep == IInv /\ [Next]_vars => GoroutineTypes'
<1> SUFFICES ASSUME IInv, [Next]_vars PROVE GoroutineTypes'
    OBVIOUS
<1>0. GoroutineTypes
    BY DEF IInv, TypeOK
<1> USE DEF GoroutineTypes
<1>1. CASE Returns
    BY <1>1, <1>0, EndedTypes, Zenon DEF Returns, Return
<1>2. CASE DialFails
    BY <1>2, <1>0, EndedTypes, Zenon DEF DialFails
<1>3. CASE Wake \/ WorkerRestart
    BY <1>3, <1>0, Zenon DEF Wake, WorkerRestart
<1>4. CASE AwaitAck
  <2>1. cur \in Conns
      BY <1>4, CurrentConn DEF AwaitAck
  <2>2. /\ accs' \subseteq accs \cup {cur} /\ recs' \subseteq recs \cup {cur}
        /\ beats' \subseteq beats \cup {cur} /\ UNCHANGED errs
      BY <1>4 DEF AwaitAck
  <2> QED
      BY <2>1, <2>2, <1>0
<1>5. ASSUME NEW k \in Conns, NEW quic \in BOOLEAN, Dialled(k, quic) PROVE GoroutineTypes'
    BY <1>5, <1>0 DEF Dialled
<1>6. ASSUME NEW k \in Conns, AcceptDataStreams(k) PROVE GoroutineTypes'
  <2>1. errs[k] \in 0..1
      BY <1>6, <1>0 DEF AcceptDataStreams, IInv, Goroutines
  <2> QED
      BY <1>6, <1>0, <2>1 DEF AcceptDataStreams, Report
<1>7. ASSUME NEW k \in Conns, HeartbeatLoop(k) PROVE GoroutineTypes'
  <2>1. errs[k] \in 0..1
      BY <1>7, <1>0 DEF HeartbeatLoop, IInv, Goroutines
  <2>2. errs' \in [Conns -> 0..2]
    <3>1. CASE Report(k)
        BY <3>1, <2>1, <1>0 DEF Report
    <3>2. CASE UNCHANGED errs
        BY <3>2, <1>0
    <3> QED
        BY <3>1, <3>2, <1>7, Zenon DEF HeartbeatLoop
  <2>3. beats' \subseteq beats /\ UNCHANGED <<accs, recs>>
      BY <1>7, Zenon DEF HeartbeatLoop
  <2> QED
      BY <2>2, <2>3, <1>0
<1>8. ASSUME NEW k \in Conns, ReceiveControlMessages(k) PROVE GoroutineTypes'
  <2>1. recs' \subseteq recs /\ UNCHANGED <<accs, beats, errs>>
      BY <1>8 DEF ReceiveControlMessages
  <2> QED
      BY <2>1, <1>0
<1>9. ASSUME \/ SendRequest \/ Stop \/ GatewayRestart \/ UNCHANGED vars
            \/ \E k \in Conns :
                 \/ \E p \in Messages, ok \in BOOLEAN : Handles(k, p, ok)
                 \/ ServeEnds(k) \/ Cleanup(k) \/ Break(k) \/ Silence(k) \/ SilenceEnds(k)
     PROVE  UNCHANGED goroutines
    BY <1>9, Zenon DEF SendRequest, Stop, GatewayRestart, Handles, ServeEnds, Cleanup,
       Break, Silence, SilenceEnds, vars
<1>10. UNCHANGED goroutines => GoroutineTypes'
    BY <1>0
<1> QED
    BY <1>1, <1>2, <1>3, <1>4, <1>5, <1>6, <1>7, <1>8, <1>9, <1>10, Steps, Zenon

\* ... the state of connections at both ends ...
LEMMA LinkTypesStep == IInv /\ [Next]_vars => LinkTypes' /\ GatewayTypes'
<1> SUFFICES ASSUME IInv, [Next]_vars PROVE LinkTypes' /\ GatewayTypes'
    OBVIOUS
<1>0. LinkTypes /\ GatewayTypes
    BY DEF IInv, TypeOK
<1> USE DEF LinkTypes, GatewayTypes
<1>1. CASE Returns
  <2>1. cclosed' = cclosed \cup {cur} /\ cur \in Conns
      BY <1>1, CurrentConn DEF Returns, Return
  <2>2. UNCHANGED <<link, gclosed, gateway>>
      BY <1>1 DEF Returns, Return
  <2> QED
      BY <2>1, <2>2, <1>0
<1>2. CASE GatewayRestart
    BY <1>2, <1>0 DEF GatewayRestart, AllBroken
<1>3. CASE WorkerRestart
    BY <1>3, <1>0 DEF WorkerRestart, AllBroken
<1>4. ASSUME NEW k \in Conns, NEW quic \in BOOLEAN, Dialled(k, quic)
     PROVE  LinkTypes' /\ GatewayTypes'
    BY <1>4, <1>0 DEF Dialled
<1>5. ASSUME NEW k \in Conns, NEW p \in Messages, NEW ok \in BOOLEAN, Handles(k, p, ok)
     PROVE  LinkTypes' /\ GatewayTypes'
  <2>1. gs' \in [Conns -> {"none", "serving", "ending", "gone"}]
      BY <1>5, <1>0 DEF Handles, Answer
  <2>2. UNCHANGED <<link, cclosed, gclosed>>
      BY <1>5 DEF Handles
  <2>3. /\ authed' \subseteq Conns /\ worker' \subseteq Conns
        /\ lease' \in Conns \cup {None}
      BY <1>5, <1>0, Zenon DEF Handles
  <2> QED
      BY <2>1, <2>2, <2>3, <1>0
<1>6. ASSUME NEW k \in Conns, ServeEnds(k) PROVE LinkTypes' /\ GatewayTypes'
    BY <1>6, <1>0 DEF ServeEnds
<1>7. ASSUME NEW k \in Conns, Cleanup(k) PROVE LinkTypes' /\ GatewayTypes'
    BY <1>7, <1>0 DEF Cleanup
<1>8. ASSUME NEW k \in Conns, Break(k) \/ Silence(k) \/ SilenceEnds(k)
     PROVE  LinkTypes' /\ GatewayTypes'
    BY <1>8, <1>0, Zenon DEF Break, Silence, SilenceEnds
<1>9. ASSUME \/ DialFails \/ Wake \/ SendRequest \/ AwaitAck \/ Stop \/ UNCHANGED vars
            \/ \E k \in Conns :
                 AcceptDataStreams(k) \/ ReceiveControlMessages(k) \/ HeartbeatLoop(k)
     PROVE  UNCHANGED <<link, cclosed, gclosed, gateway>>
    BY <1>9, Zenon DEF DialFails, Wake, SendRequest, AwaitAck, Stop, AcceptDataStreams,
       ReceiveControlMessages, HeartbeatLoop, vars
<1>10. UNCHANGED <<link, cclosed, gclosed, gateway>> => LinkTypes' /\ GatewayTypes'
    BY <1>0
<1> QED
    BY <1>1, <1>2, <1>3, <1>4, <1>5, <1>6, <1>7, <1>8, <1>9, <1>10, Steps, Zenon

\* ... and the messages under way.
LEMMA MessageTypesStep == IInv /\ [Next]_vars => MessageTypes'
<1> SUFFICES ASSUME IInv, [Next]_vars PROVE MessageTypes'
    OBVIOUS
<1>0. MessageTypes
    BY DEF IInv, TypeOK
<1> USE DEF MessageTypes
<1>1. CASE SendRequest
  <2>1. cur \in Conns /\ run \in Messages
      BY <1>1, CurrentConn DEF SendRequest, Messages
  <2>2. up' = [up EXCEPT ![cur] = Append(@, run)] /\ UNCHANGED down
      BY <1>1 DEF SendRequest
  <2> QED
      BY <2>1, <2>2, <1>0
<1>2. ASSUME NEW k \in Conns, down[k] # <<>>,
            down' = [down EXCEPT ![k] = Tail(@)], UNCHANGED up
     PROVE  MessageTypes'
    BY <1>2, <1>0
<1>3. CASE AwaitAck
  <2>1. cur \in Conns
      BY <1>3, CurrentConn DEF AwaitAck
  <2> QED
      BY <1>2, <1>3, <2>1, Zenon DEF AwaitAck
<1>4. ASSUME NEW k \in Conns, ReceiveControlMessages(k) PROVE MessageTypes'
    BY <1>2, <1>4, <1>0, Zenon DEF ReceiveControlMessages
<1>5. ASSUME NEW k \in Conns, HeartbeatLoop(k) PROVE MessageTypes'
  <2>1. \/ UNCHANGED <<up, down>>
        \/ up' = [up EXCEPT ![k] = Append(@, "heartbeat")] /\ UNCHANGED down
      BY <1>5, Zenon DEF HeartbeatLoop
  <2>2. Append(up[k], "heartbeat") \in Seq(Messages)
      BY <1>0 DEF Messages
  <2> QED
      BY <2>1, <2>2, <1>0, Zenon
<1>6. ASSUME NEW k \in Conns, NEW p \in Messages, NEW ok \in BOOLEAN, Handles(k, p, ok)
     PROVE  MessageTypes'
  <2> DEFINE m == Reply(IF ok THEN "ack" ELSE "error", p)
  <2>1. m \in Replies
      BY DEF Reply, Replies
  <2>2. down' = down \/ down' = [down EXCEPT ![k] = Append(@, m)]
      BY <1>6, Zenon DEF Handles, Answer
  <2>3. up[k] # <<>> /\ up' = [up EXCEPT ![k] = Tail(@)]
      BY <1>6 DEF Handles, Reads
  <2> HIDE DEF m
  <2>a. Append(down[k], m) \in Seq(Replies)
      BY <2>1, <1>0
  <2>4. down' \in [Conns -> Seq(Replies)]
      BY <2>2, <2>a, <1>0, Zenon
  <2>5. up' \in [Conns -> Seq(Messages)]
      BY <2>3, <1>0
  <2> QED
      BY <2>4, <2>5
<1>7. ASSUME \/ GatewayRestart \/ WorkerRestart
            \/ \E k \in Conns : \/ \E quic \in BOOLEAN : Dialled(k, quic)
                                \/ Break(k) \/ Silence(k) \/ SilenceEnds(k)
     PROVE  MessageTypes'
  <2>1. ASSUME NEW k \in Conns,
              up' = [up EXCEPT ![k] = <<>>] /\ down' = [down EXCEPT ![k] = <<>>]
       PROVE  MessageTypes'
      BY <2>1, <1>0
  <2>2. AllBroken => MessageTypes'
      BY DEF AllBroken
  <2>3. UNCHANGED <<up, down>> => MessageTypes'
      BY <1>0
  <2> QED
      BY <1>7, <2>1, <2>2, <2>3, Zenon
      DEF GatewayRestart, WorkerRestart, Dialled, Break, Silence, SilenceEnds
<1>8. ASSUME \/ Returns \/ DialFails \/ Wake \/ Stop \/ UNCHANGED vars
            \/ \E k \in Conns : AcceptDataStreams(k) \/ ServeEnds(k) \/ Cleanup(k)
     PROVE  UNCHANGED <<up, down>>
    BY <1>8, Zenon DEF Returns, Return, DialFails, Wake, Stop, AcceptDataStreams,
       ServeEnds, Cleanup, vars
<1>9. UNCHANGED <<up, down>> => MessageTypes'
    BY <1>0
<1> QED
    BY <1>1, <1>3, <1>4, <1>5, <1>6, <1>7, <1>8, <1>9, Steps, Zenon

LEMMA FaultsStep == IInv /\ [Next]_vars => faults' \in Nat
<1> SUFFICES ASSUME IInv, [Next]_vars PROVE faults' \in Nat
    OBVIOUS
<1>1. UNCHANGED faults \/ Fault
    BY Steps, Zenon DEF Returns, DialFails, Wake, SendRequest, AwaitAck, Stop, GatewayRestart,
       WorkerRestart, Dialled, AcceptDataStreams, ReceiveControlMessages, HeartbeatLoop,
       Handles, ServeEnds, Cleanup, Break, Silence, SilenceEnds, vars
<1> QED
    BY <1>1 DEF Fault, IInv, TypeOK

LEMMA TypeStep == IInv /\ [Next]_vars => TypeOK'
BY RunStep, GoroutineTypesStep, LinkTypesStep, MessageTypesStep, FaultsStep DEF TypeOK
-----------------------------------------------------------------------------
\* Whatever ends runOnce closes its tunnel, and only runOnce dials.
LEMMA CurrentStep == IInv /\ [Next]_vars => Current' /\ OneTunnel'
<1> SUFFICES ASSUME IInv, [Next]_vars PROVE Current' /\ OneTunnel'
    OBVIOUS
<1>0. RunTypes /\ LinkTypes /\ Current /\ OneTunnel
    BY DEF IInv, TypeOK
<1> USE DEF LinkTypes, Current, OneTunnel, Phases
<1>1. CASE Returns
  <2>1. /\ run' \in {"sleep", "done"} /\ awaiting' = FALSE /\ cur' = None
        /\ cclosed' = cclosed \cup {cur} /\ UNCHANGED link
      BY <1>1, EndedTypes DEF Returns, Return
  <2> QED
      BY <2>1, <1>0
<1>2. CASE DialFails
  <2>1. run \in {"dial", "fallback"} /\ UNCHANGED <<link, cclosed>>
      BY <1>2 DEF DialFails
  <2>2. cur = None /\ ~awaiting
      BY <2>1, <1>0
  <2>3. run' \in {"fallback", "sleep", "done"} /\ cur' = None /\ ~awaiting'
    <3>1. CASE Ended
        BY <3>1, EndedTypes
    <3>2. CASE run' = "fallback" /\ UNCHANGED <<awaiting, cur>>
        BY <3>2, <2>2
    <3> QED
        BY <3>1, <3>2, <1>2, Zenon DEF DialFails
  <2> QED
      BY <2>1, <2>2, <2>3, <1>0
<1>3. CASE Wake
    BY <1>3, <1>0 DEF Wake
<1>4. CASE SendRequest
    BY <1>4, <1>0 DEF SendRequest
<1>5. CASE AwaitAck
  <2>1. run \in Phases /\ run' \in Phases \cup {"connected"}
      BY <1>5, <1>0 DEF AwaitAck, AfterAck
  <2>2. awaiting' => run' = run
      BY <1>5, Zenon DEF AwaitAck
  <2>3. UNCHANGED <<cur, link, cclosed>>
      BY <1>5 DEF AwaitAck
  <2> QED
      BY <2>1, <2>2, <2>3, <1>0
<1>6. CASE WorkerRestart
    BY <1>6, <1>0 DEF WorkerRestart, AllBroken
<1>7. CASE GatewayRestart
    BY <1>7, <1>0 DEF GatewayRestart, AllBroken, RunTypes
<1>8. ASSUME NEW k \in Conns, NEW quic \in BOOLEAN,
            run \in {"dial", "fallback"}, Dialled(k, quic)
     PROVE  Current' /\ OneTunnel'
    BY <1>8, <1>0 DEF Dialled, RunTypes
<1>9. ASSUME NEW k \in Conns, Break(k) \/ Silence(k) \/ SilenceEnds(k)
     PROVE  Current' /\ OneTunnel'
  <2>1. /\ UNCHANGED <<main, cclosed>>
        /\ \A j \in Conns : link'[j] = "none" <=> link[j] = "none"
      BY <1>9, <1>0 DEF Break, Silence, SilenceEnds
  <2> QED
      BY <2>1, <1>0 DEF RunTypes
<1>10. ASSUME \/ Stop \/ UNCHANGED vars
             \/ \E k \in Conns :
                  \/ AcceptDataStreams(k) \/ ReceiveControlMessages(k) \/ HeartbeatLoop(k)
                  \/ \E p \in Messages, ok \in BOOLEAN : Handles(k, p, ok)
                  \/ ServeEnds(k) \/ Cleanup(k)
      PROVE  UNCHANGED <<main, link, cclosed>>
    BY <1>10, Zenon DEF Stop, AcceptDataStreams, ReceiveControlMessages, HeartbeatLoop,
       Handles, ServeEnds, Cleanup, vars
<1>11. UNCHANGED <<main, link, cclosed>> => Current' /\ OneTunnel'
    BY <1>0
<1> QED
    BY <1>1, <1>2, <1>3, <1>4, <1>5, <1>6, <1>7, <1>8, <1>9, <1>10, <1>11, Steps, Zenon

\* An error is counted for the connection it is reported to.
LEMMA ReportCounts ==
  ASSUME GoroutineTypes, NEW k \in Conns, errs[k] <= 1, UNCHANGED errs \/ Report(k)
  PROVE  /\ errs'[k] \in {errs[k], errs[k] + 1}
         /\ \A j \in Conns \ {k} : errs'[j] = errs[j]
BY DEF GoroutineTypes, Report

\* Goroutines are started once per connection, with an empty errCh.
LEMMA GoroutinesStep == IInv /\ [Next]_vars => Goroutines'
<1> SUFFICES ASSUME IInv, [Next]_vars PROVE Goroutines'
    OBVIOUS
<1>0. /\ RunTypes /\ GoroutineTypes /\ LinkTypes /\ GatewayTypes
      /\ Current /\ Goroutines
    BY DEF IInv, TypeOK
<1> USE DEF GoroutineTypes, LinkTypes, GatewayTypes, Goroutines, Phases
<1>1. CASE Returns
  <2>1. /\ run' \in {"sleep", "done"} /\ UNCHANGED <<link, gs, gclosed, errs>>
        /\ accs' \subseteq accs /\ recs' \subseteq recs /\ beats' \subseteq beats
      BY <1>1, EndedTypes DEF Returns, Return
  <2> QED
      BY <2>1, <1>0
<1>2. CASE DialFails
  <2>1. /\ run' \in {"fallback", "sleep", "done"} /\ UNCHANGED <<link, gs, gclosed, errs>>
        /\ accs' \subseteq accs /\ recs' \subseteq recs /\ beats' \subseteq beats
      BY <1>2, EndedTypes, Zenon DEF DialFails
  <2> QED
      BY <2>1, <1>0
<1>3. CASE Wake
    BY <1>3, <1>0 DEF Wake
<1>4. CASE AwaitAck
  <2>1. /\ cur \in Conns /\ run \in Phases /\ link[cur] # "none"
        /\ UNCHANGED <<cur, link, gs, gclosed, errs>>
      BY <1>4, CurrentConn DEF AwaitAck
  <2>2. \/ run' \in Phases /\ UNCHANGED <<accs, recs, beats>>
        \/ /\ run' = "connected"
           /\ accs' = accs \cup {cur} /\ recs' = recs \cup {cur} /\ beats' = beats \cup {cur}
      BY <1>4, <2>1, Zenon DEF AwaitAck, AfterAck
  <2> QED
      BY <2>1, <2>2, <1>0
<1>5. CASE WorkerRestart
    BY <1>5, <1>0 DEF WorkerRestart, AllBroken
<1>6. CASE GatewayRestart
    BY <1>6, <1>0 DEF GatewayRestart, AllBroken
<1>7. ASSUME NEW k \in Conns, NEW quic \in BOOLEAN, Dialled(k, quic) PROVE Goroutines'
    BY <1>7, <1>0 DEF Dialled, Unused
<1>8. ASSUME NEW k \in Conns, AcceptDataStreams(k) PROVE Goroutines'
  <2>1. /\ k \in accs /\ accs' = accs \ {k} /\ UNCHANGED <<main, recs, beats, link, gs, gclosed>>
        /\ UNCHANGED errs \/ Report(k)
      BY <1>8 DEF AcceptDataStreams
  <2>2. /\ errs'[k] \in {errs[k], errs[k] + 1} /\ link[k] # "none"
        /\ \A j \in Conns \ {k} : errs'[j] = errs[j]
      BY <2>1, <1>0, ReportCounts
  <2>3. run \in Phases => cur # k
      BY <2>1, <1>0
  <2> QED
      BY <2>1, <2>2, <2>3, <1>0 DEF RunTypes, Current
<1>9. ASSUME NEW k \in Conns, HeartbeatLoop(k) PROVE Goroutines'
  <2>1. UNCHANGED <<main, accs, recs, link, gs, gclosed>>
      BY <1>9 DEF HeartbeatLoop
  <2>2. CASE UNCHANGED <<beats, errs>>
      BY <2>1, <2>2, <1>0
  <2>3. CASE k \in beats /\ beats' = beats \ {k} /\ (UNCHANGED errs \/ Report(k))
    <3>1. /\ errs'[k] \in {errs[k], errs[k] + 1} /\ link[k] # "none"
          /\ \A j \in Conns \ {k} : errs'[j] = errs[j]
        BY <2>3, <1>0, ReportCounts
    <3>2. run \in Phases => cur # k
        BY <2>3, <1>0
    <3> QED
        BY <2>1, <2>3, <3>1, <3>2, <1>0 DEF RunTypes, Current
  <2> QED
      BY <1>9, <2>2, <2>3, Zenon DEF HeartbeatLoop
<1>10. ASSUME NEW k \in Conns, ReceiveControlMessages(k) PROVE Goroutines'
  <2>1. recs' \subseteq recs /\ UNCHANGED <<main, accs, beats, errs, link, gs, gclosed>>
      BY <1>10 DEF ReceiveControlMessages
  <2> QED
      BY <2>1, <1>0, Zenon
<1>11. ASSUME NEW k \in Conns, NEW p \in Messages, NEW ok \in BOOLEAN, Handles(k, p, ok)
      PROVE  Goroutines'
  <2>1. /\ UNCHANGED <<main, goroutines, link, gclosed>> /\ link[k] = "up"
        /\ \A j \in Conns \ {k} : gs'[j] = gs[j]
      BY <1>11, <1>0 DEF Handles, Reads, Answer
  <2> QED
      BY <2>1, <1>0
<1>12. ASSUME NEW k \in Conns, ServeEnds(k) \/ Cleanup(k) PROVE Goroutines'
  <2>1. /\ UNCHANGED <<main, goroutines, link>> /\ gs[k] # "none"
        /\ \A j \in Conns \ {k} : gs'[j] = gs[j]
        /\ gclosed' \subseteq gclosed \cup {k}
      BY <1>12, <1>0 DEF ServeEnds, Cleanup
  <2> QED
      BY <2>1, <1>0
<1>13. ASSUME NEW k \in Conns, Break(k) \/ Silence(k) \/ SilenceEnds(k) PROVE Goroutines'
  <2>1. /\ UNCHANGED <<main, goroutines, gs, gclosed>>
        /\ \A j \in Conns : link'[j] = "none" <=> link[j] = "none"
      BY <1>13, <1>0 DEF Break, Silence, SilenceEnds
  <2> QED
      BY <2>1, <1>0
<1>14. CASE SendRequest \/ Stop \/ UNCHANGED vars
  <2>1. UNCHANGED <<run, cur, goroutines, link, gs, gclosed>>
      BY <1>14 DEF SendRequest, Stop, vars
  <2> QED
      BY <2>1, <1>0
<1> QED
    BY <1>1, <1>2, <1>3, <1>4, <1>5, <1>6, <1>7, <1>8, <1>9, <1>10, <1>11, <1>12,
       <1>13, <1>14, Steps, Zenon

\* A goroutine reports what it saw of its own connection.
LEMMA ErrorsStep == IInv /\ [Next]_vars => ErrorsTrue'
<1> SUFFICES ASSUME IInv, [Next]_vars PROVE ErrorsTrue'
    OBVIOUS
<1>0. GoroutineTypes /\ LinkTypes /\ GatewayTypes /\ Goroutines /\ ErrorsTrue
    BY DEF IInv, TypeOK
<1> USE DEF GoroutineTypes, LinkTypes, GatewayTypes, ErrorsTrue
<1>1. CASE GatewayRestart
    BY <1>1, <1>0 DEF GatewayRestart, AllBroken, Goroutines
<1>2. CASE WorkerRestart
    BY <1>2, <1>0 DEF WorkerRestart, AllBroken, Goroutines
<1>3. ASSUME NEW k \in Conns, NEW quic \in BOOLEAN, Dialled(k, quic) PROVE ErrorsTrue'
    BY <1>3, <1>0 DEF Dialled
<1>4. ASSUME NEW k \in Conns, AcceptDataStreams(k) \/ HeartbeatLoop(k) PROVE ErrorsTrue'
  <2>1. /\ UNCHANGED <<link, cclosed, gclosed>> /\ errs[k] <= 1
        /\ UNCHANGED errs \/ (Report(k) /\ Failed(k))
      BY <1>4, <1>0 DEF AcceptDataStreams, HeartbeatLoop, Goroutines
  <2>2. \A j \in Conns : errs'[j] = errs[j] \/ (j = k /\ Failed(k))
      BY <2>1, <1>0, ReportCounts
  <2> QED
      BY <2>1, <2>2, <1>0 DEF Failed, Dead
<1>5. ASSUME NEW k \in Conns, Break(k) \/ Silence(k) \/ SilenceEnds(k) PROVE ErrorsTrue'
  <2>1. /\ UNCHANGED <<errs, cclosed, gclosed>>
        /\ \A j \in Conns : link[j] = "broken" => link'[j] = "broken"
      BY <1>5, <1>0 DEF Break, Silence, SilenceEnds
  <2> QED
      BY <2>1, <1>0
<1>6. ASSUME \/ Returns \/ DialFails \/ Wake \/ SendRequest \/ AwaitAck \/ Stop
            \/ UNCHANGED vars
            \/ \E k \in Conns :
                 \/ ReceiveControlMessages(k) \/ ServeEnds(k) \/ Cleanup(k)
                 \/ \E p \in Messages, ok \in BOOLEAN : Handles(k, p, ok)
     PROVE  UNCHANGED <<errs, link>> /\ cclosed \subseteq cclosed' /\ gclosed \subseteq gclosed'
    BY <1>6, Zenon DEF Returns, Return, DialFails, Wake, SendRequest, AwaitAck, Stop,
       ReceiveControlMessages, Handles, ServeEnds, Cleanup, vars
<1>7. UNCHANGED <<errs, link>> /\ cclosed \subseteq cclosed' /\ gclosed \subseteq gclosed'
        => ErrorsTrue'
    BY <1>0
<1> QED
    BY <1>1, <1>2, <1>3, <1>4, <1>5, <1>6, <1>7, Steps, Zenon

\* Whoever has a WorkerID and is not cleaned up keeps the others from getting one.
LEMMA RegisteredStep == IInv /\ [Next]_vars => Registered'
<1> SUFFICES ASSUME IInv, [Next]_vars PROVE Registered'
    OBVIOUS
<1>0. RunTypes /\ MessageTypes /\ GatewayTypes /\ Registered /\ Current
    BY DEF IInv, TypeOK
<1> DEFINE Holds == \A k \in Conns : k \in worker /\ gs[k] \in {"serving", "ending"} => lease = k
           Acks == \A k \in Conns : \A i \in 1..Len(down[k]) :
                      down[k][i] = Reply("ack", "register") => k \in worker
           Knows == run \in {"models", "connected"} => cur \in worker
<1>a. Holds /\ Acks /\ Knows
    BY <1>0, Zenon DEF Registered
<1>b. ASSUME Holds', Acks', Knows' PROVE Registered'
    BY <1>b DEF Registered
<1>c. ASSUME NEW k \in Conns, down[k] # <<>>, down' = [down EXCEPT ![k] = Tail(@)],
            UNCHANGED worker
     PROVE  Acks'
    BY <1>c, <1>a, <1>0 DEF MessageTypes
<1>1. CASE GatewayRestart \/ WorkerRestart
  <2>1. Acks'
      BY <1>1, <1>0 DEF GatewayRestart, WorkerRestart, AllBroken
  <2>2. Holds'
      BY <1>1, <1>0, <1>a DEF GatewayRestart, WorkerRestart, AllBroken, GatewayTypes
  <2>3. Knows'
      BY <1>1, <1>a DEF GatewayRestart, WorkerRestart
  <2> QED
      BY <2>1, <2>2, <2>3, <1>b
<1>2. ASSUME NEW k \in Conns, NEW quic \in BOOLEAN, Dialled(k, quic) PROVE Registered'
  <2>1. Acks'
      BY <1>2, <1>0, <1>a DEF Dialled, MessageTypes
  <2>2. Holds'
      BY <1>2, <1>0, <1>a DEF Dialled, GatewayTypes
  <2>3. Knows'
      BY <1>2 DEF Dialled
  <2> QED
      BY <2>1, <2>2, <2>3, <1>b, Zenon
<1>3. CASE AwaitAck
  <2>1. cur \in Conns /\ down[cur] # <<>> /\ UNCHANGED <<cur, worker, gs, lease>>
      BY <1>3, CurrentConn DEF AwaitAck
  <2>2. Acks'
      BY <1>3, <1>c, <2>1, Zenon DEF AwaitAck
  <2>3. Knows'
    <3>1. CASE run' = run
        BY <3>1, <2>1, <1>a
    <3>2. CASE run' # run /\ run = "register"
      <4>1. Head(down[cur]) \in Replies /\ Head(down[cur]) = down[cur][1]
          BY <2>1, <1>0 DEF MessageTypes
      <4>2. Head(down[cur]).of = "register" /\ Head(down[cur]) # Reply("error", "register")
          BY <1>3, <3>2, Zenon DEF AwaitAck
      <4>3. down[cur][1] = Reply("ack", "register")
          BY <4>1, <4>2 DEF Replies, Reply
      <4>4. 1 \in 1..Len(down[cur])
          BY <2>1, <1>0 DEF MessageTypes
      <4>5. cur \in worker
          BY <2>1, <4>3, <4>4, <1>a
      <4> QED
          BY <4>5, <2>1
    <3>3. CASE run' # run /\ run # "register"
        BY <3>3, <1>3, <2>1, <1>a, <1>0 DEF AwaitAck, AfterAck, Current, Phases
    <3> QED
        BY <3>1, <3>2, <3>3
  <2> QED
      BY <2>1, <2>2, <2>3, <1>a, <1>b
<1>4. ASSUME NEW k \in Conns, ReceiveControlMessages(k) PROVE Registered'
  <2>1. UNCHANGED <<main, gateway>>
      BY <1>4 DEF ReceiveControlMessages
  <2>2. Acks'
      BY <1>4, <2>1, <1>a, <1>c, Zenon DEF ReceiveControlMessages
  <2> QED
      BY <2>1, <2>2, <1>a, <1>b
<1>5. ASSUME NEW k \in Conns, NEW p \in Messages, NEW ok \in BOOLEAN, Handles(k, p, ok)
     PROVE  Registered'
  <2>1. worker \subseteq worker' /\ UNCHANGED main /\ gs[k] = "serving"
      BY <1>5 DEF Handles, Reads
  <2>2. Acks'
    <3> DEFINE m == Reply(IF ok THEN "ack" ELSE "error", p)
    <3>1. m \in Replies
        BY DEF Reply, Replies
    <3>2. m = Reply("ack", "register") => k \in worker'
        BY <1>5 DEF Handles, Reply
    <3>3. down' = down \/ down' = [down EXCEPT ![k] = Append(@, m)]
        BY <1>5, Zenon DEF Handles, Answer
    <3> HIDE DEF m
    <3>4. CASE down' = down
        BY <3>4, <2>1, <1>a, Zenon
    <3>5. CASE down' = [down EXCEPT ![k] = Append(@, m)]
        BY <3>1, <3>2, <3>5, <2>1, <1>a, <1>0 DEF MessageTypes
    <3> QED
        BY <3>3, <3>4, <3>5
  <2>3. Holds'
    <3>1. \A j \in Conns \ {k} : gs'[j] = gs[j]
        BY <1>5, <1>0 DEF Handles, Answer, GatewayTypes
    <3>2. \/ lease = None /\ lease' = k /\ worker' = worker \cup {k}
          \/ UNCHANGED <<lease, worker>>
        BY <1>5, Zenon DEF Handles
    <3>3. CASE lease = None /\ lease' = k /\ worker' = worker \cup {k}
        BY <3>1, <3>3, <1>a, None \notin Conns
    <3>4. CASE UNCHANGED <<lease, worker>>
        BY <3>1, <3>4, <2>1, <1>a
    <3> QED
        BY <3>2, <3>3, <3>4
  <2> QED
      BY <2>1, <2>2, <2>3, <1>a, <1>b
<1>6. ASSUME NEW k \in Conns, ServeEnds(k) \/ Cleanup(k) PROVE Registered'
  <2>1. UNCHANGED <<main, down, worker>>
      BY <1>6 DEF ServeEnds, Cleanup
  <2>2. Holds'
      BY <1>6, <1>0, <1>a DEF ServeEnds, Cleanup, GatewayTypes
  <2> QED
      BY <2>1, <2>2, <1>a, <1>b, Zenon
<1>7. ASSUME NEW k \in Conns, Break(k) \/ Silence(k) \/ SilenceEnds(k) PROVE Registered'
  <2>1. /\ UNCHANGED <<main, gateway>>
        /\ UNCHANGED down \/ down' = [down EXCEPT ![k] = <<>>]
      BY <1>7, Zenon DEF Break, Silence, SilenceEnds
  <2>2. Acks'
      BY <2>1, <1>a, <1>0 DEF MessageTypes
  <2> QED
      BY <2>1, <2>2, <1>a, <1>b
<1>8. ASSUME \/ Returns \/ DialFails \/ Wake \/ SendRequest \/ Stop \/ UNCHANGED vars
            \/ \E k \in Conns : AcceptDataStreams(k) \/ HeartbeatLoop(k)
     PROVE  /\ UNCHANGED <<down, worker, gs, lease>>
            /\ UNCHANGED <<run, cur>> \/ run' \in {"dial", "fallback", "sleep", "done"}
    BY <1>8, EndedTypes, Zenon DEF Returns, Return, DialFails, Wake, SendRequest, Stop,
       AcceptDataStreams, HeartbeatLoop, vars
<1>9. ASSUME UNCHANGED <<down, worker, gs, lease>>,
            UNCHANGED <<run, cur>> \/ run' \in {"dial", "fallback", "sleep", "done"}
     PROVE  Registered'
    BY <1>9, <1>a, <1>b
<1> QED
    BY <1>1, <1>2, <1>3, <1>4, <1>5, <1>6, <1>7, <1>8, <1>9, Steps, Zenon
-----------------------------------------------------------------------------
LEMMA StepIInv == IInv /\ [Next]_vars => IInv'
BY TypeStep, CurrentStep, GoroutinesStep, ErrorsStep, RegisteredStep DEF IInv

LEMMA InvariantIInv == Spec => []IInv
BY InitIInv, StepIInv, PTL DEF Spec

\* Every variable keeps its type; in particular no sender of an errCh, whose loop
\* may outlive its connection, ever finds it full.
THEOREM TypeCorrect == Spec => []TypeOK
<1>1. IInv => TypeOK
    BY DEF IInv
<1> QED
    BY <1>1, InvariantIInv, PTL

\* The client never has two open tunnels.
THEOREM TunnelsClosed == Spec => []OneTunnel
<1>1. IInv => OneTunnel
    BY DEF IInv
<1> QED
    BY <1>1, InvariantIInv, PTL

\* A client that believes it is registered holds the namespace, until the gateway
\* ends its session.
THEOREM RegistrationTrue == Spec => []ConnectedIsRegistered
<1>1. IInv => ConnectedIsRegistered
  <2> SUFFICES ASSUME IInv, run = "connected", gs[cur] = "serving" PROVE lease = cur
      BY DEF ConnectedIsRegistered
  <2>1. cur \in Conns
      BY CurrentConn
  <2> QED
      BY <2>1 DEF IInv, Registered
<1> QED
    BY <1>1, InvariantIInv, PTL

\* Left-over goroutines of earlier connections never end a healthy one.
THEOREM ConnectionKept == Spec => KeptWhileHealthy
<1> DEFINE Kept == run = "connected" /\ run' = "sleep" => link[cur] = "broken" \/ cur \in gclosed
<1>1. IInv /\ [Next]_vars => [Kept]_vars
  <2> SUFFICES ASSUME IInv, Next, run = "connected", run' = "sleep"
               PROVE  link[cur] = "broken" \/ cur \in gclosed
      BY DEF vars
  <2>1. cur \in Conns /\ cur \notin cclosed
      BY CurrentConn
  <2>2. ConnectionLost /\ ~stop
    <3>1. ~awaiting
        BY DEF IInv, Current, Phases
    <3>2. ASSUME NEW k \in Conns,
                 \/ AcceptDataStreams(k) \/ ReceiveControlMessages(k) \/ HeartbeatLoop(k)
                 \/ Serve(k) \/ Break(k) \/ Silence(k) \/ SilenceEnds(k)
          PROVE  FALSE
        BY <3>2 DEF Serve, Serves, ServeAuth, ServeRegister, ServeUpdate, ServeEnds, Cleanup,
           AcceptDataStreams, ReceiveControlMessages, HeartbeatLoop, Break, Silence, SilenceEnds
    <3>3. ~GatewayRestart /\ ~WorkerRestart /\ ~Stop
        BY DEF GatewayRestart, WorkerRestart, Stop
    <3>4. Main => ConnectionLost
        BY <3>1 DEF Main, Wake, DialQUICFails, DialWebSocketFails, DialQUICTunnel,
           DialWebSocketTunnel, DialsWebSocket, SendRequest, SendFails, AwaitAck, Rejected,
           AwaitFails, Phases
    <3>5. ConnectionLost => ~stop
        BY DEF ConnectionLost, Return, Ended
    <3> QED
        BY <3>2, <3>3, <3>4, <3>5, Zenon DEF Next
  <2>3. errs[cur] > 0
      BY <2>2 DEF ConnectionLost
  <2> QED
      BY <2>1, <2>3 DEF IInv, ErrorsTrue
<1> QED
    BY <1>1, InvariantIInv, PTL DEF Spec, KeptWhileHealthy
=============================================================================
