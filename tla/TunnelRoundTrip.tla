-------------------------- MODULE TunnelRoundTrip --------------------------
(***************************************************************************)
(* Requests through the tunnel of one registered worker: the gateway's     *)
(* doTunnelRequestWithSession with its watcher and its body pump, the      *)
(* request half of SessionManager, and the worker's handleDataStream.      *)
(*                                                                         *)
(* For each request there are four actors: the goroutine that runs the     *)
(* round trip and then pumps the body, the watcher of its context, the     *)
(* consumer that reads the body for the client, and the worker's handler.  *)
(* A step is what one of them does up to a blocking call, a lock or a      *)
(* channel operation.  The frames of a response are a head, chunks and a   *)
(* tail (EOF or Error); as a stream keeps their order, only their number   *)
(* in flight is kept.                                                      *)
(***************************************************************************)
EXTENDS Integers, FiniteSets

CONSTANTS Requests,   \* ids made by buildTunnelRequestID, never equal
          Transport,  \* of the tunnel: "websocket" (with smux) or "quic"
          Limits,     \* concurrency limits the worker announces, 0 = none
          MaxChunks   \* bound: body chunks of a response

ASSUME RequestsAssumption == IsFiniteSet(Requests)
ASSUME TransportAssumption == Transport \in {"websocket", "quic"}
ASSUME LimitsAssumption == Limits \subseteq Nat
ASSUME ChunksAssumption == MaxChunks \in Nat

VARIABLES
    \* GatewaySession and SessionManager
    limit, active,     \* ConcurrencyLimit and activeRequests
    tracked,           \* SessionManager.requests
    session, tunnel,   \* "live" until Release has run; "open" or "closed"
    \* the round trip, per request
    g,                 \* next step of its goroutine
    completed,         \* requests whose channel completed is closed
    cancelled,         \* requests whose own cancel function was called
    gwClosed,          \* requests whose stream the gateway closed
    w,                 \* next step of the watcher
    \* the client
    gone,              \* requests whose client has disconnected
    got, body,         \* chunks read, and the state of the response body
    \* the stream, from the worker to the gateway
    head, flight, tail, fin,
    \* the worker
    h,                 \* next step of handleDataStream
    local,             \* Client.requestCancels
    lcancelled,        \* requests whose local context is cancelled
    cancels,           \* cancel_request messages under way
    sent,              \* chunks written
    \* history
    holds,             \* requests between TryAcquireRequest and their end
    announced,         \* limits announced so far
    told               \* requests a cancel_request was sent for

slotVars == <<limit, active, holds, announced>>
sessVars == <<tracked, session, tunnel>>
tripVars == <<completed, cancelled, gwClosed>>
watchVars == <<w, cancels, told>>
clientVars == <<gone, got, body>>
streamVars == <<head, flight, tail, fin>>
workerVars == <<h, local, lcancelled, sent>>
vars == <<g, slotVars, sessVars, tripVars, watchVars, clientVars, streamVars,
          workerVars>>

TripPC == {"idle", "found", "acquired", "opened", "tracked", "waiting", "pumping",
           "writing", "complete", "release", "ended"}

SlotTypes ==
    /\ limit \in Nat /\ active \in Int
    /\ holds \in SUBSET Requests /\ announced \in SUBSET Nat

TripTypes ==
    /\ tracked \in SUBSET Requests
    /\ session \in {"live", "released"} /\ tunnel \in {"open", "closed"}
    /\ g \in [Requests -> TripPC]
    /\ w \in [Requests -> {"off", "watching", "notify", "close"}]
    /\ completed \in SUBSET Requests /\ cancelled \in SUBSET Requests
    /\ gwClosed \in SUBSET Requests
    /\ gone \in SUBSET Requests /\ told \in SUBSET Requests

FrameTypes ==
    /\ got \in [Requests -> 0..MaxChunks]
    /\ body \in [Requests -> {"none", "open", "eof", "error", "closed"}]
    /\ flight \in [Requests -> 0..MaxChunks]
    /\ tail \in [Requests -> {"none", "eof", "error"}]
    /\ h \in [Requests -> {"none", "read", "running", "responding", "done", "failed"}]
    /\ sent \in [Requests -> 0..MaxChunks]
    /\ head \in SUBSET Requests /\ fin \in SUBSET Requests

WorkerTypes ==
    /\ local \in SUBSET Requests /\ lcancelled \in SUBSET Requests
    /\ cancels \in SUBSET Requests

\* Every variable of the round trip has its type.
TypeOK == SlotTypes /\ TripTypes /\ FrameTypes /\ WorkerTypes

Init ==
    /\ limit \in Limits /\ active = 0
    /\ tracked = {} /\ session = "live" /\ tunnel = "open"
    /\ g = [r \in Requests |-> "idle"]
    /\ completed = {} /\ cancelled = {} /\ gwClosed = {}
    /\ w = [r \in Requests |-> "off"]
    /\ gone = {} /\ got = [r \in Requests |-> 0] /\ body = [r \in Requests |-> "none"]
    /\ head = {} /\ flight = [r \in Requests |-> 0]
    /\ tail = [r \in Requests |-> "none"] /\ fin = {}
    /\ h = [r \in Requests |-> "none"]
    /\ local = {} /\ lcancelled = {} /\ cancels = {}
    /\ sent = [r \in Requests |-> 0]
    /\ holds = {} /\ announced = {limit} /\ told = {}

Goto(r, label) == g' = [g EXCEPT ![r] = label]

\* requestCtx is done: its own cancel was called or the client's context ended.
CtxDone(r) == r \in cancelled \cup gone

\* Frames cannot be written, nor read for sure.  The gateway's Close of a stream
\* ends both directions with smux and its own direction only with QUIC.
Broken(r) == tunnel = "closed" \/ (Transport = "websocket" /\ r \in gwClosed)
-----------------------------------------------------------------------------
(* The session around the requests.                                        *)

\* A heartbeat or a model sync announces a limit; 0 is ignored.
AnnounceLimit ==
    /\ session = "live" /\ tunnel = "open"
    /\ \E l \in Limits \ {0} :
         limit' = l /\ announced' = announced \cup {l}
    /\ UNCHANGED <<g, active, holds, sessVars, tripVars, watchVars, clientVars,
                   streamVars, workerVars>>

\* The tunnel breaks: the network, or the worker's process or reconnect.
LoseTunnel ==
    /\ tunnel = "open"
    /\ tunnel' = "closed"
    /\ UNCHANGED <<g, slotVars, tracked, session, tripVars, watchVars, clientVars,
                   streamVars, workerVars>>

\* SessionManager.Release, when the control loop has ended for any reason,
\* cancels every request it finds.
ReleaseSession ==
    /\ session = "live"
    /\ session' = "released"
    /\ cancelled' = cancelled \cup tracked
    /\ tracked' = {}
    /\ UNCHANGED <<g, slotVars, tunnel, completed, gwClosed, watchVars, clientVars,
                   streamVars, workerVars>>

\* GatewaySession.Close follows Release.
CloseSession ==
    /\ session = "released" /\ tunnel = "open"
    /\ tunnel' = "closed"
    /\ UNCHANGED <<g, slotVars, tracked, session, tripVars, watchVars, clientVars,
                   streamVars, workerVars>>
-----------------------------------------------------------------------------
(* DoTunnelRequest and doTunnelRequestWithSession.                         *)

\* GetSessionByChannelID.
Lookup(r) ==
    /\ g[r] = "idle"
    /\ Goto(r, IF session = "live" THEN "found" ELSE "ended")
    /\ UNCHANGED <<slotVars, sessVars, tripVars, watchVars, clientVars, streamVars,
                   workerVars>>

\* Mutant: the limit itself is still accepted.
TryAcquireRequestOneMore(r) ==
    /\ g[r] = "found" /\ active <= limit
    /\ Goto(r, "acquired") /\ holds' = holds \cup {r} /\ active' = active + 1
    /\ UNCHANGED <<limit, announced, sessVars, tripVars, watchVars, clientVars,
                   streamVars, workerVars>>

\* TryAcquireRequest: without a limit nothing is counted.
TryAcquireRequest(r) ==
    /\ g[r] = "found"
    /\ \/ /\ limit = 0
          /\ Goto(r, "acquired") /\ holds' = holds \cup {r} /\ UNCHANGED active
       \/ /\ limit > 0 /\ active < limit
          /\ Goto(r, "acquired") /\ holds' = holds \cup {r} /\ active' = active + 1
       \/ /\ limit > 0 /\ active >= limit          \* concurrency limit exceeded
          /\ Goto(r, "ended") /\ UNCHANGED <<holds, active>>
    /\ UNCHANGED <<limit, announced, sessVars, tripVars, watchVars, clientVars,
                   streamVars, workerVars>>

\* Mutant: the slot is not given back.
ReleaseRequestLost(r) == holds' = holds \ {r} /\ UNCHANGED <<limit, active, announced>>

\* ReleaseRequest: decrements if there is a limit now.
ReleaseRequest(r) ==
    /\ active' = IF limit > 0 THEN active - 1 ELSE active
    /\ holds' = holds \ {r}
    /\ UNCHANGED <<limit, announced>>

\* Tunnel.OpenStream: a broken tunnel fails it and, with QUIC, a cancelled context.
OpenStream(r) ==
    /\ g[r] = "acquired"
    /\ \/ tunnel = "open" /\ Goto(r, "opened") /\ UNCHANGED slotVars
       \/ /\ tunnel = "closed" \/ (Transport = "quic" /\ r \in gone)
          /\ Goto(r, "ended") /\ ReleaseRequest(r)
    /\ UNCHANGED <<sessVars, tripVars, watchVars, clientVars, streamVars, workerVars>>

TrackRequest(r) ==
    /\ g[r] = "opened"
    /\ tracked' = tracked \cup {r}
    /\ Goto(r, "tracked")
    /\ UNCHANGED <<slotVars, session, tunnel, tripVars, watchVars, clientVars,
                   streamVars, workerVars>>

\* The request is written and the watcher is started; the worker will read it.
WriteRequest(r) ==
    /\ g[r] = "tracked" /\ tunnel = "open"
    /\ Goto(r, "waiting")
    /\ w' = [w EXCEPT ![r] = "watching"]
    /\ h' = [h EXCEPT ![r] = "read"]
    /\ UNCHANGED <<slotVars, sessVars, tripVars, cancels, told, clientVars,
                   streamVars, local, lcancelled, sent>>

\* Mutant: the failed request stays in the table.
WriteRequestFailsTracked(r) ==
    /\ g[r] = "tracked" /\ tunnel = "closed"
    /\ Goto(r, "ended")
    /\ gwClosed' = gwClosed \cup {r}
    /\ cancelled' = cancelled \cup {r}
    /\ holds' = holds \ {r}
    /\ UNCHANGED <<limit, active, announced, sessVars, completed, watchVars,
                   clientVars, streamVars, workerVars>>

\* It cannot be written.  This path does not call ReleaseRequest.
WriteRequestFails(r) ==
    /\ g[r] = "tracked" /\ tunnel = "closed"
    /\ Goto(r, "ended")
    /\ gwClosed' = gwClosed \cup {r}
    /\ tracked' = tracked \ {r}
    /\ cancelled' = cancelled \cup {r}
    /\ holds' = holds \ {r}
    /\ UNCHANGED <<limit, active, announced, session, tunnel, completed, watchVars,
                   clientVars, streamVars, workerVars>>

\* The first frame: a head makes the response, everything else ends the round
\* trip with an error.  A first frame that also has data or the end is left out:
\* the worker sends the head alone.
ReadFirstFrame(r) ==
    /\ g[r] = "waiting"
    /\ \/ /\ r \in head
          /\ head' = head \ {r}
          /\ body' = [body EXCEPT ![r] = "open"]
          /\ Goto(r, "pumping")
          /\ UNCHANGED <<gwClosed, tail>>
       \/ /\ r \notin head /\ tail[r] = "error"
          /\ tail' = [tail EXCEPT ![r] = "none"]
          /\ gwClosed' = gwClosed \cup {r}
          /\ Goto(r, "complete")
          /\ UNCHANGED <<head, body>>
       \/ /\ Broken(r) \/ (r \in fin /\ r \notin head /\ tail[r] = "none")
          /\ gwClosed' = gwClosed \cup {r}
          /\ Goto(r, "complete")
          /\ UNCHANGED <<head, tail, body>>
    /\ UNCHANGED <<slotVars, sessVars, completed, cancelled, watchVars, gone, got,
                   flight, fin, workerVars>>

\* pipeWriter.Close and CloseWithError, for a consumer that still reads.
EndBody(r, how) ==
    body' = [body EXCEPT ![r] = IF body[r] = "open" THEN how ELSE body[r]]

\* pumpTunnelBody reads the next frame.  CloseWithError passes an error on as it
\* is, and the error is io.EOF, which the consumer takes for the end, if the
\* worker has closed the stream without a last frame and possibly if this side
\* has closed it.
ReadFrame(r) ==
    /\ g[r] = "pumping"
    /\ \/ /\ flight[r] > 0
          /\ flight' = [flight EXCEPT ![r] = @ - 1]
          /\ Goto(r, "writing")
          /\ UNCHANGED <<tail, body>>
       \/ /\ flight[r] = 0 /\ tail[r] # "none"
          /\ tail' = [tail EXCEPT ![r] = "none"]
          /\ EndBody(r, tail[r])
          /\ Goto(r, "complete")
          /\ UNCHANGED flight
       \/ /\ Broken(r)
          /\ \E how \in {"error", "eof"} : EndBody(r, how)
          /\ Goto(r, "complete")
          /\ UNCHANGED <<flight, tail>>
       \/ /\ r \in fin /\ flight[r] = 0 /\ tail[r] = "none"
          /\ EndBody(r, "eof")
          /\ Goto(r, "complete")
          /\ UNCHANGED <<flight, tail>>
    /\ UNCHANGED <<slotVars, sessVars, tripVars, watchVars, gone, got, head, fin,
                   workerVars>>

\* Mutant: a chunk is written twice.
WriteChunkTwice(r) ==
    /\ g[r] = "writing"
    /\ got' = [got EXCEPT ![r] = @ + 2]
    /\ Goto(r, "pumping")
    /\ UNCHANGED <<slotVars, sessVars, tripVars, watchVars, gone, body, streamVars,
                   workerVars>>

\* pipeWriter.Write returns when the consumer has read the chunk or has closed
\* the body.
WriteChunk(r) ==
    /\ g[r] = "writing"
    /\ \/ /\ body[r] = "open"
          /\ got' = [got EXCEPT ![r] = @ + 1]
          /\ Goto(r, "pumping")
       \/ /\ body[r] = "closed"
          /\ Goto(r, "complete")
          /\ UNCHANGED got
    /\ UNCHANGED <<slotVars, sessVars, tripVars, watchVars, gone, body, streamVars,
                   workerVars>>

\* Mutant: the context is cancelled before the channel is closed.
CompleteLate(r) ==
    /\ g[r] = "complete"
    /\ cancelled' = cancelled \cup {r}
    /\ Goto(r, "release")
    /\ UNCHANGED <<slotVars, sessVars, completed, gwClosed, watchVars, clientVars,
                   streamVars, workerVars>>

\* cleanup: the channel is closed before the context is cancelled.
Complete(r) ==
    /\ g[r] = "complete"
    /\ completed' = completed \cup {r}
    /\ Goto(r, "release")
    /\ UNCHANGED <<slotVars, sessVars, cancelled, gwClosed, watchVars, clientVars,
                   streamVars, workerVars>>

\* The rest of cleanup; the stream is closed and with it go unread frames.
Cleanup(r) ==
    /\ g[r] = "release"
    /\ cancelled' = cancelled \cup {r}
    /\ tracked' = tracked \ {r}
    /\ ReleaseRequest(r)
    /\ gwClosed' = gwClosed \cup {r}
    /\ head' = head \ {r} /\ fin' = fin \ {r}
    /\ flight' = [flight EXCEPT ![r] = 0]
    /\ tail' = [tail EXCEPT ![r] = "none"]
    /\ Goto(r, "ended")
    /\ UNCHANGED <<session, tunnel, completed, watchVars, clientVars, workerVars>>
-----------------------------------------------------------------------------
(* watchTunnelContext.                                                     *)

\* The outer select may choose either channel that is ready; after ctx.Done it
\* looks at completed once more.
Watch(r) ==
    /\ w[r] = "watching"
    /\ r \in completed \/ CtxDone(r)
    /\ w' = [w EXCEPT ![r] = IF r \in completed THEN "off" ELSE "notify"]
    /\ UNCHANGED <<g, slotVars, sessVars, tripVars, cancels, told, clientVars,
                   streamVars, workerVars>>

\* SendCancelRequest on the control stream; its error is ignored.
SendCancelRequest(r) ==
    /\ w[r] = "notify"
    /\ w' = [w EXCEPT ![r] = "close"]
    /\ told' = told \cup {r}
    /\ cancels' = IF tunnel = "open" THEN cancels \cup {r} ELSE cancels
    /\ UNCHANGED <<g, slotVars, sessVars, tripVars, clientVars, streamVars, workerVars>>

\* Mutant: the watcher leaves the stream open.
StreamLeftOpen(r) ==
    /\ w[r] = "close"
    /\ w' = [w EXCEPT ![r] = "off"]
    /\ UNCHANGED <<g, slotVars, sessVars, tripVars, cancels, told, clientVars,
                   streamVars, workerVars>>

CloseStream(r) ==
    /\ w[r] = "close"
    /\ w' = [w EXCEPT ![r] = "off"]
    /\ gwClosed' = gwClosed \cup {r}
    /\ UNCHANGED <<g, slotVars, sessVars, completed, cancelled, cancels, told,
                   clientVars, streamVars, workerVars>>
-----------------------------------------------------------------------------
(* The client of the gateway, and the handler that copies the body to it.  *)

Disconnect(r) ==
    /\ r \notin gone /\ g[r] \notin {"idle", "ended"}
    /\ gone' = gone \cup {r}
    /\ UNCHANGED <<g, slotVars, sessVars, tripVars, watchVars, got, body, streamVars,
                   workerVars>>

\* The handler closes the body when its client is gone.
CloseBody(r) ==
    /\ r \in gone /\ body[r] = "open"
    /\ body' = [body EXCEPT ![r] = "closed"]
    /\ UNCHANGED <<g, slotVars, sessVars, tripVars, watchVars, gone, got, streamVars,
                   workerVars>>
-----------------------------------------------------------------------------
(* The worker: handleDataStream, doLocalRoundTrip, writeHTTPResponse.      *)

\* Mutant: the handler closes the stream without an Error frame.
HandlerReturnsSilently(r, last) ==
    /\ h' = [h EXCEPT ![r] = IF last = "eof" THEN "done" ELSE "failed"]
    /\ local' = local \ {r}
    /\ IF Broken(r)
         THEN UNCHANGED <<fin, tail>>
         ELSE /\ fin' = fin \cup {r}
              /\ tail' = IF last = "eof" THEN [tail EXCEPT ![r] = last] ELSE tail

\* The handler writes its last frame and returns: its deferred functions forget
\* the request and close the stream.
HandlerReturns(r, last) ==
    /\ h' = [h EXCEPT ![r] = IF last = "eof" THEN "done" ELSE "failed"]
    /\ local' = local \ {r}
    /\ IF Broken(r)
         THEN UNCHANGED <<fin, tail>>
         ELSE fin' = fin \cup {r} /\ tail' = [tail EXCEPT ![r] = last]

\* The request cannot be prepared: no such model, a bad target or body.
RejectRequest(r) ==
    /\ h[r] = "read"
    /\ HandlerReturns(r, "error")
    /\ UNCHANGED <<g, slotVars, sessVars, tripVars, watchVars, clientVars, head,
                   flight, lcancelled, sent>>

\* trackLocalRequest, and the request to the local backend is on its way.
TrackLocalRequest(r) ==
    /\ h[r] = "read"
    /\ h' = [h EXCEPT ![r] = "running"]
    /\ local' = local \cup {r}
    /\ UNCHANGED <<g, slotVars, sessVars, tripVars, watchVars, clientVars, streamVars,
                   lcancelled, sent>>

\* The backend answers and the head is written.
LocalResponse(r) ==
    /\ h[r] = "running" /\ r \notin lcancelled /\ ~Broken(r)
    /\ h' = [h EXCEPT ![r] = "responding"]
    /\ head' = head \cup {r}
    /\ UNCHANGED <<g, slotVars, sessVars, tripVars, watchVars, clientVars, flight, tail,
                   fin, local, lcancelled, sent>>

SendChunk(r) ==
    /\ h[r] = "responding" /\ r \notin lcancelled /\ ~Broken(r)
    /\ sent[r] < MaxChunks
    /\ sent' = [sent EXCEPT ![r] = @ + 1]
    /\ flight' = [flight EXCEPT ![r] = @ + 1]
    /\ UNCHANGED <<g, slotVars, sessVars, tripVars, watchVars, clientVars, head, tail,
                   fin, h, local, lcancelled>>

\* The backend's body ends.
SendEOF(r) ==
    /\ h[r] = "responding" /\ r \notin lcancelled
    /\ HandlerReturns(r, "eof")
    /\ UNCHANGED <<g, slotVars, sessVars, tripVars, watchVars, clientVars, head,
                   flight, lcancelled, sent>>

\* The backend fails or its request is cancelled, before or after the head; or
\* the next frame cannot be written.
LocalFails(r) ==
    /\ h[r] \in {"running", "responding"}
    /\ HandlerReturns(r, "error")
    /\ UNCHANGED <<g, slotVars, sessVars, tripVars, watchVars, clientVars, head,
                   flight, lcancelled, sent>>

\* receiveControlMessages: cancelLocalRequest cancels what is tracked, and
\* forgets a cancel for anything else.
CancelLocalRequest(r) ==
    /\ r \in cancels
    /\ cancels' = cancels \ {r}
    /\ lcancelled' = IF r \in local THEN lcancelled \cup {r} ELSE lcancelled
    /\ UNCHANGED <<g, slotVars, sessVars, tripVars, w, told, clientVars, streamVars,
                   h, local, sent>>
-----------------------------------------------------------------------------
Trip(r) ==
    \/ Lookup(r) \/ TryAcquireRequest(r) \/ OpenStream(r) \/ TrackRequest(r)
    \/ WriteRequest(r) \/ WriteRequestFails(r) \/ ReadFirstFrame(r)
    \/ ReadFrame(r) \/ WriteChunk(r) \/ Complete(r) \/ Cleanup(r)

Watcher(r) == Watch(r) \/ SendCancelRequest(r) \/ CloseStream(r)

Consumer(r) == Disconnect(r) \/ CloseBody(r)

Handler(r) ==
    \/ RejectRequest(r) \/ TrackLocalRequest(r) \/ LocalResponse(r) \/ SendChunk(r)
    \/ SendEOF(r) \/ LocalFails(r) \/ CancelLocalRequest(r)

Session == AnnounceLimit \/ LoseTunnel \/ ReleaseSession \/ CloseSession

Next ==
    \/ Session
    \/ \E r \in Requests : Trip(r) \/ Watcher(r) \/ Consumer(r) \/ Handler(r)

\* The gateway's goroutines run; a handler whose client is gone closes the
\* body.  Nothing is assumed of the worker or of the network.
Fairness ==
    /\ WF_vars(CloseSession)
    /\ \A r \in Requests :
       /\ WF_vars(g[r] # "idle" /\ Trip(r))
       /\ WF_vars(Watcher(r))
       /\ WF_vars(CloseBody(r))

Spec == Init /\ [][Next]_vars
FairSpec == Spec /\ Fairness
-----------------------------------------------------------------------------
(* Properties.                                                             *)

\* While the tunnel works, activeRequests counts exactly the requests that
\* passed TryAcquireRequest and have not ended, on every path through the round
\* trip: a slot is neither lost nor given back twice.  (For a worker that
\* always announces a limit; the path that gives no slot back, WriteRequestFails,
\* needs a tunnel that is broken, and then the session ends and its counter with it.)
SlotsAccounted ==
    tunnel = "open" /\ 0 \notin announced => active = Cardinality(holds)

\* A worker never has more requests than the largest limit it announced, also
\* while heartbeats raise and lower it.
WithinLimit ==
    0 \notin announced => \E l \in announced : Cardinality(holds) <= l

\* SessionManager.requests has every request that waits for the worker, so that
\* Release can cancel it, unless Release has done so; and no request that ended.
TrackedWhileLive ==
    \A r \in Requests :
       /\ g[r] \in {"waiting", "pumping", "writing", "complete"} =>
             r \in tracked \cup cancelled
       /\ g[r] \in {"idle", "found", "acquired", "opened", "ended"} => r \notin tracked

\* A worker is told to cancel a request only if its client has gone or the
\* session is being released, never because the request has completed.
CancelOnlyIfAbandoned == \A r \in told : r \in gone \/ session = "released"

\* The body of r does not end without an error too early in this step.
EndsComplete(r) ==
    body[r] = "open" /\ body'[r] = "eof" =>
       Broken(r) \/ (h[r] = "done" /\ got[r] = sent[r])

\* pumpTunnelBody ends a body without an error only if it is complete: the
\* consumer got every chunk of a response that the worker read to its end.  Only
\* a stream that is closed or broken on this side may do so earlier.
CleanEndIsComplete == [][\A r \in Requests : EndsComplete(r)]_vars

\* A request whose client has gone, or whose worker has lost its tunnel, ends
\* and gives back what it holds, whatever the worker's backend does.
AbandonedEnds ==
    \A r \in Requests :
       (r \in gone \/ (tunnel = "closed" /\ g[r] # "idle")) ~> (g[r] = "ended")
-----------------------------------------------------------------------------
(* The inductive invariant behind the safety properties.                   *)

\* A request counts from TryAcquireRequest to its end.
HoldsWhileRunning ==
    \A r \in Requests :
       r \in holds <=> g[r] \notin {"idle", "found", "ended"}

CountCovers ==
    /\ limit \in announced
    /\ 0 \notin announced => Cardinality(holds) <= active

\* The watcher runs beside a written request, and a context is cancelled by
\* Release, after completion, or where there is no watcher.
WatchPhases ==
    \A r \in Requests :
       /\ g[r] \in {"idle", "found", "acquired", "opened", "tracked"} => w[r] = "off"
       /\ g[r] = "tracked" => r \in tracked \cup cancelled
       /\ g[r] = "release" => r \in completed
       /\ r \in cancelled => \/ r \in completed \/ session = "released"
                             \/ g[r] = "ended" /\ w[r] = "off"
       /\ w[r] = "notify" => r \in gone \/ session = "released"

\* Where the frames of a response are.
Frames ==
    \A r \in Requests :
       /\ g[r] \in {"idle", "found", "acquired", "opened", "tracked"} =>
             h[r] = "none" /\ body[r] = "none"
       /\ h[r] = "none" => r \notin fin /\ tail[r] = "none" /\ sent[r] = 0
       /\ r \in fin /\ g[r] \in {"waiting", "pumping", "writing"} => tail[r] # "none"
       /\ tail[r] = "eof" => h[r] = "done"
       /\ tail[r] # "none" => h[r] \in {"done", "failed"}
       /\ g[r] \in {"pumping", "writing"} => body[r] \in {"open", "closed"}
       /\ g[r] = "waiting" => body[r] = "none"
       /\ got[r] + flight[r] <= sent[r]
       /\ g[r] \in {"idle", "found", "acquired", "opened", "tracked", "waiting", "pumping"} =>
             got[r] + flight[r] = sent[r]
       /\ g[r] = "writing" => got[r] + flight[r] + 1 = sent[r]

IInv ==
    /\ TypeOK /\ HoldsWhileRunning /\ CountCovers /\ SlotsAccounted /\ WithinLimit
    /\ TrackedWhileLive /\ WatchPhases /\ CancelOnlyIfAbandoned
    /\ Frames
=============================================================================
