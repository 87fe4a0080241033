---------------------- MODULE TunnelRoundTrip_proofs ----------------------
(* Proofs of the safety properties of TunnelRoundTrip for any finite set of *)
(* requests, any limits and any number of chunks.  IInv adds to the         *)
(* properties where a request holds a slot, who may have cancelled its      *)
(* context, and where the chunks of its response are.                       *)
EXTENDS TunnelRoundTrip, FiniteSetTheorems, TLAPS

USE RequestsAssumption, LimitsAssumption, ChunksAssumption
    DEF slotVars, sessVars, tripVars, watchVars, clientVars, streamVars, workerVars,
        Goto
-----------------------------------------------------------------------------
\* The invariant holds before the first request.
LEMMA InitIInv == Init => IInv
<1> SUFFICES ASSUME Init PROVE IInv
    OBVIOUS
<1>1. TypeOK
    BY DEF Init, TypeOK, SlotTypes, TripTypes, FrameTypes, WorkerTypes, TripPC
<1>2. HoldsWhileRunning /\ TrackedWhileLive /\ WatchPhases /\ CancelOnlyIfAbandoned
    BY DEF Init, HoldsWhileRunning, TrackedWhileLive, WatchPhases,
       CancelOnlyIfAbandoned
<1>3. Frames
    BY DEF Init, Frames
<1>4. CountCovers /\ SlotsAccounted /\ WithinLimit
  <2>1. Cardinality(holds) = 0
      BY FS_EmptySet DEF Init
  <2> QED
      BY <2>1 DEF Init, CountCovers, SlotsAccounted, WithinLimit
<1> QED
    BY <1>1, <1>2, <1>3, <1>4 DEF IInv

\* Types are kept.
LEMMA TypeStep == IInv /\ [Next]_vars => TypeOK'
<1> SUFFICES ASSUME IInv, [Next]_vars PROVE TypeOK'
    OBVIOUS
<1>0. SlotTypes /\ TripTypes /\ FrameTypes /\ WorkerTypes /\ Frames
    BY DEF IInv, TypeOK
<1> USE DEF TypeOK, SlotTypes, TripTypes, FrameTypes, WorkerTypes, TripPC
<1>1. CASE UNCHANGED vars
    BY <1>1, <1>0 DEF vars
<1>2. CASE Session
  <2>1. CASE AnnounceLimit
      BY <2>1, <1>0 DEF AnnounceLimit
  <2>2. CASE LoseTunnel
      BY <2>2, <1>0 DEF LoseTunnel
  <2>3. CASE ReleaseSession
      BY <2>3, <1>0 DEF ReleaseSession
  <2>4. CASE CloseSession
      BY <2>4, <1>0 DEF CloseSession
  <2> HIDE DEF TypeOK, SlotTypes, TripTypes, FrameTypes, WorkerTypes, TripPC
  <2> QED
      BY <1>2, <2>1, <2>2, <2>3, <2>4, Zenon DEF Session
<1>3. ASSUME NEW r \in Requests, Trip(r) PROVE TypeOK'
  <2>1. CASE Lookup(r)
      BY <2>1, <1>0 DEF Lookup
  <2>2. CASE TryAcquireRequest(r)
      BY <2>2, <1>0 DEF TryAcquireRequest
  <2>3. CASE OpenStream(r)
    <3>1. CASE UNCHANGED slotVars
        BY <3>1, <2>3, <1>0 DEF OpenStream
    <3>2. CASE ReleaseRequest(r)
        BY <3>2, <2>3, <1>0 DEF OpenStream, ReleaseRequest
    <3> QED
        BY <3>1, <3>2, <2>3 DEF OpenStream
  <2>4. CASE TrackRequest(r)
      BY <2>4, <1>0 DEF TrackRequest
  <2>5. CASE WriteRequest(r)
      BY <2>5, <1>0 DEF WriteRequest
  <2>6. CASE WriteRequestFails(r)
      BY <2>6, <1>0 DEF WriteRequestFails
  <2>7. CASE ReadFirstFrame(r)
      BY <2>7, <1>0 DEF ReadFirstFrame, Broken
  <2>8. CASE ReadFrame(r)
      BY <2>8, <1>0 DEF ReadFrame, Broken, EndBody
  <2>9. CASE WriteChunk(r)
      BY <2>9, <1>0 DEF WriteChunk, Frames
  <2>10. CASE Complete(r)
      BY <2>10, <1>0 DEF Complete
  <2>11. CASE Cleanup(r)
      BY <2>11, <1>0 DEF Cleanup, ReleaseRequest
  <2> HIDE DEF TypeOK, SlotTypes, TripTypes, FrameTypes, WorkerTypes, TripPC
  <2> QED
      BY <1>3, <2>1, <2>2, <2>3, <2>4, <2>5, <2>6, <2>7, <2>8, <2>9, <2>10,
         <2>11, Zenon DEF Trip
<1>4. ASSUME NEW r \in Requests, Watcher(r) PROVE TypeOK'
  <2>1. CASE Watch(r)
      BY <2>1, <1>0 DEF Watch, CtxDone
  <2>2. CASE SendCancelRequest(r)
      BY <2>2, <1>0 DEF SendCancelRequest
  <2>3. CASE CloseStream(r)
      BY <2>3, <1>0 DEF CloseStream
  <2> HIDE DEF TypeOK, SlotTypes, TripTypes, FrameTypes, WorkerTypes, TripPC
  <2> QED
      BY <1>4, <2>1, <2>2, <2>3, Zenon DEF Watcher
<1>5. ASSUME NEW r \in Requests, Consumer(r) PROVE TypeOK'
  <2>1. CASE Disconnect(r)
      BY <2>1, <1>0 DEF Disconnect
  <2>2. CASE CloseBody(r)
      BY <2>2, <1>0 DEF CloseBody
  <2> HIDE DEF TypeOK, SlotTypes, TripTypes, FrameTypes, WorkerTypes, TripPC
  <2> QED
      BY <1>5, <2>1, <2>2, Zenon DEF Consumer
<1>6. ASSUME NEW r \in Requests, Handler(r) PROVE TypeOK'
  <2>1. CASE RejectRequest(r)
      BY <2>1, <1>0 DEF RejectRequest, HandlerReturns, Broken
  <2>2. CASE TrackLocalRequest(r)
      BY <2>2, <1>0 DEF TrackLocalRequest
  <2>3. CASE LocalResponse(r)
      BY <2>3, <1>0 DEF LocalResponse, Broken
  <2>4. CASE SendChunk(r)
      BY <2>4, <1>0 DEF SendChunk, Broken, Frames
  <2>5. CASE SendEOF(r)
      BY <2>5, <1>0 DEF SendEOF, HandlerReturns, Broken
  <2>6. CASE LocalFails(r)
      BY <2>6, <1>0 DEF LocalFails, HandlerReturns, Broken
  <2>7. CASE CancelLocalRequest(r)
      BY <2>7, <1>0 DEF CancelLocalRequest
  <2> HIDE DEF TypeOK, SlotTypes, TripTypes, FrameTypes, WorkerTypes, TripPC
  <2> QED
      BY <1>6, <2>1, <2>2, <2>3, <2>4, <2>5, <2>6, <2>7, Zenon DEF Handler
<1> HIDE DEF TypeOK, SlotTypes, TripTypes, FrameTypes, WorkerTypes, TripPC
<1> QED
    BY <1>1, <1>2, <1>3, <1>4, <1>5, <1>6, Zenon DEF Next

\* Frames are neither lost nor invented.
LEMMA FramesStep == IInv /\ [Next]_vars => Frames'
<1> SUFFICES ASSUME IInv, [Next]_vars PROVE Frames'
    OBVIOUS
<1>0. TripTypes /\ FrameTypes /\ Frames
    BY DEF IInv, TypeOK
<1> USE DEF TripTypes, TripPC, FrameTypes, Frames
<1>1. CASE UNCHANGED vars
    BY <1>1, <1>0 DEF vars
<1>2. CASE Session
  <2>1. CASE AnnounceLimit
      BY <2>1, <1>0 DEF AnnounceLimit
  <2>2. CASE LoseTunnel
      BY <2>2, <1>0 DEF LoseTunnel
  <2>3. CASE ReleaseSession
      BY <2>3, <1>0 DEF ReleaseSession
  <2>4. CASE CloseSession
      BY <2>4, <1>0 DEF CloseSession
  <2> HIDE DEF TripTypes, TripPC, FrameTypes, Frames
  <2> QED
      BY <1>2, <2>1, <2>2, <2>3, <2>4, Zenon DEF Session
<1>3. ASSUME NEW r \in Requests, Trip(r) PROVE Frames'
  <2>1. CASE Lookup(r)
      BY <2>1, <1>0 DEF Lookup
  <2>2. CASE TryAcquireRequest(r)
      BY <2>2, <1>0 DEF TryAcquireRequest
  <2>3. CASE OpenStream(r)
      BY <2>3, <1>0 DEF OpenStream, ReleaseRequest
  <2>4. CASE TrackRequest(r)
      BY <2>4, <1>0 DEF TrackRequest
  <2>5. CASE WriteRequest(r)
      BY <2>5, <1>0 DEF WriteRequest
  <2>6. CASE WriteRequestFails(r)
      BY <2>6, <1>0 DEF WriteRequestFails
  <2>7. CASE ReadFirstFrame(r)
      BY <2>7, <1>0 DEF ReadFirstFrame, Broken
  <2>8. CASE ReadFrame(r)
      BY <2>8, <1>0 DEF ReadFrame, Broken, EndBody
  <2>9. CASE WriteChunk(r)
      BY <2>9, <1>0 DEF WriteChunk
  <2>10. CASE Complete(r)
      BY <2>10, <1>0 DEF Complete
  <2>11. CASE Cleanup(r)
      BY <2>11, <1>0 DEF Cleanup, ReleaseRequest
  <2> HIDE DEF TripTypes, TripPC, FrameTypes, Frames
  <2> QED
      BY <1>3, <2>1, <2>2, <2>3, <2>4, <2>5, <2>6, <2>7, <2>8, <2>9, <2>10,
         <2>11, Zenon DEF Trip
<1>4. ASSUME NEW r \in Requests, Watcher(r) PROVE Frames'
  <2>1. CASE Watch(r)
      BY <2>1, <1>0 DEF Watch, CtxDone
  <2>2. CASE SendCancelRequest(r)
      BY <2>2, <1>0 DEF SendCancelRequest
  <2>3. CASE CloseStream(r)
      BY <2>3, <1>0 DEF CloseStream
  <2> HIDE DEF TripTypes, TripPC, FrameTypes, Frames
  <2> QED
      BY <1>4, <2>1, <2>2, <2>3, Zenon DEF Watcher
<1>5. ASSUME NEW r \in Requests, Consumer(r) PROVE Frames'
  <2>1. CASE Disconnect(r)
      BY <2>1, <1>0 DEF Disconnect
  <2>2. CASE CloseBody(r)
      BY <2>2, <1>0 DEF CloseBody
  <2> HIDE DEF TripTypes, TripPC, FrameTypes, Frames
  <2> QED
      BY <1>5, <2>1, <2>2, Zenon DEF Consumer
<1>6. ASSUME NEW r \in Requests, Handler(r) PROVE Frames'
  <2>1. CASE RejectRequest(r)
      BY <2>1, <1>0 DEF RejectRequest, HandlerReturns, Broken
  <2>2. CASE TrackLocalRequest(r)
      BY <2>2, <1>0 DEF TrackLocalRequest
  <2>3. CASE LocalResponse(r)
      BY <2>3, <1>0 DEF LocalResponse, Broken
  <2>4. CASE SendChunk(r)
      BY <2>4, <1>0 DEF SendChunk, Broken
  <2>5. CASE SendEOF(r)
      BY <2>5, <1>0 DEF SendEOF, HandlerReturns, Broken
  <2>6. CASE LocalFails(r)
      BY <2>6, <1>0 DEF LocalFails, HandlerReturns, Broken
  <2>7. CASE CancelLocalRequest(r)
      BY <2>7, <1>0 DEF CancelLocalRequest
  <2> HIDE DEF TripTypes, TripPC, FrameTypes, Frames
  <2> QED
      BY <1>6, <2>1, <2>2, <2>3, <2>4, <2>5, <2>6, <2>7, Zenon DEF Handler
<1> HIDE DEF TripTypes, TripPC, FrameTypes, Frames
<1> QED
    BY <1>1, <1>2, <1>3, <1>4, <1>5, <1>6, Zenon DEF Next

\* No step ends a body without an error too early.
LEMMA CleanStep == IInv /\ [Next]_vars => (\A q \in Requests : EndsComplete(q))
<1> SUFFICES ASSUME IInv, [Next]_vars PROVE (\A q \in Requests : EndsComplete(q))
    OBVIOUS
<1>0. TripTypes /\ FrameTypes /\ Frames
    BY DEF IInv, TypeOK
<1> USE DEF TripTypes, TripPC, FrameTypes, EndsComplete, Frames
<1>1. CASE UNCHANGED vars
    BY <1>1, <1>0 DEF vars
<1>2. CASE Session
  <2>1. CASE AnnounceLimit
      BY <2>1, <1>0 DEF AnnounceLimit
  <2>2. CASE LoseTunnel
      BY <2>2, <1>0 DEF LoseTunnel
  <2>3. CASE ReleaseSession
      BY <2>3, <1>0 DEF ReleaseSession
  <2>4. CASE CloseSession
      BY <2>4, <1>0 DEF CloseSession
  <2> HIDE DEF TripTypes, TripPC, FrameTypes, EndsComplete, Frames
  <2> QED
      BY <1>2, <2>1, <2>2, <2>3, <2>4, Zenon DEF Session
<1>3. ASSUME NEW r \in Requests, Trip(r) PROVE (\A q \in Requests : EndsComplete(q))
  <2>1. CASE Lookup(r)
      BY <2>1, <1>0 DEF Lookup
  <2>2. CASE TryAcquireRequest(r)
      BY <2>2, <1>0 DEF TryAcquireRequest
  <2>3. CASE OpenStream(r)
      BY <2>3, <1>0 DEF OpenStream, ReleaseRequest
  <2>4. CASE TrackRequest(r)
      BY <2>4, <1>0 DEF TrackRequest
  <2>5. CASE WriteRequest(r)
      BY <2>5, <1>0 DEF WriteRequest
  <2>6. CASE WriteRequestFails(r)
      BY <2>6, <1>0 DEF WriteRequestFails
  <2>7. CASE ReadFirstFrame(r)
      BY <2>7, <1>0 DEF ReadFirstFrame, Broken
  <2>8. CASE ReadFrame(r)
      BY <2>8, <1>0 DEF ReadFrame, Broken, EndBody
  <2>9. CASE WriteChunk(r)
      BY <2>9, <1>0 DEF WriteChunk
  <2>10. CASE Complete(r)
      BY <2>10, <1>0 DEF Complete
  <2>11. CASE Cleanup(r)
      BY <2>11, <1>0 DEF Cleanup, ReleaseRequest
  <2> HIDE DEF TripTypes, TripPC, FrameTypes, EndsComplete, Frames
  <2> QED
      BY <1>3, <2>1, <2>2, <2>3, <2>4, <2>5, <2>6, <2>7, <2>8, <2>9, <2>10,
         <2>11, Zenon DEF Trip
<1>4. ASSUME NEW r \in Requests, Watcher(r)
      PROVE  (\A q \in Requests : EndsComplete(q))
  <2>1. CASE Watch(r)
      BY <2>1, <1>0 DEF Watch, CtxDone
  <2>2. CASE SendCancelRequest(r)
      BY <2>2, <1>0 DEF SendCancelRequest
  <2>3. CASE CloseStream(r)
      BY <2>3, <1>0 DEF CloseStream
  <2> HIDE DEF TripTypes, TripPC, FrameTypes, EndsComplete, Frames
  <2> QED
      BY <1>4, <2>1, <2>2, <2>3, Zenon DEF Watcher
<1>5. ASSUME NEW r \in Requests, Consumer(r)
      PROVE  (\A q \in Requests : EndsComplete(q))
  <2>1. CASE Disconnect(r)
      BY <2>1, <1>0 DEF Disconnect
  <2>2. CASE CloseBody(r)
      BY <2>2, <1>0 DEF CloseBody
  <2> HIDE DEF TripTypes, TripPC, FrameTypes, EndsComplete, Frames
  <2> QED
      BY <1>5, <2>1, <2>2, Zenon DEF Consumer
<1>6. ASSUME NEW r \in Requests, Handler(r)
      PROVE  (\A q \in Requests : EndsComplete(q))
  <2>1. CASE RejectRequest(r)
      BY <2>1, <1>0 DEF RejectRequest, HandlerReturns, Broken
  <2>2. CASE TrackLocalRequest(r)
      BY <2>2, <1>0 DEF TrackLocalRequest
  <2>3. CASE LocalResponse(r)
      BY <2>3, <1>0 DEF LocalResponse, Broken
  <2>4. CASE SendChunk(r)
      BY <2>4, <1>0 DEF SendChunk, Broken
  <2>5. CASE SendEOF(r)
      BY <2>5, <1>0 DEF SendEOF, HandlerReturns, Broken
  <2>6. CASE LocalFails(r)
      BY <2>6, <1>0 DEF LocalFails, HandlerReturns, Broken
  <2>7. CASE CancelLocalRequest(r)
      BY <2>7, <1>0 DEF CancelLocalRequest
  <2> HIDE DEF TripTypes, TripPC, FrameTypes, EndsComplete, Frames
  <2> QED
      BY <1>6, <2>1, <2>2, <2>3, <2>4, <2>5, <2>6, <2>7, Zenon DEF Handler
<1> HIDE DEF TripTypes, TripPC, FrameTypes, EndsComplete, Frames
<1> QED
    BY <1>1, <1>2, <1>3, <1>4, <1>5, <1>6, Zenon DEF Next
-----------------------------------------------------------------------------
\* Taking a slot and giving one back change the number of holders by one.
LEMMA HoldersCount ==
    ASSUME holds \in SUBSET Requests
    PROVE  /\ Cardinality(holds) \in Nat
           /\ \A q \in Requests : q \notin holds =>
                 Cardinality(holds \cup {q}) = Cardinality(holds) + 1
           /\ \A q \in Requests : q \in holds =>
                 Cardinality(holds \ {q}) = Cardinality(holds) - 1
<1>1. IsFiniteSet(holds)
    BY FS_Subset
<1> QED
    BY <1>1, FS_CardinalityType, FS_AddElement, FS_RemoveElement

\* A step that takes and gives back no slot.
LEMMA SlotsKept ==
    ASSUME IInv, UNCHANGED <<active, holds>>,
           \/ UNCHANGED <<limit, announced>>
           \/ limit' \in Nat \ {0} /\ announced' = announced \cup {limit'},
           tunnel' \in {tunnel, "closed"},
           \A q \in Requests : g'[q] \in {"idle", "found", "ended"} <=>
                               g[q] \in {"idle", "found", "ended"}
    PROVE  (HoldsWhileRunning /\ CountCovers /\ SlotsAccounted /\ WithinLimit)'
<1>1. HoldsWhileRunning'
    BY DEF IInv, HoldsWhileRunning
<1>2. CountCovers' /\ SlotsAccounted'
    BY DEF IInv, CountCovers, SlotsAccounted, TypeOK, TripTypes
<1>3. WithinLimit'
    BY DEF IInv, WithinLimit
<1> QED
    BY <1>1, <1>2, <1>3

\* The slots: acquired and given back by the same request.
LEMMA SlotsStep ==
    IInv /\ [Next]_vars => (HoldsWhileRunning /\ CountCovers /\ SlotsAccounted /\ WithinLimit)'
<1> SUFFICES ASSUME IInv, [Next]_vars
      PROVE  (HoldsWhileRunning /\ CountCovers /\ SlotsAccounted /\ WithinLimit)'
    OBVIOUS
<1>0. /\ IInv /\ SlotTypes /\ TripTypes
      /\ HoldsWhileRunning /\ CountCovers /\ SlotsAccounted /\ WithinLimit
    BY DEF IInv, TypeOK
<1>c. /\ Cardinality(holds) \in Nat
      /\ \A q \in Requests : q \notin holds =>
            Cardinality(holds \cup {q}) = Cardinality(holds) + 1
      /\ \A q \in Requests : q \in holds =>
            Cardinality(holds \ {q}) = Cardinality(holds) - 1
    BY <1>0, HoldersCount DEF SlotTypes
<1> USE DEF SlotTypes, TripTypes, TripPC
<1>1. CASE UNCHANGED vars
    BY <1>1, <1>0, SlotsKept DEF vars
<1>2. CASE Session
  <2>1. CASE AnnounceLimit
      BY <2>1, <1>0, SlotsKept DEF AnnounceLimit
  <2>2. CASE LoseTunnel
      BY <2>2, <1>0, SlotsKept DEF LoseTunnel
  <2>3. CASE ReleaseSession
      BY <2>3, <1>0, SlotsKept DEF ReleaseSession
  <2>4. CASE CloseSession
      BY <2>4, <1>0, SlotsKept DEF CloseSession
  <2> HIDE DEF SlotTypes, TripTypes, TripPC
  <2> QED
      BY <1>2, <2>1, <2>2, <2>3, <2>4, Zenon DEF Session
<1>3. ASSUME NEW r \in Requests, Trip(r)
      PROVE  (HoldsWhileRunning /\ CountCovers /\ SlotsAccounted /\ WithinLimit)'
  <2>1. CASE Lookup(r)
      BY <2>1, <1>0, SlotsKept DEF Lookup
  <2>2. CASE TryAcquireRequest(r)
    <3>1. CASE g' = [g EXCEPT ![r] = "ended"] /\ UNCHANGED <<holds, active>>
        BY <3>1, <2>2, <1>0, SlotsKept DEF TryAcquireRequest
    <3>2. CASE g' = [g EXCEPT ![r] = "acquired"]
      <4>1. /\ r \notin holds /\ holds' = holds \cup {r}
            /\ UNCHANGED <<limit, announced, tunnel>>
          BY <3>2, <2>2, <1>0 DEF TryAcquireRequest, HoldsWhileRunning
      <4>2. 0 \notin announced => active < limit /\ active' = active + 1
          BY <3>2, <2>2, <1>0 DEF TryAcquireRequest, CountCovers
      <4>3. Cardinality(holds') = Cardinality(holds) + 1 /\ Cardinality(holds) \in Nat
          BY <4>1, <1>c
      <4>4. HoldsWhileRunning'
          BY <3>2, <4>1, <1>0 DEF HoldsWhileRunning
      <4>5. CountCovers' /\ SlotsAccounted' /\ WithinLimit'
          BY <4>1, <4>2, <4>3, <1>0 DEF CountCovers, SlotsAccounted, WithinLimit
      <4> QED
          BY <4>4, <4>5
    <3> QED
        BY <3>1, <3>2, <2>2 DEF TryAcquireRequest
  <2>3. CASE OpenStream(r)
    <3>1. CASE g' = [g EXCEPT ![r] = "opened"] /\ UNCHANGED slotVars
        BY <3>1, <2>3, <1>0, SlotsKept DEF OpenStream
    <3>2. CASE g' = [g EXCEPT ![r] = "ended"] /\ ReleaseRequest(r)
      <4>1. /\ r \in holds /\ holds' = holds \ {r}
            /\ active' = IF limit > 0 THEN active - 1 ELSE active
            /\ g' = [g EXCEPT ![r] = "ended"]
            /\ UNCHANGED <<limit, announced, tunnel>>
          BY <3>2, <2>3, <1>0 DEF OpenStream, ReleaseRequest, HoldsWhileRunning
      <4>2. 0 \notin announced => active' = active - 1
          BY <4>1, <1>0 DEF CountCovers
      <4>3. Cardinality(holds') = Cardinality(holds) - 1 /\ Cardinality(holds) \in Nat
          BY <4>1, <1>c
      <4>4. HoldsWhileRunning'
          BY <4>1, <1>0 DEF HoldsWhileRunning
      <4>5. CountCovers' /\ SlotsAccounted'
          BY <4>1, <4>2, <4>3, <1>0 DEF CountCovers, SlotsAccounted
      <4>6. ASSUME 0 \notin announced
            PROVE  \E l \in announced : Cardinality(holds') <= l
        <5>1. PICK l \in announced : Cardinality(holds) <= l
            BY <4>6, <1>0 DEF WithinLimit
        <5> QED
            BY <5>1, <4>3, <1>0
      <4> QED
          BY <4>1, <4>4, <4>5, <4>6 DEF WithinLimit
    <3> QED
        BY <3>1, <3>2, <2>3 DEF OpenStream
  <2>4. CASE TrackRequest(r)
      BY <2>4, <1>0, SlotsKept DEF TrackRequest
  <2>5. CASE WriteRequest(r)
      BY <2>5, <1>0, SlotsKept DEF WriteRequest
  <2>6. CASE WriteRequestFails(r)
    <3>1. /\ r \in holds /\ holds' = holds \ {r} /\ tunnel' = "closed"
          /\ g' = [g EXCEPT ![r] = "ended"]
          /\ UNCHANGED <<active, limit, announced>>
        BY <2>6, <1>0 DEF WriteRequestFails, HoldsWhileRunning
    <3>2. Cardinality(holds') = Cardinality(holds) - 1 /\ Cardinality(holds) \in Nat
        BY <3>1, <1>c
    <3>3. HoldsWhileRunning'
        BY <3>1, <1>0 DEF HoldsWhileRunning
    <3>4. CountCovers' /\ SlotsAccounted'
        BY <3>1, <3>2, <1>0 DEF CountCovers, SlotsAccounted
    <3>5. ASSUME 0 \notin announced
          PROVE  \E l \in announced : Cardinality(holds') <= l
      <4>1. PICK l \in announced : Cardinality(holds) <= l
          BY <3>5, <1>0 DEF WithinLimit
      <4> QED
          BY <4>1, <3>2, <1>0
    <3> QED
        BY <3>1, <3>3, <3>4, <3>5 DEF WithinLimit
  <2>7. CASE ReadFirstFrame(r)
      BY <2>7, <1>0, SlotsKept DEF ReadFirstFrame, Broken
  <2>8. CASE ReadFrame(r)
      BY <2>8, <1>0, SlotsKept DEF ReadFrame, Broken, EndBody
  <2>9. CASE WriteChunk(r)
      BY <2>9, <1>0, SlotsKept DEF WriteChunk
  <2>10. CASE Complete(r)
      BY <2>10, <1>0, SlotsKept DEF Complete
  <2>11. CASE Cleanup(r)
    <3>1. /\ r \in holds /\ holds' = holds \ {r}
          /\ active' = IF limit > 0 THEN active - 1 ELSE active
          /\ g' = [g EXCEPT ![r] = "ended"]
          /\ UNCHANGED <<limit, announced, tunnel>>
        BY <2>11, <1>0 DEF Cleanup, ReleaseRequest, HoldsWhileRunning
    <3>2. 0 \notin announced => active' = active - 1
        BY <3>1, <1>0 DEF CountCovers
    <3>3. Cardinality(holds') = Cardinality(holds) - 1 /\ Cardinality(holds) \in Nat
        BY <3>1, <1>c
    <3>4. HoldsWhileRunning'
        BY <3>1, <1>0 DEF HoldsWhileRunning
    <3>5. CountCovers' /\ SlotsAccounted'
        BY <3>1, <3>2, <3>3, <1>0 DEF CountCovers, SlotsAccounted
    <3>6. ASSUME 0 \notin announced
          PROVE  \E l \in announced : Cardinality(holds') <= l
      <4>1. PICK l \in announced : Cardinality(holds) <= l
          BY <3>6, <1>0 DEF WithinLimit
      <4> QED
          BY <4>1, <3>3, <1>0
    <3> QED
        BY <3>1, <3>4, <3>5, <3>6 DEF WithinLimit
  <2> HIDE DEF SlotTypes, TripTypes, TripPC
  <2> QED
      BY <1>3, <2>1, <2>2, <2>3, <2>4, <2>5, <2>6, <2>7, <2>8, <2>9, <2>10,
         <2>11, Zenon DEF Trip
<1>4. ASSUME NEW r \in Requests, Watcher(r)
      PROVE  (HoldsWhileRunning /\ CountCovers /\ SlotsAccounted /\ WithinLimit)'
  <2>1. CASE Watch(r)
      BY <2>1, <1>0, SlotsKept DEF Watch, CtxDone
  <2>2. CASE SendCancelRequest(r)
      BY <2>2, <1>0, SlotsKept DEF SendCancelRequest
  <2>3. CASE CloseStream(r)
      BY <2>3, <1>0, SlotsKept DEF CloseStream
  <2> HIDE DEF SlotTypes, TripTypes, TripPC
  <2> QED
      BY <1>4, <2>1, <2>2, <2>3, Zenon DEF Watcher
<1>5. ASSUME NEW r \in Requests, Consumer(r)
      PROVE  (HoldsWhileRunning /\ CountCovers /\ SlotsAccounted /\ WithinLimit)'
  <2>1. CASE Disconnect(r)
      BY <2>1, <1>0, SlotsKept DEF Disconnect
  <2>2. CASE CloseBody(r)
      BY <2>2, <1>0, SlotsKept DEF CloseBody
  <2> HIDE DEF SlotTypes, TripTypes, TripPC
  <2> QED
      BY <1>5, <2>1, <2>2, Zenon DEF Consumer
<1>6. ASSUME NEW r \in Requests, Handler(r)
      PROVE  (HoldsWhileRunning /\ CountCovers /\ SlotsAccounted /\ WithinLimit)'
  <2>1. CASE RejectRequest(r)
      BY <2>1, <1>0, SlotsKept DEF RejectRequest, HandlerReturns, Broken
  <2>2. CASE TrackLocalRequest(r)
      BY <2>2, <1>0, SlotsKept DEF TrackLocalRequest
  <2>3. CASE LocalResponse(r)
      BY <2>3, <1>0, SlotsKept DEF LocalResponse, Broken
  <2>4. CASE SendChunk(r)
      BY <2>4, <1>0, SlotsKept DEF SendChunk, Broken
  <2>5. CASE SendEOF(r)
      BY <2>5, <1>0, SlotsKept DEF SendEOF, HandlerReturns, Broken
  <2>6. CASE LocalFails(r)
      BY <2>6, <1>0, SlotsKept DEF LocalFails, HandlerReturns, Broken
  <2>7. CASE CancelLocalRequest(r)
      BY <2>7, <1>0, SlotsKept DEF CancelLocalRequest
  <2> HIDE DEF SlotTypes, TripTypes, TripPC
  <2> QED
      BY <1>6, <2>1, <2>2, <2>3, <2>4, <2>5, <2>6, <2>7, Zenon DEF Handler
<1> HIDE DEF SlotTypes, TripTypes, TripPC
<1> QED
    BY <1>1, <1>2, <1>3, <1>4, <1>5, <1>6, Zenon DEF Next

\* Tracking and watching.
LEMMA WatchStep ==
    IInv /\ [Next]_vars => (TrackedWhileLive /\ WatchPhases /\ CancelOnlyIfAbandoned)'
<1> SUFFICES ASSUME IInv, [Next]_vars
      PROVE  (TrackedWhileLive /\ WatchPhases /\ CancelOnlyIfAbandoned)'
    OBVIOUS
<1>0. TripTypes /\ TrackedWhileLive /\ WatchPhases /\ CancelOnlyIfAbandoned
    BY DEF IInv, TypeOK
<1> USE DEF TripTypes, TripPC, TrackedWhileLive, WatchPhases, CancelOnlyIfAbandoned
<1>1. CASE UNCHANGED vars
    BY <1>1, <1>0 DEF vars
<1>2. CASE Session
  <2>1. CASE AnnounceLimit
      BY <2>1, <1>0 DEF AnnounceLimit
  <2>2. CASE LoseTunnel
      BY <2>2, <1>0 DEF LoseTunnel
  <2>3. CASE ReleaseSession
      BY <2>3, <1>0 DEF ReleaseSession
  <2>4. CASE CloseSession
      BY <2>4, <1>0 DEF CloseSession
  <2> HIDE DEF TripTypes, TripPC, TrackedWhileLive, WatchPhases,
              CancelOnlyIfAbandoned
  <2> QED
      BY <1>2, <2>1, <2>2, <2>3, <2>4, Zenon DEF Session
<1>3. ASSUME NEW r \in Requests, Trip(r)
      PROVE  (TrackedWhileLive /\ WatchPhases /\ CancelOnlyIfAbandoned)'
  <2>1. CASE Lookup(r)
      BY <2>1, <1>0 DEF Lookup
  <2>2. CASE TryAcquireRequest(r)
      BY <2>2, <1>0 DEF TryAcquireRequest
  <2>3. CASE OpenStream(r)
      BY <2>3, <1>0 DEF OpenStream, ReleaseRequest
  <2>4. CASE TrackRequest(r)
      BY <2>4, <1>0 DEF TrackRequest
  <2>5. CASE WriteRequest(r)
      BY <2>5, <1>0 DEF WriteRequest
  <2>6. CASE WriteRequestFails(r)
      BY <2>6, <1>0 DEF WriteRequestFails
  <2>7. CASE ReadFirstFrame(r)
      BY <2>7, <1>0 DEF ReadFirstFrame, Broken
  <2>8. CASE ReadFrame(r)
      BY <2>8, <1>0 DEF ReadFrame, Broken, EndBody
  <2>9. CASE WriteChunk(r)
      BY <2>9, <1>0 DEF WriteChunk
  <2>10. CASE Complete(r)
      BY <2>10, <1>0 DEF Complete
  <2>11. CASE Cleanup(r)
      BY <2>11, <1>0 DEF Cleanup, ReleaseRequest
  <2> HIDE DEF TripTypes, TripPC, TrackedWhileLive, WatchPhases,
              CancelOnlyIfAbandoned
  <2> QED
      BY <1>3, <2>1, <2>2, <2>3, <2>4, <2>5, <2>6, <2>7, <2>8, <2>9, <2>10,
         <2>11, Zenon DEF Trip
<1>4. ASSUME NEW r \in Requests, Watcher(r)
      PROVE  (TrackedWhileLive /\ WatchPhases /\ CancelOnlyIfAbandoned)'
  <2>1. CASE Watch(r)
      BY <2>1, <1>0 DEF Watch, CtxDone
  <2>2. CASE SendCancelRequest(r)
      BY <2>2, <1>0 DEF SendCancelRequest
  <2>3. CASE CloseStream(r)
      BY <2>3, <1>0 DEF CloseStream
  <2> HIDE DEF TripTypes, TripPC, TrackedWhileLive, WatchPhases,
              CancelOnlyIfAbandoned
  <2> QED
      BY <1>4, <2>1, <2>2, <2>3, Zenon DEF Watcher
<1>5. ASSUME NEW r \in Requests, Consumer(r)
      PROVE  (TrackedWhileLive /\ WatchPhases /\ CancelOnlyIfAbandoned)'
  <2>1. CASE Disconnect(r)
      BY <2>1, <1>0 DEF Disconnect
  <2>2. CASE CloseBody(r)
      BY <2>2, <1>0 DEF CloseBody
  <2> HIDE DEF TripTypes, TripPC, TrackedWhileLive, WatchPhases,
              CancelOnlyIfAbandoned
  <2> QED
      BY <1>5, <2>1, <2>2, Zenon DEF Consumer
<1>6. ASSUME NEW r \in Requests, Handler(r)
      PROVE  (TrackedWhileLive /\ WatchPhases /\ CancelOnlyIfAbandoned)'
  <2>1. CASE RejectRequest(r)
      BY <2>1, <1>0 DEF RejectRequest, HandlerReturns, Broken
  <2>2. CASE TrackLocalRequest(r)
      BY <2>2, <1>0 DEF TrackLocalRequest
  <2>3. CASE LocalResponse(r)
      BY <2>3, <1>0 DEF LocalResponse, Broken
  <2>4. CASE SendChunk(r)
      BY <2>4, <1>0 DEF SendChunk, Broken
  <2>5. CASE SendEOF(r)
      BY <2>5, <1>0 DEF SendEOF, HandlerReturns, Broken
  <2>6. CASE LocalFails(r)
      BY <2>6, <1>0 DEF LocalFails, HandlerReturns, Broken
  <2>7. CASE CancelLocalRequest(r)
      BY <2>7, <1>0 DEF CancelLocalRequest
  <2> HIDE DEF TripTypes, TripPC, TrackedWhileLive, WatchPhases,
              CancelOnlyIfAbandoned
  <2> QED
      BY <1>6, <2>1, <2>2, <2>3, <2>4, <2>5, <2>6, <2>7, Zenon DEF Handler
<1> HIDE DEF TripTypes, TripPC, TrackedWhileLive, WatchPhases, CancelOnlyIfAbandoned
<1> QED
    BY <1>1, <1>2, <1>3, <1>4, <1>5, <1>6, Zenon DEF Next


\* Every step of a round trip preserves the invariant.
LEMMA StepIInv == IInv /\ [Next]_vars => IInv'
BY TypeStep, SlotsStep, WatchStep, FramesStep DEF IInv

LEMMA InvariantIInv == Spec => []IInv
BY InitIInv, StepIInv, PTL DEF Spec
-----------------------------------------------------------------------------
(* What follows for the gateway.                                           *)

\* Every variable of the round trip keeps its type.
THEOREM TypeCorrect == Spec => []TypeOK
<1>1. IInv => TypeOK
    BY DEF IInv
<1> QED
    BY <1>1, InvariantIInv, PTL

\* However requests, heartbeats and failures interleave, activeRequests is the
\* number of requests in progress.
THEOREM SlotsCorrect == Spec => []SlotsAccounted
<1>1. IInv => SlotsAccounted
    BY DEF IInv
<1> QED
    BY <1>1, InvariantIInv, PTL

\* ... and stays within what the worker announced, however announcements change.
THEOREM LimitKept == Spec => []WithinLimit
<1>1. IInv => WithinLimit
    BY DEF IInv
<1> QED
    BY <1>1, InvariantIInv, PTL

\* Release finds every request that still waits for the worker.
THEOREM TrackingCorrect == Spec => []TrackedWhileLive
<1>1. IInv => TrackedWhileLive
    BY DEF IInv
<1> QED
    BY <1>1, InvariantIInv, PTL

\* A completed request is never cancelled at the worker.
THEOREM CancelsJustified == Spec => []CancelOnlyIfAbandoned
<1>1. IInv => CancelOnlyIfAbandoned
    BY DEF IInv
<1> QED
    BY <1>1, InvariantIInv, PTL

\* A response body that ends without an error is complete, unless the gateway's
\* own side of the stream was closed.
THEOREM BodyComplete == Spec => CleanEndIsComplete
<1>1. IInv /\ [Next]_vars => [\A r \in Requests : EndsComplete(r)]_vars
    BY CleanStep
<1> QED
    BY <1>1, InvariantIInv, PTL DEF Spec, CleanEndIsComplete
===========================================================================
