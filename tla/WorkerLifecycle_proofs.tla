----------------------- MODULE WorkerLifecycle_proofs -----------------------
(* Proofs of the safety properties of WorkerLifecycle for any sets of      *)
(* sessions, namespaces, channels, users and model lists, and that it      *)
(* implements WorkerDirectory.  Every step preserves the inductive         *)
(* invariant IInv; there is one lemma per layer of it: types, phases,      *)
(* claims, node rows and channels, routes, and the rows of workers nobody  *)
(* holds.                                                                  *)
EXTENDS WorkerLifecycle, TLAPS

USE ConstAssumption DEF sessVars, mapVars, nodeVars, chanVars, snapVars, Goto
-----------------------------------------------------------------------------
\* The initial state satisfies every layer.
LEMMA InitIInv == Init => IInv
<1> SUFFICES ASSUME Init PROVE IInv
    OBVIOUS
<1>1. TypeOK
    BY Zenon DEF Init, TypeOK, GoroutineTypes, SessionTypes, ManagerTypes, NodeTypes,
       ChannelTypes, NoRows, NoLocal, Locals, SessionPC, AdminPC, WorkerStatus,
       ChannelStatus
<1>2. Phases /\ ClaimHeld /\ HolderOwns
    BY Zenon DEF Init, Phases, ClaimHeld, HolderOwns, Owns, SessionPC
<1>3. NodeRowFollowsSession /\ RowOfOwner
    BY Zenon DEF Init, NodeRowFollowsSession, RowOfOwner
<1>4. ChannelUsed /\ ChannelsNotShared /\ RoutesToOwner
    BY Zenon DEF Init, ChannelUsed, ChannelsNotShared, RoutesToOwner
<1>5. OfflineOutside /\ UnheldIsOffline
    BY Zenon DEF Init, OfflineOutside, UnheldIsOffline
<1> QED
    BY <1>1, <1>2, <1>3, <1>4, <1>5, Zenon DEF IInv

\* Types are preserved.
LEMMA TypeStep == IInv /\ [Next]_vars => TypeOK'
<1> SUFFICES ASSUME IInv, [Next]_vars PROVE TypeOK'
    OBVIOUS
<1>0. TypeOK
    BY Zenon DEF IInv, TypeOK
<1> USE DEF TypeOK, GoroutineTypes, SessionTypes, ManagerTypes, NodeTypes,
           ChannelTypes, SessionPC, AdminPC
<1>1. ASSUME NEW s \in Sessions, Opening(s) PROVE TypeOK'
  <2>1. CASE Connect(s)
      BY <2>1, <1>0 DEF Connect
  <2>2. CASE Authenticate(s)
      BY <2>2, <1>0 DEF Authenticate, CanRead
  <2>3. CASE LoseWorker(s)
      BY <2>3, <1>0, Zenon DEF LoseWorker
  <2> QED
      BY <1>1, <2>1, <2>2, <2>3, Zenon DEF Opening
<1>2. ASSUME NEW s \in Sessions, Registering(s) PROVE TypeOK'
  <2>1. CASE RegisterWorker(s)
    <3> PICK n \in Namespaces :
           \/ ClaimNamespace(s, n) /\ Goto(s, "claimed")
           \/ Goto(s, "cleanup") /\ UNCHANGED <<namespace, byNamespace>>
        BY <2>1, Zenon DEF RegisterWorker
    <3>1. CASE ClaimNamespace(s, n) /\ Goto(s, "claimed")
      <4>1. namespace' \in [Sessions -> Namespaces \cup {None}]
          BY <3>1, <1>0, Zenon DEF ClaimNamespace
      <4>2. byNamespace' \in [Namespaces -> Sessions \cup {None}]
          BY <3>1, <1>0, Zenon DEF ClaimNamespace
      <4> QED
          BY <2>1, <3>1, <4>1, <4>2, <1>0, Zenon DEF RegisterWorker
    <3>2. CASE Goto(s, "cleanup") /\ UNCHANGED <<namespace, byNamespace>>
        BY <2>1, <3>2, <1>0, Zenon DEF RegisterWorker
    <3> QED
        BY <3>1, <3>2, Zenon
  <2>2. CASE UpsertWorkerAndChannel(s)
    <3> PICK c \in Channels, m \in ModelLists :
           /\ chanStatus' = [chanStatus EXCEPT ![c] = "enabled"]
           /\ chanModels' = [chanModels EXCEPT ![c] = m]
           /\ nodeChannel' = [nodeChannel EXCEPT ![namespace[s]] = c]
           /\ nodeProvider' = [nodeProvider EXCEPT ![namespace[s]] = token[s]]
           /\ nodeStatus' = [nodeStatus EXCEPT ![namespace[s]] = "online"]
           /\ local' = [local EXCEPT ![s] = [chan |-> c, models |-> m,
                                             status |-> "online"]]
        BY <2>2, Zenon DEF UpsertWorkerAndChannel
    <3>1. local' \in [Sessions -> Locals]
        BY <1>0, Zenon DEF Locals, WorkerStatus
    <3> QED
        BY <2>2, <3>1, <1>0, Zenon
        DEF UpsertWorkerAndChannel, WorkerStatus, ChannelStatus
  <2>3. CASE UpsertFails(s)
      BY <2>3, <1>0, Zenon DEF UpsertFails
  <2>4. CASE ReleaseClaim(s)
      BY <2>4, <1>0, Zenon DEF ReleaseClaim, Release
  <2>5. CASE BindChannel(s)
      BY <2>5, <1>0, Zenon DEF BindChannel, NoLocal, Locals, WorkerStatus
  <2> QED
      BY <1>2, <2>1, <2>2, <2>3, <2>4, <2>5, Zenon DEF Registering
<1>3. ASSUME NEW s \in Sessions, Updating(s) PROVE TypeOK'
  <2>1. CASE UpdateHeartbeat(s)
    <3> PICK st \in WorkerStatus, m \in ModelLists :
           /\ nodeStatus' = [nodeStatus EXCEPT ![workerID[s]] = st]
           /\ local' = [local EXCEPT ![s] = [chan |-> None, models |-> m, status |-> st]]
        BY <2>1, Zenon DEF UpdateHeartbeat
    <3>1. local' \in [Sessions -> Locals]
        BY <1>0, Zenon DEF Locals
    <3> QED
        BY <2>1, <3>1, <1>0, Zenon DEF UpdateHeartbeat
  <2>2. CASE HeartbeatChannel(s)
      BY <2>2, <1>0, Zenon
      DEF HeartbeatChannel, RowExists, channelStatusFromWorkerStatus, NoLocal,
          Locals, WorkerStatus, ChannelStatus
  <2>3. CASE HeartbeatFails(s)
      BY <2>3, <1>0, Zenon DEF HeartbeatFails, CanRead, NoLocal, Locals, WorkerStatus
  <2>4. CASE SyncModels(s)
    <3>1. chanStatus' \in [Channels -> ChannelStatus]
        BY <2>4, <1>0, Zenon
        DEF SyncModels, channelStatusFromWorkerStatus, ChannelStatus
    <3> PICK m \in ModelLists :
           /\ chanModels' = [chanModels EXCEPT ![channelID[s]] = m]
           /\ models' = [models EXCEPT ![s] = m]
        BY <2>4, Zenon DEF SyncModels
    <3>2. models' \in [Sessions -> ModelLists \cup {None}]
        BY <1>0, Zenon
    <3>3. chanModels' \in [Channels -> ModelLists \cup {None}]
        BY <1>0, Zenon
    <3> QED
        BY <2>4, <3>1, <3>2, <3>3, <1>0, Zenon DEF SyncModels
  <2>5. CASE SyncModelsFails(s)
      BY <2>5, <1>0 DEF SyncModelsFails, CanRead
  <2> QED
      BY <1>3, <2>1, <2>2, <2>3, <2>4, <2>5, Zenon DEF Updating
<1>4. ASSUME NEW s \in Sessions, Ending(s) PROVE TypeOK'
  <2>1. CASE EndServe(s)
      BY <2>1, <1>0, Zenon DEF EndServe
  <2>2. CASE CleanupWorker(s)
    <3>1. CASE RowExists(channelID[s])
        BY <2>2, <3>1, <1>0, Zenon DEF CleanupWorker, WorkerStatus, ChannelStatus
    <3>2. CASE ~RowExists(channelID[s])
        BY <2>2, <3>2, <1>0 DEF CleanupWorker
    <3> QED
        BY <3>1, <3>2, Zenon
  <2>3. CASE CleanupSkipped(s)
      BY <2>3, <1>0, ZenonT(60) DEF CleanupSkipped
  <2>4. CASE ReleaseSession(s)
      BY <2>4, <1>0, Zenon DEF ReleaseSession, Release
  <2> QED
      BY <1>4, <2>1, <2>2, <2>3, <2>4, Zenon DEF Ending
<1>5. ASSUME NEW p \in Sessions \cup Admins, Loading(p) PROVE TypeOK'
  <2>1. CASE LoadQuery(p)
    <3>1. EnabledRows \in [Channels -> ModelLists \cup {None}]
        BY <1>0, Zenon DEF EnabledRows
    <3>2. NoRows \in [Channels -> ModelLists \cup {None}]
        BY Zenon DEF NoRows
    <3>3. Goto(p, "install") \/ Goto(p, "uninstall")
        BY <2>1, Zenon DEF LoadQuery
    <3>4. pc' \in [Sessions \cup Admins -> SessionPC \cup AdminPC]
        BY <3>3, <1>0, Zenon
    <3> PICK rows \in {EnabledRows, NoRows} : fetched' = [fetched EXCEPT ![p] = rows]
        BY <2>1, Zenon DEF LoadQuery
    <3>5. rows \in [Channels -> ModelLists \cup {None}]
        BY <3>1, <3>2, Zenon
    <3>6. fetched' \in [Sessions \cup Admins -> [Channels -> ModelLists \cup {None}]]
        BY <3>5, <1>0, Zenon
    <3> QED
        BY <2>1, <3>4, <3>6, <1>0, Zenon DEF LoadQuery
  <2>2. CASE LoadInstall(p)
      BY <2>2, <1>0, Zenon DEF LoadInstall, NoRows
  <2> QED
      BY <1>5, <2>1, <2>2, Zenon DEF Loading
<1>6. ASSUME NEW a \in Admins, Editing(a) PROVE TypeOK'
  <2>1. CASE UpdateChannelStatusById(a)
    <3> PICK c \in Channels, st \in {"enabled", "autoDisabled", "manuallyDisabled"} :
           /\ chanStatus' = [chanStatus EXCEPT ![c] = st]
           /\ changes' = changes \cup
                  {<<c, IF st = "enabled" THEN "enable" ELSE "disable">>}
        BY <2>1, Zenon DEF UpdateChannelStatusById
    <3>1. changes' \in SUBSET (Channels \X {"enable", "disable"})
        BY <1>0
    <3> QED
        BY <2>1, <3>1, <1>0, Zenon DEF UpdateChannelStatusById, ChannelStatus
  <2>2. CASE DeleteChannel(a)
      BY <2>2, <1>0, Zenon DEF DeleteChannel, ChannelStatus
  <2> QED
      BY <1>6, <2>1, <2>2, Zenon DEF Editing
<1>7. CASE ChangeStatus
    BY <1>7, <1>0 DEF ChangeStatus
<1>8. CASE Restart
    BY <1>8, <1>0, Zenon DEF Restart, EnabledRows, NoRows, NoLocal, Locals, WorkerStatus
<1>9. CASE UNCHANGED vars
    BY <1>9, <1>0, Zenon DEF vars
<1> QED
    BY <1>1, <1>2, <1>3, <1>4, <1>5, <1>6, <1>7, <1>8, <1>9, Zenon DEF Next

\* The control flow of a handler sets the session's fields in order.
LEMMA PhasesStep == IInv /\ [Next]_vars => Phases'
<1> SUFFICES ASSUME IInv, [Next]_vars PROVE Phases'
    OBVIOUS
<1>0. GoroutineTypes /\ SessionTypes /\ Phases
    BY Zenon DEF IInv, TypeOK
<1> USE DEF GoroutineTypes, SessionTypes, Phases, Owns, SessionPC
<1>1. ASSUME NEW s \in Sessions, Opening(s) PROVE Phases'
  <2>1. CASE Connect(s)
      BY <2>1, <1>0 DEF Connect
  <2>2. CASE Authenticate(s)
      BY <2>2, <1>0, ZenonT(60) DEF Authenticate, CanRead
  <2>3. CASE LoseWorker(s)
      BY <2>3, <1>0, Zenon DEF LoseWorker
  <2> QED
      BY <1>1, <2>1, <2>2, <2>3, Zenon DEF Opening
<1>2. ASSUME NEW s \in Sessions, Registering(s) PROVE Phases'
  <2>1. CASE RegisterWorker(s)
      BY <2>1, <1>0 DEF RegisterWorker, CanRead, ClaimNamespace
  <2>2. CASE UpsertWorkerAndChannel(s)
      BY <2>2, <1>0 DEF UpsertWorkerAndChannel
  <2>3. CASE UpsertFails(s)
      BY <2>3, <1>0, Zenon DEF UpsertFails
  <2>4. CASE ReleaseClaim(s)
      BY <2>4, <1>0, Zenon DEF ReleaseClaim, Release
  <2>5. CASE BindChannel(s)
      BY <2>5, <1>0, Zenon DEF BindChannel
  <2> QED
      BY <1>2, <2>1, <2>2, <2>3, <2>4, <2>5, Zenon DEF Registering
<1>3. ASSUME NEW s \in Sessions, Updating(s) PROVE Phases'
  <2>1. CASE UpdateHeartbeat(s)
      BY <2>1, <1>0, ZenonT(60) DEF UpdateHeartbeat, CanRead
  <2>2. CASE HeartbeatChannel(s)
      BY <2>2, <1>0, Zenon DEF HeartbeatChannel
  <2>3. CASE HeartbeatFails(s)
      BY <2>3, <1>0, Zenon DEF HeartbeatFails, CanRead
  <2>4. CASE SyncModels(s)
      BY <2>4, <1>0, Zenon DEF SyncModels, CanRead
  <2>5. CASE SyncModelsFails(s)
      BY <2>5, <1>0, Zenon DEF SyncModelsFails, CanRead
  <2> QED
      BY <1>3, <2>1, <2>2, <2>3, <2>4, <2>5, Zenon DEF Updating
<1>4. ASSUME NEW s \in Sessions, Ending(s) PROVE Phases'
  <2>1. CASE EndServe(s)
      BY <2>1, <1>0, Zenon DEF EndServe
  <2>2. CASE CleanupWorker(s)
      BY <2>2, <1>0, Zenon DEF CleanupWorker
  <2>3. CASE CleanupSkipped(s)
      BY <2>3, <1>0, Zenon DEF CleanupSkipped
  <2>4. CASE ReleaseSession(s)
      BY <2>4, <1>0, Zenon DEF ReleaseSession, Release
  <2> QED
      BY <1>4, <2>1, <2>2, <2>3, <2>4, Zenon DEF Ending
<1>5. ASSUME NEW p \in Sessions \cup Admins, Loading(p) PROVE Phases'
  <2>1. CASE LoadQuery(p)
      BY <2>1, <1>0 DEF LoadQuery
  <2>2. CASE LoadInstall(p)
      BY <2>2, <1>0 DEF LoadInstall
  <2> QED
      BY <1>5, <2>1, <2>2, Zenon DEF Loading
<1>6. ASSUME NEW a \in Admins, Editing(a) PROVE Phases'
  <2>1. CASE UpdateChannelStatusById(a)
      BY <2>1, <1>0, Zenon DEF UpdateChannelStatusById
  <2>2. CASE DeleteChannel(a)
      BY <2>2, <1>0, ZenonT(60) DEF DeleteChannel
  <2> QED
      BY <1>6, <2>1, <2>2, Zenon DEF Editing
<1>7. CASE ChangeStatus
    BY <1>7, <1>0, ZenonT(60) DEF ChangeStatus
<1>8. CASE Restart
    BY <1>8, <1>0, Zenon DEF Restart
<1>9. CASE UNCHANGED vars
    BY <1>9, <1>0, Zenon DEF vars
<1> QED
    BY <1>1, <1>2, <1>3, <1>4, <1>5, <1>6, <1>7, <1>8, <1>9, Zenon DEF Next

\* A step that writes no row of a worker node and no map of the manager, and
\* moves no session into or out of its claim.
Quiet ==
    /\ UNCHANGED <<namespace, workerID, channelID, status, byNamespace, byChannelID,
                   nodeProvider, nodeStatus, nodeChannel, stranded>>
    /\ \A c \in Channels : chanStatus[c] # "unused" => chanStatus'[c] # "unused"
    /\ \A s \in Sessions :
         /\ Owns(s) => Owns(s)' /\ token'[s] = token[s]
         /\ Owns(s)' => Owns(s)
         /\ pc'[s] = "closed" => pc[s] = "closed"
         /\ pc'[s] \in {"upserted", "beat"} => pc[s] = pc'[s] /\ local'[s] = local[s]
         /\ workerID[s] # None /\ pc'[s] \in {"serve", "load", "install"} =>
               pc[s] \in {"serve", "load", "install"}
         /\ pc'[s] \in {"claimed", "rejected"} => pc[s] \in {"claimed", "rejected"}
         /\ pc'[s] \in {"unload", "uninstall", "release"} =>
               pc[s] \in {"unload", "uninstall", "release"}

\* All steps but those of ten actions are quiet.
LEMMA Steps ==
  ASSUME IInv, [Next]_vars
  PROVE  \/ Quiet
         \/ \E s \in Sessions :
              \/ RegisterWorker(s) \/ UpsertWorkerAndChannel(s) \/ ReleaseClaim(s)
              \/ BindChannel(s) \/ UpdateHeartbeat(s) \/ HeartbeatChannel(s)
              \/ CleanupWorker(s) \/ CleanupSkipped(s) \/ ReleaseSession(s)
         \/ Restart
<1>0. GoroutineTypes /\ SessionTypes /\ ChannelTypes /\ Phases
    BY Zenon DEF IInv, TypeOK
<1> USE DEF GoroutineTypes, SessionTypes, Phases, Owns, Quiet
<1>1. ASSUME NEW s \in Sessions,
            Connect(s) \/ Authenticate(s) \/ LoseWorker(s)
     PROVE  Quiet
  <2>1. CASE Connect(s)
      BY <2>1, <1>0, Zenon DEF Connect
  <2>2. CASE Authenticate(s)
      BY <2>2, <1>0, ZenonT(60) DEF Authenticate, CanRead
  <2>3. CASE LoseWorker(s)
      BY <2>3, <1>0, Zenon DEF LoseWorker
  <2> QED
      BY <1>1, <2>1, <2>2, <2>3, Zenon
<1>2. ASSUME NEW s \in Sessions, UpsertFails(s) PROVE Quiet
    BY <1>2, <1>0, Zenon DEF UpsertFails
<1>3. ASSUME NEW s \in Sessions,
            HeartbeatFails(s) \/ SyncModels(s) \/ SyncModelsFails(s)
     PROVE  Quiet
  <2>1. CASE HeartbeatFails(s)
      BY <2>1, <1>0, Zenon DEF HeartbeatFails, CanRead
  <2>2. CASE SyncModels(s)
      BY <2>2, <1>0
      DEF SyncModels, CanRead, RowExists, channelStatusFromWorkerStatus,
          ChannelTypes
  <2>3. CASE SyncModelsFails(s)
      BY <2>3, <1>0, Zenon DEF SyncModelsFails, CanRead
  <2> QED
      BY <1>3, <2>1, <2>2, <2>3, Zenon
<1>4. ASSUME NEW s \in Sessions, EndServe(s) PROVE Quiet
    BY <1>4, <1>0, Zenon DEF EndServe
<1>5. ASSUME NEW p \in Sessions \cup Admins, LoadQuery(p) \/ LoadInstall(p) PROVE Quiet
  <2>1. CASE LoadQuery(p)
      BY <2>1, <1>0 DEF LoadQuery
  <2>2. CASE LoadInstall(p)
      BY <2>2, <1>0 DEF LoadInstall
  <2> QED
      BY <1>5, <2>1, <2>2, Zenon
<1>6. ASSUME NEW a \in Admins,
            UpdateChannelStatusById(a) \/ DeleteChannel(a)
     PROVE  Quiet
  <2>1. CASE UpdateChannelStatusById(a)
      BY <2>1, <1>0, ZenonT(60) DEF UpdateChannelStatusById, ChannelTypes
  <2>2. CASE DeleteChannel(a)
      BY <2>2, <1>0 DEF DeleteChannel, ChannelTypes
  <2> QED
      BY <1>6, <2>1, <2>2, Zenon
<1>7. CASE ChangeStatus
    BY <1>7, <1>0, Zenon DEF ChangeStatus
<1>8. CASE UNCHANGED vars
    BY <1>8, <1>0, Zenon DEF vars
<1> HIDE DEF Quiet
<1> QED
    BY <1>1, <1>2, <1>3, <1>4, <1>5, <1>6, <1>7, <1>8, Zenon
    DEF Next, Opening, Registering, Updating, Ending, Loading, Editing
-----------------------------------------------------------------------------
\* ClaimNamespace takes only a free namespace, and Release gives back only the
\* caller's own.
LEMMA ClaimStep == IInv /\ [Next]_vars => ClaimHeld' /\ HolderOwns'
<1> SUFFICES ASSUME IInv, [Next]_vars PROVE ClaimHeld' /\ HolderOwns'
    OBVIOUS
<1>0. /\ GoroutineTypes /\ SessionTypes /\ ManagerTypes
      /\ Phases /\ ClaimHeld /\ HolderOwns
    BY Zenon DEF IInv, TypeOK
<1> USE DEF GoroutineTypes, SessionTypes, ManagerTypes, Phases, ClaimHeld, HolderOwns,
           Owns
<1>1. CASE Restart
    BY <1>1, <1>0, Zenon DEF Restart
<1>2. CASE Quiet
    BY <1>2, <1>0 DEF Quiet
<1>3. ASSUME NEW s \in Sessions,
            RegisterWorker(s) \/ UpsertWorkerAndChannel(s) \/ ReleaseClaim(s)
            \/ BindChannel(s)
     PROVE  ClaimHeld' /\ HolderOwns'
  <2>1. CASE RegisterWorker(s)
    <3> PICK n \in Namespaces :
           \/ ClaimNamespace(s, n) /\ Goto(s, "claimed")
           \/ Goto(s, "cleanup") /\ UNCHANGED <<namespace, byNamespace>>
        BY <2>1, Zenon DEF RegisterWorker
    <3> CanRead(s) /\ workerID[s] = None /\ workerID' = workerID
        BY <2>1, Zenon DEF RegisterWorker
    <3>1. CASE ClaimNamespace(s, n) /\ Goto(s, "claimed")
      <4>1. byNamespace[n] = None
          BY <3>1, <1>0, Zenon DEF ClaimNamespace, CanRead
      <4>2. ClaimHeld'
          BY <3>1, <4>1, <1>0 DEF ClaimNamespace
      <4>3. HolderOwns'
        <5>1. \A k \in Namespaces : k # n => byNamespace'[k] = byNamespace[k]
            BY <3>1, <1>0, ZenonT(60) DEF ClaimNamespace
        <5>2. byNamespace'[n] = s /\ namespace'[s] = n /\ Owns(s)'
            BY <3>1, <1>0 DEF ClaimNamespace
        <5>3. \A k \in Namespaces : byNamespace[k] # s
            BY <1>0 DEF CanRead
        <5>4. \A t \in Sessions \ {s} :
                 /\ pc'[t] = pc[t] /\ workerID'[t] = workerID[t]
                 /\ namespace'[t] = namespace[t]
            BY <3>1, <1>0, ZenonT(60) DEF ClaimNamespace
        <5> QED
            BY <5>1, <5>2, <5>3, <5>4, <1>0
      <4> QED
          BY <4>2, <4>3, Zenon
    <3>2. CASE Goto(s, "cleanup") /\ UNCHANGED <<namespace, byNamespace>>
        BY <3>2, <1>0 DEF CanRead
    <3> QED
        BY <3>1, <3>2, Zenon
  <2>2. CASE UpsertWorkerAndChannel(s)
      BY <2>2, <1>0 DEF UpsertWorkerAndChannel
  <2>3. CASE ReleaseClaim(s)
      BY <2>3, <1>0 DEF ReleaseClaim, Release
  <2>4. CASE BindChannel(s)
      BY <2>4, <1>0 DEF BindChannel
  <2> QED
      BY <1>3, <2>1, <2>2, <2>3, <2>4, Zenon
<1>4. ASSUME NEW s \in Sessions,
            UpdateHeartbeat(s) \/ HeartbeatChannel(s)
     PROVE  ClaimHeld' /\ HolderOwns'
  <2>1. CASE UpdateHeartbeat(s)
      BY <2>1, <1>0 DEF UpdateHeartbeat, CanRead
  <2>2. CASE HeartbeatChannel(s)
      BY <2>2, <1>0 DEF HeartbeatChannel
  <2> QED
      BY <1>4, <2>1, <2>2, Zenon
<1>5. ASSUME NEW s \in Sessions,
            CleanupWorker(s) \/ CleanupSkipped(s) \/ ReleaseSession(s)
     PROVE  ClaimHeld' /\ HolderOwns'
  <2>1. CASE CleanupWorker(s)
      BY <2>1, <1>0 DEF CleanupWorker
  <2>2. CASE CleanupSkipped(s)
      BY <2>2, <1>0 DEF CleanupSkipped
  <2>3. CASE ReleaseSession(s)
      BY <2>3, <1>0 DEF ReleaseSession, Release
  <2> QED
      BY <1>5, <2>1, <2>2, <2>3, Zenon
<1> QED
    BY <1>1, <1>2, <1>3, <1>4, <1>5, Steps, Zenon
-----------------------------------------------------------------------------
\* No two sessions own the same namespace.
LEMMA OneOwner ==
  \A s, t \in Sessions :
     ClaimHeld /\ Owns(s) /\ Owns(t) /\ namespace[s] = namespace[t] => s = t
BY Zenon DEF ClaimHeld

\* Only the owner of a namespace writes its node row.
LEMMA RowStep == IInv /\ [Next]_vars => RowOfOwner' /\ NodeRowFollowsSession'
<1> SUFFICES ASSUME IInv, [Next]_vars PROVE RowOfOwner' /\ NodeRowFollowsSession'
    OBVIOUS
<1>0. /\ GoroutineTypes /\ SessionTypes /\ NodeTypes
      /\ Phases /\ ClaimHeld /\ RowOfOwner /\ NodeRowFollowsSession
    BY Zenon DEF IInv, TypeOK
<1> USE DEF GoroutineTypes, SessionTypes, NodeTypes, Phases, ClaimHeld, Owns, RowOfOwner,
           NodeRowFollowsSession
<1>1. CASE Restart
    BY <1>1, <1>0, Zenon DEF Restart
<1>2. CASE Quiet
    BY <1>2, <1>0 DEF Quiet
<1>3. ASSUME NEW s \in Sessions,
            RegisterWorker(s) \/ UpsertWorkerAndChannel(s) \/ ReleaseClaim(s)
            \/ BindChannel(s)
     PROVE  RowOfOwner' /\ NodeRowFollowsSession'
  <2>1. CASE RegisterWorker(s)
      BY <2>1, <1>0 DEF RegisterWorker, CanRead, ClaimNamespace
  <2>2. CASE UpsertWorkerAndChannel(s)
    <3> DEFINE n == namespace[s]
    <3> PICK c \in Channels, m \in ModelLists :
           /\ nodeChannel' = [nodeChannel EXCEPT ![n] = c]
           /\ local' = [local EXCEPT ![s] = [chan |-> c, models |-> m,
                                             status |-> "online"]]
        BY <2>2, Zenon DEF UpsertWorkerAndChannel
    <3>1. /\ pc[s] = "claimed" /\ pc' = [pc EXCEPT ![s] = "upserted"]
          /\ nodeProvider' = [nodeProvider EXCEPT ![n] = token[s]]
          /\ nodeStatus' = [nodeStatus EXCEPT ![n] = "online"]
          /\ UNCHANGED sessVars
        BY <2>2, Zenon DEF UpsertWorkerAndChannel
    <3>2. n \in Namespaces /\ workerID[s] = None
        BY <3>1, <1>0
    <3>3. \A t \in Sessions : t # s /\ Owns(t) => namespace[t] # n
        BY <3>1, <1>0, OneOwner, ZenonT(60) DEF n
    <3> HIDE DEF n
    <3>4. RowOfOwner'
        BY <3>1, <3>2, <3>3, <1>0 DEF n
    <3>5. NodeRowFollowsSession'
        BY <3>1, <3>2, <3>3, <1>0 DEF n
    <3> QED
        BY <3>4, <3>5, Zenon
  <2>3. CASE ReleaseClaim(s)
      BY <2>3, <1>0, ZenonT(60) DEF ReleaseClaim, Release
  <2>4. CASE BindChannel(s)
      BY <2>4, <1>0 DEF BindChannel
  <2> QED
      BY <1>3, <2>1, <2>2, <2>3, <2>4, ZenonT(60)
<1>4. ASSUME NEW s \in Sessions,
            UpdateHeartbeat(s) \/ HeartbeatChannel(s)
     PROVE  RowOfOwner' /\ NodeRowFollowsSession'
  <2>1. CASE UpdateHeartbeat(s)
    <3> DEFINE n == namespace[s]
    <3> PICK st \in WorkerStatus, m \in ModelLists :
           /\ nodeStatus' = [nodeStatus EXCEPT ![workerID[s]] = st]
           /\ local' = [local EXCEPT ![s] = [chan |-> None, models |-> m, status |-> st]]
        BY <2>1, Zenon DEF UpdateHeartbeat
    <3>1. /\ pc' = [pc EXCEPT ![s] = "beat"] /\ pc[s] = "serve"
          /\ workerID[s] = n /\ n \in Namespaces
          /\ UNCHANGED <<sessVars, nodeProvider, nodeChannel>>
        BY <2>1, <1>0 DEF UpdateHeartbeat, CanRead
    <3>2. \A t \in Sessions : t # s /\ Owns(t) => namespace[t] # n
        BY <3>1, <1>0, OneOwner, ZenonT(60)
    <3> HIDE DEF n
    <3>3. RowOfOwner'
        BY <3>1, <3>2, <1>0 DEF n
    <3>4. NodeRowFollowsSession'
        BY <3>1, <3>2, <1>0 DEF n
    <3> QED
        BY <3>3, <3>4, Zenon
  <2>2. CASE HeartbeatChannel(s)
      BY <2>2, <1>0 DEF HeartbeatChannel
  <2> QED
      BY <1>4, <2>1, <2>2, Zenon
<1>5. ASSUME NEW s \in Sessions,
            CleanupWorker(s) \/ CleanupSkipped(s) \/ ReleaseSession(s)
     PROVE  RowOfOwner' /\ NodeRowFollowsSession'
  <2>1. CASE CleanupWorker(s)
    <3> DEFINE n == namespace[s]
    <3>1. /\ pc[s] = "cleanup" /\ pc' = [pc EXCEPT ![s] = "unload"]
          /\ workerID[s] = n /\ n \in Namespaces
          /\ UNCHANGED <<sessVars, local, nodeProvider, nodeChannel>>
          /\ \/ nodeStatus' = [nodeStatus EXCEPT ![n] = "offline"]
             \/ nodeStatus' = nodeStatus
        BY <2>1, <1>0 DEF CleanupWorker
    <3>2. \A t \in Sessions : t # s /\ Owns(t) => namespace[t] # n
        BY <3>1, <1>0, OneOwner, ZenonT(60)
    <3> HIDE DEF n
    <3>3. RowOfOwner'
        BY <3>1, <3>2, <1>0
    <3>4. NodeRowFollowsSession'
        BY <3>1, <3>2, <1>0
    <3> QED
        BY <3>3, <3>4, Zenon
  <2>2. CASE CleanupSkipped(s)
      BY <2>2, <1>0, ZenonT(60) DEF CleanupSkipped
  <2>3. CASE ReleaseSession(s)
      BY <2>3, <1>0, ZenonT(60) DEF ReleaseSession, Release
  <2> QED
      BY <1>5, <2>1, <2>2, <2>3, Zenon
<1> QED
    BY <1>1, <1>2, <1>3, <1>4, <1>5, Steps, Zenon

\* A node gets its own channel back or an id nobody had.
LEMMA ChannelStep == IInv /\ [Next]_vars => ChannelUsed' /\ ChannelsNotShared'
<1> SUFFICES ASSUME IInv, [Next]_vars PROVE ChannelUsed' /\ ChannelsNotShared'
    OBVIOUS
<1>0. /\ SessionTypes /\ NodeTypes /\ ChannelTypes
      /\ Phases /\ ChannelUsed /\ ChannelsNotShared
    BY Zenon DEF IInv, TypeOK
<1> USE DEF SessionTypes, NodeTypes, ChannelTypes, Phases, Owns, ChannelUsed,
           ChannelsNotShared
<1>1. CASE Restart
    BY <1>1, <1>0, Zenon DEF Restart
<1>2. CASE Quiet
    BY <1>2, <1>0 DEF Quiet
<1>3. ASSUME NEW s \in Sessions,
            RegisterWorker(s) \/ UpsertWorkerAndChannel(s) \/ ReleaseClaim(s)
            \/ BindChannel(s)
     PROVE  ChannelUsed' /\ ChannelsNotShared'
  <2>1. CASE RegisterWorker(s)
      BY <2>1, <1>0, ZenonT(60) DEF RegisterWorker, CanRead, ClaimNamespace
  <2>2. CASE UpsertWorkerAndChannel(s)
      BY <2>2, <1>0 DEF UpsertWorkerAndChannel, ChannelFor, RowExists
  <2>3. CASE ReleaseClaim(s)
      BY <2>3, <1>0, Zenon DEF ReleaseClaim, Release
  <2>4. CASE BindChannel(s)
      BY <2>4, <1>0, Zenon DEF BindChannel
  <2> QED
      BY <1>3, <2>1, <2>2, <2>3, <2>4, Zenon
<1>4. ASSUME NEW s \in Sessions,
            UpdateHeartbeat(s) \/ HeartbeatChannel(s)
     PROVE  ChannelUsed' /\ ChannelsNotShared'
  <2>1. CASE UpdateHeartbeat(s)
      BY <2>1, <1>0, Zenon DEF UpdateHeartbeat, CanRead
  <2>2. CASE HeartbeatChannel(s)
      BY <2>2, <1>0, ZenonT(60) DEF HeartbeatChannel, RowExists, channelStatusFromWorkerStatus
  <2> QED
      BY <1>4, <2>1, <2>2, Zenon
<1>5. ASSUME NEW s \in Sessions,
            CleanupWorker(s) \/ CleanupSkipped(s) \/ ReleaseSession(s)
     PROVE  ChannelUsed' /\ ChannelsNotShared'
  <2>1. CASE CleanupWorker(s)
      BY <2>1, <1>0 DEF CleanupWorker
  <2>2. CASE CleanupSkipped(s)
      BY <2>2, <1>0, Zenon DEF CleanupSkipped
  <2>3. CASE ReleaseSession(s)
      BY <2>3, <1>0, Zenon DEF ReleaseSession, Release
  <2> QED
      BY <1>5, <2>1, <2>2, <2>3, Zenon
<1> QED
    BY <1>1, <1>2, <1>3, <1>4, <1>5, Steps, Zenon
-----------------------------------------------------------------------------
\* BindChannel replaces no entry of another owner.
LEMMA RouteStep == IInv /\ [Next]_vars => RoutesToOwner'
<1> SUFFICES ASSUME IInv, [Next]_vars PROVE RoutesToOwner'
    OBVIOUS
<1>0. /\ GoroutineTypes /\ SessionTypes /\ ManagerTypes /\ NodeTypes /\ Phases
      /\ ClaimHeld /\ RowOfOwner /\ ChannelsNotShared /\ RoutesToOwner
    BY Zenon DEF IInv, TypeOK
<1> USE DEF GoroutineTypes, SessionTypes, ManagerTypes, NodeTypes, Phases, Owns,
           ClaimHeld, RowOfOwner, ChannelsNotShared, RoutesToOwner
<1>1. CASE Restart
    BY <1>1, <1>0, Zenon DEF Restart
<1>6. ASSUME UNCHANGED <<byChannelID, workerID, channelID, nodeChannel>>,
             \A t \in Sessions : workerID[t] # None => (pc'[t] # "closed" <=> pc[t] # "closed")
      PROVE  RoutesToOwner'
  <2>1. byChannelID \in [Channels -> Sessions \cup {None}] /\ RoutesToOwner
      BY <1>0, Zenon
  <2> QED
      BY <1>6, <2>1
<1>7. ASSUME NEW s \in Sessions, NEW label, Goto(s, label),
             UNCHANGED <<byChannelID, workerID, channelID, nodeChannel>>,
             workerID[s] = None \/ (label # "closed" /\ pc[s] # "closed")
      PROVE  RoutesToOwner'
  <2>1. pc \in [Sessions \cup Admins -> SessionPC \cup AdminPC]
      BY <1>0, Zenon
  <2>2. \A t \in Sessions : workerID[t] # None => (pc'[t] # "closed" <=> pc[t] # "closed")
      BY <1>7, <2>1
  <2> QED
      BY <1>6, <1>7, <2>2, Zenon
<1>2. CASE Quiet
  <2>1. UNCHANGED <<byChannelID, workerID, channelID, nodeChannel>>
      BY <1>2, Zenon DEF Quiet
  <2>2. \A s \in Sessions : workerID[s] # None => (pc'[s] # "closed" <=> pc[s] # "closed")
      BY <1>2, <1>0, Zenon DEF Quiet
  <2> QED
      BY <1>6, <2>1, <2>2, Zenon
<1>3. ASSUME NEW s \in Sessions,
            RegisterWorker(s) \/ UpsertWorkerAndChannel(s) \/ ReleaseClaim(s)
            \/ BindChannel(s)
     PROVE  RoutesToOwner'
  <2>1. CASE RegisterWorker(s)
      BY <2>1, <1>7, ZenonT(60) DEF RegisterWorker
  <2>2. CASE UpsertWorkerAndChannel(s)
      BY <2>2, <1>0 DEF UpsertWorkerAndChannel
  <2>3. CASE ReleaseClaim(s)
      BY <2>3, <1>0 DEF ReleaseClaim, Release
  <2>4. CASE BindChannel(s)
    <3> DEFINE c == local[s].chan
    <3>1. /\ pc[s] = "upserted" /\ workerID[s] = None
          /\ c \in Channels /\ nodeChannel[namespace[s]] = c
          /\ namespace[s] \in Namespaces
        BY <2>4, <1>0 DEF BindChannel, Locals
    <3>2. byChannelID[c] = None
        BY <3>1, <1>0
    <3>3. /\ pc' = [pc EXCEPT ![s] = "load"]
          /\ workerID' = [workerID EXCEPT ![s] = namespace[s]]
          /\ channelID' = [channelID EXCEPT ![s] = c]
          /\ nodeChannel' = nodeChannel
        BY <2>4, Zenon DEF BindChannel
    <3>4. channelID[s] = None
        BY <3>1, <1>0, Zenon
    <3>5. \A d \in Channels :
             byChannelID'[d] = IF d = c THEN s
                               ELSE IF d = channelID[s] THEN None ELSE byChannelID[d]
        BY <2>4, Zenon DEF BindChannel
    <3> HIDE DEF c
    <3>6. \A t \in Sessions : t # s /\ workerID[t] # None /\ pc[t] # "closed" =>
              channelID[t] # c
        BY <3>1, <3>2, <1>0
    <3> QED
      <4>1. \A d \in Channels : d # c => byChannelID'[d] = byChannelID[d]
          BY <3>4, <3>5, <1>0
      <4>2. byChannelID'[c] = s
          BY <3>1, <3>5, Zenon
      <4>3. \A t \in Sessions \ {s} :
               /\ pc'[t] = pc[t] /\ workerID'[t] = workerID[t]
               /\ channelID'[t] = channelID[t]
          BY <3>3, <1>0
      <4>4. pc'[s] = "load" /\ workerID'[s] = namespace[s] /\ channelID'[s] = c
          BY <3>3, <1>0
      <4>5. \A d \in Channels : byChannelID[d] # s
          BY <3>1, <1>0
      <4>6. ASSUME NEW d \in Channels, byChannelID'[d] # None
            PROVE  LET t == byChannelID'[d] IN
                   /\ workerID'[t] # None /\ pc'[t] # "closed"
                   /\ channelID'[t] = d /\ nodeChannel'[workerID'[t]] = d
        <5>1. CASE d = c
            BY <5>1, <3>1, <3>3, <4>2, <4>4, ZenonT(60)
        <5>2. CASE d # c
            BY <5>2, <4>6, <3>3, <4>1, <4>3, <4>5, <1>0
        <5> QED
            BY <5>1, <5>2, Zenon
      <4>7. ASSUME NEW t \in Sessions, workerID'[t] # None, pc'[t] # "closed"
            PROVE  byChannelID'[channelID'[t]] = t
        <5>1. CASE t = s
            BY <5>1, <4>2, <4>4, Zenon
        <5>2. CASE t # s
            BY <5>2, <4>7, <3>6, <4>1, <4>3, <1>0
        <5> QED
            BY <5>1, <5>2, Zenon
      <4> QED
          BY <4>6, <4>7, Zenon DEF RoutesToOwner
  <2> QED
      BY <1>3, <2>1, <2>2, <2>3, <2>4, ZenonT(60)
<1>4. ASSUME NEW s \in Sessions,
            UpdateHeartbeat(s) \/ HeartbeatChannel(s)
     PROVE  RoutesToOwner'
  <2>1. CASE UpdateHeartbeat(s)
      BY <2>1, <1>7, Zenon DEF UpdateHeartbeat, CanRead
  <2>2. CASE HeartbeatChannel(s)
    <3>1. /\ pc[s] = "beat" /\ (Goto(s, "load") \/ Goto(s, "serve"))
          /\ UNCHANGED <<workerID, channelID, byChannelID, nodeChannel>>
        BY <2>2, Zenon DEF HeartbeatChannel
    <3> QED
        BY <3>1, <1>7, Zenon
  <2> QED
      BY <1>4, <2>1, <2>2, ZenonT(60)
<1>5. ASSUME NEW s \in Sessions,
            CleanupWorker(s) \/ CleanupSkipped(s) \/ ReleaseSession(s)
     PROVE  RoutesToOwner'
  <2>1. CASE CleanupWorker(s)
      BY <2>1, <1>7, Zenon DEF CleanupWorker
  <2>2. CASE CleanupSkipped(s)
      BY <2>2, <1>7, Zenon DEF CleanupSkipped
  <2>3. CASE ReleaseSession(s)
      BY <2>3, <1>0 DEF ReleaseSession, Release
  <2> QED
      BY <1>5, <2>1, <2>2, <2>3, ZenonT(60)
<1> QED
    BY <1>1, <1>2, <1>3, <1>4, <1>5, Steps, Zenon

\* A claim that is given up leaves the row as CleanupWorker, or the owner
\* before, left it.
LEMMA OfflineStep == IInv /\ [Next]_vars => OfflineOutside' /\ UnheldIsOffline'
<1> SUFFICES ASSUME IInv, [Next]_vars PROVE OfflineOutside' /\ UnheldIsOffline'
    OBVIOUS
<1>0. /\ GoroutineTypes /\ SessionTypes /\ ManagerTypes /\ NodeTypes /\ Phases
      /\ ClaimHeld /\ HolderOwns /\ OfflineOutside /\ UnheldIsOffline
    BY Zenon DEF IInv, TypeOK
<1> USE DEF GoroutineTypes, SessionTypes, ManagerTypes, NodeTypes, Phases, Owns,
           ClaimHeld, HolderOwns, OfflineOutside, UnheldIsOffline
<1>1. CASE Restart
    BY <1>1, <1>0, Zenon DEF Restart
<1>2. CASE Quiet
    BY <1>2, <1>0, Zenon DEF Quiet
<1>3. ASSUME NEW s \in Sessions,
            RegisterWorker(s) \/ UpsertWorkerAndChannel(s) \/ ReleaseClaim(s)
            \/ BindChannel(s)
     PROVE  OfflineOutside' /\ UnheldIsOffline'
  <2>1. CASE RegisterWorker(s)
      BY <2>1, <1>0 DEF RegisterWorker, CanRead, ClaimNamespace
  <2>2. CASE UpsertWorkerAndChannel(s)
      BY <2>2, <1>0 DEF UpsertWorkerAndChannel
  <2>3. CASE ReleaseClaim(s)
      BY <2>3, <1>0 DEF ReleaseClaim, Release
  <2>4. CASE BindChannel(s)
      BY <2>4, <1>0 DEF BindChannel
  <2> QED
      BY <1>3, <2>1, <2>2, <2>3, <2>4, ZenonT(60)
<1>4. ASSUME NEW s \in Sessions,
            UpdateHeartbeat(s) \/ HeartbeatChannel(s)
     PROVE  OfflineOutside' /\ UnheldIsOffline'
  <2>1. CASE UpdateHeartbeat(s)
      BY <2>1, <1>0 DEF UpdateHeartbeat, CanRead
  <2>2. CASE HeartbeatChannel(s)
    <3>1. /\ pc[s] = "beat" /\ (Goto(s, "load") \/ Goto(s, "serve"))
          /\ UNCHANGED <<namespace, workerID, byNamespace, nodeStatus, stranded>>
        BY <2>2, Zenon DEF HeartbeatChannel
    <3> QED
        BY <3>1, <1>0
  <2> QED
      BY <1>4, <2>1, <2>2, Zenon
<1>5. ASSUME NEW s \in Sessions,
            CleanupWorker(s) \/ CleanupSkipped(s) \/ ReleaseSession(s)
     PROVE  OfflineOutside' /\ UnheldIsOffline'
  <2>1. CASE CleanupWorker(s)
    <3>1. /\ pc[s] = "cleanup" /\ workerID[s] = namespace[s]
          /\ namespace[s] \in Namespaces /\ byNamespace[namespace[s]] = s
          /\ pc' = [pc EXCEPT ![s] = "unload"]
          /\ UNCHANGED <<workerID, namespace, byNamespace>>
        BY <2>1, <1>0 DEF CleanupWorker
    <3>2. \/ /\ nodeStatus' = [nodeStatus EXCEPT ![namespace[s]] = "offline"]
             /\ stranded' = stranded \ {namespace[s]}
          \/ /\ nodeStatus' = nodeStatus
             /\ stranded' = stranded \cup {namespace[s]}
        BY <3>1, <2>1, Zenon DEF CleanupWorker
    <3>3. OfflineOutside'
        BY <3>1, <3>2, <1>0
    <3>4. UnheldIsOffline'
        BY <3>1, <3>2, <1>0
    <3> QED
        BY <3>3, <3>4, ZenonT(60)
  <2>2. CASE CleanupSkipped(s)
      BY <2>2, <1>0 DEF CleanupSkipped
  <2>3. CASE ReleaseSession(s)
      BY <2>3, <1>0 DEF ReleaseSession, Release
  <2> QED
      BY <1>5, <2>1, <2>2, <2>3, Zenon
<1> QED
    BY <1>1, <1>2, <1>3, <1>4, <1>5, Steps, Zenon

\* Every step of the gateway preserves the invariant.
LEMMA StepIInv == IInv /\ [Next]_vars => IInv'
BY TypeStep, PhasesStep, ClaimStep, RowStep, ChannelStep, RouteStep, OfflineStep, Zenon
   DEF IInv

LEMMA InvariantIInv == Spec => []IInv
BY InitIInv, StepIInv, PTL DEF Spec
-----------------------------------------------------------------------------
(* What follows for the gateway.                                           *)

\* Every variable of the gateway keeps its type.
THEOREM TypeCorrect == Spec => []TypeOK
<1>1. IInv => TypeOK
    BY Zenon DEF IInv
<1> QED
    BY <1>1, InvariantIInv, PTL

\* Whoever passed ClaimNamespace keeps the namespace until its own Release:
\* one worker per namespace at a time.
THEOREM NamespaceExclusion == Spec => []ClaimHeld
<1>1. IInv => ClaimHeld
    BY Zenon DEF IInv
<1> QED
    BY <1>1, InvariantIInv, PTL

\* A worker that reconnects is never marked offline, nor moved to another
\* user or channel, by the cleanup of the connection it replaces.
THEOREM RowsFollowSession == Spec => []NodeRowFollowsSession
<1>1. IInv => NodeRowFollowsSession
    BY Zenon DEF IInv
<1> QED
    BY <1>1, InvariantIInv, PTL

\* byChannelID has exactly the registered sessions, each under its channel,
\* and no two workers share a channel.
THEOREM RoutingCorrect == Spec => [](RoutesToOwner /\ ChannelsNotShared)
<1>1. IInv => RoutesToOwner /\ ChannelsNotShared
    BY Zenon DEF IInv
<1> QED
    BY <1>1, InvariantIInv, PTL

\* A worker that is listed and has no session is one whose cleanup did not
\* take place.
THEOREM OfflineWhenUnheld == Spec => []UnheldIsOffline
<1>1. IInv => UnheldIsOffline
    BY Zenon DEF IInv
<1> QED
    BY <1>1, InvariantIInv, PTL

\* A claim is a grant, the upsert enrolls, heartbeat and cleanup report, Release
\* gives up, and everything else leaves the directory alone.
LEMMA DirectoryStep == IInv /\ [Next]_vars => [Directory!Next]_(Directory!vars)
<1> SUFFICES ASSUME IInv, [Next]_vars
             PROVE  Directory!Next \/ UNCHANGED Directory!vars
    BY Zenon DEF Directory!vars
<1>0. /\ GoroutineTypes /\ SessionTypes /\ ManagerTypes /\ NodeTypes
      /\ Phases /\ ClaimHeld /\ RowOfOwner /\ ChannelUsed /\ ChannelsNotShared
    BY Zenon DEF IInv, TypeOK
<1> USE DEF GoroutineTypes, SessionTypes, ManagerTypes, NodeTypes, Phases, ClaimHeld,
           Owns, Directory!vars
<1>a. ASSUME NEW s \in Sessions, Release(s), UNCHANGED nodeVars
     PROVE  Directory!Next \/ UNCHANGED Directory!vars
  <2>1. CASE namespace[s] # None /\ byNamespace[namespace[s]] = s
    <3>1. namespace[s] \in Namespaces
        BY <2>1, <1>0
    <3>2. byNamespace' = [byNamespace EXCEPT ![namespace[s]] = None]
        BY <1>a, <2>1, <3>1, <1>0, Zenon DEF Release
    <3>3. Directory!GiveUp(namespace[s])
        BY <1>a, <2>1, <3>2, ConstAssumption, Zenon DEF Directory!GiveUp
    <3> QED
        BY <3>1, <3>3, ZenonT(60) DEF Directory!Next
  <2>2. CASE ~(namespace[s] # None /\ byNamespace[namespace[s]] = s)
      BY <1>a, <2>2, <1>0 DEF Release
  <2> QED
      BY <2>1, <2>2, Zenon
<1>1. CASE Restart
    BY <1>1, Zenon DEF Restart, Directory!Next, Directory!Forget
<1>2. CASE Quiet
    BY <1>2, Zenon DEF Quiet
<1>3. ASSUME NEW s \in Sessions, RegisterWorker(s)
     PROVE  Directory!Next \/ UNCHANGED Directory!vars
  <2> PICK n \in Namespaces :
         \/ ClaimNamespace(s, n)
         \/ UNCHANGED byNamespace
      BY <1>3, Zenon DEF RegisterWorker
  <2> UNCHANGED nodeVars
      BY <1>3, Zenon DEF RegisterWorker
  <2>1. CASE ClaimNamespace(s, n) /\ byNamespace[n] = None
    <3>1. Directory!Grant(n, s)
        BY <2>1, <1>0, Zenon DEF ClaimNamespace, Directory!Grant
    <3> QED
        BY <3>1, Zenon DEF Directory!Next
  <2>2. CASE ClaimNamespace(s, n) /\ byNamespace[n] = s
      BY <2>2, <1>0, Zenon DEF ClaimNamespace
  <2> QED
      BY <2>1, <2>2, Zenon DEF ClaimNamespace
<1>4. ASSUME NEW s \in Sessions, UpsertWorkerAndChannel(s)
     PROVE  Directory!Next
  <2> DEFINE n == namespace[s]
  <2> PICK c \in Channels, m \in ModelLists :
         /\ ChannelFor(n, c)
         /\ nodeProvider' = [nodeProvider EXCEPT ![n] = token[s]]
         /\ nodeStatus' = [nodeStatus EXCEPT ![n] = "online"]
         /\ nodeChannel' = [nodeChannel EXCEPT ![n] = c]
      BY <1>4, Zenon DEF UpsertWorkerAndChannel
  <2>1. /\ pc[s] = "claimed" /\ nodeProvider[n] \in {None, token[s]}
        /\ UNCHANGED byNamespace
      BY <1>4, Zenon DEF UpsertWorkerAndChannel
  <2>2. n \in Namespaces /\ token[s] \in Users /\ byNamespace[n] = s
      BY <2>1, <1>0
  <2>3. \A k \in Namespaces \ {n} : nodeChannel[k] # c
      BY <2>2, <1>0 DEF ChannelFor, ChannelUsed, ChannelsNotShared
  <2>4. Directory!Enroll(n, token[s], c)
      BY <2>1, <2>2, <2>3, Zenon DEF Directory!Enroll
  <2> QED
      BY <2>2, <2>4, Zenon DEF Directory!Next
<1>5. ASSUME NEW s \in Sessions, UpdateHeartbeat(s)
     PROVE  Directory!Next
  <2> DEFINE n == workerID[s]
  <2> PICK st \in WorkerStatus : nodeStatus' = [nodeStatus EXCEPT ![n] = st]
      BY <1>5, Zenon DEF UpdateHeartbeat
  <2>1. n # None /\ pc[s] = "serve" /\ UNCHANGED <<byNamespace, nodeProvider, nodeChannel>>
      BY <1>5, Zenon DEF UpdateHeartbeat, CanRead
  <2>2. n \in Namespaces /\ byNamespace[n] = s /\ nodeProvider[n] # None
      BY <2>1, <1>0 DEF RowOfOwner
  <2>3. Directory!Report(n, st)
      BY <2>1, <2>2, Zenon DEF Directory!Report
  <2> QED
      BY <2>2, <2>3, Zenon DEF Directory!Next, Directory!Presence, WorkerStatus
<1>6. ASSUME NEW s \in Sessions, CleanupWorker(s)
     PROVE  Directory!Next \/ UNCHANGED Directory!vars
  <2> DEFINE n == workerID[s]
  <2>1. /\ n # None /\ pc[s] = "cleanup"
        /\ UNCHANGED <<byNamespace, nodeProvider, nodeChannel>>
        /\ nodeStatus' \in {nodeStatus, [nodeStatus EXCEPT ![n] = "offline"]}
      BY <1>6, ZenonT(60) DEF CleanupWorker
  <2>2. n \in Namespaces /\ byNamespace[n] = s /\ nodeProvider[n] # None
      BY <2>1, <1>0 DEF RowOfOwner
  <2>3. CASE nodeStatus' = [nodeStatus EXCEPT ![n] = "offline"]
    <3>1. Directory!Report(n, "offline")
        BY <2>1, <2>2, <2>3, Zenon DEF Directory!Report
    <3> QED
        BY <2>2, <3>1, Zenon DEF Directory!Next, Directory!Presence
  <2>4. CASE nodeStatus' = nodeStatus
      BY <2>1, <2>4, Zenon
  <2> QED
      BY <2>1, <2>3, <2>4, Zenon
<1>7. ASSUME NEW s \in Sessions, ReleaseClaim(s) \/ ReleaseSession(s)
     PROVE  Directory!Next \/ UNCHANGED Directory!vars
    BY <1>7, <1>a, Zenon DEF ReleaseClaim, ReleaseSession
<1>8. ASSUME NEW s \in Sessions,
            BindChannel(s) \/ HeartbeatChannel(s) \/ CleanupSkipped(s)
     PROVE  UNCHANGED Directory!vars
    BY <1>8, Zenon DEF BindChannel, HeartbeatChannel, CleanupSkipped
<1> QED
    BY <1>1, <1>2, <1>3, <1>4, <1>5, <1>6, <1>7, <1>8, Steps, Zenon

\* The gateway's registry implements WorkerDirectory: whatever connections come and
\* go, leases and what is listed of a worker change only as the directory allows.
THEOREM DirectoryImplemented == Spec => DirectorySpec
<1>1. Init => Directory!Init
    BY Zenon DEF Init, Directory!Init
<1> QED
    BY <1>1, DirectoryStep, InvariantIInv, PTL DEF Spec, DirectorySpec, Directory!Spec
=============================================================================
