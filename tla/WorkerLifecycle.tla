-------------------------- MODULE WorkerLifecycle --------------------------
(***************************************************************************)
(* The life of a worker at the gateway: tokilake-core's SessionManager and *)
(* control loop, tokilake-onehub's HubWorkerRegistry with the two rows it  *)
(* keeps per worker (a worker node and its virtual channel), and the       *)
(* ChannelsChooser snapshot that the relay routes with.                    *)
(*                                                                         *)
(* Every GatewaySession is served by one goroutine.  A step of this module *)
(* is what such a goroutine does between two points where another one may  *)
(* run: a critical section of SessionManager.mu, one database transaction  *)
(* or statement, the query of ChannelGroup.Load, or the assignment that    *)
(* ends it.  pc says which step comes next.                                *)
(***************************************************************************)
EXTENDS Naturals

CONSTANTS Sessions,    \* GatewaySession objects, each used for one connection
          Admins,      \* goroutines of admin requests that change channel rows
          Namespaces,  \* the namespaces workers register under
          Channels,    \* ids of channel rows; an id is never used twice
          Users,       \* owners of the tokens workers connect with
          ModelLists,  \* normalized, non-empty model lists
          None         \* Go's nil, "" or 0

ASSUME ConstAssumption ==
    /\ None \notin Sessions \cup Channels \cup Namespaces \cup Users \cup ModelLists
    /\ Sessions \cap Admins = {}

VARIABLES
    \* goroutines
    pc,           \* the next step of each session's or admin's goroutine
    dead,         \* sessions whose worker is gone: no message arrives any more
    local,        \* the message a handler works on, and the row ids it found
    fetched,      \* the rows a Load in progress has read
    \* fields of GatewaySession
    token, namespace, workerID, channelID, status, models,
    \* SessionManager
    byNamespace, byChannelID,
    \* the database: one worker node row per namespace, and channel rows
    nodeProvider, nodeStatus, nodeChannel, chanStatus, chanModels,
    \* ChannelGroup: the installed snapshot and the choices marked Disable
    snapshot, disabled,
    changes,      \* ChangeStatus goroutines started and not yet run
    stranded      \* history: namespaces whose rows no cleanup has reset

sessVars == <<token, namespace, workerID, channelID, status, models>>
mapVars  == <<byNamespace, byChannelID>>
nodeVars == <<nodeProvider, nodeStatus, nodeChannel>>
chanVars == <<chanStatus, chanModels>>
snapVars == <<snapshot, disabled, changes>>
vars == <<pc, dead, local, fetched, sessVars, mapVars, nodeVars, chanVars,
          snapVars, stranded>>

WorkerStatus  == {"online", "busy", "offline"}
ChannelStatus == {"unused", "enabled", "autoDisabled", "manuallyDisabled", "deleted"}
SessionPC == {"new", "serve", "claimed", "rejected", "upserted", "beat", "load",
              "install", "cleanup", "unload", "uninstall", "release", "closed"}
AdminPC   == {"idle", "load", "install"}

NoRows  == [c \in Channels |-> None]
NoLocal == [chan |-> None, models |-> None, status |-> "online"]
Locals  == [chan : Channels \cup {None}, models : ModelLists \cup {None},
            status : WorkerStatus]

GoroutineTypes ==
    /\ pc \in [Sessions \cup Admins -> SessionPC \cup AdminPC]
    /\ dead \in SUBSET Sessions
    /\ local \in [Sessions -> Locals]
    /\ fetched \in [Sessions \cup Admins -> [Channels -> ModelLists \cup {None}]]

SessionTypes ==
    /\ token \in [Sessions -> Users \cup {None}]
    /\ namespace \in [Sessions -> Namespaces \cup {None}]
    /\ workerID \in [Sessions -> Namespaces \cup {None}]
    /\ channelID \in [Sessions -> Channels \cup {None}]
    /\ status \in [Sessions -> WorkerStatus]
    /\ models \in [Sessions -> ModelLists \cup {None}]

ManagerTypes ==
    /\ byNamespace \in [Namespaces -> Sessions \cup {None}]
    /\ byChannelID \in [Channels -> Sessions \cup {None}]

NodeTypes ==
    /\ nodeProvider \in [Namespaces -> Users \cup {None}]
    /\ nodeStatus \in [Namespaces -> WorkerStatus]
    /\ nodeChannel \in [Namespaces -> Channels \cup {None}]

ChannelTypes ==
    /\ chanStatus \in [Channels -> ChannelStatus]
    /\ chanModels \in [Channels -> ModelLists \cup {None}]
    /\ snapshot \in [Channels -> ModelLists \cup {None}]
    /\ disabled \in SUBSET Channels
    /\ changes \in SUBSET (Channels \X {"enable", "disable"})

\* Every variable of the gateway has its type.
TypeOK ==
    /\ GoroutineTypes /\ SessionTypes /\ ManagerTypes /\ NodeTypes /\ ChannelTypes
    /\ stranded \in SUBSET Namespaces

Init ==
    /\ pc = [p \in Sessions \cup Admins |-> IF p \in Sessions THEN "new" ELSE "idle"]
    /\ dead = {}
    /\ local = [s \in Sessions |-> NoLocal]
    /\ fetched = [p \in Sessions \cup Admins |-> NoRows]
    /\ token = [s \in Sessions |-> None]
    /\ namespace = [s \in Sessions |-> None]
    /\ workerID = [s \in Sessions |-> None]
    /\ channelID = [s \in Sessions |-> None]
    /\ status = [s \in Sessions |-> "online"]
    /\ models = [s \in Sessions |-> None]
    /\ byNamespace = [n \in Namespaces |-> None]
    /\ byChannelID = [c \in Channels |-> None]
    /\ nodeProvider = [n \in Namespaces |-> None]
    /\ nodeStatus = [n \in Namespaces |-> "offline"]
    /\ nodeChannel = [n \in Namespaces |-> None]
    /\ chanStatus = [c \in Channels |-> "unused"]
    /\ chanModels = NoRows
    /\ snapshot = NoRows
    /\ disabled = {}
    /\ changes = {}
    /\ stranded = {}

Goto(p, label) == pc' = [pc EXCEPT ![p] = label]

RowExists(c) == chanStatus[c] \in {"enabled", "autoDisabled", "manuallyDisabled"}

\* Mutant: the worker's status is written to the channel row as it is.
StatusUnconverted(st) == st

channelStatusFromWorkerStatus(st) ==
    IF st = "offline" THEN "autoDisabled" ELSE "enabled"

-----------------------------------------------------------------------------
(* Connecting, authenticating and the end of the control loop.             *)

\* A WebSocket worker connects with an authenticated token; a QUIC one with
\* none, and sends an auth message later.
Connect(s) ==
    /\ pc[s] = "new"
    /\ Goto(s, "serve")
    /\ \E t \in Users \cup {None} : token' = [token EXCEPT ![s] = t]
    /\ UNCHANGED <<dead, local, fetched, namespace, workerID, channelID, status,
                   models, mapVars, nodeVars, chanVars, snapVars, stranded>>

\* A message can be handled: the loop is blocked in ReadMessage and the
\* worker still talks.
CanRead(s) == pc[s] = "serve" /\ s \notin dead

Authenticate(s) ==
    /\ CanRead(s)
    /\ token[s] = None
    /\ \E u \in Users : token' = [token EXCEPT ![s] = u]
    /\ UNCHANGED <<pc, dead, local, fetched, namespace, workerID, channelID, status,
                   models, mapVars, nodeVars, chanVars, snapVars, stranded>>

\* The worker's process or its network goes away without a word.
LoseWorker(s) ==
    /\ pc[s] \notin {"new", "closed"}
    /\ s \notin dead
    /\ dead' = dead \cup {s}
    /\ UNCHANGED <<pc, local, fetched, sessVars, mapVars, nodeVars, chanVars,
                   snapVars, stranded>>

\* Mutant: the namespace is released before CleanupWorker runs.
EndServeReleasing(s) ==
    /\ pc[s] = "serve"
    /\ byNamespace' = [n \in Namespaces |->
          IF byNamespace[n] = s THEN None ELSE byNamespace[n]]
    /\ Goto(s, "cleanup")
    /\ UNCHANGED <<dead, local, fetched, sessVars, byChannelID, nodeVars, chanVars,
                   snapVars, stranded>>

\* serveControlStream returns: the read deadline passed, the tunnel broke, a
\* message was out of protocol, or a reply could not be written.
EndServe(s) ==
    /\ pc[s] = "serve"
    /\ Goto(s, "cleanup")
    /\ UNCHANGED <<dead, local, fetched, sessVars, mapVars, nodeVars, chanVars,
                   snapVars, stranded>>
-----------------------------------------------------------------------------
(* RegisterWorker: claim the namespace, write both rows, bind the channel, *)
(* reload the snapshot.                                                    *)

\* Mutant: the latest worker takes the namespace over.
ClaimAnyNamespace(s, n) ==
    /\ namespace' = [namespace EXCEPT ![s] = n]
    /\ byNamespace' = [byNamespace EXCEPT ![n] = s]

\* SessionManager.ClaimNamespace.
ClaimNamespace(s, n) ==
    /\ byNamespace[n] \in {None, s}
    /\ namespace' = [namespace EXCEPT ![s] = n]
    /\ byNamespace' = [byNamespace EXCEPT ![n] = s]

RegisterWorker(s) ==
    /\ CanRead(s)
    /\ token[s] # None
    /\ workerID[s] = None
    /\ \E n \in Namespaces :
         \/ /\ ClaimNamespace(s, n)
            /\ Goto(s, "claimed")
         \/ /\ byNamespace[n] \notin {None, s}    \* errNamespaceAlreadyConnected
            /\ Goto(s, "cleanup")
            /\ UNCHANGED <<namespace, byNamespace>>
    /\ UNCHANGED <<dead, local, fetched, token, workerID, channelID, status, models,
                   byChannelID, nodeVars, chanVars, snapVars, stranded>>

\* loadOrCreateTokiameChannel: the node's own channel while its row exists,
\* otherwise a new row.
ChannelFor(n, c) ==
    IF nodeChannel[n] # None /\ RowExists(nodeChannel[n])
      THEN c = nodeChannel[n]
      ELSE chanStatus[c] = "unused"

\* The transaction of upsertWorkerAndChannel commits.
UpsertWorkerAndChannel(s) ==
    LET n == namespace[s] IN
    /\ pc[s] = "claimed"
    /\ nodeProvider[n] \in {None, token[s]}
    /\ \E c \in Channels, m \in ModelLists :
         /\ ChannelFor(n, c)
         /\ chanStatus' = [chanStatus EXCEPT ![c] = "enabled"]
         /\ chanModels' = [chanModels EXCEPT ![c] = m]
         /\ nodeProvider' = [nodeProvider EXCEPT ![n] = token[s]]
         /\ nodeStatus' = [nodeStatus EXCEPT ![n] = "online"]
         /\ nodeChannel' = [nodeChannel EXCEPT ![n] = c]
         /\ local' = [local EXCEPT ![s] = [chan |-> c, models |-> m,
                                           status |-> "online"]]
    /\ stranded' = stranded \ {n}
    /\ Goto(s, "upserted")
    /\ UNCHANGED <<dead, fetched, sessVars, mapVars, snapVars>>

\* It fails: no model, a group the user may not use, a namespace another
\* user owns, or a database error.
UpsertFails(s) ==
    /\ pc[s] = "claimed"
    /\ Goto(s, "rejected")
    /\ UNCHANGED <<dead, local, fetched, sessVars, mapVars, nodeVars, chanVars,
                   snapVars, stranded>>

\* Mutants: Release does not look whose entry it removes, forgets the channel,
\* or forgets the namespace.
ReleaseUnchecked(s) ==
    /\ byNamespace' = [n \in Namespaces |->
          IF n = namespace[s] THEN None ELSE byNamespace[n]]
    /\ byChannelID' = [c \in Channels |->
          IF c = channelID[s] THEN None ELSE byChannelID[c]]

ReleaseNamespaceOnly(s) ==
    /\ byNamespace' = [n \in Namespaces |->
          IF n = namespace[s] /\ byNamespace[n] = s THEN None ELSE byNamespace[n]]
    /\ UNCHANGED byChannelID

ReleaseChannelOnly(s) ==
    /\ byChannelID' = [c \in Channels |->
          IF c = channelID[s] /\ byChannelID[c] = s THEN None ELSE byChannelID[c]]
    /\ UNCHANGED byNamespace

\* SessionManager.Release: a session removes only what is still its own.
Release(s) ==
    /\ byNamespace' = [n \in Namespaces |->
          IF n = namespace[s] /\ byNamespace[n] = s THEN None ELSE byNamespace[n]]
    /\ byChannelID' = [c \in Channels |->
          IF c = channelID[s] /\ byChannelID[c] = s THEN None ELSE byChannelID[c]]

\* RegisterWorker gives the claim back and reports the error, which ends the
\* session.
ReleaseClaim(s) ==
    /\ pc[s] = "rejected"
    /\ Release(s)
    /\ Goto(s, "cleanup")
    /\ UNCHANGED <<dead, local, fetched, sessVars, nodeVars, chanVars, snapVars,
                   stranded>>

BindChannel(s) ==
    LET c == local[s].chan IN
    /\ pc[s] = "upserted"
    /\ workerID' = [workerID EXCEPT ![s] = namespace[s]]
    /\ channelID' = [channelID EXCEPT ![s] = c]
    /\ models' = [models EXCEPT ![s] = local[s].models]
    /\ status' = [status EXCEPT ![s] = local[s].status]
    /\ byChannelID' = [d \in Channels |->
          CASE d = c -> s
            [] d # c /\ d = channelID[s] -> None
            [] OTHER -> byChannelID[d]]
    /\ local' = [local EXCEPT ![s] = NoLocal]
    /\ Goto(s, "load")
    /\ UNCHANGED <<dead, fetched, token, namespace, byNamespace, nodeVars,
                   chanVars, snapVars, stranded>>
-----------------------------------------------------------------------------
(* ChannelsChooser.Load: query the enabled rows, then install them.  The   *)
(* error of the query is not looked at: a failed one installs no channel.  *)

EnabledRows ==
    [c \in Channels |-> IF chanStatus[c] = "enabled" THEN chanModels[c] ELSE None]

LoadQuery(p) ==
    /\ \/ pc[p] = "load"   /\ Goto(p, "install")
       \/ pc[p] = "unload" /\ Goto(p, "uninstall")
    /\ \E rows \in {EnabledRows, NoRows} : fetched' = [fetched EXCEPT ![p] = rows]
    /\ UNCHANGED <<dead, local, sessVars, mapVars, nodeVars, chanVars, snapVars,
                   stranded>>

LoadInstall(p) ==
    /\ \/ pc[p] = "install" /\ Goto(p, IF p \in Admins THEN "idle" ELSE "serve")
       \/ pc[p] = "uninstall" /\ Goto(p, "release")
    /\ snapshot' = fetched[p]
    /\ disabled' = {}
    /\ fetched' = [fetched EXCEPT ![p] = NoRows]
    /\ UNCHANGED <<dead, local, sessVars, mapVars, nodeVars, chanVars, changes,
                   stranded>>
-----------------------------------------------------------------------------
(* UpdateHeartbeat and SyncModels.                                         *)

\* The first statement of UpdateHeartbeat writes the node row.
UpdateHeartbeat(s) ==
    /\ CanRead(s)
    /\ workerID[s] # None
    /\ \E st \in WorkerStatus, m \in ModelLists :
         /\ nodeStatus' = [nodeStatus EXCEPT ![workerID[s]] = st]
         /\ local' = [local EXCEPT ![s] = [chan |-> None, models |-> m, status |-> st]]
    /\ Goto(s, "beat")
    /\ UNCHANGED <<dead, fetched, sessVars, mapVars, nodeProvider, nodeChannel,
                   chanVars, snapVars, stranded>>

\* The second writes the channel row, if it is there; the session follows,
\* and the snapshot is reloaded only if the session changed.
HeartbeatChannel(s) ==
    LET c == channelID[s]
        modelsChanged == local[s].models # models[s]
    IN
    /\ pc[s] = "beat"
    /\ chanStatus' = IF RowExists(c)
          THEN [chanStatus EXCEPT ![c] = channelStatusFromWorkerStatus(local[s].status)]
          ELSE chanStatus
    /\ chanModels' = IF RowExists(c) /\ modelsChanged
          THEN [chanModels EXCEPT ![c] = local[s].models]
          ELSE chanModels
    /\ status' = [status EXCEPT ![s] = local[s].status]
    /\ models' = [models EXCEPT ![s] = local[s].models]
    /\ Goto(s, IF local[s].status # status[s] \/ modelsChanged THEN "load" ELSE "serve")
    /\ local' = [local EXCEPT ![s] = NoLocal]
    /\ UNCHANGED <<dead, fetched, token, namespace, workerID, channelID,
                   mapVars, nodeVars, snapVars, stranded>>

\* Either statement may fail; the error ends the session.
HeartbeatFails(s) ==
    /\ pc[s] = "beat" \/ (CanRead(s) /\ workerID[s] # None)
    /\ local' = [local EXCEPT ![s] = NoLocal]
    /\ Goto(s, "cleanup")
    /\ UNCHANGED <<dead, fetched, sessVars, mapVars, nodeVars, chanVars,
                   snapVars, stranded>>

SyncModels(s) ==
    LET c == channelID[s] IN
    /\ CanRead(s)
    /\ workerID[s] # None
    /\ RowExists(c)
    /\ \E m \in ModelLists :
         /\ chanModels' = [chanModels EXCEPT ![c] = m]
         /\ models' = [models EXCEPT ![s] = m]
    /\ chanStatus' = [chanStatus EXCEPT ![c] = channelStatusFromWorkerStatus(status[s])]
    /\ Goto(s, "load")
    /\ UNCHANGED <<dead, local, fetched, token, namespace, workerID, channelID, status,
                   mapVars, nodeVars, snapVars, stranded>>

\* The transaction is rolled back, which does not undo the assignments to
\* the session made inside it; the error ends the session.
SyncModelsFails(s) ==
    /\ CanRead(s)
    /\ workerID[s] # None
    /\ \E m \in ModelLists \cup {models[s]} : models' = [models EXCEPT ![s] = m]
    /\ Goto(s, "cleanup")
    /\ UNCHANGED <<dead, local, fetched, token, namespace, workerID, channelID, status,
                   mapVars, nodeVars, chanVars, snapVars, stranded>>
-----------------------------------------------------------------------------
(* The deferred function of HandleGatewayConnection and                    *)
(* serveQUICGatewayConn: CleanupWorker, then Release and Close.            *)

\* The transaction of CleanupWorker commits.  It writes nothing when the
\* channel row is gone.
CleanupWorker(s) ==
    LET n == workerID[s]
        c == channelID[s]
    IN
    /\ pc[s] = "cleanup"
    /\ n # None
    /\ IF RowExists(c)
         THEN /\ nodeStatus' = [nodeStatus EXCEPT ![n] = "offline"]
              /\ chanStatus' = [chanStatus EXCEPT ![c] = "autoDisabled"]
              /\ stranded' = stranded \ {n}
         ELSE /\ stranded' = stranded \cup {n}
              /\ UNCHANGED <<nodeStatus, chanStatus>>
    /\ Goto(s, "unload")
    /\ UNCHANGED <<dead, local, fetched, sessVars, mapVars, nodeProvider, nodeChannel,
                   chanModels, snapVars>>

\* There is nothing to clean up, or the transaction fails.
CleanupSkipped(s) ==
    /\ pc[s] = "cleanup"
    /\ stranded' = IF workerID[s] = None THEN stranded ELSE stranded \cup {workerID[s]}
    /\ Goto(s, "release")
    /\ UNCHANGED <<dead, local, fetched, sessVars, mapVars, nodeVars, chanVars,
                   snapVars>>

ReleaseSession(s) ==
    /\ pc[s] = "release"
    /\ Release(s)
    /\ Goto(s, "closed")
    /\ UNCHANGED <<dead, local, fetched, sessVars, nodeVars, chanVars, snapVars,
                   stranded>>
-----------------------------------------------------------------------------
(* Other writers of the channel rows, and the gateway process itself.      *)

\* UpdateChannelStatusById, for an administrator or a relay error: the row
\* at once, the snapshot by a goroutine of its own.
UpdateChannelStatusById(a) ==
    /\ pc[a] = "idle"
    /\ \E c \in Channels, st \in {"enabled", "autoDisabled", "manuallyDisabled"} :
         /\ RowExists(c)
         /\ chanStatus' = [chanStatus EXCEPT ![c] = st]
         /\ changes' = changes \cup
                {<<c, IF st = "enabled" THEN "enable" ELSE "disable">>}
    /\ UNCHANGED <<pc, dead, local, fetched, sessVars, mapVars, nodeVars, chanModels,
                   snapshot, disabled, stranded>>

\* ChannelsChooser.ChangeStatus, which ignores a channel it does not have.
ChangeStatus ==
    \E ch \in changes :
      /\ disabled' = IF snapshot[ch[1]] = None THEN disabled
                     ELSE IF ch[2] = "enable" THEN disabled \ {ch[1]}
                     ELSE disabled \cup {ch[1]}
      /\ changes' = changes \ {ch}
      /\ UNCHANGED <<pc, dead, local, fetched, sessVars, mapVars, nodeVars, chanVars,
                     snapshot, stranded>>

\* Channel.Delete reloads the snapshot, the batch deletions do not.
DeleteChannel(a) ==
    /\ pc[a] = "idle"
    /\ \E c \in Channels :
         /\ RowExists(c)
         /\ chanStatus' = [chanStatus EXCEPT ![c] = "deleted"]
    /\ \/ Goto(a, "load")
       \/ UNCHANGED pc
    /\ UNCHANGED <<dead, local, fetched, sessVars, mapVars, nodeVars, chanModels,
                   snapVars, stranded>>

\* The gateway process dies and starts again: every goroutine and both maps
\* are gone, the rows stay, and SetupDB loads the snapshot.
Restart ==
    LET live == {s \in Sessions : pc[s] \notin {"new", "closed"}} IN
    /\ live # {}
    /\ pc' = [p \in Sessions \cup Admins |->
                CASE p \in live -> "closed"
                  [] p \in Admins -> "idle"
                  [] OTHER -> pc[p]]
    /\ fetched' = [p \in Sessions \cup Admins |-> NoRows]
    /\ local' = [s \in Sessions |-> NoLocal]
    /\ byNamespace' = [n \in Namespaces |-> None]
    /\ byChannelID' = [c \in Channels |-> None]
    /\ snapshot' = EnabledRows
    /\ disabled' = {}
    /\ changes' = {}
    /\ stranded' = stranded \cup {n \in Namespaces : byNamespace[n] # None}
    /\ UNCHANGED <<dead, sessVars, nodeVars, chanVars>>
-----------------------------------------------------------------------------
Opening(s) == Connect(s) \/ Authenticate(s) \/ LoseWorker(s)

Registering(s) ==
    \/ RegisterWorker(s) \/ UpsertWorkerAndChannel(s) \/ UpsertFails(s)
    \/ ReleaseClaim(s) \/ BindChannel(s)

Updating(s) ==
    \/ UpdateHeartbeat(s) \/ HeartbeatChannel(s) \/ HeartbeatFails(s)
    \/ SyncModels(s) \/ SyncModelsFails(s)

Ending(s) ==
    \/ EndServe(s) \/ CleanupWorker(s) \/ CleanupSkipped(s) \/ ReleaseSession(s)

Loading(p) == LoadQuery(p) \/ LoadInstall(p)

Editing(a) == UpdateChannelStatusById(a) \/ DeleteChannel(a)

Next ==
    \/ \E s \in Sessions : Opening(s) \/ Registering(s) \/ Updating(s) \/ Ending(s)
    \/ \E p \in Sessions \cup Admins : Loading(p)
    \/ \E a \in Admins : Editing(a)
    \/ ChangeStatus
    \/ Restart

\* The Go scheduler runs every goroutine that waits for no message, database
\* calls return, and the read deadline of a silent worker fires.
Fairness ==
    \A s \in Sessions :
       /\ WF_vars(/\ pc[s] \notin {"new", "serve"}
                  /\ Registering(s) \/ Updating(s) \/ Ending(s) \/ Loading(s))
       /\ WF_vars(s \in dead /\ EndServe(s))

Spec == Init /\ [][Next]_vars
FairSpec == Spec /\ Fairness
-----------------------------------------------------------------------------
(* Properties.                                                             *)

\* From a successful claim to the end of its own Release, s relies on owning
\* its namespace.
Owns(s) ==
    \/ pc[s] \in {"claimed", "rejected", "upserted"}
    \/ workerID[s] # None /\ pc[s] # "closed"

\* A namespace has one worker at a time (TOKIAME_NAMESPACE in
\* docs/deployment/tokilake-tokiame.md): whoever passed ClaimNamespace and has
\* not finished Release is the session the manager has for its namespace, so
\* no late Release of an earlier session and no second claim can take it.
ClaimHeld == \A s \in Sessions : Owns(s) => byNamespace[namespace[s]] = s

\* While a registered session waits for messages or reloads the snapshot, its
\* node row says what its last accepted message said, belongs to its user and
\* names its channel: the CleanupWorker of the connection it replaces, however
\* late, never marks it offline.
NodeRowFollowsSession ==
    \A s \in Sessions :
       workerID[s] # None /\ pc[s] \in {"serve", "load", "install"} =>
          /\ nodeStatus[workerID[s]] = status[s]
          /\ nodeProvider[workerID[s]] = token[s]
          /\ nodeChannel[workerID[s]] = channelID[s]

\* GetSessionByChannelID, which the relay dispatches with, only returns a
\* session that is registered for the worker of that channel, and finds every
\* session that is serving a registered worker.
RoutesToOwner ==
    /\ \A c \in Channels :
         LET s == byChannelID[c] IN
         s # None =>
            /\ workerID[s] # None /\ pc[s] # "closed"
            /\ channelID[s] = c
            /\ nodeChannel[workerID[s]] = c
    /\ \A s \in Sessions :
         workerID[s] # None /\ pc[s] # "closed" => byChannelID[channelID[s]] = s

\* Two workers never share a virtual channel (channel_id is a unique index of
\* the worker node table), whichever of them reconnects first.
ChannelsNotShared ==
    \A m, n \in Namespaces :
       nodeChannel[m] = nodeChannel[n] /\ nodeChannel[m] # None => m = n

\* A worker that no session holds is offline in the table, unless its last
\* session ended without a successful CleanupWorker: the transaction failed,
\* the channel row was gone, or the process died.
UnheldIsOffline ==
    \A n \in Namespaces :
       byNamespace[n] = None /\ n \notin stranded => nodeStatus[n] = "offline"

\* The directory of workers behaves as WorkerDirectory promises.
Directory == INSTANCE WorkerDirectory
    WITH lease <- byNamespace, provider <- nodeProvider,
         presence <- nodeStatus, route <- nodeChannel
DirectorySpec == Directory!Spec

\* A namespace whose worker is gone becomes free again: the read deadline ends
\* the loop and the deferred Release runs whatever CleanupWorker returned.
DeadWorkerReleased ==
    \A s \in Sessions, n \in Namespaces :
       (s \in dead /\ byNamespace[n] = s) ~> (byNamespace[n] # s)

\* No goroutine is between two of its steps.
Quiescent ==
    /\ \A s \in Sessions : pc[s] \in {"new", "serve", "closed"}
    /\ \A a \in Admins : pc[a] = "idle"
    /\ changes = {}

\* What the relay may choose from the snapshot.
Routable(c) == snapshot[c] # None /\ c \notin disabled

\* "If an edge node loses its connection, the gateway automatically disables
\* its virtual Channel" (README.md): with every handler finished, a channel
\* offered by the chooser has a connected worker.
OfferedIsConnected ==
    Quiescent => \A c \in Channels : Routable(c) => byChannelID[c] # None

\* The same while every cleanup so far has succeeded: no restart, no failed
\* transaction, no deleted row.
OfferedUnlessStranded == stranded = {} => OfferedIsConnected
-----------------------------------------------------------------------------
(* The inductive invariant behind the safety properties.                   *)

\* Which fields of the session are set at each point of its handlers.
Phases ==
    \A s \in Sessions :
       /\ pc[s] \in SessionPC
       /\ pc[s] \in {"new", "claimed", "rejected", "upserted"} => workerID[s] = None
       /\ pc[s] \in {"beat", "load", "install", "unload", "uninstall"} =>
             workerID[s] # None
       /\ Owns(s) => namespace[s] # None /\ token[s] # None
       /\ workerID[s] # None => workerID[s] = namespace[s] /\ channelID[s] # None
       /\ workerID[s] = None => channelID[s] = None
       /\ pc[s] = "upserted" => local[s].chan # None

\* The manager has no session that gave up its claim.
HolderOwns ==
    \A n \in Namespaces :
       LET s == byNamespace[n] IN s # None => Owns(s) /\ namespace[s] = n

\* The node row of a namespace agrees with the session that owns it.
RowOfOwner ==
    \A s \in Sessions :
       LET n == namespace[s] IN
       /\ pc[s] = "upserted" =>
             /\ nodeProvider[n] = token[s]
             /\ nodeChannel[n] = local[s].chan
             /\ nodeStatus[n] = local[s].status
       /\ workerID[s] # None /\ pc[s] # "closed" =>
             nodeProvider[n] = token[s] /\ nodeChannel[n] = channelID[s]
       /\ pc[s] = "beat" => nodeStatus[n] = local[s].status

\* A node's channel id has been given out.
ChannelUsed ==
    \A n \in Namespaces : nodeChannel[n] # None => chanStatus[nodeChannel[n]] # "unused"

\* Before its upsert and after its cleanup the owner's row is offline.
OfflineOutside ==
    \A s \in Sessions :
       \/ pc[s] \in {"claimed", "rejected"}
       \/ workerID[s] # None /\ pc[s] \in {"unload", "uninstall", "release"}
       => namespace[s] \in stranded \/ nodeStatus[namespace[s]] = "offline"

IInv ==
    /\ TypeOK /\ Phases /\ ClaimHeld /\ HolderOwns
    /\ NodeRowFollowsSession /\ RowOfOwner
    /\ ChannelUsed /\ ChannelsNotShared /\ RoutesToOwner
    /\ OfflineOutside /\ UnheldIsOffline
=============================================================================
