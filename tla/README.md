# Verification of the Tokilake gateway

The gateway (Go, `src/`) relays OpenAI-style requests to model providers. Besides
ordinary providers it serves *workers*: Tokiame processes behind NAT that connect to it
over WebSocket (multiplexed with smux) or QUIC, register a namespace, and then appear as a
virtual channel. `src/rust/` holds a second implementation of the core, with a multiplexer
of its own.

This directory models the parts of that system in which goroutines, tasks, processes and
network failures meet, and says what is checked of each with TLC and what is proved with
TLAPS. The rest of the repository, most of its lines, converts requests and responses of
some forty providers, draws the web interface or reads configuration; see "Not modelled".

## The parts and their modules

| Module | Code | Proofs |
| --- | --- | --- |
| `WorkerLifecycle`, `WorkerDirectory` | `tokilake-core/session_manager.go`, `tokilake-core/gateway.go`, `tokilake-onehub/registry.go`, the snapshot of `model/balancer.go` | `WorkerLifecycle_proofs` |
| `TokiameClient` | `tokiame/client.go`, `cmd/tokiame/main.go`, the other side of `gateway.go` | `TokiameClient_proofs` |
| `TunnelRoundTrip` | `tokilake-core/roundtrip.go`, `tunnel_stream.go`, the requests of `session_manager.go`, `tokiame/client_data.go` | `TunnelRoundTrip_proofs` |
| `SmuxSession` | `rust/tokilake-smux/src/session.rs`, `stream.rs` | `SmuxSession_proofs`, `SmuxSession_order` |
| `RelayRetry` | `relay/main.go`, `relay/common.go`, `model/balancer.go` | `RelayRetry_proofs` |
| `QuotaBilling` | `relay/relay_util/quota.go`, `model/token.go`, `model/user.go`, `model/cache.go`, `model/utils.go` | `QuotaBilling_proofs` |
| `VideoTasks` | `relay/task/main.go`, `relay/task/task.go`, `tokilake-onehub/task/` | `VideoTasks_proofs` |

How they meet: a worker (`TokiameClient`) connects; the gateway registers it
(`WorkerLifecycle`), which puts its channel into the snapshot; the relay chooses a channel
from the snapshot and retries with others (`RelayRetry`); every attempt is paid for
(`QuotaBilling`); one that goes to a worker is a round trip through its tunnel
(`TunnelRoundTrip`), over a multiplexer such as `SmuxSession`; video requests leave a task
behind that is polled later (`VideoTasks`). Each module has the neighbouring parts as
nondeterminism: in `VideoTasks` the snapshot loses and gains channels at any moment, in
`RelayRetry` channels are disabled and enabled by others.

A definition called "Mutant" in a module is a plausible mistake in the definition that
follows it. It is not part of the specification: with it in place of the original, TLC finds
the property it belongs to violated, which shows that the property depends on that code.

### WorkerLifecycle

One goroutine per `GatewaySession`. A step is a critical section of `SessionManager.mu`, one
database transaction or statement, the query of `ChannelGroup.Load`, or the assignment that
installs what was read; `pc` is the next step, `local` and `fetched` are the handler's local
variables. `byNamespace` and `byChannelID` are the manager's maps, `node*` and `chan*` the
two rows per worker, `snapshot` and `disabled` what the chooser offers. Register, heartbeat
and model synchronisation, the deferred `CleanupWorker` and `Release`, edits by
administrators, and a crash of the gateway are its actions.

`WorkerDirectory` is what registration promises: a lease per namespace that is granted only
while it is free, a provider that never changes once it is set, and presence and route that
change only while somebody holds the namespace. (It does not say who: that the holder alone
gives the lease back is `ClaimHeld`.) `DirectorySpec` says that `WorkerLifecycle` implements
it, with `byNamespace`, `nodeStatus`, `nodeProvider` and `nodeChannel` for its variables.

### TokiameClient

`Run` and `runOnce` (dial, with fallback from QUIC to WebSocket; authenticate, register,
synchronise models; wait), the three goroutines that a connection starts (`accs`, `recs`,
`beats`), the control loop of the gateway with the lease of the namespace, and a network
with a queue each way that can break or fall silent. Both processes can restart. The
goroutines live as long as the context of the process, so those of earlier connections run
beside the current one; a connection number is used again once nothing of it is left.

### TunnelRoundTrip

For each request the goroutine that runs `doTunnelRequestWithSession` and then pumps the
body (`g`), the watcher of its context (`w`), the consumer of the body and the worker's
handler (`h`). Chunks on a stream are counted, since a stream keeps their order. What closing
a stream does differs between smux and QUIC: `Transport`.

### SmuxSession

Both ends of one transport, each with the receive loop, the write loop and its two queues,
the streams map, the accept backlog, the window of version 2 and its token bucket, and the
tasks that read and write. A unit of data is a write of eight bytes, and units are numbered.

### RelayRetry

Requests side by side, each in the retry loop of `Relay`, over a shared chooser with
cooldowns; `GroupManager` tries the primary and then the backup group. Time is a choice: a
cooldown may pass and a request may time out between any two steps. Weights are a choice too.

### QuotaBilling

Attempts of one user with one token, side by side and one after another: pre-consumption with
the cached balance in Redis, `Undo`, `Consume`, the batch updater, restarts and batches that
cannot be written. `paid`, `spent` and `wiped` are history.

### VideoTasks

Handlers that submit a task and wake the poller, the poller with its activation flag, polling
with its error threshold, the refund of failed tasks, and one database error or restart. A poll
is a call without a deadline: `Answer` is its return, which may never come.

## Runs

| Run | States | What it shows |
| --- | --- | --- |
| `handover` | 38,049 | Two connections of two users want one namespace. Whoever claimed it keeps it until its own `Release`; no late cleanup of an earlier connection marks it offline; `WorkerDirectory` is implemented; a silent worker loses its namespace in the end. |
| `admin_edits` | 672,133 | An administrator disables, enables and deletes channels meanwhile. Routes by channel id find the worker's own session; a worker that nobody holds is offline unless its cleanup could not run. |
| `stale_snapshot` | violation | See "Findings". |
| `client` | 140,792 | Every transport mode, two failures. One open tunnel, a true belief in the registration, healthy connections are kept, the worker always comes back, or lets go of the namespace when it is stopped. |
| `slots` | 1,166,000 | Two requests and one slot over QUIC. Slots are counted exactly, the table of requests is exact, only abandoned requests are cancelled. |
| `body` | 76,287 | A response of up to two chunks over smux. A body ends without an error only when complete; abandoned requests end. |
| `smux` | 231,699 | Two sessions whose channels hold one element. Data in order, the end of an accepted stream after its data, windows kept though updates overtake each other, and in version 1 everything is delivered, unless both ends write and fill all channels between them. |
| `retry` | 79,052 | Two requests, three channels in two groups. No channel twice, bounded calls, every request is answered. |
| `backup_ratio` | violation | See "Findings". |
| `billing` | 3,244,549 | Two attempts, Redis, batching, one restart or failed write of a batch. Who ends has paid exactly its cost, the token alike, and quota only disappears with such a fault. |
| `video_tasks` | 319,060 | Two tasks on two channels, one fault. One refund, final states stay, tasks the poller has seen are polled to their end unless a poll never returns. |
| `lost_wakeup` | violation | See "Findings". |

Bounds. Two of everything that competes (connections, requests, attempts, tasks) is where the
races are: the properties relate one actor to another, or to what an earlier one left behind.
Queues of one element make every wait for room happen. Two chunks tell a body that stops in
the middle from one that stops at an end; three units with a window of two make a writer wait,
five make updates overtake each other while it waits for room, and five each way fill every
channel between two writers. `slots` has one limit; that a limit changes is left to the
theorems. The number of failures (`faults`, `rare`, `MaxFaults`) bounds how many happen and
not where. Symmetry is used where actors are only compared for equality and no liveness is
checked (`admin_edits`, `slots`, `billing`).

Deadlock is checked in `billing`, `video_tasks` and `lost_wakeup`, where something can always
go on. Elsewhere a behaviour may end: sessions have ended, requests are answered, the worker
was stopped.

Fairness. Only what a runtime guarantees: a goroutine or task that has something to do goes
on, and a `select` with a ready case takes one. Clients, administrators, backends and faults
have none, with one exception: in `RelayRetry` a provider that was called answers or its call
fails, as it does where RELAY_TIMEOUT is set (it is not by default,
docs/deployment/env.md:78), and `Answered` rests on that. Where a deadline ends a wait, the
step it leads to is fair: the read deadline of a silent worker (`gateway.go:117`), the
transport that gives up on what it cannot deliver (`SilenceEnds`). A heartbeat is taken to
come before that deadline of 45 seconds (`gateway.go:18`); `Validate` (`client.go:192`)
accepts longer intervals, with which the gateway would end every session and `Reconnects`
fail. In `SmuxSession` the application accepts and reads, which `Delivered` is about.

## Proofs

The theorems hold for every value of the constants that satisfies the named assumptions (types
of the constants; a `None` outside the sets; for the client, connection numbers in `Nat`): any
number of connections, requests, attempts, channels, tasks, chunks and failures. Each module
has its inductive invariant `IInv`, and `SmuxSession` also `OrderInv`, checked with TLC before
they were proved; the proofs have one step per action or per kind of action.

- `WorkerLifecycle`: `ClaimHeld` alone is not inductive. `HolderOwns` is its converse (the
  manager has no session that gave up its claim), `Phases` says which fields are set at which
  step, `RowOfOwner`, `ChannelUsed` and `ChannelsNotShared` tie the rows to the owner, and
  `OfflineOutside` says that the row is offline before the upsert and after the cleanup.
  `DirectoryImplemented` proves the refinement: each step is a step of `WorkerDirectory` or
  changes nothing of it.
- `TokiameClient`: `Current` (a tunnel from dialling to return), `Goroutines` (goroutines exist
  for used connections, each pair has reported at most the errors of those that ended, and
  connections that are current have theirs), `ErrorsTrue` (a reported error is about a
  connection that is broken or closed), `Registered` (an ack in flight or received means a
  WorkerID, and a WorkerID whose session serves holds the lease).
- `TunnelRoundTrip`: `HoldsWhileRunning` and `CountCovers` for the slots, `WatchPhases` for
  cancellation, `Frames` for where the chunks of a response are.
- `SmuxSession`: `WindowRespected` compares a writer with its reader, and what the writer knows
  of the reader comes from update frames that overtake each other. `Updates` says that no update
  in flight (`InFlight`: on the wire, in a queue or held by a task that waits for its queue) tells
  of more than was read, and `Windows` the same of what the writer has taken from them. `Checked`
  keeps what a write() has seen before it waits for room in its queue, since it does not look
  again: what was read only grows, so its unit still fits whatever updates come. The proof
  first reduces the actions to what they do to queues and wire (`Steps`), and shows that nothing
  but the reader puts an update there (`Traffic`).
  `InOrder` speaks of what a reader holds, and needs to know what comes next: `OrderInv`, proved
  in `SmuxSession_order` on top of `IInv`. `Flow` says that the units of a stream on the wire,
  and behind them those in its queue, continue what has left the wire; `HeldNext` says it of the
  frame on which the receive loop waits. That data is not dropped on arrival rests on `SynFirst`
  (SYN is sent once and arrives before the data) and on `Sources` (which frame is in which queue,
  and what its sender has done); `Handles` ties the handles to ids, backlog and waiting writes.
  `FinLast` puts FIN of an accepted stream behind its data, for `AcceptedEofComplete`. Each
  conjunct is proved from what the actions do at an end (`Moves`) or to one direction of one
  stream (`Transmits`).
- `RelayRetry`: `TriedSkipped` (what was tried is skipped) and `TriedCounted` (how much of it
  there is in each round).
- `QuotaBilling`: `Ledger` and `TokenLedger`, what an attempt has paid at each of its steps.
- `VideoTasks`: `InHand`, what the poller holds is unfinished.

Proved: every invariant of the passing runs, the action properties `KeptWhileHealthy`,
`CleanEndIsComplete` and `FinalStays`, and the refinement `DirectorySpec`. Only model-checked:
the liveness properties (`DeadWorkerReleased`, `Reconnects`, `StopReleases`, `AbandonedEnds`,
`Answered`, `PolledUntilFinished`, `Delivered`), which are out of the prover's reach.

## Findings

With a run whose counterexample shows them:

- `stale_snapshot`: `Load` queries without the lock and installs under it, so of two concurrent
  loads the older may be installed last, and the channel of a worker that has disconnected stays
  on offer (`model/balancer.go:252`, against README.md:252).
- `backup_ratio`: a request that went to the backup group and later finds a primary channel
  again is charged with the ratio of the backup group (`relay/common.go:236`).
- `lost_wakeup`: a task inserted between the poller's empty query and its deactivation activates
  nobody and is not polled until another one is submitted (`relay/task/task.go:40`).

Known disagreements that the models contain and that have no run of their own:

- After a crash of the gateway the rows of its workers say online and enabled, and the chooser
  offers their channels until they return; README.md:252 says they are disabled.
- An answer whose usage is 0 keeps what was pre-consumed; the comment at
  `relay/relay_util/quota.go:276` wants it returned. `PaidExactly` states what the code does.
- Batches that were not written are lost with the process, and a batch whose write fails is
  lost with a line in the log (`model/utils.go:89`); docs/deployment/env.md:67 says neither.
  `wiped` counts them.
- A cached balance can get stuck. An attempt reads the cached balance; the key expires; its
  `DECRBY` makes a new key with a negative value and no time to live; the attempt fails, and
  `Undo` leaves the cache alone. Later requests read the negative balance and are refused, and
  only a settled request would rewrite the key (`model/cache.go:99`, against the synchronisation
  described in docs/deployment/env.md:55).
- Over QUIC a `cancel_request` that overtakes its request is dropped, and the request lasts as
  long as the backend takes (`tokiame/client.go:762`).
- A crash between the refund of a task and the record of its failure refunds it again
  (`tokilake-onehub/task/submit.go:219`). `RefundedOnce` excepts it.
- `GetVideo` is called without a deadline (`tokilake-onehub/task/submit.go:199`), so one backend
  that never answers stops the only poller and with it every other task. `PolledUntilFinished`
  excepts it (`Hangs`).
- A request that cannot be written to its tunnel gives no slot back
  (`tokilake-core/roundtrip.go:77`). `SlotsAccounted` speaks of open tunnels.
- In the Rust multiplexer, FIN of a stream that this end has opened goes through the control
  queue and can overtake its data (`stream.rs:223`); in version 2 updates use receive tokens
  that nobody gives back (`session.rs:335`), so that only version 1 delivers everything. And
  when both ends write on a stream more than the channels between them hold, each receive loop
  waits for a task that is in `write()`, and the session stands still (`session.rs:386`,
  `Gridlock`): `Delivered` says that nothing else stops it.

## Not modelled

`PROJECT.json` lists every part. The adapters of the providers, the tunnel provider, ComfyUI and
S3 adapters, pricing and options are conversions and configuration without interleaving. The web
interface, CLI, metrics, logging, notification, search and statistics have no state the modelled
parts depend on. Payments and redemption codes, midjourney, suno and kling tasks, rate limiters,
private groups, the realtime relay and the relay heartbeat have state of their own and are not
modelled; they meet the modelled parts in the calls that are modelled here (billing, polling,
channel choice). Of the Rust port only the multiplexer is modelled.

Inside the modelled parts: group and backend type of a registration, prices, prompts, headers,
URLs, the wording of errors and the byte layout of frames are abstracted; `PROJECT.json` says
so per component. Some steps of the code are one step of a model or left out, as their
comments say: entering a stream and sending its SYN, the deferred cleanup of a gateway
connection in `TokiameClient`, a tunnel whose control stream cannot be opened, a first
response frame with data, a provider that fails after its channel was chosen, database errors
of billing outside the batch updater, a cancelled `close()` and the drop of a smux `Session`
before its loops end. More than one gateway process on one database is not modelled.
