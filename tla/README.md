# Verification of Redeven

TLA+ models of the coordination logic of the Redeven runtime, of Redeven Desktop
and of the Flower interface: TLC checks them on
small instances, TLAPS proves the results that matter most for every value of
the constants. Paths are relative to `src/`; line numbers are those of the
commit the models were written from. `PROJECT.json` ties every definition to
the lines it models, lists the runs, one mutant per property (a plausible bug
that makes the property fail), the hazards and the theorems.

## 1. The system

Redeven is an agent that runs on a machine and serves it to a Portal and to
browsers: files, Git, terminals, AI threads, code workspaces, port forwarding,
plugins. The runtime is Go (`internal/`, `cmd/`); Desktop (`desktop/`, Electron),
which installs and reaches runtimes on other machines, and the browser interfaces
are TypeScript. The parts below are those that keep state of
their own and whose correctness depends on interleaving, failure or order.

| component | state | operations | who else touches it | hard behaviours | what makes it correct |
|---|---|---|---|---|---|
| **Control artifact pool and spend ledger** `internal/agent/control_artifact_{pool,source}.go`, `internal/config/*` | `Agent.cfg.ControlArtifactPool` and its file, one tombstone file per artifact, leases, one persisted top-up request | acquire, burn, confirm a spend, recover, fence, top up (prepare / answer / apply / acknowledge / clear), prune | the SDK's connection controller, the heartbeat goroutine, the Portal, closure RPCs, a crash | crash between two durable writes; save that fails after the rename; answers that are lost or late; two leases of one entry; pruning by wall clock | an artifact is used at most once; a burned one is never offered; what the Portal is told is durable; a live entry is never dropped; an open request ends |
| **Cloud recovery and closure** `internal/agent/runtime_cloud.go`, `cloud_closure.go`, `cloud_association*.go` | association, outbox of receipts, recovery phase | approve, refuse, retry, close, acknowledge a receipt | pool, Portal, control channel | closure fences in memory before the receipt is durable; repeated deliveries | a closed association never reconnects; every receipt is delivered |
| **Control channel and heartbeat** `internal/agent/agent.go` | session, grants, heartbeat loop | connect, heartbeat, restart, reject | pool, recovery | restart while an RPC is in flight | one session at a time; the maintainer runs while it lasts |
| **Fair read/write gate** `internal/gitruntime/gate.go` | readers, writer, FIFO of waiters | acquire, cancel, release | every Git and Files handler | grant racing a cancellation, lost wake-up, starvation | exclusion, exact counts, order of arrival, nobody starves |
| **Git runtime** `internal/gitruntime/{runtime,session,resolve}.go` | topology gate, coordinators (gate, epoch, references), bounded registry of worktrees, references per session | lease for reading or mutating, coordinate an effect on the file system, retain, release, prune, evict | Git handlers, Files handlers, session close | eviction while in use, partial failure over several locks, cancellation in a queue, two locks in two orders | a repository being changed is used by nobody else; a leased worktree stands; references are exact; requests end |
| **Git handlers and snapshots** `internal/gitrepo/{service,workspace_snapshot}.go` | snapshots per session with epoch and pins | capture, page, invalidate, close | Git runtime | another session mutates between two pages | a page is what `git status` would say now |
| **Git limiters** `internal/gitruntime/limits.go` | places taken, wake channel; bytes in use | acquire, try, cancel, release | snapshot capture, process runner | a place given back between looking and waiting; cancellation racing a wake-up; whoever comes late may be first | never over the limit, no lost place, no missed wake-up |
| **Git process runner** `internal/gitruntime/process.go` | child processes | run, kill | limiters | process groups | operating system behaviour |
| **Plugin sessions** `internal/agent/plugin_session_registry.go`, `agent.go:600-651, 1797-1993`, `local_direct.go` | records of generations, indexes by channel and by credential, `Agent.sessions`, close goroutines | bind and register, admit, release, retire, begin a close, drain, record the intent, terminalize, discard, stop | host sessions, plugin requests, Local UI, plugin host, `Agent.Run` | four ways for a generation to end, at once; drains that time out; the host failing half way; shutdown while maintainers back off | a generation that ended runs nothing; one maintainer each; the host is closed last |
| **Terminal lifecycle** `internal/terminal/lifecycle.go` | tombstones of deleted sessions, pending deletions | delete, confirm, recover | terminal host, SQLite | crash between process and record | a deleted terminal never comes back |
| **Access gate** `internal/accessgate/accessgate.go` | failed attempts, lockouts, unlocked sessions, resume tokens | unlock, lock, mint, resume | RPC handlers, clock | resume racing lock; expiry | no access after a lock |
| **Gateway flows** `internal/gatewayflow/budget.go`, `internal/gatewaymembership/{connections,policy}.go`, `internal/gatewayegress/server.go` | flows and connections admitted per member, version and permission; bytes and streams in use | admit, reserve, cancel, release, apply a membership, replace the members | member store, relays, egress proxy | a commit of the member store racing an admission | no flow outlives the membership it was admitted under; limits hold |
| **Workbench layout, thread read state, notes, favourites** `internal/workbenchlayout`, `internal/threadreadstate`, `internal/notes` | SQLite tables, event sequence | revisioned writes | web interface | little: one SQL transaction each | monotone revisions |
| **Gateway membership and state** `internal/gatewaymembership`, `internal/gatewaystate` | membership proofs, configuration | admit, persist | other machines | admission between machines | only current members are admitted |
| **Local UI, Environment Center, lock file, code workspaces, port forwarding, containers, monitoring, remote desktop, plugin platform, Flower AI** | mostly request handling, proxies, and adapters around external programs | | | | not modelled (section 8) |
| **Desktop: reinstall of a target** `desktop/src/main/reinstallTargetCoordinator.ts`, `reinstallRuntimePackage.ts`, parts of `main.ts` | one journal file per operation, the marker "reinstall required", launcher operations; on the target: data, managed files, rollback and quarantine directories, the process | preview, confirm, eleven phases of a reinstall that wipes or preserves the data, resume, rollback, dismissal | the target over SSH or a container, the user, the health refresh, other lifecycle operations | Desktop stops, a command is lost or half done between target and journal; retries after any of that; a probe that is out of date | the user's data is never lost before the replacement is verified; what is reported is true; a reinstall that began can be ended |
| **Desktop: SSH transport** `desktop/src/main/sshTransportManager.ts` | one entry per destination and credential scope, its control master, connect task, generation, leases, idle timer | acquire, cancel, release, reconnect, replace, close, dispose | windows and operations that need a connection, `ssh` processes | close events in any order, a password that changes under a waiter, timers, dispose while a master comes up | no lease on a dead or foreign connection; every acquire ends; idle and disposed masters end |
| **Desktop: launcher operations and lifecycle** `desktop/src/main/launcherOperations.ts`, `runtimeLifecycleCoordinator.ts` | operations by environment, one lifecycle operation each, deadlines | start, open, stop, reinstall, supersede, dismiss | user, health refresh | supersession, timeouts | modelled as far as a reinstall uses them |
| **Flower interface: message outbox** `internal/flower_ui/src/transportOutbox.ts`, `FlowerSurface.tsx` | outbox entries in an ordered map, dispatches in flight, handoffs of new chats, IndexedDB | send, dispatch, confirm by receipt or by a view, retry, discard, restore | user, IndexedDB, network, runtime, reload of the page | answers that are lost; a view that comes before the receipt; a new chat without a thread; writes that fail; a reload anywhere | order within a chat; each message admitted once, under one identity; nothing sent is forgotten, nothing waits for ever |
| **Flower interface: drafts and thread cache** `composer/createFlowerComposerDraftCoordinator.ts`, `threadCache.ts` | drafts, staged attachments, replayed thread events | edit, stage, replay | live stream | replay after a gap | planned (section 2) |
| **Rest of Desktop and web interfaces** `desktop/src/welcome`, `internal/envapp/ui_src`, ... | state of views | | | | not modelled (section 8) |

How they interact: the control channel spends one control artifact for each
connect attempt; the heartbeat that runs over it tops the pool up; recovery and
closure replace or remove the pool; both write the one configuration file under
`Agent.mu`. The direct sessions that the channel grants each get a Git service
and a Files service; those share one `gitruntime.Runtime`, and so the topology
gate, the coordinators and the registry. Every session, remote or local, also
binds a generation of plugin sessions, under which the plugin host admits
requests; the end of the session, of its access session or of a scope retires
the generation, and `Agent.Run` waits for all of that before it closes the host.
Desktop talks to a runtime it manages through commands over SSH or a container
engine, never to the parts above directly: a reinstall replaces the whole runtime.
The Flower interface talks to the runtime's AI service, whose admission of a
message is idempotent by request identity within a thread.

## 2. Plan

Done, in this order:

1. `ControlArtifactPool` and its proofs: it is what decides whether the machine
   can still be reached, and nearly all its hazards are crash and order hazards.
2. `GateOps`, `FairRWGate`, the abstract `ReadWriteLock`, and the proof that the
   first implements the second.
3. `GitRuntime`, composed from `GateOps`: topology gate, one gate per
   repository, registry, sessions and handlers.
   Its proofs show how gates and reference counts rest on each other.
4. `PluginSessions` and its proofs: four kinds of goroutines end the same
   generation, and shutdown has to wait for all of them.
5. `Limiter`, the abstract `Semaphore`, and the proof that the first implements
   the second.
6. `ReinstallTarget` and its proofs: the one place where Desktop may destroy what
   the user cannot get back, protected by a journal against crashes anywhere.
7. `SSHTransport` and its proofs: shared connections whose owner is never the one
   who notices that they are gone.
8. `FlowerOutbox`: exactly-once delivery built from an idempotent server, a
   durable outbox and a dispatcher, in a page that may be reloaded at any time.
   Its proofs relate every copy of a message to what the server may have of it.

Next, modelling:

9. `FlowerThreads`: the live thread cache (`threadCache.ts`, live transport):
   replay after a gap, connection epochs, confirmation of outbox entries by the
   views it yields, composed with `FlowerOutbox!Observe`.
10. `CloudRecovery`: association, outbox, `RetryCloud`, closure and crash
   (`runtime_cloud.go`, `cloud_closure.go`, `agent.go:660-1013`), composed with
   the pool's fence. Abstract specification: a receipt is delivered at least
   once and the closed association stays closed.
11. `GatewayFlows`: the member store commits, `Connections.Apply` and the egress
   server's `ReplaceMembers` cancel, and `Budget` admits meanwhile. Property: a
   flow of a revoked version or permission is not left uncancelled; limits hold.
12. `TerminalLifecycle` (`terminal/lifecycle.go`): durable deletion with crashes.
13. `AccessGate` (`accessgate/accessgate.go`): attempts, lockouts, resume tokens.
14. Hijacked plugin connections (`codeapp/appserver`), composed with
    `PluginSessions`: connections are closed by channel, admissions by generation.
15. The data plane's use of the ledger at its limit
    (`control_artifact_source.go:340`) as a run of its own.

Next, proofs: the limits of `GatewayFlows`; that `FlowerThreads` confirms only what was
admitted.
None of the planned modules needs a recursive operator.

## 3. The modules and the code

### ControlArtifactPool

| variable | code |
|---|---|
| `mem`, `disk` | `Agent.cfg` and the configuration file: identity generation and the pool |
| `ledger` | the files of `flowersec-spend/`: `absent`, `torn` (created, sync not confirmed), `committed` |
| `leases` | what `controlArtifactSource.Acquire` handed to the SDK, with the time by which the attempt is over |
| `rejected`, `source`, `controlArtifact` | `controlBusinessRejected`, whether `Acquire` is in recovery, `controlArtifact` |
| `maint` | program counter and locals of `maintainControlArtifactPool` |
| `replies`, `ackedRequests`, `expires` | the Portal: what it minted for each request, the acknowledgements it processed, when artifacts expire |
| `now` | the wall clock (monotone) |
| `fate` | history only: what became of each artifact |

Every critical section of `Agent.mu` is one action, with the normalisation,
compaction and save it contains. The configuration is saved by writing a
temporary file, renaming and syncing the directory, so a failed save leaves the
old *or* the new file (`SaveFails`), and memory keeps the old value. `Crash` may
come between any two actions; a tombstone whose sync was not confirmed survives
or not. A lease goes through `Acquire`, `CommitSpendLedger` (the tombstone),
`CommitPoolSpend` (the saved entry), or ends (`AbandonLease`). A top-up goes
through `PrepareTopUp`, `PortalTopUp`, `TopUpAnswered` or `TopUpError`,
`ApplyTopUp`, `SnapshotPending`, `PortalAck`, `AckAnswered` or `AckError`,
`MarkAcknowledged`, `ClearTopUp`, with `MarkTerminal` and `RecordExpired` for
the errors. An answer may be that of another request.

Abstracted: an artifact is the pair generation and sequence (its digest, channel
and JSON correspond to it one to one); of the codes of an error only its class
is kept; `Revoked` is never set by the code. The Portal is not in the
repository: it is modelled from what the code relies on (it numbers what it mints
in order, answers a repeated request in the same way) and may in addition repeat
an earlier delivery during recovery.

### GateOps, FairRWGate, ReadWriteLock

`GateOps` has the critical sections of `fairRWGate` as operators on a record, so
that `GitRuntime` uses the same definitions for its gates. The slice of waiters
is two sets and the relation "stands ahead of". A waiter that left the queue has
been granted (closing its channel and leaving the slice are one step).
`FairRWGate` adds the clients: between the grant and the client noticing it,
`ctx.Done` may be chosen (`CancelTooLate`), and the slot has to be given back.
`ReadWriteLock` is the abstract specification: clients come, wait, enter if
compatible, leave. `ImplementsLock` maps each client's place by what the gate
says of it, not by its program counter; a step that grants several readers at
once is a step of the abstract lock, which lets in a set of clients.

### GitRuntime

| variable | code |
|---|---|
| `topology` | `Runtime.topology` |
| `registry` | `Runtime.registry`, `.coordinators`, `.registryIncomplete` |
| `mu`, `refs`, `status` | `Session.mu`, the worktrees in `Session.refs`, how far `Service.Close` has come |
| `store` | `workspaceSnapshotStore.entries` of the session |
| `handlers` | the goroutine that serves a request: program counter and locals |
| `exists`, `content` | the file system: worktrees that stand, what `git status` says of each |
| `changes` | bound of the model |

A *read* or *mutation* goes `Start` - `Resolve` - `LockSession` -
`RetainInSession` (the session keeps a reference; `Session.mu` is held while the
topology gate is awaited) - `RequestLease` - `EnterRepository` (identity checked
again under the topology gate, reference taken, repository gate asked for) - 
`Leased` - `Capture`, `Page` or `Mutate` - `Reload` - `ReleaseLease` -
`Unretain`. A *branch deletion* and a *files effect* go through
`CoordinateFilesystemMutation`: topology gate as writer, `Scan` and
`rebuildRegistry` when the registry is incomplete, one lock after the other in
the order of the repositories (`LockNext`, `Locked`), `Revalidate`, the callback
(`Reload`, `Effect`), release in reverse (`UnlockLast`, `EndEffect`).
`CancelTopology` and `CancelRepository` cancel a request wherever it waits;
`CloseStore` and `CloseSession` close a session at any time.

Abstracted: inactivity is not timed, any unreferenced entry may be pruned
whenever the code would look, which covers every retention time and every order
of eviction; the path and heap budgets are counted in worktrees; the shared form
of an effect is left out because every caller sets `ChangesTopology`; a joiner
of a single-flight capture pins the entry of the same epoch; Git commands that
other programs run in the same worktree are outside the coordination and outside
the model. `content` is the revision of `git status`, of which the first is taken
arbitrarily, since revisions are only compared; the plans, pages and
limits in bytes are data. That a worktree keeps its key and gets another common
directory is modelled by what it leads to, a refusal (`retainFailures`). The second
resolution of an effect's paths, under the locks, is left out (`Revalidate` compares
what the paths overlap in the registry): the topology gate is held for itself, so
no worktree moves meanwhile and the repositories are those of the first; what it
may admit or evict are entries without references, which other actions evict at
any look, and when it fails the effect ends as it does in `Revalidate`.

### PluginSessions

| variable | code |
|---|---|
| `accepting`, `next`, `record`, `active`, `credentials` | the fields of `pluginSessionRegistry`; a record has its state, session, admissions, whether the channel `drained` is closed, `closeStarted` |
| `sessions`, `serving` | `Agent.sessions`; the goroutine of each host session and its `pluginGeneration` |
| `requests` | the admissions handed out, and requests that revoked their scope and are about to end their channel |
| `ending` | calls of `startPluginSessionClose` from outside a session that have not yet reached `beginClose` |
| `maint` | `maintainPluginSessionGeneration` of each generation: where it stands, and whose goroutine runs it |
| `intents` | external: the generations whose terminal intent the plugin host has |
| `phase` | `Agent.Run` after its context ended |

A host session goes `Connect` - `Activate` or `ActivateFails` - `EndSession` -
`CloseOwn` - `Return`. A remote session maintains its generation in its own
goroutine, which `sessionWG` counts; a local one hands it to a goroutine that
`pluginCloseWG` counts (`Spawn`), unless Run waits already. `Admit` and `Finish`
are `acquireChannel`, `acquireCredential` and the release function. A generation
is retired from outside by `EndPluginSession` (through its channel),
`EndPluginAccessSession` (all generations of an access session) and
`StopAdmission`; all of them use `retire`, which is `retireLocked`. Maintenance is
`Drain` (30 seconds, or it fails) - `RecordIntent` - `Terminalize` -
`MaintainHost` - `Discard`, each of which may fail into `Retry`, which gives up
when the runtime stops.

Abstracted: time-outs may strike at any moment; a credential belongs to one
local session; publishing the generation in `Agent.sessions` is joined to the
activation, since a session is removed there only by its own goroutine (the
branch of `markSessionConnected` for a replaced session is therefore never
taken). After Run gave up nothing is promised and nobody waits.

### Limiter, Semaphore

`active` is the counter of `limiter`; a wake channel is captured in the critical
section that found the limiter full, so that the channel of a client that waits is
the current one or closed, and the set `woken` of clients whose channel is
closed is all there is to know of them. `Acquire`, `Enter`, `Park`, `Wake`, `Cancel`
are the loop of `acquire`; `TryAcquire` the call that does not wait; `Release` the
function both return. `Semaphore` is the abstract specification: clients wait,
enter while there is room, give up, leave, and a free place is taken while
somebody waits. It promises no order, because the code wakes everybody.

### ReinstallTarget

| variable | code |
|---|---|
| `data`, `live`, `running`, `rollback`, `quarantine` | the target: what the runtime root holds, the managed files and the process, what each operation moved aside |
| `journal`, `latest` | the journal files of `reinstallTargetCoordinator.ts`, and which was written last |
| `marker` | the environment is marked "reinstall required" |
| `status` | the launcher's operations |
| `attempt` | `execute` of the confirmed operation: where it stands, the phase it has persisted |
| `other`, `refresh` | another lifecycle operation of the environment; `refreshWelcomeRuntimeHealth`, which retires journals |
| `faults`, `forgotten` | bound of the model; history |

A reinstall goes `PreviewStarted` - `PreviewWritten` (the journal exists before
the user confirms) - `Reinstall` - `MarkInProgress` - `OpenDirectChannel` -
`ResolveTarget` - `StagePackage` - `OpenProcessSession` - `StopProcesses` (in a wipe
that got no process session `LeaveProcesses`) - `KeepRoot` or `IsolateRoot` - `InstallRuntime` - `StartRuntime` - `VerifyIdentity` -
`VerifyCatalog` - `FinalizeInstall` - `CleanQuarantines` - `ClearMarker` -
`ClearJournals` - `Converge`. `InstallFailed` leads to `StopFresh`, `RollBack`,
`RestartRestored`, `FinishRollback`, `DiscardStaging`; a journal past the
verification leads to `ResumeCompletion`. A command succeeds, fails, or takes
effect without an answer (`Outcomes`); `InstallRuntime` may also stop at any of its
moves (`InstallHalted`): with the old files aside and no new ones in place, or behind
an earlier attempt's rollback that was undone, a committed one deleted, or an empty
directory made. `RollBack` may stop likewise. `DesktopRestarts` keeps the files and
forgets the rest; starting the local Runtime then may mark the environment.
`Timeout` is the deadline of the lifecycle coordinator. `OtherEnds` is the end of an
open, start, stop or update: it may leave managed files that it has verified, and
set or clear the marker. `RefreshProbes` - 
`RefreshChecks` - `RefreshRetires` is the health refresh, with an await between.

Abstracted: managed files are told apart by whether a reinstall has verified
them; a shell script is what it leaves on the target; Desktop's own file writes
do not fail; the environment is not registered anew while it is reinstalled.
`ConcurrentPreview` says whether a preview may overlap the start of a confirmed
attempt (section 7).

### SSHTransport

| variable | code |
|---|---|
| `entries`, `pending` | `entries` and `entryTasks` of the manager, for one key |
| `entry` | the `TransportEntry` objects: phase, password, generation, master, connect task, leases, idle timers |
| `process` | the `ssh` processes each has started: coming up, up, ending, exited without a close event yet |
| `caller` | each call of `acquire` and the lease it returned |
| `disposed` | `dispose` has been called, has returned |

`Acquire` - `Created` - `Continue` - `Connected` or `ConnectFails` is one call; `Cancel`
its abort signal at any point; `Release` and `TimerFires` the idle timer, including one
that was overwritten; `StartMaster`, `MasterUp`, `MasterExits`, `MasterClosed` the
process and its events; `ConnectFails` ends the master, finds it gone, or, where
`ssh -O check` cannot be run, leaves it alone (`Left`); `Removed` and `Disposed` the ends. An object that nobody
refers to any more is used again with its generations at zero, which keeps the
state finite. One key stands for all, because entries of different keys share
nothing; direct mode (Windows) and the commands of a lease are left out. A master
that is started while its entry closes is assumed not to authenticate before the
directory of its socket is removed.

### FlowerOutbox

| variable | code |
|---|---|
| `entries`, `order` | the map of `TransportOutbox` and its order, as the relation "stands before" |
| `handoffs` | `pendingAdmissionHandoffs`: which drafts a thread may be bound to |
| `dispatch` | `outboxResendInFlight` and where each `dispatch` awaits: first flush, preparation, second flush, answer |
| `restoring` | `restoreTransportOutbox` has not answered |
| `disk`, `writes`, `latest` | the object store, `persistenceTail`, and the promise a flush returns |
| `wire` | launch requests: addressed to a thread or creating one, awaited or not, admitted or not |
| `threads` | the runtime: what each thread has admitted |
| `sent`, `removed`, `doubted`, `refused`, `early`, `unsaved`, `overtaken` | history, for the properties only |

A step is one callback with the effects it triggers, so every step ends with
`Dispatcher`, the effect that picks the first open entry of each chat. `Send` puts a
message into a new chat or an existing thread; it goes `Captured` - `Prepared` -
`Stored` - `Admit` - `Receipt`, or ends with `NotSent`, `Refused` (4xx; for
`AI_STORAGE_RESTORED` without a way to retry, `FailedForGood`), `OutcomeLost`
(5xx, no answer). `Receipt` reconciles with the view it carries before it binds and
accepts; `Observe` is a live update or a loaded view, which drops what it confirms
and binds the rest of its draft. `Retry`, `Discard` (also: put back into the composer)
are the user's; `Reload` and `RestoreEnds` the page's, which brings pending entries
back as unknown and unprepared ones as failed, in any order of their random
identities, and puts those behind them that were sent meanwhile. `RestoreFails` is a
read that fails: what was saved stays out of sight until the next reload. A request that nobody awaits any more may still be admitted.

Abstracted: one tab, ordinary messages without attachments; a message is its
identity; the view of a thread lists some of what it has admitted, in no order.
The admission of the server is idempotent per thread and identity
(`internal/ai/send_user_turn.go:433`), and so is the creation of a thread.

## 4. The runs

TLC explores every interleaving within the bounds. Numbers of distinct states
are approximate.

| run | instance | states | properties |
|---|---|---|---|
| `pool_spend` | 2 leases (symmetric), 1 data artifact, 2 generations, 2 sequences, time 1..4, 3 disturbances, no top-up | 1.2 M | `SingleSpend` |
| `pool_topup` | 2 requests, 4 sequences, answers of 1, limit of 3 entries, horizon 1, time 1..4, 2 disturbances, no lease, with fairness | 85 k | `ValidResponseFits`, `AckedMeansDurable`, `OutstandingNeverDropped`, `RequestResolved` |
| `gate` | 4 clients, with fairness | 4.6 k | `NoOvertaking`, `ImplementsLock`, `NoStarvation` |
| `limiter` | 4 clients, 2 places, with fairness | 2.5 k | `ImplementsSemaphore` |
| `git_live` | 2 handlers, a session each, 1 worktree, 2 contents, all kinds of request, 2 changes, with fairness | 531 k | `TypeOK`, `SnapshotFresh`, `RequestEnds` |
| `git_registry` | 2 handlers in 2 sessions (symmetric), 3 worktrees of 2 repositories, room for 2 coordinators and **2** worktrees, mutations, deletions, files effects | 1.7 M | `ReferencesExact`, `RepositoryGatesFree`, `RepositoryExclusion`, `LeasedWorktreeStands` |
| `git_lock_order` | 2 handlers of **one** session, a read and a deletion | violation, 20 steps | `CallbackResolvesSafely` |
| `plugin_sessions` | a remote and a local session of one channel, 1 access session, 1 request, 2 generations, shutdown, with fairness | 235 k | `IndexExact`, `NoAdmissionAfterIntent`, `MaintenanceNeverRejected`, `NothingLeftOpen`, `ClosedIsForgotten` |
| `plugin_shutdown` | 1 remote session, 1 request, 1 generation | violation, 14 steps | `HostClosedDrained` |
| `reinstall` | 2 operations, 2 faults, no concurrent preview, with fairness | 424 k | `IsolatedDataHasJournal`, `CompletionStands`, `FirstAttemptRestores`, `OldDataErasedOnlyVerified`, `SuccessIsVerified`, `StartedConverges` |
| `ssh` | 2 callers with and without a password, 2 entries, connections up to generation 2, with fairness | 262 k | `StaleNeverAccepted`, `LeaseHasOwnCredentials`, `LeaseEndsWithMaster`, `AcquireEnds`, `IdleCloses`, `DisposedEnds` |
| `flower_outbox` | 2 messages to a new chat or to threads, 2 faults (reloads, failed writes and reads, refusals, lost outcomes), with fairness | 441 k | `TypeOK`, `OrderKept`, `FreshIdentitySafe`, `OnceOnly`, `UnknownPauses`, `SentIsRemembered`, `PendingSettles` |

Invariants that are proved and only repeat a bookkeeping fact (`TypeOK` of most
modules, `Exclusion`, `CountsExact`, `NoBurnedHandout`, `WithinLimit`, `NoMissedWake`,
`AdmissionsExact`) are stated in the modules and left to the proofs.

What they say, property by property:

* `SingleSpend` (with the proved `NoBurnedHandout`): two overlapping attempts, a crash at any
  point, a save that fails on either side of the rename, recovery that repeats
  an old delivery after the pool was fenced, and pruning of old tombstones never
  lead to a second use of an artifact or to an offer of a burned one.
* `AckedMeansDurable`: when the Portal processed an acknowledgement, memory and
  disk both hold what it covers; a crash cannot bring back the time before.
* `ValidResponseFits`: a response is validated against the pool as it was when
  the request went out. Entries are spent and expire meanwhile, yet the pool
  that results always passes its own fail-closed validation.
* `OutstandingNeverDropped`: neither compaction nor normalisation loses an
  entry that has not expired.
* `RequestResolved`: a persisted request is acknowledged, expires, becomes
  terminal, or its pool goes.
* The gate properties are what every user of the gate relies on;
  `NoOvertaking` is the order of arrival with respect to writers.
* `RepositoryExclusion`, `ReferencesExact`: the gate that excludes belongs to a
  coordinator that the registry may evict. If a reference were missing while
  somebody is inside, a second coordinator with a fresh gate would let another
  handler in; the registry is small on purpose so that eviction happens.
* `LeasedWorktreeStands`: between resolving an identity and getting the lease
  another handler may move the worktree away.
* `SnapshotFresh`: stores are invalidated only in the session that mutates. For
  the others the epoch of the lease must tell, although a pruned coordinator
  starts again at epoch 0.
* `RepositoryGatesFree`: an effect holds the topology gate as a writer, so the
  repository gates it takes in turn are always free. This is why the two levels
  cannot deadlock.
* `RequestEnds`: no request needs to be cancelled in order to end, with one
  request at a time in each session.
* `NoAdmissionAfterIntent` (with the proved `AdmissionsExact`): the channel `drained` is closed when
  a retirement finds no admission or the last admission leaves a retired
  generation, never twice and never early, so that nothing runs under a
  generation whose end the plugin host recorded.
* `IndexExact`: a retirement clears the entries of its own generation in both
  indexes and never those of a successor on the same channel. In the run a remote
  and a local session use one channel, one after the other; the theorem
  `IndexesAgree` holds for every `ChannelOf`.
* `MaintenanceNeverRejected`: the branches "terminalization rejected" and "could
  not be discarded" are never taken; what `waitDrained` found stays true across
  the calls to the plugin host.
* `NothingLeftOpen`: with a revocation, the end of the access session, the end of
  the session and the shutdown at once, somebody still begins the close of
  every generation before the host is closed in good order.
* `ClosedIsForgotten`: a generation that is over is discarded while the runtime
  runs, although drains time out and the host fails now and then.
* `ImplementsSemaphore` (with the proved `NoMissedWake`): a client that finds the limiter full and
  waits later than the place is given back is still woken, and a cancellation
  never loses a place.
* `IsolatedDataHasJournal`: data moved aside on the target can always be found
  again, through a journal that is still there, unless a health refresh that saw
  the target in order gave it up.
* `CompletionStands`: a journal that says "verified" or more speaks of a target
  that is; resuming from it alone is therefore safe.
* `FirstAttemptRestores`: when the first attempt of a reinstall that preserves the
  data reports that the previous files are back, they are, wherever the
  installation stopped. It does not hold for later attempts (section 7).
* `OldDataErasedOnlyVerified`, `SuccessIsVerified`: the last copy of the old data
  goes behind a verified replacement (or in a wipe that cannot move it aside,
  which the user confirmed), and "succeeded" means a verified target with nothing
  left beside it.
* `StartedConverges`: after any two faults a user who goes on gets to an end.
* `StaleNeverAccepted`, `LeaseHasOwnCredentials`, `LeaseEndsWithMaster`: a lease is
  accepted exactly while the master it was given on runs; its entry was opened
  with the caller's password; nothing else takes it away.
* `AcquireEnds`, `IdleCloses`, `DisposedEnds`: replaced entries, aborted waiters,
  overwritten timers and masters started too late do not leave a caller waiting
  or a process behind.
* `OrderKept`, `UnknownPauses`, `OnceOnly`, `FreshIdentitySafe`: within one chat
  messages arrive in order; as long as no write or read fails, only a message that
  failed for sure, and one sent while the outbox was being restored, break the pause
  an unknown outcome imposes, and unless one of them does, no message is in two
  threads; what the user took back was not admitted, unless its outcome had been in
  doubt. The exceptions are cases in which the code really does otherwise (section 7).
* `SentIsRemembered`: nothing is on its way that a reload would forget.
* `PendingSettles`: every waiting message settles or waits behind one in doubt.

**Bounds.** `MaxTime`, `MaxGeneration`, `MaxSequence`, `MaxRequests`,
`MaxChanges` and `MaxDisturbances` (in `MCControlArtifactPool`: crashes,
closures, rejections, recoveries and writes after which disk and memory differ,
counted together) are bounds of the models. The contract constants are scaled
down and keep the relations the proofs need: waterline at most outstanding
limit, outstanding plus top-up limit at most pool limit, connect timeout at most
refresh horizon. In `pool_spend` three disturbances are enough for "burn, crash,
recovery with a repeated delivery", in `pool_topup` two for "failed save, crash,
retry"; time 4 with lifetime 1 and retention 1 passes the point at which a
tombstone is pruned; 4 sequences and a limit of 3 entries force compaction. No
lease is in `pool_topup`; with one lease, one request, 3
sequences, time 1..3 and one disturbance its safety properties hold as well
(441 k states), so that spending races with an answer, too. In `git_live` two
sessions are enough for one to page over what the other changes; there, with one
request at a time in each, `RequestEnds` holds, and with two in one session it does
not (`git_lock_order`). Room for two of three
worktrees makes registrations evict or fail; a coordinator that nobody refers to
may be pruned at any look. Two generations of one channel are enough for a successor and
for two maintainers. `reinstall` needs two operations (one
left behind and its successor) and two faults (one that interrupts, one that
interrupts its recovery); `ssh` two callers and two entries (one that closes and its
replacement) and two generations (a connection and a reconnection). `flower_outbox`
needs two messages, since all its hazards are between one message and another,
and two faults; with three messages and one fault (3.4 M states) and with two
messages and three faults (3.2 M) the safety properties hold as well. `MaxFaults` bounds `ReinstallTarget` and `FlowerOutbox`. Each property has a mutant in `PROJECT.json` that one of
these instances refutes, so the bounds do reach the cases.
`CHECK_DEADLOCK FALSE` stands in the `git_*`, `plugin_*`, `reinstall`, `ssh` and
`flower_*` configurations: a runtime whose sessions are all closed, or that
has stopped, a target with nothing left to do, a disposed manager, an outbox
whose messages are all delivered, do nothing more.

**Symmetry** is used for leases (`pool_spend`) and for handlers together with their
sessions (`git_registry`), in safety runs only. `FlowerOutbox!Fresh` hands out
identities, which are random in the code and alike in the model, in one order.

## 5. Fairness

* `TopUpFairness`: the heartbeat calls the maintainer over and over while a
  session lasts (`PrepareTopUp` is therefore strongly fair), the Portal acts on
  what it is asked, answers get through, and a save that is tried infinitely
  often succeeds infinitely often. A maintainer between two steps goes on
  (weak). Crashes, closures, the clock and recovery are not fair: they need not
  happen, and happen finitely often only because `MaxDisturbances` bounds them.
* Gate: a client that was granted notices it and every holder releases (Go
  schedules runnable goroutines; callers `defer` the release). No fairness for
  arrivals and cancellations.
* `GitRuntime!LiveSpec`: weak fairness of each handler's own steps. Git
  commands end because the runner gives them a deadline. No fairness for
  cancellation, new requests, or the end of a session.

* `PluginSessions!LiveSpec`: requests end, a session that is over closes its
  generation, maintainers go on (weak), and the calls to the plugin host and the
  wait for the drain succeed when they are tried again and again (strong; the
  code retries without limit while the runtime runs). Neither the end of a
  session nor the shutdown is assumed.
* `Limiter!LiveSpec`: a client that runs goes on, and one that is woken notices
  it. Nobody has to come, to leave or to give up.
* `ReinstallTarget!LiveSpec`: the attempt and another operation go on (commands have
  deadlines), and so does the user: `UserAsks` previews what is left to do (weak),
  `UserGoesOn` confirms it (strong, since other operations may take the target in
  between). Faults are bounded, not fair: `StartedConverges` says that nothing in
  the files or on the target blocks a user who tries again.
* `SSHTransport!LiveSpec`: promises that can settle do, a timer fires, a process that
  was sent a signal exits and its close event arrives; so does a master that was left
  alone, once the directory of its entry is gone (it has a `ConnectTimeout`, and no
  place for its socket); a connect task succeeds or fails, because it has a deadline. Callers need not acquire or release.
* `FlowerOutbox!LiveSpec`: writes to IndexedDB and its first read end, a dispatch goes
  on, the runtime acts on a request that is awaited and its answer arrives, unless
  one of the bounded faults comes first. Neither the user nor live updates are fair.

## 6. Proofs

Each invariant named below was checked by TLC on an instance of its module before
it was proved, and every theorem holds for all values of the constants that the
named assumptions allow.

**ControlArtifactPoolProofs** assumes `PoolContract` (sorts and signs of the
contract constants, which the code's values satisfy), `LeaseBeforeExpiry`
(`ConnectTimeout`, 15 s, `internal/agent/agent.go:785`, is at most
`RefreshHorizon`, 60 s), `RoomForTopUp` (a full top-up fits beside what is
outstanding), `NamesAreDistinct` (data and control artifacts have different
tombstones) and `NilIsNoPool` (the absent pool is not a pool).

* `TypeCorrect`: `TypeOK` is inductive, action by action.
* `SpentOnce`: `SingleSpend` is not inductive. Its strengthening `SpendInv` adds
  - `LeaseInv`: a lease ends before its artifact expires. Without it, a slow
    attempt could outlive the tombstone of its artifact.
  - `BurnedLeaseInv`: a lease that has burned its artifact is the only one that
    has, and the artifact is not confirmed yet.
  - `TombstoneInv`: an artifact that was ever burned has a committed tombstone,
    or expired at least `Retention` ago.

  The tombstone is created exclusively, so of two leases one burns; pruning
  removes it only after expiry and retention, when `LeaseInv` says no lease is
  left; `usable` refuses expired entries, so no new lease appears.
* `HandoutUnburned`: `Acquire` reconciles the entries with the ledger in the
  critical section in which it picks one, whatever was saved before.
* `PoolsStayValid`, `ResponseFits`, `NoOutstandingDropped` follow from `SoundInv`:
  - `SoundConfig` of memory and of disk: a list within its limit, at most
    `MaxOutstanding` of it unspent and unexpired, JSON erased only behind expiry;
  - `FlightInv`: what is live in the pool while a top-up is in flight was live in
    the snapshot it was requested for;
  - `ResponseInv`: a validated response and what of that snapshot is outstanding
    are together within the limit.

  The first is not inductive without the others: a response is applied to a pool
  that is not the one it was validated against. Spending and expiry only take away
  from what is outstanding, so the response still fits, and compaction has to drop
  terminal entries only.
* `AckedStaysDurable`: `AckedMeansDurable` speaks of the moment after the
  acknowledgement; `DurableInv` follows a request from the beginning. `DrawnInv`:
  no request is pending anywhere that was not drawn; `ReplyInv`: what the maintainer
  is about to apply is the Portal's one answer to it; `AppliedInv`: where a request
  reads as applied, in memory or on disk, the entries below it are there;
  `AckInv`: from then on both copies are settled, since the pool was saved before the
  acknowledgement began and no identity is drawn twice.

**FairRWGateProofs** assumes a finite set of clients (`ClientsFinite`). The
inductive invariant is `Consistent(gate, pc, write)`: types, every queued client
waits in the set of its mode (`QueueOf`), the queue is totally ordered
(`OrderOf`), the counters are the clients inside (`CountOf`), a writer is alone
(`AloneOf`). `GateTypes`, `GateExclusion` and `GateCounts` follow at once.
`GateOrder` (`NoOvertaking`) needs `OrderOf`: a grant takes the writer in front or
the readers ahead of the first writer. `GateImplementsLock` maps the initial
state and shows that every step is a step of `ReadWriteLock` or a stutter.

**PluginSessionsProofs** assumes `PluginConstants`: the sorts of the constants, that
the names for "no session" and for maintainers are not sessions, and finitely
many requests. The inductive invariant `Inv` joins `TypeOK`, `AdmissionsExact` and
`IndexExact` with

- `RecordsOf`: numbers are handed out in order and each record has a session;
- `RequestsOf`: an admission is always one of a known generation, so a discarded
  record has none;
- `MaintOf`: a maintainer past the wait finds its generation closed, drained and
  known, past `terminalize` also terminal;
- `IntentsOf`: an intent is recorded only for a closed, drained generation.

The argument: a generation never becomes active again, admissions need an active
one, so "drained" is stable. `AdmissionsCounted` and `IndexesAgree` are parts of
`Inv`; `NothingRunsAfterIntent` and `MaintenanceGranted` follow from `IntentsOf` and
`MaintOf` with the exact count. `RetireKeeps` is the lemma for the three callers of
`retireLocked`.

`ShutdownClosesAll` (`NothingLeftOpen`) needs who still owes a close: `ShutdownInv` adds
`OwnerInv` (a generation belongs to one session for ever), `ReturnedInv` (a session that
has passed its own close leaves a generation that somebody began to close) and
`WaitingInv` (Run waits for the closes only when every session has returned).

**GitRuntimeProofs** assumes `GitConstants`: finitely many handlers, sessions and
worktrees at a time, at least one worktree and one content, repositories that are numbers (their order is the order of
their keys), limits in `Nat`, also zero. Gates and references rest on each other,
so there is one invariant for both:

- `Core`: each gate agrees with what the handlers want of it (`GateOK`: who is queued
  wants to come in, the queue is totally ordered, the counters are those inside, a
  writer is alone), and the registry counts exactly the references of handlers,
  sessions and snapshots (`Exact`). A coordinator that is wanted is referenced, so
  it is not evicted, so its gate is still the one that was asked; a coordinator
  that is made anew is one that nobody wants, whose new gate is right.
- `World`: types of the rest of the state.
- `FreshInv`: a snapshot with the current epoch says what git says (`StoresFresh`);
  a lease knows the epoch of its coordinator (`EpochOK`), which an eviction cannot
  reset while the snapshot or the lease refers to it; a repository that may change
  has advanced its epoch already (`OldOK`); a leased worktree stands (`StandOK`),
  because it was resolved again within the topology gate; an effect has locked the
  repository of whatever it may falsify (`ScopeOK`, `DeleteOK`), because the
  registry was scanned again under the locks.

`GitTypes`, `ReferencesCounted`, `WritersFindGatesFree` and `RepositoriesExclude` follow
from `Core` and `World`, `WorktreesStand` and `PagesAreFresh` from `GitInvariant`. The
lemmas about the gate (`GrantOK`, `UnwantedGate`, ...) are about the operators of
`GateOps` over any set of clients; there is one lemma per action for each of the
three parts.

**LimiterProofs** assumes `LimiterConstants` (finitely many clients, a positive
limit). `LimiterTypes`, `LimiterBound` and `LimiterWakes` come from their own
conjunction, which is inductive; `LimiterIsSemaphore` maps every step to one of
`Semaphore` or a stutter. The progress of `Semaphore` is only model-checked.

**ReinstallTargetProofs** assumes `ReinstallConstants` (the sorts of the constants)
and `~ConcurrentPreview`; any number of operations and faults. `Inv` is a
conjunction of named parts, each kept by each action in a lemma of its own:

- `OneJournal`, `AttemptAlone`, `OtherAlone`, `PreviewsClean`: at most one started
  journal; an attempt excludes other lifecycle operations, and another operation an
  attempt and started journals; a preview leaves nothing on the
  target;
- `JournalsTrue`: what a journal's phase lets one conclude of the target (`Knows`),
  also when the attempt that wrote it is gone;
- `Agrees`, `AttemptTrue`, `Positions`: the attempt that runs, its journal and its
  place agree;
- `Recorded`, `Restorable`: the files the user had are still there or in the rollback
  directory until a first attempt is through with them.

None of the five safety results is inductive: each speaks of one place in the
sequence, and a restart may resume at any phase, so all phases have to be
described. `IsolatedDataKept`, `CompletionSafe`, `FirstRollbackRestores` are invariants
that follow from `Inv`; `OldDataErasedLast`, `SuccessVerified` are action properties: no
step from a state of `Inv` erases the old data but behind a verified replacement.

**SSHTransportProofs** assumes `SSHConstants` (finitely many callers). `Inv` is
`TypeOK`, for each entry `Sound` (phase, task, master and processes fit; a
generation is never used twice) and `Counted` (its leases are those its callers
hold), for each caller `Placed` and `Fits` (its entry has its password, unless it has
still to look again). `StaleRefused` compares the generation a lease was given with
that of its entry; `OwnCredentials` needs `Fits`, since a password may be set and
an entry replaced while a caller waits. `LeasesOutliveOthers` (an action property) needs
`ServedInv`: `Inv` and `Unserved`, a connect task that is about to start a master has
found none alive. From it every step is `Fine` for every entry: what is leased and
alive is left as it is, or its master ends, or the manager is disposed of; one lemma
per action, and `LeaseKept` for the caller's side.

**FlowerOutboxProofs** assumes `OutboxConstants`: the names of the draft, of the first
thread and of "nothing" are distinct from messages, threads and entries, and
`MaxFaults` is a number, however large. A message has up to four kinds of copies
(in memory, in writes that wait, on the disk, on the wire), any of which a reload
may leave alone, so the invariant `Inv` speaks of all of them:

- `Typed`, `Lined`, `Staged`, `Answered`: types; the order is one of what is retained; a
  dispatch in flight is that of a pending message and waits for writes that exist;
  an awaited answer belongs to a dispatch;
- `AllValid`, `SentOnce`, `ThreadsKnown`: what any copy says has happened; nothing is
  known of a message that was not sent; only threads that exist are addressed;
- `Secured`: for a prepared message that waits there is a number of writes after
  which the disk has it, not more than its dispatch waits for;
- `Single`: of a launched message that was never in doubt there is one request, and
  no copy from which a reload would launch it again or give it back;
- `InLine`, `Apart`: while a message waits, none sent later to the same place has been
  launched to where it will go; what waits in a new chat has nothing to do with the
  thread an earlier new chat became;
- `Lost`, `Resuming`: a request given up without a doubt was given up by a reload, and
  its entry will come back as unknown; what is in the outbox while it is being
  restored was sent since;
- `Unremoved`: what waits has not been taken back.

`SentIsRemembered` is `Secured` at the moment of the launch; its inductive form has to
count writes, because the flush returns a promise for the writes that waited when
it was called. `FreshIdentitySafe` follows from `Single`: what is removed was not
launched. `OrderKept` is a part of `Inv`, and rests on `InLine` (a message is admitted
before any later one is launched), which rests on `Secured` and `Lost` (a reload does
not forget the first of two and keep the second), which rest on `Single`. There
is one lemma per action and part; the dispatcher, which ends most actions, is
described once by what it may start (`DispatcherEffect`).

`OnceOnly` and `UnknownPauses` have an invariant of their own, `Once`. It holds only as
long as no message has overtaken one in doubt and no write or read has failed, so what is
invariant is `Orderly`: this condition implies `Once`. Its parts:

- `TipAt`: what was written last of a message agrees with the outbox about its thread,
  so that no write behind it changes that again;
- `SteadyAt`: once the writes that its dispatch waits for are through, every copy of a
  message names the thread it will be launched to;
- `AimedAt`: there is one thread to which every request and every admission of a
  message went, and to which a launch of any copy of it would go: `OnceOnly`, and
  what a reload could make of it;
- `AloneAt`: two messages of the new chat are not both launched without a thread,
  else a view of one thread could bind the other (`bindAcceptedThread`) away from where
  it was admitted; `ClearAt`: when one is about to be launched from the new chat, the
  copies of those before it have left the new chat;
- `TellingAt`, `RestingAt`, `EarlyAt`: what the delivery in a copy says of the past; a
  launched message that rests in the new chat is in doubt, so that it pauses the
  chat; what is in the outbox while it is being restored was not launched;
- `UniqueAt`: a place has one dispatch in flight.

The steps are reduced to three forms: those that change nothing in the outbox
(`Still`), those that write behind what waits (`Carries`, for each message, and
`CarriedOn`, which puts the messages together), and those in which a view or a
receipt tells messages their thread (`Hearing`). TLC has found `Orderly` invariant for two
messages (420 k states, before failed reads were added) and then proved.
`UnknownPauses` needs the condition on the writes as well: without it TLC finds a counterexample with three messages and
three faults (section 7), beyond the bounds of the run; the attempt to prove it led there.

Only model-checked: all liveness (`RequestResolved`, `NoStarvation`,
`RequestEnds`, `ClosedIsForgotten`, `StartedConverges`, `AcquireEnds`, `IdleCloses`,
`DisposedEnds`, `PendingSettles`, the progress in `ImplementsSemaphore`), which is
beyond the prover's temporal reasoning.

## 7. What the models brought to light

**Lock order inversion** (`git_lock_order`). `Session.RetainRepository` keeps
`Session.mu` locked while it waits for the topology gate
(`internal/gitruntime/session.go:26-31`, `runtime.go:179`). The callback of a
branch deletion holds the topology gate as a writer and loads its repository
through the same session (`internal/gitrepo/service.go:877`, `1100`), which
locks `Session.mu`. Two requests of one session can therefore wait for each
other until one is cancelled. `runtime.go:488` says "The callback context may
safely resolve repository identities without recursively acquiring the topology
gate.", and `okf/architecture/git-workspace-inventory-lifecycle.md:16` promises
a "canonical lock order".

**A maintainer that gives up is taken for one that is done** (`plugin_shutdown`). A
maintainer whose wait for the drain timed out backs off, and stops when the
context of the runtime ends (`internal/agent/agent.go:1914-1929`). The goroutine
returns, `waitForSessions` and `waitForPluginSessionCloses` see nothing left to
wait for, and Run closes the plugin host while a request admitted under that
generation still runs. `okf/architecture/plugin-platform-integration.md:17` says
"Shutdown closes Local UI/hijacked admission,cancels Agent sessions,drains
leases/handlers,then idempotent Host close.", and Run itself leaves the host
open when a drain takes too long (`agent.go:642`).

**A reinstall that reports restored files after they are gone.** Three attempts
that preserve the data: the first installs and is interrupted; the second fails
while it stages, and its cleanup deletes the files the first had kept; the third
fails to verify, finds nothing to put back, and reports that "Desktop restored the
previous managed files" (`reinstallTargetCoordinator.ts:940`). `FirstAttemptRestores` is
therefore stated for the first attempt.

**A preview that overlaps a confirmed start.** The coordinator does not exclude a
preview that looked for started journals before an attempt began and writes its
own afterwards. With `ConcurrentPreview = TRUE` the model violates `SuccessIsVerified`,
`OldDataErasedOnlyVerified` and `CompletionStands`. The launcher offers no way to confirm
one preview while it waits for another of the same environment in one window; the
run and the proofs assume as much.

**What the outbox does not keep apart.** The properties of `FlowerOutbox` have
exceptions, each for a case in which the code does otherwise:

* A message that failed for sure and is retried goes ahead of a later one of its chat
  whose outcome is unknown, although "unknown outcomes pause only their originating
  thread until the user retries the same identity" (`FlowerSurface.tsx:5444`): only
  what stands first in the map is looked at. In a new chat the thread it creates then
  adopts the unknown message (`bindAcceptedThread`), and retrying that one admits it a
  second time, in another thread.
* A message in doubt that is retried and then fails for sure (a refusal, a failed
  flush or preparation) is "failed": it may be discarded, or restored under a fresh
  identity, and later ones are released, although its first request may have been
  admitted. `okf/ui/flower-turn-launcher.md:25` says that server errors never
  "authorize a fresh request identity". The same holds for one that was retried and
  waits as pending behind another.
* A message that is sent while the outbox is being restored is not paused by one that
  comes back unknown; and what is launched is read before the second flush
  (`FlowerSurface.tsx:5497`), so that a thread bound during it is missed and another
  created.
* `flushPersistence` returns the latest write only. A failed write of a retried entry
  is masked by a later one that succeeds, and the disk keeps the older state; a
  confirmed or discarded message may come back after a reload in the same way. One
  that comes back without its thread, next to another in doubt, takes that one along
  when a view of its thread confirms it: the other then stands, in doubt, before a
  message of that thread that is on its way, which nothing has paused.
* When the outbox cannot be read after a reload (`FlowerSurface.tsx:920-922`), what was
  saved is out of sight and pauses nothing. A message sent then goes ahead of one in
  doubt; after the next reload both are there, a view of the thread the later one
  created takes the other along, and retrying that one admits it a second time. TLC
  finds this with two messages and three faults.
* Restored entries are in the order of their random identities, so the order of
  sending is lost with a reload; `OrderKept` holds because restored entries that were
  pending are in doubt.

Smaller observations, none of them a violated promise:

* `ensureConnected` tests whether the master runs before it looks for a connect in
  progress: a second `acquire` gets a lease while the first still waits for the
  authentication (`sshTransportManager.ts:482`; the test at
  `sshTransportManager.test.ts:524` makes one acquire).
* `dispose` returns while a master of an entry that was closing already may still run
  for a moment; `DisposedEnds` says that it ends.
* A failure in preserve mode after "old data cleaned" is reported as needing manual
  recovery although the target is in order, and a started preserve journal that
  fails before the installation cannot be replaced by a wipe.
* All new chats of the main surface share one key (`__new_thread__`), and all tabs one
  object store: a tab that opens restores what another has in flight as unknown.

* `cancel` of the gate calls `grantLocked`, which does nothing while readers are
  inside: readers behind a writer that gave up wait until those readers leave,
  although they would be compatible.
* A session that keeps its reference to a worktree that is gone makes every
  topology change fail once the registry is incomplete, until it closes
  (`runtime.go:607`).
* `markRegistryIncomplete` runs after the topology gate was released, so an
  effect that rebuilt the registry just now may be refused once for nothing
  (`runtime.go:257`).
* `captureWorkspaceSnapshot` without a lease of its caller retains the repository
  with a context that lacks the new lease; only tests take that branch.
* A remote session that takes over a channel while the generation of its
  predecessor is still active gets no generation, and its requests are refused;
  only a warning says so (`agent.go:1815`).
* `ClosePluginSessionConnections` and `EndPluginSession` act on the channel, not on
  the generation the caller meant (`agent.go:1889`,
  `plugin_session_registry.go:448`).
* A caller of `EndPluginAccessSession` that is between `beginClose` and
  `pluginCloseMu` is in no wait group: Run may close the host before it begins.
* The ledger and the pool trust the wall clock; a step back is not bounded
  anywhere, and the models have a monotone clock.

## 8. Not modelled, and why

* Planned, see section 2: cloud recovery beyond what it does to the pool, gateway
  flows, terminal lifecycle, access gate, hijacked plugin connections.
* The byte limiter and the budgets of one request in `gitruntime/limits.go`:
  counters that never wait.
* Branch reviews and the contents of archives: data.
* Operating system and external programs: the Git process runner, lock file,
  container engines, code-server, port forwarding, remote desktop, monitoring.
* The Flower AI service runs on an external agent SDK that holds its run loop;
  the plugin platform and the Flowersec transport are external likewise.
* SQLite-backed stores whose operations are single transactions.
* Of Desktop: the other operations of the launcher, SSH in direct mode and the
  commands of a lease, two environments that are the same runtime root, the update
  coordinator, windows and preferences.
* Of the Flower interface: attachments, goals, compaction, desktop repair, subagents,
  deletion of threads, expiry after a day, an outbox without IndexedDB, a second tab;
  drafts and the thread cache (planned).
* The rest of the web interfaces (most of the TypeScript by lines: views, widgets,
  translations, generated schemas, styles) shows state that others own. Modelling it
  would say nothing about the system, which is why the models cover a small share
  of the code by lines.
* Gateway membership proofs and state: candidates after the plan is done.

## 9. Running

    tlc -config pool_spend.cfg MCControlArtifactPool.tla
    tlc -config gate.cfg MCFairRWGate.tla
    tlc -config git_registry.cfg MCGitRuntime.tla
    tlc -config plugin_sessions.cfg MCPluginSessions.tla
    tlc -config limiter.cfg MCLimiter.tla
    tlc -config reinstall.cfg MCReinstallTarget.tla
    tlc -config ssh.cfg MCSSHTransport.tla
    tlc -config flower_outbox.cfg MCFlowerOutbox.tla
    tlapm ControlArtifactPoolProofs.tla
    tlapm FairRWGateProofs.tla
    tlapm GitRuntimeProofs.tla
    tlapm PluginSessionsProofs.tla
    tlapm LimiterProofs.tla
    tlapm ReinstallTargetProofs.tla
    tlapm SSHTransportProofs.tla
    tlapm FlowerOutboxProofs.tla

The configurations are named after the runs of `PROJECT.json`; the prefix says
which `MC` module they belong to.
