# Usque: a TLA+ verification project

Usque is an unofficial Cloudflare WARP client. An unprivileged *Engine* (one
process per user) decides what should be connected; a privileged *Agent*
changes the host for it: it creates a Wintun device, installs routes, DNS
servers and WFP filters, moves packets between the device and the Engine, and
sets the Windows system proxy. Everything the Agent does to the host must be
undone when the Engine goes away, when a native call fails half way, when the
Agent itself dies, and when the disk refuses a write. That discipline, a
write-ahead journal with recovery, is the part of the program that is hardest to
test and most harmful to get wrong, and the project starts there. It goes on with
the same kind of question elsewhere: how a tunnel is replaced, how packets cross the
process boundary, how connections are raced, how identities and the installed
program are replaced, and how the Engine starts and stops a session.

`docs/reliability-invariants.md` of the repository names the release invariants.
The properties here that state one of them say so (INV-...).

## 1. Inventory of the system

| Component | State it keeps | Operations | What is hard |
|---|---|---|---|
| Agent journal (`usque-agent/src/journal.rs`) | phase, ordered mutation steps, plan, owner, managed device record | `clean`, `disconnected`, `validate`, `save`, `load_or_clean` | a save may fail; the next process starts from the last one that did not |
| Agent coordinator (`coordinator.rs`, `coordinator/device_lifecycle.rs`) | journal in memory, packet session flag, tunnel lease and epoch, device lease, retirement state | prepare, chain transition, finalize, open/close session, resume, leases, commit, rollback, recover, retire, system proxy | failure or crash between any native call and its record; stale watchdogs; partial recovery |
| Tunnel replacement (`coordinator/replacement.rs`) | replacement record and its own guard | begin, commit, abort | protection must not lapse between source and target |
| Pipe service (`windows/server.rs`, `main.rs`) | leases of each pipe, watchdogs, automatic-recovery budget, service start mode | dispatch, end of pipe, timers, idle exit, shutdown, startup | timers race with new owners; startup decides from a stale journal |
| Windows backend (`windows/*.rs`) | native resources | plan, apply, restore, inspect | I/O: may fail before or after its effect |
| Linux Agent (`linux/*.rs`) | its own journal and resources | as above, with its own bridge guard | as above |
| Packet ring (`usque-platform/src/packet_ring.rs`) | two SPSC byte rings in shared memory | push, pop | wrapping 32-bit indices, publication order across processes |
| H3 path migration, transmit barrier, PMTU (`usque-transport/src/h3/migration.rs`, `migration_barrier.rs`, `pmtu.rs`) | candidate and active path, drain state, per-path PMTU phase | begin, probe, promote, abandon, revalidate | late validation results, old path still draining |
| Packet session (`windows/packet_session.rs`, `windows_agent/packet_pump.rs`) | two rings, three events, one retained packet | pump, wait, publish, stop | coalesced wake-ups, full rings, threads that cannot be aborted |
| Endpoint races (`endpoint_race.rs`, `endpoint_race/automatic.rs`, `recovery_policy.rs`) | candidates, permits, winner, failures | race, join, drain, drop | losers that connect late; network changes and cancellation during a race |
| MASQUE runtime (`masque_runtime.rs`) | connection generation | reconnect, stop | reconnection with queues in flight |
| L4 byte budget (`l4/stream.rs`, `l4/pool.rs`, `l4/budget_wait.rs`) | permits, pooled buffers, armed waiters | reserve, drop, recycle, close, wait | lock-free wake-ups; close races with returns |
| Packet mux, pipes, rest of L4 (`packet_mux.rs`, `packet_pipe.rs`, `l4/*`) | bounded queues | admit, deliver | full queues |
| Automatic recovery (`windows/server.rs`) | budget, stage and revision of one operation | attempt, publish, reconcile, shut down | results that are published late |
| Direct egress permits (`windows/server.rs`) | registry of permits, network generation | acquire, observe, release, clear | three locks; a generation that changes under way |
| Engine connection (`usque-engine/src/lib.rs`, `disconnect_cleanup.rs`) | intent, watch, startup token, data plane, owner queue | connect, retry, disconnect, exit, monitor, clean up | cancellation in the middle of an Agent transaction; failed cleanups |
| Engine identities (`usque-engine/src/lib.rs`, `usque-core/src/config`) | configuration file, vault records, licences | create, replace, delete, clear, recover, reap | crash between nine vault records and a save |
| Core (`usque-core/src/*`) | settings, scenarios | compare-and-set, import | concurrent edits |
| Linux update (`usque-update/src/linux.rs`, `linux/transaction.rs`) | journal, staged backups, service files, AppImage | install, repair, remove, recover, replace the AppImage | kill or power loss between intent, rename and fsync |
| Protocol codecs, TLS, WireGuard/OpenVPN exits, geo rules, registration | - | - | parsing and cryptography: not state machines |
| GUI, uninstaller, packaging, third-party code | - | - | outside this project |

How they interact: the Engine sends the Agent protobuf requests over a named
pipe; each request is one coordinator call under one tokio mutex. A pipe can hold
leases (system proxy, startup tunnel, active tunnel, device); when it ends the
service releases them and arms a grace timer that calls the coordinator again.
The Agent's main function runs the startup sequence before it serves any pipe.

What makes each part correct:

- journal and coordinator: nothing is in the host without a durable record; clean
  is published last; the blocking policy outlives the packet pump and precedes the
  routes; a journal that was written can be loaded;
- leases: a timer never acts against a newer owner, and an orphan is always
  cleaned up in the end;
- device: never removed under its owner, never reused while a removal may still run;
- startup: believes the journal only as far as Windows agrees with it;
- replacement: at every moment the source policy or the replacement guard is in place;
- ring: a FIFO that loses nothing it accepted, over the wrap of its indices;
- migration: one active path, no application data on an unvalidated one;
- race: every connection but the returned one is shut down, the worst failure is told;
- pump: no packet waits for a wake-up that never comes, and a shutdown ends everybody;
- budget: every byte is free, pooled or leased, and nobody sleeps on free capacity;
- update: every prefix can be undone, what is reported is durable;
- supervisor: a failed operation is retried within its budget and then given up visibly;
- egress: no permit of an earlier network outlives its invalidation, none is taken
  from a live lease;
- identities: an account has one registration, and a crash never costs it the old one;
- Engine: nothing starts beside a runtime whose cleanup is not confirmed, and what a
  user stopped stays stopped.

The list of hazards, each at its line, is in `PROJECT.json`.

## 2. Modules

| Module | Contents |
|---|---|
| `AgentJournal` | constants, variables, journals and `RecoveryJournal::validate` |
| `AgentCoordinator` | the actions: every handler of the Windows coordinator, its timers, process ends and startup; `Spec` |
| `AgentSafety` | properties, the inductive invariant `IInv`, fairness |
| `AgentProofs` | the Agent's theorems |
| `MCAgent` | accounts and plans for TLC |
| `PacketQueue` | abstract: a bounded FIFO of packets |
| `PacketRing` | one direction of the shared-memory ring, one action per load, copy or store; the refinement `PacketRing` => `PacketQueue` |
| `MCPacketRing` | packets for TLC |
| `PacketPump` | the two pumps of a packet session, on bounded FIFOs |
| `PacketSessionProofs` | of the ring and of the pumps: the ring is a FIFO, nothing is overwritten, stranded or lost |
| `AgentReplacement`, `GuardExclusions` | replacing a protected tunnel; the addresses its guard lets pass |
| `AgentReplacementProofs` | the replacement leaves no gap |
| `MCReplacement` | three plans for TLC |
| `RecoverySupervisor` | the Agent's automatic recovery |
| `DirectEgress` | permits through the kill switch |
| `AgentServiceProofs` | of both: recovery cares for exactly the failed operation, no permit is stale or lost |
| `RecoveryPolicy` | failures and their order |
| `EndpointRace`, `AutomaticRace` | a batch of candidates; the sliding race over two carriers |
| `MasqueConnect` | composes them: the race that a connection runs |
| `L4Budget` | byte budget, receive pool and waiters |
| `TransportProofs` | of both: who owns a connection's sockets and what it reports; the books of the budget balance, no wake-up is lost |
| `UpdateTransaction` | the privileged helper, its journal and recovery |
| `AppImageUpdate` | composes it with the updater that replaces the AppImage |
| `UpdateProofs` | of both: what is reported is durable, the journal covers the files, AppImage and service fit |
| `IdentityStore`, `IdentityStoreProofs` | identity transactions over file and vault; they fit at every moment |
| `EngineConnection`, `EngineConnectionProofs` | Connect, Retry, Disconnect, exit, monitor and cleanup task; its safety |

"Agent: state" to "Agent: what is abstracted" are about the Agent's coordinator; the
other modules have a section each.

### Agent: state

`mem` is the `RecoveryJournal` behind the mutex and `disk` the journal file. `os`
is the set of effects that are really in Windows; the code does not have it, it is
what the journal is about. `pkt`, `lease`, `epoch`, `devLease` and `retire` are the
coordinator's atomics and small mutexes; `devTimers`, `watchdogs` and `pipes` the
sleeping tasks and pipes of the service. `instance` counts Agent processes
(`agent_instance` in the code is a random id). `job` is the handler that holds the
journal mutex, with its label and the locals that survive between labels.

Steps are a function from `MutationKind` to a state, with `order` for the order in
which they were pushed: recovery walks it backwards, the packet session first.

### Agent: actions

Handlers hold the mutex from start to end, so at most one runs. They are split
into one action per save or native call, since a crash or an error may come
between any two. `Save(j, ok, error)` is a save with both outcomes: the journal in
memory is changed either way, as in the code, where `save` gets a `&mut` that the
caller keeps. A native call that fails may or may not have had its effect (apply
and restore alike).

A request that the code refuses changes nothing and has no action.

| Code | Actions |
|---|---|
| `prepare_managed`, `prepare_locked` | `PrepareManaged` `CreateDevice` `DeviceCreated` `CreateFailed` `BeginTransaction`, steps, `FinishPrepare` |
| `apply_new_step` | `PlanStep` `ApplyStep` `RecordApplied`, error exits `ApplyFailed` |
| `begin_chain_transition` | `BeginChainTransition`, steps, `FinishChain` |
| `finalize_tunnel` | `FinalizeTunnel` `SwitchStep` `SwitchRecorded` `SwitchDone`, steps, `FinishApply` |
| `open_/close_packet_session`, `resume_tunnel` | `OpenPacketSession` `FinishOpen` `ClosePacketSession` `StopPacketPump` `SessionClosed` `ResumeTunnel` `StartPacketPump` |
| leases and the end of pipes | `AcquireTunnelLease` `StartupPipeEnds` `ActivePipeEnds` `LeaseReleased` `WatchdogFires` |
| `commit`, `rollback`, `recover_*` | `Commit` `FinishCommit` `Rollback` `RecoverStale` `RecoverAutomatic` `RecoverOrphaned` |
| `recover_locked_with_egress`, `restore_steps_locked` | `BeginRecovery` `RestoreStep` `MarkRestored` `RestoreEnded` `PublishClean` `RequireRecovery` |
| device life cycle | `AcquireDeviceLease` `DevicePipeEnds` `ReleaseDeviceLease` `DeviceTimerFires` `RetireDevice` `RemoveDevice` `WorkerFinishes` `RecordRetirement` `RetryRetirement` |
| system proxy | `JoinSystemProxy` `StartSystemProxy` `RestoreSystemProxy` `UndoSystemProxy` `SystemProxyUndone` |
| `main.rs` startup, idle exit, shutdown | `Boot` `BootRetire` `IdleExit` `Shutdown` `Crash` `Reboot` |

### Agent: what is abstracted

- Generation numbers. Within one process they only grow, so "the expected
  generation still matches" is "nothing was saved since": a request satisfies it or
  is refused without effect.
- Receipts. A step has a kind and a state; the enrichment of a receipt by
  `PartialApply` is a save that changes nothing the properties see.
- `save` does not call `ValidJournal`, so that `JournalLoads` is a question and not
  a guard: it shows that `validate` never refuses what a handler saves.
- Restored steps that `open_packet_session` and `apply_system_proxy` drop in memory
  before they push, the no-step branch of `close_packet_session`, and the busy
  return of `retire_device_locked` cannot be reached and have no action.
- One pipe that holds a startup and then an active lease is two pipes here, which
  allows strictly more orders. The end of a system-proxy pipe is
  `RestoreSystemProxy`.
- When `release_tunnel_lease` fails the service calls `recover_stale` later, under
  a mutex it has to take again: a watchdog of kind "stale".

`KillSwitchFailsClosed` asks for the blocking policy when it is due (`PolicyDue`): with
Kill Switch always; for a chain while it is prepared and, once installed, until it
ends. A live tunnel without Kill Switch that becomes a chain gets its guard while it
carries packets, as the code means it to; before that nobody asked for a policy.

### The packet ring

`buffer`, `head`, `tail` and `dropped` are the shared memory of one direction; `prod`
and `cons` hold the label and the locals of `try_push_inner` and `try_pop_into`, which
run in different processes. Push and pop have no lock, so the model has none: `LoadTail`
`CheckSpace` `WriteHeader` `WritePayload` `PublishHead` interleave with `LoadHead`
`ReadLength` `ReadPayload` `ReleaseTail` in every order. Bytes are kept, since the
question is whether a packet survives being cut at the end of the buffer: the header
is encoded least significant byte first in a small base, records are padded to the
header's size, indices wrap at `Modulus` and offsets at `Capacity`. The indices are
stored with Release and loaded with Acquire, so that whoever sees an index sees the
bytes before it; the model relies on that and does not reorder memory. The shared
counter of drops is capped at 1, as no code decides anything by it. A consumer's error
is final, because the pump that gets it ends. What a peer that breaks the protocol
could write is not modelled.

`Queue` maps a state of the ring to a state of `PacketQueue`: `Decoded` reads the bytes
between tail and head as `try_pop_into` would, record by record, the distance of the
indices is what the queue holds in bytes, and `popped` is the packet taken last. Only
the stores of head and tail change the queue.

### Packet pump

`PacketPump` takes each direction as the FIFO of `PacketQueue` and adds who looks at
it. The Agent's thread waits for one of three auto-reset events, drains the ring to
the device in batches, then the device to the ring (`AgentWait` ... `AgentSignal`); the
Engine's waiter turns the event into a token of a channel of one place; the Engine's
pump holds at most one packet of each direction and selects between token, tunnel,
retry timer and upload (`PumpTop`, `Publish`, `Select...`). Downloads carry numbers, so
that order and loss are visible; uploads are counted. Either side may end by a
failure, and both owners may stop the session at any moment. Handle duplication and
what a packet contains are left out.

### Tunnel replacement

`AgentReplacement` starts with an Active source. `mem`, `disk` and `job` are as in
`AgentCoordinator`, `os` says whose policy and whose guard is in the filter and whether
the device exists. One action is one save or one native call of `replace_tunnel`,
`commit`, `complete_replacement_locked`, `abort_replacement` and the functions they
call; a failing call may have had its effect. A guard for one target counts as
present for another only if both have the same number of filters (`Large`), which is
what the readback compares. `GuardExclusions` is `intersect_exclusions` for one
address family of `Width` bits: a network is its prefix of bits, and the reference is
the set of addresses that networks cover. `through` is history: the plans that a chain
of replacements has passed since the guard was installed; what the guard lets pass is
exactly what all of them leave out. A plan may have the kill switch, the chain or both.
The filters of a chain without kill switch go with the process, those of the guard do
not; a device may vanish with a restart. Every start of a process then runs `main.rs`'s
startup: an Active tunnel is inspected even while its replacement is pending, and an
inspection that fails records RecoveryRequired, which the model writes as "Quarantined"
so that the properties can tell where it came from; every guard treats both alike.
Abstracted: process id and account of the owner, generation numbers, leases; ordinary
`recover` is one action that succeeds, or fails after restoring some of the steps; the
retirement of an idle device. Networks are taken as truncated to their prefix, which is
how the Engine sends them (`config/mod.rs:754`).

### Automatic recovery and direct egress

`RecoverySupervisor` has the supervisor task with its registration for a
notification, sleep, attempt under the gate and publication outside it; requests
change the journal under the gate at any point, and a user may grant a budget again.
The journal is reduced to an operation and whether it is failed. An attempt may fail
although it has cleaned the journal, when the device cannot be retired; the branch that
retries that retirement is left to `AgentCoordinator` and is a request here.

`DirectEgress` has one handler per pipe, split where a lock is taken or released: the
gate, the registry and the generation. A key is an operation and a generation; target,
protocol and interface are one value. `dropped` is history: keys whose permit was
revoked by the clear that `Prepare` and `Recover` make after they left the gate (see
section 6).

### Endpoint races

The owner of a race is a task of its own, the candidates are tasks in its `JoinSet`,
and the caller holds a guard that only cancels. `EndpointRace` is
`race_batch_with_policy` for both policies, `AutomaticRace` is `race_automatic` with
its lanes, limits, H3 restart and shared permits. A handshake ends in any of
`Outcomes` at any time, also after its cancellation. `MasqueConnect` chooses the race
once, as a profile does; the loop that goes on to the next preset batch is not
modelled, and addresses are names.

### L4 budget

The atomic operations of `BufferBudget`, `ReceivePool` and `BudgetWaiter` that threads
can tell apart are steps, since there is no lock around them. They are taken as
sequentially consistent. That is an assumption: the source orders the waiter count with
acquire and release only, and reorderings that those allow are outside the model. A
consumer has one request per poll, so the flag `budget_waiting`, which keeps a later
success of the same poll from withdrawing the registration of an earlier failure
(`client.rs:438`, `actor.rs:356`), is not in the model. Bytes are counted in blocks;
metrics are left out.

### Linux update

What a helper does is a `program`, a sequence of instructions, each a system call or
a command that a fault, kill or power loss can separate from the next. Every name has
a visible and a durable value: a rename changes the first, the fsync of the directory
copies it to the second, a power loss leaves any mixture; a staging directory is no
less durable than the journal rename that follows it, and what `systemctl enable` and
`disable` change is taken as durable at once, although the helper does not sync it.
Recovery is a program too, computed from the journal it loads; a read error of the load
ends the helper as a kill would, and is not told apart from one. A helper that
fails to begin over a leftover journal exits with "uncertain" here; when the journal is
complete and the error another one, the code exits with 1, having touched nothing, and
the updater puts the AppImage of before back. "agent" stands for the executables and
the policy. systemd is external: `systemctl` needs the unit file, and `--recover-state`
needs the lock that a running service holds. An administrator edits files only
between helpers. `AppImageUpdate` adds the unprivileged updater, which replaces the
AppImage first and then follows the helper's exit code.

### Identities

A transaction is a handler of single vault calls and saves; lease and mutation lock
make it one at a time. Two records per slot stand for the nine of `persist_identity`:
enough for missing and for mixed ones. The process may die, a save may fail and the
vault may be away between any two steps. Unbinding a licence at the service may
succeed or fail freely. A save that fails has changed nothing, or has replaced the
file and not the Engine's copy of it ("commit uncertain", `storage.rs:234`). What the
file is then ahead of the copy (`Ahead`) stays until the next save, which writes the
file from the copy, or until a save of settings (`SaveSettings`) or a start makes it the
copy: settings wait for no transaction and keep whatever the file says of identities.
`base` is the copy that a replacement read before it wrote its backup; every other save
reads the copy directly before. `torn` is history: the accounts whose copy took over a
save that had been reported failed. So is `clearing`: an unfinished `clear_all_data` is
allowed to have taken records that the file still names.

### Engine connection

`pc` has the places of the user's request, of a Disconnect or exit, and of the
monitor; `mutation` is the FIFO of the tokio mutex. One Connect or Retry runs at a
time, because the dispatcher holds an exclusive lease for it. Everything a handler
does between two awaits that another process can tell apart is one step. A teardown
reads the phase, loads the failed flag and takes the lock of the state again (`Down`,
`DownFlag`, `Leave`); the task pops a confirmed owner and then takes its error back
(`TaskPop`, `TaskClear`): each may fall between two steps of the other. Phases and
their table are the code's (`CanTransition`); only Degraded is Connected. The Agent is
external: a transaction that is active, pending recovery, exhausted or clean. `owners` is the queue of runtimes whose
platform cleanup is not confirmed, `stopped` is history: the last Disconnect has
completed and nothing was asked since. Left out: the continuous worker, chain exits
and in-place retry, reattachment, reconfiguration, health of a live runtime.

## 3. Runs

| Run | Question | Distinct states |
|---|---|---|
| `agent_tunnel` | A plain tunnel, one with Kill Switch, a chain or a deferred chain, with and without proxy, a fault, a crash, shutdown or reboot anywhere: is everything in the host on disk, is clean durable, does the kill switch fail closed, do journals load, does an old watchdog leave a new lease alone? | 1.6 M |
| `agent_devices` | Two Engines of one account: does a timed-out removal or an old timer ever hurt a new owner, and is everything without an owner settled? | 0.3 M |
| `packet_ring` | Do two correct peers ever call each other corrupt, does a copy touch unread bytes, is the ring a bounded FIFO? | 76 k |
| `packet_pump` | Is a packet ever stranded between an event and its waiter, lost or reordered by a full ring; does a shutdown end every worker, and do uploads move? | 0.2 M |
| `agent_replacement` | Is there a moment without a filter, or with one that lets too much pass; a guard that no file knows; a guard released too early; an abort that never ends? | 0.5 M |
| `recovery_supervisor` | Is a budget overdrawn, an operation forgotten, or a recovery never decided? | 0.1 M |
| `direct_egress` | Does a permit outlive its network, or a live lease lose its permit? | 0.8 M |
| `masque_connect` | Does a socket survive without an owner or permit, is a failure hidden, does a race hang? | 0.2 M |
| `l4_budget` | Is a block lost, a counter negative, a waiter asleep on free capacity? | 4.1 M |
| `appimage_update` | Is a report taken back by a power loss, an intent missing, a mixture started, an edit overwritten, the service ahead of the AppImage? | 2.7 M |
| `identity_store` | Is an account left with a mixed, missing or revoked identity, a backup lost, a pending replacement never ended? | 0.8 M |
| `engine_connection` | Does anything pass a retained owner, is a failed cleanup hidden, a stopped session revived, a transition refused that leaves something undone? | 5.4 M |

All pass. Properties with several parts are conjunctions of named definitions. Each
has a mutant of the code that TLC shows to violate it (`PROJECT.json`, "mutants"): a
forgotten failure, a premature clean, routes before the policy, a loser that is not
shut down, a permit returned too early, a sync that is skipped, and so on.

Bounds of the Agent's runs: `MaxFaults` (failed saves and native calls) is 1 in the
coordinator's, where the handler's failure is followed by the crash that restarts
recovery, and 2 for the replacement, so that a failure of a step and of its repair
can meet. `MaxRestarts` is 1, because a new process forgets all but `disk` and `os`,
and every combination of the two that a first process leaves is explored. `MaxEpoch`
bounds the lease epoch at which a request may start, `MaxLeases` the device leases: 2
where an old owner's timer must meet a new owner. `ProxyPlans` names the plans whose
tunnel a proxy joins: the steps of a joined proxy do not depend on the plan, so one
plan of four is enough, and a proxy alone is tried as well.

The ring has 16 bytes, 5-bit indices and records of 4 and 6 bytes, so that both wraps
happen at every alignment that a record can have, with up to four records in it and
with the ring exactly full; empty and over-long packets are offered too. The theorems
below cover the magnitudes. The pump has rings of one and two packets, so that they
are full most of the time, batches of one for the 64 of the code, so that a batch ends
before the ring is empty, and traffic without end. The replacement has a source, a chain, and a target with both policies and another guard
size, which may replace each other in a row, and four addresses with networks that
contain each other in both directions and in one place. The supervisor has the code's
three attempts and two operations; egress three pipes, two operations, two networks
and room for one permit, so that the registry is full. The races have one permit for
three candidates, two H3 and one H2 targets, every kind of failure, and batches of
three. The budget has four blocks and one thread of each kind: a reader, a writer of
two blocks, an admission with a margin, a dropper and the closer. The update has two
transactions and one fault, kill, power loss and edit each, in every order, with the
service installed, enabled and running. Identities: two accounts, one backup slot,
three registrations, two faults. The Engine: two requests, a Disconnect, an exit, two
faults, one recovery of the Agent.

Deadlock is checked for the Agent, the rings, the pump, the races and the update,
whose idle and finished states have explicit steps. It is not for the budget,
replacement, supervisor, egress, identities and Engine, where the bounded requests
run out and everybody may rest; there liveness, where it is claimed, finds a hang.

Fairness, in the runs with liveness:

- Agent: `WF(HandlerStep)`, a handler that has the mutex goes on, as saves and native
  calls return and the removal has its own timeout; `SF` on device timers and
  watchdogs, which queue for the FIFO tokio mutex; `WF(RetryRetirement)`, the service
  loop retries while `retry_pending`;
- replacement: `WF(Handler)` likewise, and `SF(Abort)`: the Engine or maintenance
  repeats an abort until it is answered;
- supervisor: `SF(Supervisor)`, a task that was woken or whose timer fired is polled
  and the gate is FIFO, and `WF` of the request that holds the gate;
- pump: `WF` of threads and tasks, `SF` of the branches of tokio's `select!`, which are
  polled in random order. Neither tunnel nor device is obliged to have a packet;
- races: `WF` of tasks and timers, `SF` of acquiring a permit (the semaphore is fair)
  and of joining a task (a `JoinSet` hands tasks out in the order they ended);
- identities: `WF(Handler)`, and the Engine is started again after it ended.

Neither requests nor failures are fair, and failures are bounded: nothing can be
promised of a host whose disk never works again.

## 4. Theorems

Every theorem holds for every value of the constants that the named assumption
admits: any set of engines, operations, plans, accounts or pipes, any size of a ring or
width of an address, and any number of faults, restarts and requests.

| Module | Assumption | Theorem | Statement |
|---|---|---|---|
| `AgentProofs` | `ConstantsAssumption` | `Invariance` | `Spec => []IInv` |
| | | `TypeCorrect` | `Spec => []TypeOK` |
| | | `EffectsAreCovered` | `Spec => []DurablyCovered` |
| | | `CleanIsPublishedLast` | `Spec => []CleanIsDurable` |
| | | `RemovedDeviceIsNotReused` | `Spec => []NoReuseDuringRemoval` |
| | | `PolicyOutlivesPump` | `Spec => PumpStopsBeforePolicy` |
| | | `OwnerKeepsDevice` | `Spec => OwnersDeviceStays` |
| | | `KillSwitchHolds` | `Spec => []KillSwitchFailsClosed` |
| | | `JournalsAreValid` | `Spec => []JournalLoads` |
| | | `LaterLeasesDisarm` | `Spec => LaterLeaseDisarms` |
| `AgentReplacementProofs` | `OperationsAssumption` | `ReplacementDoesNotLeak` | `Spec => []NoLeakDuringReplacement` |
| | | `GuardsAreRecorded` | `Spec => []GuardIsRecorded` |
| | | `GuardGoesToTarget` | `Spec => GuardReleasedToTarget` |
| `AgentServiceProofs` | `EgressAssumption` | `NoPermitIsStale` | `Spec => []NoStalePermit` |
| | | `LeasesHavePermits` | `Spec => []LeaseHasPermit` |
| | `LimitAssumption` | `SupervisorIsExact` | `SpecSupervisor => []CareIsExact` |
| `PacketSessionProofs` | `RingAssumption` | `RingNeverOverwrites` | `SpecRing => []NoOverwrite` |
| | | `RingNeverCorrupt` | `SpecRing => []NoFalseCorruption` |
| | | `RingImplementsQueue` | `SpecRing => RingIsQueue` |
| | `PumpAssumption` | `PacketsAreSeen` | `Spec => []NobodyStranded` |
| | | `DownloadsAreKept` | `Spec => []DownloadIsLossless` |
| `EngineConnectionProofs` | `BoundsAssumption` | `OwnersNeverPassed` | `Spec => []OwnersAreKept` |
| | | `FailuresAreShown` | `Spec => []CleanupVisible` |
| | | `TransitionsAreLegal` | `Spec => []LegalTransitions` |
| | | `StopsAreFinal` | `Spec => StoppedIsFinal` |
| `IdentityStoreProofs` | `IdentityAssumption` | `BackupsAreWhole` | `Spec => []BackupIsWhole` |
| | | `VaultFitsFile` | `Spec => []VaultMatchesFile` |
| `TransportProofs` | `AutomaticAssumption`, `BatchAssumption` | `Owning` | `SpecConnect => []SocketsAreOwned` |
| | | `Reporting` | `SpecConnect => []WorstFailureReported` |
| | `BudgetAssumption`, `ThreadAssumption` | `Accounting` | `SpecBudget => []BudgetIsAccounted` |
| | | `NoSleeper` | `SpecBudget => []NobodySleepsOnCapacity` |
| `UpdateProofs` | `UpdateAssumption` | `UpdateInvariant` | `SpecUpdate => []IInv` |
| | | `ReportHolds` | `SpecUpdate => []ReportIsDurable` |
| | | `IntentHolds` | `SpecUpdate => []IntentCoversFiles` |
| | | `KnownFilesHold` | `SpecUpdate => ActsOnKnownFiles` |
| | and `"install" \notin Operations` | `PairHolds` | `SpecUpdate => []PairIsConsistent` |

The assumptions say that names that mean different things differ ("none" is no
operation), that plans are plans and networks networks, that bounds are natural
numbers and capacities positive. The others are of the code: a ring's capacity divides
the range of its indices and its header can express the longest packet; pipes are
finitely many; the source of a replacement has a policy; the tasks of the budget are
finitely many and have one role each; a service that is not installed is not enabled.
TLC evaluates each assumption in the runs.

`PairHolds` has a hypothesis of its own: `Operations`, what others than the updater ask of
the helper, is without "install". An installation that somebody else asks for installs
the version of the AppImage it is started from, which the model, whose "install" brings
the update's version, does not know. The run's configuration has the same set.

Each module has the same form: an inductive invariant `IInv` whose parts are named
after what they say, a lemma per action (per family, where actions differ little), lemmas
for what the updates of a journal or a handler's record leave alone, and the theorems
from `IInv`. Every `IInv` was checked by TLC on the component's run before it was proved.

### The Agent

`DurablyCovered` is not inductive. A save replaces `disk` by `mem`, so memory has to
cover the host too (`Recorded`); a handler about to apply a step must know that its
intent is in both copies (`Intent`), one about to forget a step must know that the
effect is gone (`Gone`); `PublishClean` empties the journal, so at that label every
step must be restored; a handler that pushes steps must not work on a clean journal,
and the ones that create or retire the device must (`OnClean`). A removal that timed
out goes on outside the mutex, so it has its own part (`Retired`): while a worker
may run, the record says so, the journal is clean, and no handler that could use the
device is at work. `PolicyOutlivesPump` needs that recovery never counts the pump
among the failures it passes over (in `Gone`); `OwnerKeepsDevice` needs the part of
`Retired` on the attached flag.

The kill switch (`Guard`, on top of `IInv`): a journal in which a transaction goes
forward is believed, except at the labels after a restart before Windows was inspected;
there a policy that is recorded as applied is in the host (`PolicyHolds`). Before the
commit routes exist only behind an applied policy, or without one only inside a commit,
which recovers if it fails (`RoutesLast`); `Committing` says what the commit has still
to apply, so that it cannot finish without the policy. The first form of the property
also claimed the policy for a live tunnel that is just becoming a chain; the proof of
`BeginChainTransition` failed, and a plan without Kill Switch showed why: section 2,
`PolicyDue`.

`JournalsAreValid` carries `ValidJournal` of memory and disk over every update of
either, and needs what a handler knows of the journal's kind and account at its label
(`Known`). In `LaterLeasesDisarm` a watchdog that a later lease superseded has an epoch
before the current one; a lease is taken in a new epoch, except by a Prepare, whose
operation is fresh and in no watchdog (`Disarmed`).

### The replacement

`Sound` holds of the journal in memory and of the file: it is valid, the guard's
exclusions cover exactly what all plans in `through` leave out, and without a guard
in the filter either a lasting policy is installed or the tunnel is a committed target
that asks for none (`Held`); the startup's failed inspection keeps that, because it
changes nothing but the phase. `Ahead` says that
memory is never behind the file, `Knows` and `Doing` what a handler relies on at its
label. `GuardGoesToTarget` is the part of `Doing` about a commit at its release: file
and memory agree, and the target has routes, packet session and policy. The lemma on
`intersect_exclusions` needs that among the networks that contain a given one there
is a shortest; it comes from the well-foundedness of the naturals. An earlier
`ExactlyShared` compared the exclusions with source and target only; for a
replacement of a replacement that is not what the code computes, hence `through`.

### Supervisor and egress

`SupervisorIsExact` (`SupervisorInv`): an operation is begun once and one that failed stays
failed until it is gone (`BegunOnce`), so what the task remembers across its sleep cannot come back to
life; the runtime follows the journal whenever no request holds the gate (`Watched`),
with two exceptions, an attempt that cleaned the journal and is not yet published
(`Unpublished`) and one that was published as a failure (`Left`, section 6); attempts made
are at most attempts counted, plus the one under way (`Counted`).

Egress: a permit is of the network seen last, or somebody is about to revoke it
(`Fresh`, with `Superseded`); a handler between insertion and recheck holds both locks
(`Holding`); a registry entry counts at least the pipes that hold or are about to get
its lease (`Referenced`, on the cardinality of `Holders`). `Once` says that an operation
is answered once, so that a lease of an earlier one never gets a permit back.

### Ring and pump

`NoOverwrite` needs `RingInv`: the index a side has loaded may be old, but the other
side only moves it in its favour, so the space computed from it is a lower bound of
the space there is. Two lemmas on wrapping addition carry the argument over the wrap.

`NoFalseCorruption` and `RingIsQueue` are about the bytes and need `ByteInv`. `Framed`
says that the published bytes are records without a gap: there is a set `S` of
distances to the head at which records start, which contains the tail and the head,
and the record at each of them ends at the next one. `WholeRecords` adds that the head
the consumer loaded was such an end, which is why a length it reads never reaches
past what it saw, however many records were published since. `Writing` says what the
producer's copies have left behind the head, `Reading` that what the consumer has
copied is still the oldest record. One lemma per action shows that `ByteInv` is kept
and that the step is an `Accept`, a `Take` or nothing to the queue (`QueueStep`).

The lemmas under it say what the operators compute for every input. Offsets that
differ by less than the capacity are of different cells, also over the wrap of an index,
because the capacity divides the modulus (`CellOfSum`, `CellsDiffer`); so a read finds
what was written there, and a copy behind the head leaves every record alone
(`ReadBack`, `ReadElsewhere`, `WriteKeepsFrame`). The length comes back from its header
(`HeaderReadsBack`): the first `i` digits are the length modulo `Weight[i]`. `Weight`,
the sum of the digits and `Decoded` are recursive functions; `Recursion` and
`ChainExists` show that they exist. These inductions, and the one over the records of
a frame (`Recordwise`), are claims on the *set* of numbers for which a fact holds, from
a least counterexample (`LeastNumber`), since an induction theorem whose parameter is
an operator is out of the provers' reach.

`NobodyStranded` is a part of `IInv` as it stands: for each direction it lists who is
awake, signalled or about to signal when a packet waits. `DownloadIsLossless` needs that the
packets in the ring are numbered without a gap (`Numbered`) and that the one that
waits is the next (`Waiting`).

### The Engine

Everything rests on `Lock`: a critical section is entered by the head of the mutex's
queue only, who is in it once. `Leased` ties the provider lease to the places of its
holders; `Owned` says that a start found the owner queue empty and the cleanup
task collected, and that both stay so; `Phased` what is shown at which place; `Flags`
that only the front owner can have failed. `Overtaken` is about a teardown that has
decided to go on: if the task publishes Disconnected meanwhile, no owner is left, so
that a refusal leaves nothing behind. A failed cleanup is shown, or somebody who
holds or awaits the lock will look again (`Visible`). `StopsAreFinal` needs that a
Disconnect that completed left nobody inside the lock (`Final`) and that its
cancellation keeps the intent withdrawn meanwhile (`Withdrawn`).

### Identities

An identity is drawn once (`Drawn`), bound to one account, and its records are in the
slot of that account or in the backup that the configuration names for it. Since a save
may be reported failed and still be visible, three configurations can differ: the
Engine's copy, the file, and the copy a replacement has read and will save (`h.base`).
What is known of a configuration is therefore stated with the accounts X it may be wrong
about: `torn` for the copy, `Exempt` (`torn` and the accounts of which the file claims
more) for the file.

- `Sound(c)`: c is valid, names only what was drawn, and no identity bound to one
  account is bound to another or recorded in its slot or its backup; of every account.
- `Fits(c, X)`: outside X, an account without a pending replacement has the records of
  its binding, one with a pending replacement has them in the backup or had none, and
  they are in no slot whose reaping would give up the licence.
- `Agree(c, d, X)`: what only one of two configurations lists is empty. This is why a
  reset that forgets one of them leaves nothing behind, and why the copy may take over
  the file (`Start`, `SaveSettings`).
- `Knows(c, X, h)`: what the handler relies on in the copy *and* in the file, because
  either may be the next copy: a new backup is named by neither, an account being rolled
  back is pending in both, what is left to clear covers both.

The rest says how far the handler has come: `Progress` (records written or wiped so far),
`Staging` (`h.base` is sound and the backup equals the account's records), `Recorded`
(after a successful save and until the next one, copy and file are equal), `Replacing`,
`Creating`, `Recovering` and `Reaping` (what is in flight and what is finished). A save
is one lemma (`SaveKept`): if the configuration to be saved is `Savable`, that is sound,
fitting and in agreement with the copy, `Kept` holds after each of the three outcomes;
every action that saves shows `Savable` and what its handler knows afterwards.

### The races

A batch: a connection that is established is the result of a task that is still to be
joined, or the winner's (`Connected`); when the owner answers it has joined every task,
and its answer says what is left open (`Answered`). For what is reported, `Kept` says
that the failure of every joined task is covered by one that the loops keep, and
which loop can have met it; the verdict compares the two. The strict and the
generation batch differ in one operator, so each action has one lemma for both. In the
automatic race an open socket belongs to a task until the owner is done, and every
permit is free or with the task that holds it (`Owned`, on the cardinality of
`Holders`); `Evidence` ties the worst failure kept to the set of those seen.

### The budget

When nothing is under way the books balance; on the way they do not, and `BudgetInv`
says by how much: blocks are also in the hands of threads that return them or part of
a margin that is only tested (`BlocksAdd`), and counters lead what they count
(`CountersLead`). `Emptied` and `Starved` say who will still look: at the queue of a
closed pool, and for a consumer whose attempt failed. A lost wake-up is impossible
since a consumer that tries again is registered first (`Registered`), and `Starved`
compares its needs with all that is free once the margins of others are back. The
blocks in leases are a sum over a set, which the library defines by a recursive function:
`FoldExists` shows that there is one, `FoldChanges` how it follows one lease. Both are
inductions over the size of the set, written as a claim on the *set* of numbers for
which the fact holds (`Inductive`, from a least counterexample).

### The update

A helper's program is a sequence that shrinks from the front, so the invariant has
two kinds of parts. `Ledger` is about the disk: a journal that is not decided, the
visible one and the one a power loss leaves, covers the files (`Covers`): each change it
names has a file of the prior or the candidate version and a backup, every other
file is as before, or an administrator has edited it. `Control` says what
every phase relies on. The program that is left has the shape of its phase
(`Working`, `Undoing`, `Restoring`, `Sealing`), stated of each position and the ones
behind it, so that the rest of a program has the shape of the whole (a lemma per shape);
the shapes of `Program`, `UndoProgram` and `RestoreProgram` are proved from those of
their blocks. The instruction in front then knows what must have happened: a "put"
comes when its intent is noted and durable (`Begun`), a file that is not yet its target
has a "put" to come (`Aiming`), one that is not yet restored has its "restore" to come
(`RestoreInv`), and nothing but the end of a program follows a decision (`Deciding`).
`Reported` is `ReportIsDurable` with the phase of an exit code: it is part of the
invariant because an exit code outlives its helper while power losses go on, and
survives them since the visible and the durable files are the same then.

`KnownFilesHold` is of steps: the only step that starts a service is the instruction
"start", at which `Control` knows the files, and the only step of recovery that
changes a file is "restore", whose guard compares it with both versions.

`PairHolds` needs `PairInv` on top. `Parties` says what the updater has confirmed when a
helper of its own runs. `Returning` lists the states from which the AppImage of before
may still come back; in all of them the Agent is not the newer one, nor is any version
that recovery could bring (`AgentIn`). What made it hard is the updater that waits:
until the helper's outcome is known it is `Returning` only once the work has failed.
`PairInv` was checked with two updates as well, which the run does not have.

### Only model-checked

All invariants and action properties of the runs are proved. What stays with TLC:

- Liveness (`ConnectEnds` and the other properties with `~>` or `<>`): outside
  this prover, which knows neither fairness nor `ENABLED`.
- That runs reach what they claim: TLC fires every action, a proof does not.

## 5. Not modelled

In the Windows Agent: the per-tunnel Wintun step and the Paused phase, which only
journals of older versions contain; the service start mode; the dynamic control
permits of the guard. Inside native calls nothing is modelled: that a WFP filter
blocks what it should is not a question for a state machine.

Most of the repository's lines are protocol encoding, TLS and QUIC on top of vendored
libraries, socket I/O, parsing, provider APIs, presentation and tests: `netstack.rs`,
`socks5.rs`, `split_dns.rs`, `h3.rs`, the WireGuard, OpenVPN and Proton exits, the
Android surface, registration and geo data, the GUI, packaging and third-party code.
A state machine of theirs would be a transliteration. Components that have one and
are not modelled yet are in the plan; `PROJECT.json` lists them all.

## 6. Disagreements met while modelling

Where the code does not do what a comment or a document of the repository says, the
property of the run is stated so that it holds of the code, and the exception is
named here.

- **Shutdown of the recovery supervisor** (`windows/server.rs:523`). The loop reads
  `stopping` before it creates its `Notified` future (527). `begin_shutdown` (349)
  notifies only registered waiters; when it runs between the two lines and no recovery
  is waiting, the service waits for the task for ever. 506 says "The caller must keep
  this future alive until it returns after `begin_shutdown`". `RecoveryIsDecided` makes
  no claim once the service stops.
- **A finished recovery shown as blocked** (`coordinator.rs:1788`). Recovery publishes
  the clean journal and then retires the device; if that fails, the attempt returns an
  error, and `windows/server.rs:658` takes the clean journal for one that somebody else
  changed ("the journal transaction changed", 664): the status stays Blocked, with the
  operation that is gone, until the next request is over. `FailedIsWatched` exempts
  exactly that (`Leftover`).
- **Late clear of egress permits** (`windows/server.rs:1581`). `Recover`, and likewise
  `Prepare`, clears the registry after it left the gate; a permit that another pipe
  acquired meanwhile goes with it, though 216-217 says of the same race "Never revoke
  that newer authorization". `LeaseHasPermit` exempts exactly those keys (`dropped`).
- **Startup gives up the guard's repair** (`coordinator.rs:445`). A commit has removed
  the guard and the process ends before the completion is saved; the target is a chain
  without kill switch, whose filters go with the process. If the inspection at the next
  startup fails, the phase becomes RecoveryRequired, and both repairs of the guard
  (`replacement.rs:153` and `260`) ask for Active: only an abort is left, and until then
  no filter is installed, although 258-259 says "Reinstall it before rebuilding a
  detached target". `NeverExposed` exempts the committed target without kill switch
  also in that phase.
- **Admission margin** (`l4/stream.rs:90`). The margin is taken and given back without
  a wake-up; a writer that tried in between sleeps although the margin is free, until
  some lease is dropped. `NobodySleepsOnCapacity` exempts the margin.
- **Update recovery that cannot be retried** (`usque-update/src/linux.rs:336` and
  `linux/transaction.rs:413`). `start_previous` runs `--recover-state`, which needs the
  lock of a service that may be running again after an interrupted recovery or a
  reboot; and a disabled service that is being removed has its unit disabled after the
  unit file is gone. Both fail on every retry, although `linux.rs:657` says "retained
  data permits retry". No run claims that every transaction is resolved.
- **Saves whose commit is uncertain** (`usque-engine/src/lib.rs:4289` and `4309`). Only
  the first-run operation and the settings (`network_settings.rs:181`) look at what an
  uncertain save has left; the identity transactions take it for one that changed
  nothing. After an uncertain first save of a replacement the backup is deleted, which
  the file names: a start or a save of settings before the next identity transaction
  makes that the Engine's copy, the account can neither be recovered, replaced again nor
  deleted, and only `clear_all_data` gets it out. After an uncertain commit, and a save
  of settings before the rollback has ended, the account has its previous records and
  the binding of the new registration. Until then the next save repairs either.
  `BackupIsWhole`, `VaultMatchesFile` and `StartRecovers` speak of the Engine's copy, and
  `BackupIsWhole` of the file too unless it is `Ahead`; all three exempt the accounts
  whose failed save was taken over (`torn`), and nothing else.
- **Aborted creations** (`lib.rs:3758`) are forgotten even if the vault could not
  delete their records, and **`clear_all_data`** (`lib.rs:3215`) does not enumerate
  pending creations. Records stay in the vault and nothing lists them;
  `ClearedIsEmpty` speaks of what is listed.
- **Disconnect and exit are refused** (`lib.rs:2945`, `lib.rs:833`). Both take the
  provider lease, which a request that they have just cancelled, or one that waits
  behind them, may still hold: the Disconnect fails and a live session stays live, the
  exit goes on without disconnecting. 826-827 says that shutdown waits "for privileged
  platform state to be restored". `StoppedIsFinal` speaks of a Disconnect that
  completed.
- **Recovery monitor** (`lib.rs:1947`). As in the supervisor, the stop flag is read
  before the notification is registered, and the exit waits for the monitor.
- **Stale watch** (`lib.rs:1772`). A new intent inherits the pending watch; if its
  Connect finds the Agent clean, the session is live and watched, and the monitor may
  mark it failed or reconnect it.
- **Intent cleared too early** (`lib.rs:2937`). A Disconnect clears the intent before
  it waits for the lock; a Connect accepted in between may leave a watch behind, which
  connects later.
- **Transitions that are refused** (`lib.rs:3001` and `lib.rs:2481`). The cleanup task
  may confirm the last owner after a teardown has read its phase: Disconnected to
  Disconnecting is refused (`state.rs:411`), and the Retry or Disconnect that found
  nothing left to do fails. A start over HTTP/2 that was cancelled leaves its phase
  behind; a Connect that asks for HTTP/3 next is refused (`state.rs:420`), until a
  Disconnect or Retry has reset it. `LegalTransitions` names both exceptions, and that
  neither leaves a runtime or a session behind.
- **Cleanup error overwritten** (`lib.rs:3022`). A Retry that a Disconnect or exit
  cancelled midway ends in Disconnected although the cleanup task has reported an
  error and keeps the owner. `CleanupVisible` excludes a cancelled token whose
  Disconnect has not completed.

## 7. Plan

1. `MigrationPath` with the transmit barrier and PMTU: late validation, draining paths.
2. The MASQUE runtime and the packet mux on top of `MasqueConnect`: generations and
   queues in flight.
3. The continuous worker and in-place retry in `EngineConnection`; the liveness of its
   watches, which needs a smaller instance.
4. The Linux Agent's coordinator; compare-and-set of scenarios; the L4 session; the
   idle exit of the Agent.
