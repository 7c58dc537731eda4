# KDIVE: TLA+ models, checks and proofs

KDIVE lets agents reserve hosts, boot virtual systems on them, build and run
kernels there and debug them. Its state is a set of Postgres rows with explicit
state machines. This directory models that state and the processes that change
it, checks the models with TLC on small instances, and proves the main safety
properties with TLAPS for all instances.

Paths below are relative to `src/src/kdive/` unless they start with `docs/`.

## 1. The system and its parts

Three kinds of process share one database, one object store and the libvirt hosts:

- the **server** runs the MCP tools: each tool call checks, writes rows and often
  enqueues a job;
- the **workers** claim jobs from the `jobs` table and run handlers that call a
  provider (libvirt, build host) and then commit the result;
- the **reconciler** makes a pass every 30 s and repairs what crashes, lapsed
  leases and lost calls leave behind.

Two facts about the database shape every model:

- **Advisory transaction locks**, in the order PROJECT, RESOURCE, ALLOCATION,
  SYSTEM, INVESTIGATION, RUN, BUILD_HOST, serialize the read-decide-write sections.
  Isolation is READ COMMITTED, so what is read outside a lock may be stale.
- **Pool connections are not in autocommit mode.** A bare SELECT opens a
  transaction, and each later `conn.transaction()` block is only a savepoint of it.
  Its locks stay held and its writes stay uncommitted until the connection is
  returned; if the handler raises, all of it is rolled back.

| part | sources | modelled by |
|---|---|---|
| state tables | `domain/state.py` | `StateTables`, `Lifecycle` |
| job queue, workers, abandoned-job sweep | `jobs/queue.py`, `jobs/worker.py`, `reconciler/jobs.py` | `JobQueue` |
| admission, placement, promotion, release, renewal, expiry, ledger, idempotency | `services/allocation/`, `services/accounting/ledger.py`, `reconciler/allocations.py` | `Allocation` |
| Systems, their handlers, orphan and leak repair, force_crash, power, boot | `services/systems/`, `jobs/handlers/systems.py`, `jobs/handlers/control.py`, `boot_handler` of `jobs/handlers/runs.py`, `providers/local_libvirt/lifecycle/`, `reconciler/systems.py`, `reconciler/provider_reaping.py` | `SystemLifecycle` |
| Runs (but for install and boot's hold on the domain), steps, build hosts, vmcore, investigations | `mcp/tools/lifecycle/runs/`, `jobs/handlers/runs.py`, `db/build_hosts.py` | planned: `Runs` |
| images, uploads | `services/images/`, `reconciler/images.py`, `reconciler/uploads.py` | planned: `Images` |
| debug sessions, console hosting | `mcp/tools/debug/`, `reconciler/debug_sessions.py`, `providers/console_hosting.py` | planned: `DebugSessions` |
| inventory, runtime resources | `inventory/`, `reconciler/runtime_resources.py` | planned: `Inventory` |

`PROJECT.json` lists every part with its status, the source lines of every
definition, and the hazards of the code with the properties that cover them.

## 2. Modules

### StateTables and Lifecycle

`StateTables` holds the state sets and edges of `domain/state.py`. `Lifecycle` is
the abstract specification: a row appears in a creation state and then moves only
along table edges. Most SQL in the repository writes `state` without calling
`ensure_transition`, so that the code implements `Lifecycle` is a real question.
Each detailed module asks it through `INSTANCE Lifecycle WITH ...`.

### JobQueue

State: the columns of a job row (`jstate`, `attempt`, `owner`, `lease`), the pause
flag, and per worker its place in `run_once`, the claimed row and the attempt in its
snapshot. Every function of `queue.py` is one committed UPDATE, hence one action:
`Enqueue`, `Dequeue`, `Heartbeat`, `Complete`, `Fail`. `Lost` is a process that dies
or a handler cut off; `HeartbeatError` ends the renewing task while the handler goes
on, which is how a job gets two live workers. The sweep is two steps, `SweepSelect`
and `SweepOne`, because the code selects in one transaction and updates in others.
The sweep's update of the job's Run is left to the Run module.

### Allocation

State: the allocation row, the ledger sums per allocation, the project totals, the
idempotency store, cordons, the holders of PROJECT and RESOURCE locks, each
`allocations.request` in flight, and the promotion pass.

`allocations.request` is five steps (`Place`, `LockProject`, `LockHost`, a gate,
a write) because its reads, locks and write are apart. The promotion pass is many
steps within one transaction: it collects `planned` grants and `doomed` rows,
keeps every lock, and publishes all at `PromoteCommit` or nothing at
`PromoteAbort`. `PromoteError` rolls one candidate back to its savepoint.
Release, renewal, and the locked half of each sweep take PROJECT and commit, so each
is one action guarded by the lock being free.

Abstractions: a request has one price per lease window; sizes and shapes appear as
whether the request matches a host; a billed interval costs any member of `Costs`.
Caps, quotas and limits are constants, so the tools that change them are not covered.

### SystemLifecycle

State: the Allocation's phase, the System row, its libvirt domain, one job per
dedup key, the workers, and the leaked-domain pass. A handler is read, provider call,
commit, since the provider call holds no lock. A raise undoes the rows but not the
domain. `Reprovision` looks at the System only, as the code does. `CheckDomain` and
`DestroyLeaked` are apart because the SYSTEM lock is released in between.

Two more jobs stop and start a domain without moving the System's row, so they are
part of what "ready" is worth:

- `control.power`: `Power` enqueues, `ReadPower` and `ApplyPower` or `PowerRefused`
  run it. The tool asks for a ready or crashed System, the handler no longer looks.
  `Ons`, `Offs` and `Restarts` (reset, cycle) are the calls, each its own job.
- A Run: `run` is how far it has come. `CreateRun` folds creation and build, which
  ask for a ready System once. `StageRun` and `InstallRun` are the install's read of
  the domain XML and its redefinition, which brings an undefined domain back. `Boot`
  enqueues; `ReadBoot` claims the step, `StopGuest` and `CreateGuest` are the two
  halves of `_power_cycle`, `RecordBoot` commits the step. The claim is an insert of
  the handler's open transaction, so a second worker of the same boot waits in
  `ReadBoot` until the first one's transaction ends.

`Uploads` are the Systems with an upload-kind rootfs: they start as `defined`, and
only their provision can raise in its last transaction. The provider modelled is
local libvirt.

The job queue appears here in reduced form (a claim, a lease that may lapse, an
attempt count, a sweep). `JobQueue` justifies the reduction: there it is shown that
a stale worker cannot finalize a job. `EndAllocation` stands for any step of
`Allocation` that ends one.

### MC modules

`MCJobQueue`, `MCAllocation` and `MCSystemLifecycle` declare the model values and
the small functions that the `.cfg` files assign to constants.

## 3. Runs

| run | what it asks | result |
|---|---|---|
| `job_queue` | fence, no stranded row, only the claimant finalizes, the table, every job ends | holds |
| `job_sweep_stale` | a swept job is a zombie when swept (ADR-0021) | violated |
| `allocation` | quota, backlog, ledger sum, one settlement, the table | holds |
| `allocation_keys` | host cap, one row per key, only lapsed leases expire | holds |
| `allocation_devices` | one PCIe device, two free slots: never two holders | holds |
| `allocation_pass` | budget, queued rows resolved, lapsed leases reclaimed | holds |
| `allocation_inversion` | admission and promotion never wait for each other | violated |
| `system_lifecycle` | ready means running, live domains spared, the table, torn-down domains vanish, orphans are handled | holds |
| `system_power` | ready means running and live domains spared, with power-off and boot | holds |
| `system_reaped` | torn-down domains vanish, with late installs, boots and power-ons | holds |
| `system_orphan_stuck` | an orphaned System is torn down (ADR-0025) | violated |
| `system_failure_lost` | a dead-lettered provision leaves its System failed (ADR-0025) | violated |

Deadlock is checked except in the System runs: there the system may really stop,
once its System is torn down and its jobs are finished.

### Bounds

- Jobs: two jobs, two workers, two attempts. Two workers are what a stale claim and
  its successor need; two attempts give a first, a last and a boundary; a second job,
  of a kind with no handler, gives the terminal failure.
- Allocations: two requests of one project contend for a quota, and a request of
  another project contends with them for a host; these are all the pairs the two locks
  tell apart. A second host with no free slot lets both requests of a project wait, so
  that they contend for the queue as well. Requests of one project are symmetric where no liveness is checked.
  `MaxReserved` bounds the reservations of an Allocation, which renewals otherwise
  make without limit: two in `allocation_keys`, so that a lease is renewed there, and
  one in the other runs, which have no renewals.
- Systems: one System (no action relates two but the quota count), two attempts.
  `MaxFaults` bounds provider errors, deaths, lapses and cancels together to one, and
  to two in `system_failure_lost`, where both attempts must fail; the proofs hold for
  any number. `system_lifecycle` has two workers and one reprovision profile.
  `system_power` has two workers, one power-off and one Run, with symmetric workers.
  `system_reaped` checks liveness and has one worker, one power-on, one reset and one
  Run; the late steps it is about come from jobs enqueued before the teardown.
- Idempotency: one key and one slot, contested by requests of different projects,
  which no PROJECT lock serializes.
- PCIe: three requests, two slots, one device. A slot is free when the device is
  taken, so that only the device check keeps the second request out, and a pass finds
  the device free in the table but planned by itself.

### Fairness

- `JobQueue`: some worker keeps polling, handlers return or raise, a live worker
  goes on to finalize, a lease nobody renews lapses, the reconciler keeps sweeping.
  `Dequeue` and `SweepOne` are strongly fair because they are disabled now and then
  by other workers and by aborted passes. `EveryJobEnds` is conditional on the queue
  not staying paused.
- `Allocation`: calls and passes that are not blocked go on and sweeps repeat.
  Steps that wait for a lock are strongly fair, since Postgres grants advisory locks
  in arrival order, and its deadlock detector aborts one party of a cycle.
- `SystemLifecycle`: weak fairness of the union of worker, queue and reconciler
  steps. Nothing is assumed of tools, cancels, crashes or provider errors.

## 4. Where code and documents disagree

1. **Promotion against the lock order** (`allocation_inversion`).
   `services/allocation/admission.py:255` says admission and the sweep "never invert
   against each other". The pass's first SELECT opens the connection's transaction,
   so the first candidate's RESOURCE lock is still held when the second candidate's
   PROJECT lock is requested. A request that holds that PROJECT lock and wants that
   RESOURCE lock completes a cycle, which Postgres breaks by aborting one side.
2. **Sweep of a renewed job** (`job_sweep_stale`). ADR-0021 says a job is swept iff
   it is running, lapsed and out of attempts. The UPDATE re-checks `running` only.
3. **Orphan that is never torn down** (`system_orphan_stuck`). ADR-0025 says the
   reconciler tears down an orphaned System. If it was reprovisioned before the
   teardown ran, the teardown raises until it is dead-lettered, and its dedup key
   prevents another. No fault is needed.

4. **Provision failure that is not recorded** (`system_failure_lost`). ADR-0025 says
   that on a provider failure the System moves to `failed` and the job dead-letters.
   `_record_system_failure` writes in a savepoint of the transaction the handler's
   first SELECT opened; the handler then re-raises, the worker's connection block
   rolls back, and the System stays `provisioning` with its only provision job dead.
   The unit test sees `failed` because it catches the exception inside the block.

`OrphansAreHandled` states what is left of the third: the teardown job ends, if
not with a torn-down System.

## 5. Proofs

All theorems hold for every value of the constants that satisfies the named ASSUMEs
(caps are naturals, `None` is no real object, sets of requests and Systems are
finite, at least one attempt). TLC evaluates the ASSUMEs in the runs.

**JobQueueProofs.** `FenceIdentifiesClaim` is not inductive alone. `IInv` adds
`ClaimsAreCharged`: a busy worker's attempt was charged to its row. Since a claim
increments the row's attempt, a new claim then differs from all older ones. Whether
`Fail` requeues is decided on the worker's snapshot, so `NoStrandedJob` needs the
fence in turn. From `IInv` follow `OnlyTheClaimantFinalizes` and the refinement of
`Lifecycle`.

**AllocationTypes, Locks, Caps, Writes, Proofs.** The caps rest on two layers.
`Locks` says who holds what: a request past `LockProject` holds its PROJECT lock,
one past `LockHost` its RESOURCE lock, and the pass holds both for everything it
planned. `Caps` counts a slot as taken once the pass has planned it, and adds that a
request past the gate still has room. The committed count alone is not inductive,
because the gate and the write are separate steps. `AllocationTypes` and
`AllocationLocks` prove `Locks`; `AllocationCaps` proves that most steps take nothing;
`AllocationWrites` covers gates and writes; `AllocationProofs` covers the pass and
states the theorems.

**SystemProofs.** `ReadyIsRunning` says that a ready System whose domain is down had
a reprovision, a power-off or a boot begun on it. Call a System *undisturbed* when
none was. `SysInv` adds what workers and the reaper may still do to it:
`DestroyersSawTheEnd`, a worker about to destroy saw a terminal state and the
reaper's candidate is torn down; `StartedMeansRunning`, a worker about to commit the
provision of an undisturbed System that has not ended has its domain running;
`NothingBeforeTheRow` and `WorkersRunRealJobs`, jobs, Runs and domains presuppose the
row, and a worker's job was claimed. The absorbing terminal states of the table make
the first stable. For each variable one lemma (`RowWriters`, `DomainWriters`,
`RunWriters`, `ReapingWriters`) lists the steps that write it; each conjunct of
`SysInv` then needs only those. `LiveDomainsAreSpared` and the refinement of
`Lifecycle` follow.

**Only model-checked:** all liveness properties; the ledger properties
`SpendIsLedgerSum` and `SettledExactlyOnce` (the first is a sum over a set);
`NoSharedDevice`, `OneRowPerKey`, `OnlyLapsedLeasesExpire`, `ReserveWithinBudget`,
`FollowsAllocationTable`.

## 6. Not modelled

- Provider internals, build transports, debugger protocols, object-store client:
  I/O. What they may do to the modelled state (succeed, fail, be cut off) is modelled.
- Authorization, audit, telemetry, diagnostics, CLI, configuration: they change no
  state that another modelled step reads.
- Changes of quota, budget, host capacity and prices while the system runs.
- A guest that halts, panics or is stopped by hand: `domain` is what KDIVE's own
  steps make of it, and `ReadyIsRunning` is about those. A restart of the host.
- Remote libvirt. It registers no leaked-domain reaper (`providers/composition.py`),
  so `TornDownDomainsVanish` is not claimed for it.
- A database session lost under a running boot, which would release its step claim
  while the provider call goes on; an install retried after a lost attempt.
- The egress-probe sweep.
- Decimal arithmetic of prices.

## 7. Plan

1. `Runs`: the Run's own states, build, cancel, the step ledger, the build-host lease with
   its reclaim, the sweep's Run compensation, vmcore capture, investigations.
   Questions: host capacity with a superseded worker, a Run that always ends, one
   live Run per System, a step's side effect run once.
2. `DebugSessions`: attach, end, dead-session repair, transport reset, force_crash
   detach, console leadership. Questions: one live session per transport, a reset
   never hits a live session, a session with a live user survives.
3. `Images`: publish, the three sweeps, private quota, upload manifests and
   reassembly. Questions: a registered row has its object, no object of a live row is
   deleted, leaks are collected.
4. `Inventory`: reconcile pass, prune or cordon, runtime registration and reap,
   deregister. Questions: no host deleted under an Allocation, a departed host is
   eventually pruned or cordoned.
5. Proofs: `SettledExactlyOnce`, `NoSharedDevice`, `OnlyLapsedLeasesExpire`,
   `OneRowPerKey` and the Allocation refinement; one theorem module for the new
   components.
