-------------------------- MODULE SystemLifecycle --------------------------
(***************************************************************************)
(* Systems and their libvirt domains: the tools that create a System and   *)
(* enqueue its jobs (services/systems/admission.py, mcp/tools/lifecycle/    *)
(* systems/admin.py, control.py), the worker handlers that run them         *)
(* (jobs/handlers/systems.py, control.py), the two other jobs that stop and *)
(* start a domain, control.power and runs.boot (jobs/handlers/runs.py), and *)
(* the reconciler's two repairs: teardown of Systems whose Allocation is    *)
(* gone, and destruction of domains whose System is gone.                   *)
(*                                                                          *)
(* A handler is several steps because the provider call between its reads   *)
(* and its write runs with no lock held: a teardown, a second worker that   *)
(* reclaimed the job, or the reconciler may act in between.  Each step that *)
(* reads and writes rows does so under the SYSTEM lock or one row lock, so  *)
(* it is one action.  A handler that raises rolls back everything since its *)
(* first bare SELECT; what it did to the domain stays done.                 *)
(***************************************************************************)
EXTENDS Naturals, FiniteSets, StateTables

CONSTANTS Systems,      \* one per Allocation
          Workers, None,
          Digests,      \* profiles a System may be reprovisioned to
          Uploads,      \* Systems whose profile has an upload-kind rootfs
          Ons, Offs, Restarts, \* calls of control.power: on, off, reset or cycle
          Runs,         \* Runs that may be built, installed and booted on a System
          MaxAttempts,  \* jobs.max_attempts
          MaxSystems,   \* quotas.max_concurrent_systems of their project
          Cancellable,  \* job kinds an operator may cancel in this instance
          MaxFaults     \* bound: provider errors, crashes, missed leases and cancels

PowerCalls == Ons \cup Offs \cup Restarts
SystemKinds == {"provision", "teardown", "force_crash"}
Kinds == SystemKinds \cup Digests \cup PowerCalls \cup Runs
Jobs == Systems \X Kinds   \* one job per dedup_key

ASSUME WorkerAssumption == None \notin Workers /\ None \notin Jobs /\ IsFiniteSet(Systems)
ASSUME KindAssumption ==
    /\ SystemKinds \cap (Digests \cup PowerCalls \cup Runs) = {}
    /\ Digests \cap (PowerCalls \cup Runs) = {} /\ PowerCalls \cap Runs = {}
    /\ Ons \cap (Offs \cup Restarts) = {} /\ Offs \cap Restarts = {}
ASSUME BoundAssumption == MaxAttempts \in Nat \ {0} /\ MaxSystems \in Nat /\ MaxFaults \in Nat

VARIABLES
    alloc,    \* "granted", "active" or "ended" (released, expired or failed)
    sys,      \* systems.state, "absent" before the row exists
    domain,   \* the libvirt domain: "absent", "defined" (not started) or "running"
    jstate, attempt,
    owner,    \* jobs.worker_id, which matters only while the job runs
    lapsed,   \* running jobs whose lease has run out
    at, doing,      \* each worker's step and job
    run,            \* a Run's place: "absent", "built", "staged", "installed", "booted"
    reaping,  \* the domain the leaked-domain pass has found leaked and is about to destroy
    faults    \* faults so far

jobVars == <<jstate, attempt, owner, lapsed>>
workerVars == <<at, doing>>
vars == <<alloc, sys, domain, jobVars, workerVars, run, reaping, faults>>

Init ==
    /\ alloc = [s \in Systems |-> "granted"]
    /\ sys = [s \in Systems |-> "absent"]
    /\ domain = [s \in Systems |-> "absent"]
    /\ jstate = [j \in Jobs |-> "absent"]
    /\ attempt = [j \in Jobs |-> 0]
    /\ owner = [j \in Jobs |-> None]
    /\ lapsed = {}
    /\ at = [w \in Workers |-> "idle"]
    /\ doing = [w \in Workers |-> None]
    /\ run = [x \in Systems \X Runs |-> "absent"]
    /\ reaping = {}
    /\ faults = 0

-----------------------------------------------------------------------------
(* The tools.                                                              *)

\* ON CONFLICT (dedup_key) DO NOTHING: a key used once never inserts again.
Enqueue(j) == jstate' = IF jstate[j] = "absent" THEN [jstate EXCEPT ![j] = "queued"] ELSE jstate

LiveSystems == {s \in Systems : sys[s] \notin SystemTerminal \cup {"absent"}}

WithinSystemQuota == Cardinality(LiveSystems) < MaxSystems

\* systems.define and systems.provision on a granted Allocation.  Only a defined
\* System has the window in which a rootfs is uploaded.
CreateSystem(s, state) ==
    /\ alloc[s] = "granted" /\ sys[s] = "absent"
    /\ s \in Uploads => state = "defined"
    /\ WithinSystemQuota
    /\ alloc' = [alloc EXCEPT ![s] = "active"]
    /\ sys' = [sys EXCEPT ![s] = state]
    /\ IF state = "provisioning" THEN Enqueue(<<s, "provision">>) ELSE UNCHANGED jstate
    /\ UNCHANGED <<domain, attempt, owner, lapsed, workerVars, run, reaping>>

\* systems.provision_defined; the Allocation must still be active.
ProvisionDefined(s) ==
    /\ sys[s] = "defined" /\ alloc[s] = "active"
    /\ sys' = [sys EXCEPT ![s] = "provisioning"]
    /\ Enqueue(<<s, "provision">>)
    /\ UNCHANGED <<alloc, domain, attempt, owner, lapsed, workerVars, run, reaping>>

\* systems.reprovision looks at the System only: its Allocation may have ended.
\* (It also refuses a System with a Run not built yet; a built Run is no obstacle.)
Reprovision(s, d) ==
    /\ sys[s] = "ready"
    /\ sys' = [sys EXCEPT ![s] = "reprovisioning"]
    /\ Enqueue(<<s, d>>)
    /\ UNCHANGED <<alloc, domain, attempt, owner, lapsed, workerVars, run, reaping>>

\* systems.teardown and ops.force_teardown.
Teardown(s) ==
    /\ sys[s] \notin {"absent", "torn_down"}
    /\ jstate[<<s, "teardown">>] = "absent"
    /\ Enqueue(<<s, "teardown">>)
    /\ UNCHANGED <<alloc, sys, domain, attempt, owner, lapsed, workerVars, run, reaping>>

ForceCrash(s) ==
    /\ sys[s] = "ready"
    /\ jstate[<<s, "force_crash">>] = "absent"
    /\ Enqueue(<<s, "force_crash">>)
    /\ UNCHANGED <<alloc, sys, domain, attempt, owner, lapsed, workerVars, run, reaping>>

\* control.power: a dedup key of its own for every call.
Power(s, c) ==
    /\ sys[s] \in {"ready", "crashed"}
    /\ jstate[<<s, c>>] = "absent"
    /\ Enqueue(<<s, c>>)
    /\ UNCHANGED <<alloc, sys, domain, attempt, owner, lapsed, workerVars, run, reaping>>

\* runs.create on a ready System of an active Allocation, and the build, which
\* asks nothing of the System.
CreateRun(s, r) ==
    /\ run[<<s, r>>] = "absent"
    /\ sys[s] = "ready" /\ alloc[s] = "active"
    /\ run' = [run EXCEPT ![<<s, r>>] = "built"]
    /\ UNCHANGED <<alloc, sys, domain, jobVars, workerVars, reaping>>

\* The install of a built Run reads the domain's XML, whatever its System's state.
StageRun(s, r) ==
    /\ run[<<s, r>>] = "built"
    /\ domain[s] # "absent"
    /\ run' = [run EXCEPT ![<<s, r>>] = "staged"]
    /\ UNCHANGED <<alloc, sys, domain, jobVars, workerVars, reaping>>

\* It then redefines the domain from what it read: the domain comes back if it was undefined meanwhile.
InstallRun(s, r) ==
    /\ run[<<s, r>>] = "staged"
    /\ run' = [run EXCEPT ![<<s, r>>] = "installed"]
    /\ domain' = IF domain[s] = "absent" THEN [domain EXCEPT ![s] = "defined"] ELSE domain
    /\ UNCHANGED <<alloc, sys, jobVars, workerVars, reaping>>

\* runs.boot looks at the Run only, not at its System.
Boot(s, r) ==
    /\ run[<<s, r>>] = "installed"
    /\ jstate[<<s, r>>] = "absent"
    /\ Enqueue(<<s, r>>)
    /\ UNCHANGED <<alloc, sys, domain, attempt, owner, lapsed, workerVars, run, reaping>>

\* The job leaves `running` (or `queued`).
Leave(j, state) ==
    /\ jstate' = [jstate EXCEPT ![j] = state]
    /\ owner' = [owner EXCEPT ![j] = None]
    /\ lapsed' = lapsed \ {j}

Cancel(j) ==
    /\ j[2] \in Cancellable
    /\ CanTransition(JobEdges, jstate[j], "canceled")
    /\ Leave(j, "canceled")
    /\ UNCHANGED <<alloc, sys, domain, attempt, workerVars, run, reaping>>

\* Release, expiry, or the reclaim of an active Allocation with no live System
\* (module Allocation).
EndAllocation(s) ==
    /\ alloc[s] # "ended"
    /\ alloc' = [alloc EXCEPT ![s] = "ended"]
    /\ UNCHANGED <<sys, domain, jobVars, workerVars, run, reaping>>

-----------------------------------------------------------------------------
(* The queue, as module JobQueue details it.                               *)

\* Mutant: the attempt bound is off by one.
ClaimableOneMore(j) ==
    /\ jstate[j] = "queued" \/ (jstate[j] = "running" /\ j \in lapsed)
    /\ attempt[j] <= MaxAttempts

Claimable(j) ==
    /\ jstate[j] = "queued" \/ (jstate[j] = "running" /\ j \in lapsed)
    /\ attempt[j] < MaxAttempts

Claim(w, j) ==
    /\ at[w] = "idle"
    /\ Claimable(j)
    /\ jstate' = [jstate EXCEPT ![j] = "running"]
    /\ attempt' = [attempt EXCEPT ![j] = @ + 1]
    /\ owner' = [owner EXCEPT ![j] = w]
    /\ lapsed' = lapsed \ {j}
    /\ at' = [at EXCEPT ![w] = "read"]
    /\ doing' = [doing EXCEPT ![w] = j]
    /\ UNCHANGED <<alloc, sys, domain, run, reaping>>

Owns(w, j) == jstate[j] = "running" /\ owner[j] = w

GoIdle(w) ==
    /\ at' = [at EXCEPT ![w] = "idle"]
    /\ doing' = [doing EXCEPT ![w] = None]

Complete(w) ==
    /\ at[w] = "done"
    /\ IF Owns(w, doing[w]) THEN Leave(doing[w], "succeeded") ELSE UNCHANGED <<jstate, owner, lapsed>>
    /\ GoIdle(w)
    /\ UNCHANGED <<alloc, sys, domain, attempt, run, reaping>>

Fail(w) ==
    /\ at[w] = "raised"
    /\ LET j == doing[w] IN
        IF Owns(w, j) THEN Leave(j, IF attempt[j] >= MaxAttempts THEN "failed" ELSE "queued")
        ELSE UNCHANGED <<jstate, owner, lapsed>>
    /\ GoIdle(w)
    /\ UNCHANGED <<alloc, sys, domain, attempt, run, reaping>>

\* The worker process dies; its open transaction is rolled back.
Crash(w) ==
    /\ at[w] # "idle"
    /\ GoIdle(w)
    /\ UNCHANGED <<alloc, sys, domain, jobVars, run, reaping>>

LeaseLapses(j) ==
    /\ jstate[j] = "running" /\ j \notin lapsed
    /\ lapsed' = lapsed \cup {j}
    /\ UNCHANGED <<alloc, sys, domain, jstate, attempt, owner, workerVars, run, reaping>>

Running(j) == \E w \in Workers : doing[w] = j

SweepZombie(j) ==
    /\ jstate[j] = "running" /\ j \in lapsed /\ attempt[j] >= MaxAttempts
    /\ Leave(j, "failed")
    /\ UNCHANGED <<alloc, sys, domain, attempt, workerVars, run, reaping>>

-----------------------------------------------------------------------------
(* The handlers.  S(w) is the System of the worker's job.                  *)

S(w) == doing[w][1]
Kind(w) == doing[w][2]

Goto(w, step) == at' = [at EXCEPT ![w] = step] /\ UNCHANGED doing

\* Mutant: a retry that finds the System past provisioning removes the domain.
ReadProvisionEager(w) ==
    /\ at[w] = "read" /\ Kind(w) = "provision"
    /\ Goto(w, IF sys[S(w)] = "provisioning" THEN "start" ELSE "destroy")
    /\ UNCHANGED <<alloc, sys, domain, jobVars, run, reaping>>

\* provision_handler up to the provider call: a retry finds the System already
\* up and returns, or finds it terminal and removes what an earlier try started.
ReadProvision(w) ==
    /\ at[w] = "read" /\ Kind(w) = "provision"
    /\ Goto(w, IF sys[S(w)] = "provisioning" THEN "start"
               ELSE IF sys[S(w)] \in SystemTerminal THEN "destroy" ELSE "done")
    /\ UNCHANGED <<alloc, sys, domain, jobVars, run, reaping>>

ReadReprovision(w) ==
    /\ at[w] = "read" /\ Kind(w) \in Digests
    /\ Goto(w, IF sys[S(w)] = "reprovisioning" THEN "wipe" ELSE "done")
    /\ UNCHANGED <<alloc, sys, domain, jobVars, run, reaping>>

\* reprovision destroys and undefines the old domain before it provisions.
Wipe(w) ==
    /\ at[w] = "wipe"
    /\ domain' = [domain EXCEPT ![S(w)] = "absent"]
    /\ Goto(w, "start")
    /\ UNCHANGED <<alloc, sys, jobVars, run, reaping>>

\* defineXML and create; "already running" is the wanted outcome.
StartDomain(w) ==
    /\ at[w] = "start"
    /\ domain' = [domain EXCEPT ![S(w)] = "running"]
    /\ Goto(w, "commit")
    /\ UNCHANGED <<alloc, sys, jobVars, run, reaping>>

\* The provider raises.  A failed create undefines the domain, or fails to; a
\* running domain is left alone.  _record_system_failure writes `failed` inside
\* a savepoint of the transaction the handler's first SELECT opened, and the
\* handler re-raises: the write is rolled back with it.
StartFails(w) ==
    /\ at[w] = "start"
    /\ \E left \in IF domain[S(w)] = "running" THEN {"running"}
                   ELSE {domain[S(w)], "absent", "defined"} :
        domain' = [domain EXCEPT ![S(w)] = left]
    /\ Goto(w, "raised")
    /\ UNCHANGED <<alloc, sys, jobVars, run, reaping>>

\* Mutant: the result is committed whatever the System's state has become.
CommitReadyBlind(w) ==
    /\ at[w] = "commit"
    /\ sys' = [sys EXCEPT ![S(w)] = "ready"]
    /\ Goto(w, "done")
    /\ UNCHANGED <<alloc, domain, jobVars, run, reaping>>

\* _commit_provision_result and reprovision_handler's last transaction: only the
\* state the job was admitted in moves to ready; a System torn down meanwhile
\* has its new domain destroyed again.
CommitReady(w) ==
    /\ at[w] = "commit"
    /\ LET s == S(w)
           from == IF Kind(w) = "provision" THEN "provisioning" ELSE "reprovisioning"
       IN /\ sys' = IF sys[s] = from THEN [sys EXCEPT ![s] = "ready"] ELSE sys
          /\ Goto(w, IF sys[s] \in SystemTerminal THEN "destroy" ELSE "done")
    /\ UNCHANGED <<alloc, domain, jobVars, run, reaping>>

\* An upload-kind rootfs that was never uploaded fails the final transaction.
CommitRaises(w) ==
    /\ at[w] = "commit" /\ Kind(w) = "provision" /\ sys[S(w)] = "provisioning"
    /\ S(w) \in Uploads
    /\ Goto(w, "raised")
    /\ UNCHANGED <<alloc, sys, domain, jobVars, run, reaping>>

\* teardown_handler's transaction; update_state raises IllegalTransition when the
\* table has no edge, as from `reprovisioning`.
TearDownRow(w) ==
    /\ at[w] = "read" /\ Kind(w) = "teardown"
    /\ LET s == S(w) IN
        IF sys[s] = "torn_down"
        THEN Goto(w, "destroy") /\ UNCHANGED sys
        ELSE IF CanTransition(SystemEdges, sys[s], "torn_down")
        THEN Goto(w, "destroy") /\ sys' = [sys EXCEPT ![s] = "torn_down"]
        ELSE Goto(w, "raised") /\ UNCHANGED sys
    /\ UNCHANGED <<alloc, domain, jobVars, run, reaping>>

\* provisioner.teardown: destroy and undefine, idempotent over an absent domain.
DestroyDomain(w) ==
    /\ at[w] = "destroy"
    /\ domain' = [domain EXCEPT ![S(w)] = "absent"]
    /\ Goto(w, "done")
    /\ UNCHANGED <<alloc, sys, jobVars, run, reaping>>

\* libvirt refuses, or the booted guest does not come up; a destroy and undefine
\* may fail half way, with the domain stopped.
ProviderFails(w) ==
    /\ at[w] \in {"wipe", "destroy", "inject", "power", "cycle", "create", "probe"}
    /\ domain' = domain \/ (at[w] \in {"wipe", "destroy"} /\ domain[S(w)] = "running"
                              /\ domain' = [domain EXCEPT ![S(w)] = "defined"])
    /\ Goto(w, "raised")
    /\ UNCHANGED <<alloc, sys, jobVars, run, reaping>>

\* force_crash_handler: a terminal System is a no-op.
ReadForceCrash(w) ==
    /\ at[w] = "read" /\ Kind(w) = "force_crash"
    /\ Goto(w, IF sys[S(w)] \in SystemTerminal THEN "done" ELSE "inject")
    /\ UNCHANGED <<alloc, sys, domain, jobVars, run, reaping>>

\* The controller crashes a running guest and raises for any other.
InjectCrash(w) ==
    /\ at[w] = "inject"
    /\ Goto(w, IF domain[S(w)] = "running" THEN "finalize" ELSE "raised")
    /\ UNCHANGED <<alloc, sys, domain, jobVars, run, reaping>>

FinalizeForceCrash(w) ==
    /\ at[w] = "finalize"
    /\ sys' = IF sys[S(w)] = "ready" THEN [sys EXCEPT ![S(w)] = "crashed"] ELSE sys
    /\ Goto(w, "done")
    /\ UNCHANGED <<alloc, domain, jobVars, run, reaping>>

ReadPower(w) ==
    /\ at[w] = "read" /\ Kind(w) \in PowerCalls
    /\ Goto(w, "power")
    /\ UNCHANGED <<alloc, sys, domain, jobVars, run, reaping>>

\* LocalLibvirtControl.power; "already in the target state" is success for on and
\* off.  No System state moves.
ApplyPower(w) ==
    /\ at[w] = "power" /\ domain[S(w)] # "absent"
    /\ Kind(w) \in Restarts => domain[S(w)] = "running"
    /\ domain' = [domain EXCEPT ![S(w)] = IF Kind(w) \in Offs THEN "defined" ELSE "running"]
    /\ Goto(w, "done")
    /\ UNCHANGED <<alloc, sys, jobVars, run, reaping>>

\* There is no domain, or a reset or reboot finds it off.
PowerRefused(w) ==
    /\ at[w] = "power"
    /\ domain[S(w)] = "absent" \/ (Kind(w) \in Restarts /\ domain[S(w)] = "defined")
    /\ Goto(w, "raised")
    /\ UNCHANGED <<alloc, sys, domain, jobVars, run, reaping>>

Booting == {"cycle", "create", "probe"}

\* boot_handler claims the Run's `boot` step.  The claim is an insert of the
\* handler's open transaction, so that another worker of the job waits for it to
\* end, and then finds the step recorded or claims it anew.
ReadBoot(w) ==
    /\ at[w] = "read" /\ Kind(w) \in Runs
    /\ \A v \in Workers : at[v] \in Booting => doing[v] # doing[w]
    /\ Goto(w, IF run[doing[w]] = "booted" THEN "done" ELSE "cycle")
    /\ UNCHANGED <<alloc, sys, domain, jobVars, run, reaping>>

\* _power_cycle: stop the domain if it is active ...
StopGuest(w) ==
    /\ at[w] = "cycle"
    /\ domain' = IF domain[S(w)] = "running" THEN [domain EXCEPT ![S(w)] = "defined"] ELSE domain
    /\ Goto(w, IF domain[S(w)] = "absent" THEN "raised" ELSE "create")
    /\ UNCHANGED <<alloc, sys, jobVars, run, reaping>>

\* Mutant: a boot that cannot create its domain stops it.
CreateGuestCleansUp(w) ==
    /\ at[w] = "create"
    /\ domain' = IF domain[S(w)] = "defined" THEN [domain EXCEPT ![S(w)] = "running"]
                 ELSE [domain EXCEPT ![S(w)] = "defined"]
    /\ Goto(w, IF domain[S(w)] = "defined" THEN "probe" ELSE "raised")
    /\ UNCHANGED <<alloc, sys, jobVars, run, reaping>>

\* ... and create it; one that is gone, or that someone else has started, raises.
CreateGuest(w) ==
    /\ at[w] = "create"
    /\ domain' = IF domain[S(w)] = "defined" THEN [domain EXCEPT ![S(w)] = "running"] ELSE domain
    /\ Goto(w, IF domain[S(w)] = "defined" THEN "probe" ELSE "raised")
    /\ UNCHANGED <<alloc, sys, jobVars, run, reaping>>

\* The guest answered; complete_run_step commits as the handler returns.
RecordBoot(w) ==
    /\ at[w] = "probe"
    /\ run' = [run EXCEPT ![doing[w]] = "booted"]
    /\ Goto(w, "done")
    /\ UNCHANGED <<alloc, sys, domain, jobVars, reaping>>

-----------------------------------------------------------------------------
(* The reconciler.                                                         *)

\* Mutant: the repair only looks for ready Systems.
OrphanedReadyOnly(s) == alloc[s] = "ended" /\ sys[s] = "ready"

Orphaned(s) == alloc[s] = "ended" /\ sys[s] \in SystemStates \ SystemTerminal

RepairOrphan(s) ==
    /\ Orphaned(s)
    /\ jstate[<<s, "teardown">>] = "absent"
    /\ Enqueue(<<s, "teardown">>)
    /\ UNCHANGED <<alloc, sys, domain, attempt, owner, lapsed, workerVars, run, reaping>>

\* Mutant: the reaper does not look at the row.
LeakedWithoutRowCheck(s) == jstate[<<s, "teardown">>] \notin {"queued", "running"}

\* Mutant: a teardown job that has ended still counts as in flight.
LeakedUnlessEverTornDown(s) ==
    sys[s] \in {"absent", "torn_down"} /\ jstate[<<s, "teardown">>] = "absent"

\* No row other than a torn_down one, and no teardown job in flight.
Leaked(s) ==
    /\ sys[s] \in {"absent", "torn_down"}
    /\ jstate[<<s, "teardown">>] \notin {"queued", "running"}

\* One listed domain, checked under the SYSTEM lock.
CheckDomain(s) ==
    /\ domain[s] # "absent" /\ reaping = {}
    /\ Leaked(s)
    /\ reaping' = {s}
    /\ UNCHANGED <<alloc, sys, domain, jobVars, workerVars, run>>

\* reaper.destroy runs after the lock is released.
DestroyLeaked(s) ==
    /\ s \in reaping
    /\ domain' = [domain EXCEPT ![s] = "absent"]
    /\ reaping' = {}
    /\ UNCHANGED <<alloc, sys, jobVars, workerVars, run>>

DestroyLeakedFails(s) ==
    /\ s \in reaping
    /\ reaping' = {}
    /\ UNCHANGED <<alloc, sys, domain, jobVars, workerVars, run>>

-----------------------------------------------------------------------------
ToolStep(s) ==
    /\ \/ \E state \in {"defined", "provisioning"} : CreateSystem(s, state)
       \/ ProvisionDefined(s)
       \/ \E d \in Digests : Reprovision(s, d)
       \/ Teardown(s)
       \/ ForceCrash(s)
       \/ \E c \in PowerCalls : Power(s, c)
       \/ \E r \in Runs : CreateRun(s, r) \/ StageRun(s, r) \/ InstallRun(s, r) \/ Boot(s, r)
       \/ EndAllocation(s)
    /\ UNCHANGED faults

HandlerStep(w) ==
    \/ ReadProvision(w) \/ ReadReprovision(w) \/ ReadForceCrash(w)
    \/ Wipe(w) \/ StartDomain(w) \/ CommitReady(w)
    \/ TearDownRow(w) \/ DestroyDomain(w)
    \/ InjectCrash(w) \/ FinalizeForceCrash(w)
    \/ ReadPower(w) \/ ApplyPower(w) \/ PowerRefused(w)
    \/ ReadBoot(w) \/ StopGuest(w) \/ CreateGuest(w) \/ RecordBoot(w)

WorkerStep(w) ==
    /\ (\E j \in Jobs : Claim(w, j)) \/ HandlerStep(w) \/ Complete(w) \/ Fail(w)
    /\ UNCHANGED faults

\* The lease of a job whose worker is gone runs out; the sweep buries the zombies.
QueueStep(j) == ((~Running(j) /\ LeaseLapses(j)) \/ SweepZombie(j)) /\ UNCHANGED faults

ReconcilerStep(s) ==
    (RepairOrphan(s) \/ CheckDomain(s) \/ DestroyLeaked(s)) /\ UNCHANGED faults

\* A lease lapses under a live worker when its heartbeats do not get through.
Fault ==
    /\ faults < MaxFaults /\ faults' = faults + 1
    /\ \/ \E w \in Workers : StartFails(w) \/ CommitRaises(w) \/ ProviderFails(w) \/ Crash(w)
       \/ \E j \in Jobs : Cancel(j) \/ (Running(j) /\ LeaseLapses(j))
       \/ \E s \in Systems : DestroyLeakedFails(s)

Next ==
    \/ \E s \in Systems : ToolStep(s) \/ ReconcilerStep(s)
    \/ \E w \in Workers : WorkerStep(w)
    \/ \E j \in Jobs : QueueStep(j)
    \/ Fault

Spec == Init /\ [][Next]_vars

\* Workers poll and handlers return, a lease nobody renews runs out, and the
\* reconciler passes every 30 s: some one of them goes on while any can.
Progress ==
    \/ \E w \in Workers : WorkerStep(w)
    \/ \E j \in Jobs : QueueStep(j)
    \/ \E s \in Systems : ReconcilerStep(s)

FairSpec == Spec /\ WF_vars(Progress)

-----------------------------------------------------------------------------
(* What is checked.                                                        *)

\* Type invariant of rows, jobs, workers and the reaper's pass.
TypeOK ==
    /\ alloc \in [Systems -> {"granted", "active", "ended"}]
    /\ sys \in [Systems -> SystemStates \cup {"absent"}]
    /\ domain \in [Systems -> {"absent", "defined", "running"}]
    /\ jstate \in [Jobs -> JobStates \cup {"absent"}]
    /\ attempt \in [Jobs -> 0..MaxAttempts]
    /\ owner \in [Jobs -> Workers \cup {None}]
    /\ lapsed \subseteq Jobs
    /\ at \in [Workers -> {"idle", "read", "wipe", "start", "commit", "destroy", "inject",
                            "finalize", "power", "cycle", "create", "probe", "done", "raised"}]
    /\ doing \in [Workers -> Jobs \cup {None}]
    /\ run \in [Systems \X Runs -> {"absent", "built", "staged", "installed", "booted"}]
    /\ reaping \subseteq Systems /\ faults \in 0..MaxFaults

\* A ready System whose domain KDIVE has down was taken down on request: a worker
\* has started on a reprovision, a power-off or a boot of it.  Retries, reclaimed
\* jobs, crashes, a superseded provision and reaper passes never leave it so.
ReadyIsRunning ==
    \A s \in Systems :
        sys[s] = "ready" /\ domain[s] # "running" =>
            \E k \in Digests \cup Offs \cup Runs : attempt[<<s, k>>] > 0

\* The steps whose purpose is to stop a domain of a System in use: the wipe that
\* opens a reprovision, a power-off, and the first half of a boot's power cycle.
StopsOnRequest(w) == at[w] \in {"wipe", "cycle"} \/ (at[w] = "power" /\ Kind(w) \in Offs)

\* A running domain goes down only once its System's terminal state is committed,
\* or by the step of a worker that was asked to stop it: no teardown, superseded
\* provision, failed start or leaked-domain pass takes down a System in use.
LiveDomainsAreSpared ==
    [][\A s \in Systems :
        domain[s] = "running" /\ domain'[s] # "running" =>
            \/ sys[s] \in SystemTerminal
            \/ \E w \in Workers : StopsOnRequest(w) /\ S(w) = s /\ at'[w] # at[w]]_vars

\* The handlers write systems.state by raw UPDATE as well as by update_state; all
\* of them keep to the table of domain/state.py.
SystemTable == INSTANCE Lifecycle WITH Objects <- Systems, Creation <- {"defined", "provisioning"},
                                       Edges <- SystemEdges, state <- sys
FollowsSystemTable == SystemTable!Spec

\* A torn-down System's domain goes away for good, also when a provision, an
\* install, a boot or a power-on that was under way brings it up after the teardown
\* job has finished and its worker dies.  (For local libvirt: the remote provider
\* registers no leaked-domain reaper.)
TornDownDomainsVanish ==
    \A s \in Systems : sys[s] = "torn_down" ~> [](domain[s] = "absent")

\* Once the Allocation has ended, its System is torn down, or the one teardown
\* job it will ever have has ended without doing so.
OrphansAreHandled ==
    \A s \in Systems : alloc[s] = "ended" ~>
        \/ sys[s] \in SystemTerminal \cup {"absent"}
        \/ jstate[<<s, "teardown">>] \in {"failed", "canceled"}

\* docs/adr/0025: after a release "the orphaned System is torn down by the
\* reconciler".
OrphansAreTornDown ==
    \A s \in Systems : alloc[s] = "ended" ~> sys[s] \in SystemTerminal \cup {"absent"}

=============================================================================
