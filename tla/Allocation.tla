----------------------------- MODULE Allocation -----------------------------
(***************************************************************************)
(* Allocations: admission under the PROJECT and RESOURCE advisory locks    *)
(* (services/allocation/admission.py), the pending queue's promotion pass  *)
(* and its reaper (promotion.py), release, renewal and lease expiry, the   *)
(* budget ledger they all write, and the idempotency store.                *)
(*                                                                         *)
(* allocations.request is several steps (placement, lock, lock, gate,      *)
(* write) because its reads and its write are apart; the promotion pass is *)
(* several steps because it is ONE transaction over all its candidates:    *)
(* its first SELECT opens the pool connection's implicit transaction, so   *)
(* each candidate is only a savepoint and its locks stay held to the end.  *)
(* Every other operation takes PROJECT, decides and commits: one action,   *)
(* enabled when the project's lock is free.  ALLOCATION locks are always   *)
(* taken under PROJECT and exclude nothing more here.                      *)
(***************************************************************************)
EXTENDS Integers, FiniteSets, FiniteSetsExt, StateTables

CONSTANTS Requests,    \* calls of allocations.request; each inserts at most one row
          Projects, Hosts, Devices, Keys,
          ProjectOf,   \* [Requests -> Projects]
          KeyOf,       \* [Requests -> Keys or None]
          Queues,      \* requests with on_capacity = "queue"
          NeedsDevice, \* requests with a PCIe spec
          DevicesOf,   \* [Hosts -> SUBSET Devices], one matching class
          Serves,      \* [Hosts -> SUBSET Projects], per-project affinity
          Wants,       \* [Requests -> SUBSET Hosts]: the named host, or the hosts of a kind
          HostCap, Quota, PendingCap, Limit,
          Price,       \* the kcu estimate of one lease window
          Costs,       \* what a billed interval may turn out to cost
          MaxReserved, \* bound: kcu ever reserved on one allocation
          Reconciler, None

ASSUME RequestsAssumption == IsFiniteSet(Requests) /\ Reconciler \notin Requests /\ None \notin Requests
ASSUME HolderAssumption == Reconciler # None /\ Projects \cap Hosts = {} /\ None \notin Hosts /\ None \notin Devices /\ None \notin Keys
ASSUME ProjectAssumption == ProjectOf \in [Requests -> Projects]
ASSUME KeyAssumption == KeyOf \in [Requests -> Keys \cup {None}]
ASSUME WantsAssumption == Wants \in [Requests -> SUBSET Hosts]
ASSUME HostAssumption == /\ DevicesOf \in [Hosts -> SUBSET Devices]
                         /\ Serves \in [Hosts -> SUBSET Projects]
ASSUME CapAssumption == /\ HostCap \in [Hosts -> Nat] /\ Quota \in [Projects -> Nat]
                        /\ PendingCap \in [Projects -> Nat] /\ Limit \in [Projects -> Nat]
ASSUME PriceAssumption == Price \in Nat \ {0} /\ Costs \subseteq Nat /\ MaxReserved \in Nat

VARIABLES
    astate, host, claim, lease, \* columns of the allocations row
    billing,  \* "never", "open" (active_started_at) or "closed" (active_ended_at)
    reserved, \* sum of the allocation's `reserved` ledger rows
    settled,  \* number of its `reconciled` ledger rows
    credit,   \* sum of its `reconciled` ledger rows
    spent,    \* [Projects -> budgets.spent_kcu]
    idem,     \* [Keys -> the idempotency_keys row of (principal, key)]
    cordoned, \* hosts with resources.cordoned
    sysLive,  \* allocations with a System in a live state
    projLock, hostLock,  \* holders of the advisory locks
    pc, target, dev,     \* allocations.request in flight: step, chosen host, chosen device
    rpc, cand, cur, hostsLeft, \* the promotion pass: step, rows left, current row, its hosts left
    saved,               \* locks held when the current savepoint was opened
    planned, doomed,     \* uncommitted grants and terminations of the pass
    expiring, orphans    \* rows the two sweeps' first transactions selected

rowVars == <<astate, host, claim, lease>>
ledgerVars == <<reserved, settled, credit, spent>>
lockVars == <<projLock, hostLock>>
flightVars == <<pc, target, dev>>
passVars == <<rpc, cand, cur, hostsLeft, saved, planned, doomed>>
sweepVars == <<expiring, orphans>>
vars == <<rowVars, billing, ledgerVars, idem, cordoned, sysLive, lockVars, flightVars, passVars, sweepVars>>

OCCUPYING == {"granted", "active", "releasing"}
NoRow == [kind |-> "none", alloc |-> None]

Init ==
    /\ astate = [a \in Requests |-> "absent"]
    /\ host = [a \in Requests |-> None]
    /\ claim = [a \in Requests |-> None]
    /\ lease = [a \in Requests |-> "none"]
    /\ billing = [a \in Requests |-> "never"]
    /\ reserved = [a \in Requests |-> 0]
    /\ settled = [a \in Requests |-> 0]
    /\ credit = [a \in Requests |-> 0]
    /\ spent = [p \in Projects |-> 0]
    /\ idem = [k \in Keys |-> NoRow]
    /\ cordoned = {} /\ sysLive = {}
    /\ projLock = [p \in Projects |-> None]
    /\ hostLock = [h \in Hosts |-> None]
    /\ pc = [a \in Requests |-> "start"]
    /\ target = [a \in Requests |-> None]
    /\ dev = [a \in Requests |-> None]
    /\ rpc = "idle" /\ cand = {} /\ cur = None /\ hostsLeft = {} /\ saved = {}
    /\ planned = {} /\ doomed = {}
    /\ expiring = {} /\ orphans = {}

-----------------------------------------------------------------------------
(* The gate.  `mine` are the caller's own uncommitted grants, which its    *)
(* counts see; another transaction's uncommitted grants are invisible.     *)

InProject(p) == {a \in Requests : ProjectOf[a] = p}

Occupying(p) == {a \in InProject(p) : astate[a] \in OCCUPYING}

OnHost(h) == {a \in Requests : astate[a] \in OCCUPYING /\ host[a] = h}

Pending(p) == {a \in InProject(p) : astate[a] = "requested"}

\* Mutant: a promotion pass does not see the devices its own grants took.
ClaimedOnCommitted(h, mine) ==
    {claim[a] : a \in {b \in Requests : host[b] = h /\ astate[b] \notin AllocationTerminal}}

ClaimedOn(h, mine) ==
    {claim[a] : a \in {b \in Requests : host[b] = h /\ astate[b] \notin AllocationTerminal}}
        \cup {dev[a] : a \in {b \in mine : target[b] = h}}

FreeDevices(h, mine) == DevicesOf[h] \ ClaimedOn(h, mine)

\* Mutant: the quota counts live Systems instead of occupied slots.
WithinQuotaActiveOnly(p, mine) ==
    Cardinality({a \in Occupying(p) : astate[a] = "active"} \cup (mine \cap InProject(p))) < Quota[p]

WithinQuota(p, mine) == Cardinality(Occupying(p) \cup (mine \cap InProject(p))) < Quota[p]

\* Mutant: the budget check does not see the pass's own grants.
WithinBudgetCommitted(p, mine) == Limit[p] - spent[p] >= Price

WithinBudget(p, mine) == Limit[p] - (spent[p] + Price * Cardinality(mine \cap InProject(p))) >= Price

UnderCap(h, mine) == Cardinality(OnHost(h) \cup {a \in mine : target[a] = h}) < HostCap[h]

DeviceVerdict(a, h, mine) ==
    IF a \notin NeedsDevice \/ FreeDevices(h, mine) # {} THEN "ok"
    ELSE IF DevicesOf[h] = {} THEN "config" ELSE "wait"

\* admission_gate: "wait" is queueable; "denied" is ALLOCATION_DENIED and not queueable.
Gate(a, h, mine) ==
    LET p == ProjectOf[a]
    IN  IF p \notin Serves[h] THEN "denied"
        ELSE IF ~WithinQuota(p, mine) THEN "wait"
        ELSE IF ~WithinBudget(p, mine) THEN "denied"
        ELSE IF ~UnderCap(h, mine) THEN "wait"
        ELSE DeviceVerdict(a, h, mine)

Candidates(a) == {h \in Wants[a] \ cordoned : ProjectOf[a] \in Serves[h]}

Matching(a, mine) == {h \in Candidates(a) : a \in NeedsDevice => FreeDevices(h, mine) # {}}

CapacityCandidates(a) == {h \in Candidates(a) : a \in NeedsDevice /\ DevicesOf[h] # {}}

-----------------------------------------------------------------------------
(* Ledger, locks and keys.                                                 *)

Unlock(f, x) == [y \in DOMAIN f |-> IF f[y] = x THEN None ELSE f[y]]

Reserve(a) ==
    /\ reserved' = [reserved EXCEPT ![a] = @ + Price]
    /\ spent' = [spent EXCEPT ![ProjectOf[a]] = @ + Price]
    /\ UNCHANGED <<settled, credit>>

\* Mutant: the credit is written but spent_kcu is left alone.
ReconcileLedgerOnly(a) ==
    /\ \E cost \in IF billing[a] = "open" THEN Costs ELSE {0} :
          credit' = [credit EXCEPT ![a] = @ + cost - reserved[a]]
    /\ settled' = [settled EXCEPT ![a] = @ + 1]
    /\ UNCHANGED <<reserved, spent>>

\* accounting.reconcile: the actual cost less everything reserved.
Reconcile(a) ==
    /\ \E cost \in IF billing[a] = "open" THEN Costs ELSE {0} :
          /\ credit' = [credit EXCEPT ![a] = @ + cost - reserved[a]]
          /\ spent' = [spent EXCEPT ![ProjectOf[a]] = @ + cost - reserved[a]]
    /\ settled' = [settled EXCEPT ![a] = @ + 1]
    /\ UNCHANGED reserved

\* stamp_active_ended closes an open interval, whoever opened it in between.
StampActiveEnded(a) ==
    billing' = [billing EXCEPT ![a] = IF @ = "open" THEN "closed" ELSE @]

\* Mutant: (principal, key) is not unique in the store.
KeyNeverTaken(k) == FALSE

KeyTaken(k) == k # None /\ idem[k].kind # "none"

RecordKey(k, kind, a) == idem' = IF k = None THEN idem ELSE [idem EXCEPT ![k] = [kind |-> kind, alloc |-> a]]

Live(a) == astate[a] \notin AllocationTerminal \cup {"absent"}

ProjectFree(a) == projLock[ProjectOf[a]] = None

-----------------------------------------------------------------------------
(* allocations.request                                                     *)

Finish(a) ==
    /\ pc' = [pc EXCEPT ![a] = "done"]
    /\ target' = [target EXCEPT ![a] = None]
    /\ dev' = [dev EXCEPT ![a] = None]
    /\ projLock' = Unlock(projLock, a)
    /\ hostLock' = Unlock(hostLock, a)

\* Placement reads hosts and claims before any lock is taken.
Place(a) ==
    /\ pc[a] = "start"
    /\ \E h \in IF Matching(a, {}) # {} THEN Matching(a, {}) ELSE CapacityCandidates(a) :
          target' = [target EXCEPT ![a] = h]
    /\ pc' = [pc EXCEPT ![a] = "placed"]
    /\ UNCHANGED <<rowVars, billing, ledgerVars, idem, cordoned, sysLive, lockVars, dev, passVars, sweepVars>>

LockProject(a) ==
    /\ pc[a] = "placed" /\ ProjectFree(a)
    /\ KeyOf[a] # None => idem[KeyOf[a]].kind # "request"
    /\ projLock' = [projLock EXCEPT ![ProjectOf[a]] = a]
    /\ pc' = [pc EXCEPT ![a] = "project"]
    /\ UNCHANGED <<rowVars, billing, ledgerVars, idem, cordoned, sysLive, hostLock, target, dev, passVars, sweepVars>>

\* resolve_replay found the key: the stored row, or an error for a foreign project.
Replay(a) ==
    /\ pc[a] = "placed" /\ ProjectFree(a)
    /\ KeyOf[a] # None /\ idem[KeyOf[a]].kind = "request"
    /\ Finish(a)
    /\ UNCHANGED <<rowVars, billing, ledgerVars, idem, cordoned, sysLive, passVars, sweepVars>>

\* Mutant: the RESOURCE lock is not taken before the capacity check.
LockHostNever(a) ==
    /\ pc[a] = "project"
    /\ pc' = [pc EXCEPT ![a] = "host"]
    /\ UNCHANGED <<rowVars, billing, ledgerVars, idem, cordoned, sysLive, lockVars, target, dev, passVars, sweepVars>>

LockHost(a) ==
    /\ pc[a] = "project" /\ hostLock[target[a]] = None
    /\ hostLock' = [hostLock EXCEPT ![target[a]] = a]
    /\ pc' = [pc EXCEPT ![a] = "host"]
    /\ UNCHANGED <<rowVars, billing, ledgerVars, idem, cordoned, sysLive, projLock, target, dev, passVars, sweepVars>>

\* The gate passes and the device is chosen; the rows are written later.
GateGrants(a) ==
    /\ pc[a] = "host" /\ Gate(a, target[a], {}) = "ok"
    /\ \E d \in IF a \in NeedsDevice THEN FreeDevices(target[a], {}) ELSE {None} :
          dev' = [dev EXCEPT ![a] = d]
    /\ pc' = [pc EXCEPT ![a] = "grant"]
    /\ UNCHANGED <<rowVars, billing, ledgerVars, idem, cordoned, sysLive, lockVars, target, passVars, sweepVars>>

\* Mutant: the pending cap is off by one.
WithinPendingOneMore(p) == Cardinality(Pending(p)) <= PendingCap[p]

WithinPending(p) == Cardinality(Pending(p)) < PendingCap[p]

\* _deny_or_enqueue, then the pending cap of _enqueue.
GateQueues(a) ==
    /\ pc[a] = "host" /\ Gate(a, target[a], {}) = "wait"
    /\ a \in Queues /\ WithinPending(ProjectOf[a])
    /\ pc' = [pc EXCEPT ![a] = "queue"]
    /\ UNCHANGED <<rowVars, billing, ledgerVars, idem, cordoned, sysLive, lockVars, target, dev, passVars, sweepVars>>

GateDenies(a) ==
    /\ pc[a] = "host" /\ Gate(a, target[a], {}) # "ok"
    /\ ~(Gate(a, target[a], {}) = "wait" /\ a \in Queues /\ WithinPending(ProjectOf[a]))
    /\ Finish(a)
    /\ UNCHANGED <<rowVars, billing, ledgerVars, idem, cordoned, sysLive, passVars, sweepVars>>

\* _grant: the row, the reservation, the key, in the transaction of the gate.
Grant(a) ==
    /\ pc[a] = "grant" /\ ~KeyTaken(KeyOf[a])
    /\ astate' = [astate EXCEPT ![a] = "granted"]
    /\ host' = [host EXCEPT ![a] = target[a]]
    /\ claim' = [claim EXCEPT ![a] = dev[a]]
    /\ lease' = [lease EXCEPT ![a] = "live"]
    /\ Reserve(a)
    /\ RecordKey(KeyOf[a], "request", a)
    /\ Finish(a)
    /\ UNCHANGED <<billing, cordoned, sysLive, passVars, sweepVars>>

\* _enqueue: a queue position and nothing else.
Enqueue(a) ==
    /\ pc[a] = "queue" /\ ~KeyTaken(KeyOf[a])
    /\ astate' = [astate EXCEPT ![a] = "requested"]
    /\ RecordKey(KeyOf[a], "request", a)
    /\ Finish(a)
    /\ UNCHANGED <<host, claim, lease, billing, ledgerVars, cordoned, sysLive, passVars, sweepVars>>

\* The primary key (principal, key) rejects the record: everything rolls back.
KeyConflict(a) ==
    /\ pc[a] \in {"grant", "queue"} /\ KeyTaken(KeyOf[a])
    /\ Finish(a)
    /\ UNCHANGED <<rowVars, billing, ledgerVars, idem, cordoned, sysLive, passVars, sweepVars>>

\* A database error, a lost connection or a deadlock abort ends the call.
RequestFails(a) ==
    /\ pc[a] \in {"placed", "project", "host", "grant", "queue"}
    /\ Finish(a)
    /\ UNCHANGED <<rowVars, billing, ledgerVars, idem, cordoned, sysLive, passVars, sweepVars>>

-----------------------------------------------------------------------------
(* Release, renewal, expiry and the reclaim of orphaned active rows.       *)

EndLease(a, final) ==
    /\ astate' = [astate EXCEPT ![a] = final]
    /\ StampActiveEnded(a)
    /\ Reconcile(a)

\* Cancelling a queued row writes no ledger row.
ReleaseQueued(a) ==
    /\ ProjectFree(a) /\ astate[a] = "requested"
    /\ astate' = [astate EXCEPT ![a] = "released"]
    /\ UNCHANGED <<host, claim, lease, billing, ledgerVars, idem, cordoned, sysLive, lockVars, flightVars, passVars, sweepVars>>

\* Mutant: the second hop, releasing -> released, is left to someone else.
ReleaseHalfway(a) ==
    /\ ProjectFree(a) /\ astate[a] \in OCCUPYING
    /\ EndLease(a, "releasing")
    /\ UNCHANGED <<host, claim, lease, idem, cordoned, sysLive, lockVars, flightVars, passVars, sweepVars>>

Release(a) ==
    /\ ProjectFree(a) /\ astate[a] \in OCCUPYING
    /\ EndLease(a, "released")
    /\ UNCHANGED <<host, claim, lease, idem, cordoned, sysLive, lockVars, flightVars, passVars, sweepVars>>

\* A lapsed lease that no sweep has reclaimed yet may still be renewed.
Renew(a, k) ==
    /\ ProjectFree(a) /\ Live(a) /\ lease[a] # "none"
    /\ ~KeyTaken(k)
    /\ reserved[a] + Price <= MaxReserved
    /\ WithinBudget(ProjectOf[a], {})
    /\ lease' = [lease EXCEPT ![a] = "live"]
    /\ Reserve(a)
    /\ RecordKey(k, "renew", a)
    /\ UNCHANGED <<astate, host, claim, billing, cordoned, sysLive, lockVars, flightVars, passVars, sweepVars>>

LeaseLapses(a) ==
    /\ Live(a) /\ lease[a] = "live"
    /\ lease' = [lease EXCEPT ![a] = "lapsed"]
    /\ UNCHANGED <<astate, host, claim, billing, ledgerVars, idem, cordoned, sysLive, lockVars, flightVars, passVars, sweepVars>>

\* Mutant: only active rows are swept.
LapsedActiveOnly(a) == astate[a] = "active" /\ lease[a] = "lapsed"

Lapsed(a) == Live(a) /\ lease[a] = "lapsed"

ExpireSelect ==
    /\ expiring = {} /\ {a \in Requests : Lapsed(a)} # {}
    /\ expiring' = {a \in Requests : Lapsed(a)}
    /\ UNCHANGED <<rowVars, billing, ledgerVars, idem, cordoned, sysLive, lockVars, flightVars, passVars, orphans>>

\* Mutant: the candidate is expired without being re-read under the lock.
ExpireOneBlind(a) ==
    /\ a \in expiring /\ ProjectFree(a)
    /\ expiring' = expiring \ {a}
    /\ EndLease(a, "expired")
    /\ UNCHANGED <<host, claim, lease, idem, cordoned, sysLive, lockVars, flightVars, passVars, orphans>>

\* Mutant: the re-read under the lock looks at the state and not at the lease.
ExpireOneStateOnly(a) ==
    /\ a \in expiring /\ ProjectFree(a)
    /\ expiring' = expiring \ {a}
    /\ \/ Live(a) /\ EndLease(a, "expired")
       \/ ~Live(a) /\ UNCHANGED <<astate, billing, ledgerVars>>
    /\ UNCHANGED <<host, claim, lease, idem, cordoned, sysLive, lockVars, flightVars, passVars, orphans>>

ExpireOne(a) ==
    /\ a \in expiring /\ ProjectFree(a)
    /\ expiring' = expiring \ {a}
    /\ \/ Lapsed(a) /\ EndLease(a, "expired")
       \/ ~Lapsed(a) /\ UNCHANGED <<astate, billing, ledgerVars>>
    /\ UNCHANGED <<host, claim, lease, idem, cordoned, sysLive, lockVars, flightVars, passVars, orphans>>

ExpireFails(a) ==
    /\ a \in expiring
    /\ expiring' = expiring \ {a}
    /\ UNCHANGED <<rowVars, billing, ledgerVars, idem, cordoned, sysLive, lockVars, flightVars, passVars, orphans>>

Orphaned(a) == astate[a] = "active" /\ a \notin sysLive

OrphanSelect ==
    /\ orphans = {} /\ {a \in Requests : Orphaned(a)} # {}
    /\ orphans' = {a \in Requests : Orphaned(a)}
    /\ UNCHANGED <<rowVars, billing, ledgerVars, idem, cordoned, sysLive, lockVars, flightVars, passVars, expiring>>

\* reclaim_under_lock, with the no-live-System precondition.
ReclaimOrphan(a) ==
    /\ a \in orphans /\ ProjectFree(a)
    /\ orphans' = orphans \ {a}
    /\ \/ astate[a] \in {"granted", "active"} /\ a \notin sysLive /\ EndLease(a, "released")
       \/ (astate[a] \notin {"granted", "active"} \/ a \in sysLive) /\ UNCHANGED <<astate, billing, ledgerVars>>
    /\ UNCHANGED <<host, claim, lease, idem, cordoned, sysLive, lockVars, flightVars, passVars, expiring>>

ReclaimFails(a) ==
    /\ a \in orphans
    /\ orphans' = orphans \ {a}
    /\ UNCHANGED <<rowVars, billing, ledgerVars, idem, cordoned, sysLive, lockVars, flightVars, passVars, expiring>>

-----------------------------------------------------------------------------
(* What the rest of the platform does to an allocation.                    *)

\* systems.provision / systems.define: one System, under PROJECT.
Provision(a) ==
    /\ ProjectFree(a) /\ astate[a] = "granted"
    /\ astate' = [astate EXCEPT ![a] = "active"]
    /\ sysLive' = sysLive \cup {a}
    /\ UNCHANGED <<host, claim, lease, billing, ledgerVars, idem, cordoned, lockVars, flightVars, passVars, sweepVars>>

\* open_billing_interval: the provision handler holds no PROJECT lock.
SystemReady(a) ==
    /\ a \in sysLive /\ billing[a] = "never"
    /\ billing' = [billing EXCEPT ![a] = "open"]
    /\ UNCHANGED <<rowVars, ledgerVars, idem, cordoned, sysLive, lockVars, flightVars, passVars, sweepVars>>

SystemEnds(a) ==
    /\ a \in sysLive
    /\ sysLive' = sysLive \ {a}
    /\ UNCHANGED <<rowVars, billing, ledgerVars, idem, cordoned, lockVars, flightVars, passVars, sweepVars>>

\* resources.cordon, uncordon and set_status, and the first step of drain.
SetCordoned(h) ==
    /\ cordoned' = IF h \in cordoned THEN cordoned \ {h} ELSE cordoned \cup {h}
    /\ UNCHANGED <<rowVars, billing, ledgerVars, idem, sysLive, lockVars, flightVars, passVars, sweepVars>>

GcIdempotencyKey(k) ==
    /\ KeyTaken(k)
    /\ idem' = [idem EXCEPT ![k] = NoRow]
    /\ UNCHANGED <<rowVars, billing, ledgerVars, cordoned, sysLive, lockVars, flightVars, passVars, sweepVars>>

-----------------------------------------------------------------------------
(* promote_pending: one transaction, a savepoint for each candidate.       *)

Queued == {a \in Requests : astate[a] = "requested"}

PromoteSelect ==
    /\ rpc = "idle" /\ Queued # {}
    /\ rpc' = "pass" /\ cand' = Queued
    /\ UNCHANGED <<rowVars, billing, ledgerVars, idem, cordoned, sysLive, lockVars, flightVars, cur, hostsLeft, saved, planned, doomed, sweepVars>>

PromoteNext(a) ==
    /\ rpc = "pass" /\ a \in cand
    /\ rpc' = "lockproject" /\ cur' = a /\ cand' = cand \ {a}
    /\ saved' = {p \in Projects : projLock[p] = Reconciler} \cup {h \in Hosts : hostLock[h] = Reconciler}
    /\ UNCHANGED <<rowVars, billing, ledgerVars, idem, cordoned, sysLive, lockVars, flightVars, hostsLeft, planned, doomed, sweepVars>>

\* PROJECT, then the locked re-read; `granted` since the SELECT ends the candidate.
PromoteLockProject ==
    /\ rpc = "lockproject" /\ projLock[ProjectOf[cur]] \in {None, Reconciler}
    /\ projLock' = [projLock EXCEPT ![ProjectOf[cur]] = Reconciler]
    /\ rpc' = IF astate[cur] = "requested" THEN "hosts" ELSE "pass"
    /\ hostsLeft' = IF astate[cur] = "requested" THEN Matching(cur, planned) ELSE {}
    /\ UNCHANGED <<rowVars, billing, ledgerVars, idem, cordoned, sysLive, hostLock, flightVars, cand, cur, saved, planned, doomed, sweepVars>>

LockCandidateHost(h) ==
    /\ rpc = "hosts" /\ h \in hostsLeft /\ hostLock[h] \in {None, Reconciler}
    /\ hostLock' = [hostLock EXCEPT ![h] = Reconciler]

\* _grant_queued, uncommitted.
PromoteGrant(h) ==
    /\ LockCandidateHost(h)
    /\ Gate(cur, h, planned) = "ok"
    /\ target' = [target EXCEPT ![cur] = h]
    /\ \E d \in IF cur \in NeedsDevice THEN FreeDevices(h, planned) ELSE {None} :
          dev' = [dev EXCEPT ![cur] = d]
    /\ planned' = planned \cup {cur}
    /\ rpc' = "pass" /\ hostsLeft' = {}
    /\ UNCHANGED <<rowVars, billing, ledgerVars, idem, cordoned, sysLive, projLock, pc, cand, cur, saved, doomed, sweepVars>>

\* _is_budget_terminate, then _terminate, uncommitted.
PromoteTerminate(h) ==
    /\ LockCandidateHost(h)
    /\ Gate(cur, h, planned) = "denied"
    /\ doomed' = doomed \cup {cur}
    /\ rpc' = "pass" /\ hostsLeft' = {}
    /\ UNCHANGED <<rowVars, billing, ledgerVars, idem, cordoned, sysLive, projLock, flightVars, cand, cur, saved, planned, sweepVars>>

\* Any other denial moves on to the next host; the RESOURCE lock stays held.
PromoteNextHost(h) ==
    /\ LockCandidateHost(h)
    /\ Gate(cur, h, planned) \in {"wait", "config"}
    /\ hostsLeft' = hostsLeft \ {h}
    /\ UNCHANGED <<rowVars, billing, ledgerVars, idem, cordoned, sysLive, projLock, flightVars, rpc, cand, cur, saved, planned, doomed, sweepVars>>

PromoteLeavesQueued ==
    /\ rpc = "hosts" /\ hostsLeft = {}
    /\ rpc' = "pass"
    /\ UNCHANGED <<rowVars, billing, ledgerVars, idem, cordoned, sysLive, lockVars, flightVars, cand, cur, hostsLeft, saved, planned, doomed, sweepVars>>

\* Rolling back to the savepoint gives back the locks taken since it.
PromoteError ==
    /\ rpc \in {"lockproject", "hosts"}
    /\ projLock' = [p \in Projects |-> IF projLock[p] = Reconciler /\ p \notin saved THEN None ELSE projLock[p]]
    /\ hostLock' = [h \in Hosts |-> IF hostLock[h] = Reconciler /\ h \notin saved THEN None ELSE hostLock[h]]
    /\ rpc' = "pass" /\ hostsLeft' = {}
    /\ UNCHANGED <<rowVars, billing, ledgerVars, idem, cordoned, sysLive, flightVars, cand, cur, saved, planned, doomed, sweepVars>>

PassEnds ==
    /\ rpc' = "idle" /\ cand' = {} /\ cur' = None /\ hostsLeft' = {} /\ saved' = {}
    /\ planned' = {} /\ doomed' = {}
    /\ target' = [a \in Requests |-> IF a \in planned THEN None ELSE target[a]]
    /\ dev' = [a \in Requests |-> IF a \in planned THEN None ELSE dev[a]]
    /\ projLock' = Unlock(projLock, Reconciler)
    /\ hostLock' = Unlock(hostLock, Reconciler)

\* The pool connection commits when the repair's block is left.
PromoteCommit ==
    /\ rpc = "pass" /\ cand = {}
    /\ astate' = [a \in Requests |-> IF a \in planned THEN "granted" ELSE IF a \in doomed THEN "failed" ELSE astate[a]]
    /\ host' = [a \in Requests |-> IF a \in planned THEN target[a] ELSE host[a]]
    /\ claim' = [a \in Requests |-> IF a \in planned THEN dev[a] ELSE claim[a]]
    /\ lease' = [a \in Requests |-> IF a \in planned THEN "live" ELSE lease[a]]
    /\ reserved' = [a \in Requests |-> IF a \in planned THEN reserved[a] + Price ELSE reserved[a]]
    /\ spent' = [p \in Projects |-> spent[p] + Price * Cardinality(planned \cap InProject(p))]
    /\ PassEnds
    /\ UNCHANGED <<billing, settled, credit, idem, cordoned, sysLive, pc, sweepVars>>

\* The process dies or the connection drops: the whole pass is lost.
PromoteAbort ==
    /\ rpc # "idle"
    /\ PassEnds
    /\ UNCHANGED <<rowVars, billing, ledgerVars, idem, cordoned, sysLive, pc, sweepVars>>

\* Mutant: the reaper's SELECT joins the host a queued row does not have.
ReapQueueTimeoutsHosted ==
    /\ \E aged \in SUBSET {a \in Queued : ProjectFree(a) /\ host[a] # None} :
          /\ aged # {}
          /\ astate' = [a \in Requests |-> IF a \in aged THEN "failed" ELSE astate[a]]
    /\ UNCHANGED <<host, claim, lease, billing, ledgerVars, idem, cordoned, sysLive, lockVars, flightVars, passVars, sweepVars>>

\* reap_queue_timeouts: like the pass, the aged rows fail in one commit.
ReapQueueTimeouts ==
    /\ \E aged \in SUBSET {a \in Queued : ProjectFree(a)} :
          /\ aged # {}
          /\ astate' = [a \in Requests |-> IF a \in aged THEN "failed" ELSE astate[a]]
    /\ UNCHANGED <<host, claim, lease, billing, ledgerVars, idem, cordoned, sysLive, lockVars, flightVars, passVars, sweepVars>>

-----------------------------------------------------------------------------
RequestStep(a) ==
    \/ Place(a) \/ LockProject(a) \/ Replay(a) \/ LockHost(a)
    \/ GateGrants(a) \/ GateQueues(a) \/ GateDenies(a)
    \/ Grant(a) \/ Enqueue(a) \/ KeyConflict(a) \/ RequestFails(a)

LeaseStep(a) ==
    \/ ReleaseQueued(a) \/ Release(a) \/ LeaseLapses(a)
    \/ ExpireOne(a) \/ ExpireFails(a) \/ ReclaimOrphan(a) \/ ReclaimFails(a)
    \/ Provision(a) \/ SystemReady(a) \/ SystemEnds(a)

PromotionStep ==
    \/ PromoteSelect \/ PromoteLockProject \/ PromoteLeavesQueued
    \/ PromoteError \/ PromoteCommit \/ PromoteAbort
    \/ \E a \in Requests : PromoteNext(a)
    \/ \E h \in Hosts : PromoteGrant(h) \/ PromoteTerminate(h) \/ PromoteNextHost(h)

Next ==
    \/ \E a \in Requests : RequestStep(a) \/ LeaseStep(a)
    \/ \E a \in Requests, k \in Keys \cup {None} : Renew(a, k)
    \/ \E h \in Hosts : SetCordoned(h)
    \/ \E k \in Keys : GcIdempotencyKey(k)
    \/ ExpireSelect \/ OrphanSelect \/ ReapQueueTimeouts \/ PromotionStep

Spec == Init /\ [][Next]_vars

\* Two transactions wait for each other: the pass, holding the RESOURCE lock a
\* request wants, asks for the PROJECT lock that request holds.
WaitCycle(a) ==
    /\ pc[a] = "project" /\ hostLock[target[a]] = Reconciler
    /\ rpc = "lockproject" /\ projLock[ProjectOf[cur]] = a

DeadlockVictim == \E a \in Requests : WaitCycle(a) /\ (RequestFails(a) \/ PromoteError)

(***************************************************************************)
(* A call that is not blocked runs on, a pass that is not blocked ends,    *)
(* and the reconciler repeats its sweeps every interval.  What waits for   *)
(* an advisory lock is strongly fair: Postgres grants a contended lock in  *)
(* arrival order, and its deadlock detector aborts one waiter of a cycle.  *)
(* No fairness on errors, aborts, releases, renewals or operators.         *)
(***************************************************************************)
RequestProgress(a) ==
    \/ LockProject(a) \/ Replay(a) \/ LockHost(a)
    \/ GateGrants(a) \/ GateQueues(a) \/ GateDenies(a)
    \/ Grant(a) \/ Enqueue(a) \/ KeyConflict(a)

PassProgress ==
    \/ PromoteLockProject \/ PromoteLeavesQueued \/ PromoteCommit
    \/ \E a \in Requests : PromoteNext(a)
    \/ \E h \in Hosts : PromoteGrant(h) \/ PromoteTerminate(h) \/ PromoteNextHost(h)

Fairness ==
    /\ WF_vars(DeadlockVictim)
    /\ \A a \in Requests : SF_vars(RequestProgress(a)) /\ SF_vars(ExpireOne(a))
    /\ SF_vars(PassProgress)
    /\ WF_vars(ExpireSelect)
    /\ SF_vars(ReapQueueTimeouts)

FairSpec == Spec /\ Fairness

-----------------------------------------------------------------------------
(* Properties.                                                             *)

\* Every variable stays in its domain; `releasing` is never committed.
TypeOK ==
    /\ astate \in [Requests -> (AllocationStates \ {"releasing"}) \cup {"absent"}]
    /\ host \in [Requests -> Hosts \cup {None}]
    /\ claim \in [Requests -> Devices \cup {None}]
    /\ lease \in [Requests -> {"none", "live", "lapsed"}]
    /\ billing \in [Requests -> {"never", "open", "closed"}]
    /\ reserved \in [Requests -> Nat] /\ settled \in [Requests -> Nat]
    /\ credit \in [Requests -> Int] /\ spent \in [Projects -> Int]
    /\ idem \in [Keys -> [kind : {"none", "request", "renew"}, alloc : Requests \cup {None}]]
    /\ cordoned \in SUBSET Hosts /\ sysLive \in SUBSET Requests
    /\ projLock \in [Projects -> Requests \cup {Reconciler, None}]
    /\ hostLock \in [Hosts -> Requests \cup {Reconciler, None}]
    /\ pc \in [Requests -> {"start", "placed", "project", "host", "grant", "queue", "done"}]
    /\ target \in [Requests -> Hosts \cup {None}] /\ dev \in [Requests -> Devices \cup {None}]
    /\ rpc \in {"idle", "pass", "lockproject", "hosts"}
    /\ cand \in SUBSET Requests /\ cur \in Requests \cup {None} /\ hostsLeft \in SUBSET Hosts
    /\ saved \in SUBSET (Projects \cup Hosts)
    /\ planned \in SUBSET Requests /\ doomed \in SUBSET Requests
    /\ expiring \in SUBSET Requests /\ orphans \in SUBSET Requests

\* max_concurrent_allocations is never exceeded, whatever requests, promotion
\* passes, aborts and releases interleave: the count and the insert share PROJECT.
QuotaHolds == \A p \in Projects : Cardinality(Occupying(p)) <= Quota[p]

\* No host carries more allocations than its cap: requests of different projects
\* and the promotion pass share only the RESOURCE lock.
HostCapHolds == \A h \in Hosts : Cardinality(OnHost(h)) <= HostCap[h]

\* The backlog of a project stays within max_pending_allocations.
PendingCapHolds == \A p \in Projects : Cardinality(Pending(p)) <= PendingCap[p]

\* Two live allocations never hold the same PCIe device of a host, although a
\* request resolves devices once before and once under the RESOURCE lock.
NoSharedDevice ==
    \A a, b \in Requests :
        a # b /\ Live(a) /\ Live(b) /\ claim[a] # None /\ host[a] = host[b] => claim[a] # claim[b]

\* spent_kcu is the sum of the project's ledger rows in every committed state.
SpendIsLedgerSum ==
    \A p \in Projects : spent[p] = MapThenSumSet(LAMBDA a : reserved[a] + credit[a], InProject(p))

\* The single-reconciliation guarantee: an allocation that was ever charged is
\* reconciled exactly once, by the step that ends it, whichever of release,
\* expiry and orphan reclaim wins; one that was never charged never is.
SettledExactlyOnce ==
    \A a \in Requests : settled[a] = IF astate[a] \in AllocationTerminal /\ reserved[a] > 0 THEN 1 ELSE 0

\* A reservation (grant, promotion, renewal) never takes a project over its
\* limit, although the pass decides several of them before it commits.
ReserveWithinBudget ==
    [][reserved' # reserved =>
         \A p \in Projects : spent'[p] > spent[p] => spent'[p] <= Limit[p]]_vars

\* A lease renewed between the sweep's SELECT and the locked re-read survives.
OnlyLapsedLeasesExpire ==
    [][\A a \in Requests : astate'[a] = "expired" /\ astate[a] # "expired" => lease[a] = "lapsed"]_vars

\* A keyed request inserts a row only together with its key and only while the
\* key is free, so a retry, even a concurrent one in another project, never
\* leaves a second allocation behind.
OneRowPerKey ==
    [][\A a \in Requests :
         astate[a] = "absent" /\ astate'[a] # "absent" /\ KeyOf[a] # None =>
             idem[KeyOf[a]].kind = "none" /\ idem'[KeyOf[a]].alloc = a]_vars

\* Committed allocation states follow domain/state.py, in one move or in the two
\* that release makes inside one transaction (through `releasing`).
ReleaseHops == {"granted", "active"} \X {"released"}
AllocationLifecycle == INSTANCE Lifecycle WITH Objects <- Requests,
    Creation <- {"requested", "granted"}, Edges <- AllocationEdges \cup ReleaseHops, state <- astate
FollowsAllocationTable == AllocationLifecycle!Spec

\* Every queued request is eventually granted, cancelled or failed: the reaper
\* ends what no promotion pass could place.
QueuedIsResolved == \A a \in Requests : astate[a] = "requested" ~> astate[a] # "requested"

\* A lease that ran out is reclaimed or renewed, even when sweeps fail on it.
LapsedIsReclaimed ==
    \A a \in Requests : astate[a] \in OCCUPYING /\ lease[a] = "lapsed"
                          ~> astate[a] \in AllocationTerminal \/ lease[a] = "live"

\* What the comment of admission_gate says: synchronous admit and the promotion
\* sweep keep one lock order and "never invert against each other".
NeverInvert == \A a \in Requests : ~WaitCycle(a)
=============================================================================
