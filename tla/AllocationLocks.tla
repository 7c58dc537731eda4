-------------------------- MODULE AllocationLocks ---------------------------
(***************************************************************************)
(* Proof that the lock discipline is an invariant of Allocation.           *)
(***************************************************************************)
EXTENDS AllocationTypes

USE DEF rowVars, lockVars, flightVars, passVars

LockInv == RequestsHoldTheirLocks /\ PassHoldsItsLocks

\* The part of the types the discipline and the caps rest on.
LockTypes ==
    /\ astate \in [Requests -> (AllocationStates \ {"releasing"}) \cup {"absent"}]
    /\ host \in [Requests -> Hosts \cup {None}]
    /\ projLock \in [Projects -> Requests \cup {Reconciler, None}]
    /\ hostLock \in [Hosts -> Requests \cup {Reconciler, None}]
    /\ pc \in [Requests -> {"start", "placed", "project", "host", "grant", "queue", "done"}]
    /\ target \in [Requests -> Hosts \cup {None}]
    /\ cand \in SUBSET Requests /\ planned \in SUBSET Requests /\ doomed \in SUBSET Requests

\* Locks, without the types the discipline does not need.
LEMMA LockParts == Locks => LockInv /\ LockTypes
BY DEF Locks, LockInv, LockTypes, TypeOK

\* Initially nobody holds a lock.
LEMMA InitLocks == Init => LockInv
BY RequestsAssumption, HolderAssumption, ProjectAssumption
   DEF Init, LockInv, RequestsHoldTheirLocks, PassHoldsItsLocks

\* A step of allocations.request keeps the lock discipline: PROJECT, then RESOURCE, both to the end.
LEMMA RequestLocks ==
    ASSUME LockInv, LockTypes, NEW b \in Requests, RequestStep(b)
    PROVE  LockInv'
<1> USE RequestsAssumption, HolderAssumption, ProjectAssumption, WantsAssumption
    DEF LockInv, LockTypes, RequestsHoldTheirLocks, PassHoldsItsLocks
<1>1. CASE Place(b)
  BY <1>1 DEF Place, Matching, CapacityCandidates, Candidates
<1>2. CASE LockProject(b)
  BY <1>2 DEF LockProject, ProjectFree
<1>3. CASE Replay(b)
  BY <1>3 DEF Replay, Finish, Unlock
<1>4. CASE LockHost(b)
  BY <1>4 DEF LockHost
<1>5. CASE GateGrants(b)
  BY <1>5 DEF GateGrants
<1>6. CASE GateQueues(b)
  BY <1>6 DEF GateQueues
<1>7. CASE GateDenies(b)
  BY <1>7 DEF GateDenies, Finish, Unlock
<1>8. CASE Grant(b)
  BY <1>8 DEF Grant, Finish, Unlock
<1>9. CASE Enqueue(b)
  BY <1>9 DEF Enqueue, Finish, Unlock
<1>10. CASE KeyConflict(b)
  BY <1>10 DEF KeyConflict, Finish, Unlock
<1>11. CASE RequestFails(b)
  BY <1>11 DEF RequestFails, Finish, Unlock
<1> HIDE DEF LockInv
<1> QED
  BY <1>1, <1>2, <1>3, <1>4, <1>5, <1>6, <1>7, <1>8, <1>9, <1>10, <1>11 DEF RequestStep

\* Lease steps run under a PROJECT lock nobody else holds, so they disturb no lock holder.
LEMMA LeaseLocks ==
    ASSUME LockInv, LockTypes, NEW b \in Requests, LeaseStep(b)
    PROVE  LockInv'
<1> USE RequestsAssumption, HolderAssumption, ProjectAssumption
    DEF LockInv, LockTypes, RequestsHoldTheirLocks, PassHoldsItsLocks
<1>1. CASE ReleaseQueued(b)
  BY <1>1 DEF ReleaseQueued, ProjectFree
<1>2. CASE Release(b)
  BY <1>2 DEF Release, EndLease, ProjectFree, OCCUPYING
<1>3. CASE LeaseLapses(b)
  BY <1>3 DEF LeaseLapses
<1>4. CASE ExpireOne(b)
  BY <1>4 DEF ExpireOne, EndLease, ProjectFree, Lapsed, Live
<1>5. CASE ExpireFails(b)
  BY <1>5 DEF ExpireFails
<1>6. CASE ReclaimOrphan(b)
  BY <1>6 DEF ReclaimOrphan, EndLease, ProjectFree
<1>7. CASE ReclaimFails(b)
  BY <1>7 DEF ReclaimFails
<1>8. CASE Provision(b)
  BY <1>8 DEF Provision, ProjectFree
<1>9. CASE SystemReady(b)
  BY <1>9 DEF SystemReady
<1>10. CASE SystemEnds(b)
  BY <1>10 DEF SystemEnds
<1> HIDE DEF LockInv
<1> QED
  BY <1>1, <1>2, <1>3, <1>4, <1>5, <1>6, <1>7, <1>8, <1>9, <1>10, Zenon DEF LeaseStep

\* A step of the pass keeps the lock discipline: what a savepoint rollback frees protects no planned grant.
LEMMA PromotionLocks ==
    ASSUME LockInv, LockTypes, PromotionStep
    PROVE  LockInv'
<1> USE RequestsAssumption, HolderAssumption, ProjectAssumption
    DEF LockInv, LockTypes, RequestsHoldTheirLocks, PassHoldsItsLocks
<1>1. CASE PromoteSelect
  BY <1>1 DEF PromoteSelect, Queued
<1>2. CASE PromoteLockProject
  BY <1>2 DEF PromoteLockProject
<1>3. CASE PromoteLeavesQueued
  BY <1>3 DEF PromoteLeavesQueued
<1>4. CASE PromoteError
  BY <1>4 DEF PromoteError
<1>5. CASE PromoteCommit
  BY <1>5 DEF PromoteCommit, PassEnds, Unlock
<1>6. CASE PromoteAbort
  BY <1>6 DEF PromoteAbort, PassEnds, Unlock
<1>7. ASSUME NEW a \in Requests, PromoteNext(a) PROVE LockInv'
  BY <1>7 DEF PromoteNext
<1>8. ASSUME NEW h \in Hosts, PromoteGrant(h) PROVE LockInv'
  BY <1>8 DEF PromoteGrant, LockCandidateHost
<1>9. ASSUME NEW h \in Hosts, PromoteTerminate(h) PROVE LockInv'
  BY <1>9 DEF PromoteTerminate, LockCandidateHost
<1>10. ASSUME NEW h \in Hosts, PromoteNextHost(h) PROVE LockInv'
  BY <1>10 DEF PromoteNextHost, LockCandidateHost
<1> HIDE DEF LockInv
<1> QED
  BY <1>1, <1>2, <1>3, <1>4, <1>5, <1>6, <1>7, <1>8, <1>9, <1>10, Zenon DEF PromotionStep

\* Every step keeps the lock discipline.
LEMMA StepLocks == Locks /\ [Next]_vars => LockInv'
<1> SUFFICES ASSUME LockInv, LockTypes, [Next]_vars PROVE LockInv'
  BY LockParts, Zenon
<1> USE ProjectAssumption, HolderAssumption
<1>1. CASE \E a \in Requests : RequestStep(a)
  BY <1>1, RequestLocks, Zenon
<1>2. CASE \E a \in Requests : LeaseStep(a)
  BY <1>2, LeaseLocks, Zenon
<1>3. CASE PromotionStep
  BY <1>3, PromotionLocks, Zenon
<1> USE DEF LockInv, LockTypes, RequestsHoldTheirLocks, PassHoldsItsLocks
<1>4. CASE \E a \in Requests, k \in Keys \cup {None} : Renew(a, k)
  BY <1>4 DEF Renew
<1>5. CASE \E h \in Hosts : SetCordoned(h)
  BY <1>5 DEF SetCordoned
<1>6. CASE \E k \in Keys : GcIdempotencyKey(k)
  BY <1>6 DEF GcIdempotencyKey
<1>7. CASE ExpireSelect
  BY <1>7 DEF ExpireSelect
<1>8. CASE OrphanSelect
  BY <1>8 DEF OrphanSelect
<1>9. CASE ReapQueueTimeouts
  BY <1>9 DEF ReapQueueTimeouts, Queued, ProjectFree
<1>10. CASE UNCHANGED vars
  BY <1>10 DEF vars
<1> HIDE DEF LockInv
<1> QED
  BY <1>1, <1>2, <1>3, <1>4, <1>5, <1>6, <1>7, <1>8, <1>9, <1>10, Zenon DEF Next

\* The lock discipline is an invariant of admission, promotion and the sweeps.
LEMMA LocksHold == Spec => []Locks
<1>1. Init => Locks
  BY InitType, InitLocks, Zenon DEF Locks, LockInv
<1>2. Locks /\ [Next]_vars => Locks'
  BY StepType, StepLocks, Zenon DEF Locks, LockInv
<1> QED
  BY <1>1, <1>2, PTL DEF Spec
=============================================================================
