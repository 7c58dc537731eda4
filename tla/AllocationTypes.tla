-------------------------- MODULE AllocationTypes ---------------------------
(***************************************************************************)
(* The lock discipline of Allocation, stated, and the proof that every step *)
(* keeps the types under it.                                               *)
(***************************************************************************)
EXTENDS Allocation, FiniteSetTheorems, TLAPS

\* A request between its two locks and its commit holds PROJECT; from the gate
\* on it holds RESOURCE too; and it has no row yet.
RequestsHoldTheirLocks ==
    \A a \in Requests :
        /\ pc[a] \in {"project", "host", "grant", "queue"} <=> projLock[ProjectOf[a]] = a
        /\ \A p \in Projects : projLock[p] = a => p = ProjectOf[a]
        /\ pc[a] # "done" => astate[a] = "absent"
        /\ pc[a] = "start" => target[a] = None
        /\ pc[a] \in {"placed", "project", "host", "grant", "queue"} => target[a] \in Hosts
        /\ pc[a] \in {"host", "grant", "queue"} => hostLock[target[a]] = a
        /\ \A h \in Hosts : hostLock[h] = a => h = target[a] /\ pc[a] \in {"host", "grant", "queue"}

\* The pass holds, and keeps over a savepoint rollback, the locks of every
\* grant it has not committed.
PassHoldsItsLocks ==
    /\ rpc = "idle" => planned = {} /\ doomed = {}
    /\ planned \cap doomed = {}
    /\ cand \cap (planned \cup doomed) = {}
    /\ rpc \in {"lockproject", "hosts"} => cur \in Requests /\ cur \notin cand \cup planned \cup doomed
    /\ rpc = "hosts" => projLock[ProjectOf[cur]] = Reconciler /\ astate[cur] = "requested"
    /\ \A a \in planned \cup doomed :
          /\ astate[a] = "requested"
          /\ projLock[ProjectOf[a]] = Reconciler
          /\ rpc \in {"lockproject", "hosts"} => ProjectOf[a] \in saved
    /\ \A a \in planned :
          /\ target[a] \in Hosts /\ hostLock[target[a]] = Reconciler
          /\ rpc \in {"lockproject", "hosts"} => target[a] \in saved

Locks == TypeOK /\ RequestsHoldTheirLocks /\ PassHoldsItsLocks
-----------------------------------------------------------------------------
(* Types.                                                                  *)

\* Sets of requests are finite.
LEMMA SubsetCardinality ==
    ASSUME NEW S \in SUBSET Requests
    PROVE  IsFiniteSet(S) /\ Cardinality(S) \in Nat
BY RequestsAssumption, FS_Subset, FS_CardinalityType

\* A project's spend stays a number when it is charged for n grants.
LEMMA Charged ==
    ASSUME NEW s \in Int, NEW price \in Nat, NEW n \in Nat
    PROVE  s + price * n \in Int
OBVIOUS

USE DEF rowVars, ledgerVars, lockVars, flightVars, passVars, sweepVars

\* An empty store, with no request in flight, is well typed.
LEMMA InitType == Init => TypeOK
<1> SUFFICES ASSUME Init PROVE TypeOK
  BY Zenon
<1>1. /\ astate \in [Requests -> (AllocationStates \ {"releasing"}) \cup {"absent"}]
      /\ host \in [Requests -> Hosts \cup {None}] /\ claim \in [Requests -> Devices \cup {None}]
      /\ lease \in [Requests -> {"none", "live", "lapsed"}]
      /\ billing \in [Requests -> {"never", "open", "closed"}]
  BY Zenon DEF Init
<1>2. /\ reserved \in [Requests -> Nat] /\ settled \in [Requests -> Nat]
      /\ credit \in [Requests -> Int] /\ spent \in [Projects -> Int]
  BY DEF Init
<1>3. idem \in [Keys -> [kind : {"none", "request", "renew"}, alloc : Requests \cup {None}]]
  BY Zenon DEF Init, NoRow
<1>4. /\ projLock \in [Projects -> Requests \cup {Reconciler, None}]
      /\ hostLock \in [Hosts -> Requests \cup {Reconciler, None}]
      /\ pc \in [Requests -> {"start", "placed", "project", "host", "grant", "queue", "done"}]
      /\ target \in [Requests -> Hosts \cup {None}] /\ dev \in [Requests -> Devices \cup {None}]
  BY Zenon DEF Init
<1>5. /\ cordoned \in SUBSET Hosts /\ sysLive \in SUBSET Requests
      /\ rpc \in {"idle", "pass", "lockproject", "hosts"}
      /\ cand \in SUBSET Requests /\ cur \in Requests \cup {None} /\ hostsLeft \in SUBSET Hosts
      /\ saved \in SUBSET (Projects \cup Hosts)
      /\ planned \in SUBSET Requests /\ doomed \in SUBSET Requests
      /\ expiring \in SUBSET Requests /\ orphans \in SUBSET Requests
  BY Zenon DEF Init
<1> QED
  BY <1>1, <1>2, <1>3, <1>4, <1>5, Zenon DEF TypeOK

\* A step of allocations.request keeps the types.
LEMMA RequestType ==
    ASSUME TypeOK, RequestsHoldTheirLocks, NEW a \in Requests, RequestStep(a)
    PROVE  TypeOK'
<1> USE ProjectAssumption, KeyAssumption, HostAssumption, WantsAssumption, PriceAssumption DEF TypeOK
<1>1. CASE Place(a)
  BY <1>1 DEF Place, Matching, CapacityCandidates, Candidates
<1>2. CASE LockProject(a)
  BY <1>2, Zenon DEF LockProject
<1>3. CASE Replay(a)
  BY <1>3, Zenon DEF Replay, Finish, Unlock
<1>4. CASE LockHost(a)
  BY <1>4, Zenon DEF LockHost
<1>5. CASE GateGrants(a)
  <2>1. target[a] \in Hosts
    BY <1>5, Zenon DEF RequestsHoldTheirLocks, GateGrants
  <2> QED
    BY <1>5, <2>1 DEF GateGrants, FreeDevices
<1>6. CASE GateQueues(a)
  BY <1>6, Zenon DEF GateQueues
<1>7. CASE GateDenies(a)
  BY <1>7, Zenon DEF GateDenies, Finish, Unlock
<1>8. CASE Grant(a)
  BY <1>8 DEF Grant, Finish, Unlock, Reserve, RecordKey, AllocationStates
<1>9. CASE Enqueue(a)
  BY <1>9, Zenon DEF Enqueue, Finish, Unlock, RecordKey, AllocationStates
<1>10. CASE KeyConflict(a)
  BY <1>10, Zenon DEF KeyConflict, Finish, Unlock
<1>11. CASE RequestFails(a)
  BY <1>11, Zenon DEF RequestFails, Finish, Unlock
<1> HIDE DEF TypeOK
<1> QED
  BY <1>1, <1>2, <1>3, <1>4, <1>5, <1>6, <1>7, <1>8, <1>9, <1>10, <1>11 DEF RequestStep

\* Ending a lease (release, expiry, orphan reclaim) keeps the types; the credit it books may be negative.
LEMMA EndLeaseType ==
    ASSUME TypeOK, NEW a \in Requests, NEW final \in {"released", "expired"}, EndLease(a, final)
    PROVE  /\ astate' \in [Requests -> (AllocationStates \ {"releasing"}) \cup {"absent"}]
           /\ billing' \in [Requests -> {"never", "open", "closed"}]
           /\ reserved' \in [Requests -> Nat] /\ settled' \in [Requests -> Nat]
           /\ credit' \in [Requests -> Int] /\ spent' \in [Projects -> Int]
<1>1. PICK cost \in IF billing[a] = "open" THEN Costs ELSE {0} :
         /\ credit' = [credit EXCEPT ![a] = @ + cost - reserved[a]]
         /\ spent' = [spent EXCEPT ![ProjectOf[a]] = @ + cost - reserved[a]]
  BY Zenon DEF EndLease, Reconcile
<1>2. cost \in Int
  <2>1. cost \in Costs \/ cost = 0
    BY <1>1, Zenon
  <2> QED
    BY <2>1, PriceAssumption
<1>6. reserved[a] \in Int /\ ProjectOf[a] \in Projects
  BY ProjectAssumption DEF TypeOK
<1>3. credit' \in [Requests -> Int] /\ spent' \in [Projects -> Int]
  BY <1>1, <1>2, <1>6 DEF TypeOK
<1>4. reserved' \in [Requests -> Nat] /\ settled' \in [Requests -> Nat]
  BY DEF TypeOK, EndLease, Reconcile
<1>5. /\ astate' \in [Requests -> (AllocationStates \ {"releasing"}) \cup {"absent"}]
      /\ billing' \in [Requests -> {"never", "open", "closed"}]
  BY Zenon DEF TypeOK, EndLease, StampActiveEnded, AllocationStates
<1> QED
  BY <1>3, <1>4, <1>5, Zenon

\* A step on a lease or its System keeps the types.
LEMMA LeaseType ==
    ASSUME TypeOK, NEW a \in Requests, LeaseStep(a)
    PROVE  TypeOK'
<1> USE ProjectAssumption, PriceAssumption DEF TypeOK
<1>1. CASE ReleaseQueued(a)
  BY <1>1, Zenon DEF ReleaseQueued, AllocationStates
<1>2. CASE Release(a)
  BY <1>2, EndLeaseType, Zenon DEF Release
<1>3. CASE LeaseLapses(a)
  BY <1>3, Zenon DEF LeaseLapses
<1>4. CASE ExpireOne(a)
  BY <1>4, EndLeaseType DEF ExpireOne
<1>5. CASE ExpireFails(a)
  BY <1>5, Zenon DEF ExpireFails
<1>6. CASE ReclaimOrphan(a)
  BY <1>6, EndLeaseType DEF ReclaimOrphan
<1>7. CASE ReclaimFails(a)
  BY <1>7, Zenon DEF ReclaimFails
<1>8. CASE Provision(a)
  BY <1>8, Zenon DEF Provision, AllocationStates
<1>9. CASE SystemReady(a)
  BY <1>9, Zenon DEF SystemReady
<1>10. CASE SystemEnds(a)
  BY <1>10, Zenon DEF SystemEnds
<1> HIDE DEF TypeOK
<1> QED
  BY <1>1, <1>2, <1>3, <1>4, <1>5, <1>6, <1>7, <1>8, <1>9, <1>10, Zenon DEF LeaseStep

\* A step of the promotion pass keeps the types.
LEMMA PromotionType ==
    ASSUME TypeOK, PassHoldsItsLocks, PromotionStep
    PROVE  TypeOK'
<1> USE ProjectAssumption, HostAssumption, WantsAssumption, PriceAssumption DEF TypeOK
<1>1. CASE PromoteSelect
  BY <1>1, Zenon DEF PromoteSelect, Queued
<1>2. CASE PromoteLockProject
  BY <1>2, Zenon DEF PromoteLockProject, Matching, Candidates, PassHoldsItsLocks
<1>3. CASE PromoteLeavesQueued
  BY <1>3, Zenon DEF PromoteLeavesQueued
<1>4. CASE PromoteError
  BY <1>4, Zenon DEF PromoteError
<1>5. CASE PromoteCommit
  <2>1. spent' \in [Projects -> Int]
    <3>1. \A p \in Projects : Cardinality(planned \cap InProject(p)) \in Nat
      BY SubsetCardinality, Zenon
    <3>2. \A p \in Projects : spent[p] + Price * Cardinality(planned \cap InProject(p)) \in Int
      <4> TAKE p \in Projects
      <4>1. Cardinality(planned \cap InProject(p)) \in Nat /\ spent[p] \in Int /\ Price \in Nat
        BY <3>1, Zenon
      <4> QED
        BY ONLY <4>1, Charged, Zenon
    <3> QED
      BY <1>5, <3>2, Zenon DEF PromoteCommit
  <2>2. /\ astate' \in [Requests -> (AllocationStates \ {"releasing"}) \cup {"absent"}]
        /\ host' \in [Requests -> Hosts \cup {None}] /\ claim' \in [Requests -> Devices \cup {None}]
        /\ lease' \in [Requests -> {"none", "live", "lapsed"}]
        /\ reserved' \in [Requests -> Nat]
    BY <1>5 DEF PromoteCommit, AllocationStates
  <2>3. /\ projLock' \in [Projects -> Requests \cup {Reconciler, None}]
        /\ hostLock' \in [Hosts -> Requests \cup {Reconciler, None}]
        /\ target' \in [Requests -> Hosts \cup {None}] /\ dev' \in [Requests -> Devices \cup {None}]
    BY <1>5, Zenon DEF PromoteCommit, PassEnds, Unlock
  <2> QED
    BY <1>5, <2>1, <2>2, <2>3, Zenon DEF PromoteCommit, PassEnds
<1>6. CASE PromoteAbort
  BY <1>6, Zenon DEF PromoteAbort, PassEnds, Unlock
<1>7. CASE \E a \in Requests : PromoteNext(a)
  BY <1>7 DEF PromoteNext
<1>8. CASE \E h \in Hosts : PromoteGrant(h)
  BY <1>8 DEF PromoteGrant, LockCandidateHost, FreeDevices, PassHoldsItsLocks
<1>9. CASE \E h \in Hosts : PromoteTerminate(h)
  BY <1>9 DEF PromoteTerminate, LockCandidateHost, PassHoldsItsLocks
<1>10. CASE \E h \in Hosts : PromoteNextHost(h)
  BY <1>10 DEF PromoteNextHost, LockCandidateHost
<1> HIDE DEF TypeOK
<1> QED
  BY <1>1, <1>2, <1>3, <1>4, <1>5, <1>6, <1>7, <1>8, <1>9, <1>10 DEF PromotionStep

\* Every step keeps the types, given who holds which lock.
LEMMA StepType == Locks /\ [Next]_vars => TypeOK'
<1> SUFFICES ASSUME Locks, [Next]_vars PROVE TypeOK'
  BY Zenon
<1>0. TypeOK
  BY Zenon DEF Locks
<1>1. CASE \E a \in Requests : RequestStep(a)
  BY <1>0, <1>1, RequestType, Zenon DEF Locks
<1>2. CASE \E a \in Requests : LeaseStep(a)
  BY <1>0, <1>2, LeaseType, Zenon DEF Locks
<1>3. CASE PromotionStep
  BY <1>0, <1>3, PromotionType, Zenon DEF Locks
<1>4. ASSUME NEW a \in Requests, NEW k \in Keys \cup {None}, Renew(a, k) PROVE TypeOK'
  <2>1. reserved[a] + Price \in Nat /\ ProjectOf[a] \in Projects /\ spent[ProjectOf[a]] + Price \in Int
    BY <1>0, ProjectAssumption, PriceAssumption DEF TypeOK
  <2>2. reserved' \in [Requests -> Nat] /\ spent' \in [Projects -> Int]
    BY <1>0, <1>4, <2>1, Zenon DEF TypeOK, Renew, Reserve
  <2>3. idem' \in [Keys -> [kind : {"none", "request", "renew"}, alloc : Requests \cup {None}]]
    BY <1>0, <1>4 DEF TypeOK, Renew, RecordKey
  <2>4. lease' \in [Requests -> {"none", "live", "lapsed"}]
    BY <1>0, <1>4 DEF TypeOK, Renew
  <2> QED
    BY <1>0, <1>4, <2>2, <2>3, <2>4, Zenon DEF TypeOK, Renew, Reserve
<1>5. CASE \E h \in Hosts : SetCordoned(h)
  BY <1>0, <1>5 DEF TypeOK, SetCordoned
<1>6. CASE \E k \in Keys : GcIdempotencyKey(k)
  BY <1>0, <1>6 DEF TypeOK, GcIdempotencyKey, NoRow
<1>7. CASE ExpireSelect
  BY <1>0, <1>7, Zenon DEF TypeOK, ExpireSelect
<1>8. CASE OrphanSelect
  BY <1>0, <1>8, Zenon DEF TypeOK, OrphanSelect
<1>9. CASE ReapQueueTimeouts
  BY <1>0, <1>9 DEF TypeOK, ReapQueueTimeouts, AllocationStates
<1>10. CASE UNCHANGED vars
  BY <1>0, <1>10, Zenon DEF TypeOK, vars
<1> QED
  BY <1>1, <1>2, <1>3, <1>4, <1>5, <1>6, <1>7, <1>8, <1>9, <1>10, Zenon DEF Next
=============================================================================
