--------------------------- MODULE AllocationCaps ---------------------------
(***************************************************************************)
(* Proof that quota, host cap and pending cap are never exceeded.  A slot  *)
(* is taken as soon as the pass plans to take it, and a request that       *)
(* passed the gate still has room when it writes.                          *)
(***************************************************************************)
EXTENDS AllocationLocks

USE DEF rowVars, lockVars, flightVars, passVars

Taken(p) == Occupying(p) \cup (planned \cap InProject(p))

TakenOn(h) == OnHost(h) \cup {a \in planned : target[a] = h}

Caps ==
    /\ \A p \in Projects : Cardinality(Taken(p)) <= Quota[p]
    /\ \A h \in Hosts : Cardinality(TakenOn(h)) <= HostCap[h]
    /\ \A p \in Projects : Cardinality(Pending(p)) <= PendingCap[p]
    /\ \A a \in Requests : pc[a] = "grant" =>
          /\ Cardinality(Occupying(ProjectOf[a])) < Quota[ProjectOf[a]]
          /\ Cardinality(OnHost(target[a])) < HostCap[target[a]]
    /\ \A a \in Requests : pc[a] = "queue" => Cardinality(Pending(ProjectOf[a])) < PendingCap[ProjectOf[a]]

\* Steps that take no slot, no queue position and pass no gate.
TakesNothing ==
    /\ \A a \in Requests : astate'[a] \in OCCUPYING => astate[a] \in OCCUPYING /\ host'[a] = host[a]
    /\ \A a \in Requests : astate'[a] = "requested" => astate[a] = "requested"
    /\ planned' \subseteq planned
    /\ \A a \in planned' : target'[a] = target[a]
    /\ \A a \in Requests : pc'[a] \in {"grant", "queue"} => pc'[a] = pc[a] /\ target'[a] = target[a]

\* A subset of a set within a cap is within the cap.
LEMMA SmallerSet ==
    ASSUME NEW S \in SUBSET Requests, NEW T \in SUBSET S, NEW n \in Nat
    PROVE  /\ Cardinality(S) <= n => Cardinality(T) <= n
           /\ Cardinality(S) < n => Cardinality(T) < n
<1>1. IsFiniteSet(S) /\ Cardinality(S) \in Nat /\ Cardinality(T) \in Nat
  BY SubsetCardinality, Zenon
<1>2. Cardinality(T) <= Cardinality(S)
  BY <1>1, FS_Subset, Zenon
<1> QED
  BY <1>1, <1>2

\* A set strictly below a cap has room for one more element.
LEMMA OneMore ==
    ASSUME NEW S \in SUBSET Requests, NEW a \in Requests, NEW n \in Nat, Cardinality(S) < n
    PROVE  Cardinality(S \cup {a}) <= n
<1>1. IsFiniteSet(S) /\ Cardinality(S) \in Nat
  BY SubsetCardinality, Zenon
<1>2. Cardinality(S \cup {a}) = Cardinality(S) \/ Cardinality(S \cup {a}) = Cardinality(S) + 1
  BY <1>1, FS_AddElement, Zenon
<1> QED
  BY <1>1, <1>2

\* A step that takes nothing leaves every cap kept.
LEMMA TakesNothingKeepsCaps ==
    ASSUME LockInv, LockTypes, Caps, LockTypes', LockInv', TakesNothing
    PROVE  Caps'
<1> USE ProjectAssumption, CapAssumption DEF TakesNothing
<1>1. ASSUME NEW p \in Projects
      PROVE  /\ Taken(p) \in SUBSET Requests /\ Taken(p)' \in SUBSET Taken(p)
             /\ Occupying(p) \in SUBSET Requests /\ Occupying(p)' \in SUBSET Occupying(p)
             /\ Pending(p) \in SUBSET Requests /\ Pending(p)' \in SUBSET Pending(p)
  BY Zenon DEF Taken, Occupying, Pending, InProject, LockTypes
<1>2. ASSUME NEW h \in Hosts
      PROVE  /\ TakenOn(h) \in SUBSET Requests /\ TakenOn(h)' \in SUBSET TakenOn(h)
             /\ OnHost(h) \in SUBSET Requests /\ OnHost(h)' \in SUBSET OnHost(h)
  BY Zenon DEF TakenOn, OnHost, LockTypes
<1>3. \A p \in Projects : Cardinality(Taken(p)') <= Quota[p] /\ Cardinality(Pending(p)') <= PendingCap[p]
  BY <1>1, SmallerSet, Zenon DEF Caps
<1>4. \A h \in Hosts : Cardinality(TakenOn(h)') <= HostCap[h]
  BY <1>2, SmallerSet, Zenon DEF Caps
<1>5. ASSUME NEW a \in Requests, pc'[a] = "grant"
      PROVE  (/\ Cardinality(Occupying(ProjectOf[a])) < Quota[ProjectOf[a]]
              /\ Cardinality(OnHost(target[a])) < HostCap[target[a]])'
  <2>1. pc[a] = "grant" /\ ProjectOf[a] \in Projects
    BY <1>5, Zenon
  <2>2. PICK h \in Hosts : h = target[a] /\ h = target'[a]
    BY <2>1, <1>5, Zenon DEF LockInv, RequestsHoldTheirLocks
  <2>3. Cardinality(Occupying(ProjectOf[a])') < Quota[ProjectOf[a]]
    BY <2>1, <1>1, SmallerSet, Zenon DEF Caps
  <2>4. HostCap[h] \in Nat /\ Cardinality(OnHost(h)) < HostCap[h]
    BY <2>1, <2>2, Zenon DEF Caps
  <2>5. Cardinality(OnHost(h)') < HostCap[h]
    BY <2>4, <1>2, SmallerSet, Zenon
  <2>6. OnHost(h)' = OnHost(target[a])'
    BY <2>2, Zenon DEF OnHost
  <2> QED
    BY <2>2, <2>3, <2>5, <2>6, Zenon
<1>6. ASSUME NEW a \in Requests, pc'[a] = "queue"
      PROVE  Cardinality(Pending(ProjectOf[a])') < PendingCap[ProjectOf[a]]
  BY <1>6, <1>1, SmallerSet, Zenon DEF Caps
<1> QED
  BY <1>3, <1>4, <1>5, <1>6, Zenon DEF Caps

\* The steps that may take a slot or a queue position, or open a gate.
TakesSomething ==
    \/ \E a \in Requests : GateGrants(a) \/ GateQueues(a) \/ Grant(a) \/ Enqueue(a)
    \/ \E h \in Hosts : PromoteGrant(h)
    \/ PromoteCommit

\* Only gates, request writes and two steps of the pass can take something.
LEMMA MostStepsTakeNothing ==
    ASSUME LockInv, LockTypes, [Next]_vars, ~TakesSomething
    PROVE  TakesNothing
<1> USE ProjectAssumption DEF LockInv, LockTypes, TakesNothing, OCCUPYING
<1>1. ASSUME NEW a \in Requests, RequestStep(a) PROVE TakesNothing
  <2>1. CASE Place(a)
    BY <2>1, <1>1 DEF Place, RequestsHoldTheirLocks, PassHoldsItsLocks
  <2>2. CASE LockProject(a)
    BY <2>2, <1>1 DEF LockProject, RequestsHoldTheirLocks, PassHoldsItsLocks
  <2>3. CASE Replay(a)
    BY <2>3, <1>1 DEF Replay, Finish, RequestsHoldTheirLocks, PassHoldsItsLocks
  <2>4. CASE LockHost(a)
    BY <2>4, <1>1 DEF LockHost, RequestsHoldTheirLocks, PassHoldsItsLocks
  <2>5. CASE GateDenies(a)
    BY <2>5, <1>1 DEF GateDenies, Finish, RequestsHoldTheirLocks, PassHoldsItsLocks
  <2>6. CASE KeyConflict(a)
    BY <2>6, <1>1 DEF KeyConflict, Finish, RequestsHoldTheirLocks, PassHoldsItsLocks
  <2>7. CASE RequestFails(a)
    BY <2>7, <1>1 DEF RequestFails, Finish, RequestsHoldTheirLocks, PassHoldsItsLocks
  <2> HIDE DEF TakesNothing, LockInv, LockTypes
  <2> QED
    BY <1>1, <2>1, <2>2, <2>3, <2>4, <2>5, <2>6, <2>7, Zenon DEF RequestStep, TakesSomething
<1>2. ASSUME NEW a \in Requests, LeaseStep(a) PROVE TakesNothing
  <2>1. CASE ReleaseQueued(a)
    BY <2>1, Zenon DEF ReleaseQueued
  <2>2. CASE Release(a)
    BY <2>2, Zenon DEF Release, EndLease
  <2>3. CASE LeaseLapses(a)
    BY <2>3, Zenon DEF LeaseLapses
  <2>4. CASE ExpireOne(a)
    BY <2>4, Zenon DEF ExpireOne, EndLease
  <2>5. CASE ExpireFails(a)
    BY <2>5, Zenon DEF ExpireFails
  <2>6. CASE ReclaimOrphan(a)
    BY <2>6, Zenon DEF ReclaimOrphan, EndLease
  <2>7. CASE ReclaimFails(a)
    BY <2>7, Zenon DEF ReclaimFails
  <2>8. CASE Provision(a)
    BY <2>8, Zenon DEF Provision
  <2>9. CASE SystemReady(a)
    BY <2>9, Zenon DEF SystemReady
  <2>10. CASE SystemEnds(a)
    BY <2>10, Zenon DEF SystemEnds
  <2> HIDE DEF TakesNothing, LockInv, LockTypes
  <2> QED
    BY <1>2, <2>1, <2>2, <2>3, <2>4, <2>5, <2>6, <2>7, <2>8, <2>9, <2>10, Zenon DEF LeaseStep
<1>3. CASE PromotionStep
  <2>1. CASE PromoteSelect \/ PromoteLockProject \/ PromoteLeavesQueued \/ PromoteError
    BY <2>1, Zenon DEF PromoteSelect, PromoteLockProject, PromoteLeavesQueued, PromoteError
  <2>2. CASE PromoteAbort
    BY <2>2, Zenon DEF PromoteAbort, PassEnds, RequestsHoldTheirLocks, PassHoldsItsLocks
  <2>3. CASE \E a \in Requests : PromoteNext(a)
    BY <2>3, Zenon DEF PromoteNext
  <2>4. CASE \E h \in Hosts : PromoteTerminate(h) \/ PromoteNextHost(h)
    BY <2>4, Zenon DEF PromoteTerminate, PromoteNextHost
  <2> HIDE DEF TakesNothing, LockInv, LockTypes
  <2> QED
    BY <1>3, <2>1, <2>2, <2>3, <2>4, Zenon DEF PromotionStep, TakesSomething
<1>4. CASE \E a \in Requests, k \in Keys \cup {None} : Renew(a, k)
  BY <1>4, Zenon DEF Renew
<1>5. CASE (\E h \in Hosts : SetCordoned(h)) \/ \E k \in Keys : GcIdempotencyKey(k)
  BY <1>5, Zenon DEF SetCordoned, GcIdempotencyKey
<1>6. CASE ExpireSelect \/ OrphanSelect
  BY <1>6, Zenon DEF ExpireSelect, OrphanSelect
<1>7. CASE ReapQueueTimeouts
  BY <1>7, Zenon DEF ReapQueueTimeouts
<1>8. CASE UNCHANGED vars
  BY <1>8, Zenon DEF vars
<1> HIDE DEF TakesNothing, LockInv, LockTypes
<1> QED
  BY <1>1, <1>2, <1>3, <1>4, <1>5, <1>6, <1>7, <1>8, Zenon DEF Next
=============================================================================
