-------------------------- MODULE AllocationProofs --------------------------
(***************************************************************************)
(* The promotion pass keeps the caps, and the theorems about Allocation.   *)
(***************************************************************************)
EXTENDS AllocationWrites

USE DEF rowVars, lockVars, flightVars, passVars

\* The pass takes one slot more than it has planned, of a project and a host it
\* has locked, in the room left by its committed and its uncommitted grants.
LEMMA PromoteGrantKeepsCaps ==
    ASSUME LockInv, LockTypes, Caps, LockInv', NEW h \in Hosts, PromoteGrant(h)
    PROVE  Caps'
<1> USE RequestsAssumption, ProjectAssumption, CapAssumption
<1>1. /\ cur \in Requests /\ cur \notin planned /\ projLock[ProjectOf[cur]] = Reconciler
      /\ ProjectOf[cur] \in Projects /\ astate[cur] = "requested"
  BY Zenon DEF PromoteGrant, LockCandidateHost, LockInv, PassHoldsItsLocks
<1>2. PICK p \in Projects : p = ProjectOf[cur]
  BY <1>1, Zenon
<1>3. /\ astate' = astate /\ host' = host /\ pc' = pc /\ planned' = planned \cup {cur}
      /\ target'[cur] = h /\ \A b \in Requests : b # cur => target'[b] = target[b]
  BY <1>1, Zenon DEF PromoteGrant, rowVars, LockTypes
<1>4. \A q \in Projects : Occupying(q)' = Occupying(q) /\ Pending(q)' = Pending(q)
  BY <1>3, Zenon DEF Occupying, Pending
<1>5. \A g \in Hosts : OnHost(g)' = OnHost(g)
  BY <1>3, Zenon DEF OnHost
<1>6. WithinQuota(p, planned) /\ UnderCap(h, planned)
  BY <1>2, Zenon DEF PromoteGrant, Gate
<1>7. \A b \in Requests : pc[b] \in {"grant", "queue"} => b # cur
  BY <1>1, Zenon DEF LockInv, RequestsHoldTheirLocks
<1>8. ASSUME NEW q \in Projects PROVE Cardinality(Taken(q)') <= Quota[q]
  <2>0. Taken(q) \in SUBSET Requests
    BY Zenon DEF Taken, Occupying, InProject, LockTypes
  <2>1. CASE q = p
    <3>1. Taken(q)' = Taken(q) \cup {cur}
      BY <2>1, <1>1, <1>2, <1>3, <1>4, Zenon DEF Taken, InProject
    <3>2. Cardinality(Taken(q)) < Quota[q]
      BY <2>1, <1>6, Zenon DEF WithinQuota, Taken
    <3> QED
      BY <3>1, <3>2, <2>0, <1>1, OneMore, Zenon
  <2>2. CASE q # p
    <3>1. Taken(q)' = Taken(q)
      BY <2>2, <1>2, <1>3, <1>4, Zenon DEF Taken, InProject
    <3> QED
      BY <3>1, Zenon DEF Caps
  <2> QED
    BY <2>1, <2>2, Zenon
<1>9. ASSUME NEW g \in Hosts PROVE Cardinality(TakenOn(g)') <= HostCap[g]
  <2>0. TakenOn(g) \in SUBSET Requests /\ planned \in SUBSET Requests
    BY Zenon DEF TakenOn, OnHost, LockTypes
  <2>1. CASE g = h
    <3>1. {b \in planned : target[b] = g}' = {b \in planned : target[b] = g} \cup {cur}
      BY <2>0, <2>1, <1>1, <1>3, Zenon
    <3>2. TakenOn(g)' = TakenOn(g) \cup {cur}
      BY <3>1, <1>5, Zenon DEF TakenOn
    <3>3. Cardinality(TakenOn(g)) < HostCap[g]
      BY <2>1, <1>6, Zenon DEF UnderCap, TakenOn
    <3> QED
      BY <3>2, <3>3, <2>0, <1>1, OneMore, Zenon
  <2>2. CASE g # h
    <3>1. {b \in planned : target[b] = g}' = {b \in planned : target[b] = g}
      BY <2>0, <2>2, <1>1, <1>3, Zenon
    <3>2. TakenOn(g)' = TakenOn(g)
      BY <3>1, <1>5, Zenon DEF TakenOn
    <3> QED
      BY <3>2, Zenon DEF Caps
  <2> QED
    BY <2>1, <2>2, Zenon
<1>10. ASSUME NEW b \in Requests, NEW g \in Hosts, pc'[b] \in {"grant", "queue"}, target'[b] = g
       PROVE  RoomFor(b, ProjectOf[b], g)'
  <2>1. pc'[b] = pc[b] /\ target[b] = g /\ ProjectOf[b] \in Projects
    BY <1>3, <1>7, <1>10, Zenon
  <2>2. RoomFor(b, ProjectOf[b], g)
    BY <2>1, <1>10, RoomFromCaps, Zenon
  <2> QED
    BY <2>1, <2>2, <1>4, <1>5, Zenon DEF RoomFor
<1>11. \A q \in Projects : Cardinality(Taken(q)') <= Quota[q] /\ Cardinality(Pending(q)') <= PendingCap[q]
  BY <1>4, <1>8, Zenon DEF Caps
<1> QED
  BY <1>9, <1>10, <1>11, CapsFromRoom, Zenon

\* The pass's commit turns its planned slots into taken ones; a request past its
\* gate holds a project and a host the pass has not locked.
LEMMA PromoteCommitKeepsCaps ==
    ASSUME LockInv, LockTypes, Caps, LockInv', PromoteCommit
    PROVE  Caps'
<1> USE RequestsAssumption, ProjectAssumption, CapAssumption
<1>1. /\ planned \in SUBSET Requests /\ planned' = {} /\ pc' = pc
      /\ \A b \in Requests : b \notin planned => target'[b] = target[b] /\ host'[b] = host[b]
      /\ \A b \in planned : astate[b] = "requested" /\ astate'[b] = "granted" /\ host'[b] = target[b]
      /\ \A b \in Requests : b \notin planned => astate'[b] = astate[b] \/ astate'[b] = "failed"
  BY Zenon DEF PromoteCommit, PassEnds, LockInv, LockTypes, PassHoldsItsLocks
<1>2. ASSUME NEW q \in Projects
      PROVE  /\ Taken(q)' \in SUBSET Taken(q) /\ Taken(q) \in SUBSET Requests
             /\ Occupying(q)' \in SUBSET Taken(q)
             /\ Pending(q)' \in SUBSET Pending(q) /\ Pending(q) \in SUBSET Requests
  BY <1>1, Zenon DEF Taken, Occupying, Pending, InProject, OCCUPYING
<1>3. ASSUME NEW g \in Hosts
      PROVE  /\ TakenOn(g)' \in SUBSET TakenOn(g) /\ TakenOn(g) \in SUBSET Requests
             /\ OnHost(g)' \in SUBSET TakenOn(g)
  BY <1>1, Zenon DEF TakenOn, OnHost, OCCUPYING
<1>4. ASSUME NEW b \in Requests, NEW g \in Hosts, pc'[b] \in {"grant", "queue"}, target'[b] = g
      PROVE  RoomFor(b, ProjectOf[b], g)'
  <2>1. b \notin planned
    BY <1>1, <1>4, Zenon DEF LockInv, RequestsHoldTheirLocks
  <2>2. pc'[b] = pc[b] /\ target[b] = g /\ ProjectOf[b] \in Projects
    BY <2>1, <1>1, <1>4, Zenon
  <2>3. \A c \in planned : ProjectOf[c] # ProjectOf[b] /\ target[c] # g
    BY <2>2, <1>1, <1>4 DEF LockInv, RequestsHoldTheirLocks, PassHoldsItsLocks
  <2>4. Taken(ProjectOf[b]) = Occupying(ProjectOf[b]) /\ TakenOn(g) = OnHost(g)
    BY <2>3, Zenon DEF Taken, TakenOn, InProject
  <2>5. RoomFor(b, ProjectOf[b], g)
    BY <2>2, <1>4, RoomFromCaps, Zenon
  <2>6. /\ Occupying(ProjectOf[b])' \in SUBSET Occupying(ProjectOf[b])
        /\ Pending(ProjectOf[b])' \in SUBSET Pending(ProjectOf[b])
        /\ Occupying(ProjectOf[b]) \in SUBSET Requests /\ Pending(ProjectOf[b]) \in SUBSET Requests
        /\ OnHost(g)' \in SUBSET OnHost(g) /\ OnHost(g) \in SUBSET Requests
    BY <2>2, <2>4, <1>2, <1>3, Zenon
  <2>7. Quota[ProjectOf[b]] \in Nat /\ PendingCap[ProjectOf[b]] \in Nat /\ HostCap[g] \in Nat
    BY <2>2, Zenon
  <2> QED
    BY <2>2, <2>5, <2>6, <2>7, SmallerSet, Zenon DEF RoomFor
<1>5. \A q \in Projects : Cardinality(Taken(q)') <= Quota[q] /\ Cardinality(Pending(q)') <= PendingCap[q]
  BY <1>2, SmallerSet, Zenon DEF Caps
<1>6. \A g \in Hosts : Cardinality(TakenOn(g)') <= HostCap[g]
  BY <1>3, SmallerSet, Zenon DEF Caps
<1> QED
  BY <1>4, <1>5, <1>6, CapsFromRoom, Zenon

\* An empty store is within every cap.
LEMMA InitCaps == Init => Caps
<1> SUFFICES ASSUME Init PROVE Caps
  BY Zenon
<1> USE CapAssumption
<1>1. \A p \in Projects : Taken(p) = {} /\ Pending(p) = {}
  BY Zenon DEF Init, Taken, Occupying, Pending, InProject, OCCUPYING
<1>2. \A h \in Hosts : TakenOn(h) = {}
  BY Zenon DEF Init, TakenOn, OnHost, OCCUPYING
<1>3. \A a \in Requests : pc[a] = "start"
  BY Zenon DEF Init
<1> QED
  BY <1>1, <1>2, <1>3, FS_EmptySet DEF Caps

\* Every step keeps the caps, given the lock discipline.
LEMMA StepCaps == Locks /\ Caps /\ [Next]_vars => Caps'
<1> SUFFICES ASSUME Locks, Caps, [Next]_vars PROVE Caps'
  BY Zenon
<1>1. LockInv /\ LockTypes /\ LockInv' /\ LockTypes'
  <2>1. Locks'
    BY StepType, StepLocks, Zenon DEF Locks, LockInv
  <2>2. LockInv' /\ LockTypes'
    BY <2>1, Zenon DEF Locks, LockInv, LockTypes, TypeOK
  <2> QED
    BY <2>2, LockParts, Zenon
<1>2. CASE ~TakesSomething
  BY <1>1, <1>2, MostStepsTakeNothing, TakesNothingKeepsCaps, Zenon
<1>3. CASE TakesSomething
  BY <1>1, <1>3, GatesKeepCaps, WritesKeepCaps, PromoteGrantKeepsCaps, PromoteCommitKeepsCaps, Zenon DEF TakesSomething
<1> QED
  BY <1>2, <1>3, Zenon

\* Caps is inductive together with Locks.
LEMMA CapsHold == Spec => [](Locks /\ Caps)
<1>1. Init => Locks /\ Caps
  BY InitType, InitLocks, InitCaps, Zenon DEF Locks, LockInv
<1>2. Locks /\ Caps /\ [Next]_vars => (Locks /\ Caps)'
  BY StepType, StepLocks, StepCaps, Zenon DEF Locks, LockInv
<1> QED
  BY <1>1, <1>2, PTL DEF Spec

-----------------------------------------------------------------------------
(* Theorems.                                                               *)

\* Every reachable state of admission, promotion, lease and ledger is well typed.
THEOREM TypeCorrect == Spec => []TypeOK
<1>1. Locks => TypeOK
  BY Zenon DEF Locks
<1> QED
  BY <1>1, LocksHold, PTL

\* The concurrency quota check of admission_gate is never overrun, for any number
\* of requests, projects and hosts: requests of a project and the promotion pass
\* decide and write under the PROJECT lock, and the pass counts its own
\* uncommitted grants.
THEOREM QuotaIsNeverExceeded == Spec => []QuotaHolds
<1>1. Locks /\ Caps => QuotaHolds
  <2> SUFFICES ASSUME Locks, Caps, NEW p \in Projects PROVE Cardinality(Occupying(p)) <= Quota[p]
    BY Zenon DEF QuotaHolds
  <2>1. Taken(p) \in SUBSET Requests /\ Occupying(p) \in SUBSET Taken(p) /\ Quota[p] \in Nat
    BY CapAssumption, Zenon DEF Taken, Occupying, InProject
  <2> QED
    BY <2>1, SmallerSet, Zenon DEF Caps
<1> QED
  BY <1>1, CapsHold, PTL

\* The host cap check is never overrun by requests of different projects or by
\* the promotion pass, which share only the RESOURCE lock of the host.
THEOREM HostCapIsNeverExceeded == Spec => []HostCapHolds
<1>1. Locks /\ Caps => HostCapHolds
  <2> SUFFICES ASSUME Locks, Caps, NEW h \in Hosts PROVE Cardinality(OnHost(h)) <= HostCap[h]
    BY Zenon DEF HostCapHolds
  <2>1. TakenOn(h) \in SUBSET Requests /\ OnHost(h) \in SUBSET TakenOn(h) /\ HostCap[h] \in Nat
    BY CapAssumption, LockParts, Zenon DEF TakenOn, OnHost, LockTypes
  <2> QED
    BY <2>1, SmallerSet, Zenon DEF Caps
<1> QED
  BY <1>1, CapsHold, PTL

\* _enqueue never lets a project's backlog grow past max_pending_allocations.
THEOREM PendingCapIsNeverExceeded == Spec => []PendingCapHolds
<1>1. Locks /\ Caps => PendingCapHolds
  BY Zenon DEF Caps, PendingCapHolds
<1> QED
  BY <1>1, CapsHold, PTL
=============================================================================
