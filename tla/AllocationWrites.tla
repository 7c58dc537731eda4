-------------------------- MODULE AllocationWrites --------------------------
(***************************************************************************)
(* A request's gates and writes keep the caps.                             *)
(***************************************************************************)
EXTENDS AllocationCaps

USE DEF rowVars, lockVars, flightVars, passVars

\* A request that passed its gate still sees the room its gate saw.
RoomFor(a, p, h) ==
    /\ pc[a] = "grant" => Cardinality(Occupying(p)) < Quota[p] /\ Cardinality(OnHost(h)) < HostCap[h]
    /\ pc[a] = "queue" => Cardinality(Pending(p)) < PendingCap[p]

\* Caps', from the room of each request at the host it targets.
LEMMA CapsFromRoom ==
    ASSUME LockInv',
           \A p \in Projects : Cardinality(Taken(p)') <= Quota[p] /\ Cardinality(Pending(p)') <= PendingCap[p],
           \A h \in Hosts : Cardinality(TakenOn(h)') <= HostCap[h],
           \A a \in Requests, h \in Hosts :
               pc'[a] \in {"grant", "queue"} /\ target'[a] = h => RoomFor(a, ProjectOf[a], h)'
    PROVE  Caps'
<1>1. ASSUME NEW a \in Requests, pc'[a] = "grant"
      PROVE  (/\ Cardinality(Occupying(ProjectOf[a])) < Quota[ProjectOf[a]]
              /\ Cardinality(OnHost(target[a])) < HostCap[target[a]])'
  <2>1. PICK h \in Hosts : h = target'[a]
    BY <1>1, Zenon DEF LockInv, RequestsHoldTheirLocks
  <2>2. RoomFor(a, ProjectOf[a], h)'
    BY <1>1, <2>1, Zenon
  <2>3. OnHost(h)' = OnHost(target[a])'
    BY <2>1, Zenon DEF OnHost
  <2> HIDE DEF TakesNothing, LockInv, LockTypes
  <2> QED
    BY <1>1, <2>1, <2>2, <2>3, Zenon DEF RoomFor
<1>2. ASSUME NEW a \in Requests, pc'[a] = "queue"
      PROVE  Cardinality(Pending(ProjectOf[a])') < PendingCap[ProjectOf[a]]
  <2>1. PICK h \in Hosts : h = target'[a]
    BY <1>2, Zenon DEF LockInv, RequestsHoldTheirLocks
  <2> HIDE DEF TakesNothing, LockInv, LockTypes
  <2> QED
    BY <1>2, <2>1, Zenon DEF RoomFor
<1> QED
  BY <1>1, <1>2, Zenon DEF Caps

\* What Caps says of one request past its gate.
LEMMA RoomFromCaps ==
    ASSUME Caps, NEW a \in Requests, NEW h \in Hosts, pc[a] \in {"grant", "queue"}, target[a] = h
    PROVE  RoomFor(a, ProjectOf[a], h)
  BY Zenon DEF Caps, RoomFor

\* Passing a gate moves no row: the room it saw is the room the caps leave.
LEMMA GatesKeepCaps ==
    ASSUME LockInv, LockTypes, Caps, LockInv', NEW a \in Requests, GateGrants(a) \/ GateQueues(a)
    PROVE  Caps'
<1> USE ProjectAssumption, CapAssumption
<1>1. astate' = astate /\ host' = host /\ planned' = planned /\ target' = target
  BY Zenon DEF GateGrants, GateQueues, rowVars, passVars
<1>2. \A b \in Requests : b # a => pc'[b] = pc[b]
  BY Zenon DEF GateGrants, GateQueues, LockTypes
<1>3. \A p \in Projects : Taken(p)' = Taken(p) /\ Occupying(p)' = Occupying(p) /\ Pending(p)' = Pending(p)
  BY <1>1, Zenon DEF Taken, Occupying, Pending
<1>4. \A h \in Hosts : TakenOn(h)' = TakenOn(h) /\ OnHost(h)' = OnHost(h)
  BY <1>1, Zenon DEF TakenOn, OnHost
<1>5. ASSUME NEW h \in Hosts, target[a] = h PROVE RoomFor(a, ProjectOf[a], h)'
  <2>1. CASE GateGrants(a)
    <3>1. Gate(a, h, {}) = "ok" /\ pc'[a] = "grant"
      BY <1>5, <2>1, Zenon DEF GateGrants, LockTypes
    <3>2. WithinQuota(ProjectOf[a], {}) /\ UnderCap(h, {})
      BY <3>1, Zenon DEF Gate
    <3>3. Occupying(ProjectOf[a]) \cup ({} \cap InProject(ProjectOf[a])) = Occupying(ProjectOf[a])
      BY Zenon
    <3>4. OnHost(h) \cup {b \in {} : target[b] = h} = OnHost(h)
      BY Zenon
    <3> QED
      BY <3>1, <3>2, <3>3, <3>4, <1>3, <1>4, Zenon DEF RoomFor, WithinQuota, UnderCap
  <2>2. CASE GateQueues(a)
    <3>1. pc'[a] = "queue" /\ WithinPending(ProjectOf[a])
      BY <2>2, Zenon DEF GateQueues, LockTypes
    <3> QED
      BY <3>1, <1>3, Zenon DEF RoomFor, WithinPending
  <2> QED
    BY <2>1, <2>2, Zenon
<1>6. ASSUME NEW b \in Requests, NEW h \in Hosts, pc'[b] \in {"grant", "queue"}, target'[b] = h
      PROVE  RoomFor(b, ProjectOf[b], h)'
  <2>1. CASE b = a
    BY <2>1, <1>1, <1>5, <1>6, Zenon
  <2>2. CASE b # a
    <3>1. RoomFor(b, ProjectOf[b], h)
      BY <2>2, <1>1, <1>2, <1>6, RoomFromCaps, Zenon
    <3> QED
      BY <3>1, <2>2, <1>2, <1>3, <1>4, Zenon DEF RoomFor
  <2> QED
    BY <2>1, <2>2, Zenon
<1>7. \A p \in Projects : Cardinality(Taken(p)') <= Quota[p] /\ Cardinality(Pending(p)') <= PendingCap[p]
  BY <1>3, Zenon DEF Caps
<1>8. \A h \in Hosts : Cardinality(TakenOn(h)') <= HostCap[h]
  BY <1>4, Zenon DEF Caps
<1> QED
  BY <1>6, <1>7, <1>8, CapsFromRoom, Zenon

\* A request inserts its row in a project and on a host where the pass has
\* planned nothing and no other request is past its gate.
RowInserted(a, p, h) ==
    /\ h = target[a] /\ p = ProjectOf[a] /\ astate[a] = "absent"
    /\ planned \in SUBSET Requests /\ a \notin planned
    /\ \A b \in planned : ProjectOf[b] # p /\ target[b] # h
    /\ \A b \in Requests : b # a /\ pc[b] \in {"grant", "queue"} => ProjectOf[b] # p /\ target[b] # h
    /\ planned' = planned /\ pc'[a] = "done"
    /\ \A b \in Requests : b # a =>
          pc'[b] = pc[b] /\ target'[b] = target[b] /\ astate'[b] = astate[b] /\ host'[b] = host[b]

\* The row a request's grant inserts takes one slot of its project and one of
\* its host, which have the room the gate saw.
LEMMA SlotTaken ==
    ASSUME Caps, LockInv', NEW a \in Requests, NEW p \in Projects, NEW h \in Hosts,
           RowInserted(a, p, h),
           astate'[a] = "granted", host'[a] = h,
           Cardinality(Occupying(p)) < Quota[p], Cardinality(OnHost(h)) < HostCap[h]
    PROVE  Caps'
<1> USE ProjectAssumption, CapAssumption DEF RowInserted
<1>1. ASSUME NEW q \in Projects, q # p
      PROVE  Taken(q)' = Taken(q) /\ Occupying(q)' = Occupying(q) /\ Pending(q)' = Pending(q)
  BY <1>1, Zenon DEF Taken, Occupying, Pending, InProject
<1>2. ASSUME NEW g \in Hosts, g # h
      PROVE  TakenOn(g)' = TakenOn(g) /\ OnHost(g)' = OnHost(g)
  <2>1. OnHost(g)' = OnHost(g)
    BY <1>2, Zenon DEF OnHost, OCCUPYING
  <2>2. {b \in planned : target[b] = g}' = {b \in planned : target[b] = g}
    BY Zenon
  <2> QED
    BY <2>1, <2>2, Zenon DEF TakenOn
<1>3. Taken(p)' = Occupying(p) \cup {a} /\ Pending(p)' = Pending(p)
  BY Zenon DEF Taken, Occupying, Pending, InProject, OCCUPYING
<1>4. TakenOn(h)' = OnHost(h) \cup {a}
  BY Zenon DEF TakenOn, OnHost, OCCUPYING
<1>5. Occupying(p) \in SUBSET Requests /\ OnHost(h) \in SUBSET Requests
  BY Zenon DEF Occupying, OnHost, InProject
<1>6. Cardinality(Taken(p)') <= Quota[p] /\ Cardinality(TakenOn(h)') <= HostCap[h]
  BY <1>3, <1>4, <1>5, OneMore, Zenon
<1>7. ASSUME NEW b \in Requests, NEW g \in Hosts, pc'[b] \in {"grant", "queue"}, target'[b] = g
      PROVE  RoomFor(b, ProjectOf[b], g)'
  <2>1. b # a /\ pc'[b] = pc[b] /\ target[b] = g
    BY <1>7, Zenon
  <2>2. ProjectOf[b] # p /\ g # h /\ ProjectOf[b] \in Projects
    BY <2>1, <1>7, Zenon
  <2>3. RoomFor(b, ProjectOf[b], g)
    BY <2>1, <1>7, RoomFromCaps, Zenon
  <2> QED
    BY <2>1, <2>2, <2>3, <1>1, <1>2, Zenon DEF RoomFor
<1>8. \A q \in Projects : Cardinality(Taken(q)') <= Quota[q] /\ Cardinality(Pending(q)') <= PendingCap[q]
  BY <1>1, <1>3, <1>6, Zenon DEF Caps
<1>9. \A g \in Hosts : Cardinality(TakenOn(g)') <= HostCap[g]
  BY <1>2, <1>6, Zenon DEF Caps
<1> HIDE DEF RowInserted
<1> QED
  BY <1>7, <1>8, <1>9, CapsFromRoom, Zenon

\* The row an enqueued request inserts takes one position of its project's backlog.
LEMMA PositionTaken ==
    ASSUME Caps, LockInv', NEW a \in Requests, NEW p \in Projects, NEW h \in Hosts,
           RowInserted(a, p, h),
           astate'[a] = "requested", Cardinality(Pending(p)) < PendingCap[p]
    PROVE  Caps'
<1> USE ProjectAssumption, CapAssumption DEF RowInserted
<1>1. ASSUME NEW q \in Projects
      PROVE  /\ Taken(q)' = Taken(q) /\ Occupying(q)' = Occupying(q)
             /\ q # p => Pending(q)' = Pending(q)
  BY <1>1, Zenon DEF Taken, Occupying, Pending, InProject, OCCUPYING
<1>2. ASSUME NEW g \in Hosts
      PROVE  TakenOn(g)' = TakenOn(g) /\ OnHost(g)' = OnHost(g)
  <2>1. OnHost(g)' = OnHost(g)
    BY Zenon DEF OnHost, OCCUPYING
  <2>2. {b \in planned : target[b] = g}' = {b \in planned : target[b] = g}
    BY Zenon
  <2> QED
    BY <2>1, <2>2, Zenon DEF TakenOn
<1>3. Pending(p)' = Pending(p) \cup {a} /\ Pending(p) \in SUBSET Requests
  BY Zenon DEF Pending, InProject
<1>4. Cardinality(Pending(p)') <= PendingCap[p]
  BY <1>3, OneMore, Zenon
<1>5. ASSUME NEW b \in Requests, NEW g \in Hosts, pc'[b] \in {"grant", "queue"}, target'[b] = g
      PROVE  RoomFor(b, ProjectOf[b], g)'
  <2>1. b # a /\ pc'[b] = pc[b] /\ target[b] = g
    BY <1>5, Zenon
  <2>2. ProjectOf[b] # p /\ g # h /\ ProjectOf[b] \in Projects
    BY <2>1, <1>5, Zenon
  <2>3. RoomFor(b, ProjectOf[b], g)
    BY <2>1, <1>5, RoomFromCaps, Zenon
  <2> QED
    BY <2>1, <2>2, <2>3, <1>1, <1>2, Zenon DEF RoomFor
<1>6. \A q \in Projects : Cardinality(Taken(q)') <= Quota[q] /\ Cardinality(Pending(q)') <= PendingCap[q]
  BY <1>1, <1>4, Zenon DEF Caps
<1>7. \A g \in Hosts : Cardinality(TakenOn(g)') <= HostCap[g]
  BY <1>2, Zenon DEF Caps
<1> HIDE DEF RowInserted
<1> QED
  BY <1>5, <1>6, <1>7, CapsFromRoom, Zenon

\* A request's write takes one slot (or one queue position) of a project and a
\* host that no other request, and no uncommitted grant of the pass, holds.
LEMMA WritesKeepCaps ==
    ASSUME LockInv, LockTypes, Caps, LockInv', NEW a \in Requests, Grant(a) \/ Enqueue(a)
    PROVE  Caps'
<1> USE RequestsAssumption, ProjectAssumption
<1>1. PICK p \in Projects, h \in Hosts : p = ProjectOf[a] /\ h = target[a]
  BY Zenon DEF Grant, Enqueue, LockInv, RequestsHoldTheirLocks
<1>2. RowInserted(a, p, h)
  <2>1. /\ projLock[p] = a /\ hostLock[h] = a /\ astate[a] = "absent"
        /\ planned \in SUBSET Requests /\ a \notin planned
        /\ \A b \in planned : ProjectOf[b] # p /\ target[b] # h
    BY <1>1 DEF Grant, Enqueue, LockTypes, LockInv, RequestsHoldTheirLocks, PassHoldsItsLocks
  <2>2. \A b \in Requests : b # a /\ pc[b] \in {"grant", "queue"} => ProjectOf[b] # p /\ target[b] # h
    <3> SUFFICES ASSUME NEW b \in Requests, b # a, pc[b] \in {"grant", "queue"}
                 PROVE  ProjectOf[b] # p /\ target[b] # h
      BY Zenon
    <3>1. projLock[ProjectOf[b]] = b /\ hostLock[target[b]] = b
      BY Zenon DEF LockInv, RequestsHoldTheirLocks
    <3> QED
      BY <2>1, <3>1, Zenon
  <2>3. /\ planned' = planned /\ pc'[a] = "done"
        /\ \A b \in Requests : b # a =>
              pc'[b] = pc[b] /\ target'[b] = target[b] /\ astate'[b] = astate[b] /\ host'[b] = host[b]
    BY ZenonT(60) DEF Grant, Enqueue, Finish, LockTypes
  <2> QED
    BY <1>1, <2>1, <2>2, <2>3, Zenon DEF RowInserted
<1>3. CASE Grant(a)
  <2>1. /\ astate'[a] = "granted" /\ host'[a] = h
        /\ Cardinality(Occupying(p)) < Quota[p] /\ Cardinality(OnHost(h)) < HostCap[h]
    BY <1>1, <1>3, Zenon DEF Grant, LockTypes, Caps
  <2> QED
    BY <2>1, <1>2, SlotTaken, Zenon
<1>4. CASE Enqueue(a)
  <2>1. astate'[a] = "requested" /\ Cardinality(Pending(p)) < PendingCap[p]
    BY <1>1, <1>4, Zenon DEF Enqueue, LockTypes, Caps
  <2> QED
    BY <2>1, <1>2, PositionTaken, Zenon
<1> QED
  BY <1>3, <1>4, Zenon
=============================================================================
