--------------------------- MODULE JobQueueProofs ---------------------------
(***************************************************************************)
(* Proofs about JobQueue, for any jobs, any workers and any attempt bound. *)
(***************************************************************************)
EXTENDS JobQueue, TLAPS

\* What a claim leaves behind: a busy worker holds a real row and an attempt that
\* row was charged with, only a busy worker beats, and a row that was never
\* enqueued was never charged.
ClaimsAreCharged ==
    /\ \A w \in Workers : Busy(w) =>
        wjob[w] \in Jobs /\ 1 <= wattempt[w] /\ wattempt[w] <= attempt[wjob[w]]
    /\ \A w \in beating : Busy(w)
    /\ \A j \in Jobs : jstate[j] = "absent" => attempt[j] = 0

\* The inductive invariant.  FenceIdentifiesClaim is not inductive alone: a new
\* claim gets an attempt no other worker holds only because every held attempt
\* was charged; and NoStrandedJob needs the fence, since fail() decides on the
\* attempt of the worker's snapshot.
IInv == TypeOK /\ ClaimsAreCharged /\ FenceIdentifiesClaim /\ NoStrandedJob

USE JobsAssumption, AttemptsAssumption, NoWorkerAssumption

\* The initial job table satisfies the inductive invariant.
LEMMA InitIInv == Init => IInv
<1> SUFFICES ASSUME Init PROVE IInv
  OBVIOUS
<1>1. TypeOK
  <2>1. jstate \in [Jobs -> JobStates \cup {"absent"}] /\ lease \in [Jobs -> {"none", "live", "lapsed"}]
    BY DEF Init
  <2>2. attempt \in [Jobs -> 0..MaxAttempts] /\ wattempt \in [Workers -> 0..MaxAttempts]
    BY DEF Init
  <2>3. paused \in BOOLEAN /\ zombies \in SUBSET Jobs /\ beating \in SUBSET Workers
    BY DEF Init
  <2>4. owner \in [Jobs -> Workers \cup {NoWorker}] /\ wjob \in [Workers -> Jobs \cup {NoJob}]
    BY DEF Init
  <2>5. wpc \in [Workers -> WorkerPlaces]
    BY DEF Init, WorkerPlaces
  <2> QED
    BY <2>1, <2>2, <2>3, <2>4, <2>5 DEF TypeOK
<1>2. \A w \in Workers : ~Busy(w)
  BY DEF Init, Busy
<1>3. ClaimsAreCharged /\ FenceIdentifiesClaim
  BY <1>2 DEF Init, ClaimsAreCharged, FenceIdentifiesClaim
<1>4. NoStrandedJob
  BY DEF Init, NoStrandedJob
<1> QED
  BY <1>1, <1>3, <1>4 DEF IInv

\* Every queue, worker and sweep step keeps the inductive invariant.
LEMMA StepIInv == IInv /\ [Next]_vars => IInv'
<1> SUFFICES ASSUME IInv, [Next]_vars PROVE IInv'
  OBVIOUS
<1> USE DEF IInv, TypeOK, ClaimsAreCharged, FenceIdentifiesClaim, NoStrandedJob,
            Busy, Owns, WorkerPlaces, JobStates, jobVars, workerVars
<1>1. ASSUME NEW j \in Jobs, Enqueue(j) PROVE IInv'
  BY <1>1 DEF Enqueue
<1>2. ASSUME NEW j \in Jobs, Cancel(j) PROVE IInv'
  BY <1>2 DEF Cancel, CanTransition, JobEdges
<1>3. CASE SetQueuePaused
  BY <1>3 DEF SetQueuePaused
<1>4. ASSUME NEW w \in Workers, CheckPaused(w) PROVE IInv'
  BY <1>4 DEF CheckPaused
<1>5. ASSUME NEW w \in Workers, Dequeue(w) PROVE IInv'
  <2> PICK j \in Jobs : Dequeue(w)!2!(j)
    BY <1>5 DEF Dequeue
  <2>0. wpc[w] = "cleared" /\ UNCHANGED <<paused, zombies>>
    BY <1>5 DEF Dequeue
  <2>1. attempt[j] + 1 \in 0..MaxAttempts
    BY DEF Claimable
  <2>2. TypeOK'
    BY <2>0, <2>1
  <2>3. ClaimsAreCharged'
    BY <2>0, <2>1
  <2>4. FenceIdentifiesClaim'
    BY <2>0, <2>1
  <2>5. NoStrandedJob'
    BY <2>0, <2>1
  <2> QED BY <2>2, <2>3, <2>4, <2>5
<1>6. ASSUME NEW w \in Workers, DequeueNothing(w) PROVE IInv'
  BY <1>6 DEF DequeueNothing
<1>7. ASSUME NEW w \in Workers, Heartbeat(w) PROVE IInv'
  BY <1>7 DEF Heartbeat
<1>8. ASSUME NEW w \in Workers, HeartbeatError(w) PROVE IInv'
  BY <1>8 DEF HeartbeatError
<1>9. ASSUME NEW w \in Workers, HandlerReturns(w) PROVE IInv'
  BY <1>9 DEF HandlerReturns
<1>10. ASSUME NEW w \in Workers, HandlerRaises(w) PROVE IInv'
  BY <1>10 DEF HandlerRaises
<1>11. ASSUME NEW w \in Workers, Complete(w) PROVE IInv'
  BY <1>11 DEF Complete, GoIdle
<1>12. ASSUME NEW w \in Workers, Fail(w) PROVE IInv'
  <2>1. CASE UNCHANGED <<jstate, owner, lease>>
    BY <1>12, <2>1 DEF Fail, GoIdle
  <2>2. CASE Owns(w, wjob[w]) /\ jstate' = [jstate EXCEPT ![wjob[w]] = "failed"]
             /\ UNCHANGED <<owner, lease>>
    BY <1>12, <2>2 DEF Fail, GoIdle
  <2>3. CASE /\ Owns(w, wjob[w]) /\ ~OutOfAttempts(wattempt[w])
             /\ jstate' = [jstate EXCEPT ![wjob[w]] = "queued"]
             /\ owner' = [owner EXCEPT ![wjob[w]] = NoWorker]
             /\ lease' = [lease EXCEPT ![wjob[w]] = "none"]
    BY <1>12, <2>3 DEF Fail, GoIdle, OutOfAttempts
  <2> QED
    BY <1>12, <2>1, <2>2, <2>3 DEF Fail
<1>13. ASSUME NEW w \in Workers, Lost(w) PROVE IInv'
  BY <1>13 DEF Lost, GoIdle
<1>14. ASSUME NEW j \in Jobs, LeaseLapses(j) PROVE IInv'
  BY <1>14 DEF LeaseLapses
<1>15. CASE SweepSelect
  BY <1>15 DEF SweepSelect
<1>16. ASSUME NEW j \in Jobs, SweepOne(j) PROVE IInv'
  BY <1>16 DEF SweepOne
<1>17. CASE SweepAborts
  BY <1>17 DEF SweepAborts
<1>18. CASE UNCHANGED vars
  BY <1>18 DEF vars
<1> QED
  BY <1>1, <1>2, <1>3, <1>4, <1>5, <1>6, <1>7, <1>8, <1>9, <1>10, <1>11, <1>12, <1>13,
     <1>14, <1>15, <1>16, <1>17, <1>18 DEF Next, WorkerNext

\* Every reachable state satisfies the inductive invariant.
LEMMA InvariantHolds == Spec => []IInv
  BY InitIInv, StepIInv, PTL DEF Spec

\* The columns of the jobs table and the fields of a worker keep their domains;
\* in particular dequeue never charges more than max_attempts.
THEOREM TypeCorrect == Spec => []TypeOK
<1>1. IInv => TypeOK
  BY DEF IInv
<1> QED
  BY <1>1, InvariantHolds, PTL

\* Matching id, worker_id and 'running' in the WHERE clause of complete, fail and
\* heartbeat is enough to identify one claim, for any number of workers.
THEOREM FenceIsExact == Spec => []FenceIdentifiesClaim
<1>1. IInv => FenceIdentifiesClaim
  BY DEF IInv
<1> QED
  BY <1>1, InvariantHolds, PTL

\* No queued row is out of attempts and no running row lacks owner or lease, so
\* that dequeue or the sweep can always select it.
THEOREM NothingStranded == Spec => []NoStrandedJob
<1>1. IInv => NoStrandedJob
  BY DEF IInv
<1> QED
  BY <1>1, InvariantHolds, PTL

\* A step that finalizes a job is its current claimant's, or the sweep's.
LEMMA StepFinalizes ==
    ASSUME IInv, [Next]_vars,
           NEW j \in Jobs, jstate[j] = "running", jstate'[j] \in {"succeeded", "queued"}
    PROVE  \E w \in Workers :
             /\ wjob[w] = j /\ wattempt[w] = attempt[j]
             /\ wpc[w] = IF jstate'[j] = "succeeded" THEN "returned" ELSE "raised"
<1> USE DEF IInv, TypeOK, FenceIdentifiesClaim, ClaimsAreCharged, Busy, Owns,
            jobVars, workerVars
<1>1. ASSUME NEW w \in Workers, Complete(w) PROVE wjob[w] = j /\ wattempt[w] = attempt[j]
                                                /\ wpc[w] = "returned"
                                                /\ jstate'[j] = "succeeded"
  BY <1>1 DEF Complete
<1>2. ASSUME NEW w \in Workers, Fail(w) PROVE wjob[w] = j /\ wattempt[w] = attempt[j]
                                            /\ wpc[w] = "raised"
                                            /\ jstate'[j] = "queued"
  BY <1>2 DEF Fail
<1>3. ASSUME NEW w \in Workers, Dequeue(w) PROVE FALSE
  BY <1>3 DEF Dequeue
<1>4. ASSUME NEW w \in Workers, WorkerNext(w), ~Complete(w), ~Fail(w), ~Dequeue(w)
      PROVE FALSE
  BY <1>4 DEF WorkerNext, CheckPaused, DequeueNothing, Heartbeat, HeartbeatError,
              HandlerReturns, HandlerRaises, Lost
<1>5. ASSUME ~\E w \in Workers : WorkerNext(w) PROVE FALSE
  BY <1>5 DEF Next, vars, Enqueue, Cancel, SetQueuePaused, LeaseLapses, SweepSelect,
              SweepOne, SweepAborts
<1> QED
  BY <1>1, <1>2, <1>3, <1>4, <1>5

\* Only the worker holding a job's latest attempt marks it succeeded or requeues
\* it: a reclaimed worker's late complete() or fail() changes nothing.
THEOREM StaleWorkerFinalizesNothing == Spec => OnlyTheClaimantFinalizes
<1>1. IInv /\ [Next]_vars =>
      [\A j \in Jobs :
        (jstate[j] = "running" /\ jstate'[j] \in {"succeeded", "queued"}) =>
            \E w \in Workers :
                /\ wjob[w] = j /\ wattempt[w] = attempt[j]
                /\ wpc[w] = IF jstate'[j] = "succeeded" THEN "returned" ELSE "raised"]_vars
  BY StepFinalizes
<1> QED
  BY <1>1, InvariantHolds, PTL DEF Spec, OnlyTheClaimantFinalizes

\* queue.py, jobs.cancel and the sweep write `state` with raw UPDATEs; together
\* they implement the job table of domain/state.py.
THEOREM ImplementsJobTable == Spec => FollowsJobTable
<1>1. Init => JobLifecycle!Init
  BY DEF Init, JobLifecycle!Init
<1>2. IInv /\ [Next]_vars => [JobLifecycle!Next]_jstate
  <2> SUFFICES ASSUME IInv, [Next]_vars PROVE [JobLifecycle!Next]_jstate
    OBVIOUS
  <2> USE DEF IInv, TypeOK, ClaimsAreCharged, Busy, Owns, JobEdges, CanTransition,
              JobLifecycle!Next, JobLifecycle!Insert, JobLifecycle!Move, jobVars, workerVars
  <2>1. ASSUME NEW j \in Jobs, Enqueue(j) \/ Cancel(j) \/ SweepOne(j)
        PROVE  [JobLifecycle!Next]_jstate
    BY <2>1 DEF Enqueue, Cancel, SweepOne
  <2>2. ASSUME NEW w \in Workers, Dequeue(w) PROVE [JobLifecycle!Next]_jstate
    BY <2>2 DEF Dequeue, Claimable
  <2>3. ASSUME NEW w \in Workers, Complete(w) \/ Fail(w) PROVE [JobLifecycle!Next]_jstate
    BY <2>3 DEF Complete, Fail
  <2>4. ASSUME NEW w \in Workers, WorkerNext(w), ~Complete(w), ~Fail(w), ~Dequeue(w)
        PROVE  [JobLifecycle!Next]_jstate
    BY <2>4 DEF WorkerNext, CheckPaused, DequeueNothing, Heartbeat, HeartbeatError,
                HandlerReturns, HandlerRaises, Lost
  <2>5. CASE \/ SetQueuePaused \/ SweepSelect \/ SweepAborts \/ UNCHANGED vars
             \/ \E j \in Jobs : LeaseLapses(j)
    BY <2>5 DEF SetQueuePaused, SweepSelect, SweepAborts, LeaseLapses, vars
  <2> QED
    BY <2>1, <2>2, <2>3, <2>4, <2>5 DEF Next
<1> QED
  BY <1>1, <1>2, InvariantHolds, PTL DEF Spec, FollowsJobTable, JobLifecycle!Spec
=============================================================================
