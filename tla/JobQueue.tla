------------------------------ MODULE JobQueue ------------------------------
(***************************************************************************)
(* The durable job queue (jobs/queue.py), the workers that drain it        *)
(* (jobs/worker.py), the jobs.cancel tool and the reconciler's sweep of    *)
(* abandoned jobs (reconciler/jobs.py).  Every call of queue.py is one     *)
(* committed UPDATE, hence one action; between two calls anything may      *)
(* happen.  The handler itself is a step that may return, raise, or die    *)
(* with its worker.                                                        *)
(***************************************************************************)
EXTENDS Integers, StateTables

CONSTANTS Jobs,         \* rows that may ever exist, by dedup_key
          Workers,      \* worker ids
          MaxAttempts,  \* jobs.max_attempts
          Unregistered, \* jobs whose kind has no handler in the registry
          NoWorker,     \* a NULL worker_id
          NoJob         \* a worker holding no claim

ASSUME JobsAssumption == NoJob \notin Jobs /\ Unregistered \subseteq Jobs
ASSUME AttemptsAssumption == MaxAttempts \in Nat \ {0}
ASSUME NoWorkerAssumption == NoWorker \notin Workers

VARIABLES jstate,   \* [Jobs -> state], "absent" before enqueue
          attempt,  \* [Jobs -> 0..MaxAttempts], charged by dequeue
          owner,    \* [Jobs -> worker_id or NoWorker]
          lease,    \* [Jobs -> "none" | "live" | "lapsed"] on the DB clock
          paused,   \* ops_control.queue_paused
          wpc,      \* [Workers -> where run_once is]
          wjob,     \* [Workers -> the claimed row], meaningful off "idle"
          wattempt, \* [Workers -> attempt in the claimed Job snapshot]
          beating,  \* the workers whose heartbeat task is still renewing
          zombies   \* job ids the sweep's first transaction selected

jobVars == <<jstate, attempt, owner, lease>>
workerVars == <<wpc, wjob, wattempt, beating>>
vars == <<jobVars, paused, workerVars, zombies>>

Init ==
    /\ jstate = [j \in Jobs |-> "absent"]
    /\ attempt = [j \in Jobs |-> 0]
    /\ owner = [j \in Jobs |-> NoWorker]
    /\ lease = [j \in Jobs |-> "none"]
    /\ paused = FALSE
    /\ wpc = [w \in Workers |-> "idle"]
    /\ wjob = [w \in Workers |-> NoJob]
    /\ wattempt = [w \in Workers |-> 0]
    /\ beating = {}
    /\ zombies = {}

-----------------------------------------------------------------------------
(* The server and the operators.                                           *)

\* ON CONFLICT (dedup_key) DO NOTHING: only the first call inserts.
Enqueue(j) ==
    /\ jstate[j] = "absent"
    /\ jstate' = [jstate EXCEPT ![j] = "queued"]
    /\ UNCHANGED <<attempt, owner, lease, paused, workerVars, zombies>>

\* JOBS.update_state(CANCELED): guarded by the lifecycle table, not by owner.
Cancel(j) ==
    /\ CanTransition(JobEdges, jstate[j], "canceled")
    /\ jstate' = [jstate EXCEPT ![j] = "canceled"]
    /\ UNCHANGED <<attempt, owner, lease, paused, workerVars, zombies>>

SetQueuePaused ==
    /\ paused' = ~paused
    /\ UNCHANGED <<jobVars, workerVars, zombies>>

-----------------------------------------------------------------------------
(* One worker: run_once, the handler, the heartbeat task, finalization.    *)

\* Mutant: the attempt bound is off by one.
ClaimableOneMore(j) ==
    /\ jstate[j] = "queued" \/ (jstate[j] = "running" /\ lease[j] = "lapsed")
    /\ attempt[j] <= MaxAttempts

Claimable(j) ==
    /\ jstate[j] = "queued" \/ (jstate[j] = "running" /\ lease[j] = "lapsed")
    /\ attempt[j] < MaxAttempts

\* is_queue_paused is a statement of its own: the flag may flip before dequeue.
CheckPaused(w) ==
    /\ wpc[w] = "idle"
    /\ ~paused
    /\ wpc' = [wpc EXCEPT ![w] = "cleared"]
    /\ UNCHANGED <<jobVars, paused, wjob, wattempt, beating, zombies>>

\* ORDER BY created_at FOR UPDATE SKIP LOCKED: the oldest claimable row no
\* other transaction has locked.  Any row may be locked, by a jobs.cancel or by
\* another worker's dequeue in flight, so any claimable row may be the one.
Dequeue(w) ==
    /\ wpc[w] = "cleared"
    /\ \E j \in Jobs :
        /\ Claimable(j)
        /\ jstate' = [jstate EXCEPT ![j] = "running"]
        /\ attempt' = [attempt EXCEPT ![j] = @ + 1]
        /\ owner' = [owner EXCEPT ![j] = w]
        /\ lease' = [lease EXCEPT ![j] = "live"]
        /\ wpc' = [wpc EXCEPT ![w] = IF j \in Unregistered THEN "unhandled" ELSE "handling"]
        /\ wjob' = [wjob EXCEPT ![w] = j]
        /\ wattempt' = [wattempt EXCEPT ![w] = attempt[j] + 1]
        /\ beating' = IF j \in Unregistered THEN beating ELSE beating \cup {w}
    /\ UNCHANGED <<paused, zombies>>

DequeueNothing(w) ==
    /\ wpc[w] = "cleared"
    /\ \A j \in Jobs : ~Claimable(j)
    /\ wpc' = [wpc EXCEPT ![w] = "idle"]
    /\ UNCHANGED <<jobVars, paused, wjob, wattempt, beating, zombies>>

\* Mutant: the UPDATE matches on id and state only.
OwnsByState(w, j) == jstate[j] = "running"

\* The fence every worker write carries: id, worker_id and state = 'running'.
Owns(w, j) == owner[j] = w /\ jstate[j] = "running"

Heartbeat(w) ==
    /\ w \in beating
    /\ IF Owns(w, wjob[w])
       THEN /\ lease' = [lease EXCEPT ![wjob[w]] = "live"]
            /\ UNCHANGED beating
       ELSE /\ beating' = beating \ {w}
            /\ UNCHANGED lease
    /\ UNCHANGED <<jstate, attempt, owner, paused, wpc, wjob, wattempt, zombies>>

\* A heartbeat that errors ends the loop; the handler runs on.
HeartbeatError(w) ==
    /\ w \in beating
    /\ beating' = beating \ {w}
    /\ UNCHANGED <<jobVars, paused, wpc, wjob, wattempt, zombies>>

HandlerReturns(w) ==
    /\ wpc[w] = "handling"
    /\ wpc' = [wpc EXCEPT ![w] = "returned"]
    /\ UNCHANGED <<jobVars, paused, wjob, wattempt, beating, zombies>>

HandlerRaises(w) ==
    /\ wpc[w] = "handling"
    /\ wpc' = [wpc EXCEPT ![w] = "raised"]
    /\ UNCHANGED <<jobVars, paused, wjob, wattempt, beating, zombies>>

\* Back to the claim loop: the heartbeat task is cancelled in _dispatch's finally.
GoIdle(w) ==
    /\ wpc' = [wpc EXCEPT ![w] = "idle"]
    /\ wjob' = [wjob EXCEPT ![w] = NoJob]
    /\ wattempt' = [wattempt EXCEPT ![w] = 0]
    /\ beating' = beating \ {w}

Complete(w) ==
    /\ wpc[w] = "returned"
    /\ jstate' = IF Owns(w, wjob[w])
                 THEN [jstate EXCEPT ![wjob[w]] = "succeeded"] ELSE jstate
    /\ GoIdle(w)
    /\ UNCHANGED <<attempt, owner, lease, paused, zombies>>

\* Mutant: the last attempt is requeued.
OutOfAttemptsOneMore(n) == n > MaxAttempts

OutOfAttempts(n) == n >= MaxAttempts

\* Dead-letter when terminal or out of attempts, by the snapshot; else requeue.
Fail(w) ==
    /\ wpc[w] \in {"raised", "unhandled"}
    /\ LET j == wjob[w]
           dead == wpc[w] = "unhandled" \/ OutOfAttempts(wattempt[w])
       IN IF ~Owns(w, j)
          THEN UNCHANGED <<jstate, owner, lease>>
          ELSE IF dead
          THEN jstate' = [jstate EXCEPT ![j] = "failed"] /\ UNCHANGED <<owner, lease>>
          ELSE /\ jstate' = [jstate EXCEPT ![j] = "queued"]
               /\ owner' = [owner EXCEPT ![j] = NoWorker]
               /\ lease' = [lease EXCEPT ![j] = "none"]
    /\ GoIdle(w)
    /\ UNCHANGED <<attempt, paused, zombies>>

\* The process dies, or a queue call raises out of run_once (database outage)
\* and the claim loop carries on: either way nothing is written.
Lost(w) ==
    /\ wpc[w] # "idle"
    /\ GoIdle(w)
    /\ UNCHANGED <<jobVars, paused, zombies>>

-----------------------------------------------------------------------------
(* The database clock and the reconciler.                                  *)

LeaseLapses(j) ==
    /\ jstate[j] = "running" /\ lease[j] = "live"
    /\ lease' = [lease EXCEPT ![j] = "lapsed"]
    /\ UNCHANGED <<jstate, attempt, owner, paused, workerVars, zombies>>

\* Mutant: the sweep waits for one attempt more than dequeue can charge.
ZombieOneMore(j) ==
    jstate[j] = "running" /\ lease[j] = "lapsed" /\ attempt[j] > MaxAttempts

Zombie(j) ==
    jstate[j] = "running" /\ lease[j] = "lapsed" /\ attempt[j] >= MaxAttempts

SweepSelect ==
    /\ zombies = {}
    /\ zombies' = {j \in Jobs : Zombie(j)}
    /\ zombies' # {}
    /\ UNCHANGED <<jobVars, paused, workerVars>>

\* Mutant: the second transaction re-checks nothing.
SweepOneBlind(j) ==
    /\ j \in zombies
    /\ zombies' = zombies \ {j}
    /\ jstate' = [jstate EXCEPT ![j] = "failed"]
    /\ UNCHANGED <<attempt, owner, lease, paused, workerVars>>

\* The second transaction re-checks only state = 'running'.
SweepOne(j) ==
    /\ j \in zombies
    /\ zombies' = zombies \ {j}
    /\ jstate' = IF jstate[j] = "running" THEN [jstate EXCEPT ![j] = "failed"] ELSE jstate
    /\ UNCHANGED <<attempt, owner, lease, paused, workerVars>>

\* The pass raises part-way; the next pass selects afresh.
SweepAborts ==
    /\ zombies # {}
    /\ zombies' = {}
    /\ UNCHANGED <<jobVars, paused, workerVars>>

-----------------------------------------------------------------------------
WorkerNext(w) ==
    \/ CheckPaused(w)
    \/ Dequeue(w)
    \/ DequeueNothing(w)
    \/ Heartbeat(w)
    \/ HeartbeatError(w)
    \/ HandlerReturns(w)
    \/ HandlerRaises(w)
    \/ Complete(w)
    \/ Fail(w)
    \/ Lost(w)

Next ==
    \/ \E j \in Jobs : Enqueue(j)
    \/ \E j \in Jobs : Cancel(j)
    \/ SetQueuePaused
    \/ \E w \in Workers : WorkerNext(w)
    \/ \E j \in Jobs : LeaseLapses(j)
    \/ SweepSelect
    \/ \E j \in Jobs : SweepOne(j)
    \/ SweepAborts

Spec == Init /\ [][Next]_vars

-----------------------------------------------------------------------------
(* Fairness.  At least one worker keeps polling (claim loop), every handler *)
(* ends, a live process goes on to finalize, a lease nobody renews lapses,  *)
(* and the reconciler keeps making passes.  No fairness on enqueue, cancel, *)
(* pause, heartbeats, losses or aborted passes.                             *)

Renewing(j) == \E w \in beating : wjob[w] = j /\ Owns(w, j)

UnrenewedLapse(j) == ~Renewing(j) /\ LeaseLapses(j)

Fairness ==
    /\ WF_vars(\E w \in Workers : CheckPaused(w))
    /\ SF_vars(\E w \in Workers : Dequeue(w))
    /\ \A w \in Workers :
        /\ WF_vars(DequeueNothing(w))
        /\ WF_vars(HandlerReturns(w) \/ HandlerRaises(w))
        /\ WF_vars(Complete(w))
        /\ WF_vars(Fail(w))
    /\ \A j \in Jobs : WF_vars(UnrenewedLapse(j)) /\ SF_vars(SweepOne(j))
    /\ WF_vars(SweepSelect)

FairSpec == Spec /\ Fairness

-----------------------------------------------------------------------------
(* Properties.                                                             *)

WorkerPlaces == {"idle", "cleared", "handling", "unhandled", "returned", "raised"}

Busy(w) == wpc[w] \in {"handling", "unhandled", "returned", "raised"}

\* The columns of the jobs table and the fields of a worker keep their domains.
TypeOK ==
    /\ jstate \in [Jobs -> JobStates \cup {"absent"}]
    /\ attempt \in [Jobs -> 0..MaxAttempts]
    /\ owner \in [Jobs -> Workers \cup {NoWorker}]
    /\ lease \in [Jobs -> {"none", "live", "lapsed"}]
    /\ paused \in BOOLEAN
    /\ wpc \in [Workers -> WorkerPlaces]
    /\ wjob \in [Workers -> Jobs \cup {NoJob}]
    /\ wattempt \in [Workers -> 0..MaxAttempts]
    /\ beating \in SUBSET Workers
    /\ zombies \in SUBSET Jobs

\* The fence names only the worker, yet it identifies the claim: a worker whose
\* complete/fail/heartbeat would match the row is the one charged with the
\* row's latest attempt, and two workers still running handlers for one job
\* (a stalled one and its successor) never hold the same attempt.
FenceIdentifiesClaim ==
    \A w \in Workers : Busy(w) =>
        /\ Owns(w, wjob[w]) => wattempt[w] = attempt[wjob[w]]
        /\ \A v \in Workers \ {w} :
            Busy(v) /\ wjob[v] = wjob[w] => wattempt[v] # wattempt[w]

\* A row a worker or the sweep must act on never becomes one neither selects:
\* a queued row still has an attempt left for dequeue, and a running row has an
\* owner and a lease, so that `lease_expires_at < now()` can become true.
NoStrandedJob ==
    \A j \in Jobs :
        /\ jstate[j] = "queued" => attempt[j] < MaxAttempts
        /\ jstate[j] = "running" => owner[j] # NoWorker /\ lease[j] # "none"

\* A job is marked succeeded, or handed back to the queue, only by the worker
\* that holds its latest attempt and whose handler returned or raised: a
\* reclaimed worker's late result is dropped.
OnlyTheClaimantFinalizes ==
    [][\A j \in Jobs :
        (jstate[j] = "running" /\ jstate'[j] \in {"succeeded", "queued"}) =>
            \E w \in Workers :
                /\ wjob[w] = j /\ wattempt[w] = attempt[j]
                /\ wpc[w] = IF jstate'[j] = "succeeded" THEN "returned" ELSE "raised"]_vars

\* The raw UPDATEs of queue.py and of the sweep never leave the job table of
\* domain/state.py, although none of them calls ensure_transition.
JobLifecycle == INSTANCE Lifecycle
    WITH Objects <- Jobs, Creation <- {"queued"}, Edges <- JobEdges, state <- jstate

FollowsJobTable == JobLifecycle!Spec

\* Unless operators leave the queue paused, every admitted job ends, whatever
\* workers die, stall or lose the database on the way.
EveryJobEnds ==
    (<>[]~paused) => \A j \in Jobs : (jstate[j] = "queued" ~> jstate[j] \in JobTerminal)

\* docs/adr/0021 decision 3: the sweep takes a job only while it is running,
\* its lease has expired and its attempts are spent.
SweptOnlyWhenZombie ==
    [][\A j \in Jobs : (j \in zombies /\ j \notin zombies' /\ jstate'[j] # jstate[j])
                        => Zombie(j)]_vars
=============================================================================
