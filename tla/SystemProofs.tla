---------------------------- MODULE SystemProofs ----------------------------
(***************************************************************************)
(* Proofs about SystemLifecycle, for any Systems, workers, profiles, Runs, *)
(* power calls, attempt bound and number of faults.                        *)
(***************************************************************************)
EXTENDS SystemLifecycle, TLAPS

\* A worker that is not idle runs a job that was enqueued and claimed, and each
\* step of a handler belongs to the kinds that have it.
WorkersRunRealJobs ==
    \A w \in Workers :
        /\ at[w] # "idle" => doing[w] \in Jobs /\ jstate[doing[w]] # "absent" /\ attempt[doing[w]] > 0
        /\ at[w] = "wipe" => Kind(w) \in Digests
        /\ at[w] \in Booting => Kind(w) \in Runs
        /\ at[w] \in {"start", "commit"} => Kind(w) \in {"provision"} \cup Digests

\* A System that was never created has no job, no Run and no domain.
NothingBeforeTheRow ==
    \A s \in Systems : sys[s] = "absent" =>
        /\ domain[s] = "absent"
        /\ \A k \in Kinds : jstate[<<s, k>>] = "absent"
        /\ \A r \in Runs : run[<<s, r>>] = "absent"

\* Whoever is about to destroy a domain has seen its System terminal, and no
\* System leaves a terminal state.
DestroyersSawTheEnd ==
    /\ \A w \in Workers : at[w] = "destroy" => sys[S(w)] \in SystemTerminal
    /\ \A s \in reaping : sys[s] = "torn_down"

\* No worker has begun a job that stops the domain of a System in use.
Undisturbed(s) == \A k \in Digests \cup Offs \cup Runs : attempt[<<s, k>>] = 0

\* Between the provider's return and the commit the domain is up, unless the
\* System has ended or was disturbed.
StartedMeansRunning ==
    \A w \in Workers :
        at[w] = "commit" /\ sys[S(w)] \notin SystemTerminal /\ Undisturbed(S(w))
            => domain[S(w)] = "running"

\* The inductive invariant: ReadyIsRunning alone says nothing of the workers and
\* of the reaper that may still act on the domain.
SysInv ==
    /\ TypeOK /\ WorkersRunRealJobs /\ NothingBeforeTheRow
    /\ DestroyersSawTheEnd /\ StartedMeansRunning /\ ReadyIsRunning

\* The System and the kind of a busy worker's job.
LEMMA JobParts ==
    ASSUME WorkersRunRealJobs, NEW w \in Workers, at[w] # "idle"
    PROVE  /\ doing[w] \in Jobs /\ jstate[doing[w]] # "absent" /\ attempt[doing[w]] > 0
           /\ S(w) \in Systems /\ Kind(w) \in Kinds /\ doing[w] = <<S(w), Kind(w)>>
  BY DEF WorkersRunRealJobs, Jobs, S, Kind

\* A System with a job under way has a row.
LEMMA BusyMeansCreated ==
    ASSUME WorkersRunRealJobs, NothingBeforeTheRow, NEW w \in Workers, at[w] # "idle"
    PROVE  sys[S(w)] # "absent"
<1>1. S(w) \in Systems /\ Kind(w) \in Kinds /\ jstate[<<S(w), Kind(w)>>] # "absent"
  BY JobParts, Zenon
<1> QED
  BY <1>1, Zenon DEF NothingBeforeTheRow

\* The tables start empty.
LEMMA InitSysInv == Init => SysInv
<1> SUFFICES ASSUME Init PROVE SysInv
  BY Zenon
<1>1. TypeOK
  BY BoundAssumption DEF Init, TypeOK
<1>2. WorkersRunRealJobs /\ DestroyersSawTheEnd /\ StartedMeansRunning
  BY Zenon DEF Init, WorkersRunRealJobs, DestroyersSawTheEnd, StartedMeansRunning, Booting
<1>3. NothingBeforeTheRow /\ ReadyIsRunning
  BY Zenon DEF Init, NothingBeforeTheRow, ReadyIsRunning, Jobs
<1> QED
  BY <1>1, <1>2, <1>3, Zenon DEF SysInv

\* Every step keeps the types.
LEMMA StepTypes ==
    ASSUME TypeOK, WorkersRunRealJobs, [Next]_vars
    PROVE  TypeOK'
<1> USE DEF TypeOK, jobVars, workerVars, SystemStates, JobStates
<1>0. faults' \in 0..MaxFaults
  BY BoundAssumption DEF Next, ToolStep, ReconcilerStep, WorkerStep, QueueStep, Fault, vars
<1>1. ASSUME NEW s \in Systems, NEW state \in {"defined", "provisioning"}, CreateSystem(s, state) PROVE TypeOK'
  BY <1>0, <1>1, Zenon DEF CreateSystem, Enqueue, Jobs, Kinds
<1>2. ASSUME NEW s \in Systems, ProvisionDefined(s) PROVE TypeOK'
  BY <1>0, <1>2, Zenon DEF ProvisionDefined, Enqueue, Jobs, Kinds
<1>3. ASSUME NEW s \in Systems, NEW d \in Digests, Reprovision(s, d) PROVE TypeOK'
  BY <1>0, <1>3, Zenon DEF Reprovision, Enqueue, Jobs, Kinds
<1>4. ASSUME NEW s \in Systems, Teardown(s) PROVE TypeOK'
  BY <1>0, <1>4, Zenon DEF Teardown, Enqueue, Jobs, Kinds
<1>5. ASSUME NEW s \in Systems, ForceCrash(s) PROVE TypeOK'
  BY <1>0, <1>5, Zenon DEF ForceCrash, Enqueue, Jobs, Kinds
<1>5a. ASSUME NEW s \in Systems, NEW c \in PowerCalls, Power(s, c) PROVE TypeOK'
  BY <1>0, <1>5a, Zenon DEF Power, Enqueue, Jobs, Kinds
<1>5b. ASSUME NEW s \in Systems, NEW r \in Runs, CreateRun(s, r) PROVE TypeOK'
  BY <1>0, <1>5b, Zenon DEF CreateRun
<1>5c. ASSUME NEW s \in Systems, NEW r \in Runs, StageRun(s, r) PROVE TypeOK'
  BY <1>0, <1>5c, Zenon DEF StageRun
<1>5d. ASSUME NEW s \in Systems, NEW r \in Runs, InstallRun(s, r) PROVE TypeOK'
  BY <1>0, <1>5d, Zenon DEF InstallRun
<1>5e. ASSUME NEW s \in Systems, NEW r \in Runs, Boot(s, r) PROVE TypeOK'
  BY <1>0, <1>5e, Zenon DEF Boot, Enqueue, Jobs, Kinds
<1>6. ASSUME NEW s \in Systems, EndAllocation(s) PROVE TypeOK'
  BY <1>0, <1>6, Zenon DEF EndAllocation
<1>7. ASSUME NEW s \in Systems, RepairOrphan(s) PROVE TypeOK'
  BY <1>0, <1>7, Zenon DEF RepairOrphan, Enqueue, Jobs, Kinds
<1>8. ASSUME NEW s \in Systems, CheckDomain(s) PROVE TypeOK'
  BY <1>0, <1>8, Zenon DEF CheckDomain
<1>9. ASSUME NEW s \in Systems, DestroyLeaked(s) PROVE TypeOK'
  BY <1>0, <1>9, Zenon DEF DestroyLeaked
<1>10. ASSUME NEW s \in Systems, DestroyLeakedFails(s) PROVE TypeOK'
  BY <1>0, <1>10, Zenon DEF DestroyLeakedFails
<1>11. ASSUME NEW w \in Workers, NEW j \in Jobs, Claim(w, j) PROVE TypeOK'
  BY <1>0, <1>11, BoundAssumption DEF Claim, Claimable
<1>12. ASSUME NEW w \in Workers, Complete(w) PROVE TypeOK'
  <2>1. doing[w] \in Jobs
    BY <1>12, JobParts, Zenon DEF Complete
  <2>2. jstate' \in [Jobs -> JobStates \cup {"absent"}] /\ owner' \in [Jobs -> Workers \cup {None}]
        /\ lapsed' \in SUBSET Jobs
    BY <1>12, <2>1 DEF Complete, Leave
  <2> QED
    BY <1>0, <1>12, <2>2, Zenon DEF Complete, GoIdle
<1>13. ASSUME NEW w \in Workers, Fail(w) PROVE TypeOK'
  <2>1. doing[w] \in Jobs
    BY <1>13, JobParts, Zenon DEF Fail
  <2>2. jstate' \in [Jobs -> JobStates \cup {"absent"}] /\ owner' \in [Jobs -> Workers \cup {None}]
        /\ lapsed' \in SUBSET Jobs
    BY <1>13, <2>1 DEF Fail, Leave
  <2> QED
    BY <1>0, <1>13, <2>2, Zenon DEF Fail, GoIdle
<1>14. ASSUME NEW w \in Workers, Crash(w) PROVE TypeOK'
  BY <1>0, <1>14, Zenon DEF Crash, GoIdle
<1>15. ASSUME NEW j \in Jobs, LeaseLapses(j) PROVE TypeOK'
  BY <1>0, <1>15, Zenon DEF LeaseLapses
<1>16. ASSUME NEW j \in Jobs, SweepZombie(j) PROVE TypeOK'
  BY <1>0, <1>16, Zenon DEF SweepZombie, Leave
<1>17. ASSUME NEW j \in Jobs, Cancel(j) PROVE TypeOK'
  BY <1>0, <1>17, Zenon DEF Cancel, Leave
<1>18. ASSUME NEW w \in Workers, ReadProvision(w) PROVE TypeOK'
  BY <1>0, <1>18, JobParts, Zenon DEF ReadProvision, Goto
<1>19. ASSUME NEW w \in Workers, ReadReprovision(w) PROVE TypeOK'
  BY <1>0, <1>19, JobParts, Zenon DEF ReadReprovision, Goto
<1>20. ASSUME NEW w \in Workers, ReadForceCrash(w) PROVE TypeOK'
  BY <1>0, <1>20, JobParts, Zenon DEF ReadForceCrash, Goto
<1>21. ASSUME NEW w \in Workers, Wipe(w) PROVE TypeOK'
  BY <1>0, <1>21, JobParts, Zenon DEF Wipe, Goto
<1>22. ASSUME NEW w \in Workers, StartDomain(w) PROVE TypeOK'
  BY <1>0, <1>22, JobParts, Zenon DEF StartDomain, Goto
<1>23. ASSUME NEW w \in Workers, CommitReady(w) PROVE TypeOK'
  BY <1>0, <1>23, JobParts, Zenon DEF CommitReady, Goto
<1>24. ASSUME NEW w \in Workers, TearDownRow(w) PROVE TypeOK'
  BY <1>0, <1>24, JobParts DEF TearDownRow, Goto
<1>25. ASSUME NEW w \in Workers, DestroyDomain(w) PROVE TypeOK'
  BY <1>0, <1>25, JobParts, Zenon DEF DestroyDomain, Goto
<1>26. ASSUME NEW w \in Workers, InjectCrash(w) PROVE TypeOK'
  BY <1>0, <1>26, JobParts, Zenon DEF InjectCrash, Goto
<1>27. ASSUME NEW w \in Workers, FinalizeForceCrash(w) PROVE TypeOK'
  BY <1>0, <1>27, JobParts, Zenon DEF FinalizeForceCrash, Goto
<1>27a. ASSUME NEW w \in Workers, ReadPower(w) PROVE TypeOK'
  BY <1>0, <1>27a, JobParts, Zenon DEF ReadPower, Goto
<1>27b. ASSUME NEW w \in Workers, ApplyPower(w) PROVE TypeOK'
  BY <1>0, <1>27b, JobParts, Zenon DEF ApplyPower, Goto
<1>27c. ASSUME NEW w \in Workers, PowerRefused(w) PROVE TypeOK'
  BY <1>0, <1>27c, JobParts, Zenon DEF PowerRefused, Goto
<1>27d. ASSUME NEW w \in Workers, ReadBoot(w) PROVE TypeOK'
  BY <1>0, <1>27d, JobParts, Zenon DEF ReadBoot, Goto
<1>27e. ASSUME NEW w \in Workers, StopGuest(w) PROVE TypeOK'
  BY <1>0, <1>27e, JobParts, Zenon DEF StopGuest, Goto
<1>27f. ASSUME NEW w \in Workers, CreateGuest(w) PROVE TypeOK'
  BY <1>0, <1>27f, JobParts, Zenon DEF CreateGuest, Goto
<1>27g. ASSUME NEW w \in Workers, RecordBoot(w) PROVE TypeOK'
  BY <1>0, <1>27g, JobParts, Zenon DEF RecordBoot, Goto
<1>28. ASSUME NEW w \in Workers, StartFails(w) PROVE TypeOK'
  BY <1>0, <1>28, JobParts DEF StartFails, Goto
<1>29. ASSUME NEW w \in Workers, CommitRaises(w) PROVE TypeOK'
  BY <1>0, <1>29, JobParts, Zenon DEF CommitRaises, Goto
<1>30. ASSUME NEW w \in Workers, ProviderFails(w) PROVE TypeOK'
  BY <1>0, <1>30, JobParts DEF ProviderFails, Goto
<1>31. CASE UNCHANGED vars
  BY <1>31, Zenon DEF vars
<1> HIDE DEF TypeOK
<1> QED
  BY <1>1, <1>2, <1>3, <1>4, <1>5, <1>5a, <1>5b, <1>5c, <1>5d, <1>5e, <1>6, <1>7, <1>8, <1>9,
     <1>10, <1>11, <1>12, <1>13, <1>14, <1>15, <1>16, <1>17, <1>18, <1>19, <1>20, <1>21, <1>22,
     <1>23, <1>24, <1>25, <1>26, <1>27, <1>27a, <1>27b, <1>27c, <1>27d, <1>27e, <1>27f, <1>27g,
     <1>28, <1>29, <1>30, <1>31, Zenon DEF Next, ToolStep, ReconcilerStep, WorkerStep, HandlerStep,
     QueueStep, Fault

\* Who writes systems.state.
LEMMA RowWriters ==
    ASSUME [Next]_vars, sys' # sys
    PROVE  \/ \E s \in Systems : \/ \E state \in {"defined", "provisioning"} : CreateSystem(s, state)
                                \/ ProvisionDefined(s)
                                \/ \E d \in Digests : Reprovision(s, d)
           \/ \E w \in Workers : CommitReady(w) \/ TearDownRow(w) \/ FinalizeForceCrash(w)
<1>2. CASE \E s \in Systems : ToolStep(s)
  BY <1>2, Zenon DEF ToolStep, Teardown, ForceCrash, Power, CreateRun, StageRun, InstallRun, Boot,
     EndAllocation
<1>3. CASE \E s \in Systems : ReconcilerStep(s)
  BY <1>3, Zenon DEF ReconcilerStep, RepairOrphan, CheckDomain, DestroyLeaked
<1>4. CASE \E w \in Workers : WorkerStep(w)
  BY <1>4, Zenon DEF WorkerStep, HandlerStep, Claim, Complete, Fail, ReadProvision,
     ReadReprovision, ReadForceCrash,
     Wipe, StartDomain, DestroyDomain, InjectCrash, ReadPower, ApplyPower, PowerRefused, ReadBoot,
     StopGuest, CreateGuest, RecordBoot
<1>5. CASE \E j \in Jobs : QueueStep(j)
  BY <1>5, Zenon DEF QueueStep, LeaseLapses, SweepZombie
<1>6. CASE Fault
  BY <1>6, Zenon DEF Fault, StartFails, CommitRaises, ProviderFails, Crash, Cancel, LeaseLapses,
     DestroyLeakedFails
<1> QED
  BY <1>2, <1>3, <1>4, <1>5, <1>6, Zenon DEF Next, vars

\* Who changes a domain.
LEMMA DomainWriters ==
    ASSUME [Next]_vars, domain' # domain
    PROVE  \/ \E w \in Workers : \/ Wipe(w) \/ DestroyDomain(w) \/ ProviderFails(w) \/ StartDomain(w)
                                \/ StartFails(w) \/ ApplyPower(w) \/ StopGuest(w) \/ CreateGuest(w)
           \/ \E s \in Systems : DestroyLeaked(s) \/ \E r \in Runs : InstallRun(s, r)
<1>2. CASE \E s \in Systems : ToolStep(s)
  BY <1>2, Zenon DEF ToolStep, CreateSystem, ProvisionDefined, Reprovision, Teardown, ForceCrash,
     Power, CreateRun,
     StageRun, Boot, EndAllocation
<1>3. CASE \E s \in Systems : ReconcilerStep(s)
  BY <1>3, Zenon DEF ReconcilerStep, RepairOrphan, CheckDomain
<1>4. CASE \E w \in Workers : WorkerStep(w)
  BY <1>4, Zenon DEF WorkerStep, HandlerStep, Claim, Complete, Fail, ReadProvision,
     ReadReprovision, ReadForceCrash,
     CommitReady, TearDownRow, InjectCrash, FinalizeForceCrash, ReadPower, PowerRefused, ReadBoot,
     RecordBoot
<1>5. CASE \E j \in Jobs : QueueStep(j)
  BY <1>5, Zenon DEF QueueStep, LeaseLapses, SweepZombie
<1>6. CASE Fault
  BY <1>6, Zenon DEF Fault, CommitRaises, Crash, Cancel, LeaseLapses, DestroyLeakedFails
<1> QED
  BY <1>2, <1>3, <1>4, <1>5, <1>6, Zenon DEF Next, vars

\* Who moves a Run.
LEMMA RunWriters ==
    ASSUME [Next]_vars, run' # run
    PROVE  \/ \E s \in Systems, r \in Runs : CreateRun(s, r) \/ StageRun(s, r) \/ InstallRun(s, r)
           \/ \E w \in Workers : RecordBoot(w)
<1>2. CASE \E s \in Systems : ToolStep(s)
  BY <1>2, Zenon DEF ToolStep, CreateSystem, ProvisionDefined, Reprovision, Teardown, ForceCrash,
     Power, Boot,
     EndAllocation
<1>3. CASE \E s \in Systems : ReconcilerStep(s)
  BY <1>3, Zenon DEF ReconcilerStep, RepairOrphan, CheckDomain, DestroyLeaked
<1>4. CASE \E w \in Workers : WorkerStep(w)
  BY <1>4, Zenon DEF WorkerStep, HandlerStep, Claim, Complete, Fail, ReadProvision,
     ReadReprovision, ReadForceCrash,
     Wipe, StartDomain, CommitReady, TearDownRow, DestroyDomain, InjectCrash, FinalizeForceCrash,
     ReadPower, ApplyPower, PowerRefused, ReadBoot, StopGuest, CreateGuest
<1>5. CASE \E j \in Jobs : QueueStep(j)
  BY <1>5, Zenon DEF QueueStep, LeaseLapses, SweepZombie
<1>6. CASE Fault
  BY <1>6, Zenon DEF Fault, StartFails, CommitRaises, ProviderFails, Crash, Cancel, LeaseLapses,
     DestroyLeakedFails
<1> QED
  BY <1>2, <1>3, <1>4, <1>5, <1>6, Zenon DEF Next, vars

\* Who changes the reaper's pass.
LEMMA ReapingWriters ==
    ASSUME [Next]_vars, reaping' # reaping
    PROVE  \E s \in Systems : CheckDomain(s) \/ DestroyLeaked(s) \/ DestroyLeakedFails(s)
<1>2. CASE \E s \in Systems : ToolStep(s)
  BY <1>2, Zenon DEF ToolStep, CreateSystem, ProvisionDefined, Reprovision, Teardown, ForceCrash,
     Power, CreateRun,
     StageRun, InstallRun, Boot, EndAllocation
<1>3. CASE \E s \in Systems : ReconcilerStep(s)
  BY <1>3, Zenon DEF ReconcilerStep, RepairOrphan
<1>4. CASE \E w \in Workers : WorkerStep(w)
  BY <1>4, Zenon DEF WorkerStep, HandlerStep, Claim, Complete, Fail, ReadProvision,
     ReadReprovision, ReadForceCrash,
     Wipe, StartDomain, CommitReady, TearDownRow, DestroyDomain, InjectCrash, FinalizeForceCrash,
     ReadPower, ApplyPower, PowerRefused, ReadBoot, StopGuest, CreateGuest, RecordBoot
<1>5. CASE \E j \in Jobs : QueueStep(j)
  BY <1>5, Zenon DEF QueueStep, LeaseLapses, SweepZombie
<1>6. CASE Fault
  BY <1>6, Zenon DEF Fault, StartFails, CommitRaises, ProviderFails, Crash, Cancel, LeaseLapses
<1> QED
  BY <1>2, <1>3, <1>4, <1>5, <1>6, Zenon DEF Next, vars

\* A job that was enqueued stays, and one that was claimed stays so.
LEMMA JobsPersist ==
    ASSUME TypeOK, [Next]_vars, NEW j \in Jobs
    PROVE  /\ jstate[j] # "absent" => jstate'[j] # "absent"
           /\ attempt[j] > 0 => attempt'[j] > 0
<1> DEFINE Persists == /\ jstate[j] # "absent" => jstate'[j] # "absent"
                       /\ attempt[j] > 0 => attempt'[j] > 0
<1> SUFFICES Persists
  BY Zenon
<1>1. ASSUME jstate' = jstate, attempt' = attempt PROVE Persists
  BY <1>1, Zenon
<1>2. ASSUME NEW i, Enqueue(i), attempt' = attempt PROVE Persists
  BY <1>2 DEF Enqueue, TypeOK
<1>3. ASSUME NEW i, NEW state \in JobStates, Leave(i, state), attempt' = attempt PROVE Persists
  BY <1>3 DEF Leave, TypeOK, JobStates
<1>4. ASSUME NEW w \in Workers, NEW i \in Jobs, Claim(w, i) PROVE Persists
  BY <1>4 DEF Claim, TypeOK
<1>5. "succeeded" \in JobStates /\ "failed" \in JobStates /\ "queued" \in JobStates /\ "canceled" \in JobStates
  BY DEF JobStates
<1>6. ASSUME NEW w \in Workers, Complete(w) \/ Fail(w) PROVE Persists
  BY <1>1, <1>3, <1>5, <1>6, Zenon DEF Complete, Fail
<1>7. ASSUME NEW s \in Systems, NEW state, CreateSystem(s, state) PROVE Persists
  BY <1>1, <1>2, <1>7, Zenon DEF CreateSystem
<1> HIDE DEF Persists
<1>8. CASE \E s \in Systems : ToolStep(s)
  BY <1>1, <1>2, <1>7, <1>8, Zenon DEF ToolStep, ProvisionDefined, Reprovision, Teardown,
     ForceCrash, Power, CreateRun, StageRun,
     InstallRun, Boot, EndAllocation, jobVars
<1>9. CASE \E s \in Systems : ReconcilerStep(s)
  BY <1>1, <1>2, <1>9, Zenon DEF ReconcilerStep, RepairOrphan, CheckDomain, DestroyLeaked, jobVars
<1>10. CASE \E w \in Workers : WorkerStep(w)
  BY <1>1, <1>4, <1>6, <1>10, Zenon DEF WorkerStep, HandlerStep, ReadProvision, ReadReprovision,
     ReadForceCrash, Wipe, StartDomain,
     CommitReady, TearDownRow, DestroyDomain, InjectCrash, FinalizeForceCrash, ReadPower,
     ApplyPower, PowerRefused, ReadBoot, StopGuest, CreateGuest, RecordBoot, jobVars
<1>11. CASE \E i \in Jobs : QueueStep(i)
  BY <1>1, <1>3, <1>5, <1>11, Zenon DEF QueueStep, LeaseLapses, SweepZombie, jobVars
<1>12. CASE Fault
  BY <1>1, <1>3, <1>5, <1>12, Zenon DEF Fault, StartFails, CommitRaises, ProviderFails, Crash,
     Cancel, LeaseLapses, DestroyLeakedFails,
     jobVars
<1>13. CASE UNCHANGED vars
  BY <1>1, <1>13, Zenon DEF vars, jobVars
<1> QED
  BY <1>8, <1>9, <1>10, <1>11, <1>12, <1>13, Zenon DEF Next

\* How one row moves: it never returns to an earlier absence or from a terminal
\* state, and only a commit makes it ready.
LEMMA RowMoves ==
    ASSUME TypeOK, [Next]_vars, NEW s \in Systems
    PROVE  \/ sys'[s] = sys[s]
           \/ sys[s] \notin SystemTerminal /\ sys'[s] \notin {"absent", "ready"}
           \/ /\ sys[s] \notin SystemTerminal /\ sys'[s] = "ready" /\ domain' = domain
              /\ \E w \in Workers : at[w] = "commit" /\ S(w) = s
<1> DEFINE Moves == \/ sys'[s] = sys[s]
                    \/ sys[s] \notin SystemTerminal /\ sys'[s] \notin {"absent", "ready"}
                    \/ /\ sys[s] \notin SystemTerminal /\ sys'[s] = "ready" /\ domain' = domain
                       /\ \E w \in Workers : at[w] = "commit" /\ S(w) = s
<1> SUFFICES Moves
  BY Zenon
<1>1. ASSUME NEW r \in Systems, NEW state \in {"defined", "provisioning"}, CreateSystem(r, state) PROVE Moves
  BY <1>1 DEF CreateSystem, TypeOK, SystemTerminal
<1>2. ASSUME NEW r \in Systems, ProvisionDefined(r) PROVE Moves
  BY <1>2 DEF ProvisionDefined, TypeOK, SystemTerminal
<1>3. ASSUME NEW r \in Systems, NEW d \in Digests, Reprovision(r, d) PROVE Moves
  BY <1>3 DEF Reprovision, TypeOK, SystemTerminal
<1>4. ASSUME NEW w \in Workers, CommitReady(w) PROVE Moves
  BY <1>4 DEF CommitReady, TypeOK, SystemTerminal
<1>5. ASSUME NEW w \in Workers, TearDownRow(w) PROVE Moves
  BY <1>5 DEF TearDownRow, CanTransition, SystemEdges, TypeOK, SystemTerminal
<1>6. ASSUME NEW w \in Workers, FinalizeForceCrash(w) PROVE Moves
  BY <1>6 DEF FinalizeForceCrash, TypeOK, SystemTerminal
<1>7. CASE sys' = sys
  BY <1>7, Zenon
<1> HIDE DEF Moves
<1> QED
  BY <1>1, <1>2, <1>3, <1>4, <1>5, <1>6, <1>7, RowWriters, Zenon

\* A step that stops a running domain is one that was asked to, or acts on a
\* System that has ended.
LEMMA StepSparesDomains ==
    ASSUME TypeOK, DestroyersSawTheEnd, [Next]_vars,
           NEW s \in Systems, domain[s] = "running", domain'[s] # "running"
    PROVE  \/ sys[s] \in SystemTerminal
           \/ \E w \in Workers : StopsOnRequest(w) /\ S(w) = s /\ at'[w] # at[w]
<1> DEFINE Asked(w) == StopsOnRequest(w) /\ S(w) = s /\ at'[w] # at[w]
<1>1. ASSUME NEW w \in Workers, Wipe(w) \/ StopGuest(w) PROVE Asked(w)
  BY <1>1 DEF Wipe, StopGuest, Goto, StopsOnRequest, TypeOK
<1>2. ASSUME NEW w \in Workers, ApplyPower(w) PROVE Asked(w)
  BY <1>2 DEF ApplyPower, Goto, StopsOnRequest, TypeOK
<1>3. ASSUME NEW w \in Workers, ProviderFails(w) PROVE sys[s] \in SystemTerminal \/ Asked(w)
  BY <1>3 DEF ProviderFails, Goto, StopsOnRequest, TypeOK, DestroyersSawTheEnd
<1>4. ASSUME NEW w \in Workers, DestroyDomain(w) PROVE sys[s] \in SystemTerminal
  BY <1>4 DEF DestroyDomain, TypeOK, DestroyersSawTheEnd
<1>5. ASSUME NEW w \in Workers, StartDomain(w) \/ StartFails(w) \/ CreateGuest(w) PROVE FALSE
  BY <1>5 DEF StartDomain, StartFails, CreateGuest, TypeOK
<1>6. ASSUME NEW r \in Systems, DestroyLeaked(r) PROVE sys[s] \in SystemTerminal
  BY <1>6 DEF DestroyLeaked, SystemTerminal, TypeOK, DestroyersSawTheEnd
<1>7. ASSUME NEW r \in Systems, NEW q \in Runs, InstallRun(r, q) PROVE FALSE
  BY <1>7 DEF InstallRun, TypeOK
<1>8. domain' # domain
  BY Zenon
<1> HIDE DEF Asked
<1>9. sys[s] \in SystemTerminal \/ \E w \in Workers : Asked(w)
  BY <1>1, <1>2, <1>3, <1>4, <1>5, <1>6, <1>7, <1>8, DomainWriters, Zenon
<1> QED
  BY <1>9, Zenon DEF Asked

\* The steps a worker may come to, and what holds when it does.
Arrives(w) ==
    \/ at'[w] \in {"idle", "done", "raised", "inject", "finalize", "power"}
    \/ at'[w] = "destroy" /\ sys'[S(w)] \in SystemTerminal
    \/ at'[w] = "wipe" /\ Kind(w) \in Digests
    \/ at'[w] = "cycle" /\ Kind(w) \in Runs
    \/ at'[w] \in {"create", "probe"} /\ at[w] \in Booting
    \/ at'[w] = "start" /\ (Kind(w) = "provision" \/ at[w] = "wipe")
    \/ at'[w] = "commit" /\ at[w] = "start" /\ domain'[S(w)] = "running"

Stays(w) == at'[w] = at[w] /\ doing'[w] = doing[w]

GoesOn(w) == at[w] # "idle" /\ doing'[w] = doing[w] /\ Arrives(w)

Begins(w) ==
    /\ at'[w] = "read" /\ doing'[w] \in Jobs
    /\ jstate'[doing'[w]] = "running" /\ attempt'[doing'[w]] > 0

\* A step of a handler moves its own worker only.
LEMMA GotoMoves ==
    ASSUME TypeOK, NEW v \in Workers, NEW w \in Workers, NEW step, Goto(v, step)
    PROVE  Stays(w) \/ (w = v /\ at'[w] = step /\ doing'[w] = doing[w])
  BY DEF TypeOK, Goto, Stays

\* A worker's step changes in one of these ways only.
LEMMA WorkerMoves ==
    ASSUME TypeOK, WorkersRunRealJobs, [Next]_vars, NEW w \in Workers
    PROVE  Stays(w) \/ at'[w] = "idle" \/ Begins(w) \/ GoesOn(w)
<1> DEFINE Moves == Stays(w) \/ at'[w] = "idle" \/ Begins(w) \/ GoesOn(w)
<1> SUFFICES Moves
  BY Zenon
<1>1. ASSUME NEW v \in Workers, GoIdle(v) PROVE Moves
  BY <1>1 DEF GoIdle, TypeOK, Stays
<1>2. ASSUME NEW v \in Workers, NEW j \in Jobs, Claim(v, j) PROVE Moves
  BY <1>2 DEF Claim, TypeOK, Stays, Begins
<1>3. ASSUME NEW v \in Workers, Complete(v) \/ Fail(v) \/ Crash(v) PROVE Moves
  BY <1>1, <1>3, Zenon DEF Complete, Fail, Crash
<1> USE GotoMoves DEF GoesOn, Arrives
<1>4. ASSUME NEW v \in Workers, ReadProvision(v) PROVE Moves
  BY <1>4 DEF ReadProvision
<1>5. ASSUME NEW v \in Workers, ReadReprovision(v) PROVE Moves
  BY <1>5 DEF ReadReprovision
<1>6. ASSUME NEW v \in Workers, ReadForceCrash(v) PROVE Moves
  BY <1>6 DEF ReadForceCrash
<1>7. ASSUME NEW v \in Workers, Wipe(v) PROVE Moves
  BY <1>7 DEF Wipe
<1>8. ASSUME NEW v \in Workers, StartDomain(v) PROVE Moves
  <2>1. S(v) \in Systems
    BY <1>8, JobParts, Zenon DEF StartDomain
  <2> QED
    BY <1>8, <2>1 DEF StartDomain, TypeOK
<1>9. ASSUME NEW v \in Workers, CommitReady(v) PROVE Moves
  BY <1>9 DEF CommitReady, TypeOK, SystemTerminal
<1>10. ASSUME NEW v \in Workers, TearDownRow(v) PROVE Moves
  <2>1. S(v) \in Systems
    BY <1>10, JobParts, Zenon DEF TearDownRow
  <2> QED
    BY <1>10, <2>1 DEF TearDownRow, TypeOK, SystemTerminal
<1>11. ASSUME NEW v \in Workers, DestroyDomain(v) PROVE Moves
  BY <1>11 DEF DestroyDomain
<1>12. ASSUME NEW v \in Workers, InjectCrash(v) PROVE Moves
  BY <1>12 DEF InjectCrash
<1>13. ASSUME NEW v \in Workers, FinalizeForceCrash(v) PROVE Moves
  BY <1>13 DEF FinalizeForceCrash
<1>14. ASSUME NEW v \in Workers, ReadPower(v) PROVE Moves
  BY <1>14 DEF ReadPower
<1>15. ASSUME NEW v \in Workers, ApplyPower(v) PROVE Moves
  BY <1>15 DEF ApplyPower
<1>16. ASSUME NEW v \in Workers, PowerRefused(v) PROVE Moves
  BY <1>16 DEF PowerRefused
<1>17. ASSUME NEW v \in Workers, ReadBoot(v) PROVE Moves
  BY <1>17 DEF ReadBoot
<1>18. ASSUME NEW v \in Workers, StopGuest(v) PROVE Moves
  BY <1>18 DEF StopGuest, Booting
<1>19. ASSUME NEW v \in Workers, CreateGuest(v) PROVE Moves
  BY <1>19 DEF CreateGuest, Booting
<1>20. ASSUME NEW v \in Workers, RecordBoot(v) PROVE Moves
  BY <1>20 DEF RecordBoot
<1>21. ASSUME NEW v \in Workers, StartFails(v) PROVE Moves
  BY <1>21 DEF StartFails
<1>22. ASSUME NEW v \in Workers, CommitRaises(v) PROVE Moves
  BY <1>22 DEF CommitRaises
<1>23. ASSUME NEW v \in Workers, ProviderFails(v) PROVE Moves
  BY <1>23 DEF ProviderFails
<1>30. CASE workerVars' = workerVars
  BY <1>30, Zenon DEF workerVars, Stays
<1> HIDE DEF Moves, GoesOn, Arrives
<1>31. CASE \E s \in Systems : ToolStep(s)
  BY <1>30, <1>31, Zenon DEF ToolStep, CreateSystem, ProvisionDefined, Reprovision, Teardown,
     ForceCrash, Power, CreateRun,
     StageRun, InstallRun, Boot, EndAllocation
<1>32. CASE \E s \in Systems : ReconcilerStep(s)
  BY <1>30, <1>32, Zenon DEF ReconcilerStep, RepairOrphan, CheckDomain, DestroyLeaked
<1>33. CASE \E v \in Workers : WorkerStep(v)
  BY <1>2, <1>3, <1>4, <1>5, <1>6, <1>7, <1>8, <1>9, <1>10, <1>11, <1>12, <1>13, <1>14, <1>15,
     <1>16, <1>17, <1>18, <1>19, <1>20,
     <1>30, <1>33, Zenon DEF WorkerStep, HandlerStep
<1>34. CASE \E j \in Jobs : QueueStep(j)
  BY <1>30, <1>34, Zenon DEF QueueStep, LeaseLapses, SweepZombie
<1>35. CASE Fault
  BY <1>3, <1>21, <1>22, <1>23, <1>30, <1>35, Zenon DEF Fault, Cancel, LeaseLapses, DestroyLeakedFails
<1>36. CASE UNCHANGED vars
  BY <1>30, <1>36, Zenon DEF vars
<1> QED
  BY <1>31, <1>32, <1>33, <1>34, <1>35, <1>36, Zenon DEF Next

\* WorkersRunRealJobs after a step.
LEMMA StepWorkers ==
    ASSUME TypeOK, WorkersRunRealJobs, [Next]_vars
    PROVE  WorkersRunRealJobs'
<1> SUFFICES ASSUME NEW w \in Workers
             PROVE  /\ at'[w] # "idle" => /\ doing'[w] \in Jobs /\ jstate'[doing'[w]] # "absent"
                                          /\ attempt'[doing'[w]] > 0
                    /\ at'[w] = "wipe" => Kind(w)' \in Digests
                    /\ at'[w] \in Booting => Kind(w)' \in Runs
                    /\ at'[w] \in {"start", "commit"} => Kind(w)' \in {"provision"} \cup Digests
  BY Zenon DEF WorkersRunRealJobs
<1>1. ASSUME at[w] # "idle", doing'[w] = doing[w]
      PROVE  doing'[w] \in Jobs /\ jstate'[doing'[w]] # "absent" /\ attempt'[doing'[w]] > 0 /\ Kind(w)' = Kind(w)
  BY <1>1, JobParts, JobsPersist, Zenon DEF Kind
<1>2. CASE Stays(w)
  BY <1>1, <1>2 DEF Stays, WorkersRunRealJobs, Booting, Kind
<1>3. CASE at'[w] = "idle"
  BY <1>3 DEF Booting
<1>4. CASE Begins(w)
  BY <1>4 DEF Begins, Booting
<1>5. CASE GoesOn(w)
  BY <1>1, <1>5 DEF GoesOn, Arrives, WorkersRunRealJobs, Booting
<1> QED
  BY <1>2, <1>3, <1>4, <1>5, WorkerMoves, Zenon

\* A job is enqueued only for a System that has a row.
LEMMA JobsNeedARow ==
    ASSUME TypeOK, WorkersRunRealJobs, NothingBeforeTheRow, [Next]_vars,
           NEW s \in Systems, NEW k \in Kinds, sys'[s] = "absent"
    PROVE  jstate'[<<s, k>>] = "absent"
<1> DEFINE Absent == jstate'[<<s, k>>] = "absent"
<1> SUFFICES Absent
  BY Zenon
<1>1. sys[s] = "absent" /\ jstate[<<s, k>>] = "absent" /\ <<s, k>> \in Jobs
  <2>1. sys[s] = "absent"
    BY RowMoves, Zenon
  <2> QED
    BY <2>1, Zenon DEF NothingBeforeTheRow, Jobs
<1>2. ASSUME jstate' = jstate PROVE Absent
  BY <1>1, <1>2, Zenon
<1>3. ASSUME NEW r \in Systems, NEW i \in Kinds, Enqueue(<<r, i>>), r # s PROVE Absent
  BY <1>1, <1>3 DEF Enqueue, TypeOK
<1>4. ASSUME NEW j \in Jobs, NEW state, Leave(j, state), jstate[j] # "absent" PROVE Absent
  BY <1>1, <1>4 DEF Leave, TypeOK
<1>5. ASSUME NEW w \in Workers, NEW j \in Jobs, Claim(w, j) PROVE Absent
  BY <1>1, <1>5 DEF Claim, Claimable, TypeOK
<1>6. ASSUME NEW w \in Workers, Complete(w) \/ Fail(w) PROVE Absent
  <2>1. doing[w] \in Jobs /\ jstate[doing[w]] # "absent"
    BY <1>6, JobParts, Zenon DEF Complete, Fail
  <2> QED
    BY <1>2, <1>4, <1>6, <2>1, Zenon DEF Complete, Fail
<1>7. {"provision", "teardown", "force_crash"} \cup Digests \cup PowerCalls \cup Runs \subseteq Kinds
  BY DEF Kinds, SystemKinds
<1>8. ASSUME NEW r \in Systems, NEW state \in {"defined", "provisioning"}, CreateSystem(r, state) PROVE Absent
  <2>1. r # s
    BY <1>8 DEF CreateSystem, TypeOK
  <2> QED
    BY <1>2, <1>3, <1>7, <1>8, <2>1, Zenon DEF CreateSystem
<1>9. ASSUME NEW r \in Systems, ProvisionDefined(r) \/ Teardown(r) \/ ForceCrash(r) PROVE Absent
  <2>1. r # s
    BY <1>1, <1>9, Zenon DEF ProvisionDefined, Teardown, ForceCrash
  <2> QED
    BY <1>3, <1>7, <1>9, <2>1, Zenon DEF ProvisionDefined, Teardown, ForceCrash
<1>10. ASSUME NEW r \in Systems, NEW d \in Digests, Reprovision(r, d) PROVE Absent
  <2>1. r # s
    BY <1>1, <1>10, Zenon DEF Reprovision
  <2> QED
    BY <1>3, <1>7, <1>10, <2>1, Zenon DEF Reprovision
<1>11. ASSUME NEW r \in Systems, NEW c \in PowerCalls, Power(r, c) PROVE Absent
  <2>1. r # s
    BY <1>1, <1>11, Zenon DEF Power
  <2> QED
    BY <1>3, <1>7, <1>11, <2>1, Zenon DEF Power
<1>12. ASSUME NEW r \in Systems, NEW q \in Runs, Boot(r, q) PROVE Absent
  <2>1. r # s
    BY <1>1, <1>12, Zenon DEF Boot, NothingBeforeTheRow
  <2> QED
    BY <1>3, <1>7, <1>12, <2>1, Zenon DEF Boot
<1>13. ASSUME NEW r \in Systems, RepairOrphan(r) PROVE Absent
  <2>1. r # s
    BY <1>1, <1>13 DEF RepairOrphan, Orphaned, SystemStates
  <2> QED
    BY <1>3, <1>7, <1>13, <2>1, Zenon DEF RepairOrphan
<1>14. ASSUME NEW j \in Jobs, SweepZombie(j) \/ Cancel(j) PROVE Absent
  <2>1. jstate[j] # "absent"
    BY <1>14 DEF SweepZombie, Cancel, CanTransition, JobEdges
  <2> QED
    BY <1>4, <1>14, <2>1, Zenon DEF SweepZombie, Cancel
<1> HIDE DEF Absent
<1>15. CASE \E t \in Systems : ToolStep(t)
  BY <1>2, <1>8, <1>9, <1>10, <1>11, <1>12, <1>15, Zenon DEF ToolStep, CreateRun, StageRun,
     InstallRun, EndAllocation, jobVars
<1>16. CASE \E t \in Systems : ReconcilerStep(t)
  BY <1>2, <1>13, <1>16, Zenon DEF ReconcilerStep, CheckDomain, DestroyLeaked, jobVars
<1>17. CASE \E w \in Workers : WorkerStep(w)
  BY <1>2, <1>5, <1>6, <1>17, Zenon DEF WorkerStep, HandlerStep, ReadProvision, ReadReprovision,
     ReadForceCrash, Wipe, StartDomain,
     CommitReady, TearDownRow, DestroyDomain, InjectCrash, FinalizeForceCrash, ReadPower,
     ApplyPower, PowerRefused, ReadBoot, StopGuest, CreateGuest, RecordBoot, jobVars
<1>18. CASE \E j \in Jobs : QueueStep(j)
  BY <1>2, <1>14, <1>18, Zenon DEF QueueStep, LeaseLapses, jobVars
<1>19. CASE Fault
  BY <1>2, <1>14, <1>19, Zenon DEF Fault, StartFails, CommitRaises, ProviderFails, Crash,
     LeaseLapses, DestroyLeakedFails, jobVars
<1>20. CASE UNCHANGED vars
  BY <1>2, <1>20, Zenon DEF vars, jobVars
<1> QED
  BY <1>15, <1>16, <1>17, <1>18, <1>19, <1>20, Zenon DEF Next

\* Nothing exists for a System before its row, after a step.
LEMMA StepFresh ==
    ASSUME TypeOK, WorkersRunRealJobs, NothingBeforeTheRow, [Next]_vars
    PROVE  NothingBeforeTheRow'
<1> SUFFICES ASSUME NEW s \in Systems, sys'[s] = "absent"
             PROVE  /\ domain'[s] = "absent"
                    /\ \A k \in Kinds : jstate'[<<s, k>>] = "absent"
                    /\ \A r \in Runs : run'[<<s, r>>] = "absent"
  BY Zenon DEF NothingBeforeTheRow
<1>1. sys[s] = "absent" /\ domain[s] = "absent" /\ \A r \in Runs : run[<<s, r>>] = "absent"
  <2>1. sys[s] = "absent"
    BY RowMoves, Zenon
  <2> QED
    BY <2>1, Zenon DEF NothingBeforeTheRow
<1>2. ASSUME NEW w \in Workers, at[w] # "idle" PROVE S(w) # s /\ doing[w] = <<S(w), Kind(w)>>
  BY <1>1, <1>2, BusyMeansCreated, JobParts, Zenon
<1>3. domain'[s] = "absent"
  <2>1. ASSUME NEW w \in Workers, Wipe(w) \/ DestroyDomain(w) \/ ProviderFails(w) \/ StartDomain(w)
        PROVE  domain'[s] = "absent"
    BY <1>1, <1>2, <2>1 DEF Wipe, DestroyDomain, ProviderFails, StartDomain, TypeOK
  <2>2. ASSUME NEW w \in Workers, StartFails(w) \/ ApplyPower(w) \/ StopGuest(w) \/ CreateGuest(w)
        PROVE  domain'[s] = "absent"
    BY <1>1, <1>2, <2>2 DEF StartFails, ApplyPower, StopGuest, CreateGuest, TypeOK
  <2>3. ASSUME NEW r \in Systems, DestroyLeaked(r) PROVE domain'[s] = "absent"
    BY <1>1, <2>3 DEF DestroyLeaked, TypeOK
  <2>4. ASSUME NEW r \in Systems, NEW q \in Runs, InstallRun(r, q) PROVE domain'[s] = "absent"
    BY <1>1, <2>4 DEF InstallRun, TypeOK
  <2> QED
    BY <1>1, <2>1, <2>2, <2>3, <2>4, DomainWriters, Zenon
<1>4. ASSUME NEW r \in Runs PROVE run'[<<s, r>>] = "absent"
  <2>1. ASSUME NEW t \in Systems, NEW q \in Runs, CreateRun(t, q) \/ StageRun(t, q) \/ InstallRun(t, q)
        PROVE  run'[<<s, r>>] = "absent"
    <3>1. t # s
      BY <1>1, <2>1 DEF CreateRun, StageRun, InstallRun
    <3> QED
      BY <1>1, <2>1, <3>1 DEF CreateRun, StageRun, InstallRun, TypeOK
  <2>2. ASSUME NEW w \in Workers, RecordBoot(w) PROVE run'[<<s, r>>] = "absent"
    <3>1. doing[w] # <<s, r>>
      BY <1>2, <2>2 DEF RecordBoot
    <3> QED
      BY <1>1, <2>2, <3>1 DEF RecordBoot, TypeOK
  <2> QED
    BY <1>1, <2>1, <2>2, RunWriters, Zenon
<1> QED
  BY <1>3, <1>4, JobsNeedARow, Zenon

\* Who destroys has seen the end, after a step.
LEMMA StepDestroyers ==
    ASSUME TypeOK, WorkersRunRealJobs, NothingBeforeTheRow, DestroyersSawTheEnd, [Next]_vars
    PROVE  DestroyersSawTheEnd'
<1>1. ASSUME NEW s \in Systems, sys[s] \in SystemTerminal PROVE sys'[s] = sys[s]
  BY <1>1, RowMoves, Zenon
<1>2. ASSUME NEW w \in Workers, at'[w] = "destroy" PROVE sys'[S(w)'] \in SystemTerminal
  <2>1. CASE Stays(w)
    <3>1. at[w] = "destroy" /\ S(w)' = S(w) /\ S(w) \in Systems
      BY <1>2, <2>1, JobParts DEF Stays, S
    <3> QED
      BY <1>1, <3>1, Zenon DEF DestroyersSawTheEnd
  <2>2. CASE GoesOn(w)
    BY <1>2, <2>2 DEF GoesOn, Arrives, S
  <2>3. CASE at'[w] = "idle" \/ Begins(w)
    BY <1>2, <2>3 DEF Begins
  <2> QED
    BY <2>1, <2>2, <2>3, WorkerMoves, Zenon
<1>3. ASSUME NEW s \in reaping' PROVE sys'[s] = "torn_down"
  <2>1. ASSUME s \in reaping PROVE sys'[s] = "torn_down"
    BY <1>1, <2>1 DEF DestroyersSawTheEnd, SystemTerminal, TypeOK
  <2>2. ASSUME NEW r \in Systems, CheckDomain(r) PROVE sys'[s] = "torn_down"
    BY <1>3, <2>2 DEF CheckDomain, Leaked, NothingBeforeTheRow
  <2>3. ASSUME NEW r \in Systems, DestroyLeaked(r) \/ DestroyLeakedFails(r) PROVE FALSE
    BY <1>3, <2>3, Zenon DEF DestroyLeaked, DestroyLeakedFails
  <2> QED
    BY <1>3, <2>1, <2>2, <2>3, ReapingWriters, Zenon
<1> QED
  BY <1>2, <1>3, Zenon DEF DestroyersSawTheEnd

\* A domain that is up stays up while its System is in use and undisturbed.
LEMMA StaysUp ==
    ASSUME SysInv, [Next]_vars, NEW s \in Systems, domain[s] = "running",
           sys[s] \notin SystemTerminal, Undisturbed(s)
    PROVE  domain'[s] = "running"
<1> SUFFICES ASSUME domain'[s] # "running" PROVE FALSE
  BY Zenon
<1>1. PICK w \in Workers : StopsOnRequest(w) /\ S(w) = s
  BY StepSparesDomains, Zenon DEF SysInv
<1>2. at[w] # "idle" /\ (Kind(w) \in Digests \cup Offs \cup Runs)
  BY <1>1 DEF StopsOnRequest, SysInv, WorkersRunRealJobs, Booting
<1>3. attempt[<<s, Kind(w)>>] > 0
  BY <1>1, <1>2, JobParts, Zenon DEF SysInv
<1>4. attempt[<<s, Kind(w)>>] = 0
  BY <1>2, Zenon DEF Undisturbed
<1> QED
  BY <1>3, <1>4

\* A System undisturbed after a step was so before it.
LEMMA WasUndisturbed ==
    ASSUME TypeOK, [Next]_vars, NEW s \in Systems, Undisturbed(s)'
    PROVE  Undisturbed(s)
<1> SUFFICES ASSUME NEW k \in Digests \cup Offs \cup Runs PROVE attempt[<<s, k>>] = 0
  BY Zenon DEF Undisturbed
<1>1. <<s, k>> \in Jobs
  BY DEF Jobs, Kinds, PowerCalls
<1>2. attempt'[<<s, k>>] = 0
  BY Zenon DEF Undisturbed
<1>3. attempt[<<s, k>>] \in 0..MaxAttempts
  BY <1>1, Zenon DEF TypeOK
<1>4. ~(attempt[<<s, k>>] > 0)
  BY <1>1, <1>2, JobsPersist
<1> QED
  BY <1>3, <1>4, BoundAssumption

\* ReadyIsRunning, said with Undisturbed.
LEMMA ReadyUndisturbed ==
    TypeOK => (ReadyIsRunning <=>
               \A s \in Systems : sys[s] = "ready" /\ Undisturbed(s) => domain[s] = "running")
<1> SUFFICES ASSUME TypeOK
             PROVE  ReadyIsRunning <=>
                    \A s \in Systems : sys[s] = "ready" /\ Undisturbed(s) => domain[s] = "running"
  BY Zenon
<1>1. ASSUME NEW s \in Systems PROVE Undisturbed(s) <=> ~\E k \in Digests \cup Offs \cup Runs : attempt[<<s, k>>] > 0
  <2>1. ASSUME NEW k \in Digests \cup Offs \cup Runs PROVE attempt[<<s, k>>] = 0 <=> ~(attempt[<<s, k>>] > 0)
    <3>1. <<s, k>> \in Jobs
      BY DEF Jobs, Kinds, PowerCalls
    <3>2. attempt[<<s, k>>] \in 0..MaxAttempts
      BY <3>1, Zenon DEF TypeOK
    <3> QED
      BY <3>2, BoundAssumption
  <2> QED
    BY <2>1, Zenon DEF Undisturbed
<1> QED
  BY <1>1, Zenon DEF ReadyIsRunning

\* The domain is up at the commit, after a step.
LEMMA StepStarted ==
    ASSUME SysInv, [Next]_vars
    PROVE  StartedMeansRunning'
<1> SUFFICES ASSUME NEW w \in Workers, at'[w] = "commit", sys'[S(w)'] \notin SystemTerminal, Undisturbed(S(w))'
             PROVE  domain'[S(w)'] = "running"
  BY Zenon DEF StartedMeansRunning
<1>1. CASE Stays(w)
  <2>1. at[w] = "commit" /\ S(w)' = S(w) /\ S(w) \in Systems
    BY <1>1, JobParts DEF SysInv, Stays, S
  <2>2. sys[S(w)] \notin SystemTerminal
    BY <2>1, RowMoves, Zenon DEF SysInv
  <2>3. Undisturbed(S(w))
    BY <2>1, WasUndisturbed, Zenon DEF SysInv
  <2>4. domain[S(w)] = "running"
    BY <2>1, <2>2, <2>3, Zenon DEF SysInv, StartedMeansRunning
  <2> QED
    BY <2>1, <2>2, <2>3, <2>4, StaysUp, Zenon
<1>2. CASE GoesOn(w)
  BY <1>2 DEF GoesOn, Arrives, S
<1>3. CASE at'[w] = "idle" \/ Begins(w)
  BY <1>3 DEF Begins
<1> QED
  BY <1>1, <1>2, <1>3, WorkerMoves, Zenon DEF SysInv

\* ReadyIsRunning after a step.
LEMMA StepReady ==
    ASSUME SysInv, [Next]_vars, TypeOK'
    PROVE  ReadyIsRunning'
<1>0. (TypeOK => (ReadyIsRunning <=>
                  \A s \in Systems : sys[s] = "ready" /\ Undisturbed(s) => domain[s] = "running"))'
  BY ReadyUndisturbed, PTL
<1> SUFFICES ASSUME NEW s \in Systems, sys'[s] = "ready", Undisturbed(s)' PROVE domain'[s] = "running"
  BY <1>0, Zenon
<1>1. TypeOK /\ Undisturbed(s)
  BY WasUndisturbed, Zenon DEF SysInv
<1>2. CASE sys[s] = "ready"
  <2>1. domain[s] = "running"
    BY <1>1, <1>2, ReadyUndisturbed, Zenon DEF SysInv
  <2>2. sys[s] \notin SystemTerminal
    BY <1>2 DEF SystemTerminal
  <2> QED
    BY <1>1, <2>1, <2>2, StaysUp, Zenon
<1>3. CASE sys[s] # "ready"
  <2>1. /\ sys[s] \notin SystemTerminal /\ domain' = domain
        /\ \E w \in Workers : at[w] = "commit" /\ S(w) = s
    BY <1>1, <1>3, RowMoves
  <2> QED
    BY <1>1, <2>1, Zenon DEF SysInv, StartedMeansRunning
<1> QED
  BY <1>2, <1>3, Zenon

\* Every step keeps the inductive invariant.
LEMMA StepSysInv == SysInv /\ [Next]_vars => SysInv'
  BY StepTypes, StepWorkers, StepFresh, StepDestroyers, StepStarted, StepReady, Zenon DEF SysInv

\* Every reachable state satisfies the inductive invariant.
LEMMA SysInvHolds == Spec => []SysInv
  BY InitSysInv, StepSysInv, PTL DEF Spec

\* Rows, jobs, workers and the reaper keep their domains.
THEOREM TypeCorrect == Spec => []TypeOK
<1>1. SysInv => TypeOK
  BY Zenon DEF SysInv
<1> QED
  BY <1>1, SysInvHolds, PTL

\* A System is ready with its domain down only after a worker began to reprovision
\* it, power it off or boot it, for any number of workers, reclaims, crashes and
\* provider failures.
THEOREM ReadySystemsRun == Spec => []ReadyIsRunning
<1>1. SysInv => ReadyIsRunning
  BY Zenon DEF SysInv
<1> QED
  BY <1>1, SysInvHolds, PTL

\* No teardown, superseded provision, failed start or leaked-domain pass stops the
\* domain of a System in use: only a reprovision, a power-off or a boot does.
THEOREM LiveDomainsSurvive == Spec => LiveDomainsAreSpared
<1>1. SysInv /\ [Next]_vars =>
      [\A s \in Systems :
        domain[s] = "running" /\ domain'[s] # "running" =>
            \/ sys[s] \in SystemTerminal
            \/ \E w \in Workers : StopsOnRequest(w) /\ S(w) = s /\ at'[w] # at[w]]_vars
  BY StepSparesDomains, Zenon DEF SysInv
<1> QED
  BY <1>1, SysInvHolds, PTL DEF Spec, LiveDomainsAreSpared

\* The handlers' raw UPDATEs of systems.state implement the table of
\* domain/state.py.
THEOREM ImplementsSystemTable == Spec => FollowsSystemTable
<1>1. Init => SystemTable!Init
  BY DEF Init, SystemTable!Init
<1>2. SysInv /\ [Next]_vars => [SystemTable!Next]_sys
  <2> SUFFICES ASSUME SysInv, [Next]_vars PROVE [SystemTable!Next]_sys
    OBVIOUS
  <2> USE DEF SysInv, TypeOK, SystemTable!Next, SystemTable!Insert, SystemTable!Move, SystemEdges
  <2>1. ASSUME NEW s \in Systems, NEW state \in {"defined", "provisioning"}, CreateSystem(s, state)
        PROVE  [SystemTable!Next]_sys
    BY <2>1 DEF CreateSystem
  <2>2. ASSUME NEW s \in Systems, NEW d \in Digests, Reprovision(s, d)
        PROVE  [SystemTable!Next]_sys
    BY <2>2 DEF Reprovision
  <2>3. ASSUME NEW w \in Workers, CommitReady(w) PROVE [SystemTable!Next]_sys
    BY <2>3 DEF CommitReady
  <2>4. ASSUME NEW w \in Workers, TearDownRow(w) PROVE [SystemTable!Next]_sys
    BY <2>4 DEF TearDownRow, CanTransition
  <2>5. ASSUME NEW w \in Workers, FinalizeForceCrash(w) PROVE [SystemTable!Next]_sys
    BY <2>5 DEF FinalizeForceCrash
  <2>6. ASSUME NEW s \in Systems, ProvisionDefined(s) PROVE [SystemTable!Next]_sys
    BY <2>6 DEF ProvisionDefined
  <2> HIDE DEF SysInv, TypeOK, SystemTable!Next, SystemEdges
  <2>7. CASE sys' = sys
    BY <2>7, Zenon
  <2> QED
    BY <2>1, <2>2, <2>3, <2>4, <2>5, <2>6, <2>7, RowWriters, Zenon
<1> QED
  BY <1>1, <1>2, SysInvHolds, PTL DEF Spec, FollowsSystemTable, SystemTable!Spec
=============================================================================
