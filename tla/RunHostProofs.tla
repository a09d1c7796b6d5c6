---------------------------- MODULE RunHostProofs ----------------------------
(***************************************************************************)
(* Theorems about RunHost, for any numbers of runs and attempts.           *)
(*                                                                         *)
(* The argument goes along the parts of the host: the coordinator does not *)
(* touch attempts, the port does not touch directories, and the shutdown   *)
(* starts nothing.  What has been told of an attempt bounds its lease and  *)
(* its run; how far the shutdown is bounds what has been removed.          *)
(***************************************************************************)
EXTENDS RunHost, TLAPS

-----------------------------------------------------------------------------
(* Who touches what.                                                       *)

LEMMA CoordinatorFrame ==
    ASSUME NEW r \in Runs, Coordinator(r)
    PROVE  UNCHANGED <<attempts, runs, agents, told, quiesce, outputs>>
BY DEF Coordinator, Allocated, AllocationFails, Admitted, AdmissionFails,
       TerminalSeen, WaitEnds, AdmissionUndone, RemovedAfterTerminal

LEMMA PortFrame ==
    ASSUME NEW i \in Invocations, Port(i)
    PROVE  UNCHANGED <<directories, runs, quiesce, outputs>>
BY DEF Port, Leased, LeasingFails, StartAccepted, StartRejected, StartUndone,
       ResultArrives, ResultReturned, LeaseSettles

LEMMA ShutdownFrame ==
    ASSUME Shutdown
    PROVE  UNCHANGED <<calls, waiters, starts, pending, owners, runs, told>>
BY DEF Shutdown, RuntimeStops, ManagerStops, CleanupsOver, DirectoriesGone,
       StartsSettled, OwnersGone, RemovedForShutdown, directories, attempts

LEMMA EnvironmentFrame ==
    ASSUME Environment
    PROVE  /\ UNCHANGED <<waiters, intact, host, tracked, leases, owners,
                          outputs>>
           /\ quiesce' = quiesce \/ BeginShutdown
BY DEF Environment, BeginCreate, Admit, RunEnds, StartAttempt, Refused,
       GetResult, CancelAnswers, AgentEnds, BeginShutdown, directories,
       attempts

-----------------------------------------------------------------------------
(* Type correctness.                                                       *)

DirectoryTypeOK ==
    /\ calls \in [Runs -> Call]
    /\ waiters \in [Runs -> Waiter]
    /\ intact \subseteq Runs /\ host \subseteq Runs /\ tracked \subseteq Runs

AttemptTypeOK ==
    /\ starts \in [Invocations -> Start]
    /\ pending \subseteq Invocations
    /\ owners = {i \in Invocations :
                    leases[i] \in {"active", "disposing", "failed"}}
    /\ leases \in [Invocations -> Lease]
    /\ agents \in [Invocations -> {"none", "running", "done"}]
    /\ told \in [Invocations -> Answer]

RestTypeOK ==
    /\ runs \in [Runs -> {"none", "live", "terminal"}]
    /\ quiesce \in Quiesce
    /\ outputs \in BOOLEAN

LEMMA DirectoryTypeStep ==
    ASSUME TypeOK, [Next]_vars
    PROVE  DirectoryTypeOK'
<1>. USE DEF DirectoryTypeOK, TypeOK, Call, Waiter, directories
<1>1. CASE UNCHANGED vars
    BY <1>1 DEF vars
<1>2. ASSUME NEW r \in Runs, Coordinator(r)
      PROVE  DirectoryTypeOK'
    BY <1>2 DEF Coordinator, Allocated, AllocationFails, Admitted,
                AdmissionFails, TerminalSeen, WaitEnds, AdmissionUndone,
                RemovedAfterTerminal
<1>3. ASSUME NEW i \in Invocations, Port(i)
      PROVE  DirectoryTypeOK'
    BY <1>3, PortFrame
<1>4. CASE Shutdown
    BY <1>4 DEF Shutdown, RuntimeStops, ManagerStops, CleanupsOver,
                DirectoriesGone, StartsSettled, OwnersGone, RemovedForShutdown
<1>5. CASE Environment
    BY <1>5 DEF Environment, BeginCreate, Admit, RunEnds, StartAttempt,
                GetResult, CancelAnswers, AgentEnds, BeginShutdown
<1>. QED
    BY <1>1, <1>2, <1>3, <1>4, <1>5 DEF Next, Continue

LEMMA AttemptTypeStep ==
    ASSUME TypeOK, [Next]_vars
    PROVE  AttemptTypeOK'
<1>. USE DEF AttemptTypeOK, TypeOK, Lease, Start, Answer, attempts
<1>1. CASE UNCHANGED vars
    BY <1>1 DEF vars
<1>2. ASSUME NEW r \in Runs, Coordinator(r)
      PROVE  AttemptTypeOK'
    BY <1>2, CoordinatorFrame
<1>3. ASSUME NEW i \in Invocations, Port(i)
      PROVE  AttemptTypeOK'
    <2>1. CASE Leased(i)
        BY <2>1 DEF Leased
    <2>2. CASE LeasingFails(i)
        BY <2>2 DEF LeasingFails
    <2>3. CASE StartAccepted(i)
        BY <2>3 DEF StartAccepted
    <2>4. CASE StartRejected(i)
        BY <2>4 DEF StartRejected, Disposing
    <2>5. CASE StartUndone(i)
        BY <2>5 DEF StartUndone
    <2>6. CASE ResultArrives(i)
        BY <2>6 DEF ResultArrives, Disposing
    <2>7. CASE ResultReturned(i)
        BY <2>7 DEF ResultReturned
    <2>8. ASSUME NEW released \in BOOLEAN, LeaseSettles(i, released)
          PROVE  AttemptTypeOK'
        BY <2>8 DEF LeaseSettles
    <2>. QED
        BY <1>3, <2>1, <2>2, <2>3, <2>4, <2>5, <2>6, <2>7, <2>8 DEF Port
<1>4. CASE Shutdown
    <2>1. CASE StartsSettled
        BY <2>1 DEF StartsSettled, Disposing
    <2>2. ASSUME NEW stopped \in BOOLEAN, RuntimeStops(stopped)
          PROVE  AttemptTypeOK'
        BY <2>2 DEF RuntimeStops
    <2>3. CASE UNCHANGED <<attempts, agents, told>>
        BY <2>3
    <2>. QED
        BY <1>4, <2>1, <2>2, <2>3
        DEF Shutdown, ManagerStops, CleanupsOver, DirectoriesGone, OwnersGone,
            RemovedForShutdown
<1>5. CASE Environment
    <2>1. ASSUME NEW r \in Runs, NEW i \in Invocations, StartAttempt(i, r)
          PROVE  AttemptTypeOK'
        BY <2>1 DEF StartAttempt, Refused
    <2>2. ASSUME NEW i \in Invocations, GetResult(i)
          PROVE  AttemptTypeOK'
        BY <2>2 DEF GetResult, Lookup
    <2>3. ASSUME NEW i \in Invocations, CancelAnswers(i)
          PROVE  AttemptTypeOK'
        BY <2>3 DEF CancelAnswers
    <2>4. ASSUME NEW i \in Invocations, AgentEnds(i)
          PROVE  AttemptTypeOK'
        BY <2>4 DEF AgentEnds
    <2>5. CASE UNCHANGED <<attempts, agents, told>>
        BY <2>5
    <2>. QED
        BY <1>5, <2>1, <2>2, <2>3, <2>4, <2>5
        DEF Environment, BeginCreate, Admit, RunEnds, BeginShutdown
<1>. QED
    BY <1>1, <1>2, <1>3, <1>4, <1>5 DEF Next, Continue

\* The shutdown goes from phase to phase and keeps its record well-typed.
LEMMA QuiesceUpdate ==
    ASSUME quiesce \in Quiesce,
           NEW pc \in {"runtime", "manager", "waiting", "removing",
                       "settling", "disposing", "done"},
           NEW flag \in BOOLEAN, NEW failed \in BOOLEAN,
           NEW left \in SUBSET (Runs \cup Invocations)
    PROVE  /\ [quiesce EXCEPT !.pc = pc] \in Quiesce
           /\ [quiesce EXCEPT !.pc = pc, !.left = left] \in Quiesce
           /\ [quiesce EXCEPT !.left = left, !.failed = failed] \in Quiesce
           /\ [quiesce EXCEPT !.pc = pc, !.left = left, !.failed = failed]
                 \in Quiesce
           /\ [quiesce EXCEPT !.pc = pc, !.runtimeStopped = flag,
                              !.failed = failed] \in Quiesce
           /\ [quiesce EXCEPT !.managerStopped = flag, !.failed = failed]
                 \in Quiesce
BY DEF Quiesce

LEMMA ClosePortType ==
    ASSUME NEW q \in Quiesce, AttemptTypeOK
    PROVE  ClosePort(q) \in Quiesce
BY DEF ClosePort, Quiesce, AttemptTypeOK

LEMMA RestTypeStep ==
    ASSUME TypeOK, [Next]_vars
    PROVE  RestTypeOK'
<1>. USE DEF RestTypeOK
<1>0. RestTypeOK /\ AttemptTypeOK /\ DirectoryTypeOK
    BY DEF TypeOK, AttemptTypeOK, DirectoryTypeOK
<1>1. CASE UNCHANGED vars
    BY <1>0, <1>1 DEF vars
<1>2. ASSUME NEW r \in Runs, Coordinator(r)
      PROVE  RestTypeOK'
    BY <1>0, <1>2, CoordinatorFrame
<1>3. ASSUME NEW i \in Invocations, Port(i)
      PROVE  RestTypeOK'
    BY <1>0, <1>3, PortFrame
<1>4. CASE Shutdown
    <2>0. quiesce.failed \in BOOLEAN
        BY <1>0 DEF Quiesce
    <2>1. ASSUME NEW stopped \in BOOLEAN, RuntimeStops(stopped)
          PROVE  RestTypeOK'
        BY <1>0, <2>1, QuiesceUpdate DEF RuntimeStops
    <2>2. ASSUME NEW stopped \in BOOLEAN, ManagerStops(stopped)
          PROVE  RestTypeOK'
        <3>. DEFINE q == [quiesce EXCEPT !.managerStopped = stopped,
                                         !.failed = @ \/ ~stopped]
                    waiting == {r \in Runs : waiters[r] \in {"waiting",
                                                             "removing"}}
        <3>1. q \in Quiesce
            BY <1>0, <2>0, QuiesceUpdate
        <3>2. ClosePort(q) \in Quiesce
            BY <1>0, <3>1, ClosePortType
        <3>3. /\ [q EXCEPT !.pc = "waiting", !.left = waiting] \in Quiesce
              /\ [q EXCEPT !.pc = "done"] \in Quiesce
            <4>. HIDE DEF q
            <4>. QED
                BY <3>1 DEF Quiesce
        <3>4. \/ quiesce' = [q EXCEPT !.pc = "waiting", !.left = waiting]
              \/ quiesce' = ClosePort(q)
              \/ quiesce' = [q EXCEPT !.pc = "done"]
            BY <2>2 DEF ManagerStops
        <3>5. UNCHANGED <<runs, outputs>>
            BY <2>2 DEF ManagerStops
        <3>. QED
            BY <1>0, <3>2, <3>3, <3>4, <3>5
    <2>3. CASE CleanupsOver
        <3>1. tracked \cap host \subseteq Runs
            BY <1>0 DEF DirectoryTypeOK
        <3>. QED
            BY <1>0, <2>3, <3>1, QuiesceUpdate DEF CleanupsOver
    <2>4. CASE DirectoriesGone
        BY <1>0, <2>4, ClosePortType DEF DirectoriesGone
    <2>5. CASE StartsSettled
        <3>1. owners \subseteq Invocations
            BY <1>0 DEF AttemptTypeOK
        <3>. QED
            BY <1>0, <2>5, <3>1, QuiesceUpdate DEF StartsSettled
    <2>6. ASSUME NEW cleaned \in BOOLEAN, OwnersGone(cleaned)
          PROVE  RestTypeOK'
        <3>. DEFINE failed == \/ quiesce.failed \/ ~cleaned
                              \/ \E i \in quiesce.left : leases[i] = "failed"
        <3>1. failed \in BOOLEAN
            BY <2>0
        <3>2. quiesce' = [quiesce EXCEPT !.pc = "done", !.left = {},
                                         !.failed = failed]
            BY <2>6 DEF OwnersGone
        <3>3. runs' = runs /\ outputs' \in BOOLEAN
            BY <2>6 DEF OwnersGone
        <3>. HIDE DEF failed
        <3>. QED
            BY <1>0, <3>1, <3>2, <3>3, QuiesceUpdate
    <2>7. ASSUME NEW r \in Runs, NEW removed \in BOOLEAN,
                 RemovedForShutdown(r, removed)
          PROVE  RestTypeOK'
        <3>1. quiesce.left \ {r} \subseteq Runs \cup Invocations
            BY <1>0 DEF Quiesce
        <3>2. (quiesce.failed \/ ~removed) \in BOOLEAN
            BY <2>0
        <3>. QED
            BY <1>0, <2>7, <3>1, <3>2, QuiesceUpdate DEF RemovedForShutdown
    <2>. QED
        BY <1>4, <2>1, <2>2, <2>3, <2>4, <2>5, <2>6, <2>7 DEF Shutdown
<1>5. CASE Environment
    <2>1. quiesce' \in Quiesce /\ outputs' = outputs
        BY <1>0, <1>5, EnvironmentFrame, QuiesceUpdate DEF BeginShutdown
    <2>2. runs' \in [Runs -> {"none", "live", "terminal"}]
        BY <1>0, <1>5 DEF Environment, BeginCreate, Admit, RunEnds,
            StartAttempt, GetResult, CancelAnswers, AgentEnds, BeginShutdown
    <2>. QED
        BY <1>0, <2>1, <2>2
<1>. QED
    BY <1>1, <1>2, <1>3, <1>4, <1>5 DEF Next, Continue

LEMMA TypeStep ==
    ASSUME TypeOK, [Next]_vars
    PROVE  TypeOK'
BY DirectoryTypeStep, AttemptTypeStep, RestTypeStep
   DEF TypeOK, DirectoryTypeOK, AttemptTypeOK, RestTypeOK

LEMMA TypeInit ==
    ASSUME Init
    PROVE  TypeOK
BY DEF Init, TypeOK, Call, Waiter, Lease, Start, Answer, Quiesce

\* The state of the host is well-typed; in particular the port has an owner
\* exactly for every lease that is not known to be released.
THEOREM TypeCorrect == Spec => []TypeOK
<1>1. Init => TypeOK
    BY TypeInit
<1>2. TypeOK /\ [Next]_vars => TypeOK'
    BY TypeStep
<1>. QED
    BY <1>1, <1>2, PTL DEF Spec

-----------------------------------------------------------------------------
(* Leases.                                                                 *)

\* What an attempt has behind it at each stage of its start.
Begun(i) ==
    /\ starts[i].pc # "none" => starts[i].run \in Runs
    /\ agents[i] # "none" => starts[i].pc = "accepted"

Unleased(i) ==
    /\ starts[i].pc \in {"none", "leasing"} => leases[i] = "none"
    /\ starts[i].pc \in {"starting", "undoing", "accepted"}
          => leases[i] # "none"

\* With what it was told, the run manager knows that the leases are gone; save
\* with the answer of a cancel, which only says that the agent has ended.
ToldAfterRelease(i) ==
    /\ told[i] \in {"refused", "result", "error"}
          => /\ starts[i].pc \in {"over", "accepted"}
             /\ leases[i] \notin {"active", "disposing"}
    /\ told[i] = "result" => leases[i] = "disposed"
    /\ told[i] = "already_completed" => agents[i] = "done"

\* A run goes on while one of its attempts has not been told of.
RunAwaits(i) ==
    /\ starts[i].pc = "none" => starts[i].run = NoRun
    /\ starts[i].pc # "none" /\ told[i] = "nothing"
          => runs[starts[i].run] = "live"

AttemptInv ==
    \A i \in Invocations :
        Begun(i) /\ Unleased(i) /\ ToldAfterRelease(i) /\ RunAwaits(i)

Attempt(i) == Begun(i) /\ Unleased(i) /\ ToldAfterRelease(i) /\ RunAwaits(i)

LEMMA AttemptStep ==
    ASSUME TypeOK, AttemptInv, [Next]_vars, NEW j \in Invocations
    PROVE  Attempt(j)'
<1>. USE NoRunAssumption
         DEF TypeOK, Attempt, Begun, Unleased, ToldAfterRelease, RunAwaits,
             attempts
<1>0. Attempt(j)
    BY DEF AttemptInv
<1>1. CASE UNCHANGED vars
    BY <1>0, <1>1 DEF vars
<1>2. ASSUME NEW r \in Runs, Coordinator(r)
      PROVE  Attempt(j)'
    BY <1>0, <1>2, CoordinatorFrame
<1>3. ASSUME NEW i \in Invocations, Port(i)
      PROVE  Attempt(j)'
    <2>0. runs' = runs
        BY <1>3, PortFrame
    <2>. USE DEF Start
    <2>1. CASE Leased(i)
        BY <1>0, <2>0, <2>1 DEF Leased
    <2>2. CASE LeasingFails(i)
        BY <1>0, <2>0, <2>2 DEF LeasingFails
    <2>3. CASE StartAccepted(i)
        BY <1>0, <2>0, <2>3 DEF StartAccepted
    <2>4. CASE StartRejected(i)
        BY <1>0, <2>0, <2>4 DEF StartRejected, Disposing
    <2>5. CASE StartUndone(i)
        BY <1>0, <2>0, <2>5 DEF StartUndone
    <2>6. CASE ResultArrives(i)
        BY <1>0, <2>0, <2>6 DEF ResultArrives, Disposing
    <2>7. CASE ResultReturned(i)
        BY <1>0, <2>0, <2>7 DEF ResultReturned
    <2>8. ASSUME NEW released \in BOOLEAN, LeaseSettles(i, released)
          PROVE  Attempt(j)'
        BY <1>0, <2>0, <2>8 DEF LeaseSettles
    <2>. QED
        BY <1>3, <2>1, <2>2, <2>3, <2>4, <2>5, <2>6, <2>7, <2>8 DEF Port
<1>4. CASE Shutdown
    <2>1. leases' = leases \/ leases' = Disposing(owners)
        BY <1>4 DEF Shutdown, RuntimeStops, ManagerStops, CleanupsOver,
            DirectoriesGone, StartsSettled, OwnersGone, RemovedForShutdown
    <2>2. /\ agents'[j] = "none" <=> agents[j] = "none"
          /\ agents[j] = "done" => agents'[j] = "done"
        BY <1>4 DEF Shutdown, RuntimeStops, ManagerStops, CleanupsOver,
            DirectoriesGone, StartsSettled, OwnersGone, RemovedForShutdown
    <2>. QED
        BY <1>0, <1>4, <2>1, <2>2, ShutdownFrame DEF Disposing
<1>5. CASE Environment
    <2>0. leases' = leases /\ owners' = owners
        BY <1>5, EnvironmentFrame
    <2>1. ASSUME NEW r \in Runs, NEW i \in Invocations, StartAttempt(i, r)
          PROVE  Attempt(j)'
        BY <1>0, <2>0, <2>1 DEF StartAttempt, Refused, Start
    <2>2. ASSUME NEW i \in Invocations, GetResult(i)
          PROVE  Attempt(j)'
        <3>1. told' = [told EXCEPT ![i] = Lookup(i)]
            BY <2>2 DEF GetResult
        <3>2. CASE i = j /\ Lookup(j) = "error"
            BY <1>0, <2>0, <2>2, <3>1, <3>2 DEF GetResult, Lookup
        <3>3. CASE i = j /\ Lookup(j) = "result"
            BY <1>0, <2>0, <2>2, <3>1, <3>3 DEF GetResult, Lookup, Lease
        <3>4. CASE i # j
            BY <1>0, <2>0, <2>2, <3>1, <3>4 DEF GetResult
        <3>. QED
            BY <2>2, <3>2, <3>3, <3>4 DEF GetResult, Lookup
    <2>3. ASSUME NEW r \in Runs, RunEnds(r)
          PROVE  Attempt(j)'
        BY <1>0, <2>0, <2>3 DEF RunEnds
    <2>4. ASSUME NEW r \in Runs, Admit(r)
          PROVE  Attempt(j)'
        BY <1>0, <2>0, <2>4 DEF Admit
    <2>5. ASSUME NEW i \in Invocations, CancelAnswers(i)
          PROVE  Attempt(j)'
        BY <1>0, <2>0, <2>5 DEF CancelAnswers
    <2>6. ASSUME NEW i \in Invocations, AgentEnds(i)
          PROVE  Attempt(j)'
        BY <1>0, <2>0, <2>6 DEF AgentEnds
    <2>7. CASE UNCHANGED <<starts, runs, agents, told>>
        BY <1>0, <2>0, <2>7
    <2>. QED
        BY <1>5, <2>1, <2>2, <2>3, <2>4, <2>5, <2>6, <2>7
        DEF Environment, BeginCreate, BeginShutdown
<1>. QED
    BY <1>1, <1>2, <1>3, <1>4, <1>5 DEF Next, Continue

LEMMA AttemptsCorrect == Spec => [](TypeOK /\ AttemptInv)
<1>1. Init => TypeOK /\ AttemptInv
    BY TypeInit
    DEF Init, AttemptInv, Begun, Unleased, ToldAfterRelease, RunAwaits
<1>2. TypeOK /\ AttemptInv /\ [Next]_vars => (TypeOK /\ AttemptInv)'
    BY TypeStep, AttemptStep DEF AttemptInv, Attempt
<1>. QED
    BY <1>1, <1>2, PTL DEF Spec

\* However starts, results, lookups, cancels and the shutdown interleave, for
\* any numbers of runs and attempts: whoever gets the result by the handle or
\* by getResult gets it behind the release of the leases, and a run that has
\* ended has none left that is in use or being released, unless the port's own
\* cancel was the first to tell of the end.
THEOREM LeasesEnd == Spec => []NoLeaseOutlivesItsRun
<1>1. TypeOK /\ AttemptInv => NoLeaseOutlivesItsRun
    BY DEF TypeOK, Answer, AttemptInv, Begun, ToldAfterRelease, RunAwaits,
           NoLeaseOutlivesItsRun
<1>. QED
    BY <1>1, AttemptsCorrect, PTL

-----------------------------------------------------------------------------
(* Directories.                                                            *)

\* How far the shutdown is tells what has been stopped.
Stages ==
    /\ quiesce.pc \in {"open", "runtime"} => ~quiesce.runtimeStopped
    /\ quiesce.pc \in {"open", "runtime", "manager"} => ~quiesce.managerStopped
    /\ quiesce.pc \in {"waiting", "removing"}
          => quiesce.runtimeStopped /\ quiesce.managerStopped
    /\ quiesce.pc \in {"settling", "disposing"} => quiesce.runtimeStopped
    /\ ~outputs => quiesce.runtimeStopped

\* Until the runtime has stopped, leases are disposed of with their agents.
Leasing(i) ==
    /\ starts[i].pc = "starting" /\ ~quiesce.runtimeStopped
          => leases[i] = "active"
    /\ agents[i] = "running"
          => /\ ~quiesce.runtimeStopped
             /\ starts[i].pc = "accepted" /\ leases[i] = "active"

\* Until both have stopped, the directory of a run that may go on is there.
Kept(r) ==
    calls[r] \in {"admitting", "returned"} /\ runs[r] # "terminal"
        => r \in intact \/ (quiesce.runtimeStopped /\ quiesce.managerStopped)

DirectoryInv ==
    /\ Stages
    /\ \A i \in Invocations : Leasing(i)
    /\ \A r \in Runs : Kept(r)

\* What a step does to the shutdown, as far as it matters here.
LEMMA StagesStep ==
    ASSUME TypeOK, Stages, [Next]_vars
    PROVE  /\ Stages'
           /\ quiesce.runtimeStopped => quiesce'.runtimeStopped
           /\ quiesce.managerStopped => quiesce'.managerStopped
<1>. DEFINE Goal == /\ Stages'
                    /\ quiesce.runtimeStopped => quiesce'.runtimeStopped
                    /\ quiesce.managerStopped => quiesce'.managerStopped
<1>. USE DEF Stages
<1>0. quiesce \in Quiesce
    BY DEF TypeOK
<1>1. CASE UNCHANGED <<quiesce, outputs>>
    BY <1>1
<1>2. CASE BeginShutdown
    BY <1>0, <1>2 DEF BeginShutdown, Quiesce
<1>3. CASE Shutdown
    <2>1. ASSUME NEW stopped \in BOOLEAN, RuntimeStops(stopped)
          PROVE  Goal
        BY <1>0, <2>1 DEF RuntimeStops, Quiesce
    <2>2. ASSUME NEW stopped \in BOOLEAN, ManagerStops(stopped)
          PROVE  Goal
        BY <1>0, <2>2 DEF ManagerStops, ClosePort, Quiesce
    <2>3. CASE CleanupsOver
        BY <1>0, <2>3 DEF CleanupsOver, Quiesce
    <2>4. CASE DirectoriesGone
        BY <1>0, <2>4 DEF DirectoriesGone, ClosePort, Quiesce
    <2>5. CASE StartsSettled
        BY <1>0, <2>5 DEF StartsSettled, Quiesce
    <2>6. ASSUME NEW cleaned \in BOOLEAN, OwnersGone(cleaned)
          PROVE  Goal
        BY <1>0, <2>6 DEF OwnersGone, Quiesce
    <2>7. ASSUME NEW r \in Runs, NEW removed \in BOOLEAN,
                 RemovedForShutdown(r, removed)
          PROVE  Goal
        BY <1>0, <2>7 DEF RemovedForShutdown, Quiesce
    <2>. QED
        BY <1>3, <2>1, <2>2, <2>3, <2>4, <2>5, <2>6, <2>7 DEF Shutdown
<1>4. CASE Environment
    BY <1>1, <1>2, <1>4, EnvironmentFrame
<1>5. ASSUME NEW r \in Runs, Coordinator(r)
      PROVE  Goal
    BY <1>1, <1>5, CoordinatorFrame
<1>6. ASSUME NEW i \in Invocations, Port(i)
      PROVE  Goal
    BY <1>1, <1>6, PortFrame
<1>. QED
    BY <1>1, <1>3, <1>4, <1>5, <1>6 DEF Next, Continue, vars

LEMMA LeasingStep ==
    ASSUME TypeOK, AttemptInv, DirectoryInv, [Next]_vars, NEW j \in Invocations
    PROVE  Leasing(j)'
<1>. USE DEF TypeOK, Leasing, attempts
<1>0. Leasing(j) /\ Stages
    BY DEF DirectoryInv
<1>1. CASE UNCHANGED vars
    BY <1>0, <1>1 DEF vars
<1>2. ASSUME NEW r \in Runs, Coordinator(r)
      PROVE  Leasing(j)'
    BY <1>0, <1>2, CoordinatorFrame
<1>3. ASSUME NEW i \in Invocations, Port(i)
      PROVE  Leasing(j)'
    <2>0. quiesce' = quiesce
        BY <1>3, PortFrame
    <2>. USE DEF Start
    <2>1. CASE Leased(i)
        BY <1>0, <2>0, <2>1 DEF Leased
    <2>2. CASE LeasingFails(i)
        BY <1>0, <2>0, <2>2 DEF LeasingFails
    <2>3. CASE StartAccepted(i)
        BY <1>0, <2>0, <2>3 DEF StartAccepted
    <2>4. CASE StartRejected(i)
        BY <1>0, <2>0, <2>4 DEF StartRejected, Disposing
    <2>5. CASE StartUndone(i)
        BY <1>0, <2>0, <2>5 DEF StartUndone
    <2>6. CASE ResultArrives(i)
        BY <1>0, <2>0, <2>6 DEF ResultArrives, Disposing
    <2>7. CASE ResultReturned(i)
        BY <1>0, <2>0, <2>7 DEF ResultReturned
    <2>8. ASSUME NEW released \in BOOLEAN, LeaseSettles(i, released)
          PROVE  Leasing(j)'
        BY <1>0, <2>0, <2>8 DEF LeaseSettles
    <2>. QED
        BY <1>3, <2>1, <2>2, <2>3, <2>4, <2>5, <2>6, <2>7, <2>8 DEF Port
<1>4. CASE Shutdown
    <2>1. ASSUME NEW stopped \in BOOLEAN, RuntimeStops(stopped)
          PROVE  Leasing(j)'
        BY <1>0, <2>1 DEF RuntimeStops, Quiesce, Stages
    <2>2. CASE StartsSettled
        BY <1>0, <2>2, StagesStep DEF StartsSettled, Stages
    <2>3. CASE /\ UNCHANGED <<starts, leases, agents>>
               /\ quiesce'.runtimeStopped = quiesce.runtimeStopped
        BY <1>0, <2>3
    <2>4. ASSUME NEW stopped \in BOOLEAN, ManagerStops(stopped)
          PROVE  Leasing(j)'
        BY <2>3, <2>4 DEF ManagerStops, ClosePort, Quiesce
    <2>5. CASE \/ CleanupsOver \/ DirectoriesGone
               \/ \E cleaned \in BOOLEAN : OwnersGone(cleaned)
        BY <2>3, <2>5
        DEF CleanupsOver, DirectoriesGone, OwnersGone, ClosePort, Quiesce
    <2>6. ASSUME NEW r \in Runs, NEW removed \in BOOLEAN,
                 RemovedForShutdown(r, removed)
          PROVE  Leasing(j)'
        BY <2>3, <2>6 DEF RemovedForShutdown, Quiesce
    <2>. QED
        BY <1>4, <2>1, <2>2, <2>4, <2>5, <2>6 DEF Shutdown
<1>5. CASE Environment
    <2>0. /\ leases' = leases
          /\ quiesce'.runtimeStopped = quiesce.runtimeStopped
        BY <1>5, EnvironmentFrame DEF BeginShutdown, Quiesce
    <2>1. ASSUME NEW r \in Runs, NEW i \in Invocations, StartAttempt(i, r)
          PROVE  Leasing(j)'
        BY <1>0, <2>0, <2>1 DEF StartAttempt, Refused, Start
    <2>2. ASSUME NEW i \in Invocations, AgentEnds(i)
          PROVE  Leasing(j)'
        BY <1>0, <2>0, <2>2 DEF AgentEnds
    <2>3. CASE UNCHANGED <<starts, agents>>
        BY <1>0, <2>0, <2>3
    <2>. QED
        BY <1>5, <2>1, <2>2, <2>3
        DEF Environment, BeginCreate, Admit, RunEnds, GetResult,
            CancelAnswers, BeginShutdown
<1>. QED
    BY <1>1, <1>2, <1>3, <1>4, <1>5 DEF Next, Continue

LEMMA KeptStep ==
    ASSUME TypeOK, DirectoryInv, [Next]_vars, NEW s \in Runs
    PROVE  Kept(s)'
<1>. USE DEF TypeOK, Kept, directories
<1>0. Kept(s) /\ Stages
    BY DEF DirectoryInv
<1>1. CASE UNCHANGED vars
    BY <1>0, <1>1 DEF vars
<1>2. ASSUME NEW r \in Runs, Coordinator(r)
      PROVE  Kept(s)'
    <2>0. runs' = runs /\ quiesce' = quiesce
        BY <1>2, CoordinatorFrame
    <2>1. CASE Allocated(r)
        BY <1>0, <2>0, <2>1 DEF Allocated
    <2>2. CASE AllocationFails(r)
        BY <1>0, <2>0, <2>2 DEF AllocationFails
    <2>3. CASE Admitted(r)
        BY <1>0, <2>0, <2>3 DEF Admitted
    <2>4. CASE AdmissionFails(r)
        BY <1>0, <2>0, <2>4 DEF AdmissionFails
    <2>5. CASE TerminalSeen(r)
        BY <1>0, <2>0, <2>5 DEF TerminalSeen
    <2>6. CASE WaitEnds(r)
        BY <1>0, <2>0, <2>6 DEF WaitEnds
    <2>7. ASSUME NEW removed \in BOOLEAN,
                 AdmissionUndone(r, removed) \/ RemovedAfterTerminal(r, removed)
          PROVE  Kept(s)'
        BY <1>0, <2>0, <2>7 DEF AdmissionUndone, RemovedAfterTerminal
    <2>. QED
        BY <1>2, <2>1, <2>2, <2>3, <2>4, <2>5, <2>6, <2>7 DEF Coordinator
<1>3. ASSUME NEW i \in Invocations, Port(i)
      PROVE  Kept(s)'
    BY <1>0, <1>3, PortFrame
<1>4. CASE Shutdown
    <2>1. CASE CleanupsOver
        BY <1>0, <2>1, ShutdownFrame, StagesStep DEF CleanupsOver, Stages
    <2>2. CASE intact' = intact
        BY <1>0, <1>4, <2>2, ShutdownFrame, StagesStep
    <2>. QED
        BY <1>4, <2>1, <2>2
        DEF Shutdown, RuntimeStops, ManagerStops, DirectoriesGone,
            StartsSettled, OwnersGone, RemovedForShutdown
<1>5. CASE Environment
    <2>0. intact' = intact
        BY <1>5, EnvironmentFrame
    <2>1. ASSUME NEW r \in Runs, BeginCreate(r) \/ Admit(r) \/ RunEnds(r)
          PROVE  Kept(s)'
        BY <1>0, <2>0, <2>1, StagesStep DEF BeginCreate, Admit, RunEnds
    <2>2. CASE UNCHANGED <<calls, runs>>
        BY <1>0, <2>0, <2>2, StagesStep
    <2>. QED
        BY <1>5, <2>1, <2>2
        DEF Environment, StartAttempt, GetResult, CancelAnswers, AgentEnds,
            BeginShutdown
<1>. QED
    BY <1>1, <1>2, <1>3, <1>4, <1>5 DEF Next, Continue

LEMMA DirectoriesCorrect == Spec => [](TypeOK /\ AttemptInv /\ DirectoryInv)
<1>1. Init => DirectoryInv
    BY DEF Init, DirectoryInv, Stages, Leasing, Kept
<1>2. TypeOK /\ AttemptInv /\ DirectoryInv /\ [Next]_vars => DirectoryInv'
    BY StagesStep, LeasingStep, KeptStep DEF DirectoryInv
<1>. QED
    BY <1>1, <1>2, AttemptsCorrect, PTL DEF Spec

\* However admissions, cleanups behind terminal runs and the shutdown
\* interleave, and whatever of them fails: an agent that runs has its output
\* directory, and its working directory unless its run counts as not admitted.
THEOREM DirectoriesKept == Spec => []ExecutesInItsDirectory
<1>1. TypeOK /\ AttemptInv /\ DirectoryInv => ExecutesInItsDirectory
    <2>1. SUFFICES ASSUME TypeOK, AttemptInv, DirectoryInv,
                          NEW i \in Invocations, agents[i] = "running"
                   PROVE  /\ outputs
                          /\ calls[starts[i].run] \in {"admitting", "returned"}
                                => starts[i].run \in intact
        BY DEF ExecutesInItsDirectory
    <2>2. /\ ~quiesce.runtimeStopped
          /\ starts[i].pc = "accepted" /\ leases[i] = "active"
        BY <2>1 DEF DirectoryInv, Leasing
    <2>3. starts[i].run \in Runs /\ runs[starts[i].run] = "live"
        BY <2>1, <2>2
        DEF TypeOK, Answer, AttemptInv, Begun, ToldAfterRelease, RunAwaits
    <2>. QED
        BY <2>1, <2>2, <2>3 DEF DirectoryInv, Stages, Kept
<1>. QED
    BY <1>1, DirectoriesCorrect, PTL
==============================================================================
