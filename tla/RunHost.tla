------------------------------- MODULE RunHost -------------------------------
(***************************************************************************)
(* The host of runs in one process: RunWorkingDirectoryCoordinator with    *)
(* its TemporaryRunDirectoryHost, the attempt port that starts agents with *)
(* leased credentials, and RevoRunService.quiesce, which shuts all of them *)
(* down while calls are on their way.                                      *)
(*                                                                         *)
(* An action is what runs between two awaits.  Every run has an agent with *)
(* a temporary working directory, every attempt one lease, and ids are     *)
(* never used twice (StartRunHandler draws them).                          *)
(*                                                                         *)
(* External: the run manager (@revisium/revo-run) and the agent runtime    *)
(* (@revisium/revo-agent-runtime).  createRun of the manager may fail      *)
(* after it has admitted the run.  A stop that succeeds means that nothing *)
(* is executed any more; one that fails means nothing.                     *)
(***************************************************************************)
EXTENDS Naturals, FiniteSets

CONSTANTS
    Runs,          \* run ids
    Invocations,   \* ids of attempts
    NoRun          \* the run of an attempt that has not begun

ASSUME NoRunAssumption == NoRun \notin Runs

VARIABLES
    calls,      \* createRun, per run
    waiters,    \* cleanupAfterTerminal, per run
    runs,       \* external: the run manager's runs
    intact,     \* working directories nobody has begun to remove
    host,       \* TemporaryRunDirectoryHost.allocatedRunIds
    tracked,    \* RunWorkingDirectoryCoordinator.allocatedRunIds
    starts,     \* start of the attempt port, per attempt
    pending,    \* its map of pending starts
    owners,     \* its map of owners of credentials
    leases,     \* cleanupState of the owner
    agents,     \* external: the runtime's agents
    told,       \* what the run manager was told first of an attempt's end
    quiesce,    \* RevoRunService.quiesceOnce
    outputs     \* whether the root of the agents' output directories exists

directories == <<calls, waiters, intact, host, tracked>>
attempts    == <<starts, pending, owners, leases>>
vars == <<directories, attempts, runs, agents, told, quiesce, outputs>>

Call   == {"none", "allocating", "admitting", "removing",
           "returned", "failed", "leaked"}
Waiter == {"none", "waiting", "removing", "over"}
Lease  == {"none", "active", "disposing", "disposed", "failed"}
Answer == {"nothing", "refused", "result", "error", "already_completed"}
Start  == [pc : {"none", "leasing", "starting", "undoing", "accepted", "over"},
           run : Runs \cup {NoRun}]

\* closing: of the attempt port; left: what the phase is waiting for.
Quiesce == [pc : {"open", "runtime", "manager", "waiting", "removing",
                  "settling", "disposing", "done"},
            runtimeStopped : BOOLEAN, managerStopped : BOOLEAN,
            failed : BOOLEAN, closing : BOOLEAN,
            left : SUBSET (Runs \cup Invocations)]

TypeOK ==
    /\ calls \in [Runs -> Call]
    /\ waiters \in [Runs -> Waiter]
    /\ runs \in [Runs -> {"none", "live", "terminal"}]
    /\ intact \subseteq Runs /\ host \subseteq Runs /\ tracked \subseteq Runs
    /\ starts \in [Invocations -> Start]
    /\ pending \subseteq Invocations
    /\ owners = {i \in Invocations :
                    leases[i] \in {"active", "disposing", "failed"}}
    /\ leases \in [Invocations -> Lease]
    /\ agents \in [Invocations -> {"none", "running", "done"}]
    /\ told \in [Invocations -> Answer]
    /\ quiesce \in Quiesce
    /\ outputs \in BOOLEAN

Init ==
    /\ calls = [r \in Runs |-> "none"]
    /\ waiters = [r \in Runs |-> "none"]
    /\ runs = [r \in Runs |-> "none"]
    /\ intact = {} /\ host = {} /\ tracked = {}
    /\ starts = [i \in Invocations |-> [pc |-> "none", run |-> NoRun]]
    /\ pending = {} /\ owners = {}
    /\ told = [i \in Invocations |-> "nothing"]
    /\ leases = [i \in Invocations |-> "none"]
    /\ agents = [i \in Invocations |-> "none"]
    /\ quiesce = [pc |-> "open", runtimeStopped |-> FALSE,
                  managerStopped |-> FALSE, failed |-> FALSE,
                  closing |-> FALSE, left |-> {}]
    /\ outputs = TRUE

Accepting == quiesce.pc = "open"

-----------------------------------------------------------------------------
(* Admission: createRun of the coordinator.                                *)

\* assertAcceptingRuns, and allocate begins.
BeginCreate(r) ==
    /\ calls[r] = "none" /\ Accepting
    /\ calls' = [calls EXCEPT ![r] = "allocating"]
    /\ UNCHANGED <<waiters, intact, host, tracked, attempts, runs, agents,
                   told, quiesce, outputs>>

\* Mistake: a directory counts as allocated once the run may be admitted.
AllocatedLeaving(r) ==
    /\ calls[r] = "allocating"
    /\ host' = host \cup {r} /\ tracked' = tracked \cup {r}
    /\ intact' = intact \cup {r}
    /\ calls' = [calls EXCEPT ![r] = IF Accepting THEN "admitting" ELSE "failed"]
    /\ UNCHANGED <<waiters, attempts, runs, agents, told, quiesce, outputs>>

\* allocate is done; a shutdown that has begun meanwhile takes it back.
Allocated(r) ==
    /\ calls[r] = "allocating"
    /\ host' = host \cup {r} /\ tracked' = tracked \cup {r}
    /\ IF Accepting
       THEN /\ calls' = [calls EXCEPT ![r] = "admitting"]
            /\ intact' = intact \cup {r}
       ELSE /\ calls' = [calls EXCEPT ![r] = "removing"]
            /\ UNCHANGED intact
    /\ UNCHANGED <<waiters, attempts, runs, agents, told, quiesce, outputs>>

\* mkdir or chmod fails; nothing stays.
AllocationFails(r) ==
    /\ calls[r] = "allocating"
    /\ calls' = [calls EXCEPT ![r] = "failed"]
    /\ UNCHANGED <<waiters, intact, host, tracked, attempts, runs, agents,
                   told, quiesce, outputs>>

\* The manager's createRun has answered: scheduleCleanup.
Admitted(r) ==
    /\ calls[r] = "admitting" /\ runs[r] # "none"
    /\ calls' = [calls EXCEPT ![r] = "returned"]
    /\ waiters' = [waiters EXCEPT ![r] = "waiting"]
    /\ UNCHANGED <<intact, host, tracked, attempts, runs, agents, told,
                   quiesce, outputs>>

\* It has thrown, admitted or not: cleanupFailedAdmission.
AdmissionFails(r) ==
    /\ calls[r] = "admitting"
    /\ IF r \in host
       THEN /\ calls' = [calls EXCEPT ![r] = "removing"]
            /\ intact' = intact \ {r} /\ UNCHANGED tracked
       ELSE /\ calls' = [calls EXCEPT ![r] = "failed"]
            /\ tracked' = tracked \ {r} /\ UNCHANGED intact
    /\ UNCHANGED <<waiters, host, attempts, runs, agents, told, quiesce,
                   outputs>>

\* cleanupRun goes on behind rm; an error is reported, not thrown.
AdmissionUndone(r, removed) ==
    /\ calls[r] = "removing"
    /\ calls' = [calls EXCEPT ![r] = IF removed THEN "failed" ELSE "leaked"]
    /\ host' = IF removed THEN host \ {r} ELSE host
    /\ tracked' = IF removed THEN tracked \ {r} ELSE tracked
    /\ UNCHANGED <<waiters, intact, attempts, runs, agents, told, quiesce,
                   outputs>>

-----------------------------------------------------------------------------
(* cleanupAfterTerminal.                                                   *)

\* waitForTerminal resolves.
TerminalSeen(r) ==
    /\ waiters[r] = "waiting" /\ runs[r] = "terminal"
    /\ IF r \in host
       THEN /\ waiters' = [waiters EXCEPT ![r] = "removing"]
            /\ intact' = intact \ {r} /\ UNCHANGED tracked
       ELSE /\ waiters' = [waiters EXCEPT ![r] = "over"]
            /\ tracked' = tracked \ {r} /\ UNCHANGED intact
    /\ UNCHANGED <<calls, host, attempts, runs, agents, told, quiesce, outputs>>

\* It rejects: aborted by the shutdown, or failed.
WaitEnds(r) ==
    /\ waiters[r] = "waiting"
    /\ waiters' = [waiters EXCEPT ![r] = "over"]
    /\ UNCHANGED <<calls, intact, host, tracked, attempts, runs, agents, told,
                   quiesce, outputs>>

RemovedAfterTerminal(r, removed) ==
    /\ waiters[r] = "removing"
    /\ waiters' = [waiters EXCEPT ![r] = "over"]
    /\ host' = IF removed THEN host \ {r} ELSE host
    /\ tracked' = IF removed THEN tracked \ {r} ELSE tracked
    /\ UNCHANGED <<calls, intact, attempts, runs, agents, told, quiesce,
                   outputs>>

-----------------------------------------------------------------------------
(* The attempt port.                                                       *)

\* start is over without a handle, and says so.
Refused(i, r) ==
    /\ starts' = [starts EXCEPT ![i] = [pc |-> "over", run |-> r]]
    /\ told' = [told EXCEPT ![i] = "refused"]
    /\ UNCHANGED <<pending, owners, leases>>

\* start, up to its first await: workspaces.acquire looks only into the map.
StartAttempt(i, r) ==
    /\ runs[r] = "live" /\ ~quiesce.managerStopped /\ starts[i].pc = "none"
    /\ IF quiesce.closing \/ r \notin host
       THEN Refused(i, r)
       ELSE /\ starts' = [starts EXCEPT ![i] = [pc |-> "leasing", run |-> r]]
            /\ pending' = pending \cup {i}
            /\ UNCHANGED <<owners, leases, told>>
    /\ UNCHANGED <<directories, runs, agents, quiesce, outputs>>

\* acquireCredentials resolves, and the runtime is asked to start.
Leased(i) ==
    /\ starts[i].pc = "leasing"
    /\ starts' = [starts EXCEPT ![i].pc = "starting"]
    /\ owners' = owners \cup {i}
    /\ leases' = [leases EXCEPT ![i] = "active"]
    /\ UNCHANGED <<directories, pending, runs, agents, told, quiesce, outputs>>

\* It rejects: one credential is not to be had, or a cancel has aborted it.
LeasingFails(i) ==
    /\ starts[i].pc = "leasing"
    /\ starts' = [starts EXCEPT ![i].pc = "over"]
    /\ pending' = pending \ {i}
    /\ told' = [told EXCEPT ![i] = "refused"]
    /\ UNCHANGED <<directories, owners, leases, runs, agents, quiesce, outputs>>

\* The runtime has started the agent; start returns the handle.
StartAccepted(i) ==
    /\ starts[i].pc = "starting" /\ ~quiesce.runtimeStopped
    /\ starts' = [starts EXCEPT ![i].pc = "accepted"]
    /\ pending' = pending \ {i}
    /\ agents' = [agents EXCEPT ![i] = "running"]
    /\ UNCHANGED <<directories, owners, leases, runs, told, quiesce, outputs>>

\* dispose, which does nothing the second time.
Disposing(set) == [i \in Invocations |->
    IF i \in set /\ leases[i] = "active" THEN "disposing" ELSE leases[i]]

\* The runtime refuses or was cancelled: the owner is disposed of first.
StartRejected(i) ==
    /\ starts[i].pc = "starting"
    /\ starts' = [starts EXCEPT ![i].pc = "undoing"]
    /\ leases' = Disposing({i})
    /\ UNCHANGED <<directories, pending, owners, runs, agents, told, quiesce,
                   outputs>>

StartUndone(i) ==
    /\ starts[i].pc = "undoing" /\ leases[i] \in {"disposed", "failed"}
    /\ starts' = [starts EXCEPT ![i].pc = "over"]
    /\ pending' = pending \ {i}
    /\ told' = [told EXCEPT ![i] = "refused"]
    /\ UNCHANGED <<directories, owners, leases, runs, agents, quiesce, outputs>>

\* Mistake: leases are released only for an end not yet told of.
ResultArrivesUntold(i) ==
    /\ starts[i].pc = "accepted" /\ agents[i] = "done"
    /\ leases[i] = "active" /\ told[i] = "nothing"
    /\ leases' = Disposing({i})
    /\ UNCHANGED <<directories, starts, pending, owners, runs, agents, told,
                   quiesce, outputs>>

\* result() of the agent resolves, or the handle's cancel finds it completed.
ResultArrives(i) ==
    /\ starts[i].pc = "accepted" /\ agents[i] = "done"
    /\ leases[i] = "active"
    /\ leases' = Disposing({i})
    /\ UNCHANGED <<directories, starts, pending, owners, runs, agents, told,
                   quiesce, outputs>>

\* Mistake: disposeOwner forgets the owner whatever came of the leases.
LeaseForgotten(i, released) ==
    /\ leases[i] = "disposing"
    /\ leases' = [leases EXCEPT ![i] = IF released THEN "disposed" ELSE "failed"]
    /\ owners' = owners \ {i}
    /\ UNCHANGED <<directories, starts, pending, runs, agents, told, quiesce,
                   outputs>>

\* disposeLeases settles; disposeOwner forgets only a disposed owner.
LeaseSettles(i, released) ==
    /\ leases[i] = "disposing"
    /\ leases' = [leases EXCEPT ![i] = IF released THEN "disposed" ELSE "failed"]
    /\ owners' = IF released THEN owners \ {i} ELSE owners
    /\ UNCHANGED <<directories, starts, pending, runs, agents, told, quiesce,
                   outputs>>

\* The handle's result, or the answer of its cancel: the agent's, or the error
\* of the disposal, which it waits for.
ResultReturned(i) ==
    /\ starts[i].pc = "accepted" /\ agents[i] = "done"
    /\ leases[i] \in {"disposed", "failed"} /\ told[i] = "nothing"
    /\ told' = [told EXCEPT ![i] =
                  IF leases[i] = "disposed" THEN "result" ELSE "error"]
    /\ UNCHANGED <<directories, attempts, runs, agents, quiesce, outputs>>

\* Mistake: getResult answers what the runtime answers.
LookupOfRuntime(i) ==
    IF agents[i] = "done" THEN "result" ELSE "nothing"

\* What getResult tells of the end of an attempt that was accepted.
Lookup(i) ==
    IF i \in owners /\ leases[i] = "failed" THEN "error"
    ELSE IF agents[i] = "done" /\ i \notin owners THEN "result"
    ELSE "nothing"

GetResult(i) ==
    /\ starts[i].pc = "accepted" /\ told[i] = "nothing"
    /\ ~quiesce.managerStopped /\ Lookup(i) # "nothing"
    /\ told' = [told EXCEPT ![i] = Lookup(i)]
    /\ UNCHANGED <<directories, attempts, runs, agents, quiesce, outputs>>

\* cancel of the port, when the runtime finds the agent completed: it hands on
\* the result and does not look at the owner.  A pending start is aborted and
\* waited for (LeasingFails, StartRejected), a running agent asked to end
\* (AgentEnds).
CancelAnswers(i) ==
    /\ i \notin pending /\ agents[i] = "done" /\ told[i] = "nothing"
    /\ ~quiesce.managerStopped
    /\ told' = [told EXCEPT ![i] = "already_completed"]
    /\ UNCHANGED <<directories, attempts, runs, agents, quiesce, outputs>>

-----------------------------------------------------------------------------
(* RevoRunService.quiesceOnce.                                             *)

\* beginShutdown; the runtime is asked to stop.
BeginShutdown ==
    /\ quiesce.pc = "open"
    /\ quiesce' = [quiesce EXCEPT !.pc = "runtime"]
    /\ UNCHANGED <<directories, attempts, runs, agents, told, outputs>>

RuntimeStops(stopped) ==
    /\ quiesce.pc = "runtime"
    /\ quiesce' = [quiesce EXCEPT !.pc = "manager", !.runtimeStopped = stopped,
                                  !.failed = ~stopped]
    /\ agents' = [i \in Invocations |->
                    IF stopped /\ agents[i] = "running" THEN "done"
                    ELSE agents[i]]
    /\ UNCHANGED <<directories, attempts, runs, told, outputs>>

\* shutdown of the attempt port: no start from now on.
ClosePort(q) ==
    [q EXCEPT !.pc = "settling", !.closing = TRUE, !.left = pending]

\* Mistake: directories go as soon as the run manager has stopped.
ManagerStopsTrusted(stopped) ==
    /\ quiesce.pc = "manager"
    /\ LET q == [quiesce EXCEPT !.managerStopped = stopped,
                                !.failed = @ \/ ~stopped]
       IN  quiesce' = IF stopped
                      THEN [q EXCEPT !.pc = "waiting", !.left =
                              {r \in Runs : waiters[r] \in {"waiting",
                                                            "removing"}}]
                      ELSE IF q.runtimeStopped THEN ClosePort(q)
                      ELSE [q EXCEPT !.pc = "done"]
    /\ UNCHANGED <<directories, attempts, runs, agents, told, outputs>>

\* Only if both have stopped, waitForCleanup takes the cleanups it knows.
ManagerStops(stopped) ==
    /\ quiesce.pc = "manager"
    /\ LET q == [quiesce EXCEPT !.managerStopped = stopped,
                                !.failed = @ \/ ~stopped]
       IN  quiesce' = IF stopped /\ q.runtimeStopped
                      THEN [q EXCEPT !.pc = "waiting", !.left =
                              {r \in Runs : waiters[r] \in {"waiting",
                                                            "removing"}}]
                      ELSE IF q.runtimeStopped THEN ClosePort(q)
                      ELSE [q EXCEPT !.pc = "done"]
    /\ UNCHANGED <<directories, attempts, runs, agents, told, outputs>>

\* cleanupAllocatedWorkingDirectories begins, for the runs it knows.
CleanupsOver ==
    /\ quiesce.pc = "waiting"
    /\ \A r \in quiesce.left : waiters[r] = "over"
    /\ quiesce' = [quiesce EXCEPT !.pc = "removing", !.left = tracked \cap host]
    /\ intact' = intact \ tracked
    /\ tracked' = tracked \cap host
    /\ UNCHANGED <<calls, waiters, host, attempts, runs, agents, told, outputs>>

RemovedForShutdown(r, removed) ==
    /\ quiesce.pc = "removing" /\ r \in quiesce.left
    /\ quiesce' = [quiesce EXCEPT !.left = @ \ {r}, !.failed = @ \/ ~removed]
    /\ host' = IF removed THEN host \ {r} ELSE host
    /\ tracked' = IF removed THEN tracked \ {r} ELSE tracked
    /\ UNCHANGED <<calls, waiters, intact, attempts, runs, agents, told, outputs>>

DirectoriesGone ==
    /\ quiesce.pc = "removing" /\ quiesce.left = {}
    /\ quiesce' = ClosePort(quiesce)
    /\ UNCHANGED <<directories, attempts, runs, agents, told, outputs>>

\* The starts that were pending have settled; their owners are known now.
StartsSettled ==
    /\ quiesce.pc = "settling" /\ quiesce.left \cap pending = {}
    /\ quiesce' = [quiesce EXCEPT !.pc = "disposing", !.left = owners]
    /\ leases' = Disposing(owners)
    /\ UNCHANGED <<directories, starts, pending, owners, runs, agents, told,
                   outputs>>

\* The owners are disposed of or not; AgentRuntimeLifecycle.cleanup, whose rm
\* may fail before or behind what it removes.
OwnersGone(cleaned) ==
    /\ quiesce.pc = "disposing"
    /\ \A i \in quiesce.left : leases[i] # "disposing"
    /\ quiesce' = [quiesce EXCEPT !.pc = "done", !.left = {},
          !.failed = \/ @ \/ ~cleaned
                     \/ \E i \in quiesce.left : leases[i] = "failed"]
    /\ outputs' \in IF cleaned THEN {FALSE} ELSE BOOLEAN
    /\ UNCHANGED <<directories, attempts, runs, agents, told>>

-----------------------------------------------------------------------------
(* External: the run manager and the runtime.                              *)

\* A run is admitted while createRun of the manager has not answered.
Admit(r) ==
    /\ calls[r] = "admitting" /\ runs[r] = "none" /\ ~quiesce.managerStopped
    /\ runs' = [runs EXCEPT ![r] = "live"]
    /\ UNCHANGED <<directories, attempts, agents, told, quiesce, outputs>>

\* A run ends once the manager has been told of the end of its attempts.
RunEnds(r) ==
    /\ runs[r] = "live" /\ ~quiesce.managerStopped
    /\ \A i \in Invocations : starts[i].run = r => told[i] # "nothing"
    /\ runs' = [runs EXCEPT ![r] = "terminal"]
    /\ UNCHANGED <<directories, attempts, agents, told, quiesce, outputs>>

\* An agent completes, fails or is cancelled.
AgentEnds(i) ==
    /\ agents[i] = "running"
    /\ agents' = [agents EXCEPT ![i] = "done"]
    /\ UNCHANGED <<directories, attempts, runs, told, quiesce, outputs>>

-----------------------------------------------------------------------------

Coordinator(r) ==
    \/ Allocated(r) \/ AllocationFails(r)
    \/ Admitted(r) \/ AdmissionFails(r)
    \/ TerminalSeen(r) \/ WaitEnds(r)
    \/ \E removed \in BOOLEAN :
          AdmissionUndone(r, removed) \/ RemovedAfterTerminal(r, removed)

Port(i) ==
    \/ Leased(i) \/ LeasingFails(i)
    \/ StartAccepted(i) \/ StartRejected(i) \/ StartUndone(i)
    \/ ResultArrives(i) \/ ResultReturned(i)
    \/ \E released \in BOOLEAN : LeaseSettles(i, released)

Shutdown ==
    \/ \E stopped \in BOOLEAN : RuntimeStops(stopped) \/ ManagerStops(stopped)
    \/ CleanupsOver \/ DirectoriesGone \/ StartsSettled
    \/ \E cleaned \in BOOLEAN : OwnersGone(cleaned)
    \/ \E r \in Runs, removed \in BOOLEAN : RemovedForShutdown(r, removed)

\* What goes on by itself: every promise that is awaited settles.
Continue ==
    \/ \E r \in Runs : Coordinator(r)
    \/ \E i \in Invocations : Port(i)
    \/ Shutdown

Environment ==
    \/ \E r \in Runs : \/ BeginCreate(r) \/ Admit(r) \/ RunEnds(r)
                       \/ \E i \in Invocations : StartAttempt(i, r)
    \/ \E i \in Invocations : GetResult(i) \/ CancelAnswers(i)
                              \/ AgentEnds(i)
    \/ BeginShutdown

Next == Continue \/ Environment

Spec == Init /\ [][Next]_vars /\ WF_vars(Continue)

-----------------------------------------------------------------------------
(* Properties.                                                             *)

\* An agent that runs has its working directory and its output directory,
\* whatever is shut down, cleaned up or failing meanwhile; unless createRun of
\* the manager threw though it had admitted the run.
ExecutesInItsDirectory ==
    \A i \in Invocations : agents[i] = "running" =>
        /\ outputs
        /\ calls[starts[i].run] \in {"admitting", "returned"}
              => starts[i].run \in intact

\* No lease of a run outlives it: the result that the handle or getResult gives
\* is given behind the release of the leases, and when a run has ended none of
\* them is in use or being released, save where the port's own cancel was the
\* first to tell of the end, which does not wait for the release.
NoLeaseOutlivesItsRun ==
    \A i \in Invocations :
        /\ told[i] = "result" => leases[i] = "disposed"
        /\ /\ starts[i].run # NoRun /\ runs[starts[i].run] = "terminal"
           /\ told[i] # "already_completed"
           => leases[i] \notin {"active", "disposing"}

\* Whoever has told the run manager of the end, and whether or not the host
\* shuts down, the leases of an agent that has ended are released, or their
\* release has failed and is remembered.
LeasesAreReleased ==
    \A i \in Invocations :
        leases[i] = "active" /\ agents[i] = "done"
        ~> leases[i] \in {"disposed", "failed"}

\* What the port's tests say of it: no terminal result is published for an
\* attempt whose leases could not be released.
NoResultAfterFailedCleanup ==
    [][\A i \in Invocations :
          told'[i] # told[i] /\ told'[i] \in {"result", "already_completed"}
          => leases[i] # "failed"]_vars

\* A shutdown without failure has left no start and no lease, and directories
\* only of runs whose createRun is still giving up; these go, too, unless their
\* removal fails.
Quiesced == quiesce.pc = "done" /\ ~quiesce.failed

ShutdownReleases ==
    /\ [](Quiesced => /\ pending = {} /\ owners = {} /\ ~outputs
                      /\ \A r \in host : calls[r] \in {"removing", "leaked"})
    /\ Quiesced ~> \A r \in host \cup tracked : calls[r] = "leaked"
=============================================================================
