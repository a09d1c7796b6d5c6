-------------------------- MODULE ProjectOwnership --------------------------
(***************************************************************************)
(* Projects and the runs they own: creation of a project, admission of a   *)
(* run through a reservation, archiving, restoring, and what the process   *)
(* repairs when it starts.                                                 *)
(*                                                                         *)
(* PostgreSQL and the run manager share no transaction.  Reserving and     *)
(* archiving are serializable transactions, and archiving asks the run     *)
(* manager in the middle of its own; so both have two ends here, a         *)
(* snapshot and a commit, and a transaction is doomed once another one     *)
(* commits that closes a cycle of conflicts with it.  A doomed transaction *)
(* is tried three times in all (TransactionPrismaService).  Transactions   *)
(* that only touch rows are one action.                                    *)
(*                                                                         *)
(* External: the run manager (CreateRun's outcomes, AdmissionSettles,      *)
(* RunEnds) and the content engine (the outcomes of the steps of apply).   *)
(* Abstracted: names and other columns, the records of a project, the      *)
(* dataset of a removed project, projects of kind SYSTEM.                  *)
(***************************************************************************)
EXTENDS Naturals

CONSTANTS
    Projects,     \* ids of user projects
    Runs,         \* run ids, each drawn once by nanoid
    Archivers,    \* calls that archive a project
    Callers,      \* calls that create or restore a project
    NoProject,    \* null for a project id
    MaxAttempts,  \* SERIALIZABLE_RETRY_COUNT, 3 in the source
    MaxCrashes    \* bound on process crashes

ASSUME ProjectsAssumption == NoProject \notin Projects
ASSUME AttemptsAssumption == MaxAttempts \in Nat \ {0}
ASSUME CrashesAssumption  == MaxCrashes \in Nat

VARIABLES
    status,        \* per project: its row's status, "none" without a row
    content,       \* per project: how far its content model is
    reservations,  \* project_runs: per run the project, or NoProject
    runs,          \* what the run manager has of a run
    starters,      \* per run: the StartRun call that drew its id
    archivers,     \* the archive calls
    tasks,         \* the create and restore calls
    boot,          \* start-up: its phase and the projects left to handle
    crashes        \* process crashes so far

rows  == <<status, content, reservations>>
calls == <<starters, archivers, tasks>>
vars  == <<rows, runs, calls, boot, crashes>>

ProjectStatus == {"none", "CREATING", "ACTIVE", "ARCHIVED"}

\* none: no table; old: an earlier release's model; draft: migrated, but no
\* revision made of it; published.
ContentState == {"none", "old", "draft", "published"}

\* none: not known to the manager; limbo: admission was interrupted or failed
\* in a way that does not say whether the run exists.
RunState == {"none", "limbo", "live", "terminal"}

\* insert: in the transaction, behind the check; create: the manager is asked;
\* release: the manager has rejected the run for good.
Starter == [pc : {"idle", "read", "insert", "create", "release", "done"},
            project : Projects \cup {NoProject}, attempt : Nat,
            doomed : BOOLEAN]

\* observe: in the transaction, with the runs not looked at yet.
Archiver == [pc : {"idle", "read", "observe"},
             project : Projects \cup {NoProject}, attempt : Nat,
             doomed : BOOLEAN, unread : SUBSET Runs]

Task == [kind : {"none", "create", "restore"},
         project : Projects \cup {NoProject},
         pc : {"idle", "migrate", "publish", "activate", "remove"}]

TypeOK ==
    /\ status \in [Projects -> ProjectStatus]
    /\ content \in [Projects -> ContentState]
    /\ reservations \in [Runs -> Projects \cup {NoProject}]
    /\ runs \in [Runs -> RunState]
    /\ starters \in [Runs -> Starter]
    /\ archivers \in [Archivers -> Archiver]
    /\ tasks \in [Callers -> Task]
    /\ boot \in [phase : {"removing", "migrating", "up"},
                 left : SUBSET Projects]
    /\ crashes \in Nat

IdleStarter  == [pc |-> "idle", project |-> NoProject, attempt |-> 0,
                 doomed |-> FALSE]
IdleArchiver == [pc |-> "idle", project |-> NoProject, attempt |-> 0,
                 doomed |-> FALSE, unread |-> {}]
IdleTask     == [kind |-> "none", project |-> NoProject, pc |-> "idle"]

Init ==
    /\ status = [p \in Projects |-> "none"]
    /\ content = [p \in Projects |-> "none"]
    /\ reservations = [r \in Runs |-> NoProject]
    /\ runs = [r \in Runs |-> "none"]
    /\ starters = [r \in Runs |-> IdleStarter]
    /\ archivers = [a \in Archivers |-> IdleArchiver]
    /\ tasks = [c \in Callers |-> IdleTask]
    /\ boot = [phase |-> "up", left |-> {}]
    /\ crashes = 0

Up == boot.phase = "up"

-----------------------------------------------------------------------------
(* Starting a run: StartRunHandler, and reserveRun as its transaction.     *)

StartRun(r, p) ==
    /\ Up /\ starters[r].pc = "idle"
    /\ starters' = [starters EXCEPT ![r] =
          [pc |-> "read", project |-> p, attempt |-> 1, doomed |-> FALSE]]
    /\ UNCHANGED <<rows, runs, archivers, tasks, boot, crashes>>

\* The snapshot: only an ACTIVE project may own a new run.
ReserveReads(r) ==
    /\ starters[r].pc = "read"
    /\ starters' = [starters EXCEPT ![r].pc =
          IF status[starters[r].project] = "ACTIVE" THEN "insert" ELSE "done"]
    /\ UNCHANGED <<rows, runs, archivers, tasks, boot, crashes>>

\* An archive that has read the reservations of p, and p's status, cannot be
\* ordered with a reservation that has read the status, too.
DoomArchives(p) ==
    archivers' = [a \in Archivers |->
        IF archivers[a].pc = "observe" /\ archivers[a].project = p
        THEN [archivers[a] EXCEPT !.doomed = TRUE] ELSE archivers[a]]

\* Mistake: the reservation is not serializable.
ReserveUnserialized(r) ==
    /\ starters[r].pc = "insert" /\ ~starters[r].doomed
    /\ reservations' = [reservations EXCEPT ![r] = starters[r].project]
    /\ starters' = [starters EXCEPT ![r].pc = "create"]
    /\ UNCHANGED <<status, content, runs, archivers, tasks, boot, crashes>>

ReserveCommits(r) ==
    /\ starters[r].pc = "insert" /\ ~starters[r].doomed
    /\ reservations' = [reservations EXCEPT ![r] = starters[r].project]
    /\ DoomArchives(starters[r].project)
    /\ starters' = [starters EXCEPT ![r].pc = "create"]
    /\ UNCHANGED <<status, content, runs, tasks, boot, crashes>>

\* runWithRetry, after a serialization failure: one attempt less.
Again(call) == [call EXCEPT !.pc = "read", !.attempt = call.attempt + 1,
                            !.doomed = FALSE]

ReserveRetries(r) ==
    /\ starters[r].pc = "insert" /\ starters[r].doomed
    /\ starters' = [starters EXCEPT ![r] =
          IF @.attempt = MaxAttempts THEN [@ EXCEPT !.pc = "done"]
          ELSE Again(@)]
    /\ UNCHANGED <<rows, runs, archivers, tasks, boot, crashes>>

\* runs.createRun succeeds.
CreateRun(r) ==
    /\ starters[r].pc = "create"
    /\ runs' = [runs EXCEPT ![r] = "live"]
    /\ starters' = [starters EXCEPT ![r].pc = "done"]
    /\ UNCHANGED <<rows, archivers, tasks, boot, crashes>>

\* It rejects, with a code that says the run was not admitted.
CreateRunRejected(r) ==
    /\ starters[r].pc = "create"
    /\ starters' = [starters EXCEPT ![r].pc = "release"]
    /\ UNCHANGED <<rows, runs, archivers, tasks, boot, crashes>>

\* Mistake: every failure of createRun releases the reservation.
CreateRunFailsReleasing(r) ==
    /\ starters[r].pc = "create"
    /\ runs' = [runs EXCEPT ![r] = "limbo"]
    /\ starters' = [starters EXCEPT ![r].pc = "release"]
    /\ UNCHANGED <<rows, archivers, tasks, boot, crashes>>

\* It rejects with any other error: the run may or may not exist.
CreateRunFails(r) ==
    /\ starters[r].pc = "create"
    /\ runs' = [runs EXCEPT ![r] = "limbo"]
    /\ starters' = [starters EXCEPT ![r].pc = "done"]
    /\ UNCHANGED <<rows, archivers, tasks, boot, crashes>>

\* releaseRejectedReservation; a failure of it is only reported.
ReleaseReservation(r) ==
    /\ starters[r].pc = "release"
    /\ \/ reservations' = [reservations EXCEPT ![r] = NoProject]
       \/ UNCHANGED reservations
    /\ starters' = [starters EXCEPT ![r].pc = "done"]
    /\ UNCHANGED <<status, content, runs, archivers, tasks, boot, crashes>>

\* The manager: an interrupted admission completes after all; a run ends.
AdmissionSettles(r) ==
    /\ runs[r] = "limbo"
    /\ runs' = [runs EXCEPT ![r] = "live"]
    /\ UNCHANGED <<rows, calls, boot, crashes>>

RunEnds(r) ==
    /\ runs[r] = "live"
    /\ runs' = [runs EXCEPT ![r] = "terminal"]
    /\ UNCHANGED <<rows, calls, boot, crashes>>

-----------------------------------------------------------------------------
(* Archiving: ArchiveUserProjectHandler.                                   *)

BeginArchive(a, p) ==
    /\ Up /\ archivers[a].pc = "idle"
    /\ archivers' = [archivers EXCEPT ![a] =
          [IdleArchiver EXCEPT !.pc = "read", !.project = p, !.attempt = 1]]
    /\ UNCHANGED <<rows, runs, starters, tasks, boot, crashes>>

OwnedBy(p) == {r \in Runs : reservations[r] = p}

\* The snapshot of the project and of its reservations.
ArchiveReads(a) ==
    /\ archivers[a].pc = "read"
    /\ LET p == archivers[a].project
       IN  archivers' = [archivers EXCEPT ![a] =
              IF status[p] = "ACTIVE"
              THEN [@ EXCEPT !.pc = "observe", !.doomed = FALSE,
                             !.unread = OwnedBy(p)]
              ELSE IdleArchiver]
    /\ UNCHANGED <<rows, runs, starters, tasks, boot, crashes>>

\* blocksProjectArchival: the manager does not know the run, or it is not over.
Blocks(r) == runs[r] # "terminal"

\* readRunForArchival, and the rejection once a run blocks.
ObserveRun(a, r) ==
    /\ archivers[a].pc = "observe" /\ r \in archivers[a].unread
    /\ archivers' = [archivers EXCEPT ![a] =
          IF Blocks(r) THEN IdleArchiver
          ELSE [@ EXCEPT !.unread = archivers[a].unread \ {r}]]
    /\ UNCHANGED <<rows, runs, starters, tasks, boot, crashes>>

\* The run manager cannot be read: the error ends the transaction.
ObservationFails(a) ==
    /\ archivers[a].pc = "observe" /\ archivers[a].unread # {}
    /\ archivers' = [archivers EXCEPT ![a] = IdleArchiver]
    /\ UNCHANGED <<rows, runs, starters, tasks, boot, crashes>>

\* The commit dooms reservations that have read the status and other archives.
ArchiveCommits(a) ==
    LET p == archivers[a].project
    IN  /\ archivers[a].pc = "observe" /\ archivers[a].unread = {}
        /\ ~archivers[a].doomed
        /\ status' = [status EXCEPT ![p] = "ARCHIVED"]
        /\ archivers' = [b \in Archivers |->
              IF b = a THEN IdleArchiver
              ELSE IF archivers[b].pc = "observe" /\ archivers[b].project = p
              THEN [archivers[b] EXCEPT !.doomed = TRUE] ELSE archivers[b]]
        /\ starters' = [r \in Runs |->
              IF starters[r].pc = "insert" /\ starters[r].project = p
              THEN [starters[r] EXCEPT !.doomed = TRUE] ELSE starters[r]]
        /\ UNCHANGED <<content, reservations, runs, tasks, boot, crashes>>

ArchiveRetries(a) ==
    /\ archivers[a].pc = "observe" /\ archivers[a].unread = {}
    /\ archivers[a].doomed
    /\ archivers' = [archivers EXCEPT ![a] =
          IF @.attempt = MaxAttempts THEN IdleArchiver ELSE Again(@)]
    /\ UNCHANGED <<rows, runs, starters, tasks, boot, crashes>>

-----------------------------------------------------------------------------
(* Creating and restoring: the handlers share ProjectContentModelService.  *)

AdvanceTask(c, pc) == tasks' = [tasks EXCEPT ![c].pc = pc]
EndTask(c)         == tasks' = [tasks EXCEPT ![c] = IdleTask]

\* createProject: the row is CREATING until its content is published.
BeginCreate(c, p) ==
    /\ Up /\ tasks[c].pc = "idle" /\ status[p] = "none"
    /\ status' = [status EXCEPT ![p] = "CREATING"]
    /\ content' = [content EXCEPT ![p] = "none"]
    /\ tasks' = [tasks EXCEPT ![c] = [kind |-> "create", project |-> p,
                                      pc |-> "migrate"]]
    /\ UNCHANGED <<reservations, runs, starters, archivers, boot, crashes>>

\* assertArchived, outside any transaction.
BeginRestore(c, p) ==
    /\ Up /\ tasks[c].pc = "idle" /\ status[p] = "ARCHIVED"
    /\ tasks' = [tasks EXCEPT ![c] = [kind |-> "restore", project |-> p,
                                      pc |-> "migrate"]]
    /\ UNCHANGED <<rows, runs, starters, archivers, boot, crashes>>

\* The migrations apply changes that the draft does not have yet.
NeedsMigration(p) == content[p] \in {"none", "old"}

\* A project that was never committed is not kept; a restore goes on.
AfterNoChange(c) == IF tasks[c].kind = "create" THEN "remove" ELSE "activate"

\* apply, up to applyMigrations.
Migrate(c) ==
    LET p == tasks[c].project
    IN  /\ tasks[c].pc = "migrate"
        /\ content' = IF NeedsMigration(p)
                      THEN [content EXCEPT ![p] = "draft"] ELSE content
        /\ AdvanceTask(c, IF NeedsMigration(p) THEN "publish"
                                               ELSE AfterNoChange(c))
        /\ UNCHANGED <<status, reservations, runs, starters, archivers, boot,
                       crashes>>

\* apply, createRevision.
Publish(c) ==
    /\ tasks[c].pc = "publish"
    /\ content' = [content EXCEPT ![tasks[c].project] = "published"]
    /\ AdvanceTask(c, "activate")
    /\ UNCHANGED <<status, reservations, runs, starters, archivers, boot,
                   crashes>>

\* Mistake: a restore goes on when the content model could not be applied.
ApplyFailsGoingOn(c) ==
    /\ tasks[c].pc \in {"migrate", "publish"}
    /\ IF tasks[c].kind = "create" THEN AdvanceTask(c, "remove")
                                   ELSE AdvanceTask(c, "activate")
    /\ UNCHANGED <<rows, runs, starters, archivers, boot, crashes>>

\* apply throws: a create removes what it has made, a restore gives up.
ApplyFails(c) ==
    /\ tasks[c].pc \in {"migrate", "publish"}
    /\ IF tasks[c].kind = "create" THEN AdvanceTask(c, "remove") ELSE EndTask(c)
    /\ UNCHANGED <<rows, runs, starters, archivers, boot, crashes>>

\* activateProject: of a create, whatever the status is; of a restore, only
\* where the project is still archived.
Activate(c) ==
    LET p == tasks[c].project
    IN  /\ tasks[c].pc = "activate"
        /\ status' = IF tasks[c].kind = "create" \/ status[p] = "ARCHIVED"
                     THEN [status EXCEPT ![p] = "ACTIVE"] ELSE status
        /\ EndTask(c)
        /\ UNCHANGED <<content, reservations, runs, starters, archivers, boot,
                       crashes>>

\* It fails: nothing undoes the row, which start-up will find.
ActivateFails(c) ==
    /\ tasks[c].pc = "activate"
    /\ EndTask(c)
    /\ UNCHANGED <<rows, runs, starters, archivers, boot, crashes>>

\* Mistake: a removed project is kept, with a status of its own.
DeleteSoftly(p) ==
    /\ OwnedBy(p) = {}
    /\ status' = [status EXCEPT ![p] = "DELETED"]
    /\ content' = [content EXCEPT ![p] = "none"]

\* deleteProject; the foreign key of project_runs forbids it with reservations.
Delete(p) ==
    /\ OwnedBy(p) = {}
    /\ status' = [status EXCEPT ![p] = "none"]
    /\ content' = [content EXCEPT ![p] = "none"]

\* removeCreatedProject: a failure is only logged.
RemoveCreated(c) ==
    /\ tasks[c].pc = "remove"
    /\ Delete(tasks[c].project) \/ UNCHANGED <<status, content>>
    /\ EndTask(c)
    /\ UNCHANGED <<reservations, runs, starters, archivers, boot, crashes>>

-----------------------------------------------------------------------------
(* A crash, and UserProjectMigrationsService at the next start.            *)

InCreation  == {p \in Projects : status[p] = "CREATING"}
UserProjects == {p \in Projects : status[p] \in {"ACTIVE", "ARCHIVED"}}

\* Calls are gone; an admission that was under way may have got through.  The
\* next start may be of a release with a newer content model.
Crash ==
    /\ crashes < MaxCrashes
    /\ crashes' = crashes + 1
    /\ runs' = [r \in Runs |->
          IF starters[r].pc = "create" THEN "limbo" ELSE runs[r]]
    /\ starters' = [r \in Runs |-> IF starters[r].pc = "idle" THEN starters[r]
                                   ELSE [IdleStarter EXCEPT !.pc = "done"]]
    /\ archivers' = [a \in Archivers |-> IdleArchiver]
    /\ tasks' = [c \in Callers |-> IdleTask]
    /\ boot' = [phase |-> "removing", left |-> InCreation]
    /\ \/ UNCHANGED content
       \/ content' = [p \in Projects |->
              IF content[p] = "none" THEN "none" ELSE "old"]
    /\ UNCHANGED <<status, reservations>>

\* removeUnfinishedProject: one after the other, failures stay isolated.
BootRemove(p) ==
    /\ boot.phase = "removing" /\ p \in boot.left
    /\ Delete(p) \/ UNCHANGED <<status, content>>
    /\ boot' = [boot EXCEPT !.left = @ \ {p}]
    /\ UNCHANGED <<reservations, runs, calls, crashes>>

BootRemovalDone ==
    /\ boot.phase = "removing" /\ boot.left = {}
    /\ boot' = [phase |-> "migrating", left |-> UserProjects]
    /\ UNCHANGED <<rows, runs, calls, crashes>>

\* Mistake: a project is done with only once a migration has been applied.
BootMigrateInsisting(p) ==
    /\ boot.phase = "migrating" /\ p \in boot.left
    /\ \/ UNCHANGED <<content, boot>>
       \/ /\ NeedsMigration(p)
          /\ content' = [content EXCEPT ![p] = "published"]
          /\ boot' = [boot EXCEPT !.left = @ \ {p}]
    /\ UNCHANGED <<status, reservations, runs, calls, crashes>>

\* applyToUserProject: it may fail before or after the migrations applied.
BootMigrate(p) ==
    /\ boot.phase = "migrating" /\ p \in boot.left
    /\ \/ UNCHANGED content
       \/ /\ NeedsMigration(p)
          /\ \E reached \in {"draft", "published"} :
                content' = [content EXCEPT ![p] = reached]
    /\ boot' = [boot EXCEPT !.left = @ \ {p}]
    /\ UNCHANGED <<status, reservations, runs, calls, crashes>>

BootDone ==
    /\ boot.phase = "migrating" /\ boot.left = {}
    /\ boot' = [phase |-> "up", left |-> {}]
    /\ UNCHANGED <<rows, runs, calls, crashes>>

-----------------------------------------------------------------------------

StartRunStep(r) ==
    \/ \E p \in Projects : StartRun(r, p)
    \/ ReserveReads(r) \/ ReserveCommits(r) \/ ReserveRetries(r)
    \/ CreateRun(r) \/ CreateRunRejected(r) \/ CreateRunFails(r)
    \/ ReleaseReservation(r)

ArchiveStep(a) ==
    \/ \E p \in Projects : BeginArchive(a, p)
    \/ \E r \in Runs : ObserveRun(a, r)
    \/ ArchiveReads(a) \/ ObservationFails(a)
    \/ ArchiveCommits(a) \/ ArchiveRetries(a)

TaskStep(c) ==
    \/ \E p \in Projects : BeginCreate(c, p) \/ BeginRestore(c, p)
    \/ Migrate(c) \/ Publish(c) \/ ApplyFails(c)
    \/ Activate(c) \/ ActivateFails(c) \/ RemoveCreated(c)

Boot ==
    \/ \E p \in Projects : BootRemove(p) \/ BootMigrate(p)
    \/ BootRemovalDone \/ BootDone

Next ==
    \/ \E r \in Runs : StartRunStep(r) \/ AdmissionSettles(r) \/ RunEnds(r)
    \/ \E a \in Archivers : ArchiveStep(a)
    \/ \E c \in Callers : TaskStep(c)
    \/ Boot \/ Crash

\* onApplicationBootstrap runs to its end, its two listings succeeding; users and
\* the manager owe nothing.
Spec == Init /\ [][Next]_vars /\ WF_vars(Boot)

-----------------------------------------------------------------------------
(* Properties.                                                             *)

\* A run that the manager has, may have or is being asked for has an owner:
\* no failed, interrupted or ambiguous admission loses the reservation.
LiveRunIsOwned ==
    \A r \in Runs :
        runs[r] \in {"limbo", "live"} \/ starters[r].pc = "create"
            => reservations[r] # NoProject

\* Every run of an archived project is over; so a run that is live, may still
\* come alive or has only been reserved is in an ACTIVE project, whatever the
\* order of archiving, reserving, admission and their retries.
ArchivedProjectIsFinished ==
    \A r \in Runs : reservations[r] # NoProject =>
        \/ status[reservations[r]] = "ACTIVE"
        \/ status[reservations[r]] = "ARCHIVED" /\ runs[r] = "terminal"

\* A project becomes ACTIVE, by creation or restoration, only with the current
\* content model in its draft, though several calls apply and fail at it.
ActivatedWithCurrentModel ==
    [][\A p \in Projects :
          status[p] # "ACTIVE" /\ status'[p] = "ACTIVE"
              => content[p] \in {"draft", "published"}]_vars

\* Start-up ends whatever fails in it: one project that cannot be removed or
\* migrated does not keep the service from starting.
StartsWhateverFails == boot.phase # "up" ~> boot.phase = "up"
=============================================================================
