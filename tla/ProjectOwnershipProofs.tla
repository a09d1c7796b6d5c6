----------------------- MODULE ProjectOwnershipProofs -----------------------
(***************************************************************************)
(* Theorems about ProjectOwnership, for any numbers of projects, runs and  *)
(* calls, attempts at a transaction, and crashes.                          *)
(*                                                                         *)
(* The two transactions are ordered by what they have read: one that may   *)
(* still commit has read what still holds, since a commit that changes it  *)
(* dooms the other.                                                        *)
(***************************************************************************)
EXTENDS ProjectOwnership, TLAPS

-----------------------------------------------------------------------------
(* Who touches what.                                                       *)

LEMMA StartRunFrame ==
    ASSUME NEW r \in Runs, StartRunStep(r)
    PROVE  UNCHANGED <<status, content, tasks, boot, crashes>>
BY DEF StartRunStep, StartRun, ReserveReads, ReserveCommits, ReserveRetries,
       CreateRun, CreateRunRejected, CreateRunFails, ReleaseReservation, rows

LEMMA ArchiveFrame ==
    ASSUME NEW a \in Archivers, ArchiveStep(a)
    PROVE  UNCHANGED <<content, reservations, runs, tasks, boot, crashes>>
BY DEF ArchiveStep, BeginArchive, ArchiveReads, ObserveRun, ObservationFails,
       ArchiveCommits, ArchiveRetries, rows

LEMMA TaskFrame ==
    ASSUME NEW c \in Callers, TaskStep(c)
    PROVE  /\ UNCHANGED <<reservations, runs, starters, archivers, boot>>
           /\ UNCHANGED crashes
BY DEF TaskStep, BeginCreate, BeginRestore, Migrate, Publish, ApplyFails,
       Activate, ActivateFails, RemoveCreated, rows

LEMMA BootFrame ==
    ASSUME Boot
    PROVE  UNCHANGED <<reservations, runs, starters, archivers, tasks, crashes>>
BY DEF Boot, BootRemove, BootMigrate, BootRemovalDone, BootDone, rows, calls

LEMMA ManagerFrame ==
    ASSUME NEW r \in Runs, AdmissionSettles(r) \/ RunEnds(r)
    PROVE  UNCHANGED <<rows, calls, boot, crashes>>
BY DEF AdmissionSettles, RunEnds

-----------------------------------------------------------------------------
(* Type correctness.                                                       *)

\* A call that is doomed, or tried once more, keeps its record well-typed.
LEMMA StarterUpdate ==
    ASSUME NEW call \in Starter
    PROVE  /\ [call EXCEPT !.doomed = TRUE] \in Starter
           /\ [call EXCEPT !.pc = "done"] \in Starter
           /\ [call EXCEPT !.pc = "release"] \in Starter
           /\ Again(call) \in Starter
<1>. DEFINE next == call.attempt + 1
<1>1. next \in Nat
    BY DEF Starter
<1>2. [call EXCEPT !.pc = "read", !.attempt = next, !.doomed = FALSE]
        \in Starter
    <2>. HIDE DEF next
    <2>. QED
        BY <1>1 DEF Starter
<1>. QED
    BY <1>2 DEF Starter, Again

LEMMA ArchiverUpdate ==
    ASSUME NEW call \in Archiver, NEW unread \in SUBSET Runs
    PROVE  /\ [call EXCEPT !.doomed = TRUE] \in Archiver
           /\ [call EXCEPT !.unread = unread] \in Archiver
           /\ Again(call) \in Archiver
           /\ IdleArchiver \in Archiver
<1>. DEFINE next == call.attempt + 1
<1>1. next \in Nat
    BY DEF Archiver
<1>2. [call EXCEPT !.pc = "read", !.attempt = next, !.doomed = FALSE]
        \in Archiver
    <2>. HIDE DEF next
    <2>. QED
        BY <1>1 DEF Archiver
<1>. QED
    BY <1>2 DEF Archiver, IdleArchiver, Again

LEMMA StartRunType ==
    ASSUME TypeOK, NEW r \in Runs, StartRunStep(r)
    PROVE  TypeOK'
<1>. USE DEF TypeOK
<1>0. /\ status' \in [Projects -> ProjectStatus]
      /\ content' \in [Projects -> ContentState]
      /\ tasks' \in [Callers -> Task]
      /\ boot' \in [phase : {"removing", "migrating", "up"},
                    left : SUBSET Projects]
      /\ crashes' \in Nat
    BY StartRunFrame
<1>1. ASSUME NEW p \in Projects, StartRun(r, p)
      PROVE  TypeOK'
    BY <1>0, <1>1 DEF StartRun, rows, Starter
<1>2. CASE ReserveReads(r)
    BY <1>0, <1>2 DEF ReserveReads, rows, Starter
<1>3. CASE ReserveCommits(r)
    <2>1. archivers' \in [Archivers -> Archiver]
        BY <1>3, ArchiverUpdate DEF ReserveCommits, DoomArchives
    <2>2. starters' \in [Runs -> Starter]
        BY <1>3 DEF ReserveCommits, Starter
    <2>3. reservations' \in [Runs -> Projects \cup {NoProject}]
        BY <1>3 DEF ReserveCommits, Starter
    <2>. QED
        BY <1>0, <1>3, <2>1, <2>2, <2>3 DEF ReserveCommits
<1>4. CASE ReserveRetries(r)
    <2>. DEFINE row == IF starters[r].attempt = MaxAttempts
                       THEN [starters[r] EXCEPT !.pc = "done"]
                       ELSE Again(starters[r])
    <2>1. row \in Starter
        BY StarterUpdate
    <2>2. starters' \in [Runs -> Starter]
        <3>1. starters' = [starters EXCEPT ![r] = row]
            BY <1>4 DEF ReserveRetries
        <3>. HIDE DEF row
        <3>. QED
            BY <2>1, <3>1
    <2>. QED
        BY <1>0, <1>4, <2>2 DEF ReserveRetries, rows
<1>5. CASE CreateRun(r)
    <2>1. starters' \in [Runs -> Starter]
        BY <1>5, StarterUpdate DEF CreateRun
    <2>2. runs' \in [Runs -> RunState]
        BY <1>5 DEF CreateRun, RunState
    <2>. QED
        BY <1>0, <1>5, <2>1, <2>2 DEF CreateRun, rows
<1>6. CASE CreateRunRejected(r)
    <2>1. starters' \in [Runs -> Starter]
        BY <1>6, StarterUpdate DEF CreateRunRejected
    <2>. QED
        BY <1>0, <1>6, <2>1 DEF CreateRunRejected, rows
<1>7. CASE CreateRunFails(r)
    <2>1. starters' \in [Runs -> Starter]
        BY <1>7, StarterUpdate DEF CreateRunFails
    <2>2. runs' \in [Runs -> RunState]
        BY <1>7 DEF CreateRunFails, RunState
    <2>. QED
        BY <1>0, <1>7, <2>1, <2>2 DEF CreateRunFails, rows
<1>8. CASE ReleaseReservation(r)
    <2>1. starters' \in [Runs -> Starter]
        BY <1>8, StarterUpdate DEF ReleaseReservation
    <2>2. reservations' \in [Runs -> Projects \cup {NoProject}]
        BY <1>8 DEF ReleaseReservation
    <2>. QED
        BY <1>0, <1>8, <2>1, <2>2 DEF ReleaseReservation
<1>. QED
    BY <1>1, <1>2, <1>3, <1>4, <1>5, <1>6, <1>7, <1>8 DEF StartRunStep

LEMMA ArchiveType ==
    ASSUME TypeOK, NEW a \in Archivers, ArchiveStep(a)
    PROVE  TypeOK'
<1>. USE DEF TypeOK
<1>0. /\ content' \in [Projects -> ContentState]
      /\ reservations' \in [Runs -> Projects \cup {NoProject}]
      /\ runs' \in [Runs -> RunState]
      /\ tasks' \in [Callers -> Task]
      /\ boot' \in [phase : {"removing", "migrating", "up"},
                    left : SUBSET Projects]
      /\ crashes' \in Nat
    BY ArchiveFrame
<1>1. ASSUME NEW p \in Projects, BeginArchive(a, p)
      PROVE  TypeOK'
    <2>1. [IdleArchiver EXCEPT !.pc = "read", !.project = p, !.attempt = 1]
            \in Archiver
        BY DEF IdleArchiver, Archiver
    <2>. QED
        BY <1>0, <1>1, <2>1 DEF BeginArchive, rows
<1>2. CASE ArchiveReads(a)
    <2>. DEFINE owned == OwnedBy(archivers[a].project)
    <2>0. owned \in SUBSET Runs
        BY DEF OwnedBy
    <2>1. [archivers[a] EXCEPT !.pc = "observe", !.doomed = FALSE,
                               !.unread = owned] \in Archiver
        <3>. HIDE DEF owned
        <3>1. archivers[a] \in Archiver
            OBVIOUS
        <3>. HIDE DEF TypeOK
        <3>. QED
            BY <2>0, <3>1 DEF Archiver
    <2>3. IdleArchiver \in Archiver
        BY DEF Archiver, IdleArchiver
    <2>2. archivers' \in [Archivers -> Archiver]
        BY <1>2, <2>1, <2>3 DEF ArchiveReads
    <2>. QED
        BY <1>0, <1>2, <2>2 DEF ArchiveReads, rows
<1>3. ASSUME NEW r \in Runs, ObserveRun(a, r)
      PROVE  TypeOK'
    <2>. DEFINE row == IF Blocks(r) THEN IdleArchiver
                       ELSE [archivers[a] EXCEPT
                                !.unread = archivers[a].unread \ {r}]
    <2>1. row \in Archiver
        <3>1. archivers[a].unread \ {r} \in SUBSET Runs
            BY DEF Archiver
        <3>. QED
            BY <3>1, ArchiverUpdate
    <2>2. archivers' \in [Archivers -> Archiver]
        <3>1. archivers' = [archivers EXCEPT ![a] = row]
            BY <1>3 DEF ObserveRun
        <3>. HIDE DEF row
        <3>. QED
            BY <2>1, <3>1
    <2>. QED
        BY <1>0, <1>3, <2>2 DEF ObserveRun, rows
<1>4. CASE ObservationFails(a)
    BY <1>0, <1>4 DEF ObservationFails, rows, Archiver, IdleArchiver
<1>5. CASE ArchiveCommits(a)
    <2>1. archivers' \in [Archivers -> Archiver]
        BY <1>5, ArchiverUpdate DEF ArchiveCommits
    <2>2. starters' \in [Runs -> Starter]
        BY <1>5, StarterUpdate DEF ArchiveCommits
    <2>3. status' \in [Projects -> ProjectStatus]
        BY <1>5 DEF ArchiveCommits, ProjectStatus
    <2>. QED
        BY <1>0, <2>1, <2>2, <2>3
<1>6. CASE ArchiveRetries(a)
    <2>. DEFINE row == IF archivers[a].attempt = MaxAttempts
                       THEN IdleArchiver
                       ELSE Again(archivers[a])
    <2>1. row \in Archiver
        BY ArchiverUpdate
    <2>2. archivers' \in [Archivers -> Archiver]
        <3>1. archivers' = [archivers EXCEPT ![a] = row]
            BY <1>6 DEF ArchiveRetries
        <3>. HIDE DEF row
        <3>. QED
            BY <2>1, <3>1
    <2>. QED
        BY <1>0, <1>6, <2>2 DEF ArchiveRetries, rows
<1>. QED
    BY <1>1, <1>2, <1>3, <1>4, <1>5, <1>6 DEF ArchiveStep

LEMMA TaskType ==
    ASSUME TypeOK, NEW c \in Callers, TaskStep(c)
    PROVE  TypeOK'
<1>. USE DEF TypeOK, ProjectStatus, ContentState, Task
<1>0. /\ reservations' \in [Runs -> Projects \cup {NoProject}]
      /\ runs' \in [Runs -> RunState]
      /\ starters' \in [Runs -> Starter]
      /\ archivers' \in [Archivers -> Archiver]
      /\ boot' \in [phase : {"removing", "migrating", "up"},
                    left : SUBSET Projects]
      /\ crashes' \in Nat
    BY TaskFrame
<1>. DEFINE Goal == /\ status' \in [Projects -> ProjectStatus]
                    /\ content' \in [Projects -> ContentState]
                    /\ tasks' \in [Callers -> Task]
<1>1. ASSUME NEW p \in Projects, BeginCreate(c, p) \/ BeginRestore(c, p)
      PROVE  Goal
    <2>1. CASE BeginCreate(c, p)
        <3>1. [kind |-> "create", project |-> p, pc |-> "migrate"] \in Task
            OBVIOUS
        <3>2. tasks' \in [Callers -> Task]
            BY <2>1, <3>1 DEF BeginCreate
        <3>. QED
            BY <2>1, <3>2 DEF BeginCreate
    <2>2. CASE BeginRestore(c, p)
        <3>1. [kind |-> "restore", project |-> p, pc |-> "migrate"] \in Task
            OBVIOUS
        <3>2. tasks' \in [Callers -> Task]
            BY <2>2, <3>1 DEF BeginRestore
        <3>. QED
            BY <2>2, <3>2 DEF BeginRestore, rows
    <2>. QED
        BY <1>1, <2>1, <2>2
<1>2. CASE Migrate(c)
    <2>. DEFINE pc == IF NeedsMigration(tasks[c].project) THEN "publish"
                                                          ELSE AfterNoChange(c)
    <2>1. pc \in {"publish", "remove", "activate"}
        BY DEF AfterNoChange
    <2>2. tasks' = [tasks EXCEPT ![c].pc = pc]
        BY <1>2 DEF Migrate, AdvanceTask
    <2>3. tasks' \in [Callers -> Task]
        <3>. HIDE DEF pc
        <3>. QED
            BY <2>1, <2>2
    <2>. QED
        BY <1>2, <2>3 DEF Migrate
<1>3. CASE Publish(c)
    <2>. DEFINE pc == "activate"
    <2>1. pc \in {"publish", "remove", "activate"}
        OBVIOUS
    <2>2. tasks' = [tasks EXCEPT ![c].pc = pc]
        BY <1>3 DEF Publish, AdvanceTask
    <2>3. tasks' \in [Callers -> Task]
        <3>. HIDE DEF pc
        <3>. QED
            BY <2>1, <2>2
    <2>. QED
        BY <1>3, <2>3 DEF Publish
<1>4. CASE ApplyFails(c)
    BY <1>4 DEF ApplyFails, AdvanceTask, EndTask, IdleTask, rows
<1>5. CASE Activate(c)
    BY <1>5 DEF Activate, EndTask, IdleTask
<1>6. CASE ActivateFails(c)
    BY <1>6 DEF ActivateFails, EndTask, IdleTask, rows
<1>7. CASE RemoveCreated(c)
    BY <1>7 DEF RemoveCreated, Delete, EndTask, IdleTask
<1>8. Goal
    BY <1>1, <1>2, <1>3, <1>4, <1>5, <1>6, <1>7 DEF TaskStep
<1>. QED
    BY <1>0, <1>8

LEMMA BootType ==
    ASSUME TypeOK, Boot
    PROVE  TypeOK'
<1>. USE DEF TypeOK, ProjectStatus, ContentState
<1>0. /\ reservations' \in [Runs -> Projects \cup {NoProject}]
      /\ runs' \in [Runs -> RunState]
      /\ starters' \in [Runs -> Starter]
      /\ archivers' \in [Archivers -> Archiver]
      /\ tasks' \in [Callers -> Task]
      /\ crashes' \in Nat
    BY BootFrame
<1>1. ASSUME NEW p \in Projects, BootRemove(p)
      PROVE  TypeOK'
    BY <1>0, <1>1 DEF BootRemove, Delete
<1>2. ASSUME NEW p \in Projects, BootMigrate(p)
      PROVE  TypeOK'
    BY <1>0, <1>2 DEF BootMigrate
<1>3. CASE BootRemovalDone \/ BootDone
    BY <1>0, <1>3 DEF BootRemovalDone, BootDone, UserProjects, rows
<1>. QED
    BY <1>1, <1>2, <1>3 DEF Boot

LEMMA CrashType ==
    ASSUME TypeOK, Crash
    PROVE  TypeOK'
<1>1. runs' \in [Runs -> RunState]
    BY DEF Crash, TypeOK, RunState
<1>2. starters' \in [Runs -> Starter]
    BY DEF Crash, TypeOK, Starter, IdleStarter
<1>3. archivers' \in [Archivers -> Archiver]
    BY DEF Crash, IdleArchiver, Archiver
<1>4. tasks' \in [Callers -> Task]
    BY DEF Crash, IdleTask, Task
<1>5. content' \in [Projects -> ContentState]
    BY DEF Crash, TypeOK, ContentState
<1>6. /\ boot' \in [phase : {"removing", "migrating", "up"},
                    left : SUBSET Projects]
      /\ crashes' \in Nat
      /\ UNCHANGED <<status, reservations>>
    BY CrashesAssumption DEF Crash, TypeOK, InCreation
<1>. QED
    BY <1>1, <1>2, <1>3, <1>4, <1>5, <1>6 DEF TypeOK

LEMMA TypeStep ==
    ASSUME TypeOK, [Next]_vars
    PROVE  TypeOK'
<1>1. ASSUME NEW r \in Runs, AdmissionSettles(r) \/ RunEnds(r)
      PROVE  TypeOK'
    BY <1>1, ManagerFrame
    DEF AdmissionSettles, RunEnds, TypeOK, RunState, rows, calls
<1>2. CASE UNCHANGED vars
    BY <1>2 DEF vars, rows, calls, TypeOK
<1>. QED
    BY <1>1, <1>2, StartRunType, ArchiveType, TaskType, BootType, CrashType
    DEF Next

\* The rows, the calls and the start-up are well-typed in every state.
THEOREM TypeCorrect == Spec => []TypeOK
<1>1. Init => TypeOK
    BY DEF Init, TypeOK, ProjectStatus, ContentState, RunState, Starter,
           Archiver, Task, IdleStarter, IdleArchiver, IdleTask
<1>2. TypeOK /\ [Next]_vars => TypeOK'
    BY TypeStep
<1>. QED
    BY <1>1, <1>2, PTL DEF Spec

-----------------------------------------------------------------------------
(* The inductive invariant.                                                *)

\* A call is about a project; what a run has behind it has a reservation, and
\* before its admission settles the run manager does not have it.
Starting(r) ==
    /\ starters[r].pc \notin {"idle", "done"} => starters[r].project \in Projects
    /\ starters[r].pc # "done" => runs[r] = "none"
    /\ runs[r] # "none" \/ starters[r].pc = "create"
          => reservations[r] # NoProject

\* A reservation that may still commit has read a status that still holds.
SeesActive(r) ==
    starters[r].pc = "insert" /\ ~starters[r].doomed
        => status[starters[r].project] = "ACTIVE"

\* An archive that may still commit has read a status that still holds, and
\* every reservation; the runs that it has looked at are over.
SeesRuns(a) ==
    /\ archivers[a].pc # "idle" => archivers[a].project \in Projects
    /\ archivers[a].pc = "observe" /\ ~archivers[a].doomed =>
          /\ status[archivers[a].project] = "ACTIVE"
          /\ \A r \in Runs : reservations[r] = archivers[a].project
                => r \in archivers[a].unread \/ runs[r] = "terminal"

\* A project that is being created belongs to one call; one that is being
\* restored was committed before.  Both activate what has been migrated.
TaskFits(c) ==
    tasks[c].pc # "idle" =>
        /\ tasks[c].project \in Projects
        /\ \/ tasks[c].kind = "create" /\ status[tasks[c].project] = "CREATING"
           \/ /\ tasks[c].kind = "restore" /\ tasks[c].pc # "remove"
              /\ status[tasks[c].project] \in {"ACTIVE", "ARCHIVED"}
        /\ tasks[c].pc \in {"publish", "activate"}
              => content[tasks[c].project] \in {"draft", "published"}

TasksApart ==
    \A c, d \in Callers :
        /\ tasks[c].pc # "idle" /\ tasks[c].kind = "create"
        /\ tasks[d].pc # "idle" /\ tasks[d].kind = "create"
        /\ tasks[c].project = tasks[d].project
        => c = d

\* Calls begin behind the start-up, which removes only unfinished projects.
BootAlone ==
    boot.phase # "up" =>
        /\ \A r \in Runs : starters[r].pc \in {"idle", "done"}
        /\ \A a \in Archivers : archivers[a].pc = "idle"
        /\ \A c \in Callers : tasks[c].pc = "idle"
        /\ boot.phase = "removing"
              => \A p \in boot.left : status[p] = "CREATING"

Inv ==
    /\ \A r \in Runs : Starting(r) /\ SeesActive(r)
    /\ \A a \in Archivers : SeesRuns(a)
    /\ \A c \in Callers : TaskFits(c)
    /\ TasksApart /\ BootAlone
    /\ ArchivedProjectIsFinished

\* Only a commit of an archive takes the status ACTIVE from a project, and no
\* project that was committed is removed.
LEMMA StatusKept ==
    ASSUME TypeOK, Inv, NEW p \in Projects,
           Boot \/ \E c \in Callers : TaskStep(c)
    PROVE  /\ status[p] = "ACTIVE" => status'[p] = "ACTIVE"
           /\ status[p] = "ARCHIVED" => status'[p] \in {"ACTIVE", "ARCHIVED"}
<1>. DEFINE Goal ==
        /\ status[p] = "ACTIVE" => status'[p] = "ACTIVE"
        /\ status[p] = "ARCHIVED" => status'[p] \in {"ACTIVE", "ARCHIVED"}
<1>. USE DEF TypeOK
<1>1. ASSUME NEW q \in Projects, BootRemove(q)
      PROVE  Goal
    BY <1>1 DEF BootRemove, Delete, Inv, BootAlone
<1>2. CASE Boot
    BY <1>1, <1>2 DEF Boot, BootMigrate, BootRemovalDone, BootDone, rows
<1>3. ASSUME NEW c \in Callers, TaskStep(c)
      PROVE  Goal
    <2>0. TaskFits(c)
        BY DEF Inv
    <2>1. ASSUME NEW q \in Projects, BeginCreate(c, q)
          PROVE  Goal
        BY <2>1 DEF BeginCreate
    <2>2. CASE Activate(c)
        BY <2>0, <2>2 DEF Activate, TaskFits
    <2>3. CASE RemoveCreated(c)
        BY <2>0, <2>3 DEF RemoveCreated, Delete, TaskFits
    <2>4. CASE status' = status
        BY <2>4
    <2>. QED
        BY <1>3, <2>1, <2>2, <2>3, <2>4
        DEF TaskStep, BeginRestore, Migrate, Publish, ApplyFails,
            ActivateFails, rows
<1>. QED
    BY <1>2, <1>3

LEMMA StartingStep ==
    ASSUME TypeOK, Inv, [Next]_vars, NEW s \in Runs
    PROVE  Starting(s)'
<1>. USE DEF TypeOK, Starting
<1>0. Starting(s)
    BY DEF Inv
<1>1. CASE UNCHANGED vars
    BY <1>0, <1>1 DEF vars, rows, calls
<1>2. ASSUME NEW r \in Runs, StartRunStep(r)
      PROVE  Starting(s)'
    <2>. USE ProjectsAssumption DEF Starter
    <2>1. ASSUME NEW p \in Projects, StartRun(r, p)
          PROVE  Starting(s)'
        BY <1>0, <2>1 DEF StartRun, rows
    <2>2. CASE ReserveReads(r)
        BY <1>0, <2>2 DEF ReserveReads, rows
    <2>3. CASE ReserveCommits(r)
        BY <1>0, <2>3 DEF ReserveCommits
    <2>4. CASE ReserveRetries(r)
        <3>1. \/ starters' = [starters EXCEPT ![r] =
                                [starters[r] EXCEPT !.pc = "done"]]
              \/ starters' = [starters EXCEPT ![r] = Again(starters[r])]
            BY <2>4 DEF ReserveRetries
        <3>2. UNCHANGED <<reservations, runs>> /\ starters[r].pc = "insert"
            BY <2>4 DEF ReserveRetries, rows
        <3>3. Again(starters[r]).project = starters[r].project
            BY DEF Again
        <3>4. Again(starters[r]).pc = "read"
            BY DEF Again
        <3>. QED
            BY <1>0, <3>1, <3>2, <3>3, <3>4
    <2>5. CASE CreateRun(r)
        BY <1>0, <2>5 DEF CreateRun, rows
    <2>6. CASE CreateRunRejected(r)
        BY <1>0, <2>6 DEF CreateRunRejected, rows
    <2>7. CASE CreateRunFails(r)
        BY <1>0, <2>7 DEF CreateRunFails, rows
    <2>8. CASE ReleaseReservation(r)
        BY <1>0, <2>8 DEF ReleaseReservation
    <2>. QED
        BY <1>2, <2>1, <2>2, <2>3, <2>4, <2>5, <2>6, <2>7, <2>8
        DEF StartRunStep
<1>3. ASSUME NEW a \in Archivers, ArchiveStep(a)
      PROVE  Starting(s)'
    <2>1. /\ starters'[s].pc = starters[s].pc
          /\ starters'[s].project = starters[s].project
        <3>1. CASE ArchiveCommits(a)
            <4>1. starters'[s] =
                    IF /\ starters[s].pc = "insert"
                       /\ starters[s].project = archivers[a].project
                    THEN [starters[s] EXCEPT !.doomed = TRUE] ELSE starters[s]
                BY <3>1 DEF ArchiveCommits
            <4>. QED
                BY <4>1 DEF Starter
        <3>2. CASE starters' = starters
            BY <3>2
        <3>. QED
            BY <1>3, <3>1, <3>2
            DEF ArchiveStep, BeginArchive, ArchiveReads, ObserveRun,
                ObservationFails, ArchiveRetries
    <2>. QED
        BY <1>0, <1>3, <2>1, ArchiveFrame
<1>4. ASSUME NEW c \in Callers, TaskStep(c)
      PROVE  Starting(s)'
    BY <1>0, <1>4, TaskFrame
<1>5. CASE Boot
    BY <1>0, <1>5, BootFrame
<1>6. ASSUME NEW r \in Runs, AdmissionSettles(r) \/ RunEnds(r)
      PROVE  Starting(s)'
    BY <1>0, <1>6 DEF AdmissionSettles, RunEnds, rows, calls
<1>7. CASE Crash
    BY <1>0, <1>7 DEF Crash, IdleStarter
<1>. QED
    BY <1>1, <1>2, <1>3, <1>4, <1>5, <1>6, <1>7 DEF Next

LEMMA SeesActiveStep ==
    ASSUME TypeOK, Inv, [Next]_vars, NEW s \in Runs
    PROVE  SeesActive(s)'
<1>. USE DEF TypeOK, SeesActive
<1>0. SeesActive(s) /\ Starting(s)
    BY DEF Inv
<1>1. CASE UNCHANGED vars
    BY <1>0, <1>1 DEF vars, rows, calls
<1>2. ASSUME NEW r \in Runs, StartRunStep(r)
      PROVE  SeesActive(s)'
    <2>0. status' = status
        BY <1>2, StartRunFrame
    <2>. USE DEF Starter
    <2>1. ASSUME NEW p \in Projects, StartRun(r, p)
          PROVE  SeesActive(s)'
        BY <1>0, <2>0, <2>1 DEF StartRun
    <2>2. CASE ReserveReads(r)
        BY <1>0, <2>0, <2>2 DEF ReserveReads
    <2>3. CASE ReserveCommits(r) \/ CreateRun(r) \/ CreateRunRejected(r)
        BY <1>0, <2>0, <2>3 DEF ReserveCommits, CreateRun, CreateRunRejected
    <2>4. CASE ReserveRetries(r)
        <3>1. \/ starters' = [starters EXCEPT ![r] =
                                [starters[r] EXCEPT !.pc = "done"]]
              \/ starters' = [starters EXCEPT ![r] = Again(starters[r])]
            BY <2>4 DEF ReserveRetries
        <3>2. Again(starters[r]).pc = "read"
            BY DEF Again
        <3>. QED
            BY <1>0, <2>0, <3>1, <3>2
    <2>5. CASE CreateRunFails(r) \/ ReleaseReservation(r)
        BY <1>0, <2>0, <2>5 DEF CreateRunFails, ReleaseReservation
    <2>. QED
        BY <1>2, <2>1, <2>2, <2>3, <2>4, <2>5 DEF StartRunStep
<1>3. ASSUME NEW a \in Archivers, ArchiveStep(a)
      PROVE  SeesActive(s)'
    <2>1. CASE ArchiveCommits(a)
        <3>1. status' = [status EXCEPT ![archivers[a].project] = "ARCHIVED"]
            BY <2>1 DEF ArchiveCommits
        <3>2. starters'[s] =
                IF /\ starters[s].pc = "insert"
                   /\ starters[s].project = archivers[a].project
                THEN [starters[s] EXCEPT !.doomed = TRUE] ELSE starters[s]
            BY <2>1 DEF ArchiveCommits
        <3>. QED
            BY <1>0, <3>1, <3>2 DEF Starting, Starter
    <2>2. CASE UNCHANGED <<status, starters>>
        BY <1>0, <2>2
    <2>. QED
        BY <1>3, <2>1, <2>2
        DEF ArchiveStep, BeginArchive, ArchiveReads, ObserveRun,
            ObservationFails, ArchiveRetries, rows
<1>4. ASSUME NEW c \in Callers, TaskStep(c)
      PROVE  SeesActive(s)'
    BY <1>0, <1>4, TaskFrame, StatusKept DEF Starting
<1>5. CASE Boot
    BY <1>0, <1>5, BootFrame, StatusKept DEF Starting
<1>6. ASSUME NEW r \in Runs, AdmissionSettles(r) \/ RunEnds(r)
      PROVE  SeesActive(s)'
    BY <1>0, <1>6, ManagerFrame DEF rows, calls
<1>7. CASE Crash
    BY <1>0, <1>7 DEF Crash, IdleStarter
<1>. QED
    BY <1>1, <1>2, <1>3, <1>4, <1>5, <1>6, <1>7 DEF Next

LEMMA SeesRunsStep ==
    ASSUME TypeOK, Inv, [Next]_vars, NEW b \in Archivers
    PROVE  SeesRuns(b)'
<1>. USE DEF TypeOK, SeesRuns
<1>0. SeesRuns(b)
    BY DEF Inv
<1>1. CASE UNCHANGED vars
    BY <1>0, <1>1 DEF vars, rows, calls
<1>2. ASSUME NEW r \in Runs, StartRunStep(r)
      PROVE  SeesRuns(b)'
    <2>0. status' = status /\ Starting(r)
        BY <1>2, StartRunFrame DEF Inv
    <2>1. CASE ReserveCommits(r)
        <3>1. archivers'[b] =
                IF /\ archivers[b].pc = "observe"
                   /\ archivers[b].project = starters[r].project
                THEN [archivers[b] EXCEPT !.doomed = TRUE] ELSE archivers[b]
            BY <2>1 DEF ReserveCommits, DoomArchives
        <3>2. /\ reservations' = [reservations EXCEPT ![r] =
                                    starters[r].project]
              /\ runs' = runs
            BY <2>1 DEF ReserveCommits
        <3>. QED
            BY <1>0, <2>0, <3>1, <3>2 DEF Archiver
    <2>2. CASE /\ UNCHANGED <<archivers, reservations>>
               /\ \/ runs' = runs
                  \/ /\ runs[r] = "none"
                     /\ \E now \in RunState : runs' = [runs EXCEPT ![r] = now]
        BY <1>0, <2>0, <2>2
    <2>3. CASE CreateRun(r) \/ CreateRunFails(r)
        BY <2>0, <2>2, <2>3
        DEF CreateRun, CreateRunFails, Starting, RunState, rows
    <2>4. CASE ReleaseReservation(r)
        BY <1>0, <2>0, <2>4, ProjectsAssumption DEF ReleaseReservation
    <2>. QED
        BY <1>2, <2>1, <2>2, <2>3, <2>4
        DEF StartRunStep, StartRun, ReserveReads, ReserveRetries,
            CreateRunRejected, rows
<1>3. ASSUME NEW a \in Archivers, ArchiveStep(a)
      PROVE  SeesRuns(b)'
    <2>0. UNCHANGED <<reservations, runs>> /\ SeesRuns(a)
        BY <1>3, ArchiveFrame DEF Inv
    <2>. USE DEF Archiver
    <2>1. ASSUME NEW p \in Projects, BeginArchive(a, p)
          PROVE  SeesRuns(b)'
        BY <1>0, <2>0, <2>1 DEF BeginArchive, rows, IdleArchiver
    <2>2. CASE ArchiveReads(a)
        <3>. DEFINE row == [archivers[a] EXCEPT !.pc = "observe",
                               !.doomed = FALSE,
                               !.unread = OwnedBy(archivers[a].project)]
        <3>1. /\ status' = status /\ archivers[a].pc = "read"
              /\ \/ /\ status[archivers[a].project] = "ACTIVE"
                    /\ archivers' = [archivers EXCEPT ![a] = row]
                 \/ archivers' = [archivers EXCEPT ![a] = IdleArchiver]
            BY <2>2 DEF ArchiveReads, rows
        <3>2. /\ row.project = archivers[a].project
              /\ row.unread = OwnedBy(archivers[a].project)
            OBVIOUS
        <3>. HIDE DEF row
        <3>. QED
            BY <1>0, <2>0, <3>1, <3>2 DEF IdleArchiver, OwnedBy
    <2>3. ASSUME NEW r \in Runs, ObserveRun(a, r)
          PROVE  SeesRuns(b)'
        BY <1>0, <2>0, <2>3 DEF ObserveRun, Blocks, IdleArchiver, rows
    <2>4. CASE ObservationFails(a)
        BY <1>0, <2>0, <2>4 DEF ObservationFails, IdleArchiver, rows
    <2>5. CASE ArchiveCommits(a)
        <3>1. status' = [status EXCEPT ![archivers[a].project] = "ARCHIVED"]
            BY <2>5 DEF ArchiveCommits
        <3>2. archivers'[b] =
                IF b = a THEN IdleArchiver
                ELSE IF /\ archivers[b].pc = "observe"
                        /\ archivers[b].project = archivers[a].project
                THEN [archivers[b] EXCEPT !.doomed = TRUE] ELSE archivers[b]
            BY <2>5 DEF ArchiveCommits
        <3>. QED
            BY <1>0, <2>0, <3>1, <3>2 DEF IdleArchiver
    <2>6. CASE ArchiveRetries(a)
        <3>1. /\ status' = status /\ archivers[a].pc = "observe"
              /\ \/ archivers' = [archivers EXCEPT ![a] = IdleArchiver]
                 \/ archivers' = [archivers EXCEPT ![a] = Again(archivers[a])]
            BY <2>6 DEF ArchiveRetries, rows
        <3>2. /\ Again(archivers[a]).project = archivers[a].project
              /\ Again(archivers[a]).pc = "read"
            BY DEF Again
        <3>. QED
            BY <1>0, <2>0, <3>1, <3>2 DEF IdleArchiver
    <2>. QED
        BY <1>3, <2>1, <2>2, <2>3, <2>4, <2>5, <2>6 DEF ArchiveStep
<1>4. ASSUME NEW c \in Callers, TaskStep(c)
      PROVE  SeesRuns(b)'
    BY <1>0, <1>4, TaskFrame, StatusKept
<1>5. CASE Boot
    BY <1>0, <1>5, BootFrame, StatusKept
<1>6. ASSUME NEW r \in Runs, AdmissionSettles(r) \/ RunEnds(r)
      PROVE  SeesRuns(b)'
    BY <1>0, <1>6 DEF AdmissionSettles, RunEnds, rows, calls
<1>7. CASE Crash
    BY <1>0, <1>7 DEF Crash, IdleArchiver
<1>. QED
    BY <1>1, <1>2, <1>3, <1>4, <1>5, <1>6, <1>7 DEF Next

LEMMA BootAloneStep ==
    ASSUME TypeOK, Inv, [Next]_vars
    PROVE  BootAlone'
<1>. USE DEF TypeOK, BootAlone
<1>0. BootAlone
    BY DEF Inv
<1>1. CASE UNCHANGED vars
    BY <1>0, <1>1 DEF vars, rows, calls
<1>2. ASSUME NEW r \in Runs, StartRunStep(r)
      PROVE  BootAlone'
    <2>1. boot.phase = "up"
        BY <1>0, <1>2 DEF StartRunStep, StartRun, ReserveReads, ReserveCommits,
            ReserveRetries, CreateRun, CreateRunRejected, CreateRunFails,
            ReleaseReservation, Up
    <2>. QED
        BY <1>2, <2>1, StartRunFrame
<1>3. ASSUME NEW a \in Archivers, ArchiveStep(a)
      PROVE  BootAlone'
    <2>1. boot.phase = "up"
        BY <1>0, <1>3 DEF ArchiveStep, BeginArchive, ArchiveReads, ObserveRun,
            ObservationFails, ArchiveCommits, ArchiveRetries, Up
    <2>. QED
        BY <1>3, <2>1, ArchiveFrame
<1>4. ASSUME NEW c \in Callers, TaskStep(c)
      PROVE  BootAlone'
    <2>1. boot.phase = "up"
        BY <1>0, <1>4 DEF TaskStep, BeginCreate, BeginRestore, Migrate, Publish,
            ApplyFails, Activate, ActivateFails, RemoveCreated, Up
    <2>. QED
        BY <1>4, <2>1, TaskFrame
<1>5. CASE Boot
    <2>1. ASSUME NEW p \in Projects, BootRemove(p)
          PROVE  BootAlone'
        BY <1>0, <2>1 DEF BootRemove, Delete, calls
    <2>2. ASSUME NEW p \in Projects, BootMigrate(p)
          PROVE  BootAlone'
        BY <1>0, <2>2 DEF BootMigrate, calls
    <2>3. CASE BootRemovalDone \/ BootDone
        BY <1>0, <2>3 DEF BootRemovalDone, BootDone, rows, calls
    <2>. QED
        BY <1>5, <2>1, <2>2, <2>3 DEF Boot
<1>6. ASSUME NEW r \in Runs, AdmissionSettles(r) \/ RunEnds(r)
      PROVE  BootAlone'
    BY <1>0, <1>6, ManagerFrame DEF rows, calls
<1>7. CASE Crash
    BY <1>7 DEF Crash, IdleStarter, IdleArchiver, IdleTask, InCreation
<1>. QED
    BY <1>1, <1>2, <1>3, <1>4, <1>5, <1>6, <1>7 DEF Next

\* The calls that create or restore: of TasksApart, the part of one call.
Apart(c) ==
    \A d \in Callers :
        /\ tasks[c].pc # "idle" /\ tasks[c].kind = "create"
        /\ tasks[d].pc # "idle" /\ tasks[d].kind = "create"
        /\ tasks[c].project = tasks[d].project
        => c = d

\* What one call does leaves the projects of the others as they need them.
LEMMA TaskStepFits ==
    ASSUME TypeOK, Inv, NEW d \in Callers, NEW c \in Callers, TaskStep(d)
    PROVE  TaskFits(c)' /\ Apart(c)'
<1>. USE DEF TypeOK, TaskFits, Apart, Task
<1>0. /\ TaskFits(c) /\ TaskFits(d) /\ Apart(c) /\ Apart(d)
      /\ \A e \in Callers : TaskFits(e)
    BY DEF Inv, TasksApart
<1>1. ASSUME NEW p \in Projects, BeginCreate(d, p)
      PROVE  TaskFits(c)' /\ Apart(c)'
    BY <1>0, <1>1 DEF BeginCreate
<1>2. ASSUME NEW p \in Projects, BeginRestore(d, p)
      PROVE  TaskFits(c)' /\ Apart(c)'
    BY <1>0, <1>2 DEF BeginRestore, rows
<1>3. CASE Migrate(d)
    <2>. DEFINE p  == tasks[d].project
                pc == IF NeedsMigration(p) THEN "publish" ELSE AfterNoChange(d)
    <2>1. /\ tasks' = [tasks EXCEPT ![d].pc = pc] /\ status' = status
          /\ content' = IF NeedsMigration(p)
                        THEN [content EXCEPT ![p] = "draft"] ELSE content
          /\ tasks[d].pc = "migrate"
        BY <1>3 DEF Migrate, AdvanceTask
    <2>2. \/ NeedsMigration(p) /\ pc = "publish"
          \/ /\ ~NeedsMigration(p)
             /\ \/ tasks[d].kind = "create" /\ pc = "remove"
                \/ tasks[d].kind # "create" /\ pc = "activate"
        BY DEF AfterNoChange
    <2>3. ~NeedsMigration(p) => content[p] \in {"draft", "published"}
        BY <1>0, <2>1 DEF NeedsMigration, ContentState
    <2>. HIDE DEF pc
    <2>. QED
        BY <1>0, <2>1, <2>2, <2>3
<1>4. CASE Publish(d)
    BY <1>0, <1>4 DEF Publish, AdvanceTask
<1>5. CASE ApplyFails(d)
    <2>1. status' = status /\ content' = content
        BY <1>5 DEF ApplyFails, rows
    <2>2. CASE tasks[d].kind = "create"
        <3>1. tasks' = [tasks EXCEPT ![d].pc = "remove"]
            BY <1>5, <2>2 DEF ApplyFails, AdvanceTask
        <3>2. tasks[d].pc # "idle"
            BY <1>5 DEF ApplyFails
        <3>. QED
            BY <1>0, <2>1, <2>2, <3>1, <3>2
    <2>3. CASE tasks[d].kind # "create"
        <3>1. tasks' = [tasks EXCEPT ![d] = IdleTask]
            BY <1>5, <2>3 DEF ApplyFails, EndTask
        <3>. QED
            BY <1>0, <2>1, <3>1 DEF IdleTask
    <2>. QED
        BY <2>2, <2>3
<1>6. CASE Activate(d)
    BY <1>0, <1>6 DEF Activate, EndTask, IdleTask
<1>7. CASE ActivateFails(d)
    BY <1>0, <1>7 DEF ActivateFails, EndTask, IdleTask, rows
<1>8. CASE RemoveCreated(d)
    BY <1>0, <1>8 DEF RemoveCreated, Delete, EndTask, IdleTask
<1>. QED
    BY <1>1, <1>2, <1>3, <1>4, <1>5, <1>6, <1>7, <1>8 DEF TaskStep

LEMMA TasksStep ==
    ASSUME TypeOK, Inv, [Next]_vars, NEW c \in Callers
    PROVE  TaskFits(c)' /\ Apart(c)'
<1>0. TaskFits(c) /\ Apart(c)
    BY DEF Inv, TasksApart, Apart
<1>. USE DEF TaskFits, Apart
<1>1. CASE UNCHANGED <<status, content, tasks>>
    BY <1>0, <1>1
<1>2. CASE UNCHANGED vars
    BY <1>1, <1>2 DEF vars, rows, calls
<1>3. ASSUME NEW r \in Runs, StartRunStep(r)
      PROVE  TaskFits(c)' /\ Apart(c)'
    BY <1>1, <1>3, StartRunFrame
<1>4. ASSUME NEW a \in Archivers, ArchiveStep(a)
      PROVE  TaskFits(c)' /\ Apart(c)'
    <2>1. CASE ArchiveCommits(a)
        <3>1. /\ SeesRuns(a)
              /\ archivers[a].pc = "observe" /\ ~archivers[a].doomed
              /\ status' = [status EXCEPT ![archivers[a].project] = "ARCHIVED"]
              /\ UNCHANGED <<content, tasks>>
            BY <2>1 DEF ArchiveCommits, Inv
        <3>2. status[archivers[a].project] = "ACTIVE"
            BY <3>1 DEF SeesRuns
        <3>. QED
            BY <1>0, <3>1, <3>2 DEF TypeOK
    <2>2. CASE status' = status
        BY <1>1, <1>4, <2>2, ArchiveFrame
    <2>. QED
        BY <1>4, <2>1, <2>2
        DEF ArchiveStep, BeginArchive, ArchiveReads, ObserveRun,
            ObservationFails, ArchiveRetries, rows
<1>5. CASE Boot
    <2>1. tasks[c].pc = "idle"
        BY <1>5 DEF Inv, BootAlone, Boot, BootRemove, BootMigrate,
            BootRemovalDone, BootDone
    <2>. QED
        BY <1>5, <2>1, BootFrame
<1>6. ASSUME NEW r \in Runs, AdmissionSettles(r) \/ RunEnds(r)
      PROVE  TaskFits(c)' /\ Apart(c)'
    BY <1>1, <1>6, ManagerFrame DEF rows, calls
<1>7. CASE Crash
    BY <1>7 DEF Crash, IdleTask
<1>. QED
    BY <1>2, <1>3, <1>4, <1>5, <1>6, <1>7, TaskStepFits DEF Next

-----------------------------------------------------------------------------
(* Archived projects.                                                      *)

\* Of ArchivedProjectIsFinished, the part of one run.
Finished(r) ==
    reservations[r] # NoProject =>
        \/ status[reservations[r]] = "ACTIVE"
        \/ status[reservations[r]] = "ARCHIVED" /\ runs[r] = "terminal"

LEMMA FinishedStep ==
    ASSUME TypeOK, Inv, [Next]_vars, NEW s \in Runs
    PROVE  Finished(s)'
<1>. USE DEF TypeOK, Finished
<1>0. Finished(s) /\ Starting(s)
    BY DEF Inv, ArchivedProjectIsFinished
<1>1. CASE UNCHANGED vars
    BY <1>0, <1>1 DEF vars, rows, calls
<1>2. ASSUME NEW r \in Runs, StartRunStep(r)
      PROVE  Finished(s)'
    <2>0. status' = status /\ Starting(r) /\ SeesActive(r)
        BY <1>2, StartRunFrame DEF Inv
    <2>1. CASE ReserveCommits(r)
        <3>1. /\ status[starters[r].project] = "ACTIVE" /\ runs' = runs
              /\ reservations' = [reservations EXCEPT ![r] =
                                    starters[r].project]
            BY <2>0, <2>1 DEF ReserveCommits, SeesActive
        <3>. QED
            BY <1>0, <2>0, <3>1
    <2>2. CASE CreateRun(r)
        BY <1>0, <2>0, <2>2 DEF CreateRun, Starting, rows
    <2>3. CASE CreateRunFails(r)
        BY <1>0, <2>0, <2>3 DEF CreateRunFails, Starting, rows
    <2>4. CASE ReleaseReservation(r)
        BY <1>0, <2>0, <2>4 DEF ReleaseReservation
    <2>5. CASE UNCHANGED <<reservations, runs>>
        BY <1>0, <2>0, <2>5
    <2>. QED
        BY <1>2, <2>1, <2>2, <2>3, <2>4, <2>5
        DEF StartRunStep, StartRun, ReserveReads, ReserveRetries,
            CreateRunRejected, rows
<1>3. ASSUME NEW a \in Archivers, ArchiveStep(a)
      PROVE  Finished(s)'
    <2>0. UNCHANGED <<reservations, runs>>
        BY <1>3, ArchiveFrame
    <2>1. CASE ArchiveCommits(a)
        <3>1. /\ SeesRuns(a)
              /\ archivers[a].pc = "observe" /\ ~archivers[a].doomed
              /\ archivers[a].unread = {}
              /\ status' = [status EXCEPT ![archivers[a].project] = "ARCHIVED"]
            BY <2>1 DEF ArchiveCommits, Inv
        <3>2. reservations[s] = archivers[a].project => runs[s] = "terminal"
            BY <3>1 DEF SeesRuns
        <3>. QED
            BY <1>0, <2>0, <3>1, <3>2
    <2>2. CASE status' = status
        BY <1>0, <2>0, <2>2
    <2>. QED
        BY <1>3, <2>1, <2>2
        DEF ArchiveStep, BeginArchive, ArchiveReads, ObserveRun,
            ObservationFails, ArchiveRetries, rows
<1>4. ASSUME NEW c \in Callers, TaskStep(c)
      PROVE  Finished(s)'
    BY <1>0, <1>4, TaskFrame, StatusKept
<1>5. CASE Boot
    BY <1>0, <1>5, BootFrame, StatusKept
<1>6. ASSUME NEW r \in Runs, AdmissionSettles(r) \/ RunEnds(r)
      PROVE  Finished(s)'
    BY <1>0, <1>6 DEF AdmissionSettles, RunEnds, rows, calls
<1>7. CASE Crash
    BY <1>0, <1>7 DEF Crash, Starting
<1>. QED
    BY <1>1, <1>2, <1>3, <1>4, <1>5, <1>6, <1>7 DEF Next

LEMMA InvCorrect == Spec => [](TypeOK /\ Inv)
<1>1. Init => Inv
    BY DEF Init, Inv, Starting, SeesActive, SeesRuns, TaskFits, TasksApart,
           BootAlone, ArchivedProjectIsFinished, IdleStarter, IdleArchiver,
           IdleTask
<1>2. TypeOK /\ Inv /\ [Next]_vars => Inv'
    <2>1. ASSUME TypeOK, Inv, [Next]_vars
          PROVE  /\ \A c \in Callers : TaskFits(c)'
                 /\ TasksApart'
        BY <2>1, TasksStep DEF TasksApart, Apart
    <2>2. ASSUME TypeOK, Inv, [Next]_vars
          PROVE  ArchivedProjectIsFinished'
        BY <2>2, FinishedStep DEF ArchivedProjectIsFinished, Finished
    <2>. QED
        BY <2>1, <2>2, StartingStep, SeesActiveStep, SeesRunsStep,
           BootAloneStep DEF Inv
<1>. QED
    BY <1>1, <1>2, TypeCorrect, PTL DEF Spec

\* In whatever order starts, archives, restorations, retries, crashes and
\* ambiguous admissions come: a run that the run manager has, or may have, or
\* is asked for, has an owner.
THEOREM RunsAreOwned == Spec => []LiveRunIsOwned
<1>1. Inv => LiveRunIsOwned
    BY DEF Inv, Starting, LiveRunIsOwned
<1>. QED
    BY <1>1, InvCorrect, PTL

\* However many starts and archives of a project are tried at the same time:
\* the runs of an archived project are over, and none comes later.
THEOREM ArchivedIsFinished == Spec => []ArchivedProjectIsFinished
<1>1. Inv => ArchivedProjectIsFinished
    BY DEF Inv
<1>. QED
    BY <1>1, InvCorrect, PTL

\* A project becomes ACTIVE only with the current content model in its draft,
\* also when others of its calls fail, or are removing what they made.
THEOREM ActivatedMigrated == Spec => ActivatedWithCurrentModel
<1>1. ASSUME TypeOK, Inv, [Next]_vars, NEW p \in Projects,
             status[p] # "ACTIVE", status'[p] = "ACTIVE"
      PROVE  content[p] \in {"draft", "published"}
    <2>. USE DEF TypeOK
    <2>1. ASSUME NEW c \in Callers, Activate(c)
          PROVE  content[p] \in {"draft", "published"}
        <3>1. TaskFits(c) /\ tasks[c].pc = "activate"
            BY <1>1, <2>1 DEF Inv, Activate
        <3>2. status' = status
                \/ status' = [status EXCEPT ![tasks[c].project] = "ACTIVE"]
            BY <2>1 DEF Activate
        <3>3. tasks[c].project = p
            BY <1>1, <3>2
        <3>. QED
            BY <3>1, <3>3 DEF TaskFits
    <2>2. ASSUME NEW c \in Callers, TaskStep(c), ~Activate(c)
          PROVE  FALSE
        BY <1>1, <2>2
        DEF TaskStep, BeginCreate, BeginRestore, Migrate, Publish, ApplyFails,
            ActivateFails, RemoveCreated, Delete, rows
    <2>3. ASSUME NEW a \in Archivers, ArchiveStep(a)
          PROVE  FALSE
        BY <1>1, <2>3
        DEF ArchiveStep, BeginArchive, ArchiveReads, ObserveRun,
            ObservationFails, ArchiveCommits, ArchiveRetries, rows
    <2>4. ASSUME Boot
          PROVE  FALSE
        BY <1>1, <2>4
        DEF Boot, BootRemove, Delete, BootMigrate, BootRemovalDone, BootDone,
            rows
    <2>5. ASSUME NEW r \in Runs,
                 StartRunStep(r) \/ AdmissionSettles(r) \/ RunEnds(r)
          PROVE  FALSE
        BY <1>1, <2>5, StartRunFrame, ManagerFrame DEF rows
    <2>6. ~Crash /\ ~UNCHANGED vars
        BY <1>1 DEF Crash, vars, rows
    <2>. QED
        BY <1>1, <2>1, <2>2, <2>3, <2>4, <2>5, <2>6 DEF Next
<1>2. TypeOK /\ Inv /\ [Next]_vars =>
        [\A p \in Projects : status[p] # "ACTIVE" /\ status'[p] = "ACTIVE"
            => content[p] \in {"draft", "published"}]_vars
    BY <1>1
<1>. QED
    BY <1>2, InvCorrect, PTL DEF Spec, ActivatedWithCurrentModel
=============================================================================
