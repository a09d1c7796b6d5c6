# Verification of revo-core

TLA+ models of the core of revo-core (a NestJS service that keeps *dialogues* with
coding agents and *runs* of agent pipelines in PostgreSQL), TLC configurations that
check them, and TLAPS proofs. Paths below are relative to the repository; `mgmt/` is
`src/features/dialogues/management/`, `ing/` is `src/features/dialogues/ingestion/`.

    tlc -workers 2 -config MCTurns.cfg MCDialogueLifecycle.tla
    tlapm DialogueLifecycleProofs.tla

`tlapm` takes each module whose name ends in `Proofs`.

## Inventory

| Component | State | Operations | What is hard | What makes it correct |
|---|---|---|---|---|
| Dialogue management `mgmt/` | dialogue, turn and interaction rows; in memory: one dispatcher task per turn, calls of the runtime | create, fork, send, dispatch, cancel, respond, reopen, mark read, reconcile at start-up | reads and runtime calls *between* transactions; crash after commit; cancel against dispatch | one open turn; verdicts final; a cancel is never lost; nothing is run twice; restart leaves nothing open |
| Dialogue ingestion `ing/` | the same rows; history items; event streams | one handler per runtime event, each a transaction that journals the event first; interruption of a turn | events after Core has settled the turn, of a session no longer bound, duplicated or conflicting | ignored unless for the bound session and active turn; append-only journal |
| Dialogue infrastructure `src/infrastructure/dialogue/` | global change feed, advisory writer lock | lock, append a change, abandon interactions, read pages and streams | commit order against sequence order | readers miss no change; delta bases match |
| Database `src/infrastructure/database/` | running transaction in async-local storage | run in read committed, repeatable read, serializable | nesting, bounded retry | one transaction per operation; effects once |
| Agent runtime `src/infrastructure/agent-runtime/` | started and stopped once; directories | sink of events, lifecycle, fault mapping | stop against running sessions | cleanup only after stop |
| Run runtime `src/infrastructure/run-runtime/` | allocated directories, cleanups, pending and active attempts | create run, quiesce, attempt port | shutdown against allocation; failed and ambiguous admission | no directory leaked or removed under a run |
| Runs and projects `src/features/run/`, `src/features/project/` | project status, reservations of runs | start run, archive, restore, delete | archive against reserve; crash between reservation and start | no run in an archived project |
| Core runtime `src/runtime/` | prepared, initialised, listening, closing; process-wide owner | prepare, initialize, listen, close | close during each of the others | closed means nothing is left; one owner |
| Agent configurations `src/features/agent-definitions/configurations/` | latest snapshot, watchers | begin, publish, watch, close | update, return and close against a pending next | a watcher sees the latest state or ends |
| Subscriptions `src/api/graphql/subscriptions/` | open streams | open, abort, stop | stop against open | all streams end |
| Other: playbook catalog, review, workspaces, file system, bootstrap, pagination, API surface, errors, config | rows or nothing | one transaction or one external call each | little | mostly data transformation |

Interaction: the API sends a command to management, which commits and publishes an
in-memory event; the dispatcher calls the agent runtime (`@revisium/revo-agent-runtime`,
in process); the runtime reports by events to the sink in `agent-session-event-journal.ts`,
which calls ingestion; every write of a dialogue appends to the change feed that
subscriptions read. Runs call projects (reservation) and the run runtime.

## Plan

In the order of importance; what has been written:

1. `TurnLedger` (what a client is promised of a turn), `DialogueLifecycle` (rows,
   dispatcher, callers, runtime, crash), proofs in `DialogueLifecycleProofs` (types),
   `DialogueLedgerProofs` (rows, refinement) and `DialogueDispatchProofs` (tasks,
   questions, counts, restart).
2. `EventLog` (an append-only log per session), `EventJournal` (receipts, writers, lost and
   repeated calls, readers), proofs in `EventJournalProofs`.
3. `DialogueHistory`: items, the change feed, forks, read marks, clients; proofs in
   `DialogueHistoryProofs`.
4. `ProjectOwnership`: reservations, admission, archive, create, restore, start-up,
   retries; proofs in `ProjectOwnershipProofs`.
5. `RunHost`: working directories, the attempt port, shutdown; proofs in `RunHostProofs`.
6. `CoreRuntime`: runtimes of a process; proofs in `CoreRuntimeProofs`.

How they compose: `DialogueLifecycle` implements `TurnLedger`, `EventJournal` implements
`EventLog`. `DialogueLifecycle` takes from `EventJournal` that an event is projected once
and in order (`ProjectedOnceInOrder`), and `DialogueHistory` takes the life of a turn from
`DialogueLifecycle`. `CoreRuntime` uses `quiesce` of `RunHost` as one step that succeeds
or fails, and `ProjectOwnership` uses the run manager's admission as `RunHost` does.

Every safety property that a passing run checks is proved. Left: models of the prompt made from
earlier messages, of the agent-configuration cache, and of offset pagination; and a proof that
`DialogueHistory`'s view of a turn is one that `DialogueLifecycle` allows.

## DialogueLifecycle

One dialogue. Other dialogues share with it only the writer lock and the feed.

**State.** `dialogue`, `turns`, `interactions` are the rows of
`prisma/schema.prisma` without the columns that no control depends on (titles,
payloads, versions; a turn's `runtimeSessionId`, which nothing reads). `dispatcher[t]`
is the task `dispatch()` of `mgmt/runtime/dispatch-dialogue-turn.handler.ts`, its
program counter and the session it holds in a local variable. `canceller[t]` and
`responder[r]` are calls of cancel and respond between their transaction and their
runtime call, with what the transaction returned. `sessions`, `runtimeTurns` are the
runtime. `phase`, `crashes` are the process.

**Atomicity.** Every transaction that writes takes `lockWriter()`, one advisory lock for
all dialogues, first; so a transaction is one action. The reads outside a transaction
(`getDialogue`, `isCancellationRequested`) and the calls of the runtime are actions of
their own.

| Action | Code |
|---|---|
| `Send` | `send-dialogue-message.handler.ts` execute, admitMessage, ensureReady |
| `BeginDispatch`, `ReadBinding`, `BindNewRuntime`, `BindExistingRuntime`, `OpenResolves`, `CancelBeforeAdmission`, `SendToRuntime`, `ReadCancelFlag`, `CancelFromDispatcher`, `ResultResolves`, `ResultRejects` | the statements of `dispatch()` in order |
| `DispatchFails`, `PersistDispatchFailure`, `PersistFailureLost` | the catch of `handle()`, `persistDispatchFailure` and its own catch |
| `CancelTurn`, `CancelRuntimeTurn` | `cancel-dialogue-turn.handler.ts`, transaction and runtime call |
| `Respond`, `ResponseDelivered`, `ResponseFails`, `ResponseDeliveryFailed` | `respond-dialogue.handler.ts`, transaction, runtime call, failure transaction |
| `Reopen`, `Reconcile` | `reopen-dialogue.handler.ts`, `reconcile-dialogue-runtime-state.handler.ts` |
| `TurnStarted`, `TurnCompleted`, `InteractionRequested`, `InteractionResolved`, `SessionClosed` | the five `ing/commands/handlers` that change these rows |
| `InterruptTurn` (part of several) | `interrupt-dialogue-turn.handler.ts` |
| `SessionVanishes`, `Crash` | the environment |

**Assumptions about what is external.** The runtime appends its events in order and
waits for the journal, so an event and its handler are one action (duplicates and
conflicts belong to `EventJournal`). It takes a turn only in a session that is open and
reports events only of sessions that live. A turn's interaction is requested only
after the turn has started; an interaction of the session may be requested while the
session is still opening. `session.respond` and a turn's result may fail at any time. A session may
disappear without an event. A transaction of a user's call that fails has no effect, so
it is not an action; a step of the dispatcher may throw. Sending or answering again
with the same command id changes nothing. No operation sets the status CLOSED.

**Init** is a dialogue as created (a fork differs in its history only). `ActiveTurn...`
and the rest hold from there.

## EventJournal

**State.** `events`, `streams` are the rows of session events and streams, `projected` the
events whose projection is done (it is in the same transaction). `calls` are the appends
made so far: a call stays there for ever, since its answer may be lost, its caller may
give up while the call still runs, and it may be repeated. `writers` are runtime processes (external),
`readers` are subscriptions to a session's events.

| Action | Code |
|---|---|
| `BindRuntime` | creation of an empty stream when a dialogue is bound |
| `AppendEvent`: `AcceptDuplicate`, `Store`, `Refuse` | `ing/persistence/agent-session-event-receipt.ts` with its preconditions `Matches`, `ResumeMatches`, called by the sink |
| `CallSink`, `Begin`, `Resume`, `Emit`, `Answer`, `LoseAnswer`, `GiveUp` | external: a writer, from the preconditions it may send |
| `Subscribe`, `Fetch`, `Deliver`, `CheckHead`, `Return` | `dialogue-event-reader.ts`, `events` |

An append takes the writer lock first, so it is one action; what a reader does between
two reads is not. `EventLog` has the three things a log may do: open, continue, be taken
over with a token that nobody has spent. The refinement maps a stream to the sequence of its events.

## DialogueHistory

**State.** `dialogues`, `turns`, `items` are rows with the columns that sequence, version
and status depend on; the version of an item stands for its text and payload. QUEUED,
RUNNING and WAITING are BUSY (`DialogueLifecycle` tells them apart). `feed` is the
change feed; `significance` remembers what each value of `significantSequence` was about.
`clients` page through the history, then subscribe.

| Action | Code |
|---|---|
| `Create`, `Send`, `BindSession`, `Respond`, `MarkRead`, `Fork`, `Reopen` | the command handlers of `mgmt/` |
| `Progress`, `AppendText`, `CompleteMessage`, `RecordActivity`, `Request`, `Resolve` | the event handlers of `ing/` |
| `CompleteTurn`, `InterruptTurn`, `CloseActive`, `CloseIdle`, `FailResponse` | the ways in which a turn, a session or a response ends |
| `ListHistory` | a page, in one transaction, with the snapshot context of the first page |
| `FetchRows`, `LoadItems`, `Deliver` | `DialogueEventReader.changes`: rows of the feed, then the items they name as they are by then |
| `Reconnect` | `return()`, or a lost connection; the client subscribes behind the last change it has got |

Every handler takes the advisory lock, so the order of commit is the order of the feed and
a handler is one action. `BindSession` is stricter than `bindRuntime`, which does not look whether its turn is still
the active one (finding 1): a session bound by a dispatcher that outlived its turn, and what happens in it, is
`DialogueLifecycle`'s subject. The properties do not lean on it: every way to READY abandons whatever is unfinished,
of whichever session. How a client applies a change is external. What a client has read ahead is
a set of rows, gone through by row number, since the feed's numbers are its order.

## ProjectOwnership

**State.** `status`, `content`, `reservations` are rows and the content store (whose draft
and published state differ); `runs` is what the run manager has (external); `starters`, `archivers`,
`tasks` are calls of StartRun, archive, create and restore; `boot` is start-up.

| Action | Code |
|---|---|
| `StartRun`, `ReserveReads`, `ReserveCommits`, `ReserveRetries`, `CreateRun`, `CreateRunRejected`, `CreateRunFails`, `ReleaseReservation` | `start-run` handler and the reservation; an admission whose outcome is unknown keeps it |
| `BeginArchive`, `ArchiveReads`, `ObserveRun`, `ObservationFails`, `ArchiveCommits`, `ArchiveRetries` | archive, which observes each run in the middle of its transaction |
| `BeginCreate`, `BeginRestore`, `Migrate`, `Publish`, `ApplyFails`, `Activate`, `ActivateFails`, `RemoveCreated`, `Delete` | creation, restoring and removal of a project |
| `Crash`, `BootRemove`, `BootRemovalDone`, `BootMigrate`, `BootDone` | the process and `onApplicationBootstrap` |
| `AdmissionSettles`, `RunEnds` | the run manager |

A serializable transaction has two ends, a snapshot and a commit. One that commits
*dooms* those that have read what it changes (`DoomArchives`); a doomed transaction is tried
again, `MaxAttempts` times in all, as `TransactionPrismaService` does.

## RunHost

**State.** `calls`, `waiters` are `createRun` and `cleanupAfterTerminal` of each run, `host`
and `tracked` the two sets of allocated run ids, `intact` the directories nobody has begun
to remove; `starts`, `pending`, `owners`, `leases` the attempt port; `quiesce`,
`outputs` the shutdown. `runs`, `agents`, `told` are the run manager and the agent runtime
(external). An action is what runs between two awaits.

| Action | Code |
|---|---|
| `BeginCreate`, `Allocated`, `AllocationFails`, `Admitted`, `AdmissionFails`, `AdmissionUndone`, `TerminalSeen`, `WaitEnds`, `RemovedAfterTerminal` | `RunWorkingDirectoryCoordinator` with `TemporaryRunDirectoryHost` |
| `Refused`, `StartAttempt`, `Leased`, `LeasingFails`, `StartAccepted`, `StartRejected`, `StartUndone` | `start` of the attempt port |
| `ResultArrives`, `LeaseSettles`, `ResultReturned` | `result` and `cancel` of the handle, which wait for the disposal of the leases |
| `Lookup`, `GetResult`, `CancelAnswers` | `getResult` and `cancel` of the port, which do not wait |
| `BeginShutdown`, `RuntimeStops`, `ManagerStops`, `CleanupsOver`, `RemovedForShutdown`, `DirectoriesGone`, `StartsSettled`, `OwnersGone` | `RevoRunService.quiesce` |

`told[i]` is what the run manager was told first of the end of attempt `i`: that it did not start, its result or the error
of the disposal (handle, `getResult`), or, by the port's `cancel`, that it had already completed. A run ends once the
manager has been told of all its attempts. `cancel` passes the result on without a look at the owner of the
credentials, so `NoLeaseOutlivesItsRun` excepts the attempts of whose end it told first; that their leases are
released all the same is `LeasesAreReleased`, and what the tests say of it is finding 4. The cleanup that ends a
shutdown (`AgentRuntimeLifecycle.cleanup`) may fail and then may or may not have removed the output directories.

Every run has a temporary directory and every attempt one lease. The repository's own host
offers no credentials, so its leases are empty; the port is modelled for any host.
`ExecutesInItsDirectory` leaves out a run that the manager has admitted although its `createRun` threw:
the coordinator then removes the directory of a run it takes for not admitted.

## CoreRuntime

**State.** `creations`, `previous`, `environment` serialize the creation of applications, which share the
variable DATABASE_URL; `preparations`, `inits`, `listens`, `closes` are the promises of
each runtime, `owner` is the process-wide initialized runtime; `apps`, `servers` are Nest (external).

| Action | Code |
|---|---|
| `AskToCreate`, `BeginCreation`, `Created` | `createRevoCoreRuntime` |
| `PrepareDatabase`, `AbortPreparation`, `MigrationsApplied`, `PreparationFails` | `prepareDatabase` and its abort |
| `Initialize`, `Bootstrap`, `Booted`, `BootFails` | `initialize` |
| `Listen`, `Bind`, `Bound` | `listen` |
| `Close`, `TransitionsSettled`, `Quiesced`, `AppClosed`, `ServerClosed` | `close`, which waits for the promises on their way |

A promise is stored in the step that begins its call. The code reports the first stage of a call to the caller's `onStage`
before it stores the promise (`revo-core-runtime.ts:77-88`, 223-226); a `close` or a second `prepareDatabase` made from
inside that callback would not find it and is not modelled. `close` of the HTTP server does not reject under the Express adapter,
so `ServerClosed` has no failing branch.

## Runs

| Run | Instance | Question |
|---|---|---|
| `turns` | 2 turns behind a completed one, 3 sessions, no interaction, outcome completed, 1 crash; fairness, ids in order; 222 thousand states | Is one turn open at a time, is every saved turn handled and nothing sent twice, is a cancel neither lost nor overtaken, also next to a dispatcher that outlived its turn? |
| `interactions` | 1 turn, 2 sessions, 2 interactions, all five outcomes, 1 crash; symmetry; 106 thousand states | Do statuses and pendingCount agree with the interactions; is a verdict final (refinement of `TurnLedger`); does a restart leave nothing open? |
| `journal` | 1 session, 2 writers, 4 event ids, 1 token, 1 reader, batches of 2, at most 4 different calls; 172 thousand states | Is there one chain per session, projected once, whatever is lost or repeated? Does a reader get all of it? Is it an `EventLog`? |
| `ownership` | 1 project, 2 runs, 2 archives, 2 creations or restorations, 2 attempts, 1 crash; 984 thousand states | Does a live run always have a project, and an archived project no live run? Is an active project migrated? |
| `history` | a dialogue and its fork, 2 turns, 2 interactions, no client; symmetry; 680 thousand states | Are items numbered without gaps, is everything finished by every kind of ending, does a fork keep its prefix? |
| `feed` | 1 dialogue, 1 turn, 1 interaction, 1 client, pages of 1, batches of 2; 515 thousand states | Does a client that pages and then subscribes end with what is there? |
| `host` | 2 runs, 1 attempt; 236 thousand states | Does an agent keep its directory, does a lease end with its run, does shutdown release everything? |
| `core` | 2 runtimes; 56 thousand states | Is there one live runtime, does close end everything, and does it settle? |
| `stale_dispatch` | 3 turns, 3 sessions, no interaction; symmetry | finding 1 |
| `late_delivery_failure` | 1 turn, 1 session, 1 interaction | finding 2 |
| `start_over_pending` | 1 turn, 1 session, 1 interaction | finding 3 |
| `result_before_cleanup` | 1 run, 1 attempt | finding 4 |

*Bounds of the lifecycle.* Two interactions are enough for "the other one is still open", and one crash because a
crash erases all of the process's memory, so a second one meets no state that the first could not. The hardest case
of the dispatch is a dispatcher that outlived its turn beside a newer one: it takes a dialogue bound to a session, a first
turn whose dispatcher reads that binding too late, and two sessions more, its own and that of the second turn.
`turns` therefore starts where a completed turn has left the dialogue, READY with its session bound and open
(`BoundInit` in `MCDialogueLifecycle`; the row of that turn is not among `Turns`, nobody reads it again), which makes three turns and
three sessions of it. Liveness is checked there, so instead of symmetry the ids, which nothing but equality
tells apart, are used in order (`InOrder`). Interactions beside that are the subject of `interactions`,
and of the proofs, which have no bounds. Sessions are drawn fresh
(`randomUUID`); when an instance has none left the dispatcher stays at `bindNew` unless it fails, which
is a bound and not a behaviour of the code. These runs check deadlock: since sessions may vanish,
users may cancel and reopen, no instance stops.

*Bounds of the other runs.* `journal`: four calls are a beginning, an event, a hibernation and two
processes that resume; ids are numbers drawn in order (`IdsInOrder` in
`MCEventJournal`), since nothing but equality tells them apart, and only the first is ever drawn again, by
which one collision happens. `MaxSequence`, `MaxCalls` bound it. `history`: `MaxVersion` 2 gives every item a change after its
creation, `MaxItems` 6 a turn with an item of every kind, or a fork that goes on with a turn of its own. Without
clients nothing reads the feed and `significance`, so states that differ in
these only count as one (`VIEW Tables`; `MaxFeed` is then too large to matter). `feed`: nine
changes are a whole turn behind a page; pages of one item and batches of two rows are the
smallest that make a client stop in the middle. `ownership`: `MaxAttempts` 2, for three in
the code, has a first, a repeated and an exhausted attempt. `host` has been explored with two
attempts as well (before the port's `cancel` was modelled: 2.7 million states, no error), which takes longer than a
run should; one attempt against two runs has every action. Symmetry is used only where no liveness is checked.

*Deadlock* is checked in the lifecycle's runs and `ownership`. The other systems may really
stop: all calls have been made (`journal`, `history`, `feed`), the host is shut down, the
runtimes are closed.

*Properties of the lifecycle worth a word.* `NoLostCancel` relates five steps of two tasks: whichever of
dispatcher and canceller is second must see the other's write. It is restricted to the
bound session because a stale dispatcher (finding 1) may have overwritten the binding
of a newer turn, and then a cancel goes to the wrong session; `CancelledByUserIsNotHandedOver` for the same
reason. `CancelTakesEffect` excepts only cancellations requested once a turn is `Displaced`: with the runtime, its dispatcher
past the last look at the flag, another session bound over its own. Of any other moment it promises the effect even
if the turn is displaced later. `PendingCountExact` excludes UNCERTAIN: a failed response with no active turn zeroes the count and
leaves other interactions pending until the dialogue is reopened. If a dispatcher that outlived its turn then
binds a new session, a count that starts again there misses the ones left behind, so it is a lower bound, and
exact while everything outstanding is of the bound session. `NoBlindResend` is what makes it right that a
restart ends an open turn as UNCERTAIN and does not send it again.

*Fairness.* `DialogueLifecycle`: weak fairness of `Dispatch(t)`, `CancelRuntimeTurn(t)` and `Reconcile` only:
Node's event loop runs a continuation that is ready, and reconciliation runs on
application bootstrap. `Dispatch` includes its failures, so it promises that the task
goes on, not that it succeeds. A pending `open` may fail instead of resolving: weak
fairness excludes an `open` that never settles, which the runtime's start timeout does
too. Users and the runtime are not fair. `SavedTurnIsHandled` and `CancelTakesEffect` except a
dispatcher whose failure could not even be persisted (`dispatch-dialogue-turn.handler.ts:250`
logs it): such a turn stays open until the next restart.

`EventJournal`: a reader whose consumer keeps calling `next` goes on (weak fairness of `Reads(r)`);
writers are not fair. `ProjectOwnership`: weak fairness of `Boot`, since `onApplicationBootstrap` runs to its
end; its removals and migrations may fail one by one, the lists of projects may not.
`RunHost`: weak fairness of `Continue`, that is, every promise awaited settles, well or not;
callers, the shutdown's beginning and agents are not fair. `CoreRuntime`: weak fairness of what a
runtime does by itself; migrations may hang for ever unless they are aborted, which is why
`close` has to abort them for `CloseSettles`.

## Findings

1. `stale_dispatch`: a session closes between `beginDispatch` and the read of the binding, so a dispatcher
   goes on with a settled turn; nothing in `bindRuntime` looks at that, and it binds a new session over the
   one that the dispatcher of a newer turn has bound. That dispatcher is past `cancelBeforeAdmission` when the
   user asks to cancel; the stale session closes as cancelled and the newer turn is CANCELLED with it, yet its
   dispatcher sends it, in a session the dialogue no longer knows. A test states that an early
   cancellation does not start the agent. A turn that is displaced in this way while it executes cannot be
   cancelled any more, either: the cancel looks for it in the session bound over its own.
2. `late_delivery_failure`: a session-scoped interaction is answered during a turn; the
   turn ends, then the delivery fails. The failure is attributed to the ended turn and
   ignored; interaction RESPONDING and dialogue WAITING stay so.
3. `start_over_pending`: `turn.started` sets RUNNING over an interaction that the
   session asked for while it was opening.
4. `result_before_cleanup`: an attempt completes and the release of its leases fails. The handle's `result` and `cancel`
   and the port's `getResult` throw that error; the port's `cancel` answers `already_completed` with the result
   (`revo-agent-runtime-port.ts:185`). A test states that no terminal result is published then.

## Proofs

Each theorem holds for every value of the constants that satisfies the ASSUMEs of its
module: different null values, positive sizes of batches, natural bounds, and in
`DialogueLifecycle` a finite set `Requests`. No set of dialogues, turns, clients or runs need be finite
but that. Bounds such as `MaxCrashes` are arbitrary there.

**The dialogue.**

* `TypeCorrect` (`DialogueLifecycleProofs`): `Spec => []TypeOK`. The rows are treated
  first (`StoreTypeOK`, `StoreTypeStep`), since most actions change only rows or only
  tasks; then dispatcher, callers, runtime and process.
* `StoreInvariant` (`DialogueLedgerProofs`): the inductive invariant `StoreInv`.
  `ActiveTurnIsTheUnsettledOne` alone is not inductive: reopening clears the pointer
  without looking at it (so an UNCERTAIN dialogue must have none, `UncertainIsIdle`),
  resolving an interaction writes the status of the interaction's turn (so that turn must be the active
  one, `QuestionsAreOfActiveTurn`), and sending must find an unused row
  (`UnsentTurnsAreUntouched`).
* `TasksInvariant` (`DialogueDispatchProofs`): who is where between two transactions. Session ids in local
  variables have been drawn (`SessionsAreDrawn`), so a fresh session is nobody's; a turn that its task still
  has to send is not with the runtime (`SentOnce`); a cancellation of a turn the runtime has was passed on, or its
  caller holds the session to pass it to (`CancelIsOnItsWay`). `NoLostCancel` alone is not inductive: it says
  nothing of the caller that is on its way. `SendsOnce`, `CancelReaches` and `CancelledStays` follow.
* `AnswersInvariant`: questions come from turns that the runtime has started (`AskedAfterStart`), so the start of
  a turn, which sets RUNNING, never comes upon an open question; hence `WaitsForAnswers`.
* `CountInvariant`: a dialogue given up counts nothing and nothing outstanding is of a session it is bound to since
  (`GivenUpCountsNothing`), and it waits in a bound session only (`WaitsInSession`); hence `PendingCounted`,
  `StatusAgrees` and `RestartSettled`. It needs `Requests` finite, for the cardinalities.
* What the attempts found, beyond the instances checked by then: `PendingCountExact` was false as
  an equality and `CancelledByUserIsNotHandedOver` without its restriction to the bound session, both by the
  dispatcher of finding 1; they now say what holds, and finding 1 says what does not.
* `ActiveTurnCorrect` follows from `StoreInvariant`; `LedgerImplemented` shows that every action, seen through
  `Verdict`, admits a turn, settles the open one, or stutters. Each action's lemma proves
  both facts at once (`StoreStep`).

**EventJournal** (`EventJournalProofs`).

* `OneChain`: the chain alone is not inductive. `Inv` adds that a row is stored under the
  id of its event (`Keyed`), that a call names the writer it continues unless it
  is for a first event (`CallsName`), and the
  heart of it, `ChainHead`: the stream's row names the last event of the session, so what
  passes the precondition is the next link and nothing else.
* `ProjectedOnce`: what is projected is stored, once, in order and without omission; the branch
  for a duplicate stores and projects nothing.
* `NothingMissed`: a reader's start is a position of the chain, its buffer continues
  behind what was delivered, and it ends only behind a closing event. Of the writers it
  uses only that they append (`JournalGrows`).
* `LogImplemented`: every action, seen through the refinement, is a step of `EventLog` or stutters (`StoreRefines`).

**DialogueHistory** (`DialogueHistoryProofs`). `Inv` has three parts.

* The tables (`TableInv`). Every handler is shown to *edit* one dialogue (`Edits`): it renews items, keeping what
  identifies them, and adds at most one behind the others; a fork copies a prefix. From that come the numbers
  (`EditNumbers`), and the rest in one lemma per handler. `NumbersAgree` needs that names lead back to turns (`Named`,
  `ResultsEnd`); `NothingStaysOpen` needs which kinds of items can be unfinished (`Works`), and that a turn is
  OPEN exactly while its dialogue points at it (`RowsAgree`).
* The feed (`FeedInv`). A handler *announces* exactly what it renews or adds (`Announces`): the version an item has is
  told, text is told behind the version it goes on, and no version is told that no item has had.
* The clients (`ClientInv`). `ContextHolds` says what the first page promised: all that the feed up to the snapshot,
  the copies and the observed significance are about is in the pages (`Paged`), and given once its page is read. A
  client that watches has what the rows up to its position tell, and what it has read ahead are the very next rows
  (`Watches`). `ReplicaComplete`, `TextContinues` and `NothingUnseen` follow.
* A client that does nothing is kept by `HistoryGrows` (nothing that was there is lost), so no handler has to be
  compared with a client. Counting rests on `CountOfNumbered` (items numbered from m to n are n - m + 1) and
  `Ranking` (ranks are 1, 2, ..., each of one item).
* `ForkKeepsPrefix` needs that `Copies`, which numbers by rank, gives each copy the sequence of its original
  (`CopiesKeepSequence`), and that nothing but `Fork` makes a fork (`OnlyForks`).

**ProjectOwnership** (`ProjectOwnershipProofs`). `Inv` says what a transaction that is not doomed
has read and what therefore still holds (`SeesActive`, `SeesRuns`): a starter
between its ends sees an active project, an archiver knows every run of its project
as finished. `RunsAreOwned` needs where each starter is (`Starting`); `ArchivedIsFinished`
follows since of two conflicting transactions one is doomed; `ActivatedMigrated` needs that two creations
never have one project and start-up is over before calls begin (`TasksApart`, `BootAlone`) and what each step has left in the content store (`TaskFits`).

**RunHost** (`RunHostProofs`). `LeasesEnd` by `AttemptInv`: with a refusal, a result or an error the manager is told of an
end only after the lease has been released, or is known not to be held (`ToldAfterRelease`), and a run goes on until it has
been told of each attempt (`RunAwaits`). `already_completed` says only that the agent has ended, which is all that
`DirectoriesKept` needs of it. `LeasesEnd` alone is not inductive: it says nothing of attempts of runs that go on.
`DirectoriesKept` by `DirectoryInv`: where each call
stands fixes which directories exist, and shutdown removes them only after both the runtime
and the manager have stopped.

**CoreRuntime** (`CoreRuntimeProofs`). `OneAtATime` and `ClosedForGood` by `Inv`: what is live belongs to the owner (`Owns`), close has
waited for the promises it saw (`Waited`), and behind it they only settle (`PromisesShrink`). `CreatedInTurn` by
`CreationInv`: the creations form one chain in the order they were asked for (`OneChain`), what is over is the front
part of it (`OneFront`), so one at a time is next, and the one being created holds the process's own environment
to restore it (`EnvironmentIsLent`).

**Only model-checked.** All liveness (`SavedTurnIsHandled`, `CancelTakesEffect`, `ReaderCatchesUp`,
`StartsWhateverFails`, `ShutdownReleases`, `LeasesAreReleased`, `CloseSettles`) is out of the prover's reach. The findings are
counterexamples, which only TLC gives.

## Not modelled

Everything marked *not_modelled* in `PROJECT.json`, with its reason there, and of the parts
that are *partly* modelled:

* dialogues: the prompt with earlier messages for a new session, lists and single reads,
  encoding and validation of cursors;
* the runtime's integration: mapping of faults and of requests, profiles; wrappers of
  subscriptions and the cache of agent configurations, which have no second actor in the middle of a step;
* runs without a temporary directory; queries of runs, which pass through to the run manager;
* projects: their records (requirements, decisions, work plans), each a single call of the
  content engine, and the dataset of a removed project;
* the core runtime: lifecycle events, order of routes, start from the command line;
* playbook catalog, review, workspaces, file system, bootstrap of the content store, API
  surface, errors and configuration: one transaction or one external call each, or data
  transformation. Pagination is one pure computation of a page over a query.

Most lines of the repository are the generated database client, which has no
behaviour of its own.
