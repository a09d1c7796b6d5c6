------------------------- MODULE DialogueLifecycle -------------------------
(***************************************************************************)
(* The life of the turns of one dialogue: admission of a message, its      *)
(* dispatch to the agent runtime, the runtime's events, cancellation,      *)
(* interaction responses, session loss, and a crash of the process.        *)
(*                                                                         *)
(* Every database transaction of the source takes the global advisory lock *)
(* first (DialogueChangePublisher.lockWriter), so a transaction is one     *)
(* atomic action.  What is not atomic is what runs between transactions:   *)
(* the dispatcher (one asynchronous task per saved turn), a cancellation   *)
(* and a response, each of which reads in a transaction and then calls the *)
(* runtime.  They keep a program counter.                                  *)
(*                                                                         *)
(* Abstracted: history items, the change feed, versions and read marks     *)
(* (a later module), prompts and payloads, and other dialogues, which      *)
(* share with this one only the lock.  External: the agent runtime         *)
(* (@revisium/revo-agent-runtime), modelled from how the source uses it.   *)
(***************************************************************************)
EXTENDS Naturals, FiniteSets

CONSTANTS
    Turns,            \* turn ids (a message sent is a turn)
    Sessions,         \* runtime session ids, each drawn once by randomUUID
    Requests,         \* interaction requests a runtime may make
    NoTurn,           \* null for a turn id
    NoSession,        \* null for a session id
    RuntimeOutcomes,  \* statuses with which the runtime completes a turn
    MaxCrashes        \* bound on process crashes

ASSUME TurnsAssumption    == NoTurn \notin Turns
ASSUME SessionsAssumption == NoSession \notin Sessions
ASSUME RequestsAssumption == IsFiniteSet(Requests)
ASSUME OutcomesAssumption ==
    RuntimeOutcomes \subseteq
        {"completed", "cancelled", "interrupted", "timed_out", "failed"}
ASSUME CrashesAssumption  == MaxCrashes \in Nat

VARIABLES
    dialogue,      \* the row of the dialogue
    turns,         \* the rows of its turns
    interactions,  \* the rows of its interactions
    dispatcher,    \* per turn: the task of DispatchDialogueTurnHandler
    canceller,     \* per turn: a cancelTurn call that has saved its intent
    responder,     \* per request: a respond call that has saved the response
    sessions,      \* the runtime's sessions
    runtimeTurns,  \* the runtime's turns
    phase,         \* whether the process serves, or is starting after a crash
    crashes        \* process crashes so far

store   == <<dialogue, turns, interactions>>
callers == <<canceller, responder>>
runtime == <<sessions, runtimeTurns>>
process == <<phase, crashes>>
vars    == <<store, dispatcher, callers, runtime, process>>

-----------------------------------------------------------------------------
(* The rows, as prisma/schema.prisma declares them.                        *)

DialogueStatus == {"READY", "QUEUED", "RUNNING", "WAITING", "UNCERTAIN"}

\* The verdicts of a turn, DialogueOutcome in the schema.
Outcomes == {"COMPLETED", "CANCELLED", "INTERRUPTED", "FAILED", "UNCERTAIN"}

\* "NONE" stands for a row that does not exist yet.
TurnStatus    == {"NONE", "QUEUED", "RUNNING", "WAITING"} \cup Outcomes
DispatchState == {"NONE", "SAVED", "DISPATCHING", "ADMITTED", "FINISHED",
                  "UNCERTAIN"}

InteractionStatus == {"NONE", "PENDING", "RESPONDING", "RESOLVED",
                      "ABANDONED"}

DialogueRow == [status : DialogueStatus, activeTurnId : Turns \cup {NoTurn},
                runtimeSessionId : Sessions \cup {NoSession},
                pendingCount : Nat]

TurnRow == [status : TurnStatus, dispatchState : DispatchState,
            cancelRequested : BOOLEAN]

InteractionRow == [status : InteractionStatus,
                   turnId : Turns \cup {NoTurn},
                   session : Sessions \cup {NoSession}]

\* Program counters of the dispatcher, in the order of dispatch():
\*   begin   the saved-turn event is published, beginDispatch is next
\*   read    marked DISPATCHING; the dialogue row is read next
\*   bindNew / bindOld   bindRuntime with / without a new session is next
\*   open    waiting for manager.sessions.open
\*   check   cancelBeforeAdmission is next
\*   send    sendToRuntime is next
\*   flag    the runtime took the turn; the cancel flag is read again next
\*   cancel  calling turn.cancel
\*   watch   waiting for turn.result
\*   failing dispatch threw; persistDispatchFailure is next
\*   lost    persistDispatchFailure itself failed, which is only logged
DispatcherPC == {"none", "begin", "read", "bindNew", "bindOld", "open", "check",
                 "send", "flag", "cancel", "watch", "failing", "lost", "done"}

\* The steps of dispatch() whose exception reaches the catch of handle().
Dispatching == {"begin", "read", "bindNew", "bindOld", "open", "check", "send",
                "flag", "cancel"}

Dispatcher == [pc : DispatcherPC, session : Sessions \cup {NoSession}]
Canceller  == [pc : {"idle", "calling"}, session : Sessions \cup {NoSession}]
Responder  == [pc : {"idle", "delivering", "failing"},
               affected : Turns \cup {NoTurn}]

RuntimeTurn == [state : {"none", "accepted", "started", "ended"},
                session : Sessions \cup {NoSession}, cancelAsked : BOOLEAN]

TypeOK ==
    /\ dialogue \in DialogueRow
    /\ turns \in [Turns -> TurnRow]
    /\ interactions \in [Requests -> InteractionRow]
    /\ dispatcher \in [Turns -> Dispatcher]
    /\ canceller \in [Turns -> Canceller]
    /\ responder \in [Requests -> Responder]
    /\ sessions \in [Sessions -> {"unused", "opening", "open", "closed"}]
    /\ runtimeTurns \in [Turns -> RuntimeTurn]
    /\ phase \in {"up", "booting"}
    /\ crashes \in Nat

Init ==
    /\ dialogue = [status |-> "READY", activeTurnId |-> NoTurn,
                   runtimeSessionId |-> NoSession, pendingCount |-> 0]
    /\ turns = [t \in Turns |-> [status |-> "NONE", dispatchState |-> "NONE",
                                 cancelRequested |-> FALSE]]
    /\ interactions = [r \in Requests |-> [status |-> "NONE", turnId |-> NoTurn,
                                           session |-> NoSession]]
    /\ dispatcher = [t \in Turns |-> [pc |-> "none", session |-> NoSession]]
    /\ canceller = [t \in Turns |-> [pc |-> "idle", session |-> NoSession]]
    /\ responder = [r \in Requests |-> [pc |-> "idle", affected |-> NoTurn]]
    /\ sessions = [s \in Sessions |-> "unused"]
    /\ runtimeTurns = [t \in Turns |-> [state |-> "none", session |-> NoSession,
                                        cancelAsked |-> FALSE]]
    /\ phase = "up"
    /\ crashes = 0

-----------------------------------------------------------------------------
(* Helpers.                                                                *)

Unsettled(t) == turns[t].dispatchState \in {"SAVED", "DISPATCHING", "ADMITTED"}
Settled(t)   == turns[t].dispatchState \in {"FINISHED", "UNCERTAIN"}

\* The interactions the cleanup looks for, in the given rows.
OutstandingIn(rows) ==
    {r \in Requests : rows[r].status \in {"PENDING", "RESPONDING"}}
Outstanding       == OutstandingIn(interactions)
OutstandingOf(t)  == {r \in Outstanding : interactions[r].turnId = t}
Live(s)           == s \in Sessions /\ sessions[s] \in {"opening", "open"}

\* Mistake: a response being delivered is taken for no longer pending.
AbandonOnlyPending(scope) ==
    interactions' = [r \in Requests |->
        IF r \in scope /\ interactions[r].status = "PENDING"
        THEN [interactions[r] EXCEPT !.status = "ABANDONED"]
        ELSE interactions[r]]

\* DialogueInteractionCleanup.abandon, over the interactions in scope.
AbandonInteractions(scope) ==
    interactions' = [r \in Requests |->
        IF r \in scope \cap Outstanding
        THEN [interactions[r] EXCEPT !.status = "ABANDONED"]
        ELSE interactions[r]]

AdvanceTo(t, pc) == dispatcher' = [dispatcher EXCEPT ![t].pc = pc]
LeaveAs(t, pc) ==
    dispatcher' = [dispatcher EXCEPT ![t] = [pc |-> pc, session |-> NoSession]]

\* Mistake: the dialogue keeps pointing at the turn it has finished.
FinishKeepingActive(t, outcome) ==
    /\ turns' = [turns EXCEPT ![t].status = outcome,
                              ![t].dispatchState =
                IF outcome = "UNCERTAIN" THEN "UNCERTAIN" ELSE "FINISHED"]
    /\ AbandonInteractions(Requests)
    /\ dialogue' = [dialogue EXCEPT
          !.status = IF outcome = "UNCERTAIN" THEN "UNCERTAIN" ELSE "READY",
          !.runtimeSessionId = NoSession, !.pendingCount = 0]

\* finishTurn and finishDialogue of a turn that Core itself interrupts.
FinishInterrupted(t, outcome) ==
    /\ turns' = [turns EXCEPT ![t].status = outcome,
                              ![t].dispatchState =
                IF outcome = "UNCERTAIN" THEN "UNCERTAIN" ELSE "FINISHED"]
    /\ AbandonInteractions(Requests)
    /\ dialogue' = [status |-> IF outcome = "UNCERTAIN" THEN "UNCERTAIN"
                                                        ELSE "READY",
                    activeTurnId |-> NoTurn, runtimeSessionId |-> NoSession,
                    pendingCount |-> 0]

\* Mistake: only a turn given up before is not interrupted again.
InterruptibleUnlessUncertain(t) ==
    turns[t].dispatchState \notin {"NONE", "UNCERTAIN"}

\* InterruptDialogueTurnCommand: ignored unless the turn is the active one, is
\* not settled, and the reason still matches.
Interruptible(t) ==
    dialogue.activeTurnId = t /\ turns[t].dispatchState \notin
                                     {"FINISHED", "UNCERTAIN"}

InterruptTurn(t, matches, outcome) ==
    \/ /\ Interruptible(t) /\ matches
       /\ FinishInterrupted(t, outcome)
    \/ /\ ~(Interruptible(t) /\ matches)
       /\ UNCHANGED store

\* The outcome of a reason DISPATCH_FAILURE.
DispatchFailureOutcome(t) ==
    IF turns[t].dispatchState # "ADMITTED" THEN "FAILED" ELSE "UNCERTAIN"

-----------------------------------------------------------------------------
(* Sending a message.                                                      *)

\* A SendDialogueMessageCommand with a new command id.  The event that starts
\* the dispatcher is published in memory, after the transaction.
Send(t) ==
    /\ phase = "up"
    /\ turns[t].status = "NONE"
    /\ dialogue.activeTurnId = NoTurn
    /\ dialogue.status = "READY"
    /\ turns' = [turns EXCEPT ![t].status = "QUEUED",
                              ![t].dispatchState = "SAVED"]
    /\ dialogue' = [dialogue EXCEPT !.status = "QUEUED", !.activeTurnId = t]
    /\ AdvanceTo(t, "begin")
    /\ UNCHANGED <<interactions, callers, runtime, process>>

-----------------------------------------------------------------------------
(* The dispatcher of a turn.  Its steps are dispatch(), in order.          *)

BeginDispatch(t) ==
    /\ dispatcher[t].pc = "begin"
    /\ \/ /\ turns[t].dispatchState # "SAVED"
          /\ LeaveAs(t, "done")
          /\ UNCHANGED store
       \/ /\ turns[t].dispatchState = "SAVED"
          /\ turns[t].cancelRequested
          /\ InterruptTurn(t, TRUE, "CANCELLED")
          /\ LeaveAs(t, "done")
       \/ /\ turns[t].dispatchState = "SAVED"
          /\ ~turns[t].cancelRequested
          /\ turns' = [turns EXCEPT ![t].dispatchState = "DISPATCHING"]
          /\ AdvanceTo(t, "read")
          /\ UNCHANGED <<dialogue, interactions>>
    /\ UNCHANGED <<callers, runtime, process>>

\* getDialogue, outside any transaction.
ReadBinding(t) ==
    /\ dispatcher[t].pc = "read"
    /\ dispatcher' = [dispatcher EXCEPT ![t] =
           [pc |-> IF dialogue.runtimeSessionId = NoSession THEN "bindNew"
                                                            ELSE "bindOld",
            session |-> dialogue.runtimeSessionId]]
    /\ UNCHANGED <<store, callers, runtime, process>>

\* bindRuntime with createStream, then the call of manager.sessions.open.  The
\* transaction does not look whether the turn is still the active one.
BindNewRuntime(t) ==
    /\ dispatcher[t].pc = "bindNew"
    /\ \E s \in Sessions :
          /\ sessions[s] = "unused"
          /\ sessions' = [sessions EXCEPT ![s] = "opening"]
          /\ dialogue' = [dialogue EXCEPT !.runtimeSessionId = s]
          /\ dispatcher' = [dispatcher EXCEPT ![t] = [pc |-> "open",
                                                      session |-> s]]
    /\ UNCHANGED <<turns, interactions, callers, runtimeTurns, process>>

\* bindRuntime without createStream records the session on the turn only,
\* where no operation reads it.
BindExistingRuntime(t) ==
    /\ dispatcher[t].pc = "bindOld"
    /\ AdvanceTo(t, "check")
    /\ UNCHANGED <<store, callers, runtime, process>>

OpenResolves(t) ==
    /\ dispatcher[t].pc = "open"
    /\ sessions[dispatcher[t].session] = "opening"
    /\ sessions' = [sessions EXCEPT ![dispatcher[t].session] = "open"]
    /\ AdvanceTo(t, "check")
    /\ UNCHANGED <<store, callers, runtimeTurns, process>>

\* Mistake: a turn that is finished already is not reported as cancelled.
CancelOnlyUnfinished(t) ==
    /\ dispatcher[t].pc = "check"
    /\ \/ /\ \/ ~turns[t].cancelRequested
             \/ turns[t].dispatchState \in {"ADMITTED", "FINISHED"}
          /\ AdvanceTo(t, "send")
          /\ UNCHANGED store
       \/ /\ turns[t].cancelRequested
          /\ turns[t].dispatchState \notin {"ADMITTED", "FINISHED"}
          /\ InterruptTurn(t, TRUE, "CANCELLED")
          /\ LeaveAs(t, "done")
    /\ UNCHANGED <<callers, runtime, process>>

CancelBeforeAdmission(t) ==
    /\ dispatcher[t].pc = "check"
    /\ \/ /\ ~turns[t].cancelRequested \/ turns[t].dispatchState = "ADMITTED"
          /\ AdvanceTo(t, "send")
          /\ UNCHANGED store
       \/ /\ turns[t].cancelRequested /\ turns[t].dispatchState # "ADMITTED"
          /\ InterruptTurn(t, TRUE, "CANCELLED")
          /\ LeaveAs(t, "done")
    /\ UNCHANGED <<callers, runtime, process>>

\* session.send.  The runtime takes a turn only in a session that is open.
SendToRuntime(t) ==
    /\ dispatcher[t].pc = "send"
    /\ sessions[dispatcher[t].session] = "open"
    /\ runtimeTurns' = [runtimeTurns EXCEPT ![t] =
           [state |-> "accepted", session |-> dispatcher[t].session,
            cancelAsked |-> FALSE]]
    /\ AdvanceTo(t, "flag")
    /\ UNCHANGED <<store, callers, sessions, process>>

\* Mistake: the flag checked before admission is trusted after it.
TrustEarlierCancelFlag(t) ==
    /\ dispatcher[t].pc = "flag"
    /\ LeaveAs(t, "watch")
    /\ UNCHANGED <<store, callers, runtime, process>>

\* isCancellationRequested, outside any transaction.
ReadCancelFlag(t) ==
    /\ dispatcher[t].pc = "flag"
    /\ LeaveAs(t, IF turns[t].cancelRequested THEN "cancel" ELSE "watch")
    /\ UNCHANGED <<store, callers, runtime, process>>

RuntimeHas(t) == runtimeTurns[t].state \in {"accepted", "started"}

\* turn.cancel, which does nothing to a turn that has ended.
AskToCancel(t) ==
    runtimeTurns' = [runtimeTurns EXCEPT ![t].cancelAsked = RuntimeHas(t)]

CancelFromDispatcher(t) ==
    /\ dispatcher[t].pc = "cancel"
    /\ AskToCancel(t)
    /\ AdvanceTo(t, "watch")
    /\ UNCHANGED <<store, callers, sessions, process>>

\* turn.result resolves; its value is only reported.
ResultResolves(t) ==
    /\ dispatcher[t].pc = "watch"
    /\ runtimeTurns[t].state = "ended"
    /\ AdvanceTo(t, "done")
    /\ UNCHANGED <<store, callers, runtime, process>>

\* turn.result rejects, at any time: persistDispatchFailure is next.
ResultRejects(t) ==
    /\ dispatcher[t].pc = "watch"
    /\ AdvanceTo(t, "failing")
    /\ UNCHANGED <<store, callers, runtime, process>>

\* Mistake: a dispatch that failed is tried once more.
RetryDispatch(t) ==
    /\ dispatcher[t].pc \in Dispatching
    /\ LeaveAs(t, "read")
    /\ UNCHANGED <<store, callers, runtime, process>>

\* A step of dispatch() throws: a transaction, a read, open, send or cancel.
DispatchFails(t) ==
    /\ dispatcher[t].pc \in Dispatching
    /\ sessions' = IF dispatcher[t].pc = "open"
                   THEN [sessions EXCEPT ![dispatcher[t].session] = "closed"]
                   ELSE sessions
    /\ LeaveAs(t, "failing")
    /\ UNCHANGED <<store, callers, runtimeTurns, process>>

PersistDispatchFailure(t) ==
    /\ dispatcher[t].pc = "failing"
    /\ InterruptTurn(t, TRUE, DispatchFailureOutcome(t))
    /\ AdvanceTo(t, "done")
    /\ UNCHANGED <<callers, runtime, process>>

\* The catch of persistDispatchFailure: the turn keeps its dispatch state.
PersistFailureLost(t) ==
    /\ dispatcher[t].pc = "failing"
    /\ AdvanceTo(t, "lost")
    /\ UNCHANGED <<store, callers, runtime, process>>

-----------------------------------------------------------------------------
(* Cancelling a turn, answering an interaction, reopening the dialogue.    *)

\* The transaction of CancelDialogueTurnCommand: the intent is saved and the
\* session bound at that moment is the one the runtime call will use.
CancelTurn(t) ==
    /\ phase = "up"
    /\ turns[t].status # "NONE"
    /\ canceller[t].pc = "idle"
    /\ turns' = [turns EXCEPT ![t].cancelRequested =
                    @ \/ turns[t].dispatchState # "FINISHED"]
    /\ canceller' =
          IF /\ turns[t].dispatchState # "FINISHED"
             /\ dialogue.runtimeSessionId # NoSession
          THEN [canceller EXCEPT ![t] = [pc |-> "calling",
                                         session |-> dialogue.runtimeSessionId]]
          ELSE canceller
    /\ UNCHANGED <<dialogue, interactions, dispatcher, responder, runtime,
                   process>>

\* manager.sessions.getTurn(session, turn)?.cancel().
CancelRuntimeTurn(t) ==
    /\ canceller[t].pc = "calling"
    /\ IF runtimeTurns[t].session = canceller[t].session
       THEN AskToCancel(t)
       ELSE UNCHANGED runtimeTurns
    /\ canceller' = [canceller EXCEPT ![t] = [pc |-> "idle",
                                              session |-> NoSession]]
    /\ UNCHANGED <<store, dispatcher, responder, sessions, process>>

\* saveResponse of RespondDialogueCommand.  A command repeated returns what is
\* stored; only a pending interaction takes a first response.
Respond(r) ==
    /\ phase = "up"
    /\ interactions[r].status = "PENDING"
    /\ interactions' = [interactions EXCEPT ![r].status = "RESPONDING"]
    /\ responder' = [responder EXCEPT ![r] =
           [pc |-> "delivering",
            affected |-> IF interactions[r].turnId # NoTurn
                         THEN interactions[r].turnId
                         ELSE dialogue.activeTurnId]]
    /\ UNCHANGED <<dialogue, turns, dispatcher, canceller, runtime, process>>

\* session.respond resolves; the runtime reports the resolution by an event.
ResponseDelivered(r) ==
    /\ responder[r].pc = "delivering"
    /\ Live(interactions[r].session)
    /\ responder' = [responder EXCEPT ![r] = [pc |-> "idle",
                                              affected |-> NoTurn]]
    /\ UNCHANGED <<store, dispatcher, canceller, runtime, process>>

\* The session is gone, or session.respond rejects.
ResponseFails(r) ==
    /\ responder[r].pc = "delivering"
    /\ responder' = [responder EXCEPT ![r].pc = "failing"]
    /\ UNCHANGED <<store, dispatcher, canceller, runtime, process>>

\* findRespondingInteraction and the comparison with dialogue and turn.
AwaitsResponseOn(r, t) ==
    /\ interactions[r].status = "RESPONDING"
    /\ dialogue.runtimeSessionId = interactions[r].session
    /\ interactions[r].turnId \in {NoTurn, t}

\* responseDeliveryFailed.
ResponseDeliveryFailed(r) ==
    /\ responder[r].pc = "failing"
    /\ \/ /\ responder[r].affected # NoTurn
          /\ InterruptTurn(responder[r].affected,
                           AwaitsResponseOn(r, responder[r].affected),
                           "UNCERTAIN")
       \/ /\ responder[r].affected = NoTurn
          /\ interactions[r].status = "RESPONDING"
          /\ dialogue.runtimeSessionId = interactions[r].session
          /\ dialogue.activeTurnId = NoTurn
          /\ AbandonInteractions({r})
          /\ dialogue' = [dialogue EXCEPT !.status = "UNCERTAIN",
                                          !.pendingCount = 0,
                                          !.runtimeSessionId = NoSession]
          /\ UNCHANGED turns
       \/ /\ responder[r].affected = NoTurn
          /\ \/ interactions[r].status # "RESPONDING"
             \/ dialogue.runtimeSessionId # interactions[r].session
             \/ dialogue.activeTurnId # NoTurn
          /\ UNCHANGED store
    /\ responder' = [responder EXCEPT ![r] = [pc |-> "idle",
                                              affected |-> NoTurn]]
    /\ UNCHANGED <<dispatcher, canceller, runtime, process>>

\* ReopenDialogueCommand (no operation sets the status CLOSED).
Reopen ==
    /\ phase = "up"
    /\ dialogue.status = "UNCERTAIN"
    /\ AbandonInteractions(Requests)
    /\ dialogue' = [status |-> "READY", activeTurnId |-> NoTurn,
                    runtimeSessionId |-> NoSession, pendingCount |-> 0]
    /\ UNCHANGED <<turns, dispatcher, callers, runtime, process>>

-----------------------------------------------------------------------------
(* The runtime's events.  Each handler is one transaction that journals    *)
(* the event and, if it concerns the bound session and the active turn,    *)
(* changes the rows.  The runtime (external) waits for the journal, so an  *)
(* event and its handler are one action.                                   *)

Concerns(s)      == dialogue.runtimeSessionId = s
ConcernsTurn(t)  == /\ Concerns(runtimeTurns[t].session)
                    /\ dialogue.activeTurnId = t
Ended            == [state |-> "ended", session |-> NoSession,
                     cancelAsked |-> FALSE]

TurnStarted(t) ==
    /\ phase = "up"
    /\ runtimeTurns[t].state = "accepted"
    /\ Live(runtimeTurns[t].session)
    /\ runtimeTurns' = [runtimeTurns EXCEPT ![t].state = "started"]
    /\ \/ /\ ConcernsTurn(t)
          /\ turns' = [turns EXCEPT ![t].status = "RUNNING",
                                    ![t].dispatchState = "ADMITTED"]
          /\ dialogue' = [dialogue EXCEPT !.status = "RUNNING"]
          /\ UNCHANGED interactions
       \/ ~ConcernsTurn(t) /\ UNCHANGED store
    /\ UNCHANGED <<dispatcher, callers, sessions, process>>

\* Mistake: the runtime's word is stored as it came.
TurnOutcomeUnmapped(outcome) == outcome

\* turnOutcome of CompleteDialogueTurnHandler.
TurnOutcome(outcome) ==
    CASE outcome = "completed" -> "COMPLETED"
      [] outcome = "cancelled" -> "CANCELLED"
      [] outcome \in {"interrupted", "timed_out"} -> "INTERRUPTED"
      [] OTHER -> "FAILED"

\* The interactions of the session outlive the turn: only the turn's own are
\* abandoned, and the session stays bound.
CompleteTurn(t, outcome) ==
    LET remaining == Outstanding \ OutstandingOf(t) IN
    /\ turns' = [turns EXCEPT ![t].status = TurnOutcome(outcome),
                              ![t].dispatchState = "FINISHED"]
    /\ AbandonInteractions(OutstandingOf(t))
    /\ dialogue' = [dialogue EXCEPT
          !.status = IF remaining # {} THEN "WAITING" ELSE "READY",
          !.activeTurnId = NoTurn,
          !.pendingCount = Cardinality(remaining)]

TurnCompleted(t) ==
    /\ phase = "up"
    /\ RuntimeHas(t)
    /\ Live(runtimeTurns[t].session)
    /\ runtimeTurns' = [runtimeTurns EXCEPT ![t] = Ended]
    /\ \/ /\ ConcernsTurn(t)
          /\ \E outcome \in RuntimeOutcomes : CompleteTurn(t, outcome)
       \/ ~ConcernsTurn(t) /\ UNCHANGED store
    /\ UNCHANGED <<dispatcher, callers, sessions, process>>

\* An interaction of a turn (the runtime asks only in a turn it has started)
\* or, with NoTurn, of the session, which may ask while it is still opening.
Askable(s, t) ==
    /\ Live(s)
    /\ t # NoTurn => runtimeTurns[t].state = "started"
                     /\ runtimeTurns[t].session = s

InteractionRequested(r, s, t) ==
    /\ phase = "up"
    /\ interactions[r].status = "NONE"
    /\ Askable(s, t)
    /\ Concerns(s)
    /\ t # NoTurn => dialogue.activeTurnId = t
    /\ interactions' = [interactions EXCEPT ![r] =
           [status |-> "PENDING", turnId |-> t, session |-> s]]
    /\ turns' = IF t = NoTurn THEN turns
                ELSE [turns EXCEPT ![t].status = "WAITING"]
    /\ dialogue' = [dialogue EXCEPT !.status = "WAITING",
                                    !.pendingCount = @ + 1]
    /\ UNCHANGED <<dispatcher, callers, runtime, process>>

\* Mistake: the dialogue goes on although other interactions are outstanding.
StatusForgettingOthers(remaining) ==
    IF dialogue.activeTurnId = NoTurn THEN "READY" ELSE "RUNNING"

\* dialogueStatus of ResolveDialogueInteractionHandler.
StatusAfterInteraction(remaining) ==
    CASE remaining # {} -> "WAITING"
      [] remaining = {} /\ dialogue.activeTurnId = NoTurn -> "READY"
      [] remaining = {} /\ dialogue.activeTurnId # NoTurn -> "RUNNING"

\* Mistake: the turn goes on although it has another question open.
TurnStatusForgettingOthers(t, r) == "RUNNING"

\* updateTurnAfterInteraction.
TurnStatusAfterInteraction(t, r) ==
    IF OutstandingOf(t) \ {r} # {} THEN "WAITING" ELSE "RUNNING"

\* The runtime resolves a request, because it was answered or by itself.
InteractionResolved(r) ==
    LET remaining == Outstanding \ {r}
        t         == interactions[r].turnId
    IN
    /\ phase = "up"
    /\ interactions[r].status \in {"PENDING", "RESPONDING"}
    /\ Live(interactions[r].session)
    /\ Concerns(interactions[r].session)
    /\ interactions' = [interactions EXCEPT ![r].status = "RESOLVED"]
    /\ dialogue' = [dialogue EXCEPT
          !.status = StatusAfterInteraction(remaining),
          !.pendingCount = Cardinality(remaining)]
    /\ turns' = IF t # NoTurn /\ turns[t].dispatchState # "FINISHED"
                THEN [turns EXCEPT ![t].status =
                                       TurnStatusAfterInteraction(t, r)]
                ELSE turns
    /\ UNCHANGED <<dispatcher, callers, runtime, process>>

\* What the end of a session does to the turns it was running.
EndSession(s) ==
    /\ sessions' = [sessions EXCEPT ![s] = "closed"]
    /\ runtimeTurns' = [t \in Turns |-> IF runtimeTurns[t].session = s
                                        THEN Ended ELSE runtimeTurns[t]]

\* closeIdleSession and closeActiveSession.
CloseIdleSession ==
    /\ AbandonInteractions(Requests)
    /\ dialogue' = [dialogue EXCEPT !.status = "READY",
                                    !.runtimeSessionId = NoSession,
                                    !.pendingCount = 0]
    /\ UNCHANGED turns

CloseActiveSession(t, outcome) ==
    /\ turns' = IF turns[t].dispatchState # "FINISHED"
                THEN [turns EXCEPT ![t].status = outcome,
                                   ![t].dispatchState = "FINISHED"]
                ELSE turns
    /\ AbandonInteractions(Requests)
    /\ dialogue' = [status |-> "READY", activeTurnId |-> NoTurn,
                    runtimeSessionId |-> NoSession, pendingCount |-> 0]

SessionClosed(s) ==
    /\ phase = "up"
    /\ Live(s)
    /\ EndSession(s)
    /\ \/ /\ Concerns(s)
          /\ dialogue.activeTurnId = NoTurn
          /\ CloseIdleSession
       \/ /\ Concerns(s)
          /\ dialogue.activeTurnId # NoTurn
          /\ \E outcome \in {"CANCELLED", "FAILED"} :
                CloseActiveSession(dialogue.activeTurnId, outcome)
       \/ ~Concerns(s) /\ UNCHANGED store
    /\ UNCHANGED <<dispatcher, callers, process>>

\* The runtime loses a session without a journalled event (external).
SessionVanishes(s) ==
    /\ phase = "up"
    /\ Live(s)
    /\ EndSession(s)
    /\ UNCHANGED <<store, dispatcher, callers, process>>

-----------------------------------------------------------------------------
(* A crash of the process, and the reconciliation before it serves again.  *)

\* Tasks, callers and the in-process runtime are gone; the rows stay.
Crash ==
    /\ phase = "up"
    /\ crashes < MaxCrashes
    /\ dispatcher' = [t \in Turns |->
           [pc |-> IF dispatcher[t].pc = "none" THEN "none" ELSE "done",
            session |-> NoSession]]
    /\ canceller' = [t \in Turns |-> [pc |-> "idle", session |-> NoSession]]
    /\ responder' = [r \in Requests |-> [pc |-> "idle", affected |-> NoTurn]]
    /\ sessions' = [s \in Sessions |->
           IF sessions[s] = "unused" THEN "unused" ELSE "closed"]
    /\ runtimeTurns' = [t \in Turns |-> IF runtimeTurns[t].state = "none"
                                        THEN runtimeTurns[t] ELSE Ended]
    /\ phase' = "booting"
    /\ crashes' = crashes + 1
    /\ UNCHANGED store

\* detachIdleRuntime.
DetachIdleRuntime ==
    /\ AbandonInteractions(Requests)
    /\ dialogue' = IF Outstanding # {}
                   THEN [dialogue EXCEPT !.runtimeSessionId = NoSession,
                                         !.status = "UNCERTAIN",
                                         !.pendingCount = 0]
                   ELSE [dialogue EXCEPT !.runtimeSessionId = NoSession]
    /\ UNCHANGED turns

\* Mistake: only dialogues with an active turn are looked for.
ReconcileActiveOnly ==
    LET t == dialogue.activeTurnId IN
    /\ phase = "booting"
    /\ \/ t # NoTurn /\ InterruptTurn(t, TRUE, "UNCERTAIN")
       \/ t = NoTurn /\ UNCHANGED store
    /\ phase' = "up"
    /\ UNCHANGED <<dispatcher, callers, runtime, crashes>>

\* Mistake: a turn that was only saved is left for a dispatcher that is gone.
ReconcileSkippingSaved ==
    LET t == dialogue.activeTurnId IN
    /\ phase = "booting"
    /\ \/ /\ t # NoTurn
          /\ turns[t].dispatchState # "SAVED"
          /\ InterruptTurn(t, TRUE, "UNCERTAIN")
       \/ t # NoTurn /\ turns[t].dispatchState = "SAVED" /\ UNCHANGED store
       \/ t = NoTurn /\ DetachIdleRuntime
    /\ phase' = "up"
    /\ UNCHANGED <<dispatcher, callers, runtime, crashes>>

\* ReconcileDialogueRuntimeStateCommand, on application bootstrap.
Reconcile ==
    LET t == dialogue.activeTurnId IN
    /\ phase = "booting"
    /\ \/ /\ t # NoTurn
          /\ turns[t].dispatchState # "FINISHED"
          /\ InterruptTurn(t, TRUE, "UNCERTAIN")
       \/ /\ IF t = NoTurn THEN dialogue.runtimeSessionId # NoSession
                           ELSE turns[t].dispatchState = "FINISHED"
          /\ DetachIdleRuntime
       \/ /\ t = NoTurn /\ dialogue.runtimeSessionId = NoSession
          /\ UNCHANGED store
    /\ phase' = "up"
    /\ UNCHANGED <<dispatcher, callers, runtime, crashes>>

-----------------------------------------------------------------------------
(* The specification.                                                      *)

Dispatch(t) ==
    \/ BeginDispatch(t) \/ ReadBinding(t) \/ BindNewRuntime(t)
    \/ BindExistingRuntime(t) \/ OpenResolves(t) \/ CancelBeforeAdmission(t)
    \/ SendToRuntime(t) \/ ReadCancelFlag(t) \/ CancelFromDispatcher(t)
    \/ DispatchFails(t) \/ PersistDispatchFailure(t) \/ PersistFailureLost(t)

Next ==
    \/ \E t \in Turns :
          \/ Send(t) \/ Dispatch(t) \/ ResultResolves(t) \/ ResultRejects(t)
          \/ CancelTurn(t) \/ CancelRuntimeTurn(t)
          \/ TurnStarted(t) \/ TurnCompleted(t)
    \/ \E r \in Requests :
          \/ Respond(r) \/ ResponseDelivered(r) \/ ResponseFails(r)
          \/ ResponseDeliveryFailed(r) \/ InteractionResolved(r)
          \/ \E s \in Sessions, t \in Turns \cup {NoTurn} :
                InteractionRequested(r, s, t)
    \/ \E s \in Sessions : SessionClosed(s) \/ SessionVanishes(s)
    \/ Reopen \/ Crash \/ Reconcile

Spec == Init /\ [][Next]_vars

\* Only the tasks of the process itself are fair: a dispatcher goes on until
\* the runtime has the turn, a saved cancellation is passed on, and a process
\* that crashed is started again.  Users and the runtime promise nothing.
Fairness ==
    /\ \A t \in Turns : WF_vars(Dispatch(t)) /\ WF_vars(CancelRuntimeTurn(t))
    /\ WF_vars(Reconcile)

FairSpec == Spec /\ Fairness

-----------------------------------------------------------------------------
(* Safety.                                                                 *)

\* The dialogue's pointer and the turns' dispatch states are written by
\* different statements of eight handlers; they must always agree: a turn is
\* unsettled exactly while it is the active one, so never two at once and
\* none left behind.
ActiveTurnIsTheUnsettledOne ==
    \A t \in Turns : Unsettled(t) <=> dialogue.activeTurnId = t

\* The status shown to clients, and tested when a message is sent, agrees with
\* the work there is: READY only with nothing active or awaited, UNCERTAIN
\* only with nothing active, WAITING only for something.
StatusAgreesWithWork ==
    CASE dialogue.status = "READY" ->
            dialogue.activeTurnId = NoTurn /\ dialogue.pendingCount = 0
      [] dialogue.status = "QUEUED" ->
            /\ dialogue.activeTurnId # NoTurn
            /\ turns[dialogue.activeTurnId].status = "QUEUED"
      [] dialogue.status = "RUNNING" -> dialogue.activeTurnId # NoTurn
      [] dialogue.status = "WAITING" -> dialogue.pendingCount > 0
      [] dialogue.status = "UNCERTAIN" -> dialogue.activeTurnId = NoTurn

\* pendingCount, incremented in one handler and recounted or zeroed in others,
\* is the number of outstanding interactions until the dialogue is given up as
\* UNCERTAIN.  A failed response may leave interactions of a session behind; a
\* dispatcher that outlived its turn may then bind another session, and a
\* count that starts again there misses them: with interactions of a session
\* that is no longer bound it is a lower bound only.
PendingCountExact ==
    dialogue.status # "UNCERTAIN" =>
        /\ dialogue.pendingCount <= Cardinality(Outstanding)
        /\ (\A r \in Outstanding : Concerns(interactions[r].session)) =>
               dialogue.pendingCount = Cardinality(Outstanding)

\* A turn is WAITING exactly while an interaction of its own is outstanding:
\* no turn is settled over an open question, and none waits for nothing.
TurnWaitsForAnswers ==
    \A t \in Turns : turns[t].status = "WAITING" <=> OutstandingOf(t) # {}

\* A turn the runtime has ever taken is not given to it again: not after a
\* crash, not after a failed dispatch.
NoBlindResend ==
    \A t \in Turns :
        dispatcher[t].pc \in Dispatching \ {"flag", "cancel"} =>
            runtimeTurns[t].state = "none"

HandedOver(t) ==
    runtimeTurns[t].state = "none" /\ runtimeTurns'[t].state = "accepted"

\* A turn that its user asked to cancel and that is shown as CANCELLED is not
\* handed to the runtime afterwards in the session the dialogue is bound to,
\* although the dispatcher checks the flag, opens and sends in separate steps.
CancelledByUserIsNotHandedOver ==
    [][\A t \in Turns :
          HandedOver(t) /\ Concerns(runtimeTurns'[t].session) =>
             ~(turns[t].cancelRequested /\ turns[t].status = "CANCELLED")]_vars

\* A cancellation saved at any moment of a dispatch reaches the runtime: when
\* dispatcher and caller are through and the active turn still runs in the
\* bound session, the runtime has been asked to cancel it.
NoLostCancel ==
    \A t \in Turns :
        /\ turns[t].cancelRequested
        /\ dialogue.activeTurnId = t
        /\ dialogue.runtimeSessionId = runtimeTurns[t].session
        /\ RuntimeHas(t)
        /\ dispatcher[t].pc = "watch"
        /\ canceller[t].pc = "idle"
        => runtimeTurns[t].cancelAsked

\* When the process serves again after a crash, nothing of the dialogue refers
\* to the runtime that is gone, and a turn that was open has become UNCERTAIN.
RestartSettles ==
    [][phase = "booting" /\ phase' = "up" =>
          /\ dialogue'.activeTurnId = NoTurn
          /\ dialogue'.runtimeSessionId = NoSession
          /\ dialogue'.status \in {"READY", "UNCERTAIN"}
          /\ dialogue'.pendingCount = 0
          /\ \A t \in Turns : Unsettled(t) => turns'[t].status = "UNCERTAIN"
      ]_vars

-----------------------------------------------------------------------------
(* The inductive invariant behind ActiveTurnIsTheUnsettledOne and the      *)
(* refinement: what a handler relies on when it clears activeTurnId or     *)
(* writes the status of the turn of an interaction.                        *)

\* Reopening clears activeTurnId without looking at it.
UncertainIsIdle ==
    dialogue.status = "UNCERTAIN" => dialogue.activeTurnId = NoTurn

\* An outstanding interaction is of the session or of the active turn, so its
\* resolution cannot touch the status of a settled turn.
QuestionsAreOfActiveTurn ==
    \A r \in Outstanding :
        interactions[r].turnId # NoTurn =>
            interactions[r].turnId = dialogue.activeTurnId

UnsentTurnsAreUntouched ==
    \A t \in Turns :
        turns[t].status = "NONE" <=> turns[t].dispatchState = "NONE"

StoreInv ==
    /\ ActiveTurnIsTheUnsettledOne
    /\ UncertainIsIdle
    /\ QuestionsAreOfActiveTurn
    /\ UnsentTurnsAreUntouched

-----------------------------------------------------------------------------
(* What tests of the repository say and the code does not keep.            *)

\* dialogue-graphql.test.ts:380 "cancels a saved command before runtime
\* admission without starting the agent".  A dispatcher that outlived its turn
\* binds its session over the one of a newer turn; when it closes, that turn,
\* which its user asked to cancel, is CANCELLED with it, and its own dispatcher
\* still starts the agent, in a session the dialogue no longer knows.
CancelledTurnStartsNoAgent ==
    [][\A t \in Turns : HandedOver(t) =>
          ~(turns[t].cancelRequested /\ turns[t].status = "CANCELLED")]_vars

\* dialogue-contract-edges.test.ts:534 "persists response delivery uncertainty
\* when delivery fails after save".  With its session bound and no newer turn
\* active, an interaction whose delivery failed must not stay RESPONDING; it
\* does when the turn active at the time of the response has ended meanwhile.
FailedDeliveryIsRecorded ==
    [][\A r \in Requests :
          /\ responder[r].pc = "failing" /\ responder'[r].pc = "idle"
          /\ phase' = "up"
          /\ dialogue.activeTurnId = NoTurn
          /\ dialogue.runtimeSessionId = interactions[r].session
          => interactions'[r].status # "RESPONDING"]_vars

\* dialogue-graphql.test.ts:853 "keeps dialogue and turn waiting until
\* permission and input interactions are resolved".  The start of a turn makes
\* a dialogue RUNNING over an interaction its session had asked for before.
WaitsUntilResolved == Outstanding # {} => dialogue.status # "RUNNING"

-----------------------------------------------------------------------------
(* Refinement.                                                             *)

\* The verdict a client can read off the rows.
Verdict(t) ==
    CASE turns[t].dispatchState = "NONE" -> "unsent"
      [] Unsettled(t) -> "open"
      [] OTHER -> turns[t].status

Ledger == INSTANCE TurnLedger WITH verdict <- [t \in Turns |-> Verdict(t)]

\* The rows implement the ledger: a message is admitted only when no turn is
\* open, and the verdict of a turn, once given, is never revised by a late
\* event, a second failure or the reconciliation.
ImplementsTurnLedger == Ledger!Spec

-----------------------------------------------------------------------------
(* Liveness, under FairSpec.                                               *)

\* The dispatcher of t gave up and could not even record it.
Abandoned(t) == dispatcher[t].pc = "lost"

\* A saved turn does not stay saved: it reaches the runtime or is settled,
\* across crashes too, unless recording a dispatch failure failed itself.
SavedTurnIsHandled ==
    \A t \in Turns :
        turns[t].dispatchState = "SAVED" ~>
            Settled(t) \/ RuntimeHas(t) \/ Abandoned(t)

\* The runtime has the turn, its dispatcher has looked at the flag for the last
\* time, and a dispatcher that outlived its turn has bound another session over
\* the one of this turn.
Displaced(t) ==
    dispatcher[t].pc = "watch" /\ ~Concerns(runtimeTurns[t].session)

\* A cancellation requested of an open turn, at whatever step of its dispatch
\* and whatever else is under way, ends it or reaches the runtime, unless the
\* turn was displaced before: then the cancel goes to the session that is
\* bound, and the runtime does not know the turn there (finding 1).
CancelTakesEffect ==
    \A t \in Turns :
        turns[t].cancelRequested /\ Unsettled(t) /\ ~Displaced(t) ~>
            \/ Settled(t) \/ Abandoned(t)
            \/ runtimeTurns[t].cancelAsked
            \/ runtimeTurns[t].state = "ended"
=============================================================================
